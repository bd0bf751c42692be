---------------------------- MODULE Verification ---------------------------
(***************************************************************************)
(* Whether the domain of an address names a public key.  The answers are   *)
(* cached by the address alone, a refusal with the key that it names; the  *)
(* checks of one address overlap, and store in the order they end.  The    *)
(* timer of a check runs until the domain begins to answer; reading the    *)
(* body may take any time.                                                 *)
(***************************************************************************)
EXTENDS Clock, Maps, Integers

CONSTANTS
    Addresses,
    Claimants,        \* public keys
    Nobody,           \* an answer that names no key
    Checks,           \* bound: checks under way
    VerifyTtl,        \* NIP05_VERIFY_CACHE_TTL_MS
    FetchTime         \* a domain that has not begun to answer by then is given up

ASSUME VerificationAssumption ==
    /\ VerifyTtl \in Nat \ {0} /\ FetchTime \in Nat
    /\ Nobody \notin Claimants

VARIABLES
    wellKnown,        \* the key in nostr.json of the address's domain
    verifications,    \* verificationCache
    checks,           \* with a history: the keys named while the timer may run
    refusedAt,        \* history: when a refusal for another's key was last stored
    told              \* history: the answer that verifyAddress has just given

verificationVars == <<wellKnown, verifications, checks, refusedAt, told>>

NoCheck == [at |-> "none"]
NotTold == [verified |-> FALSE, refused |-> FALSE]
\* So long ago that nothing can rest on it.
Never == -VerifyTtl

VerificationInit ==
    /\ wellKnown = [a \in Addresses |-> Nobody]
    /\ verifications = EmptyMap
    /\ checks = [c \in Checks |-> NoCheck]
    /\ refusedAt = [a \in Addresses |-> Never]
    /\ told = NotTold

\* What a caller is told; heard: the domain answered, and kept to one key from question to
\* answer, so that a caller with this key should not have been refused.
Tell(a, expected, value, heard) ==
    told' = [verified |-> value.verified, resolved |-> value.resolved, address |-> a,
             expected |-> expected, at |-> now, asked |-> value.asked,
             read |-> value.expiresAt - VerifyTtl, named |-> value.named,
             refused |-> heard /\ ~value.verified /\ expected = wellKnown[a]]

\* (mutant) The cached answer is for whoever asks.
IsFreshForAll(a, expected) == a \in DOMAIN verifications /\ verifications[a].expiresAt > now

\* A refusal is kept with the key that the domain names, and is given to this key.
IsFresh(a, expected) ==
    /\ a \in DOMAIN verifications /\ verifications[a].expiresAt > now
    /\ expected = verifications[a].resolved

\* verifyAddress, with an answer in the cache.
VerifyCached(a, expected) ==
    /\ IsFresh(a, expected)
    /\ Tell(a, expected, verifications[a], TRUE)
    /\ UNCHANGED <<now, wellKnown, verifications, checks, refusedAt>>

\* verifyAddress, which getUnifiedIdentities too calls with the key of the login.
VerifyAsks(c, a, expected) ==
    /\ checks[c] = NoCheck /\ ~IsFresh(a, expected)
    /\ checks' = [checks EXCEPT ![c] = [at |-> "asked", address |-> a, expected |-> expected,
                                        since |-> now, names |-> Nobody, steady |-> TRUE,
                                        named |-> {wellKnown[a]}]]
    /\ told' = NotTold
    /\ UNCHANGED <<now, wellKnown, verifications, refusedAt>>

\* The headers are here, which clears the timer; what the body says is decided.
DomainAnswers(c) ==
    /\ checks[c].at = "asked"
    /\ checks' = [checks EXCEPT ![c].at = "answered", ![c].names = wellKnown[checks[c].address]]
    /\ told' = NotTold
    /\ UNCHANGED <<now, wellKnown, verifications, refusedAt>>

\* An answer or a failure becomes a value; a failure names no key, and every caller has one,
\* so that it is stored for nobody.  History: when its question was put, and whether the
\* domain named the key before the timer of the question ran out.
ValueOf(check, names) ==
    [verified |-> check.expected = names, resolved |-> names, expiresAt |-> now + VerifyTtl,
     asked |-> check.since, named |-> names \in check.named]

Stores(c, names, heard) ==
    LET a == checks[c].address
        value == ValueOf(checks[c], names)
    IN /\ verifications' = Put(verifications, a, value)
       /\ refusedAt' = [refusedAt EXCEPT ![a] =
             IF ~value.verified /\ names # Nobody THEN now ELSE @]
       /\ Tell(a, checks[c].expected, value, heard)
       /\ checks' = [checks EXCEPT ![c] = NoCheck]
       /\ UNCHANGED <<now, wellKnown>>

AnswerArrives(c) ==
    checks[c].at = "answered" /\ Stores(c, checks[c].names, checks[c].steady)

\* A status that is not ok, a body that cannot be parsed, an abort, no connection.
FetchFails(c) == checks[c] # NoCheck /\ Stores(c, Nobody, FALSE)

\* (history) What the domain says while the timer of a check may run.
InTime(check) == now <= check.since + FetchTime

DomainChanges(a, key) ==
    /\ key # wellKnown[a]
    /\ wellKnown' = [wellKnown EXCEPT ![a] = key]
    /\ checks' = [c \in Checks |->
          IF checks[c] # NoCheck /\ checks[c].address = a
          THEN [checks[c] EXCEPT !.steady = FALSE,
                                 !.named = IF InTime(checks[c]) THEN @ \cup {key} ELSE @]
          ELSE checks[c]]
    /\ told' = NotTold
    /\ UNCHANGED <<now, verifications, refusedAt>>

\* (history) A moment on which nothing can rest from the next one on is forgotten.
StillCounts(moment, span) == IF now + 1 < moment + span THEN moment ELSE Never

\* A domain that does not begin to answer is given up in time.
VerificationTick ==
    /\ TickClock
    /\ \A c \in Checks : checks[c].at = "asked" => now < checks[c].since + FetchTime
    /\ refusedAt' = [a \in Addresses |-> StillCounts(refusedAt[a], VerifyTtl)]
    /\ told' = NotTold
    /\ UNCHANGED <<wellKnown, verifications, checks>>

VerificationNext ==
    \/ VerificationTick
    \/ \E a \in Addresses :
          \/ \E key \in Claimants \cup {Nobody} : DomainChanges(a, key)
          \/ \E expected \in Claimants :
                \/ VerifyCached(a, expected)
                \/ \E c \in Checks : VerifyAsks(c, a, expected)
    \/ \E c \in Checks : DomainAnswers(c) \/ AnswerArrives(c) \/ FetchFails(c)

(***************************************************************************)
(* Properties                                                              *)
(***************************************************************************)

Within(moment, span) == told.at < moment + span

\* However checks overlap and the domain changes, whoever is told "verified" asked for the
\* key that the answer names; and the domain named it between the question that the answer
\* is to and the end of its timer.  This is at most the life of an answer and of the timer
\* ago, unless the body was read only after the timer, which nothing bounds.  And a key
\* that the domain answers for and keeps to is refused only while the refusal of a check
\* for another key is in the cache, which does not refuse more than its time.
VerifiedWasNamed ==
    /\ told.verified =>
          /\ told.expected = told.resolved /\ told.named
          /\ Within(told.asked, VerifyTtl + FetchTime) \/ told.read > told.asked + FetchTime
    /\ told.refused => Within(refusedAt[told.address], VerifyTtl)

VerificationTypeOK ==
    /\ \A a \in DOMAIN verifications :
          /\ a \in Addresses /\ verifications[a].verified \in BOOLEAN
          /\ verifications[a].resolved \in Claimants \cup {Nobody}
    /\ \A c \in Checks : checks[c].at \in {"none", "asked", "answered"}
    /\ \A a \in Addresses : wellKnown[a] \in Claimants \cup {Nobody}
=============================================================================
