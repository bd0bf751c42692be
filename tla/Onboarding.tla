----------------------------- MODULE Onboarding -----------------------------
(***************************************************************************)
(* The wizard that a new user goes through: a free or a premium path, the  *)
(* identity, the profile, relays that are suggested for the identity,      *)
(* follows, feeds, a review from which every step can be edited, and the   *)
(* submission.                                                             *)
(***************************************************************************)
EXTENDS Integers

CONSTANTS
    Pubkeys,          \* identities that are generated or imported
    Submits           \* bound: submissions under way

VARIABLES
    step, path,
    pubkey, named, paid,      \* of state.identity
    profileNip05,             \* the name of the premium path is in the profile
    sourceKey, selected,      \* of state.relays, selected by where the selection is from
    suggesting,               \* requests for suggestions, by what they are for
    submitted,                \* the payloads under way
    accepted,                 \* history: the payloads that the server took
    completed

wizardVars == <<step, path, pubkey, named, paid, profileNip05, sourceKey, selected,
                suggesting, submitted, accepted, completed>>

MaxStep == 7
Nokey == "no key"
Popular == "popular"
Unknown == "unknown"
NoSubmit == [path |-> Unknown]

Source(key) == IF key = Nokey THEN Popular ELSE key
Sources == {Popular} \cup Pubkeys

WizardInit ==
    /\ step = 0 /\ path = Unknown
    /\ pubkey = Nokey /\ named = FALSE /\ paid = FALSE /\ profileNip05 = FALSE
    /\ sourceKey = Unknown /\ selected = "none" /\ suggesting = {}
    /\ submitted = [s \in Submits |-> NoSubmit] /\ accepted = {} /\ completed = FALSE

unchangedIdentity == UNCHANGED <<pubkey, named, paid, profileNip05>>
unchangedRelays == UNCHANGED <<sourceKey, selected>>
unchangedSubmits == UNCHANGED <<submitted, accepted, completed>>

\* (mutant) The answer to the request of an earlier step still counts.
GoesToUncancelled(next) ==
    /\ step' = next
    /\ suggesting' = IF next = 3 /\ sourceKey # Source(pubkey)
                     THEN suggesting \cup {Source(pubkey)} ELSE suggesting

\* The effect of a step: the relay step asks for the suggestions of the identity unless it
\* has them, and leaving it cancels the request.
GoesTo(next) ==
    /\ step' = next
    /\ suggesting' = IF next = 3 /\ sourceKey # Source(pubkey) THEN {Source(pubkey)} ELSE {}

Shown == ~completed /\ step < MaxStep

\* A free path gives up the payment, and keeps what the premium one put in the profile.
ChoosePath(chosen) ==
    /\ Shown /\ step = 0
    /\ path' = chosen
    /\ paid' = (chosen = "premium" /\ paid)
    /\ GoesTo(IF chosen = "premium" THEN 1 ELSE 2)
    /\ UNCHANGED <<pubkey, named, profileNip05>> /\ unchangedRelays /\ unchangedSubmits

\* The button of the premium step asks for all of the identity.
MayContinue == step \in 2..5 \/ (step = 1 /\ pubkey # Nokey /\ named /\ paid)

GoNext ==
    /\ Shown /\ MayContinue
    /\ GoesTo(step + 1)
    /\ UNCHANGED path /\ unchangedIdentity /\ unchangedRelays /\ unchangedSubmits

\* (mutant) The first step has a way back, too.
GoBackFurther ==
    /\ Shown
    /\ GoesTo(IF path = "free" /\ step = 2 THEN 0 ELSE step - 1)
    /\ UNCHANGED path /\ unchangedIdentity /\ unchangedRelays /\ unchangedSubmits

GoBack ==
    /\ Shown /\ step > 0
    /\ GoesTo(IF path = "free" /\ step = 2 THEN 0 ELSE step - 1)
    /\ UNCHANGED path /\ unchangedIdentity /\ unchangedRelays /\ unchangedSubmits

\* The edit buttons of the review.
EditStep(next) ==
    /\ Shown /\ step = 6
    /\ next \in (IF path = "premium" THEN {1} ELSE {0}) \cup 2..5
    /\ GoesTo(next)
    /\ UNCHANGED path /\ unchangedIdentity /\ unchangedRelays /\ unchangedSubmits

\* generateKeys and importPrivateKey: the suggestions are no longer the identity's, what
\* was selected from them stays.
SetKey(key) ==
    /\ Shown /\ step = 1
    /\ pubkey' = key /\ sourceKey' = Unknown
    /\ UNCHANGED <<step, path, named, paid, profileNip05, selected, suggesting>>
    /\ unchangedSubmits

\* updateIdentity with a name, or with none; the profile takes over its nip05 either way.
SetName(given) ==
    /\ Shown /\ step = 1
    /\ named' = given /\ profileNip05' = TRUE
    /\ UNCHANGED <<step, path, pubkey, paid, suggesting>>
    /\ unchangedRelays /\ unchangedSubmits

MarkPaymentComplete ==
    /\ Shown /\ step = 1
    /\ paid' = TRUE
    /\ UNCHANGED <<step, path, pubkey, named, profileNip05, suggesting>>
    /\ unchangedRelays /\ unchangedSubmits

\* The suggestions arrive; a selection that is already there stays.
Suggested(source) ==
    /\ source \in suggesting
    /\ sourceKey' = source
    /\ selected' = IF selected = "none" THEN source ELSE selected
    /\ suggesting' = suggesting \ {source}
    /\ UNCHANGED <<step, path>> /\ unchangedIdentity /\ unchangedSubmits

SuggestionFails(source) ==
    /\ source \in suggesting
    /\ suggesting' = suggesting \ {source}
    /\ UNCHANGED <<step, path>> /\ unchangedIdentity /\ unchangedRelays /\ unchangedSubmits

\* toggleRelay and addManualRelay.
SelectRelays(own) ==
    /\ Shown /\ step = 3
    /\ selected' = IF own THEN "own" ELSE "none"
    /\ UNCHANGED <<step, path, sourceKey, suggesting>> /\ unchangedIdentity /\ unchangedSubmits

\* The button of the review, as often as it is clicked: what it sends is from that moment.
Complete(s) ==
    /\ Shown /\ step = 6 /\ submitted[s] = NoSubmit
    /\ submitted' = [submitted EXCEPT ![s] =
          [path |-> path, pubkey |-> pubkey, named |-> named, paid |-> paid,
           nip05 |-> profileNip05]]
    /\ UNCHANGED <<step, path, suggesting, accepted, completed>>
    /\ unchangedIdentity /\ unchangedRelays

\* Wherever the user is by now, the wizard is at its end.
Completed(s) ==
    /\ submitted[s] # NoSubmit
    /\ accepted' = accepted \cup {submitted[s]}
    /\ completed' = TRUE /\ GoesTo(MaxStep)
    /\ submitted' = [submitted EXCEPT ![s] = NoSubmit]
    /\ UNCHANGED path /\ unchangedIdentity /\ unchangedRelays

CompletionFails(s) ==
    /\ submitted[s] # NoSubmit
    /\ submitted' = [submitted EXCEPT ![s] = NoSubmit]
    /\ UNCHANGED <<step, path, suggesting, accepted, completed>>
    /\ unchangedIdentity /\ unchangedRelays

WizardNext ==
    \/ \E chosen \in {"premium", "free"} : ChoosePath(chosen)
    \/ GoNext \/ GoBack \/ \E next \in 0..5 : EditStep(next)
    \/ \E key \in Pubkeys : SetKey(key)
    \/ \E given \in BOOLEAN : SetName(given) \/ SelectRelays(given)
    \/ MarkPaymentComplete
    \/ \E source \in Sources : Suggested(source) \/ SuggestionFails(source)
    \/ \E s \in Submits : Complete(s) \/ Completed(s) \/ CompletionFails(s)

(***************************************************************************)
(* Properties                                                              *)
(***************************************************************************)

\* However the user goes back and forth, the suggested relays are those of the identity,
\* and nobody passes the premium step, or is submitted, as premium without a key, a name
\* and a payment.
WizardIsConsistent ==
    /\ sourceKey \in {Unknown, Source(pubkey)}
    /\ path = "premium" /\ step > 1 /\ ~completed => pubkey # Nokey /\ named /\ paid
    /\ \A payload \in accepted :
          payload.path = "premium" => payload.pubkey # Nokey /\ payload.named /\ payload.paid

WizardTypeOK ==
    /\ step \in 0..MaxStep /\ path \in {Unknown, "free", "premium"}
    /\ pubkey \in Pubkeys \cup {Nokey}
    /\ {named, paid, profileNip05, completed} \subseteq BOOLEAN
    /\ sourceKey \in Sources \cup {Unknown} /\ selected \in Sources \cup {"none", "own"}
    /\ suggesting \subseteq Sources
=============================================================================
