------------------------------ MODULE ApiKeys ------------------------------
(***************************************************************************)
(* API keys of Business subscribers.  createApiKey counts the owner's keys *)
(* in one query and inserts one in another; the secret is in the answer    *)
(* only, which the audit log's insert can still turn into an error.        *)
(***************************************************************************)
EXTENDS Maps, Clock, FiniteSets

CONSTANTS
    Owners,
    KeyIds,
    KeyCalls,         \* bound: handlers suspended at the same time
    KeyLimit          \* keys of one owner, ten in the code

ASSUME ApiKeysAssumption ==
    /\ IsFiniteSet(KeyIds) /\ KeyLimit \in Nat \ {0}

VARIABLES
    business,         \* owners whose subscription row says BUSINESS
    apiKeys,          \* the rows: owner, expiry, whether revoked
    keyCalls,         \* what a suspended handler knows
    secrets,          \* history: keys whose secret reached the owner
    passed,           \* history: keys that a verification accepted
    overtaken,        \* history: handlers that counted before another's insert
    extra             \* history: keys that those inserted

keyVars == <<business, apiKeys, keyCalls, secrets, passed, overtaken, extra>>
overlaps == <<overtaken, extra>>

KeyIdle == [op |-> "idle"]

KeysInit ==
    /\ business = {} /\ apiKeys = EmptyMap
    /\ keyCalls = [c \in KeyCalls |-> KeyIdle]
    /\ secrets = {} /\ passed = {} /\ overtaken = {} /\ extra = {}

Goes(c, call) == keyCalls' = [keyCalls EXCEPT ![c] = call]

ActiveKeys(o) ==
    {k \in DOMAIN apiKeys : apiKeys[k].owner = o /\ ~apiKeys[k].revoked}

\* The subscription changes.
ChangeTier(o) ==
    /\ business' = IF o \in business THEN business \ {o} ELSE business \cup {o}
    /\ UNCHANGED <<apiKeys, keyCalls, secrets, passed, overlaps>>

\* (mutant) Revoked keys are left out twice: one more is allowed.
CreateApiKeyOneMore(c, o) ==
    /\ keyCalls[c] = KeyIdle
    /\ o \in business
    /\ Cardinality(ActiveKeys(o)) <= KeyLimit
    /\ Goes(c, [op |-> "insert", owner |-> o])
    /\ UNCHANGED <<business, apiKeys, secrets, passed, overlaps>>

\* createApiKey: the owner, the tier and the keys are read at once.
CreateApiKey(c, o) ==
    /\ keyCalls[c] = KeyIdle
    /\ o \in business
    /\ Cardinality(ActiveKeys(o)) < KeyLimit
    /\ Goes(c, [op |-> "insert", owner |-> o])
    /\ UNCHANGED <<business, apiKeys, secrets, passed, overlaps>>

\* The handlers that have counted the keys of an owner, and will insert one.
Inserting(o) ==
    {c \in KeyCalls : keyCalls[c].op = "insert" /\ keyCalls[c].owner = o}

\* The caller chooses the expiry, any date or none.
InsertKey(c, k, expires) ==
    /\ keyCalls[c].op = "insert"
    /\ k \notin DOMAIN apiKeys
    /\ apiKeys' = Put(apiKeys, k, [owner |-> keyCalls[c].owner, expires |-> expires,
                                   revoked |-> FALSE])
    /\ Goes(c, [op |-> "audit", key |-> k])
    /\ overtaken' = (overtaken \cup Inserting(keyCalls[c].owner)) \ {c}
    /\ extra' = IF c \in overtaken THEN extra \cup {k} ELSE extra
    /\ UNCHANGED <<business, secrets, passed>>

\* The audit log is written, and the answer holds the secret; or it cannot be, and the
\* key that exists is nobody's.
AuditKey(c) ==
    /\ keyCalls[c].op = "audit"
    /\ secrets' \in {secrets, secrets \cup {keyCalls[c].key}}
    /\ Goes(c, KeyIdle)
    /\ UNCHANGED <<business, apiKeys, passed, overlaps>>

\* revokeApiKey finds an active key of the caller, then updates the row by its id.
RevokeApiKey(c, k) ==
    /\ keyCalls[c] = KeyIdle
    /\ k \in DOMAIN apiKeys /\ ~apiKeys[k].revoked
    /\ Goes(c, [op |-> "revoke", key |-> k])
    /\ UNCHANGED <<business, apiKeys, secrets, passed, overlaps>>

UpdateRevoked(c) ==
    /\ keyCalls[c].op = "revoke"
    /\ apiKeys' = [apiKeys EXCEPT ![keyCalls[c].key].revoked = TRUE]
    /\ Goes(c, KeyIdle)
    /\ UNCHANGED <<business, secrets, passed, overlaps>>

\* verifyApiKey, up to the count of the recent uses; the limit on them is reported to
\* the caller and not enforced.
VerifyApiKey(c, k) ==
    /\ keyCalls[c] = KeyIdle
    /\ k \in secrets
    /\ ~apiKeys[k].revoked
    /\ apiKeys[k].expires >= now
    /\ apiKeys[k].owner \in business
    /\ Goes(c, [op |-> "accept", key |-> k])
    /\ UNCHANGED <<business, apiKeys, secrets, passed, overlaps>>

AcceptKey(c) ==
    /\ keyCalls[c].op = "accept"
    /\ passed' = passed \cup {keyCalls[c].key}
    /\ Goes(c, KeyIdle)
    /\ UNCHANGED <<business, apiKeys, secrets, overlaps>>

KeysNext(ends) ==
    \/ \E o \in Owners : ChangeTier(o) /\ UNCHANGED now
    \/ \E c \in KeyCalls :
          /\ \/ AuditKey(c) \/ UpdateRevoked(c) \/ AcceptKey(c)
             \/ \E o \in Owners : CreateApiKey(c, o)
             \/ \E k \in KeyIds : \/ \E e \in ends : InsertKey(c, k, e)
                                  \/ RevokeApiKey(c, k) \/ VerifyApiKey(c, k)
          /\ UNCHANGED now
    \/ TickClock /\ UNCHANGED keyVars

(***************************************************************************)
(* Properties                                                              *)
(***************************************************************************)

\* An owner has no more keys than the limit, but for those whose creation counted the keys
\* before another had inserted one (createApiKey).
KeysWithinLimit ==
    \A o \in Owners : Cardinality(ActiveKeys(o) \ extra) <= KeyLimit

KeysTypeOK ==
    /\ business \subseteq Owners
    /\ MapOf(apiKeys, KeyIds, [owner : Owners, expires : Nat, revoked : BOOLEAN])
    /\ passed \subseteq secrets /\ secrets \subseteq DOMAIN apiKeys
    /\ overtaken \subseteq KeyCalls /\ extra \subseteq DOMAIN apiKeys
    /\ \A c \in KeyCalls : "key" \in DOMAIN keyCalls[c] => keyCalls[c].key \in DOMAIN apiKeys
=============================================================================
