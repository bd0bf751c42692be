---------------------------- MODULE AccessProofs ----------------------------
(***************************************************************************)
(* What holds of who is let in, for any keys, overlapping handlers and     *)
(* clocks: API keys, the challenges and events of logins, and the          *)
(* addresses that were checked against their domains.                      *)
(***************************************************************************)
EXTENDS PlatformProofs

(***************************************************************************)
(* API keys                                                                *)
(***************************************************************************)

KeyRow == [owner : Owners, expires : Nat, revoked : BOOLEAN]
InsertCall == [op : {"insert"}, owner : Owners]
OnKeyCall(rows, given) ==
    [op : {"audit", "revoke"}, key : rows] \cup [op : {"accept"}, key : given]

KeysTyped ==
    /\ business \subseteq Owners
    /\ MapOf(apiKeys, KeyIds, KeyRow)
    /\ keyCalls \in [KeyCalls -> {KeyIdle} \cup InsertCall \cup OnKeyCall(DOMAIN apiKeys, secrets)]
    /\ passed \subseteq secrets /\ secrets \subseteq DOMAIN apiKeys
    /\ overtaken \subseteq KeyCalls /\ extra \subseteq DOMAIN apiKeys

\* Handlers whose count of an owner's keys is that of the table: no key was inserted since.
Counted(o) == Inserting(o) \ overtaken

\* An owner has room for what such a handler will insert.
RoomForKeys ==
    \A o \in Owners :
        /\ Cardinality(ActiveKeys(o) \ extra) <= KeyLimit
        /\ \A c \in Counted(o) : Cardinality(ActiveKeys(o)) < KeyLimit

KeysInv == KeysTyped /\ RoomForKeys

\* Keys are counted, and of fewer keys there are no more.
LEMMA KeyCounts ==
    ASSUME NEW S \in SUBSET KeyIds, NEW T \in SUBSET S
    PROVE  /\ IsFiniteSet(S) /\ Cardinality(S) \in Nat
           /\ Cardinality(T) \in Nat /\ Cardinality(T) <= Cardinality(S)
    <1>1. IsFiniteSet(S) /\ Cardinality(S) \in Nat
        BY FS_Subset, FS_CardinalityType, ApiKeysAssumption
    <1>2. QED BY <1>1, FS_Subset, FS_CardinalityType

LEMMA KeysInitInv == Init => KeysInv
    <1> SUFFICES ASSUME KeysInit PROVE KeysInv
        BY DEF Init
    <1>1. KeysTyped
        BY DEF KeysInit, KeysTyped, MapOf, EmptyMap
    <1>2. \A o \in Owners : ActiveKeys(o) \ extra = {} /\ Counted(o) = {}
        BY DEF KeysInit, ActiveKeys, Counted, Inserting, EmptyMap, KeyIdle
    <1>3. RoomForKeys
        BY <1>2, FS_EmptySet, ApiKeysAssumption DEF RoomForKeys
    <1>4. QED BY <1>1, <1>3 DEF KeysInv

\* A step that gives no owner another key, nor a handler that has counted the keys.
LEMMA NoMoreKeys ==
    ASSUME KeysInv, KeysTyped', extra \subseteq extra',
           \A o \in Owners : ActiveKeys(o)' \subseteq ActiveKeys(o)
                             /\ Counted(o)' \subseteq Counted(o)
    PROVE  KeysInv'
    <1>1. ASSUME NEW o \in Owners
          PROVE  /\ Cardinality(ActiveKeys(o)' \ extra') <= KeyLimit
                 /\ \A c \in Counted(o)' : Cardinality(ActiveKeys(o)') < KeyLimit
        <2>1. PICK active, activeNext, few, fewNext :
                 /\ active = ActiveKeys(o) /\ activeNext = ActiveKeys(o)'
                 /\ few = ActiveKeys(o) \ extra /\ fewNext = ActiveKeys(o)' \ extra'
            OBVIOUS
        <2>2. active \in SUBSET KeyIds /\ few \in SUBSET KeyIds
            BY <2>1 DEF KeysInv, KeysTyped, MapOf, ActiveKeys
        <2>3. activeNext \in SUBSET active /\ fewNext \in SUBSET few
            BY <1>1, <2>1
        <2>4. /\ Cardinality(activeNext) <= Cardinality(active)
              /\ Cardinality(fewNext) <= Cardinality(few)
              /\ Cardinality(activeNext) \in Nat /\ Cardinality(active) \in Nat
              /\ Cardinality(fewNext) \in Nat /\ Cardinality(few) \in Nat
            BY <2>2, <2>3, KeyCounts
        <2>5. /\ Cardinality(few) <= KeyLimit
              /\ \A c \in Counted(o) : Cardinality(active) < KeyLimit
            BY <1>1, <2>1 DEF KeysInv, RoomForKeys
        <2>6. Counted(o)' \subseteq Counted(o)
            BY <1>1
        <2>7. QED BY <2>1, <2>4, <2>5, <2>6, ApiKeysAssumption
    <1>2. QED BY <1>1 DEF KeysInv, RoomForKeys

\* One handler goes on with a call that inserts nothing.
LEMMA CallGoesOn ==
    ASSUME KeysTyped, NEW c \in KeyCalls, NEW call, Goes(c, call), call.op # "insert",
           UNCHANGED overlaps
    PROVE  \A o \in Owners : Counted(o)' \subseteq Counted(o)
    BY DEF KeysTyped, Goes, Inserting, Counted, overlaps

LEMMA CreateApiKeyInv ==
    ASSUME KeysInv, NEW c \in KeyCalls, NEW o \in Owners, CreateApiKey(c, o)
    PROVE  KeysInv'
    <1>1. PICK call : call = [op |-> "insert", owner |-> o]
        OBVIOUS
    <1>2. /\ keyCalls[c].op = "idle" /\ keyCalls' = [keyCalls EXCEPT ![c] = call]
          /\ Cardinality(ActiveKeys(o)) < KeyLimit
          /\ UNCHANGED <<business, apiKeys, secrets, passed, overtaken, extra>>
          /\ keyCalls \in [KeyCalls -> {KeyIdle} \cup InsertCall \cup OnKeyCall(DOMAIN apiKeys, secrets)]
        BY <1>1 DEF CreateApiKey, KeyIdle, Goes, KeysInv, KeysTyped, overlaps
    <1>3. call \in InsertCall
        BY <1>1 DEF InsertCall
    <1>4. KeysTyped'
        BY <1>2, <1>3 DEF KeysInv, KeysTyped
    <1>5. ASSUME NEW p \in Owners
          PROVE  /\ Cardinality(ActiveKeys(p)' \ extra') <= KeyLimit
                 /\ \A d \in Counted(p)' : Cardinality(ActiveKeys(p)') < KeyLimit
        <2>1. ActiveKeys(p)' = ActiveKeys(p) /\ extra' = extra
            BY <1>2 DEF ActiveKeys
        <2>2. p # o => Counted(p)' = Counted(p)
            BY <1>1, <1>2 DEF Counted, Inserting
        <2>3. QED BY <1>2, <2>1, <2>2 DEF KeysInv, RoomForKeys
    <1>6. QED BY <1>4, <1>5 DEF KeysInv, RoomForKeys

LEMMA InsertKeyInv ==
    ASSUME KeysInv, NEW c \in KeyCalls, NEW k \in KeyIds, NEW e \in KeyEnds, InsertKey(c, k, e)
    PROVE  KeysInv'
    <1>1. PICK owner : owner = keyCalls[c].owner
        OBVIOUS
    <1>2. PICK row, call : row = [owner |-> owner, expires |-> e, revoked |-> FALSE]
                           /\ call = [op |-> "audit", key |-> k]
        OBVIOUS
    <1>3. /\ keyCalls[c].op = "insert" /\ k \notin DOMAIN apiKeys
          /\ apiKeys' = Put(apiKeys, k, row) /\ keyCalls' = [keyCalls EXCEPT ![c] = call]
          /\ overtaken' = (overtaken \cup Inserting(owner)) \ {c}
          /\ extra' = IF c \in overtaken THEN extra \cup {k} ELSE extra
          /\ UNCHANGED <<business, secrets, passed>>
          /\ keyCalls \in [KeyCalls -> {KeyIdle} \cup InsertCall \cup OnKeyCall(DOMAIN apiKeys, secrets)]
          /\ KeysTyped
        BY <1>1, <1>2 DEF InsertKey, Goes, KeysInv, KeysTyped
    <1>4. owner \in Owners
        BY <1>1, <1>3 DEF KeyIdle, InsertCall, OnKeyCall
    <1>5. row \in KeyRow
        BY <1>2, <1>4, PlatformAssumption DEF KeyRow
    <1>11. row.owner = owner /\ ~row.revoked
        BY <1>2
    <1>6. /\ DOMAIN apiKeys' = DOMAIN apiKeys \cup {k} /\ apiKeys'[k] = row
          /\ \A i \in DOMAIN apiKeys : apiKeys'[i] = apiKeys[i]
        BY <1>3 DEF Put
    <1>7. KeysTyped'
        <2>1. MapOf(apiKeys', KeyIds, KeyRow)
            BY <1>3, <1>5, <1>6 DEF KeysTyped, MapOf
        <2>2. call \in OnKeyCall(DOMAIN apiKeys', secrets)
            BY <1>2, <1>6 DEF OnKeyCall
        <2>3. OnKeyCall(DOMAIN apiKeys, secrets) \subseteq OnKeyCall(DOMAIN apiKeys', secrets)
            BY <1>6 DEF OnKeyCall
        <2>4. keyCalls' \in [KeyCalls -> {KeyIdle} \cup InsertCall \cup OnKeyCall(DOMAIN apiKeys', secrets)]
            BY <1>3, <2>2, <2>3
        <2>5. overtaken' \subseteq KeyCalls /\ extra' \subseteq DOMAIN apiKeys'
            BY <1>3, <1>6 DEF KeysTyped, Inserting
        <2>6. QED BY <1>3, <1>6, <2>1, <2>4, <2>5 DEF KeysTyped
    <1>8. call.op = "audit"
        BY <1>2
    <1>9. ASSUME NEW p \in Owners
          PROVE  /\ Cardinality(ActiveKeys(p)' \ extra') <= KeyLimit
                 /\ \A d \in Counted(p)' : Cardinality(ActiveKeys(p)') < KeyLimit
        <2>1. PICK active, few, fewNext : /\ active = ActiveKeys(p) /\ few = active \ extra
                                          /\ fewNext = ActiveKeys(p)' \ extra'
            OBVIOUS
        <2>2. active \in SUBSET KeyIds /\ few \in SUBSET active
            BY <1>3, <2>1 DEF KeysTyped, MapOf, ActiveKeys
        <2>3. /\ IsFiniteSet(active) /\ Cardinality(active) \in Nat /\ Cardinality(few) \in Nat
            BY <2>2, KeyCounts
        <2>4. /\ Cardinality(few) <= KeyLimit
              /\ \A d \in Counted(p) : Cardinality(active) < KeyLimit
            BY <2>1 DEF KeysInv, RoomForKeys
        <2>5. CASE p = owner
            <3>1. ActiveKeys(p)' = active \cup {k} /\ k \notin active
                BY <1>3, <1>6, <1>11, <2>1, <2>5 DEF ActiveKeys
            <3>2. k \notin extra /\ c \in Inserting(p)
                BY <1>1, <1>3, <2>5 DEF KeysTyped, Inserting
            <3>3. \A d \in KeyCalls : d \notin Counted(p)'
                BY <1>3, <1>8, <2>5 DEF Counted, Inserting
            <3>4. CASE c \in overtaken
                <4>1. fewNext = few
                    BY <1>3, <2>1, <3>1, <3>2, <3>4
                <4>2. QED BY <2>1, <2>4, <3>3, <4>1 DEF Counted, Inserting
            <3>5. CASE c \notin overtaken
                <4>1. Cardinality(active) < KeyLimit
                    BY <2>4, <3>2, <3>5 DEF Counted
                <4>2. PICK more : more = active \cup {k}
                    OBVIOUS
                <4>3. more \in SUBSET KeyIds /\ fewNext \in SUBSET more
                    BY <2>1, <2>2, <3>1, <4>2
                <4>4. Cardinality(more) = Cardinality(active) + 1
                    BY <2>3, <3>1, <4>2, FS_AddElement
                <4>5. Cardinality(fewNext) \in Nat /\ Cardinality(fewNext) <= Cardinality(more)
                    BY <4>3, KeyCounts
                <4>6. Cardinality(fewNext) <= KeyLimit
                    BY <2>3, <4>1, <4>4, <4>5, ApiKeysAssumption
                <4>7. QED BY <2>1, <3>3, <4>6 DEF Counted, Inserting
            <3>6. QED BY <3>4, <3>5
        <2>6. CASE p # owner
            <3>1. ActiveKeys(p)' = active
                BY <1>3, <1>6, <1>11, <2>1, <2>6 DEF ActiveKeys
            <3>2. Counted(p)' \subseteq Counted(p)
                BY <1>1, <1>3, <1>8, <2>6 DEF Counted, Inserting
            <3>3. fewNext \in SUBSET few
                BY <1>3, <2>1, <3>1
            <3>4. Cardinality(fewNext) \in Nat /\ Cardinality(fewNext) <= Cardinality(few)
                <4>1. few \in SUBSET KeyIds
                    BY <2>2
                <4>2. QED BY <3>3, <4>1, KeyCounts
            <3>5. Cardinality(fewNext) <= KeyLimit
                BY <2>3, <2>4, <3>4, ApiKeysAssumption
            <3>6. QED BY <2>1, <2>4, <3>1, <3>2, <3>5
        <2>7. QED BY <2>5, <2>6
    <1>10. QED BY <1>7, <1>9 DEF KeysInv, RoomForKeys

\* The other handlers give nobody a key.
LEMMA OtherKeyCallsInv ==
    ASSUME KeysInv, NEW c \in KeyCalls,
           \/ AuditKey(c) \/ AcceptKey(c)
           \/ \E k \in KeyIds : RevokeApiKey(c, k) \/ VerifyApiKey(c, k)
    PROVE  KeysInv'
    <1>1. KeysTyped /\ UNCHANGED <<business, apiKeys, overtaken, extra, overlaps>>
        BY DEF overlaps, KeysInv, AuditKey, AcceptKey, RevokeApiKey, VerifyApiKey
    <1>2. \E call \in {KeyIdle} \cup OnKeyCall(DOMAIN apiKeys, secrets') :
             /\ Goes(c, call)
             /\ passed' \subseteq secrets' /\ secrets \subseteq secrets'
             /\ secrets' \subseteq DOMAIN apiKeys
        <2>1. CASE AuditKey(c)
            BY <1>1, <2>1 DEF AuditKey, KeysTyped, KeyIdle, InsertCall, OnKeyCall
        <2>2. CASE AcceptKey(c)
            BY <1>1, <2>2 DEF AcceptKey, KeysTyped, KeyIdle, InsertCall, OnKeyCall
        <2>3. ASSUME NEW k \in KeyIds, RevokeApiKey(c, k)
              PROVE  \E call \in {KeyIdle} \cup OnKeyCall(DOMAIN apiKeys, secrets') :
                 /\ Goes(c, call)
                 /\ passed' \subseteq secrets' /\ secrets \subseteq secrets'
                 /\ secrets' \subseteq DOMAIN apiKeys
            BY <1>1, <2>3 DEF RevokeApiKey, KeysTyped, OnKeyCall
        <2>4. ASSUME NEW k \in KeyIds, VerifyApiKey(c, k)
              PROVE  \E call \in {KeyIdle} \cup OnKeyCall(DOMAIN apiKeys, secrets') :
                 /\ Goes(c, call)
                 /\ passed' \subseteq secrets' /\ secrets \subseteq secrets'
                 /\ secrets' \subseteq DOMAIN apiKeys
            BY <1>1, <2>4 DEF VerifyApiKey, KeysTyped, OnKeyCall
        <2>5. QED BY <2>1, <2>2, <2>3, <2>4
    <1>3. PICK call \in {KeyIdle} \cup OnKeyCall(DOMAIN apiKeys, secrets') :
             /\ Goes(c, call)
             /\ passed' \subseteq secrets' /\ secrets \subseteq secrets'
             /\ secrets' \subseteq DOMAIN apiKeys
        BY <1>2
    <1>4. KeysTyped'
        <2>1. OnKeyCall(DOMAIN apiKeys, secrets) \subseteq OnKeyCall(DOMAIN apiKeys, secrets')
            BY <1>3 DEF OnKeyCall
        <2>2. keyCalls' \in [KeyCalls -> {KeyIdle} \cup InsertCall \cup OnKeyCall(DOMAIN apiKeys, secrets')]
            BY <1>1, <1>3, <2>1 DEF KeysTyped, Goes
        <2>3. QED BY <1>1, <1>3, <2>2 DEF KeysTyped
    <1>5. call.op # "insert"
        BY <1>3 DEF KeyIdle, OnKeyCall
    <1>6. \A o \in Owners : Counted(o)' \subseteq Counted(o) /\ ActiveKeys(o)' \subseteq ActiveKeys(o)
        BY <1>1, <1>3, <1>5, CallGoesOn DEF ActiveKeys
    <1>7. QED BY <1>1, <1>4, <1>6, NoMoreKeys

LEMMA UpdateRevokedInv ==
    ASSUME KeysInv, NEW c \in KeyCalls, UpdateRevoked(c)
    PROVE  KeysInv'
    <1>1. PICK k : k = keyCalls[c].key
        OBVIOUS
    <1>2. /\ k \in DOMAIN apiKeys /\ KeysTyped /\ Goes(c, KeyIdle)
          /\ apiKeys' = [apiKeys EXCEPT ![k].revoked = TRUE]
          /\ UNCHANGED <<business, secrets, passed, overtaken, extra, overlaps>>
        BY <1>1 DEF overlaps, UpdateRevoked, KeysInv, KeysTyped, KeyIdle, InsertCall, OnKeyCall
    <1>3. /\ DOMAIN apiKeys' = DOMAIN apiKeys /\ apiKeys'[k] = [apiKeys[k] EXCEPT !.revoked = TRUE]
          /\ \A i \in DOMAIN apiKeys \ {k} : apiKeys'[i] = apiKeys[i]
        BY <1>2
    <1>4. apiKeys[k] \in KeyRow
        BY <1>2 DEF KeysTyped, MapOf
    <1>5. KeysTyped'
        BY <1>2, <1>3, <1>4 DEF KeysTyped, MapOf, KeyRow, Goes
    <1>6. KeyIdle.op # "insert"
        BY DEF KeyIdle
    <1>7. \A o \in Owners : ActiveKeys(o)' \subseteq ActiveKeys(o)
        BY <1>2, <1>3, <1>4 DEF ActiveKeys, KeyRow
    <1>8. QED BY <1>2, <1>5, <1>6, <1>7, CallGoesOn, NoMoreKeys

LEMMA KeysStepInv == KeysInv /\ (KeysNext(KeyEnds) \/ UNCHANGED keyVars) => KeysInv'
    <1> SUFFICES ASSUME KeysInv, KeysNext(KeyEnds) \/ UNCHANGED keyVars PROVE KeysInv'
        OBVIOUS
    <1>1. CASE UNCHANGED keyVars
        BY <1>1, NoMoreKeys DEF keyVars, KeysInv, KeysTyped, ActiveKeys, Counted, Inserting
    <1>2. ASSUME NEW o \in Owners, ChangeTier(o) PROVE KeysInv'
        BY <1>2, NoMoreKeys DEF ChangeTier, overlaps, KeysInv, KeysTyped, ActiveKeys, Counted, Inserting
    <1>3. QED
        BY <1>1, <1>2, CreateApiKeyInv, InsertKeyInv, OtherKeyCallsInv, UpdateRevokedInv
           DEF KeysNext

\* (createApiKey) For any owners, keys and overlapping handlers: an owner has no more keys
\* than the limit, but for those whose creation counted the keys before another had inserted
\* one.
THEOREM KeysAreLimited == Spec => []KeysWithinLimit
    <1>1. Init => KeysInv
        BY KeysInitInv
    <1>2. KeysInv /\ [Next]_platformVars => KeysInv'
        BY KeysStepInv DEF Next, platformVars
    <1>3. KeysInv => KeysWithinLimit
        BY DEF KeysInv, RoomForKeys, KeysWithinLimit
    <1>4. QED BY <1>1, <1>2, <1>3, PTL DEF Spec

(***************************************************************************)
(* Logins and requests                                                     *)
(***************************************************************************)

LoginOps == {"use", "find", "insert", "link", "session", "verify"}
LoginRequest == [op : LoginOps, login : Challenges \cup K1s \cup {AnyKey}, key : Keys]

ChallengeRow == [key : Keys \cup {AnyKey}, expires : Nat, used : BOOLEAN]
LnurlRow ==
    [status : {"pending", "verified"}, key : Keys \cup {AnyKey}, user : Keys \cup {AnyKey},
     expires : Nat]
Grants == [Events \cup Challenges \cup K1s -> [times : Nat, first : Nat]]

TablesTyped ==
    /\ MapOf(challenges, Challenges, ChallengeRow)
    /\ MapOf(lnurls, K1s, LnurlRow)
    /\ \A k1 \in DOMAIN lnurls : lnurls[k1].status = "verified" => lnurls[k1].key \in Keys
    /\ MapOf(sessions, SessionIds, [key : users, expires : Nat])
    /\ MapOf(nonces, Events, Nat)
    /\ drawn \subseteq Challenges \cup K1s \cup SessionIds
    /\ granted \in Grants

\* A login that links or creates a session has its user.
AuthTyped ==
    /\ now \in Nat /\ users \subseteq Keys
    /\ TablesTyped
    /\ requests \in [Requests -> RequestType]
    /\ \A r \in Requests : requests[r].op \in {"link", "session"} =>
          requests[r].key \in users /\ requests[r].login # AnyKey

LEMMA AuthTypes == AuthTyped /\ late \subseteq Requests => AuthTypeOK
    BY DEF AuthTyped, TablesTyped, AuthTypeOK, ChallengeRow, LnurlRow, Grants

LEMMA RequestFields ==
    ASSUME NEW k \in RequestType
    PROVE  /\ k.op \in LoginOps \cup {"ready", "cleanup", "store", "touch", "owned", "delete"}
           /\ k.op \in LoginOps => k \in LoginRequest
           /\ k.op = "store" => k \in [op : {"store"}, event : Events, ends : Endings]
           /\ k.op = "touch" => k \in [op : {"touch"}, session : SessionIds, ends : Endings]
           /\ k.op \in {"owned", "delete"} =>
                 k \in [op : {"owned", "delete"}, key : Keys, session : SessionIds]
           /\ k.op = "ready" <=> k = Ready
    BY DEF RequestType, LoginRequest, LoginOps, Ready

LEMMA RequestsAreTyped ==
    /\ Ready \in RequestType /\ Ready.op = "ready"
    /\ LoginRequest \subseteq RequestType
    BY DEF RequestType, LoginRequest, LoginOps, Ready

LEMMA AuthInitTyped == Init => AuthTyped
    <1> SUFFICES ASSUME Init PROVE AuthTyped
        OBVIOUS
    <1>1. DOMAIN EmptyMap = {}
        BY DEF EmptyMap
    <1>2. requests = [r \in Requests |-> Ready] /\ now = 0 /\ users = {}
        BY DEF Init, AuthInit
    <1>3. TablesTyped
        BY <1>1 DEF Init, AuthInit, TablesTyped, MapOf, Grants
    <1>4. QED BY <1>2, <1>3, RequestsAreTyped DEF AuthTyped

\* One handler goes on, as `k`.
LEMMA TypedMoves ==
    ASSUME AuthTyped, NEW r \in Requests, NEW k \in RequestType, Await(r, k), UNCHANGED now,
           users \subseteq users', users' \subseteq Keys, TablesTyped',
           k.op \in {"link", "session"} => k.key \in users' /\ k.login # AnyKey
    PROVE  AuthTyped'
    BY DEF AuthTyped, Await

LEMMA EndingsTyped == \A ends \in Endings : ends = {} \/ (CHOOSE s \in ends : TRUE) \in SessionIds
    BY DEF Endings

\* What a request does once it is authorized, if it is for a key.
LEMMA AuthorizedTyped ==
    ASSUME NEW key \in Keys, NEW ends \in Endings
    PROVE  /\ Authorized(key, ends) \in RequestType
           /\ Authorized(key, ends).op \in {"find", "owned"}
           /\ Authorized(key, ends).op = "find" => Authorized(key, ends).login = AnyKey
    <1>1. CASE ends = {}
        BY <1>1 DEF Authorized, RequestType
    <1>2. CASE ends # {}
        BY <1>2, EndingsTyped DEF Authorized, RequestType
    <1>3. QED BY <1>1, <1>2

LEMMA AfterUserTyped ==
    ASSUME NEW k \in LoginRequest
    PROVE  /\ AfterUser(k) \in RequestType
           /\ AfterUser(k).op \in {"link", "session", "ready"}
           /\ AfterUser(k).op # "ready" =>
                 /\ AfterUser(k).key = k.key
                 /\ AfterUser(k).login = k.login /\ k.login # AnyKey
    <1>1. \A op \in LoginOps : [k EXCEPT !.op = op] \in LoginRequest /\ [k EXCEPT !.op = op].op = op
                               /\ [k EXCEPT !.op = op].key = k.key
                               /\ [k EXCEPT !.op = op].login = k.login
        BY DEF LoginRequest
    <1>2. "link" \in LoginOps /\ "session" \in LoginOps
        BY DEF LoginOps
    <1>3. /\ AfterUser(k) \in {[k EXCEPT !.op = "link"], [k EXCEPT !.op = "session"], Ready}
          /\ k.login \notin Challenges \cup K1s => AfterUser(k) = Ready
        BY DEF AfterUser
    <1>4. QED BY <1>1, <1>2, <1>3, RequestsAreTyped, AuthAssumption

LEMMA UnchangedTables ==
    ASSUME TablesTyped, UNCHANGED <<challenges, lnurls, sessions, nonces, drawn, granted>>,
           users \subseteq users'
    PROVE  TablesTyped'
    BY DEF TablesTyped, MapOf

(***************************************************************************)
(* The types, action by action                                             *)
(***************************************************************************)

LEMMA GenerateChallengeTyped ==
    ASSUME AuthTyped, NEW r \in Requests, NEW ch \in Challenges, NEW key \in Keys \cup {AnyKey},
           GenerateChallenge(r, ch, key), UNCHANGED now
    PROVE  AuthTyped'
    <1>1. PICK row, k : row = [key |-> key, expires |-> now + ChallengeTtl, used |-> FALSE]
                        /\ k = [op |-> "cleanup"]
        OBVIOUS
    <1>2. row \in ChallengeRow /\ k \in RequestType /\ k.op = "cleanup"
        BY <1>1, AuthAssumption DEF ChallengeRow, RequestType, AuthTyped
    <1>3. /\ challenges' = Put(challenges, ch, row) /\ drawn' = drawn \cup {ch} /\ Await(r, k)
          /\ UNCHANGED <<users, lnurls, sessions, nonces, granted>>
        BY <1>1 DEF GenerateChallenge, Draw
    <1>4. MapOf(challenges', Challenges, ChallengeRow)
        BY <1>2, <1>3 DEF AuthTyped, TablesTyped, MapOf, Put
    <1>5. TablesTyped'
        BY <1>3, <1>4 DEF AuthTyped, TablesTyped
    <1>6. QED BY <1>2, <1>3, <1>5, TypedMoves DEF AuthTyped

LEMMA CleanupChallengesTyped ==
    ASSUME AuthTyped, NEW r \in Requests, CleanupChallenges(r), UNCHANGED now
    PROVE  AuthTyped'
    <1>1. /\ challenges' = Unexpired(challenges) /\ Await(r, Ready)
          /\ UNCHANGED <<users, lnurls, sessions, nonces, drawn, granted>>
        BY DEF CleanupChallenges, Respond
    <1>2. MapOf(challenges', Challenges, ChallengeRow)
        BY <1>1 DEF AuthTyped, TablesTyped, MapOf, Unexpired
    <1>3. TablesTyped'
        BY <1>1, <1>2 DEF AuthTyped, TablesTyped
    <1>4. QED BY <1>1, <1>3, RequestsAreTyped, TypedMoves DEF AuthTyped

LEMMA UseChallengeTyped ==
    ASSUME AuthTyped, NEW r \in Requests, UseChallenge(r), UNCHANGED now
    PROVE  AuthTyped'
    <1>1. requests[r] \in LoginRequest
        BY RequestFields DEF UseChallenge, AuthTyped, LoginOps
    <1>2. PICK k \in {[requests[r] EXCEPT !.op = "find"], Ready} : Await(r, k)
        BY DEF UseChallenge, Respond
    <1>3. k \in RequestType /\ k.op \in {"find", "ready"}
        <2>1. CASE k = Ready
            BY <2>1, RequestsAreTyped
        <2>2. CASE k = [requests[r] EXCEPT !.op = "find"]
            <3>1. k \in LoginRequest /\ k.op = "find"
                BY <1>1, <2>2 DEF LoginRequest, LoginOps
            <3>2. QED BY <3>1, RequestsAreTyped
        <2>3. QED BY <1>2, <2>1, <2>2
    <1>4. UNCHANGED <<users, lnurls, sessions, nonces, drawn, granted>>
        BY DEF UseChallenge
    <1>5. MapOf(challenges', Challenges, ChallengeRow)
        <2>1. CASE UNCHANGED challenges
            BY <2>1 DEF AuthTyped, TablesTyped
        <2>2. CASE /\ requests[r].login \in DOMAIN challenges
                   /\ challenges' = [challenges EXCEPT ![requests[r].login].used = TRUE]
            BY <2>2 DEF AuthTyped, TablesTyped, MapOf, ChallengeRow
        <2>3. QED BY <2>1, <2>2 DEF UseChallenge
    <1>6. TablesTyped'
        BY <1>4, <1>5 DEF AuthTyped, TablesTyped
    <1>7. QED BY <1>2, <1>3, <1>4, <1>6, TypedMoves DEF AuthTyped

LEMMA FindUserTyped ==
    ASSUME AuthTyped, NEW r \in Requests, FindUser(r), UNCHANGED now
    PROVE  AuthTyped'
    <1>1. requests[r] \in LoginRequest
        BY RequestFields DEF FindUser, AuthTyped, LoginOps
    <1>2. PICK k : /\ Await(r, k)
                   /\ \/ k = AfterUser(requests[r]) /\ requests[r].key \in users
                      \/ k = [requests[r] EXCEPT !.op = "insert"]
        BY DEF FindUser
    <1>3. k \in RequestType /\ (k.op \in {"link", "session"} => k.key \in users /\ k.login # AnyKey)
        <2>1. CASE k = AfterUser(requests[r]) /\ requests[r].key \in users
            BY <1>1, <2>1, AfterUserTyped
        <2>2. CASE k = [requests[r] EXCEPT !.op = "insert"]
            <3>1. k \in LoginRequest /\ k.op = "insert"
                BY <1>1, <2>2 DEF LoginRequest, LoginOps
            <3>2. QED BY <3>1, RequestsAreTyped
        <2>3. QED BY <1>2, <2>1, <2>2
    <1>4. UNCHANGED <<users, challenges, lnurls, sessions, nonces, drawn, granted>>
        BY DEF FindUser
    <1>5. TablesTyped'
        BY <1>4, UnchangedTables DEF AuthTyped
    <1>6. QED BY <1>2, <1>3, <1>4, <1>5, TypedMoves DEF AuthTyped

LEMMA InsertUserTyped ==
    ASSUME AuthTyped, NEW r \in Requests, InsertUser(r), UNCHANGED now
    PROVE  AuthTyped'
    <1>1. requests[r] \in LoginRequest /\ requests[r].key \in Keys
        BY RequestFields DEF InsertUser, AuthTyped, LoginOps, LoginRequest
    <1>2. PICK k \in {AfterUser(requests[r]), Ready} : Await(r, k)
        BY DEF InsertUser
    <1>3. users' = users \cup {requests[r].key}
          /\ UNCHANGED <<challenges, lnurls, sessions, nonces, drawn, granted>>
        BY DEF InsertUser
    <1>4. k \in RequestType /\ (k.op \in {"link", "session"} => k.key \in users' /\ k.login # AnyKey)
        BY <1>1, <1>2, <1>3, AfterUserTyped, RequestsAreTyped
    <1>5. TablesTyped'
        BY <1>3, UnchangedTables DEF AuthTyped
    <1>6. QED BY <1>1, <1>2, <1>3, <1>4, <1>5, TypedMoves DEF AuthTyped

LEMMA GrantTyped ==
    ASSUME AuthTyped, NEW x \in Events \cup Challenges \cup K1s, Grant(x)
    PROVE  /\ granted' \in Grants
           /\ granted'[x].times = granted[x].times + 1
           /\ granted'[x].first = (IF granted[x].times = 0 THEN now ELSE granted[x].first)
           /\ \A y \in (Events \cup Challenges \cup K1s) \ {x} : granted'[y] = granted[y]
    <1>1. granted \in Grants /\ now \in Nat
        BY DEF AuthTyped, TablesTyped
    <1>2. granted[x] \in [times : Nat, first : Nat]
        BY <1>1 DEF Grants
    <1>3. PICK next : next = [times |-> granted[x].times + 1,
                              first |-> IF granted[x].times = 0 THEN now ELSE granted[x].first]
        OBVIOUS
    <1>4. next \in [times : Nat, first : Nat]
        BY <1>1, <1>2, <1>3
    <1>5. granted' = [granted EXCEPT ![x] = next]
        BY <1>1, <1>3 DEF Grant, Grants
    <1>6. granted' \in Grants /\ granted'[x] = next
          /\ \A y \in (Events \cup Challenges \cup K1s) \ {x} : granted'[y] = granted[y]
        BY <1>1, <1>4, <1>5 DEF Grants
    <1>7. QED BY <1>3, <1>6

LEMMA CreateSessionTyped ==
    ASSUME AuthTyped, NEW r \in Requests, NEW s \in SessionIds, CreateSession(r, s), UNCHANGED now
    PROVE  AuthTyped'
    <1>1. PICK login, row : /\ login = requests[r].login
                            /\ row = [key |-> requests[r].key, expires |-> now + SessionTtl]
        OBVIOUS
    <1>2. /\ requests[r] \in LoginRequest /\ requests[r].key \in users
          /\ login \in Challenges \cup K1s
        BY <1>1, RequestFields DEF CreateSession, AuthTyped, LoginOps, LoginRequest
    <1>3. row \in [key : users, expires : Nat]
        BY <1>1, <1>2, AuthAssumption DEF AuthTyped
    <1>4. /\ sessions' = Put(sessions, s, row) /\ drawn' = drawn \cup {s}
          /\ Grant(login) \/ UNCHANGED granted
          /\ Await(r, Ready) /\ UNCHANGED <<users, challenges, lnurls, nonces>>
        BY <1>1 DEF CreateSession, Accept, Draw, Respond
    <1>5. MapOf(sessions', SessionIds, [key : users, expires : Nat])
        BY <1>3, <1>4 DEF AuthTyped, TablesTyped, MapOf, Put
    <1>6. granted' \in Grants
        BY <1>2, <1>4, GrantTyped DEF AuthTyped, TablesTyped
    <1>7. TablesTyped'
        BY <1>4, <1>5, <1>6 DEF AuthTyped, TablesTyped
    <1>8. QED BY <1>4, <1>7, RequestsAreTyped, TypedMoves DEF AuthTyped

LEMMA GenerateLnurlTyped ==
    ASSUME AuthTyped, NEW r \in Requests, NEW k1 \in K1s, GenerateLnurlAuth(r, k1), UNCHANGED now
    PROVE  AuthTyped'
    <1>1. PICK row : row = [status |-> "pending", key |-> AnyKey, user |-> AnyKey,
                            expires |-> now + ChallengeTtl]
        OBVIOUS
    <1>2. row \in LnurlRow /\ row.status = "pending"
        BY <1>1, AuthAssumption DEF LnurlRow, AuthTyped
    <1>3. /\ lnurls' = Put(lnurls, k1, row) /\ drawn' = drawn \cup {k1}
          /\ UNCHANGED <<users, challenges, sessions, nonces, requests, granted>>
        BY <1>1 DEF GenerateLnurlAuth, Draw
    <1>4. /\ MapOf(lnurls', K1s, LnurlRow)
          /\ \A k \in DOMAIN lnurls' : lnurls'[k].status = "verified" => lnurls'[k].key \in Keys
        BY <1>2, <1>3 DEF AuthTyped, TablesTyped, MapOf, Put
    <1>5. TablesTyped'
        BY <1>3, <1>4 DEF AuthTyped, TablesTyped
    <1>6. QED BY <1>3, <1>5 DEF AuthTyped

\* A request for a login that begins.
LEMMA LoginBeginsTyped ==
    ASSUME AuthTyped, NEW r \in Requests, NEW login \in Challenges \cup K1s, NEW key \in Keys,
           NEW op \in {"use", "verify", "find"},
           Await(r, [op |-> op, login |-> login, key |-> key]),
           UNCHANGED <<now, users, challenges, lnurls, sessions, nonces, drawn, granted>>
    PROVE  AuthTyped'
    <1>1. PICK k : k = [op |-> op, login |-> login, key |-> key]
        OBVIOUS
    <1>2. k \in LoginRequest /\ k.op \notin {"link", "session"}
        BY <1>1 DEF LoginRequest, LoginOps
    <1>3. TablesTyped'
        BY UnchangedTables DEF AuthTyped
    <1>4. QED BY <1>1, <1>2, <1>3, RequestsAreTyped, TypedMoves DEF AuthTyped

LEMMA VerifyChallengeTyped ==
    ASSUME AuthTyped, NEW r \in Requests, NEW ch \in Challenges, NEW key \in Keys,
           VerifyChallenge(r, ch, key), UNCHANGED now
    PROVE  AuthTyped'
    <1>1. PICK op : op = "use"
        OBVIOUS
    <1>2. QED BY <1>1, LoginBeginsTyped DEF VerifyChallenge

LEMMA LnurlBeginsTyped ==
    ASSUME AuthTyped, NEW r \in Requests, NEW k1 \in K1s, UNCHANGED now,
           PollLnurlAuth(r, k1) \/ \E key \in Keys : HandleLnurlCallback(r, k1, key)
    PROVE  AuthTyped'
    <1>1. CASE PollLnurlAuth(r, k1)
        <2>1. PICK op, key : op = "find" /\ key = lnurls[k1].key
            OBVIOUS
        <2>2. key \in Keys
            BY <1>1, <2>1 DEF PollLnurlAuth, AuthTyped, TablesTyped
        <2>3. QED BY <1>1, <2>1, <2>2, LoginBeginsTyped DEF PollLnurlAuth
    <1>2. ASSUME NEW key \in Keys, HandleLnurlCallback(r, k1, key)
          PROVE  AuthTyped'
        <2>1. PICK op : op = "verify"
            OBVIOUS
        <2>2. QED BY <1>2, <2>1, LoginBeginsTyped DEF HandleLnurlCallback
    <1>3. QED BY <1>1, <1>2

LEMMA VerifyLnurlTyped ==
    ASSUME AuthTyped, NEW r \in Requests, VerifyLnurl(r), UNCHANGED now
    PROVE  AuthTyped'
    <1>1. PICK login, key : login = requests[r].login /\ key = requests[r].key
        OBVIOUS
    <1>2. key \in Keys
        BY <1>1, RequestFields DEF VerifyLnurl, AuthTyped, LoginOps, LoginRequest
    <1>3. /\ lnurls' = [lnurls EXCEPT ![login].key = key, ![login].status = "verified"]
          /\ Await(r, Ready) /\ UNCHANGED <<users, challenges, sessions, nonces, drawn, granted>>
        BY <1>1 DEF VerifyLnurl, Respond
    <1>4. /\ MapOf(lnurls', K1s, LnurlRow)
          /\ \A k1 \in DOMAIN lnurls' : lnurls'[k1].status = "verified" => lnurls'[k1].key \in Keys
        BY <1>2, <1>3 DEF AuthTyped, TablesTyped, MapOf, LnurlRow
    <1>5. TablesTyped'
        BY <1>3, <1>4 DEF AuthTyped, TablesTyped
    <1>6. QED BY <1>3, <1>5, RequestsAreTyped, TypedMoves DEF AuthTyped

LEMMA LinkUserTyped ==
    ASSUME AuthTyped, NEW r \in Requests, LinkUser(r), UNCHANGED now
    PROVE  AuthTyped'
    <1>1. PICK login, key, k : /\ login = requests[r].login /\ key = requests[r].key
                               /\ k = [requests[r] EXCEPT !.op = "session"]
        OBVIOUS
    <1>2. requests[r] \in LoginRequest /\ key \in users /\ key \in Keys /\ login # AnyKey
        BY <1>1, RequestFields DEF LinkUser, AuthTyped, LoginOps, LoginRequest
    <1>3. k \in LoginRequest /\ k.key = key /\ k.login = login
        BY <1>1, <1>2 DEF LoginRequest, LoginOps
    <1>4. /\ lnurls' = [lnurls EXCEPT ![login].user = key] /\ Await(r, k)
          /\ UNCHANGED <<users, challenges, sessions, nonces, drawn, granted>>
        BY <1>1 DEF LinkUser
    <1>5. /\ MapOf(lnurls', K1s, LnurlRow)
          /\ \A k1 \in DOMAIN lnurls' : lnurls'[k1].status = "verified" => lnurls'[k1].key \in Keys
        BY <1>2, <1>4 DEF AuthTyped, TablesTyped, MapOf, LnurlRow
    <1>6. TablesTyped'
        BY <1>4, <1>5 DEF AuthTyped, TablesTyped
    <1>7. QED BY <1>2, <1>3, <1>4, <1>6, RequestsAreTyped, TypedMoves DEF AuthTyped

\* A request with an event or a token, which holds nothing of a login.
LEMMA RequestGoesOnTyped ==
    ASSUME AuthTyped, NEW r \in Requests, UNCHANGED now,
           \/ \E e \in Events, ends \in Endings : VerifyNip98(r, e, ends)
           \/ \E s \in SessionIds, ends \in Endings : VerifyJwt(r, s, ends)
           \/ TouchSession(r) \/ FindOwned(r)
    PROVE  AuthTyped'
    <1>1. UNCHANGED <<users, challenges, lnurls, sessions, nonces, drawn, granted>>
        BY DEF VerifyNip98, VerifyJwt, TouchSession, FindOwned
    <1>2. TablesTyped'
        BY <1>1, UnchangedTables DEF AuthTyped
    <1>3. \E k \in RequestType : Await(r, k) /\ k.op \notin {"link", "session"}
        <2>1. ASSUME NEW e \in Events, NEW ends \in Endings, VerifyNip98(r, e, ends)
              PROVE  \E k \in RequestType : Await(r, k) /\ k.op \notin {"link", "session"}
            BY <2>1 DEF VerifyNip98, RequestType
        <2>2. ASSUME NEW s \in SessionIds, NEW ends \in Endings, VerifyJwt(r, s, ends)
              PROVE  \E k \in RequestType : Await(r, k) /\ k.op \notin {"link", "session"}
            BY <2>2 DEF VerifyJwt, RequestType
        <2>3. CASE TouchSession(r)
            <3>1. PICK s, ends : s = requests[r].session /\ ends = requests[r].ends
                OBVIOUS
            <3>2. ends \in Endings
                BY <2>3, <3>1, RequestFields DEF TouchSession, AuthTyped
            <3>3. CASE s \in DOMAIN sessions
                <4>1. PICK key : key = sessions[s].key
                    OBVIOUS
                <4>2. key \in Keys
                    BY <3>3, <4>1 DEF AuthTyped, TablesTyped, MapOf
                <4>3. Await(r, Authorized(key, ends))
                    BY <2>3, <3>1, <3>3, <4>1 DEF TouchSession
                <4>4. QED BY <3>2, <4>2, <4>3, AuthorizedTyped
            <3>4. CASE s \notin DOMAIN sessions
                BY <2>3, <3>1, <3>4, RequestsAreTyped DEF TouchSession, Respond
            <3>5. QED BY <3>3, <3>4
        <2>4. CASE FindOwned(r)
            <3>1. requests[r] \in [op : {"owned", "delete"}, key : Keys, session : SessionIds]
                BY <2>4, RequestFields DEF FindOwned, AuthTyped
            <3>2. [requests[r] EXCEPT !.op = "delete"] \in RequestType
                  /\ [requests[r] EXCEPT !.op = "delete"].op = "delete"
                BY <3>1 DEF RequestType
            <3>3. QED BY <2>4, <3>2, RequestsAreTyped DEF FindOwned
        <2>5. QED BY <2>1, <2>2, <2>3, <2>4
    <1>4. QED BY <1>1, <1>2, <1>3, TypedMoves DEF AuthTyped

LEMMA StoreNonceTyped ==
    ASSUME AuthTyped, NEW r \in Requests, StoreNonce(r), UNCHANGED now
    PROVE  AuthTyped'
    <1>1. PICK e, ends : e = requests[r].event /\ ends = requests[r].ends
        OBVIOUS
    <1>2. e \in Events /\ ends \in Endings /\ e.key \in Keys
        BY <1>1, RequestFields, AuthAssumption DEF StoreNonce, AuthTyped
    <1>3. /\ nonces' = Put(nonces, e, now)
          /\ Grant(e) \/ UNCHANGED granted
          /\ Await(r, Authorized(e.key, ends)) \/ Await(r, Ready)
          /\ UNCHANGED <<users, challenges, lnurls, sessions, drawn>>
        BY <1>1 DEF StoreNonce, Accept, Respond
    <1>4. MapOf(nonces', Events, Nat)
        BY <1>2, <1>3 DEF AuthTyped, TablesTyped, MapOf, Put
    <1>5. granted' \in Grants
        BY <1>2, <1>3, GrantTyped DEF AuthTyped, TablesTyped
    <1>6. TablesTyped'
        BY <1>3, <1>4, <1>5 DEF AuthTyped, TablesTyped
    <1>7. PICK k \in {Authorized(e.key, ends), Ready} : Await(r, k)
        BY <1>3
    <1>8. k \in RequestType /\ k.op \notin {"link", "session"}
        BY <1>2, <1>7, AuthorizedTyped, RequestsAreTyped
    <1>9. QED BY <1>3, <1>6, <1>7, <1>8, TypedMoves DEF AuthTyped

LEMMA SessionEndsTyped ==
    ASSUME AuthTyped, NEW r \in Requests, UNCHANGED now,
           DeleteSession(r) \/ \E s \in SessionIds : Logout(r, s)
    PROVE  AuthTyped'
    <1>1. /\ \E s : sessions' = Without(sessions, s)
          /\ Await(r, Ready) \/ UNCHANGED requests
          /\ UNCHANGED <<users, challenges, lnurls, nonces, drawn, granted>>
        BY DEF DeleteSession, Logout, Respond
    <1>2. MapOf(sessions', SessionIds, [key : users, expires : Nat])
        BY <1>1 DEF AuthTyped, TablesTyped, MapOf, Without
    <1>3. TablesTyped'
        BY <1>1, <1>2 DEF AuthTyped, TablesTyped
    <1>4. CASE Await(r, Ready)
        BY <1>1, <1>3, <1>4, RequestsAreTyped, TypedMoves DEF AuthTyped
    <1>5. CASE UNCHANGED requests
        BY <1>1, <1>3, <1>5 DEF AuthTyped
    <1>6. QED BY <1>1, <1>4, <1>5

LEMMA AuthStepTyped ==
    ASSUME AuthTyped, NEW r \in Requests, NEW asked, Handles(r) \/ Asks(r, asked), UNCHANGED now
    PROVE  AuthTyped'
    <1>1. CASE Handles(r)
        BY <1>1, CleanupChallengesTyped, UseChallengeTyped, FindUserTyped, InsertUserTyped,
           CreateSessionTyped, VerifyLnurlTyped, LinkUserTyped, StoreNonceTyped,
           RequestGoesOnTyped, SessionEndsTyped DEF Handles
    <1>2. CASE Asks(r, asked)
        <2>1. ASSUME NEW ends \in Endings,
                     \/ \E e \in Events : VerifyNip98(r, e, ends)
                     \/ \E s \in SessionIds : VerifyJwt(r, s, ends)
              PROVE  AuthTyped'
            BY <2>1, RequestGoesOnTyped
        <2>2. {{}} \subseteq Endings
            BY DEF Endings
        <2>3. QED
            BY <1>2, <2>1, <2>2, GenerateChallengeTyped, VerifyChallengeTyped, GenerateLnurlTyped,
               LnurlBeginsTyped, SessionEndsTyped DEF Asks
    <1>3. QED BY <1>1, <1>2

(***************************************************************************)
(* The logins of a challenge                                               *)
(***************************************************************************)

IsFor(r, x) == requests[r].op \in LoginOps /\ requests[r].login = x

\* Nobody has marked it as used yet.
Fresh(ch) == ch \notin drawn \/ (ch \in DOMAIN challenges /\ ~challenges[ch].used)

\* A handler whose login will count, if it gets that far: an update of a row that was
\* deleted throws.
Live(r, ch) ==
    /\ IsFor(r, ch) /\ r \notin late
    /\ requests[r].op = "use" => ch \in DOMAIN challenges

\* As long as nobody has, any number of handlers may look at a challenge, but none has gone
\* on; afterwards the login of one counts, until it has given a session.
ChallengeInv(ch) ==
    /\ granted[ch].times <= 1
    /\ Fresh(ch) => /\ granted[ch].times = 0
                    /\ \A r \in Requests : IsFor(r, ch) => requests[r].op = "use"
    /\ ~Fresh(ch) => \A q, r \in Requests : Live(q, ch) /\ Live(r, ch) => q = r
    /\ granted[ch].times # 0 => \A r \in Requests : ~Live(r, ch)

ChallengesInv ==
    /\ DOMAIN challenges \subseteq drawn
    /\ \A ch \in Challenges : ChallengeInv(ch)

LEMMA GrantedTimes ==
    ASSUME AuthTyped, NEW x \in Events \cup Challenges \cup K1s
    PROVE  granted[x].times \in Nat /\ granted[x].first \in Nat
    BY DEF AuthTyped, TablesTyped, Grants

LEMMA ChallengesInitInv == Init => ChallengesInv
    <1> SUFFICES ASSUME Init PROVE ChallengesInv
        OBVIOUS
    <1>1. /\ DOMAIN challenges = {}
          /\ \A r \in Requests : requests[r] = Ready
          /\ \A ch \in Challenges : granted[ch].times = 0
        BY DEF Init, AuthInit, EmptyMap
    <1>2. \A r \in Requests, ch \in Challenges : ~IsFor(r, ch) /\ ~Live(r, ch)
        BY <1>1 DEF IsFor, Live, Ready, LoginOps
    <1>3. QED BY <1>1, <1>2 DEF ChallengesInv, ChallengeInv

\* Who was late remains so until its request ends.
LEMMA LateStay ==
    ASSUME NEW r \in Requests, Remember(r), NEW q \in Requests, NEW x, IsFor(q, x)', q \notin late'
    PROVE  q \notin late
    BY DEF Remember, IsFor, Ready, LoginOps

\* A step of one handler that comes to no challenge, and goes on to use none but one that
\* it alone has marked.
LEMMA ChallengesStay ==
    ASSUME AuthTyped, ChallengesInv, NEW r \in Requests, Remember(r),
           \A q \in Requests \ {r} : requests'[q] = requests[q],
           DOMAIN challenges' \subseteq drawn',
           \A ch \in Challenges :
              /\ granted'[ch] = granted[ch]
              /\ Fresh(ch)' => Fresh(ch)
              /\ ch \in DOMAIN challenges' => ch \in DOMAIN challenges \/ Fresh(ch)
              /\ Fresh(ch) /\ ~Fresh(ch)' => \A q \in Requests : Live(q, ch)' => q = r
              /\ IsFor(r, ch)' => /\ IsFor(r, ch)
                                  /\ \/ requests'[r].op = "use"
                                     \/ requests[r].op # "use"
                                     \/ ~Fresh(ch)' /\ ch \in DOMAIN challenges
    PROVE  ChallengesInv'
    <1> SUFFICES ASSUME NEW ch \in Challenges PROVE ChallengeInv(ch)'
        BY DEF ChallengesInv
    <1>1. \A q \in Requests : IsFor(q, ch)' => IsFor(q, ch)
        BY DEF IsFor
    <1>2. ChallengeInv(ch) /\ granted'[ch] = granted[ch]
        BY DEF ChallengesInv
    <1>3. ASSUME Fresh(ch)', NEW q \in Requests, IsFor(q, ch)' PROVE requests'[q].op = "use"
        <2>1. IsFor(q, ch) /\ requests[q].op = "use"
            BY <1>1, <1>2, <1>3 DEF ChallengeInv
        <2>2. CASE q = r
            BY <1>3, <2>1, <2>2
        <2>3. CASE q # r
            BY <2>1, <2>3
        <2>4. QED BY <2>2, <2>3
    <1>4. ASSUME ~Fresh(ch), NEW q \in Requests, Live(q, ch)' PROVE Live(q, ch)
        <2>1. IsFor(q, ch)' /\ IsFor(q, ch) /\ q \notin late
            BY <1>1, <1>4, LateStay DEF Live
        <2>2. ASSUME requests[q].op = "use" PROVE ch \in DOMAIN challenges
            <3>1. CASE requests'[q].op = "use"
                BY <1>4, <3>1 DEF Live
            <3>2. CASE requests'[q].op # "use"
                BY <2>1, <2>2, <3>2
            <3>3. QED BY <3>1, <3>2
        <2>3. QED BY <2>1, <2>2 DEF Live
    <1>5. CASE Fresh(ch)'
        BY <1>2, <1>3, <1>5 DEF ChallengeInv
    <1>6. CASE ~Fresh(ch)' /\ Fresh(ch)
        BY <1>2, <1>6 DEF ChallengeInv
    <1>7. CASE ~Fresh(ch)' /\ ~Fresh(ch)
        BY <1>2, <1>4, <1>7 DEF ChallengeInv
    <1>8. QED BY <1>5, <1>6, <1>7

\* A handler that goes on with something that is not for a challenge, and writes none.
LEMMA OthersKeepChallenges ==
    ASSUME AuthTyped, ChallengesInv, NEW r \in Requests, Remember(r),
           \A q \in Requests \ {r} : requests'[q] = requests[q],
           UNCHANGED challenges, drawn \subseteq drawn',
           \A ch \in Challenges : granted'[ch] = granted[ch],
           \A ch \in Challenges : ~IsFor(r, ch)' \/ (IsFor(r, ch) /\ requests[r].op # "use")
    PROVE  ChallengesInv'
    <1>1. \A ch \in Challenges : Fresh(ch)' => Fresh(ch)
        BY DEF Fresh
    <1>2. DOMAIN challenges' \subseteq drawn'
        BY DEF ChallengesInv
    <1>3. ASSUME NEW ch \in Challenges, Fresh(ch), ~Fresh(ch)', NEW q \in Requests, Live(q, ch)'
          PROVE  q = r
        <2>1. ch \notin DOMAIN challenges'
            BY <1>3 DEF Fresh, ChallengesInv
        <2>2. requests'[q].op # "use" /\ IsFor(q, ch)'
            BY <1>3, <2>1 DEF Live
        <2>3. q # r => requests[q].op = "use" /\ requests'[q] = requests[q]
            BY <1>3, <2>2 DEF IsFor, ChallengesInv, ChallengeInv
        <2>4. QED BY <2>2, <2>3
    <1>4. QED BY <1>1, <1>2, <1>3, ChallengesStay

LEMMA GenerateChallengeCounts ==
    ASSUME AuthTyped, ChallengesInv, NEW r \in Requests, NEW ch \in Challenges, NEW key,
           GenerateChallenge(r, ch, key), Remember(r)
    PROVE  ChallengesInv'
    <1>1. PICK row : row = [key |-> key, expires |-> now + ChallengeTtl, used |-> FALSE]
        OBVIOUS
    <1>2. /\ challenges' = Put(challenges, ch, row) /\ ch \notin drawn /\ drawn' = drawn \cup {ch}
          /\ Await(r, [op |-> "cleanup"]) /\ UNCHANGED granted
        BY <1>1 DEF GenerateChallenge, Draw
    <1>3. /\ DOMAIN challenges' = DOMAIN challenges \cup {ch}
          /\ \A x \in DOMAIN challenges \ {ch} : challenges'[x] = challenges[x]
        BY <1>2 DEF Put
    <1>4. \A x \in Challenges : Fresh(x)' => Fresh(x)
        BY <1>2, <1>3 DEF Fresh
    <1>5. (\A q \in Requests \ {r} : requests'[q] = requests[q]) /\ \A x : ~IsFor(r, x)'
        BY <1>2 DEF Await, IsFor, AuthTyped, LoginOps
    <1>6. DOMAIN challenges' \subseteq drawn'
        BY <1>2, <1>3 DEF ChallengesInv
    <1>7. \A x \in Challenges : x \in DOMAIN challenges' => x \in DOMAIN challenges \/ Fresh(x)
        BY <1>2, <1>3 DEF Fresh
    <1>8. \A x \in Challenges : Fresh(x) => Fresh(x)'
        <2> TAKE x \in Challenges
        <2>1. challenges'[ch] = row /\ ~row.used
            BY <1>1, <1>2 DEF Put
        <2>2. QED BY <1>2, <1>3, <2>1 DEF Fresh
    <1>9. QED BY <1>2, <1>4, <1>5, <1>6, <1>7, <1>8, ChallengesStay

LEMMA CleanupChallengesCounts ==
    ASSUME AuthTyped, ChallengesInv, NEW r \in Requests, CleanupChallenges(r), Remember(r)
    PROVE  ChallengesInv'
    <1>1. /\ challenges' = Unexpired(challenges) /\ Await(r, Ready) /\ UNCHANGED <<drawn, granted>>
        BY DEF CleanupChallenges, Respond
    <1>2. /\ DOMAIN challenges' \subseteq DOMAIN challenges
          /\ \A x \in DOMAIN challenges' : challenges'[x] = challenges[x]
        BY <1>1 DEF Unexpired
    <1>3. \A x \in Challenges : Fresh(x)' => Fresh(x)
        BY <1>1, <1>2 DEF Fresh
    <1>4. (\A q \in Requests \ {r} : requests'[q] = requests[q]) /\ \A x : ~IsFor(r, x)'
        BY <1>1 DEF Await, IsFor, AuthTyped, LoginOps, Ready
    <1>5. DOMAIN challenges' \subseteq drawn'
        BY <1>1, <1>2 DEF ChallengesInv
    <1>6. ASSUME NEW x \in Challenges, Fresh(x), ~Fresh(x)', NEW q \in Requests, Live(q, x)'
          PROVE  q = r
        <2>1. x \notin DOMAIN challenges'
            BY <1>1, <1>2, <1>6 DEF Fresh
        <2>2. requests'[q].op # "use" /\ IsFor(q, x)'
            BY <1>6, <2>1 DEF Live
        <2>3. q # r => requests[q].op = "use" /\ requests'[q] = requests[q]
            BY <1>4, <1>6, <2>2 DEF IsFor, ChallengesInv, ChallengeInv
        <2>4. QED BY <2>2, <2>3
    <1>7. QED BY <1>1, <1>2, <1>3, <1>4, <1>5, <1>6, ChallengesStay

\* A handler comes to a challenge that nobody has used: no session has been given for it.
LEMMA VerifyChallengeCounts ==
    ASSUME AuthTyped, ChallengesInv, NEW r \in Requests, NEW ch \in Challenges, NEW key,
           VerifyChallenge(r, ch, key), Remember(r)
    PROVE  ChallengesInv'
    <1>1. PICK k : k = [op |-> "use", login |-> ch, key |-> key]
        OBVIOUS
    <1>2. /\ Await(r, k) /\ UNCHANGED <<challenges, drawn, granted>>
          /\ ch \in DOMAIN challenges /\ ~challenges[ch].used /\ k.op = "use" /\ k.login = ch
        BY <1>1 DEF VerifyChallenge
    <1>3. /\ requests'[r] = k /\ \A q \in Requests \ {r} : requests'[q] = requests[q]
        BY <1>2 DEF Await, AuthTyped
    <1>4. \A x \in Challenges : Fresh(x)' = Fresh(x)
        BY <1>2 DEF Fresh
    <1>5. ASSUME NEW x \in Challenges PROVE ChallengeInv(x)'
        <2>1. CASE x = ch
            <3>1. Fresh(ch) /\ granted[ch].times = 0
                BY <1>2 DEF Fresh, ChallengesInv, ChallengeInv
            <3>2. \A q \in Requests : IsFor(q, ch)' => requests'[q].op = "use"
                BY <1>2, <1>3, <3>1 DEF IsFor, ChallengesInv, ChallengeInv
            <3>3. QED BY <1>2, <1>4, <2>1, <3>1, <3>2 DEF ChallengeInv
        <2>2. CASE x # ch
            <3>1. \A q \in Requests : IsFor(q, x)' => IsFor(q, x) /\ requests'[q] = requests[q]
                BY <1>2, <1>3, <2>2 DEF IsFor
            <3>2. \A q \in Requests : Live(q, x)' => Live(q, x)
                BY <1>2, <3>1, LateStay DEF Live
            <3>3. QED BY <1>2, <1>4, <3>1, <3>2 DEF ChallengesInv, ChallengeInv
        <2>3. QED BY <2>1, <2>2
    <1>6. QED BY <1>2, <1>5 DEF ChallengesInv

LEMMA UseChallengeCounts ==
    ASSUME AuthTyped, ChallengesInv, NEW r \in Requests, UseChallenge(r), Remember(r)
    PROVE  ChallengesInv'
    <1>1. PICK ch : ch = requests[r].login
        OBVIOUS
    <1>2. requests[r] \in LoginRequest /\ requests[r].op = "use"
        BY RequestFields DEF UseChallenge, AuthTyped, LoginOps
    <1>3. UNCHANGED <<drawn, granted>>
        BY DEF UseChallenge
    <1>4. CASE ch \in DOMAIN challenges
        <2>1. /\ challenges' = [challenges EXCEPT ![ch].used = TRUE]
              /\ requests' = [requests EXCEPT ![r] = [requests[r] EXCEPT !.op = "find"]]
            BY <1>1, <1>4 DEF UseChallenge, Await
        <2>2. /\ requests'[r] = [requests[r] EXCEPT !.op = "find"]
              /\ \A q \in Requests \ {r} : requests'[q] = requests[q]
            BY <2>1 DEF AuthTyped
        <2>3. \A x : IsFor(r, x)' => x = ch /\ IsFor(r, x)
            BY <1>1, <1>2, <2>2 DEF IsFor, LoginRequest
        <2>4. challenges[ch] \in ChallengeRow
            BY <1>4 DEF AuthTyped, TablesTyped, MapOf
        <2>5. /\ DOMAIN challenges' = DOMAIN challenges /\ challenges'[ch].used
              /\ \A x \in DOMAIN challenges \ {ch} : challenges'[x] = challenges[x]
            BY <1>4, <2>1, <2>4 DEF ChallengeRow
        <2>6. ~Fresh(ch)' /\ (\A x \in Challenges : Fresh(x)' => Fresh(x))
            BY <1>3, <1>4, <2>5 DEF Fresh, ChallengesInv
        <2>7. ASSUME NEW x \in Challenges, Fresh(x), ~Fresh(x)', NEW q \in Requests, Live(q, x)'
              PROVE  q = r
            <3>1. x = ch
                BY <1>3, <2>5, <2>7 DEF Fresh
            <3>2. IsFor(q, x)' /\ q \notin late'
                BY <2>7 DEF Live
            <3>3. SUFFICES ASSUME q # r PROVE FALSE
                OBVIOUS
            <3>4. IsFor(q, x) /\ requests[q].op = "use"
                BY <2>2, <2>7, <3>2, <3>3 DEF IsFor, ChallengesInv, ChallengeInv
            <3>5. Overtakes(r, q)
                BY <1>1, <1>2, <3>1, <3>3, <3>4 DEF Overtakes, IsFor
            <3>6. requests'[q] # Ready
                BY <3>2 DEF IsFor, Ready, LoginOps
            <3>7. QED BY <3>2, <3>5, <3>6 DEF Remember
        <2>8. DOMAIN challenges' \subseteq drawn'
            BY <1>3, <2>5 DEF ChallengesInv
        <2>9. QED BY <1>3, <1>4, <2>2, <2>3, <2>5, <2>6, <2>7, <2>8, ChallengesStay
    <1>5. CASE ch \notin DOMAIN challenges
        <2>1. Await(r, Ready) /\ UNCHANGED challenges
            BY <1>1, <1>5 DEF UseChallenge, Respond
        <2>2. (\A q \in Requests \ {r} : requests'[q] = requests[q]) /\ \A x : ~IsFor(r, x)'
            BY <2>1 DEF Await, IsFor, AuthTyped, LoginOps, Ready
        <2>3. QED BY <1>3, <2>1, <2>2, OthersKeepChallenges
    <1>6. QED BY <1>4, <1>5

LEMMA FindOrInsertCounts ==
    ASSUME AuthTyped, ChallengesInv, NEW r \in Requests, FindUser(r) \/ InsertUser(r),
           Remember(r)
    PROVE  ChallengesInv'
    <1>1. requests[r] \in LoginRequest /\ requests[r].op # "use" /\ requests[r].op \in LoginOps
        BY RequestFields DEF FindUser, InsertUser, AuthTyped, LoginOps
    <1>2. PICK k \in {AfterUser(requests[r]), [requests[r] EXCEPT !.op = "insert"], Ready} :
             Await(r, k)
        BY DEF FindUser, InsertUser
    <1>3. k.op \in LoginOps => k.login = requests[r].login
        <2>1. CASE k = AfterUser(requests[r])
            BY <1>1, <2>1, AfterUserTyped DEF LoginOps
        <2>2. CASE k = [requests[r] EXCEPT !.op = "insert"]
            BY <1>1, <2>2 DEF LoginRequest
        <2>3. CASE k = Ready
            BY <2>3 DEF Ready, LoginOps
        <2>4. QED BY <1>2, <2>1, <2>2, <2>3
    <1>4. requests'[r] = k /\ \A q \in Requests \ {r} : requests'[q] = requests[q]
        BY <1>2 DEF Await, AuthTyped
    <1>5. \A ch : IsFor(r, ch)' => IsFor(r, ch)
        BY <1>1, <1>3, <1>4 DEF IsFor
    <1>6. UNCHANGED <<challenges, drawn, granted>>
        BY DEF FindUser, InsertUser
    <1>7. QED BY <1>1, <1>4, <1>5, <1>6, OthersKeepChallenges

\* A session is given for a challenge to the one whose login counts.
LEMMA CreateSessionCounts ==
    ASSUME AuthTyped, ChallengesInv, NEW r \in Requests, NEW s \in SessionIds,
           CreateSession(r, s), Remember(r)
    PROVE  ChallengesInv'
    <1>1. PICK login : login = requests[r].login
        OBVIOUS
    <1>2. /\ requests[r] \in LoginRequest /\ requests[r].op = "session"
          /\ login \in Challenges \cup K1s
        BY <1>1, RequestFields DEF CreateSession, AuthTyped, LoginOps, LoginRequest
    <1>3. /\ drawn' = drawn \cup {s} /\ Accept(r, login) /\ Await(r, Ready)
          /\ UNCHANGED challenges
        BY <1>1 DEF CreateSession, Draw, Respond
    <1>4. /\ requests'[r] = Ready /\ \A q \in Requests \ {r} : requests'[q] = requests[q]
        BY <1>3 DEF Await, AuthTyped
    <1>5. \A x \in Challenges : Fresh(x)' => Fresh(x)
        BY <1>3 DEF Fresh
    <1>6. \A x : ~IsFor(r, x)' /\ \A q \in Requests : IsFor(q, x)' =>
                                     q # r /\ IsFor(q, x) /\ requests'[q] = requests[q]
        BY <1>4 DEF IsFor, Ready, LoginOps
    <1>7. \A q \in Requests, x \in Challenges : Live(q, x)' => Live(q, x) /\ q # r
        BY <1>3, <1>6, LateStay DEF Live
    <1>8. ASSUME NEW x \in Challenges PROVE ChallengeInv(x)'
        <2>1. ChallengeInv(x) /\ granted[x].times \in Nat
            BY GrantedTimes DEF ChallengesInv
        <2>2. CASE x = login /\ r \notin late
            <3>1. granted'[x].times = granted[x].times + 1
                BY <1>3, <2>2, GrantTyped DEF Accept
            <3>2. IsFor(r, x) /\ Live(r, x)
                BY <1>1, <1>2, <2>2 DEF Live, IsFor, LoginOps
            <3>3. ~Fresh(x) /\ granted[x].times = 0
                BY <1>2, <2>1, <3>2 DEF ChallengeInv
            <3>4. \A q \in Requests : ~Live(q, x)'
                BY <1>7, <2>1, <3>2, <3>3 DEF ChallengeInv
            <3>5. QED BY <1>5, <3>1, <3>3, <3>4 DEF ChallengeInv
        <2>3. CASE x # login \/ r \in late
            <3>1. granted'[x] = granted[x]
                BY <1>2, <1>3, <2>3, GrantTyped DEF Accept
            <3>2. Fresh(x) /\ ~Fresh(x)' => \A q \in Requests : ~Live(q, x)'
                <4> SUFFICES ASSUME Fresh(x), ~Fresh(x)', NEW q \in Requests, Live(q, x)'
                             PROVE  FALSE
                    OBVIOUS
                <4>1. x \notin DOMAIN challenges'
                    BY <1>3 DEF Fresh, ChallengesInv
                <4>2. requests'[q].op # "use" /\ IsFor(q, x)'
                    BY <4>1 DEF Live
                <4>3. QED BY <1>6, <2>1, <4>2 DEF ChallengeInv
            <3>3. QED BY <1>5, <1>6, <1>7, <2>1, <3>1, <3>2 DEF ChallengeInv
        <2>4. QED BY <2>2, <2>3
    <1>9. QED BY <1>3, <1>8 DEF ChallengesInv

LEMMA LnurlCounts ==
    ASSUME AuthTyped, ChallengesInv, NEW r \in Requests, Remember(r),
           \/ VerifyLnurl(r) \/ LinkUser(r)
           \/ \E k1 \in K1s : \/ GenerateLnurlAuth(r, k1) \/ PollLnurlAuth(r, k1)
                              \/ \E key \in Keys : HandleLnurlCallback(r, k1, key)
    PROVE  ChallengesInv'
    <1>1. UNCHANGED <<challenges, granted>> /\ drawn \subseteq drawn'
        BY DEF VerifyLnurl, LinkUser, GenerateLnurlAuth, PollLnurlAuth, HandleLnurlCallback, Draw
    <1>2. CASE LinkUser(r)
        <2>1. requests[r] \in LoginRequest /\ requests[r].op = "link"
            BY <1>2, RequestFields DEF LinkUser, AuthTyped, LoginOps
        <2>2. requests'[r] = [requests[r] EXCEPT !.op = "session"]
              /\ \A q \in Requests \ {r} : requests'[q] = requests[q]
            BY <1>2 DEF LinkUser, Await, AuthTyped
        <2>3. \A ch : IsFor(r, ch)' => IsFor(r, ch)
            BY <2>1, <2>2 DEF IsFor, LoginRequest
        <2>4. QED BY <1>1, <2>1, <2>2, <2>3, OthersKeepChallenges
    <1>3. CASE VerifyLnurl(r)
        <2>1. requests'[r] = Ready /\ \A q \in Requests \ {r} : requests'[q] = requests[q]
            BY <1>3 DEF VerifyLnurl, Respond, Await, AuthTyped
        <2>2. \A ch : ~IsFor(r, ch)'
            BY <2>1 DEF IsFor, LoginOps, Ready
        <2>3. QED BY <1>1, <2>1, <2>2, OthersKeepChallenges
    <1>4. ASSUME NEW k1 \in K1s,
                 \/ GenerateLnurlAuth(r, k1) \/ PollLnurlAuth(r, k1)
                 \/ \E key \in Keys : HandleLnurlCallback(r, k1, key)
          PROVE  ChallengesInv'
        <2>1. /\ requests'[r] = Ready \/ requests'[r].login = k1
              /\ \A q \in Requests \ {r} : requests'[q] = requests[q]
            BY <1>4 DEF GenerateLnurlAuth, PollLnurlAuth, HandleLnurlCallback, Await, AuthTyped
        <2>2. \A ch \in Challenges : ~IsFor(r, ch)'
            BY <2>1, AuthAssumption DEF IsFor, LoginOps, Ready
        <2>3. QED BY <1>1, <2>1, <2>2, OthersKeepChallenges
    <1>5. QED BY <1>2, <1>3, <1>4

\* Requests with an event or a token give nothing for a challenge.
LEMMA RequestCounts ==
    ASSUME AuthTyped, ChallengesInv, NEW r \in Requests, Remember(r),
           \/ \E e \in Events, ends \in Endings : VerifyNip98(r, e, ends)
           \/ \E s \in SessionIds, ends \in Endings : VerifyJwt(r, s, ends)
           \/ StoreNonce(r) \/ TouchSession(r) \/ FindOwned(r) \/ DeleteSession(r)
           \/ \E s \in SessionIds : Logout(r, s)
    PROVE  ChallengesInv'
    <1>1. UNCHANGED <<challenges, drawn>>
        BY DEF VerifyNip98, VerifyJwt, StoreNonce, TouchSession, FindOwned, DeleteSession, Logout
    <1>2. \A ch \in Challenges : granted'[ch] = granted[ch]
        <2>1. CASE StoreNonce(r)
            <3>1. PICK e : e = requests[r].event
                OBVIOUS
            <3>2. e \in Events /\ (Grant(e) \/ UNCHANGED granted)
                BY <2>1, <3>1, RequestFields DEF StoreNonce, Accept, AuthTyped
            <3>3. QED BY <3>2, GrantTyped, AuthAssumption
        <2>2. CASE ~StoreNonce(r)
            BY <2>2 DEF VerifyNip98, VerifyJwt, TouchSession, FindOwned, DeleteSession, Logout
        <2>3. QED BY <2>1, <2>2
    <1>3. /\ requests'[r].op \notin LoginOps \/ requests'[r].login = AnyKey
          /\ \A q \in Requests \ {r} : requests'[q] = requests[q]
        <2>1. CASE StoreNonce(r) \/ TouchSession(r)
            <3>1. requests[r].op \in {"store", "touch"} /\ requests[r] \in RequestType
                BY <2>1 DEF StoreNonce, TouchSession, AuthTyped
            <3>2. PICK key, ends : /\ ends = requests[r].ends
                                   /\ Await(r, Authorized(key, ends)) \/ Await(r, Ready)
                BY <2>1 DEF StoreNonce, TouchSession, Respond
            <3>3. /\ requests'[r] \in {Authorized(key, ends), Ready}
                  /\ \A q \in Requests \ {r} : requests'[q] = requests[q]
                BY <3>2 DEF Await, AuthTyped
            <3>4. QED BY <3>3 DEF Authorized, Ready, LoginOps
        <2>2. CASE FindOwned(r)
            <3>1. requests[r] \in [op : {"owned", "delete"}, key : Keys, session : SessionIds]
                BY <2>2, RequestFields DEF FindOwned, AuthTyped
            <3>2. /\ requests'[r] \in {[requests[r] EXCEPT !.op = "delete"], Ready}
                  /\ \A q \in Requests \ {r} : requests'[q] = requests[q]
                BY <2>2 DEF FindOwned, Await, AuthTyped
            <3>3. QED BY <3>1, <3>2 DEF Ready, LoginOps
        <2>3. CASE \/ \E e \in Events, ends \in Endings : VerifyNip98(r, e, ends)
                   \/ \E s \in SessionIds, ends \in Endings : VerifyJwt(r, s, ends)
            BY <2>3 DEF VerifyNip98, VerifyJwt, Await, AuthTyped, LoginOps
        <2>4. CASE DeleteSession(r) \/ \E s \in SessionIds : Logout(r, s)
            BY <2>4 DEF DeleteSession, Logout, Respond, Await, AuthTyped, Ready, LoginOps
        <2>5. QED BY <2>1, <2>2, <2>3, <2>4
    <1>4. \A ch \in Challenges : ~IsFor(r, ch)'
        BY <1>3, AuthAssumption DEF IsFor
    <1>5. QED BY <1>1, <1>2, <1>3, <1>4, OthersKeepChallenges

LEMMA ChallengesStepInv ==
    ASSUME AuthTyped, ChallengesInv, NEW r \in Requests, NEW asked, Handles(r) \/ Asks(r, asked),
           Remember(r)
    PROVE  ChallengesInv'
    <1>1. CASE Handles(r)
        BY <1>1, CleanupChallengesCounts, UseChallengeCounts, FindOrInsertCounts,
           CreateSessionCounts, LnurlCounts, RequestCounts DEF Handles
    <1>2. CASE Asks(r, asked)
        <2>1. ASSUME NEW ends \in Endings,
                     \/ \E e \in Events : VerifyNip98(r, e, ends)
                     \/ \E s \in SessionIds : VerifyJwt(r, s, ends)
              PROVE  ChallengesInv'
            BY <2>1, RequestCounts
        <2>2. {{}} \subseteq Endings
            BY DEF Endings
        <2>3. QED
            BY <1>2, <2>1, <2>2, GenerateChallengeCounts, VerifyChallengeCounts, LnurlCounts,
               RequestCounts DEF Asks
    <1>3. QED BY <1>1, <1>2

(***************************************************************************)
(* The uses of an event                                                    *)
(***************************************************************************)

\* A handler that did not find the event in the cache, will store it, and would count.
Misses(r, e) == requests[r].op = "store" /\ requests[r].event = e /\ r \notin late

\* An event that was accepted before its time by less than the window is kept in the cache
\* until it is too old: only who missed it before that may accept it still.
EventInv(e) ==
    /\ e \in DOMAIN nonces => nonces[e] <= now
    /\ \/ granted[e].times = 0
       \/ e.created >= granted[e].first + Window
       \/ /\ granted[e].times = 1
          /\ e \in DOMAIN nonces /\ nonces[e] >= granted[e].first
          /\ now > e.created + Window \/ \A r \in Requests : ~Misses(r, e)

EventsInv == \A e \in Events : EventInv(e)

LEMMA EventTypes ==
    ASSUME AuthTyped, NEW e \in Events
    PROVE  /\ now \in Nat /\ e.created \in Nat /\ e.key \in Keys
           /\ Window \in Nat /\ NonceTtl \in Nat /\ NonceTtl >= 2 * Window
           /\ granted[e].times \in Nat /\ granted[e].first \in Nat
           /\ e \in DOMAIN nonces => nonces[e] \in Nat
    BY GrantedTimes, AuthAssumption DEF AuthTyped, TablesTyped, MapOf

LEMMA EventsInitInv == Init => EventsInv
    BY DEF Init, AuthInit, EventsInv, EventInv, EmptyMap

\* A step that accepts no event and brings no handler to one.
LEMMA EventsStay ==
    ASSUME AuthTyped, EventsInv, now' \in Nat, now <= now', UNCHANGED nonces,
           \A e \in Events : granted'[e] = granted[e],
           \A e \in Events, q \in Requests : Misses(q, e)' => Misses(q, e)
    PROVE  EventsInv'
    <1> SUFFICES ASSUME NEW e \in Events PROVE EventInv(e)'
        BY DEF EventsInv
    <1>1. EventInv(e)
        BY DEF EventsInv
    <1>2. QED BY <1>1, EventTypes DEF EventInv

\* Who was late for an event is not counted, whatever the others do.
LEMMA MissesStay ==
    ASSUME NEW r \in Requests, Remember(r), NEW q \in Requests, NEW e,
           requests'[q] = requests[q], Misses(q, e)'
    PROVE  Misses(q, e) /\ ~Overtakes(r, q)
    BY DEF Remember, Misses, Ready

LEMMA VerifyNip98Inv ==
    ASSUME AuthTyped, EventsInv, NEW r \in Requests, NEW event \in Events, NEW ends,
           VerifyNip98(r, event, ends), UNCHANGED now, Remember(r)
    PROVE  EventsInv'
    <1>1. PICK k : k = [op |-> "store", event |-> event, ends |-> ends]
        OBVIOUS
    <1>2. /\ MayForget(event) /\ UNCHANGED <<nonces, granted>>
          /\ requests'[r] = k /\ \A q \in Requests \ {r} : requests'[q] = requests[q]
        BY <1>1 DEF VerifyNip98, Await, AuthTyped
    <1> SUFFICES ASSUME NEW e \in Events PROVE EventInv(e)'
        BY DEF EventsInv
    <1>3. EventInv(e)
        BY DEF EventsInv
    <1>4. CASE e = event
        <2>1. e \in DOMAIN nonces => now >= nonces[e] + NonceTtl
            BY <1>2, <1>4 DEF MayForget
        <2>2. e \in DOMAIN nonces /\ nonces[e] >= granted[e].first
              /\ ~(e.created >= granted[e].first + Window)
              => now > e.created + Window
            BY <2>1, EventTypes
        <2>3. QED BY <1>2, <1>3, <2>2 DEF EventInv
    <1>5. CASE e # event
        <2>1. ~Misses(r, e)'
            BY <1>1, <1>2, <1>5 DEF Misses
        <2>2. \A q \in Requests : Misses(q, e)' => Misses(q, e)
            BY <1>2, <2>1, MissesStay
        <2>3. QED BY <1>2, <1>3, <2>2 DEF EventInv
    <1>6. QED BY <1>4, <1>5

LEMMA StoreNonceInv ==
    ASSUME AuthTyped, EventsInv, NEW r \in Requests, StoreNonce(r), UNCHANGED now, Remember(r)
    PROVE  EventsInv'
    <1>1. PICK event : event = requests[r].event
        OBVIOUS
    <1>2. event \in Events /\ requests[r].op = "store"
        BY <1>1, RequestFields DEF StoreNonce, AuthTyped
    <1>3. nonces' = Put(nonces, event, now)
        BY <1>1 DEF StoreNonce
    <1>4. /\ requests'[r].op # "store" /\ \A q \in Requests \ {r} : requests'[q] = requests[q]
          /\ UNCHANGED granted \/ (Grant(event) /\ InWindow(event) /\ r \notin late)
        <2>1. \/ \E ends : /\ Await(r, Authorized(event.key, ends)) /\ Accept(r, event)
                           /\ InWindow(event)
              \/ Await(r, Ready) /\ UNCHANGED granted
            BY <1>1 DEF StoreNonce, Respond
        <2>2. QED BY <2>1 DEF Await, Accept, AuthTyped, Authorized, Ready
    <1> SUFFICES ASSUME NEW e \in Events PROVE EventInv(e)'
        BY DEF EventsInv
    <1>5. EventInv(e)
        BY DEF EventsInv
    <1>6. \A q \in Requests : Misses(q, e)' => Misses(q, e) /\ q # r /\ ~Overtakes(r, q)
        BY <1>4, MissesStay DEF Misses
    <1>7. CASE e = event
        <2>1. e \in DOMAIN nonces' /\ nonces'[e] = now
            BY <1>3, <1>7 DEF Put
        <2>2. CASE UNCHANGED granted
            BY <1>5, <1>6, <2>1, <2>2, EventTypes DEF EventInv
        <2>3. CASE Grant(event) /\ InWindow(event) /\ r \notin late
            <3>1. /\ granted'[e].times = granted[e].times + 1
                  /\ granted'[e].first = (IF granted[e].times = 0 THEN now ELSE granted[e].first)
                BY <1>7, <2>3, GrantTyped
            <3>2. ~(now > e.created + Window)
                BY <1>7, <2>3, EventTypes DEF InWindow
            <3>3. Misses(r, e)
                BY <1>1, <1>2, <1>7, <2>3 DEF Misses
            <3>4. CASE granted[e].times = 0
                <4>1. granted' # granted
                    BY <3>1, EventTypes
                <4>2. \A q \in Requests : ~Misses(q, e)'
                    BY <1>1, <1>2, <1>6, <1>7, <4>1 DEF Misses, Overtakes
                <4>3. QED BY <2>1, <3>1, <3>4, <4>2, EventTypes DEF EventInv
            <3>5. CASE granted[e].times # 0
                <4>1. e.created >= granted[e].first + Window
                    BY <1>5, <3>2, <3>3, <3>5 DEF EventInv
                <4>2. QED BY <2>1, <3>1, <3>5, <4>1, EventTypes DEF EventInv
            <3>6. QED BY <3>4, <3>5
        <2>4. QED BY <1>4, <2>2, <2>3
    <1>8. CASE e # event
        <2>1. /\ e \in DOMAIN nonces' <=> e \in DOMAIN nonces
              /\ e \in DOMAIN nonces => nonces'[e] = nonces[e]
            BY <1>3, <1>8 DEF Put
        <2>2. granted'[e] = granted[e]
            BY <1>2, <1>4, <1>8, GrantTyped
        <2>3. QED BY <1>5, <1>6, <2>1, <2>2, EventTypes DEF EventInv
    <1>9. QED BY <1>7, <1>8

\* The other handlers hold no event.
LEMMA OthersKeepEvents ==
    ASSUME AuthTyped, EventsInv, NEW r \in Requests, UNCHANGED <<now, nonces>>,
           \A e \in Events : granted'[e] = granted[e],
           requests' = requests \/ \E k : Await(r, k) /\ k.op # "store", Remember(r)
    PROVE  EventsInv'
    <1>1. \A e \in Events, q \in Requests : Misses(q, e)' => Misses(q, e)
        <2> SUFFICES ASSUME NEW e \in Events, NEW q \in Requests, Misses(q, e)'
                     PROVE  Misses(q, e)
            OBVIOUS
        <2>1. requests'[q] = requests[q]
            BY DEF Misses, Await, AuthTyped
        <2>2. QED BY <2>1, MissesStay
    <1>2. now' \in Nat /\ now <= now'
        BY DEF AuthTyped
    <1>3. QED BY <1>1, <1>2, EventsStay

LEMMA HandlesEventsInv ==
    ASSUME AuthTyped, EventsInv, NEW r \in Requests, Handles(r), UNCHANGED now, Remember(r)
    PROVE  EventsInv'
    <1>1. CASE StoreNonce(r)
        BY <1>1, StoreNonceInv
    <1>2. CASE CleanupChallenges(r) \/ VerifyLnurl(r) \/ DeleteSession(r)
        <2>1. UNCHANGED <<nonces, granted>> /\ Await(r, Ready) /\ Ready.op # "store"
            BY <1>2 DEF CleanupChallenges, VerifyLnurl, DeleteSession, Respond, Ready
        <2>2. QED BY <2>1, OthersKeepEvents
    <1>3. ASSUME NEW s \in SessionIds, CreateSession(r, s) PROVE EventsInv'
        <2>1. requests[r].login \in Challenges \cup K1s
            BY <1>3, RequestFields DEF CreateSession, AuthTyped, LoginOps, LoginRequest
        <2>2. /\ Grant(requests[r].login) \/ UNCHANGED granted
              /\ UNCHANGED nonces /\ Await(r, Ready) /\ Ready.op # "store"
            BY <1>3 DEF CreateSession, Accept, Respond, Ready
        <2>3. \A e \in Events : granted'[e] = granted[e]
            BY <2>1, <2>2, GrantTyped, AuthAssumption
        <2>4. QED BY <2>2, <2>3, OthersKeepEvents
    <1>4. CASE UseChallenge(r) \/ FindUser(r) \/ InsertUser(r) \/ LinkUser(r)
        <2>1. requests[r] \in LoginRequest
            BY <1>4, RequestFields
               DEF UseChallenge, FindUser, InsertUser, LinkUser, AuthTyped, LoginOps
        <2>2. UNCHANGED <<nonces, granted>>
            BY <1>4 DEF UseChallenge, FindUser, InsertUser, LinkUser
        <2>3. PICK k : /\ Await(r, k)
                       /\ \/ k = AfterUser(requests[r]) \/ k = Ready
                          \/ \E op \in LoginOps : k = [requests[r] EXCEPT !.op = op]
            BY <1>4 DEF UseChallenge, FindUser, InsertUser, LinkUser, Respond, LoginOps
        <2>4. k.op # "store"
            BY <2>1, <2>3, AfterUserTyped DEF LoginOps, LoginRequest, Ready
        <2>5. QED BY <2>2, <2>3, <2>4, OthersKeepEvents
    <1>5. CASE TouchSession(r) \/ FindOwned(r)
        <2>1. UNCHANGED <<nonces, granted>>
            BY <1>5 DEF TouchSession, FindOwned
        <2>2. CASE TouchSession(r)
            <3>1. PICK k : Await(r, k) /\ (k = Ready \/ \E key, ends : k = Authorized(key, ends))
                BY <2>2 DEF TouchSession, Respond
            <3>2. k.op # "store"
                BY <3>1 DEF Authorized, Ready
            <3>3. QED BY <2>1, <3>1, <3>2, OthersKeepEvents
        <2>3. CASE FindOwned(r)
            <3>1. requests[r] \in [op : {"owned", "delete"}, key : Keys, session : SessionIds]
                BY <2>3, RequestFields DEF FindOwned, AuthTyped
            <3>2. PICK k \in {[requests[r] EXCEPT !.op = "delete"], Ready} : Await(r, k)
                BY <2>3 DEF FindOwned
            <3>3. k.op # "store"
                BY <3>1, <3>2 DEF Ready
            <3>4. QED BY <2>1, <3>2, <3>3, OthersKeepEvents
        <2>4. QED BY <1>5, <2>2, <2>3
    <1>6. QED BY <1>1, <1>2, <1>3, <1>4, <1>5 DEF Handles

LEMMA AsksEventsInv ==
    ASSUME AuthTyped, EventsInv, NEW r \in Requests, NEW asked, Asks(r, asked), UNCHANGED now,
           Remember(r)
    PROVE  EventsInv'
    <1>1. ASSUME NEW e \in Events, NEW ends, VerifyNip98(r, e, ends) PROVE EventsInv'
        BY <1>1, VerifyNip98Inv
    <1>2. ASSUME NEW s \in SessionIds, NEW ends, VerifyJwt(r, s, ends) PROVE EventsInv'
        <2>1. PICK k : k = [op |-> "touch", session |-> s, ends |-> ends]
            OBVIOUS
        <2>2. Await(r, k) /\ k.op # "store" /\ UNCHANGED <<nonces, granted>>
            BY <1>2, <2>1 DEF VerifyJwt
        <2>3. QED BY <2>2, OthersKeepEvents
    <1>3. ASSUME NEW s \in SessionIds, Logout(r, s) PROVE EventsInv'
        BY <1>3, OthersKeepEvents DEF Logout
    <1>4. ASSUME NEW ch \in Challenges, NEW key, GenerateChallenge(r, ch, key) PROVE EventsInv'
        <2>1. PICK k : k = [op |-> "cleanup"]
            OBVIOUS
        <2>2. Await(r, k) /\ k.op # "store" /\ UNCHANGED <<nonces, granted>>
            BY <1>4, <2>1 DEF GenerateChallenge
        <2>3. QED BY <2>2, OthersKeepEvents
    <1>5. ASSUME NEW ch \in Challenges, NEW key, VerifyChallenge(r, ch, key) PROVE EventsInv'
        <2>1. PICK k : k = [op |-> "use", login |-> ch, key |-> key]
            OBVIOUS
        <2>2. Await(r, k) /\ k.op # "store" /\ UNCHANGED <<nonces, granted>>
            BY <1>5, <2>1 DEF VerifyChallenge
        <2>3. QED BY <2>2, OthersKeepEvents
    <1>6. ASSUME NEW k1 \in K1s,
                 PollLnurlAuth(r, k1) \/ \E key \in Keys : HandleLnurlCallback(r, k1, key)
          PROVE  EventsInv'
        <2>1. PICK k : Await(r, k) /\ \E op \in {"find", "verify"} : \E key :
                                         k = [op |-> op, login |-> k1, key |-> key]
            BY <1>6 DEF PollLnurlAuth, HandleLnurlCallback
        <2>2. k.op # "store"
            BY <2>1
        <2>3. UNCHANGED <<nonces, granted>>
            BY <1>6 DEF PollLnurlAuth, HandleLnurlCallback
        <2>4. QED BY <2>1, <2>2, <2>3, OthersKeepEvents
    <1>7. ASSUME NEW k1 \in K1s, GenerateLnurlAuth(r, k1) PROVE EventsInv'
        BY <1>7, OthersKeepEvents DEF GenerateLnurlAuth
    <1>8. QED BY <1>1, <1>2, <1>3, <1>4, <1>5, <1>6, <1>7 DEF Asks

AuthInv == AuthTyped /\ late \subseteq Requests /\ ChallengesInv /\ EventsInv

LEMMA AuthInitInv == Init => AuthInv
    <1>1. Init => late \subseteq Requests
        BY DEF Init, AuthInit
    <1>2. QED BY <1>1, AuthInitTyped, ChallengesInitInv, EventsInitInv DEF AuthInv

\* Time passes, here or in another service.
LEMMA AuthWaits ==
    ASSUME AuthInv, UNCHANGED authVars, now' \in Nat, now <= now'
    PROVE  AuthInv'
    <1>1. AuthTyped'
        BY DEF AuthInv, AuthTyped, TablesTyped, authVars
    <1>2. \A r \in Requests : \A x : IsFor(r, x)' = IsFor(r, x)
        BY DEF IsFor, authVars
    <1>3. ChallengesInv'
        <2>1. \A ch : /\ Fresh(ch)' = Fresh(ch)
                      /\ \A r \in Requests : Live(r, ch)' = Live(r, ch)
            BY <1>2 DEF Live, Fresh, authVars
        <2>2. QED BY <1>2, <2>1 DEF AuthInv, ChallengesInv, ChallengeInv, authVars
    <1>4. EventsInv'
        BY EventsStay DEF AuthInv, Misses, authVars
    <1>5. late' \subseteq Requests
        BY DEF AuthInv, authVars
    <1>6. QED BY <1>1, <1>3, <1>4, <1>5 DEF AuthInv

LEMMA AuthStepInv ==
    ASSUME AuthInv, NEW asked, AuthNext(asked)
    PROVE  AuthInv'
    <1>1. CASE AuthTick
        <2>1. now' = now + 1 /\ UNCHANGED authVars /\ now \in Nat
            BY <1>1 DEF AuthTick, TickClock, AuthInv, AuthTyped
        <2>2. QED BY <2>1, AuthWaits
    <1>2. ASSUME NEW r \in Requests, Handles(r) \/ Asks(r, asked), Remember(r), UNCHANGED now
          PROVE  AuthInv'
        <2>1. late' \subseteq Requests
            BY <1>2 DEF Remember
        <2>2. QED
            BY <1>2, <2>1, AuthStepTyped, ChallengesStepInv, HandlesEventsInv, AsksEventsInv
               DEF AuthInv
    <1>3. QED BY <1>1, <1>2 DEF AuthNext, Handles

LEMMA AuthFocusInv == AuthInv /\ [Next]_platformVars => AuthInv'
    <1> SUFFICES ASSUME AuthInv, Next \/ UNCHANGED platformVars PROVE AuthInv'
        OBVIOUS
    <1>1. now' \in Nat /\ now <= now'
        BY ClockTicks DEF AuthInv, AuthTyped
    <1>2. CASE focus \in DOMAIN AsksOf /\ AuthNext(AsksOf[focus])
        <2>1. PICK asked : asked = AsksOf[focus]
            OBVIOUS
        <2>2. QED BY <1>2, <2>1, AuthStepInv
    <1>3. CASE UNCHANGED authVars
        BY <1>1, <1>3, AuthWaits
    <1>4. QED BY <1>2, <1>3 DEF Next, platformVars

\* (verifyChallenge) For any keys, challenges and overlapping handlers: a challenge gives
\* one session, but to the handlers that looked at it before another marked it as used.
THEOREM ChallengesAreForOneLogin == Spec => []ChallengeUse
    <1>1. AuthInv => ChallengeUse
        BY DEF AuthInv, ChallengesInv, ChallengeInv, ChallengeUse
    <1>2. QED BY <1>1, AuthInitInv, AuthFocusInv, PTL DEF Spec

\* (verifyNip98Auth) For any events, clients' clocks and overlapping handlers: an event
\* authorizes one request, but for those that missed it in the cache before another had
\* stored it, unless the client's clock was ahead by the whole window.
THEOREM EventsAreForOneRequest == Spec => []EventUse
    <1>1. AuthInv => EventUse
        <2> SUFFICES ASSUME AuthInv, NEW e \in Events
                     PROVE  granted[e].times <= 1 \/ e.created >= granted[e].first + Window
            BY DEF EventUse
        <2>1. EventInv(e)
            BY DEF AuthInv, EventsInv
        <2>2. QED BY <2>1 DEF EventInv
    <1>2. QED BY <1>1, AuthInitInv, AuthFocusInv, PTL DEF Spec

(***************************************************************************)
(* Addresses                                                               *)
(***************************************************************************)

Key == Claimants \cup {Nobody}
VerifiedRecord ==
    [verified : BOOLEAN, resolved : Key, expiresAt : Nat, asked : Nat, named : BOOLEAN]
CheckRecord ==
    [at : {"asked", "answered"}, address : Addresses, expected : Claimants, since : Nat,
     steady : BOOLEAN, names : Key, named : SUBSET Key]

VerificationTyped ==
    /\ now \in Nat
    /\ wellKnown \in [Addresses -> Key]
    /\ verifications \in [DOMAIN verifications -> VerifiedRecord]
    /\ DOMAIN verifications \subseteq Addresses
    /\ checks \in [Checks -> CheckRecord \cup {NoCheck}]
    /\ refusedAt \in [Addresses -> Int]

\* What the domain says now is named in time for a check that waits for it, whose timer
\* runs; what a check was answered was named in time; a steady one was answered what is
\* still so.
CheckIsTimely(check) ==
    /\ check.at = "asked" => InTime(check) /\ wellKnown[check.address] \in check.named
    /\ check.at = "answered" =>
          /\ check.names \in check.named
          /\ check.steady => check.names = wellKnown[check.address]

ChecksAreTimely == \A c \in Checks : checks[c] # NoCheck => CheckIsTimely(checks[c])

\* What an entry verifies was named in time; as long as it is fresh, what it refuses was
\* refused not too long before.
EntryIsBacked(a, entry) ==
    /\ entry.verified => entry.named
    /\ now < entry.expiresAt /\ ~entry.verified /\ entry.resolved \in Claimants
           => entry.expiresAt <= refusedAt[a] + VerifyTtl

CacheIsBacked == \A a \in DOMAIN verifications : EntryIsBacked(a, verifications[a])

VerificationInv == VerificationTyped /\ ChecksAreTimely /\ CacheIsBacked /\ VerifiedWasNamed

LEMMA SpanTypes == VerifyTtl \in Nat /\ VerifyTtl > 0 /\ FetchTime \in Nat /\ Nobody \notin Claimants
    BY VerificationAssumption

LEMMA CheckFields ==
    ASSUME VerificationTyped, NEW c \in Checks
    PROVE  /\ checks[c] # NoCheck <=> checks[c].at # "none"
           /\ checks[c] # NoCheck => checks[c] \in CheckRecord
    BY DEF VerificationTyped, CheckRecord, NoCheck

LEMMA NothingTold == told = NotTold => VerifiedWasNamed
    BY DEF NotTold, VerifiedWasNamed

(***************************************************************************)
(* Questions                                                               *)
(***************************************************************************)

LEMMA VerifyAsksInv ==
    ASSUME VerificationInv, NEW c \in Checks, NEW a \in Addresses, NEW expected \in Claimants,
           VerifyAsks(c, a, expected)
    PROVE  VerificationInv'
    <1> DEFINE check == [at |-> "asked", address |-> a, expected |-> expected, since |-> now,
                         names |-> Nobody, steady |-> TRUE, named |-> {wellKnown[a]}]
    <1>1. /\ checks' = [checks EXCEPT ![c] = check] /\ told' = NotTold
          /\ UNCHANGED <<now, wellKnown, verifications, refusedAt>>
        BY DEF VerifyAsks
    <1>2. check \in CheckRecord
        BY DEF VerificationInv, VerificationTyped, CheckRecord, Key
    <1>3. VerificationTyped'
        BY <1>1, <1>2 DEF VerificationInv, VerificationTyped
    <1>4. CheckIsTimely(check)
        BY SpanTypes DEF CheckIsTimely, InTime, VerificationInv, VerificationTyped
    <1>5. ChecksAreTimely'
        BY <1>1, <1>4 DEF VerificationInv, VerificationTyped, ChecksAreTimely, CheckIsTimely, InTime
    <1>6. CacheIsBacked'
        BY <1>1 DEF VerificationInv, CacheIsBacked, EntryIsBacked
    <1>7. QED BY <1>1, <1>3, <1>5, <1>6, NothingTold DEF VerificationInv, VerifiedWasNamed, NotTold

LEMMA DomainAnswersInv ==
    ASSUME VerificationInv, NEW c \in Checks, DomainAnswers(c)
    PROVE  VerificationInv'
    <1> DEFINE check == [checks[c] EXCEPT !.at = "answered", !.names = wellKnown[checks[c].address]]
    <1>1. /\ checks[c] # NoCheck /\ checks[c] \in CheckRecord /\ checks[c].at = "asked"
        BY CheckFields DEF DomainAnswers, VerificationInv
    <1>2. /\ checks' = [checks EXCEPT ![c] = check] /\ told' = NotTold
          /\ UNCHANGED <<now, wellKnown, verifications, refusedAt>>
        BY DEF DomainAnswers, VerificationInv, VerificationTyped
    <1>3. check \in CheckRecord
        BY <1>1 DEF VerificationInv, VerificationTyped, CheckRecord
    <1>4. VerificationTyped'
        BY <1>2, <1>3 DEF VerificationInv, VerificationTyped
    <1>5. wellKnown[checks[c].address] \in checks[c].named
        BY <1>1 DEF VerificationInv, ChecksAreTimely, CheckIsTimely
    <1>6. CheckIsTimely(check)
        <2>1. /\ check.address = checks[c].address /\ check.named = checks[c].named
              /\ check.names = wellKnown[check.address] /\ check.at = "answered"
            BY <1>1 DEF CheckRecord
        <2>2. QED BY <1>5, <2>1 DEF CheckIsTimely
    <1>7. ChecksAreTimely'
        BY <1>2, <1>6 DEF VerificationInv, VerificationTyped, ChecksAreTimely, CheckIsTimely, InTime
    <1>8. CacheIsBacked'
        BY <1>2 DEF VerificationInv, CacheIsBacked, EntryIsBacked
    <1>9. QED BY <1>2, <1>4, <1>7, <1>8 DEF VerificationInv, VerifiedWasNamed, NotTold

\* What is told of a value that is fresh.
LEMMA TellsWhatWasNamed ==
    ASSUME VerificationTyped, NEW value \in VerifiedRecord, now < value.expiresAt,
           value.verified => value.named,
           told'.verified = value.verified, told'.named = value.named,
           told'.expected = told'.resolved \/ ~value.verified,
           told'.at = now, told'.asked = value.asked,
           told'.read = value.expiresAt - VerifyTtl,
           told'.refused => now < refusedAt'[told'.address] + VerifyTtl
    PROVE  VerifiedWasNamed'
    <1>1. /\ now \in Nat /\ value.expiresAt \in Nat /\ value.asked \in Nat
        BY DEF VerificationTyped, VerifiedRecord
    <1>2. \/ now < value.asked + (VerifyTtl + FetchTime)
          \/ value.expiresAt - VerifyTtl > value.asked + FetchTime
        BY <1>1, SpanTypes
    <1>3. QED BY <1>2 DEF VerifiedWasNamed, Within

LEMMA VerifyCachedInv ==
    ASSUME VerificationInv, NEW a \in Addresses, NEW expected \in Claimants,
           VerifyCached(a, expected)
    PROVE  VerificationInv'
    <1> DEFINE entry == verifications[a]
    <1>1. /\ a \in DOMAIN verifications /\ now < entry.expiresAt /\ entry.resolved = expected
          /\ entry \in VerifiedRecord
          /\ UNCHANGED <<now, wellKnown, verifications, checks, refusedAt>>
        BY DEF VerifyCached, IsFresh, VerificationInv, VerificationTyped, VerifiedRecord
    <1>2. /\ told'.verified = entry.verified /\ told'.resolved = expected /\ told'.address = a
          /\ told'.expected = expected /\ told'.at = now /\ told'.named = entry.named
          /\ told'.asked = entry.asked /\ told'.read = entry.expiresAt - VerifyTtl
          /\ told'.refused => ~entry.verified
        BY <1>1 DEF VerifyCached, Tell
    <1>3. EntryIsBacked(a, entry)
        BY <1>1 DEF VerificationInv, CacheIsBacked
    <1>4. /\ now \in Nat /\ entry.expiresAt \in Nat /\ refusedAt[a] \in Int
        BY <1>1 DEF VerificationInv, VerificationTyped, VerifiedRecord
    <1>5. ~entry.verified => now < refusedAt[a] + VerifyTtl
        BY <1>1, <1>3, <1>4, SpanTypes DEF EntryIsBacked
    <1>6. told'.refused => now < refusedAt'[told'.address] + VerifyTtl
        BY <1>1, <1>2, <1>5
    <1>7. VerifiedWasNamed'
        BY <1>1, <1>2, <1>3, <1>6, TellsWhatWasNamed DEF EntryIsBacked, VerificationInv
    <1>8. (VerificationTyped /\ ChecksAreTimely /\ CacheIsBacked)'
        BY <1>1 DEF VerificationInv, VerificationTyped, ChecksAreTimely, CheckIsTimely, InTime,
                    CacheIsBacked, EntryIsBacked
    <1>9. QED BY <1>7, <1>8 DEF VerificationInv

(***************************************************************************)
(* Answers                                                                 *)
(***************************************************************************)

\* What a check stores holds for as long as it is fresh, and so does what its caller is told.
LEMMA StoresInv ==
    ASSUME VerificationInv, NEW c \in Checks, checks[c] # NoCheck, NEW names \in Key,
           NEW heard \in BOOLEAN, Stores(c, names, heard),
           names \in Claimants => names \in checks[c].named,
           heard => names = wellKnown[checks[c].address]
    PROVE  VerificationInv'
    <1> DEFINE a == checks[c].address
               expected == checks[c].expected
               refuses == expected # names /\ names # Nobody
    <1>1. a \in Addresses /\ expected \in Claimants /\ checks[c].since \in Nat
        BY CheckFields DEF VerificationInv, CheckRecord
    <1>2. PICK entry : entry = ValueOf(checks[c], names)
        OBVIOUS
    <1>3. /\ verifications' = Put(verifications, a, entry)
          /\ refusedAt' = [refusedAt EXCEPT ![a] = IF refuses THEN now ELSE @]
          /\ checks' = [checks EXCEPT ![c] = NoCheck]
          /\ UNCHANGED <<now, wellKnown>>
        BY <1>2 DEF Stores, ValueOf
    <1>4. /\ entry.verified = (expected = names) /\ entry.resolved = names
          /\ entry.expiresAt = now + VerifyTtl
          /\ entry.asked = checks[c].since /\ entry.named = (names \in checks[c].named)
        BY <1>2 DEF ValueOf
    <1>5. /\ told'.verified = entry.verified /\ told'.named = entry.named
          /\ told'.resolved = names /\ told'.address = a /\ told'.expected = expected
          /\ told'.at = now /\ told'.asked = entry.asked
          /\ told'.read = entry.expiresAt - VerifyTtl
          /\ told'.refused => heard /\ expected # names /\ expected = wellKnown[a]
        BY <1>2, <1>4 DEF Stores, Tell
    <1>6. now \in Nat /\ refusedAt[a] \in Int
        BY <1>1 DEF VerificationInv, VerificationTyped
    <1>7. entry \in VerifiedRecord
        BY <1>1, <1>2, <1>6, SpanTypes DEF VerifiedRecord, ValueOf
    <1>8. VerificationTyped'
        BY <1>1, <1>3, <1>6, <1>7 DEF VerificationInv, VerificationTyped, Put
    <1>9. ChecksAreTimely'
        BY <1>3 DEF VerificationInv, VerificationTyped, ChecksAreTimely, CheckIsTimely, InTime
    <1>10. entry.verified => entry.named
        BY <1>1, <1>4
    <1>11. ~entry.verified /\ names \in Claimants => refusedAt'[a] = now
        BY <1>1, <1>3, <1>4, SpanTypes DEF VerificationInv, VerificationTyped
    <1>12. CacheIsBacked'
        <2> SUFFICES ASSUME NEW b \in DOMAIN verifications' PROVE EntryIsBacked(b, verifications[b])'
            BY DEF CacheIsBacked
        <2>1. CASE b = a
            <3>1. verifications'[b] = entry
                BY <1>3, <2>1 DEF Put
            <3>2. ~entry.verified /\ names \in Claimants
                      => entry.expiresAt <= refusedAt'[b] + VerifyTtl
                BY <1>4, <1>6, <1>11, <2>1, SpanTypes
            <3>3. QED BY <1>4, <1>10, <3>1, <3>2 DEF EntryIsBacked
        <2>2. CASE b # a
            <3>1. /\ b \in DOMAIN verifications /\ verifications'[b] = verifications[b]
                  /\ refusedAt'[b] = refusedAt[b]
                BY <1>3, <2>2 DEF Put, VerificationInv, VerificationTyped
            <3>2. QED BY <1>3, <3>1 DEF VerificationInv, CacheIsBacked, EntryIsBacked
        <2>3. QED BY <2>1, <2>2
    <1>13. VerifiedWasNamed'
        <2>1. ~told'.refused
            BY <1>5
        <2>2. now < entry.expiresAt
            BY <1>4, <1>6, SpanTypes
        <2>3. told'.expected = told'.resolved \/ ~entry.verified
            BY <1>4, <1>5
        <2>4. QED BY <1>5, <1>7, <1>10, <2>1, <2>2, <2>3, TellsWhatWasNamed DEF VerificationInv
    <1>14. QED BY <1>8, <1>9, <1>12, <1>13 DEF VerificationInv

LEMMA AnswerArrivesInv ==
    ASSUME VerificationInv, NEW c \in Checks, AnswerArrives(c)
    PROVE  VerificationInv'
    <1>1. /\ checks[c] # NoCheck /\ checks[c] \in CheckRecord /\ checks[c].at = "answered"
          /\ Stores(c, checks[c].names, checks[c].steady)
        BY CheckFields DEF AnswerArrives, VerificationInv
    <1>2. /\ checks[c].names \in checks[c].named
          /\ checks[c].steady => checks[c].names = wellKnown[checks[c].address]
        BY <1>1 DEF VerificationInv, ChecksAreTimely, CheckIsTimely
    <1>3. checks[c].names \in Key /\ checks[c].steady \in BOOLEAN
        BY <1>1 DEF CheckRecord
    <1>4. QED BY <1>1, <1>2, <1>3, StoresInv

LEMMA FetchFailsInv ==
    ASSUME VerificationInv, NEW c \in Checks, FetchFails(c)
    PROVE  VerificationInv'
    BY StoresInv, SpanTypes DEF FetchFails, Key

(***************************************************************************)
(* Domains and time                                                        *)
(***************************************************************************)

LEMMA DomainChangesInv ==
    ASSUME VerificationInv, NEW a \in Addresses, NEW key \in Key, DomainChanges(a, key)
    PROVE  VerificationInv'
    <1>1. /\ wellKnown' = [wellKnown EXCEPT ![a] = key] /\ told' = NotTold
          /\ UNCHANGED <<now, verifications, refusedAt>>
        BY DEF DomainChanges
    <1>2. \A b \in Addresses : wellKnown'[b] = IF b = a THEN key ELSE wellKnown[b]
        BY <1>1 DEF VerificationInv, VerificationTyped
    <1>3. ASSUME NEW c \in Checks, checks[c] # NoCheck
          PROVE  /\ checks'[c] \in CheckRecord
                 /\ CheckIsTimely(checks[c])'
        <2>1. checks[c] \in CheckRecord /\ CheckIsTimely(checks[c])
            BY <1>3, CheckFields DEF VerificationInv, ChecksAreTimely
        <2>2. CASE checks[c].address # a
            <3>1. checks'[c] = checks[c]
                BY <1>3, <2>2 DEF DomainChanges
            <3>2. wellKnown'[checks[c].address] = wellKnown[checks[c].address]
                BY <1>2, <2>1, <2>2 DEF CheckRecord
            <3>3. QED BY <1>1, <2>1, <3>1, <3>2 DEF CheckIsTimely, InTime
        <2>3. CASE checks[c].address = a
            <3> DEFINE heard == IF InTime(checks[c]) THEN checks[c].named \cup {key}
                                ELSE checks[c].named
            <3>1. checks'[c] = [checks[c] EXCEPT !.steady = FALSE, !.named = heard]
                BY <1>3, <2>3 DEF DomainChanges
            <3> HIDE DEF heard
            <3>2. heard \in SUBSET Key
                <4>1. checks[c].named \in SUBSET Key
                    BY <2>1 DEF CheckRecord
                <4>2. QED BY <4>1 DEF heard
            <3>3. /\ checks'[c] \in CheckRecord
                  /\ checks'[c].at = checks[c].at /\ checks'[c].since = checks[c].since
                  /\ checks'[c].address = a /\ checks'[c].names = checks[c].names
                  /\ ~checks'[c].steady /\ checks'[c].named = heard
                BY <2>1, <2>3, <3>1, <3>2 DEF CheckRecord
            <3>4. InTime(checks[c])' <=> InTime(checks[c])
                BY <1>1, <3>3 DEF InTime
            <3>5. checks'[c].at = "asked" => key \in checks'[c].named
                BY <2>1, <3>3 DEF CheckIsTimely, heard
            <3>6. checks[c].named \subseteq checks'[c].named
                BY <3>3 DEF heard
            <3>7. QED BY <1>2, <2>1, <3>3, <3>4, <3>5, <3>6 DEF CheckIsTimely
        <2>4. QED BY <2>2, <2>3
    <1>4. /\ checks' \in [Checks -> CheckRecord \cup {NoCheck}]
          /\ \A c \in Checks : checks[c] = NoCheck => checks'[c] = NoCheck
        <2>1. \A c \in Checks : checks[c] = NoCheck => checks'[c] = NoCheck
            BY DEF DomainChanges
        <2>2. \A c \in Checks : checks'[c] \in CheckRecord \cup {NoCheck}
            BY <1>3, <2>1
        <2>3. QED BY <2>1, <2>2 DEF DomainChanges
    <1>5. VerificationTyped'
        BY <1>1, <1>4 DEF VerificationInv, VerificationTyped
    <1>6. ChecksAreTimely'
        BY <1>3, <1>4 DEF ChecksAreTimely
    <1>7. CacheIsBacked'
        BY <1>1 DEF VerificationInv, CacheIsBacked, EntryIsBacked
    <1>8. QED BY <1>1, <1>5, <1>6, <1>7 DEF VerificationInv, VerifiedWasNamed, NotTold

LEMMA VerificationTickInv ==
    ASSUME VerificationInv, VerificationTick
    PROVE  VerificationInv'
    <1>1. /\ now' = now + 1 /\ now \in Nat /\ told' = NotTold
          /\ UNCHANGED <<wellKnown, verifications, checks>>
        BY DEF VerificationTick, TickClock, VerificationInv, VerificationTyped
    <1>2. \A a \in Addresses :
              /\ refusedAt[a] \in Int
              /\ refusedAt'[a] = StillCounts(refusedAt[a], VerifyTtl)
        BY DEF VerificationTick, VerificationInv, VerificationTyped
    <1>3. \A a \in Addresses :
              /\ refusedAt'[a] \in Int
              /\ now + 1 < refusedAt[a] + VerifyTtl => refusedAt'[a] = refusedAt[a]
        BY <1>1, <1>2, SpanTypes DEF StillCounts, Never
    <1>4. VerificationTyped'
        <2>1. refusedAt' \in [Addresses -> Int]
            BY <1>3 DEF VerificationTick
        <2>2. QED BY <1>1, <2>1 DEF VerificationInv, VerificationTyped
    <1>5. ChecksAreTimely'
        <2> SUFFICES ASSUME NEW c \in Checks, checks[c] # NoCheck PROVE CheckIsTimely(checks[c])'
            BY <1>1 DEF ChecksAreTimely
        <2>1. /\ checks[c] \in CheckRecord /\ CheckIsTimely(checks[c])
              /\ checks[c].at = "asked" => now < checks[c].since + FetchTime
            BY CheckFields DEF VerificationTick, VerificationInv, ChecksAreTimely
        <2>2. checks[c].since \in Nat
            BY <2>1 DEF CheckRecord
        <2>3. checks[c].at = "asked" => now + 1 <= checks[c].since + FetchTime
            BY <1>1, <2>1, <2>2, SpanTypes
        <2>4. QED BY <1>1, <2>1, <2>3 DEF CheckIsTimely, InTime
    <1>6. CacheIsBacked'
        <2> SUFFICES ASSUME NEW b \in DOMAIN verifications PROVE EntryIsBacked(b, verifications[b])'
            BY <1>1 DEF CacheIsBacked
        <2> DEFINE entry == verifications[b]
        <2>1. b \in Addresses /\ entry.expiresAt \in Nat /\ EntryIsBacked(b, entry)
            BY DEF VerificationInv, VerificationTyped, VerifiedRecord, CacheIsBacked
        <2>2. ASSUME now + 1 < entry.expiresAt, ~entry.verified, entry.resolved \in Claimants
              PROVE  entry.expiresAt <= refusedAt'[b] + VerifyTtl
            <3>1. now < entry.expiresAt
                BY <1>1, <2>1, <2>2
            <3>2. entry.expiresAt <= refusedAt[b] + VerifyTtl
                BY <2>1, <2>2, <3>1 DEF EntryIsBacked
            <3>3. QED BY <1>1, <1>2, <1>3, <2>1, <2>2, <3>2, SpanTypes
        <2>3. QED BY <1>1, <2>1, <2>2 DEF EntryIsBacked
    <1>7. QED BY <1>1, <1>4, <1>5, <1>6 DEF VerificationInv, VerifiedWasNamed, NotTold

LEMMA VerificationInitInv == now = 0 /\ VerificationInit => VerificationInv
    <1> SUFFICES ASSUME now = 0, VerificationInit PROVE VerificationInv
        OBVIOUS
    <1>1. DOMAIN verifications = {} /\ told = NotTold
        BY DEF VerificationInit, EmptyMap
    <1>2. Never \in Int
        BY SpanTypes DEF Never
    <1>3. verifications \in [DOMAIN verifications -> VerifiedRecord]
        BY <1>1 DEF VerificationInit, EmptyMap
    <1>4. VerificationTyped
        BY <1>1, <1>2, <1>3 DEF VerificationInit, VerificationTyped, Key
    <1>5. ChecksAreTimely /\ CacheIsBacked
        BY <1>1 DEF VerificationInit, ChecksAreTimely, CacheIsBacked
    <1>6. QED BY <1>1, <1>4, <1>5, NothingTold DEF VerificationInv

LEMMA VerificationNextInv ==
    VerificationInv /\ (VerificationNext \/ UNCHANGED <<now, verificationVars>>) => VerificationInv'
    <1> SUFFICES ASSUME VerificationInv, VerificationNext \/ UNCHANGED <<now, verificationVars>>
                 PROVE  VerificationInv'
        OBVIOUS
    <1>1. CASE UNCHANGED <<now, verificationVars>>
        BY <1>1 DEF verificationVars, VerificationInv, VerificationTyped, ChecksAreTimely,
                    CheckIsTimely, InTime, CacheIsBacked, EntryIsBacked, VerifiedWasNamed, Within
    <1>2. ASSUME NEW a \in Addresses, NEW key \in Claimants \cup {Nobody}, DomainChanges(a, key)
          PROVE  VerificationInv'
        BY <1>2, DomainChangesInv DEF Key
    <1>3. QED
        BY <1>1, <1>2, VerificationTickInv, VerifyCachedInv, VerifyAsksInv, DomainAnswersInv,
           AnswerArrivesInv, FetchFailsInv DEF VerificationNext

(***************************************************************************)
(* The specification                                                       *)
(***************************************************************************)

\* Where another service is exercised, no answer is told, whatever its clock does.
FocusInv ==
    /\ focus = "checks" => VerificationInv
    /\ focus # "checks" => told = NotTold /\ VerificationTyped

LEMMA FocusNextInv == FocusInv /\ [Next]_platformVars => FocusInv'
    <1> SUFFICES ASSUME FocusInv, [Next]_platformVars PROVE FocusInv'
        OBVIOUS
    <1>1. CASE focus = "checks"
        <2>1. VerificationInv
            BY <1>1 DEF FocusInv
        <2>2. focus' = focus /\ (VerificationNext \/ UNCHANGED <<now, verificationVars>>)
            BY <1>1 DEF Next, platformVars, AsksOf
        <2>3. VerificationInv'
            BY <2>1, <2>2, VerificationNextInv
        <2>4. QED BY <1>1, <2>2, <2>3 DEF FocusInv
    <1>2. CASE focus # "checks"
        <2>1. focus' = focus /\ UNCHANGED verificationVars
            BY <1>2 DEF Next, platformVars
        <2>2. now' \in Nat
            BY <1>2, ClockTicks DEF FocusInv, VerificationTyped
        <2>3. QED BY <1>2, <2>1, <2>2 DEF FocusInv, VerificationTyped, verificationVars
    <1>3. QED BY <1>1, <1>2

\* (verifyAddress) A key that is told it is verified was named by the domain between the
\* question that the answer is to and the end of its timer, at most the life of an answer and
\* of the timer ago unless the body was slower than the timer; and a key that the domain
\* keeps to is not refused for longer than a refusal of another's check is cached: for any
\* number of checks of any addresses by any keys, and any answers, failures, slow bodies and
\* changes between them.
THEOREM VerifiedKeysWereNamed == Spec => []VerifiedWasNamed
    <1>1. Init => FocusInv
        BY VerificationInitInv DEF Init, FocusInv, VerificationInit, VerificationInv
    <1>2. FocusInv => VerifiedWasNamed
        BY NothingTold DEF FocusInv, VerificationInv
    <1>3. QED BY <1>1, <1>2, FocusNextInv, PTL DEF Spec

(***************************************************************************)
(* What the state of the services holds                                    *)
(***************************************************************************)

LEMMA KeysStateOK == KeysTyped => KeysTypeOK
    <1> SUFFICES ASSUME KeysTyped, NEW c \in KeyCalls, "key" \in DOMAIN keyCalls[c]
                 PROVE  keyCalls[c].key \in DOMAIN apiKeys
        BY DEF KeysTyped, KeysTypeOK, KeyRow
    <1>1. keyCalls[c] \in {KeyIdle} \cup InsertCall \cup OnKeyCall(DOMAIN apiKeys, secrets)
          /\ secrets \subseteq DOMAIN apiKeys
        BY DEF KeysTyped
    <1>2. keyCalls[c] \notin {KeyIdle} \cup InsertCall
        BY DEF KeyIdle, InsertCall
    <1>3. keyCalls[c] \in OnKeyCall(DOMAIN apiKeys, secrets)
        BY <1>1, <1>2
    <1>4. QED BY <1>1, <1>3 DEF OnKeyCall

LEMMA SyncStateOK == QueueTyped /\ LoopTyped => SyncTypeOK
    BY DEF QueueTyped, LoopTyped, SyncTypeOK, QueueRow

LEMMA LimiterStateOK == LimiterTyped => LimiterTypeOK
    BY DEF LimiterTyped, LimiterTypeOK, Wait

\* The notes that are copied, or excused, are notes.
NotesKnown == local \subseteq Notes /\ excused \subseteq Notes

LEMMA NotesStayKnown ==
    ASSUME UserSyncInv, NotesKnown, UserSyncNext \/ UNCHANGED userSyncVars
    PROVE  NotesKnown'
    <1>1. CASE UNCHANGED <<local, excused>>
        BY <1>1 DEF NotesKnown
    <1>2. ASSUME NEW n \in Notes, NEW date, WriteNote(n, date) PROVE NotesKnown'
        BY <1>2 DEF WriteNote, NotesKnown
    <1>3. ASSUME NEW s \in Syncs, NEW notes \in SUBSET Notes,
                 NotesGiven(s, notes) \/ PublishNotes(s, notes)
          PROVE  NotesKnown'
        <2>1. CASE NotesGiven(s, notes)
            BY <2>1 DEF NotesGiven, NotesKnown
        <2>2. CASE PublishNotes(s, notes)
            <3>1. syncs[s].given \subseteq Notes
                BY <2>2, SyncFields DEF PublishNotes, UserSyncInv, UserSyncTyped
            <3>2. QED BY <2>2, <3>1 DEF PublishNotes, NotesKnown
        <2>3. QED BY <1>3, <2>1, <2>2
    <1>4. CASE \E s \in Syncs :
                  \/ \E u \in Users : UserLogin(s, u)
                  \/ ReadSyncState(s) \/ WriteBegins(s) \/ WriteEnds(s)
                  \/ QueryFails(s) \/ SyncFails(s)
        BY <1>1, <1>4 DEF UserLogin, ReadSyncState, WriteBegins, WriteEnds, QueryFails, SyncFails
    <1>5. CASE ServerStops \/ UNCHANGED userSyncVars
        BY <1>1, <1>5 DEF ServerStops, userSyncVars
    <1>6. CASE \E s \in Syncs : \E notes \in SUBSET Notes :
                  NotesGiven(s, notes) \/ PublishNotes(s, notes)
        BY <1>3, <1>6
    <1>7. CASE \E n \in Notes, date \in NoteDates : WriteNote(n, date)
        BY <1>2, <1>7
    <1>8. QED BY <1>4, <1>5, <1>6, <1>7 DEF UserSyncNext

LEMMA UserSyncStateOK == UserSyncInv /\ NotesKnown => UserSyncTypeOK
    <1> SUFFICES ASSUME UserSyncInv, NotesKnown PROVE UserSyncTypeOK
        OBVIOUS
    <1>1. \A s \in Syncs : syncs[s] # NoSync => syncs[s].user \in Users
        BY SyncFields DEF UserSyncInv, UserSyncTyped
    <1>2. QED BY <1>1 DEF UserSyncInv, UserSyncTyped, FileIsBacked, Cursors, NotesKnown,
                         UserSyncTypeOK

LEMMA RegistryStateOK == RegistryTyped => RegistryTypeOK
    <1> SUFFICES ASSUME RegistryTyped PROVE RegistryTypeOK
        OBVIOUS
    <1>1. \A relays \in RelayMaps :
             /\ DOMAIN relays \subseteq Urls
             /\ \A url \in DOMAIN relays : relays[url] \in CountedEntry
        BY DEF RelayMaps
    <1>2. \A p \in Persists : persists[p].at \in {"none", "mkdir", "open", "write"}
        BY PersistFields DEF RegistryTyped
    <1>3. QED BY <1>1, <1>2 DEF RegistryTyped, RegistryTypeOK, CountedEntry

LEMMA VerificationStateOK == VerificationTyped => VerificationTypeOK
    <1> SUFFICES ASSUME VerificationTyped PROVE VerificationTypeOK
        OBVIOUS
    <1>1. \A c \in Checks : checks[c].at \in {"none", "asked", "answered"}
        BY DEF VerificationTyped, CheckRecord, NoCheck
    <1>2. QED BY <1>1 DEF VerificationTyped, VerificationTypeOK, VerifiedRecord, Key

PlatformInv ==
    /\ AuthInv /\ KeysInv /\ QueueInv /\ LimiterInv /\ UserSyncInv /\ NotesKnown
    /\ RegistryInv /\ FocusInv

LEMMA PlatformInitInv == Init => PlatformInv
    <1>1. Init => NotesKnown
        BY DEF Init, UserSyncInit, NotesKnown
    <1>2. Init => FocusInv
        BY VerificationInitInv DEF Init, FocusInv, VerificationInit, VerificationInv
    <1>3. QED
        BY <1>1, <1>2, AuthInitInv, KeysInitInv, QueueInitInv, LimiterInitInv, UserSyncInitInv,
           RegistryInitInv DEF PlatformInv

LEMMA PlatformStepInv == PlatformInv /\ [Next]_platformVars => PlatformInv'
    <1> SUFFICES ASSUME PlatformInv, Next \/ UNCHANGED platformVars PROVE PlatformInv'
        OBVIOUS
    <1>1. AuthInv' /\ LimiterInv' /\ FocusInv'
        BY AuthFocusInv, LimiterStepInv, FocusNextInv DEF PlatformInv
    <1>2. /\ KeysNext(KeyEnds) \/ UNCHANGED keyVars
          /\ SyncNext \/ UNCHANGED syncVars
          /\ UserSyncNext \/ UNCHANGED userSyncVars
          /\ RegistryNext \/ UNCHANGED registryVars
        BY DEF Next, platformVars
    <1>3. KeysInv' /\ QueueInv' /\ RegistryInv'
        BY <1>2, KeysStepInv, QueueStepInv, RegistryNextInv DEF PlatformInv
    <1>4. now' \in Nat
        BY ClockTicks DEF PlatformInv, UserSyncInv, UserSyncTyped
    <1>5. UserSyncInv' /\ NotesKnown'
        BY <1>2, <1>4, UserSyncNextInv, NotesStayKnown DEF PlatformInv
    <1>6. QED BY <1>1, <1>3, <1>5 DEF PlatformInv

\* The rows, the cache, the flags and the windows of every service hold what they may, for
\* any keys, users, relays, files, limits and clocks: among others, the users of a batch have
\* a row, a key that is written to is one of the rows, and who writes to a relay uses it.
THEOREM PlatformTypeCorrect == Spec => []TypeOK
    <1>1. PlatformInv => VerificationTyped
        BY DEF PlatformInv, FocusInv, VerificationInv
    <1>2. PlatformInv => TypeOK
        BY <1>1, AuthTypes, KeysStateOK, SyncStateOK, LimiterStateOK, UserSyncStateOK,
           RegistryStateOK, VerificationStateOK
        DEF PlatformInv, AuthInv, KeysInv, QueueInv, LimiterInv, RegistryInv, TypeOK
    <1>3. QED BY <1>2, PlatformInitInv, PlatformStepInv, PTL DEF Spec
=============================================================================
