-------------------------------- MODULE Auth --------------------------------
(***************************************************************************)
(* Logins and sessions: challenges that a key signs, LNURL logins that a   *)
(* wallet verifies and a client polls for, the sessions both create, and   *)
(* the two ways a request is authorized, by the token of a session or by   *)
(* an event signed for it (NIP-98).                                        *)
(*                                                                         *)
(* A handler is suspended at each `await`: requests[r] holds what it knows *)
(* and each write of the database or the cache is an action.  Signatures   *)
(* are assumed: a key appears in a request only if it signed it.           *)
(***************************************************************************)
EXTENDS Maps, Clock, Integers, FiniteSets

CONSTANTS
    Keys,             \* public keys
    Challenges, K1s,  \* challenges and k1s that may be drawn
    Events,           \* NIP-98 events, [key, created, id]
    SessionIds,
    Requests,         \* handlers that may be suspended at the same time
    AnyKey,           \* a challenge that is not locked to a key
    ChallengeTtl, SessionTtl,
    Window,           \* how far an event's time may be from the clock
    NonceTtl          \* how long the cache keeps the id of an event

\* Ids of different kinds differ, and an id is kept (120 seconds) for as long as the clocks
\* may differ in both directions (60 seconds each).
ASSUME AuthAssumption ==
    /\ AnyKey \notin Keys \cup Challenges \cup K1s /\ Challenges \cap K1s = {}
    /\ Events \cap (Challenges \cup K1s) = {}
    /\ NonceTtl >= 2 * Window
    /\ \A e \in Events : e.key \in Keys /\ e.created \in Nat
    /\ ChallengeTtl \in Nat /\ SessionTtl \in Nat /\ Window \in Nat /\ NonceTtl \in Nat

VARIABLES
    users,            \* keys that have a User row
    challenges,       \* AuthChallenge rows
    lnurls,           \* LnurlSession rows, by k1
    sessions,         \* Session rows
    nonces,           \* the cache: when the id of an event was stored
    requests,         \* handlers suspended at an await
    drawn,            \* history: ids of logins and sessions, never drawn twice
    late,             \* history: handlers that looked at a challenge or an event before
                      \* another handler marked it
    granted           \* history: times each event or login was accepted from a handler that
                      \* was not late, when first

authVars == <<users, challenges, lnurls, sessions, nonces, requests, drawn, late, granted>>

Ready == [op |-> "ready"]

AuthInit ==
    /\ users = {}
    /\ challenges = EmptyMap /\ lnurls = EmptyMap
    /\ sessions = EmptyMap /\ nonces = EmptyMap
    /\ requests = [r \in Requests |-> Ready]
    /\ drawn = {} /\ late = {}
    /\ granted = [x \in Events \cup Challenges \cup K1s |-> [times |-> 0, first |-> 0]]

Grant(x) ==
    granted' = [granted EXCEPT ![x] = [times |-> @.times + 1,
                                       first |-> IF @.times = 0 THEN now ELSE @.first]]

\* What handler r is given is counted, but for those that looked before another's mark.
Accept(r, x) == IF r \in late THEN UNCHANGED granted ELSE Grant(x)

Draw(id) == id \notin drawn /\ drawn' = drawn \cup {id}

Await(r, k) == requests' = [requests EXCEPT ![r] = k]
Respond(r) == Await(r, Ready)

\* The rows that are left when those that expired are deleted.
Unexpired(rows) ==
    LET kept == {i \in DOMAIN rows : rows[i].expires >= now}
    IN [i \in kept |-> rows[i]]

(***************************************************************************)
(* Challenges                                                              *)
(***************************************************************************)

GenerateChallenge(r, ch, key) ==
    /\ requests[r] = Ready
    /\ Draw(ch)
    /\ challenges' = Put(challenges, ch, [key |-> key, expires |-> now + ChallengeTtl,
                                          used |-> FALSE])
    /\ Await(r, [op |-> "cleanup"])
    /\ UNCHANGED <<users, lnurls, sessions, nonces, granted>>

CleanupChallenges(r) ==
    /\ requests[r].op = "cleanup"
    /\ challenges' = Unexpired(challenges)
    /\ Respond(r)
    /\ UNCHANGED <<users, lnurls, sessions, nonces, drawn, granted>>

\* (mutant) Whether the challenge was used is not asked.
VerifyChallengeAgain(r, ch, key) ==
    /\ requests[r] = Ready
    /\ ch \in DOMAIN challenges
    /\ challenges[ch].expires >= now
    /\ challenges[ch].key \in {AnyKey, key}
    /\ Await(r, [op |-> "use", login |-> ch, key |-> key])
    /\ UNCHANGED <<users, challenges, lnurls, sessions, nonces, drawn, granted>>

\* verifyChallenge up to the update; a challenge that does not pass is refused.
VerifyChallenge(r, ch, key) ==
    /\ requests[r] = Ready
    /\ ch \in DOMAIN challenges
    /\ ~challenges[ch].used
    /\ challenges[ch].expires >= now
    /\ challenges[ch].key \in {AnyKey, key}
    /\ Await(r, [op |-> "use", login |-> ch, key |-> key])
    /\ UNCHANGED <<users, challenges, lnurls, sessions, nonces, drawn, granted>>

\* The update has no condition but the id; it throws when the row was cleaned up.
UseChallenge(r) ==
    /\ requests[r].op = "use"
    /\ LET ch == requests[r].login
       IN IF ch \in DOMAIN challenges
          THEN /\ challenges' = [challenges EXCEPT ![ch].used = TRUE]
               /\ Await(r, [requests[r] EXCEPT !.op = "find"])
          ELSE Respond(r) /\ UNCHANGED challenges
    /\ UNCHANGED <<users, lnurls, sessions, nonces, drawn, granted>>

(***************************************************************************)
(* Users and sessions                                                      *)
(***************************************************************************)

\* What a login does once its user is there: a login by LNURL links its row first.
AfterUser(k) ==
    CASE k.login \in K1s -> [k EXCEPT !.op = "link"]
      [] k.login \in Challenges -> [k EXCEPT !.op = "session"]
      [] OTHER -> Ready

\* (mutant) The user is not made.
FindUserOnly(r) ==
    /\ requests[r].op = "find"
    /\ Await(r, AfterUser(requests[r]))
    /\ UNCHANGED <<users, challenges, lnurls, sessions, nonces, drawn, granted>>

\* getOrCreateUser: the look and the insert are apart; of two inserts of a key the
\* unique index makes the second throw, and the login with it.
FindUser(r) ==
    /\ requests[r].op = "find"
    /\ Await(r, IF requests[r].key \in users THEN AfterUser(requests[r])
                ELSE [requests[r] EXCEPT !.op = "insert"])
    /\ UNCHANGED <<users, challenges, lnurls, sessions, nonces, drawn, granted>>

InsertUser(r) ==
    /\ requests[r].op = "insert"
    /\ users' = users \cup {requests[r].key}
    /\ Await(r, IF requests[r].key \in users THEN Ready ELSE AfterUser(requests[r]))
    /\ UNCHANGED <<challenges, lnurls, sessions, nonces, drawn, granted>>

CreateSession(r, s) ==
    /\ requests[r].op = "session"
    /\ Draw(s)
    /\ sessions' = Put(sessions, s, [key |-> requests[r].key, expires |-> now + SessionTtl])
    /\ Accept(r, requests[r].login)
    /\ Respond(r)
    /\ UNCHANGED <<users, challenges, lnurls, nonces>>

(***************************************************************************)
(* LNURL                                                                   *)
(***************************************************************************)

GenerateLnurlAuth(r, k1) ==
    /\ requests[r] = Ready
    /\ Draw(k1)
    /\ lnurls' = Put(lnurls, k1, [status |-> "pending", key |-> AnyKey, user |-> AnyKey,
                                  expires |-> now + ChallengeTtl])
    /\ UNCHANGED <<users, challenges, sessions, nonces, requests, granted>>

HandleLnurlCallback(r, k1, key) ==
    /\ requests[r] = Ready
    /\ k1 \in DOMAIN lnurls
    /\ lnurls[k1].status = "pending" /\ lnurls[k1].expires >= now
    /\ Await(r, [op |-> "verify", login |-> k1, key |-> key])
    /\ UNCHANGED <<users, challenges, lnurls, sessions, nonces, drawn, granted>>

VerifyLnurl(r) ==
    /\ requests[r].op = "verify"
    /\ lnurls' = [lnurls EXCEPT ![requests[r].login].key = requests[r].key,
                                ![requests[r].login].status = "verified"]
    /\ Respond(r)
    /\ UNCHANGED <<users, challenges, sessions, nonces, drawn, granted>>

\* (mutant) A poll uses the login up before its user is there.
PollLnurlAuthOnce(r, k1) ==
    /\ requests[r] = Ready
    /\ k1 \in DOMAIN lnurls
    /\ lnurls[k1].status = "verified" /\ lnurls[k1].expires >= now
    /\ lnurls' = [lnurls EXCEPT ![k1].status = "pending"]
    /\ Await(r, [op |-> "find", login |-> k1, key |-> lnurls[k1].key])
    /\ UNCHANGED <<users, challenges, sessions, nonces, drawn, granted>>

\* pollLnurlAuth: a client that polls goes on only when the wallet was there.
PollLnurlAuth(r, k1) ==
    /\ requests[r] = Ready
    /\ k1 \in DOMAIN lnurls
    /\ lnurls[k1].status = "verified" /\ lnurls[k1].expires >= now
    /\ Await(r, [op |-> "find", login |-> k1, key |-> lnurls[k1].key])
    /\ UNCHANGED <<users, challenges, lnurls, sessions, nonces, drawn, granted>>

LinkUser(r) ==
    /\ requests[r].op = "link"
    /\ lnurls' = [lnurls EXCEPT ![requests[r].login].user = requests[r].key]
    /\ Await(r, [requests[r] EXCEPT !.op = "session"])
    /\ UNCHANGED <<users, challenges, sessions, nonces, drawn, granted>>

(***************************************************************************)
(* Requests                                                                *)
(***************************************************************************)

\* Which session a request ends; one that ends none asks for its user's profile, which
\* makes the user if there is none.
Endings == {{}} \cup {{s} : s \in SessionIds}

Authorized(key, ends) ==
    IF ends = {} THEN [op |-> "find", login |-> AnyKey, key |-> key]
    ELSE [op |-> "owned", key |-> key, session |-> CHOOSE s \in ends : TRUE]

\* (mutant) An entry lapses a second early.
MayForgetEarly(e) == e \in DOMAIN nonces => now > nonces[e]

\* A cache entry of second t lapses some time within second t + NonceTtl.
MayForget(e) == e \in DOMAIN nonces => now >= nonces[e] + NonceTtl

\* verifyNip98Auth up to the write of the cache.
VerifyNip98(r, e, ends) ==
    /\ requests[r] = Ready
    /\ MayForget(e)
    /\ Await(r, [op |-> "store", event |-> e, ends |-> ends])
    /\ UNCHANGED <<users, challenges, lnurls, sessions, nonces, drawn, granted>>

InWindow(e) == now - e.created <= Window /\ e.created - now <= Window

\* The id is stored whatever is found out about the event after that: its time, its
\* URL, its host and its method must fit.
StoreNonce(r) ==
    /\ requests[r].op = "store"
    /\ LET e == requests[r].event
       IN /\ nonces' = Put(nonces, e, now)
          /\ \/ /\ InWindow(e)
                /\ Accept(r, e)
                /\ Await(r, Authorized(e.key, requests[r].ends))
             \/ /\ Respond(r)           \* out of the window, or for another request
                /\ UNCHANGED granted
    /\ UNCHANGED <<users, challenges, lnurls, sessions, drawn>>

\* verifyJwt: the session is looked up, then touched; the touch throws if it is gone.
VerifyJwt(r, s, ends) ==
    /\ requests[r] = Ready
    /\ s \in DOMAIN sessions /\ sessions[s].expires > now
    /\ Await(r, [op |-> "touch", session |-> s, ends |-> ends])
    /\ UNCHANGED <<users, challenges, lnurls, sessions, nonces, drawn, granted>>

TouchSession(r) ==
    /\ requests[r].op = "touch"
    /\ LET s == requests[r].session
       IN IF s \in DOMAIN sessions
          THEN Await(r, Authorized(sessions[s].key, requests[r].ends))
          ELSE Respond(r)
    /\ UNCHANGED <<users, challenges, lnurls, sessions, nonces, drawn, granted>>

Without(rows, s) == [i \in DOMAIN rows \ {s} |-> rows[i]]

\* revokeSession: a session of the caller is looked up, then deleted by its id.
FindOwned(r) ==
    /\ requests[r].op = "owned"
    /\ LET s == requests[r].session
       IN Await(r, IF s \in DOMAIN sessions /\ sessions[s].key = requests[r].key
                   THEN [requests[r] EXCEPT !.op = "delete"] ELSE Ready)
    /\ UNCHANGED <<users, challenges, lnurls, sessions, nonces, drawn, granted>>

DeleteSession(r) ==
    /\ requests[r].op = "delete"
    /\ sessions' = Without(sessions, requests[r].session)
    /\ Respond(r)
    /\ UNCHANGED <<users, challenges, lnurls, nonces, drawn, granted>>

\* logout deletes by the token, whether or not it has expired.
Logout(r, s) ==
    /\ requests[r] = Ready
    /\ s \in DOMAIN sessions
    /\ sessions' = Without(sessions, s)
    /\ UNCHANGED <<users, challenges, lnurls, nonces, requests, drawn, granted>>

(***************************************************************************)

\* The step of handler r marks the challenge as used, or accepts the event, that handler q
\* has looked at and not seen marked.
Overtakes(r, q) ==
    /\ q # r /\ requests[q].op = requests[r].op
    /\ \/ requests[r].op = "use" /\ requests[q].login = requests[r].login
       \/ requests[r].op = "store" /\ requests[q].event = requests[r].event
          /\ granted' # granted

Remember(r) ==
    late' = {q \in Requests : requests'[q] # Ready /\ (q \in late \/ Overtakes(r, q))}

Handles(r) ==
    /\ \/ CleanupChallenges(r) \/ UseChallenge(r) \/ FindUser(r) \/ InsertUser(r)
       \/ \E s \in SessionIds : CreateSession(r, s)
       \/ VerifyLnurl(r) \/ LinkUser(r) \/ StoreNonce(r) \/ TouchSession(r)
       \/ FindOwned(r) \/ DeleteSession(r)
    /\ Remember(r)

\* The kinds of request that clients make in a behaviour.
AuthKinds == {"challenge", "lnurl", "event", "token", "revoke"}

Asks(r, asked) ==
    \/ /\ "challenge" \in asked
       /\ \E ch \in Challenges : \/ \E key \in Keys \cup {AnyKey} : GenerateChallenge(r, ch, key)
                                \/ \E key \in Keys : VerifyChallenge(r, ch, key)
    \/ /\ "lnurl" \in asked
       /\ \E k1 \in K1s : \/ GenerateLnurlAuth(r, k1) \/ PollLnurlAuth(r, k1)
                          \/ \E key \in Keys : HandleLnurlCallback(r, k1, key)
    \/ \E ends \in IF "revoke" \in asked THEN Endings ELSE {{}} :
          \/ "event" \in asked /\ \E e \in Events : VerifyNip98(r, e, ends)
          \/ "token" \in asked /\ \E s \in SessionIds : VerifyJwt(r, s, ends)
    \/ "token" \in asked /\ \E s \in SessionIds : Logout(r, s)

(***************************************************************************)
(* Properties                                                              *)
(***************************************************************************)

\* A challenge gives one session, whatever overlaps, but to the handlers that looked at it
\* before another marked it as used (verifyChallenge).
ChallengeUse == \A ch \in Challenges : granted[ch].times <= 1

\* An event authorizes one request, however often it is repeated, but for the requests that
\* looked it up before another had stored it: its id is kept until it is too old
\* (verifyNip98Auth).  It is not when the client's clock was ahead by the whole window.
EventUse ==
    \A e \in Events : granted[e].times <= 1 \/ e.created >= granted[e].first + Window

Verified(k1) == k1 \in DOMAIN lnurls /\ lnurls[k1].status = "verified"

\* A login that the wallet verified gives a session to the client that goes on polling,
\* also when the insert of its user fails, unless it expires first.
LnurlLogin ==
    \A k1 \in K1s :
        Verified(k1) ~> \/ granted[k1].times > 0
                        \/ (Verified(k1) /\ now > lnurls[k1].expires)
                        \/ SessionIds \subseteq drawn      \* bound: no id is left

RequestType ==
    {Ready} \cup
    [op : {"cleanup"}] \cup
    [op : {"use", "find", "insert", "link", "session", "verify"},
     login : Challenges \cup K1s \cup {AnyKey}, key : Keys] \cup
    [op : {"store"}, event : Events, ends : Endings] \cup
    [op : {"touch"}, session : SessionIds, ends : Endings] \cup
    [op : {"owned", "delete"}, key : Keys, session : SessionIds]

\* The columns and the cache hold what they may; a session has its user, a verified
\* login its key.
AuthTypeOK ==
    /\ users \subseteq Keys
    /\ MapOf(challenges, Challenges,
             [key : Keys \cup {AnyKey}, expires : Nat, used : BOOLEAN])
    /\ MapOf(lnurls, K1s, [status : {"pending", "verified"}, key : Keys \cup {AnyKey},
                            user : Keys \cup {AnyKey}, expires : Nat])
    /\ \A k1 \in DOMAIN lnurls : lnurls[k1].status = "verified" => lnurls[k1].key \in Keys
    /\ MapOf(sessions, SessionIds, [key : users, expires : Nat])
    /\ MapOf(nonces, Events, Nat)
    /\ requests \in [Requests -> RequestType]
    /\ drawn \subseteq Challenges \cup K1s \cup SessionIds /\ late \subseteq Requests
    /\ granted \in [Events \cup Challenges \cup K1s -> [times : Nat, first : Nat]]

(***************************************************************************)

AuthTick == TickClock /\ UNCHANGED authVars

AuthNext(asked) ==
    \/ \E r \in Requests : (Handles(r) \/ (Asks(r, asked) /\ Remember(r))) /\ UNCHANGED now
    \/ AuthTick
=============================================================================
