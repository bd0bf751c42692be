--------------------------- MODULE ClientProofs ----------------------------
(***************************************************************************)
(* What holds of the client for any keys, persons, fetches and requests    *)
(* under way, however often they overlap.                                  *)
(***************************************************************************)
EXTENDS ListsZapsProofs

(***************************************************************************)
(* Profiles                                                                *)
(***************************************************************************)

ProfileTask == [kind : {"one", "batch"}, keys : SUBSET Keys, era : [Keys -> 0..NewestVersion]]

ProfileInv ==
    /\ ProfileTypeOK
    /\ tasks \in [Tasks -> ProfileTask \cup {NoTask}]
    /\ ServedIsCurrent

LEMMA NoTaskIsNone == NoTask \notin ProfileTask /\ NoTask.kind \notin {"one", "batch"}
    BY DEF NoTask, ProfileTask

LEMMA ProfileInitInv == ProfileInit => ProfileInv
    BY ProfileAssumption
    DEF ProfileInit, ProfileInv, ProfileTypeOK, ServedIsCurrent, NoTask, NoEntry, NoProfile

\* A fetch that begins holds the present era, and takes a place that no key joins.
LEMMA FetchBeginsInv ==
    ASSUME ProfileInv, NEW t \in Tasks
    PROVE  /\ \A k \in Keys : FetchProfileCached(t, k) => ProfileInv'
           /\ \A asked \in SUBSET Keys : FetchProfilesBatchCached(t, asked) => ProfileInv'
    <1>1. ASSUME NEW k \in Keys, FetchProfileCached(t, k) PROVE ProfileInv'
        <2> DEFINE task == [kind |-> "one", keys |-> {k}, era |-> era]
        <2>1. task \in ProfileTask
            BY DEF ProfileInv, ProfileTypeOK, ProfileTask
        <2>2. tasks' \in [Tasks -> ProfileTask \cup {NoTask}]
            BY <1>1, <2>1 DEF ProfileInv, FetchProfileCached
        <2>3. ProfileTypeOK'
            BY <1>1, <2>1, <2>2, NoTaskIsNone DEF ProfileInv, ProfileTypeOK, FetchProfileCached, ProfileTask
        <2>4. ServedIsCurrent'
            BY <1>1, NoTaskIsNone DEF ProfileInv, ProfileTypeOK, ServedIsCurrent, FetchProfileCached
        <2>5. QED BY <2>2, <2>3, <2>4 DEF ProfileInv
    <1>2. ASSUME NEW asked \in SUBSET Keys, FetchProfilesBatchCached(t, asked) PROVE ProfileInv'
        <2> DEFINE stale == {k \in asked : ~entries[k].fresh}
                   task == [kind |-> "batch", keys |-> stale, era |-> era]
        <2>1. task \in ProfileTask
            BY DEF ProfileInv, ProfileTypeOK, ProfileTask
        <2>2. tasks' \in [Tasks -> ProfileTask \cup {NoTask}]
            BY <1>2, <2>1 DEF ProfileInv, FetchProfilesBatchCached
        <2>3. ProfileTypeOK'
            BY <1>2, <2>1, <2>2, NoTaskIsNone
            DEF ProfileInv, ProfileTypeOK, FetchProfilesBatchCached, ProfileTask
        <2>4. ServedIsCurrent'
            BY <1>2, NoTaskIsNone DEF ProfileInv, ProfileTypeOK, ServedIsCurrent, FetchProfilesBatchCached
        <2>5. QED BY <2>2, <2>3, <2>4 DEF ProfileInv
    <1>3. QED BY <1>1, <1>2

\* A fetch that ends is joined by nobody any more.
LEMMA FetchEndsInv ==
    ASSUME ProfileInv, NEW t \in Tasks, tasks[t] # NoTask,
           Settled(tasks[t]), tasks' = [tasks EXCEPT ![t] = NoTask], UNCHANGED <<published, era>>
    PROVE  /\ inflight' \in [Keys -> Tasks \cup {None}]
           /\ tasks' \in [Tasks -> ProfileTask \cup {NoTask}]
           /\ \A k \in Keys : inflight'[k] # None =>
                 /\ tasks'[inflight'[k]].kind = "one" /\ k \in tasks'[inflight'[k]].keys
                 /\ tasks'[inflight'[k]].era[k] = era'[k]
    <1>1. inflight' \in [Keys -> Tasks \cup {None}]
        BY DEF ProfileInv, ProfileTypeOK, Settled
    <1>2. tasks' \in [Tasks -> ProfileTask \cup {NoTask}]
        BY DEF ProfileInv
    <1>3. ASSUME NEW k \in Keys, inflight'[k] # None
          PROVE  inflight'[k] = inflight[k] /\ inflight[k] # t
        BY <1>3 DEF ProfileInv, ProfileTypeOK, ServedIsCurrent, Settled
    <1>4. QED BY <1>1, <1>2, <1>3 DEF ProfileInv, ProfileTypeOK, ServedIsCurrent

LEMMA ProfilesAnsweredInv ==
    ASSUME ProfileInv, NEW t \in Tasks, ProfilesAnswered(t)
    PROVE  ProfileInv'
    <1> PICK answers \in [tasks[t].keys -> 0..NewestVersion] : SetCache(tasks[t], answers)
        BY DEF ProfilesAnswered
    <1>1. tasks[t] \in ProfileTask
        BY DEF ProfileInv, ProfilesAnswered
    <1>2. /\ inflight' \in [Keys -> Tasks \cup {None}]
          /\ tasks' \in [Tasks -> ProfileTask \cup {NoTask}]
          /\ \A k \in Keys : inflight'[k] # None =>
                /\ tasks'[inflight'[k]].kind = "one" /\ k \in tasks'[inflight'[k]].keys
                /\ tasks'[inflight'[k]].era[k] = era'[k]
        BY FetchEndsInv DEF ProfilesAnswered
    <1>3. entries' \in [Keys -> [profile : 0..NewestVersion, fresh : BOOLEAN, era : 0..NewestVersion]]
        BY <1>1 DEF ProfileInv, ProfileTypeOK, SetCache, ProfileTask
    <1>4. ASSUME NEW k \in Keys, entries'[k].fresh, ~late'[k] PROVE entries'[k].era = era'[k]
        BY <1>1, <1>4 DEF ProfileInv, ProfileTypeOK, ServedIsCurrent, SetCache, ProfilesAnswered, ProfileTask
    <1>5. ProfileTypeOK'
        <2>1. late' \in [Keys -> BOOLEAN]
            BY DEF ProfileInv, ProfileTypeOK, SetCache
        <2>2. \A s \in Tasks : tasks'[s] # NoTask => tasks'[s].keys \subseteq Keys
            BY <1>2 DEF ProfileTask
        <2>3. QED BY <1>2, <1>3, <2>1, <2>2 DEF ProfileInv, ProfileTypeOK, ProfilesAnswered
    <1>6. QED BY <1>2, <1>4, <1>5 DEF ProfileInv, ServedIsCurrent

LEMMA ProfilesFailInv ==
    ASSUME ProfileInv, NEW t \in Tasks, ProfilesFail(t)
    PROVE  ProfileInv'
    <1>1. /\ inflight' \in [Keys -> Tasks \cup {None}]
          /\ tasks' \in [Tasks -> ProfileTask \cup {NoTask}]
          /\ \A k \in Keys : inflight'[k] # None =>
                /\ tasks'[inflight'[k]].kind = "one" /\ k \in tasks'[inflight'[k]].keys
                /\ tasks'[inflight'[k]].era[k] = era'[k]
        BY FetchEndsInv DEF ProfilesFail
    <1>2. \A s \in Tasks : tasks'[s] # NoTask => tasks'[s].keys \subseteq Keys
        BY <1>1 DEF ProfileTask
    <1>3. QED BY <1>1, <1>2 DEF ProfileInv, ProfileTypeOK, ServedIsCurrent, ProfilesFail

\* An invalidation begins a new era: what is fresh and what can be joined are gone.
LEMMA InvalidateInv ==
    ASSUME ProfileInv, NEW keys \in SUBSET Keys, \A k \in keys : era[k] < NewestVersion,
           InvalidateProfileCache(keys)
    PROVE  ProfileInv'
    <1>1. era' \in [Keys -> 0..NewestVersion]
        BY ProfileAssumption DEF ProfileInv, ProfileTypeOK, InvalidateProfileCache
    <1>2. ProfileTypeOK'
        BY <1>1, ProfileAssumption DEF ProfileInv, ProfileTypeOK, InvalidateProfileCache, NoEntry, NoProfile
    <1>3. ServedIsCurrent'
        BY DEF ProfileInv, ProfileTypeOK, ServedIsCurrent, InvalidateProfileCache, NoEntry
    <1>4. QED BY <1>2, <1>3 DEF ProfileInv, InvalidateProfileCache

LEMMA ProfileNextInv == ProfileInv /\ [ProfileNext]_profileVars => ProfileInv'
    <1> SUFFICES ASSUME ProfileInv, [ProfileNext]_profileVars PROVE ProfileInv'
        OBVIOUS
    <1>1. ASSUME NEW k \in Keys, PublishProfile(k) PROVE ProfileInv'
        BY <1>1, ProfileAssumption DEF ProfileInv, ProfileTypeOK, ServedIsCurrent, PublishProfile
    <1>2. ASSUME NEW k \in Keys, Expire(k) PROVE ProfileInv'
        BY <1>2 DEF ProfileInv, ProfileTypeOK, ServedIsCurrent, Expire
    <1>3. ASSUME NEW keys \in Refreshes, \A k \in keys : era[k] < NewestVersion,
                 InvalidateProfileCache(keys)
          PROVE  ProfileInv'
        BY <1>3, InvalidateInv DEF Refreshes
    <1>4. CASE UNCHANGED profileVars
        BY <1>4 DEF ProfileInv, ProfileTypeOK, ServedIsCurrent, profileVars
    <1>5. QED
        BY <1>1, <1>2, <1>3, <1>4, FetchBeginsInv, ProfilesAnsweredInv, ProfilesFailInv DEF ProfileNext

\* Whoever asks after an invalidation is not given what was asked before it, with any
\* number of profiles and of fetches under way.
THEOREM NothingStaleIsServed == Spec => []ServedIsCurrent
    <1>1. Init => ProfileInv
        BY ProfileInitInv DEF Init
    <1>2. ProfileInv /\ [Next]_clientVars => ProfileInv'
        BY ProfileNextInv DEF Next, clientVars
    <1>3. ProfileInv => ServedIsCurrent
        BY DEF ProfileInv
    <1>4. QED BY <1>1, <1>2, <1>3, PTL DEF Spec

(***************************************************************************)
(* The sign-in                                                             *)
(***************************************************************************)

Request ==
    [op : {"initialize"}, token : Persons] \cup [op : {"logout"}] \cup
    [op : {"refresh"}, token : Persons \cup {Nobody}] \cup
    [op : {"login"}, method : Methods, person : Persons]

SignInTyped ==
    /\ token \in Persons \cup {Nobody} /\ user \in Persons \cup {Nobody}
    /\ nsec \in Persons \cup {Nobody}
    /\ isAuthenticated \in BOOLEAN /\ overlapped \in BOOLEAN
    /\ leftIn \in BOOLEAN /\ keyLeft \in BOOLEAN
    /\ requests \in [Requests -> Request \cup {NoRequest}]

Initializing == \E r \in Requests : requests[r].op = "initialize"

\* Until requests overlap there is one at a time, and it knows the state it will meet.
OneRequest ==
    /\ \A q, r \in Requests : requests[q] # NoRequest /\ requests[r] # NoRequest => q = r
    /\ \A r \in Requests :
          /\ requests[r].op \in {"initialize", "login"} => ~isAuthenticated
          /\ requests[r].op \in {"logout", "refresh"} => isAuthenticated
          /\ requests[r].op \in {"initialize", "refresh"} => requests[r].token = token
          /\ requests[r].op = "initialize" => ~leftIn

PageAgrees ==
    /\ leftIn \/ Initializing \/ (isAuthenticated <=> token # Nobody)
    /\ isAuthenticated => user = token /\ ~leftIn

\* The key is that of the token; without somebody signed in there is one only before a
\* page knows whose token it has.
KeyAgrees ==
    /\ nsec \in {Nobody, token}
    /\ isAuthenticated \/ Initializing \/ nsec = Nobody

SignInInv ==
    /\ SignInTyped
    /\ ~overlapped => OneRequest /\ PageAgrees
    /\ overlapped => keyLeft
    /\ ~keyLeft => KeyAgrees

LEMMA SignInInitInv == SignInInit => SignInInv
    <1> SUFFICES ASSUME SignInInit PROVE SignInInv
        OBVIOUS
    <1>1. SignInTyped
        BY DEF SignInInit, SignInTyped
    <1>2. OneRequest
        BY DEF SignInInit, OneRequest, NoRequest
    <1>3. PageAgrees /\ KeyAgrees
        BY DEF SignInInit, PageAgrees, KeyAgrees
    <1>4. QED BY <1>1, <1>2, <1>3 DEF SignInInit, SignInInv

LEMMA RequestKinds ==
    ASSUME NEW request \in Request \cup {NoRequest}
    PROVE  /\ request.op \in {"none", "initialize", "logout", "refresh", "login"}
           /\ request.op = "none" <=> request = NoRequest
           /\ request.op = "initialize" => request.token \in Persons
           /\ request.op = "refresh" => request.token \in Persons \cup {Nobody}
           /\ request.op = "login" => request.person \in Persons /\ request.method \in Methods
    BY DEF Request, NoRequest

\* A request that is sent: nothing else changes, and the history notices an overlap.
LEMMA SendInv ==
    ASSUME SignInInv, NEW r \in Requests, NEW request \in Request, Send(r, request),
           UNCHANGED <<token, user, isAuthenticated, nsec, leftIn>>,
           request.op # "initialize",
           request.op = "login" => ~isAuthenticated,
           request.op \in {"logout", "refresh"} => isAuthenticated,
           request.op = "refresh" => request.token = token
    PROVE  SignInInv'
    <1>1. /\ request.op \in {"none", "initialize", "logout", "refresh", "login"}
          /\ request # NoRequest /\ NoRequest.op = "none"
        BY RequestKinds DEF Request, NoRequest
    <1>2. requests' = [requests EXCEPT ![r] = request] /\ requests[r] = NoRequest
        BY DEF Send
    <1>3. SignInTyped'
        BY <1>2 DEF SignInInv, SignInTyped, Send, Quiet
    <1>4. Initializing' <=> Initializing
        BY <1>1, <1>2 DEF Initializing, SignInInv, SignInTyped
    <1>5. CASE Quiet /\ ~overlapped
        <2>1. overlapped' = FALSE /\ keyLeft' = keyLeft
            BY <1>5 DEF Send, SignInInv, SignInTyped
        <2>2. \A q \in Requests : q # r => requests'[q] = NoRequest
            BY <1>2, <1>5 DEF Quiet, SignInInv, SignInTyped
        <2>3. requests'[r] = request
            BY <1>2 DEF SignInInv, SignInTyped
        <2>4. OneRequest'
            BY <1>1, <2>2, <2>3 DEF OneRequest
        <2>5. PageAgrees' /\ (~keyLeft' => KeyAgrees')
            BY <1>4, <1>5, <2>1 DEF SignInInv, PageAgrees, KeyAgrees
        <2>6. QED BY <1>3, <2>1, <2>4, <2>5 DEF SignInInv
    <1>6. CASE ~(Quiet /\ ~overlapped)
        <2>1. overlapped' /\ keyLeft'
            BY <1>6 DEF Send, SignInInv, SignInTyped
        <2>2. QED BY <1>3, <2>1 DEF SignInInv
    <1>7. QED BY <1>5, <1>6

\* After the end of the only request there is none.
LEMMA SettleQuiet ==
    ASSUME SignInInv, NEW r \in Requests, requests[r] # NoRequest, Settle(r)
    PROVE  /\ requests' \in [Requests -> Request \cup {NoRequest}]
           /\ overlapped' = overlapped
           /\ ~overlapped => OneRequest' /\ ~Initializing' /\ (Initializing => requests[r].op = "initialize")
    <1>1. requests' \in [Requests -> Request \cup {NoRequest}]
        BY DEF Settle, SignInInv, SignInTyped
    <1>2. ASSUME ~overlapped
          PROVE  /\ \A q \in Requests : requests'[q] = NoRequest
                 /\ \A q \in Requests : q # r => requests[q] = NoRequest
        BY <1>2 DEF Settle, SignInInv, SignInTyped, OneRequest
    <1>3. NoRequest.op = "none"
        BY DEF NoRequest
    <1>4. QED BY <1>1, <1>2, <1>3 DEF Settle, OneRequest, Initializing

LEMMA LoadPageInv ==
    ASSUME SignInInv, NEW r \in Requests, LoadPage(r)
    PROVE  SignInInv'
    <1>1. requests' = [q \in Requests |-> IF q = r /\ token # Nobody
                                          THEN [op |-> "initialize", token |-> token] ELSE NoRequest]
        BY DEF LoadPage
    <1>2. token # Nobody => token \in Persons
        BY DEF SignInInv, SignInTyped
    <1>3. SignInTyped'
        <2>1. requests' \in [Requests -> Request \cup {NoRequest}]
            BY <1>1, <1>2 DEF Request
        <2>2. QED BY <2>1 DEF SignInInv, SignInTyped, LoadPage
    <1>4. NoRequest.op = "none"
        BY DEF NoRequest
    <1>5. Initializing' <=> token # Nobody
        BY <1>1, <1>4 DEF Initializing
    <1>6. OneRequest'
        BY <1>1, <1>4 DEF OneRequest, LoadPage
    <1>7. PageAgrees' /\ (~keyLeft' => KeyAgrees')
        BY <1>5 DEF SignInInv, PageAgrees, KeyAgrees, LoadPage
    <1>8. QED BY <1>3, <1>6, <1>7 DEF SignInInv, LoadPage

LEMMA InitializeInv ==
    ASSUME SignInInv, NEW r \in Requests, InitializeOk(r) \/ InitializeFails(r)
    PROVE  SignInInv'
    <1>1. requests[r] \in Request \cup {NoRequest} /\ requests[r].op = "initialize"
        BY DEF SignInInv, SignInTyped, InitializeOk, InitializeFails
    <1>2. requests[r] # NoRequest /\ requests[r].token \in Persons
        BY <1>1, RequestKinds DEF NoRequest
    <1>3. Settle(r)
        BY DEF InitializeOk, InitializeFails
    <1>4. /\ requests' \in [Requests -> Request \cup {NoRequest}]
          /\ overlapped' = overlapped
          /\ ~overlapped => OneRequest' /\ ~Initializing'
        BY <1>2, <1>3, SettleQuiet
    <1>5. SignInTyped'
        BY <1>2, <1>4 DEF SignInInv, SignInTyped, InitializeOk, InitializeFails
    <1>6. ~overlapped => PageAgrees'
        BY <1>1, <1>2, SignInAssumption
        DEF SignInInv, SignInTyped, OneRequest, PageAgrees, InitializeOk, InitializeFails
    <1>7. ~keyLeft' => KeyAgrees'
        BY <1>1, <1>2 DEF SignInInv, SignInTyped, OneRequest, KeyAgrees, InitializeOk, InitializeFails
    <1>8. QED
        BY <1>4, <1>5, <1>6, <1>7 DEF SignInInv, SignInTyped, InitializeOk, InitializeFails

LEMMA LoginInv ==
    ASSUME SignInInv, NEW r \in Requests, LoginOk(r) \/ LoginFails(r)
    PROVE  SignInInv'
    <1>1. requests[r] \in Request \cup {NoRequest} /\ requests[r].op = "login"
        BY DEF SignInInv, SignInTyped, LoginOk, LoginFails
    <1>2. /\ requests[r] # NoRequest
          /\ requests[r].person \in Persons /\ requests[r].method \in Methods
        BY <1>1, RequestKinds DEF NoRequest
    <1>3. Settle(r)
        BY DEF LoginOk, LoginFails
    <1>4. /\ requests' \in [Requests -> Request \cup {NoRequest}]
          /\ overlapped' = overlapped
          /\ ~overlapped => OneRequest' /\ ~Initializing' /\ ~Initializing
        BY <1>1, <1>2, <1>3, SettleQuiet
    <1>5. SignInTyped'
        BY <1>2, <1>4 DEF SignInInv, SignInTyped, LoginOk, LoginFails
    <1>6. ~overlapped => PageAgrees'
        BY <1>1, <1>2, <1>4, SignInAssumption
        DEF SignInInv, SignInTyped, OneRequest, PageAgrees, LoginOk, LoginFails
    <1>7. ~overlapped => ~isAuthenticated
        BY <1>1 DEF SignInInv, OneRequest
    <1>8. ~keyLeft' => KeyAgrees'
        BY <1>4, <1>7 DEF SignInInv, SignInTyped, KeyAgrees, LoginOk, LoginFails
    <1>9. QED
        BY <1>4, <1>5, <1>6, <1>8 DEF SignInInv, SignInTyped, LoginOk, LoginFails

\* A logout, and a refresh that fails, leave no key.
LEMMA LeaveInv ==
    ASSUME SignInInv, NEW r \in Requests,
           RefreshFails(r) \/ \E answered \in BOOLEAN : LogoutEnds(r, answered)
    PROVE  SignInInv'
    <1>1. requests[r] # NoRequest /\ requests[r].op \in {"logout", "refresh"}
        BY DEF RefreshFails, LogoutEnds, NoRequest
    <1>2. Settle(r)
        BY DEF RefreshFails, LogoutEnds
    <1>3. /\ requests' \in [Requests -> Request \cup {NoRequest}]
          /\ overlapped' = overlapped
          /\ ~overlapped => OneRequest' /\ ~Initializing'
        BY <1>1, <1>2, SettleQuiet
    <1>4. SignInTyped'
        BY <1>3 DEF SignInInv, SignInTyped, RefreshFails, LogoutEnds
    <1>5. ~overlapped => PageAgrees'
        BY <1>1 DEF SignInInv, OneRequest, PageAgrees, RefreshFails, LogoutEnds
    <1>6. KeyAgrees' /\ (overlapped' => keyLeft')
        BY <1>3 DEF SignInInv, KeyAgrees, RefreshFails, LogoutEnds
    <1>7. QED BY <1>3, <1>4, <1>5, <1>6 DEF SignInInv

LEMMA RefreshOkInv ==
    ASSUME SignInInv, NEW r \in Requests, RefreshOk(r)
    PROVE  SignInInv'
    <1>1. requests[r] \in Request \cup {NoRequest} /\ requests[r] # NoRequest
        BY DEF SignInInv, SignInTyped, RefreshOk, NoRequest
    <1>2. requests[r].token \in Persons
        BY <1>1, RequestKinds DEF RefreshOk
    <1>3. /\ requests' \in [Requests -> Request \cup {NoRequest}]
          /\ overlapped' = overlapped
          /\ ~overlapped => OneRequest' /\ ~Initializing' /\ ~Initializing
        BY <1>1, SettleQuiet DEF RefreshOk
    <1>4. SignInTyped'
        BY <1>2, <1>3 DEF SignInInv, SignInTyped, RefreshOk
    <1>5. ~overlapped => PageAgrees'
        BY <1>3 DEF SignInInv, OneRequest, PageAgrees, RefreshOk
    <1>6. ~keyLeft' => KeyAgrees'
        BY <1>3 DEF SignInInv, KeyAgrees, RefreshOk
    <1>7. QED BY <1>3, <1>4, <1>5, <1>6 DEF SignInInv, RefreshOk

LEMMA SignInNextInv == SignInInv /\ [SignInNext]_signInVars => SignInInv'
    <1> SUFFICES ASSUME SignInInv, [SignInNext]_signInVars PROVE SignInInv'
        OBVIOUS
    <1>1. ASSUME NEW r \in Requests, NEW method \in Methods, NEW person \in Persons,
                 LoginWith(r, method, person)
          PROVE  SignInInv'
        BY <1>1, SendInv DEF LoginWith, Request
    <1>2. ASSUME NEW r \in Requests, Logout(r) PROVE SignInInv'
        BY <1>2, SendInv DEF Logout, Request
    <1>3. ASSUME NEW r \in Requests, RefreshUser(r) PROVE SignInInv'
        <2>1. token \in Persons \cup {Nobody}
            BY DEF SignInInv, SignInTyped
        <2>2. QED BY <1>3, <2>1, SendInv DEF RefreshUser, Request
    <1>4. CASE UNCHANGED signInVars
        BY <1>4 DEF signInVars, SignInInv, SignInTyped, OneRequest, PageAgrees, KeyAgrees, Initializing
    <1>5. QED
        BY <1>1, <1>2, <1>3, <1>4, LoadPageInv, InitializeInv, LoginInv, LeaveInv, RefreshOkInv
        DEF SignInNext

\* For any persons and requests: whatever is asked one at a time, and again after every
\* loading of the page, leaves the page with the user of its token and no other key.
THEOREM PageShowsTheTokensOwner == Spec => []ShownIsSignedIn
    <1>1. Init => SignInInv
        BY SignInInitInv DEF Init
    <1>2. SignInInv /\ [Next]_clientVars => SignInInv'
        BY SignInNextInv DEF Next, clientVars
    <1>3. SignInInv => ShownIsSignedIn
        <2>1. Quiet => ~Initializing
            BY DEF Quiet, Initializing, NoRequest
        <2>2. QED BY <2>1 DEF SignInInv, ShownIsSignedIn, PageAgrees, KeyAgrees
    <1>4. QED BY <1>1, <1>2, <1>3, PTL DEF Spec

(***************************************************************************)
(* The wizard                                                              *)
(***************************************************************************)

Entitled == pubkey # Nokey /\ named /\ paid
PayloadOK(payload) ==
    payload.path = "premium" => payload.pubkey # Nokey /\ payload.named /\ payload.paid

\* A request for suggestions is only under way where the identity cannot change, and what
\* was submitted was reviewed.
WizardInv ==
    /\ step \in Int
    /\ sourceKey \in {Unknown, Source(pubkey)}
    /\ suggesting \subseteq {Source(pubkey)} /\ (suggesting # {} => step = 3)
    /\ path = "premium" /\ step > 1 /\ ~completed => Entitled
    /\ DOMAIN submitted = Submits
    /\ \A s \in Submits : submitted[s] # NoSubmit => PayloadOK(submitted[s])
    /\ \A payload \in accepted : PayloadOK(payload)

LEMMA WizardInitInv == WizardInit => WizardInv
    BY DEF WizardInit, WizardInv

\* A step to anywhere drops the request of the step before.
LEMMA GoesToInv ==
    ASSUME WizardInv, NEW next \in Int, GoesTo(next),
           UNCHANGED <<pubkey, named, paid, profileNip05, sourceKey, selected>>,
           UNCHANGED <<path, submitted, accepted, completed>>,
           path = "premium" /\ next > 1 /\ ~completed => Entitled
    PROVE  WizardInv'
    BY DEF WizardInv, GoesTo, Entitled, PayloadOK, Source

LEMMA IdentityInv ==
    ASSUME WizardInv,
           \/ \E key \in Pubkeys : SetKey(key)
           \/ \E given \in BOOLEAN : SetName(given)
           \/ MarkPaymentComplete
    PROVE  WizardInv'
    <1>1. ASSUME NEW key \in Pubkeys, SetKey(key) PROVE WizardInv'
        <2>1. suggesting = {} /\ step = 1
            BY <1>1 DEF SetKey, WizardInv
        <2>2. QED BY <1>1, <2>1 DEF SetKey, WizardInv, unchangedSubmits, PayloadOK
    <1>2. ASSUME NEW given \in BOOLEAN, SetName(given) PROVE WizardInv'
        BY <1>2 DEF SetName, WizardInv, unchangedSubmits, unchangedRelays, PayloadOK
    <1>3. CASE MarkPaymentComplete
        BY <1>3 DEF MarkPaymentComplete, WizardInv, unchangedSubmits, unchangedRelays, PayloadOK
    <1>4. QED BY <1>1, <1>2, <1>3

LEMMA MovesInv ==
    ASSUME WizardInv,
           \/ \E chosen \in {"premium", "free"} : ChoosePath(chosen)
           \/ GoNext \/ GoBack \/ \E next \in 0..5 : EditStep(next)
    PROVE  WizardInv'
    <1>1. ASSUME NEW chosen \in {"premium", "free"}, ChoosePath(chosen) PROVE WizardInv'
        <2>1. suggesting' = {} /\ step' = IF chosen = "premium" THEN 1 ELSE 2
            BY <1>1 DEF ChoosePath, GoesTo
        <2>2. path' = chosen
            BY <1>1 DEF ChoosePath
        <2>3. QED
            BY <1>1, <2>1, <2>2
            DEF ChoosePath, WizardInv, unchangedRelays, unchangedSubmits, PayloadOK
    <1>2. CASE GoNext
        <2>1. path = "premium" /\ step + 1 > 1 /\ ~completed => Entitled
            BY <1>2 DEF GoNext, MayContinue, WizardInv, Entitled
        <2>2. QED
            BY <1>2, <2>1, GoesToInv DEF GoNext, WizardInv, unchangedIdentity, unchangedRelays, unchangedSubmits
    <1>3. CASE GoBack
        <2> DEFINE next == IF path = "free" /\ step = 2 THEN 0 ELSE step - 1
        <2>1. next \in Int /\ (path = "premium" /\ next > 1 /\ ~completed => Entitled)
            BY DEF WizardInv
        <2>2. GoesTo(next)
            BY <1>3 DEF GoBack
        <2> HIDE DEF next
        <2>3. QED
            BY <1>3, <2>1, <2>2, GoesToInv DEF GoBack, unchangedIdentity, unchangedRelays, unchangedSubmits
    <1>4. ASSUME NEW next \in 0..5, EditStep(next) PROVE WizardInv'
        <2>1. path = "premium" /\ next > 1 /\ ~completed => Entitled
            BY <1>4 DEF EditStep, WizardInv
        <2>2. QED
            BY <1>4, <2>1, GoesToInv DEF EditStep, unchangedIdentity, unchangedRelays, unchangedSubmits
    <1>5. QED BY <1>1, <1>2, <1>3, <1>4

LEMMA SubmitInv ==
    ASSUME WizardInv, NEW s \in Submits, Complete(s) \/ Completed(s) \/ CompletionFails(s)
    PROVE  WizardInv'
    <1>1. CASE Complete(s)
        <2> DEFINE payload == [path |-> path, pubkey |-> pubkey, named |-> named, paid |-> paid,
                               nip05 |-> profileNip05]
        <2>1. PayloadOK(payload)
            BY <1>1 DEF Complete, Shown, WizardInv, Entitled, PayloadOK
        <2>2. submitted' = [submitted EXCEPT ![s] = payload]
            BY <1>1 DEF Complete
        <2> HIDE DEF payload
        <2>3. \A q \in Submits : submitted'[q] # NoSubmit => PayloadOK(submitted'[q])
            BY <2>1, <2>2 DEF WizardInv
        <2>4. QED
            BY <1>1, <2>2, <2>3 DEF Complete, WizardInv, Entitled, unchangedIdentity, unchangedRelays, Source
    <1>2. CASE Completed(s)
        <2>1. accepted' = accepted \cup {submitted[s]} /\ PayloadOK(submitted[s])
            BY <1>2 DEF Completed, WizardInv
        <2>2. suggesting' = {} /\ step' = 7 /\ completed'
            BY <1>2 DEF Completed, GoesTo, MaxStep
        <2>3. QED
            BY <1>2, <2>1, <2>2 DEF Completed, WizardInv, unchangedIdentity, unchangedRelays, Source
    <1>3. CASE CompletionFails(s)
        BY <1>3 DEF CompletionFails, WizardInv, Entitled, unchangedIdentity, unchangedRelays, Source
    <1>4. QED BY <1>1, <1>2, <1>3

LEMMA WizardNextInv == WizardInv /\ [WizardNext]_wizardVars => WizardInv'
    <1> SUFFICES ASSUME WizardInv, [WizardNext]_wizardVars PROVE WizardInv'
        OBVIOUS
    <1>1. ASSUME NEW source \in Sources, Suggested(source) \/ SuggestionFails(source) PROVE WizardInv'
        BY <1>1 DEF Suggested, SuggestionFails, WizardInv, Entitled, PayloadOK, Source,
                    unchangedIdentity, unchangedRelays, unchangedSubmits
    <1>2. ASSUME NEW own \in BOOLEAN, SelectRelays(own) PROVE WizardInv'
        BY <1>2 DEF SelectRelays, WizardInv, Entitled, PayloadOK, Source, unchangedIdentity, unchangedSubmits
    <1>3. CASE UNCHANGED wizardVars
        BY <1>3 DEF wizardVars, WizardInv, Entitled, PayloadOK, Source
    <1>4. QED
        BY <1>1, <1>2, <1>3, MovesInv, IdentityInv, SubmitInv DEF WizardNext

\* For any identities and submissions: no way through the wizard reaches or submits the
\* premium path without a key, a name and a payment, or keeps another identity's relays.
THEOREM NobodySlipsIntoPremium == Spec => []WizardIsConsistent
    <1>1. Init => WizardInv
        BY WizardInitInv DEF Init
    <1>2. WizardInv /\ [Next]_clientVars => WizardInv'
        BY WizardNextInv DEF Next, clientVars
    <1>3. WizardInv => WizardIsConsistent
        BY DEF WizardInv, WizardIsConsistent, Entitled, PayloadOK
    <1>4. QED BY <1>1, <1>2, <1>3, PTL DEF Spec

(***************************************************************************)
(* The feed                                                                *)
(***************************************************************************)

Load ==
    [asked : {"reset", "more"}, mode : Modes, until : Nat, muted : SUBSET Posts, stale : BOOLEAN]

FeedTyped ==
    /\ mode \in Modes /\ muted \subseteq Posts
    /\ shown \in [Posts -> {0, 1}] /\ cursor \in Nat
    /\ hasMore \in BOOLEAN /\ loading \in {"no", "more", "reset"} /\ whole \in BOOLEAN
    /\ loads \in [Loads -> {NoLoad} \cup Load]
    /\ withheld \subseteq Posts
    /\ acting \in {NoAction} \cup [mode : Modes, muted : SUBSET Posts]

\* A load of the mode and the filters that the page has now.
Current(l) == loads[l] # NoLoad /\ ~loads[l].stale

Accounted(p) == shown[p] = 1 \/ \E q \in Posts \ {p} : PostTime[q] = PostTime[p]

CurrentInv ==
    /\ \A l \in Loads : Current(l) => loads[l].mode = mode /\ loads[l].muted = muted
    /\ \A l \in Loads : Current(l) /\ loads[l].asked = "reset" =>
          /\ ~whole /\ loads[l].until = Undefined
          /\ \A k \in Loads : Current(k) => k = l

Reaches(load, p) == load.until = Undefined \/ PostTime[p] <= load.until

\* A post that is not on the screen yet is ahead of every one that is, and in reach of every
\* page that is asked for: the cursor may go back, when a page that was asked for twice
\* comes late, but it never passes a post.
Missing(p) ==
    /\ Ahead(p)
    /\ \A q \in Posts : shown[q] = 1 => ~Newer(p, q)
    /\ \A l \in Loads : Current(l) => Reaches(loads[l], p)

WholeInv ==
    whole /\ mode \notin Ranked => \A p \in Wanted \ withheld : Accounted(p) \/ Missing(p)

FeedInv == FeedTyped /\ CurrentInv /\ WholeInv

LEMMA LoadKinds == NoLoad \notin Load /\ NoLoad.asked \notin {"reset", "more"}
    BY DEF NoLoad, Load

\* Were there no least one, the numbers below all of S would be closed under successor, and
\* as many as those of them that are not zero.
LEMMA LeastIsLeast ==
    ASSUME NEW S \in SUBSET Nat, S # {}
    PROVE  Least(S) \in S /\ \A k \in S : Least(S) <= k
    <1>1. ASSUME \A n \in S : \E k \in S : ~(n <= k) PROVE FALSE
        <2>1. PICK top \in S : TRUE
            OBVIOUS
        <2> DEFINE Below == {n \in 0..top : \A k \in S : n <= k}
        <2>2. 0 \in Below
            BY <2>1
        <2>3. ASSUME NEW n \in Below PROVE n + 1 \in Below \ {0}
            <3>1. \A k \in S : n <= k /\ n # k
                BY <1>1
            <3>2. \A k \in S : n + 1 <= k
                BY <3>1, <2>1
            <3>3. QED BY <2>1, <3>2
        <2>4. IsFiniteSet(0..top) /\ Below \subseteq 0..top
            BY FS_Interval, <2>1
        <2>5. IsFiniteSet(Below)
            BY <2>4, FS_Subset
        <2>6. IsFiniteSet(Below \ {0}) /\ Cardinality(Below \ {0}) = Cardinality(Below) - 1
            BY <2>2, <2>5, FS_RemoveElement
        <2>7. Cardinality(Below \ {0}) < Cardinality(Below)
            BY <2>5, <2>6, FS_CardinalityType
        <2> DEFINE next == [n \in Below |-> n + 1]
        <2>8. next \in [Below -> Below \ {0}]
            BY <2>3
        <2>9. \E m, n \in Below : m # n /\ next[m] = next[n]
            <3> HIDE DEF Below, next
            <3>1. QED BY <2>5, <2>6, <2>7, <2>8, FS_PigeonHole
        <2>10. QED BY <2>9
    <1>2. QED BY <1>1 DEF Least

(***************************************************************************)
(* Pages                                                                   *)
(***************************************************************************)

LEMMA NextCursor ==
    ASSUME NEW page \in SUBSET Posts
    PROVE  /\ FindNextCursor(page) \in Nat
           /\ page = {} => FindNextCursor(page) = Undefined
           /\ page # {} => /\ \A q \in page : FindNextCursor(page) < PostTime[q]
                           /\ \E q \in page : FindNextCursor(page) = PostTime[q] - 1
    <1> DEFINE S == {PostTime[p] : p \in page}
    <1>1. S \in SUBSET Nat /\ \A n \in S : n > 0
        BY FeedAssumption
    <1>2. CASE page = {}
        BY <1>2 DEF FindNextCursor, Undefined
    <1>3. CASE page # {}
        <2>1. Least(S) \in S /\ \A k \in S : Least(S) <= k
            <3>1. S # {}
                BY <1>3
            <3> HIDE DEF S
            <3>2. QED BY <1>1, <3>1, LeastIsLeast
        <2>2. FindNextCursor(page) = Least(S) - 1
            BY <1>3 DEF FindNextCursor
        <2>3. Least(S) \in Nat /\ Least(S) > 0
            BY <1>1, <2>1
        <2>4. PICK q \in page : Least(S) = PostTime[q]
            BY <2>1
        <2> HIDE DEF S
        <2>5. \A p \in page : Least(S) <= PostTime[p] /\ PostTime[p] \in Nat
            BY <2>1, FeedAssumption DEF S
        <2>6. FindNextCursor(page) \in Nat /\ \A p \in page : FindNextCursor(page) < PostTime[p]
            BY <2>2, <2>3, <2>5
        <2>7. FindNextCursor(page) = PostTime[q] - 1
            BY <2>2, <2>4
        <2>8. QED BY <1>3, <2>4, <2>6, <2>7
    <1>4. QED BY <1>2, <1>3

FirstNewest(n, S) == First(n, S, Newer)

\* The first of S by time are its newest, and all of it when they are not full.
LEMMA FirstByTime ==
    ASSUME NEW n \in Nat \ {0}, NEW S \in SUBSET Posts, NEW page \in FirstNewest(n, S)
    PROVE  /\ page \subseteq S
           /\ \A p \in S \ page, q \in page : ~Newer(p, q)
           /\ page = {} \/ Cardinality(page) # n => page = S
    <1>1. page \subseteq S /\ \A p \in page, q \in S \ page : ~Newer(q, p)
        BY DEF FirstNewest, First
    <1>2. Cardinality(page) = IF Cardinality(S) < n THEN Cardinality(S) ELSE n
        BY DEF FirstNewest, First
    <1>3. IsFiniteSet(S)
        BY FeedAssumption, FS_Subset
    <1>4. IsFiniteSet(page) /\ Cardinality(S) \in Nat
        BY <1>1, <1>3, FS_Subset, FS_CardinalityType
    <1>5. page = {} => Cardinality(page) = 0
        BY FS_EmptySet
    <1>6. page = {} \/ Cardinality(page) # n => Cardinality(page) = Cardinality(S)
        BY <1>2, <1>4, <1>5
    <1>7. Cardinality(page) = Cardinality(S) => page = S
        BY <1>1, <1>3, FS_Subset
    <1>8. QED BY <1>1, <1>6, <1>7

LEMMA PagesAreGiven ==
    ASSUME NEW m, NEW given \in SUBSET Posts, NEW page \in Pages(m, given)
    PROVE  page \subseteq given
    BY DEF Pages, First

LEMMA AskedPosts ==
    ASSUME NEW load \in Load
    PROVE  Asked(load) \subseteq Posts
    BY FeedAssumption DEF Asked, Load

Tied(p) == \E q \in Posts \ {p} : PostTime[q] = PostTime[p]

\* What is older than a page, and of another second than all posts, is within its cursor.
LEMMA WithinTheCursor ==
    ASSUME NEW page \in SUBSET Posts, page # {}, NEW p \in Posts \ page, ~Tied(p),
           \A q \in page : ~Newer(p, q)
    PROVE  FindNextCursor(page) # Undefined /\ PostTime[p] <= FindNextCursor(page)
    <1>1. PICK q \in page : FindNextCursor(page) = PostTime[q] - 1
        BY NextCursor
    <1>2. q \in Posts /\ q # p
        OBVIOUS
    <1>3. PostTime[q] # PostTime[p] /\ ~Newer(p, q)
        BY <1>2 DEF Tied
    <1>4. PostTime[p] \in Nat /\ PostTime[q] \in Nat /\ PostTime[p] > 0
        BY <1>2, FeedAssumption
    <1>5. QED BY <1>1, <1>3, <1>4 DEF Newer, Undefined

LEMMA AnswersTyped ==
    ASSUME NEW load \in Load, NEW given \in SUBSET Posts, NEW answer \in Answers(load, given)
    PROVE  answer.items \subseteq Posts /\ answer.next \in Nat /\ answer.full \in BOOLEAN
    <1>1. CASE load.mode = "bookmarks"
        <2>1. answer = [items |-> given \ load.muted, next |-> Undefined, full |-> FALSE]
            BY <1>1 DEF Answers
        <2>2. QED BY <2>1 DEF Undefined
    <1>2. CASE load.mode = "custom"
        <2>1. PICK page \in Pages("custom", given) : \E kept \in CustomPosts(load, page) :
                 answer = [items |-> kept, next |-> FindNextCursor(kept),
                           full |-> IsFull(load, page)]
            BY <1>2 DEF Answers
        <2>2. PICK kept \in CustomPosts(load, page) :
                 answer = [items |-> kept, next |-> FindNextCursor(kept),
                           full |-> IsFull(load, page)]
            BY <2>1
        <2>3. kept \subseteq Posts
            BY PagesAreGiven DEF CustomPosts, First
        <2>4. FindNextCursor(kept) \in Nat
            BY <2>3, NextCursor
        <2>5. QED BY <2>2, <2>3, <2>4 DEF IsFull
    <1>3. CASE load.mode \notin {"bookmarks", "custom"}
        <2>1. PICK page \in Pages(load.mode, given) :
                 answer = [items |-> page \ load.muted, next |-> FindNextCursor(page),
                           full |-> IsFull(load, page)]
            BY <1>3 DEF Answers
        <2>2. page \subseteq Posts
            BY PagesAreGiven
        <2>3. FindNextCursor(page) \in Nat
            BY <2>2, NextCursor
        <2>4. QED BY <2>1, <2>2, <2>3 DEF IsFull
    <1>4. QED BY <1>1, <1>2, <1>3

\* A post that some relay gave and that is not in the answer is older than all of it and
\* within the next cursor; that there is no more means that there is none, but in a custom
\* feed, whose page may have no match, or more than it shows.
AfterThe(answer, load, p) ==
    /\ \A q \in answer.items : ~Newer(p, q)
    /\ IF answer.full /\ answer.next # Undefined THEN PostTime[p] <= answer.next
       ELSE load.mode = "custom"

LEMMA AnswersPassNothing ==
    ASSUME NEW load \in Load, load.mode \notin Ranked,
           NEW given \in SUBSET Posts, NEW answer \in Answers(load, given),
           NEW p \in (given \cap InMode[load.mode]) \ load.muted,
           p \notin answer.items, ~Tied(p)
    PROVE  AfterThe(answer, load, p)
    <1>1. CASE load.mode = "bookmarks"
        BY <1>1 DEF Answers
    <1>2. CASE load.mode = "custom"
        <2>1. PICK page \in Pages("custom", given) : \E kept \in CustomPosts(load, page) :
                 answer = [items |-> kept, next |-> FindNextCursor(kept),
                           full |-> IsFull(load, page)]
            BY <1>2 DEF Answers
        <2>2. PICK kept \in CustomPosts(load, page) :
                 answer = [items |-> kept, next |-> FindNextCursor(kept),
                           full |-> IsFull(load, page)]
            BY <2>1
        <2> DEFINE matches == (page \cap InMode["custom"]) \ load.muted
        <2>3. page \in FirstNewest(PageSize, given)
            BY DEF Pages, Ranked, FirstNewest
        <2>4. page \subseteq given /\ \A r \in given \ page, q \in page : ~Newer(r, q)
            BY <2>3, FirstByTime, FeedAssumption
        <2>5. matches \in SUBSET Posts /\ kept \in FirstNewest(CustomPage, matches)
            BY <2>4 DEF CustomPosts, FirstNewest
        <2>6. kept \subseteq matches /\ \A r \in matches \ kept, q \in kept : ~Newer(r, q)
            <3> HIDE DEF matches
            <3>1. QED BY <2>5, FirstByTime, FeedAssumption
        <2>7. \A q \in kept : ~Newer(p, q)
            <3>1. CASE p \in page
                BY <1>2, <2>2, <2>6, <3>1
            <3>2. CASE p \notin page
                BY <2>4, <2>6, <3>2
            <3>3. QED BY <3>1, <3>2
        <2>8. CASE kept = {}
            <3>1. answer.next = Undefined
                BY <2>2, <2>8, NextCursor
            <3>2. QED BY <1>2, <2>2, <2>7, <3>1 DEF AfterThe
        <2>9. CASE kept # {}
            <3>1. kept \in SUBSET Posts /\ p \in Posts \ kept
                BY <2>2, <2>5, <2>6
            <3>2. PostTime[p] <= FindNextCursor(kept)
                BY <2>7, <2>9, <3>1, WithinTheCursor
            <3>3. QED BY <1>2, <2>2, <2>7, <3>2 DEF AfterThe
        <2>10. QED BY <2>8, <2>9
    <1>3. CASE load.mode \notin {"bookmarks", "custom"}
        <2>1. PICK page \in Pages(load.mode, given) :
                 answer = [items |-> page \ load.muted, next |-> FindNextCursor(page),
                           full |-> IsFull(load, page)]
            BY <1>3 DEF Answers
        <2>2. page \in FirstNewest(PageSize, given)
            BY DEF Pages, FirstNewest
        <2>3. /\ page \subseteq given /\ \A r \in given \ page, q \in page : ~Newer(r, q)
              /\ page = {} \/ Cardinality(page) # PageSize => page = given
            BY <2>2, FirstByTime, FeedAssumption
        <2>4. p \in given \ page
            BY <2>1
        <2>5. page # {} /\ answer.full /\ \A q \in page : ~Newer(p, q)
            BY <2>1, <2>3, <2>4 DEF IsFull
        <2>6. page \in SUBSET Posts /\ p \in Posts \ page
            BY <2>3, <2>4
        <2>7. answer.next # Undefined /\ PostTime[p] <= answer.next
            BY <2>1, <2>5, <2>6, WithinTheCursor
        <2>8. QED BY <2>1, <2>5, <2>7 DEF AfterThe
    <1>4. QED BY <1>1, <1>2, <1>3

(***************************************************************************)
(* Steps                                                                   *)
(***************************************************************************)

LEMMA FeedInitInv == FeedInit => FeedInv
    <1> SUFFICES ASSUME FeedInit PROVE FeedInv
        OBVIOUS
    <1>1. FeedTyped
        BY DEF FeedInit, FeedTyped, Modes, Undefined, Nothing
    <1>2. CurrentInv
        BY DEF FeedInit, CurrentInv, Current
    <1>3. QED BY <1>1, <1>2 DEF FeedInit, FeedInv, WholeInv

LEMMA StartOverInv ==
    ASSUME FeedInv, NEW l \in Loads, NEW m \in Modes, NEW hidden \in SUBSET Posts,
           StartOver(l, m, hidden), mode' \in Modes, muted' \in SUBSET Posts,
           acting' \in {NoAction} \cup [mode : Modes, muted : SUBSET Posts]
    PROVE  FeedInv'
    <1>1. PICK stale \in BOOLEAN : stale = (m # mode' \/ hidden # muted')
        OBVIOUS
    <1> DEFINE load == [asked |-> "reset", mode |-> m, until |-> Undefined,
                        muted |-> hidden, stale |-> stale]
    <1>2. load \in Load
        BY DEF Load, Undefined
    <1>3. \A k \in Loads : loads[k] \in Load => [loads[k] EXCEPT !.stale = TRUE] \in Load
        BY DEF Load
    <1>4. loads' = [k \in Loads |-> IF k = l THEN load
                                    ELSE IF loads[k] = NoLoad THEN NoLoad
                                    ELSE [loads[k] EXCEPT !.stale = TRUE]]
        BY <1>1 DEF StartOver
    <1>5. loads' \in [Loads -> {NoLoad} \cup Load]
        BY <1>2, <1>3, <1>4 DEF FeedInv, FeedTyped
    <1>6. FeedTyped'
        BY <1>5 DEF FeedInv, FeedTyped, StartOver, Undefined
    <1>7. loads'[l] = load /\ \A k \in Loads \ {l} : loads'[k] = NoLoad \/ loads'[k].stale
        BY <1>4 DEF FeedInv, FeedTyped, Load
    <1>8. ~load.stale => load.mode = mode' /\ load.muted = muted'
        BY <1>1
    <1>9. \A k \in Loads : Current(k)' => k = l /\ loads'[k] = load /\ ~load.stale
        BY <1>7 DEF Current
    <1>10. ~whole'
        BY DEF StartOver
    <1>11. CurrentInv'
        BY <1>8, <1>9, <1>10 DEF CurrentInv
    <1>12. QED BY <1>6, <1>10, <1>11 DEF FeedInv, WholeInv

LEMMA RefreshInv ==
    ASSUME FeedInv, NEW l \in Loads, NEW m \in Modes, NEW hidden \in SUBSET Posts,
           Refresh(l, m, hidden)
    PROVE  FeedInv'
    BY StartOverInv DEF Refresh, FeedInv, FeedTyped

LEMMA ActionOkInv ==
    ASSUME FeedInv, NEW l \in Loads, ActionOk(l)
    PROVE  FeedInv'
    <1>1. PICK action \in [mode : Modes, muted : SUBSET Posts] : action = acting
        BY DEF ActionOk, FeedInv, FeedTyped
    <1>2. action.mode \in Modes /\ action.muted \in SUBSET Posts
        OBVIOUS
    <1>3. StartOver(l, action.mode, action.muted) /\ UNCHANGED <<mode, muted>> /\ acting' = NoAction
        BY <1>1 DEF ActionOk
    <1>4. QED BY <1>2, <1>3, StartOverInv DEF FeedInv, FeedTyped

LEMMA ActionQuiet ==
    ASSUME FeedInv, UserActs \/ ActionFails
    PROVE  FeedInv'
    <1>1. UNCHANGED <<mode, muted, shown, cursor, hasMore, loading, loads, whole, withheld>>
        BY DEF UserActs, ActionFails
    <1>2. acting' \in {NoAction} \cup [mode : Modes, muted : SUBSET Posts]
        BY DEF UserActs, ActionFails, FeedInv, FeedTyped
    <1>3. FeedTyped'
        BY <1>1, <1>2 DEF FeedInv, FeedTyped
    <1>4. QED BY <1>1, <1>3 DEF FeedInv, CurrentInv, Current, WholeInv, Wanted, Accounted,
                               Missing, Ahead, Reaches, Newer

LEMMA LoadMoreInv ==
    ASSUME FeedInv, NEW l \in Loads, LoadMore(l)
    PROVE  FeedInv'
    <1> DEFINE load == [asked |-> "more", mode |-> mode, until |-> cursor,
                        muted |-> muted, stale |-> ~whole]
    <1>1. load \in Load
        BY DEF Load, FeedInv, FeedTyped
    <1>2. loads'[l] = load /\ \A k \in Loads \ {l} : loads'[k] = loads[k]
        BY DEF FeedInv, FeedTyped, LoadMore
    <1>3. FeedTyped'
        BY <1>1 DEF FeedInv, FeedTyped, LoadMore
    <1>4. \A k \in Loads : Current(k)' => (k = l /\ whole) \/ (k # l /\ Current(k))
        <2>1. ~load.stale => whole
            OBVIOUS
        <2>2. QED BY <1>2, <2>1 DEF Current
    <1>5. CurrentInv'
        BY <1>2, <1>4 DEF FeedInv, FeedTyped, CurrentInv, LoadMore
    <1>6. WholeInv'
        <2> SUFFICES ASSUME whole, mode \notin Ranked, NEW p \in Wanted \ withheld, ~Accounted(p)
                     PROVE  Missing(p)'
            BY DEF WholeInv, LoadMore, Wanted, Accounted
        <2>1. Missing(p)
            BY DEF FeedInv, WholeInv
        <2>2. PostTime[p] <= cursor
            BY <2>1 DEF Missing, Ahead, LoadMore
        <2>3. \A k \in Loads : Current(k)' => Reaches(loads'[k], p)
            BY <1>2, <1>4, <2>1, <2>2 DEF Missing, Reaches
        <2>4. QED BY <2>1, <2>3 DEF Missing, Ahead, LoadMore, Reaches
    <1>7. QED BY <1>3, <1>5, <1>6 DEF FeedInv

\* A load that ends leaves the others as they are.
LEMMA LoadEnds ==
    ASSUME FeedInv, NEW l \in Loads, loads' = [loads EXCEPT ![l] = NoLoad],
           UNCHANGED <<mode, muted>>
    PROVE  /\ loads' \in [Loads -> {NoLoad} \cup Load]
           /\ \A k \in Loads : Current(k)' => k # l /\ Current(k) /\ loads'[k] = loads[k]
    BY DEF FeedInv, FeedTyped, CurrentInv, Current

LEMMA LoadFailsInv ==
    ASSUME FeedInv, NEW l \in Loads, LoadFails(l)
    PROVE  FeedInv'
    <1>1. /\ loads' \in [Loads -> {NoLoad} \cup Load]
          /\ \A k \in Loads : Current(k)' => k # l /\ Current(k) /\ loads'[k] = loads[k]
        BY LoadEnds DEF LoadFails
    <1>2. FeedTyped'
        BY <1>1 DEF FeedInv, FeedTyped, LoadFails, Nothing
    <1>3. CurrentInv'
        BY <1>1 DEF FeedInv, FeedTyped, CurrentInv, LoadFails
    <1>4. WholeInv'
        <2> SUFFICES ASSUME whole', mode \notin Ranked, NEW p \in Wanted \ withheld',
                            ~Accounted(p)'
                     PROVE  Missing(p)'
            BY DEF WholeInv, LoadFails, Wanted
        <2>1. /\ whole /\ loads[l].asked # "reset"
              /\ UNCHANGED <<shown, cursor, hasMore, mode, withheld>>
            BY DEF LoadFails
        <2>2. Missing(p)
            BY <2>1 DEF FeedInv, WholeInv, Accounted
        <2>3. QED BY <1>1, <2>1, <2>2 DEF Missing, Ahead, Reaches
    <1>5. QED BY <1>2, <1>3, <1>4 DEF FeedInv

LEMMA LoadedInv ==
    ASSUME FeedInv, NEW l \in Loads, Loaded(l)
    PROVE  FeedInv'
    <1>1. /\ loads' \in [Loads -> {NoLoad} \cup Load]
          /\ \A k \in Loads : Current(k)' => k # l /\ Current(k) /\ loads'[k] = loads[k]
        BY LoadEnds DEF Loaded
    <1>2. PICK load \in Load : load = loads[l]
        BY DEF FeedInv, FeedTyped, Loaded
    <1>3. PICK given \in SUBSET Asked(load) :
             /\ \E answer \in Answers(load, given) :
                   /\ shown' = WithItems(load, answer.items)
                   /\ cursor' = answer.next
                   /\ hasMore' = (answer.full /\ answer.next # Undefined)
             /\ Withholds(load, given)
        BY <1>2 DEF Loaded
    <1>4. Asked(load) \subseteq Posts /\ given \in SUBSET Posts
        BY AskedPosts
    <1>5. PICK answer \in Answers(load, given) :
             /\ shown' = WithItems(load, answer.items)
             /\ cursor' = answer.next
             /\ hasMore' = (answer.full /\ answer.next # Undefined)
        BY <1>3
    <1>6. answer.items \subseteq Posts /\ answer.next \in Nat /\ answer.full \in BOOLEAN
        BY <1>4, AnswersTyped
    <1>7. shown' \in [Posts -> {0, 1}]
        BY <1>5 DEF WithItems, FeedInv, FeedTyped
    <1>8. load.stale \in BOOLEAN /\ load.asked \in {"reset", "more"}
        BY DEF Load
    <1>9. /\ loading' = "no" /\ UNCHANGED <<mode, muted, acting>>
          /\ whole' = (~load.stale /\ (whole \/ load.asked = "reset"))
        BY <1>2, <1>3 DEF Loaded, Withholds
    <1>10. FeedTyped'
        <2>1. whole' \in BOOLEAN
            BY <1>8, <1>9 DEF FeedInv, FeedTyped
        <2>2. hasMore' \in BOOLEAN /\ cursor' \in Nat
            BY <1>5, <1>6
        <2>3. withheld' \subseteq Posts
            BY <1>3, <1>4 DEF Withholds, FeedInv, FeedTyped
        <2>4. QED BY <1>1, <1>7, <1>9, <2>1, <2>2, <2>3 DEF FeedInv, FeedTyped
    <1>11. loads[l] # NoLoad
        BY DEF Loaded
    <1>12. CurrentInv'
        <2>1. ASSUME NEW k \in Loads, Current(k)', loads'[k].asked = "reset"
              PROVE  ~whole'
            <3>1. Current(k) /\ loads[k].asked = "reset" /\ k # l
                BY <1>1, <2>1
            <3>2. ~Current(l) /\ ~whole
                BY <3>1 DEF FeedInv, CurrentInv
            <3>3. load.stale
                BY <1>2, <1>11, <3>2 DEF Current
            <3>4. QED BY <1>9, <3>3
        <2>2. QED BY <1>1, <1>9, <2>1 DEF FeedInv, CurrentInv
    <1>13. WholeInv'
        <2> SUFFICES ASSUME whole', mode \notin Ranked, NEW p \in Wanted \ withheld',
                            ~Accounted(p)'
                     PROVE  Missing(p)'
            BY <1>9 DEF WholeInv, Wanted
        <2>1. Current(l) /\ load.mode = mode /\ load.muted = muted
            BY <1>2, <1>9, <1>11 DEF FeedInv, CurrentInv, Current
        <2>2. p \in InMode[load.mode] \ load.muted /\ p \in Posts
            BY <2>1, FeedAssumption DEF Wanted, FeedInv, FeedTyped
        <2>3. ~Tied(p) /\ shown'[p] # 1
            BY DEF Accounted, Tied
        <2>4. p \notin answer.items
            BY <1>5, <1>7, <2>2, <2>3 DEF WithItems, FeedInv, FeedTyped
        <2>5. shown'[p] = 0
            BY <1>7, <2>2, <2>3
        <2>6. p \notin withheld /\ (p \in Asked(load) => p \in given)
            BY <1>3, <2>5 DEF Withholds
        <2>7. Reaches(load, p) => p \in (given \cap InMode[load.mode]) \ load.muted
            BY <2>2, <2>6 DEF Asked, Reaches
        <2>8. CASE load.asked = "reset"
            <3>1. load.until = Undefined /\ \A k \in Loads : Current(k) => k = l
                BY <1>2, <2>1, <2>8 DEF FeedInv, CurrentInv
            <3>2. AfterThe(answer, load, p)
                BY <1>4, <2>1, <2>3, <2>4, <2>7, <3>1, AnswersPassNothing DEF Reaches
            <3>3. \A q \in Posts : shown'[q] = 1 <=> q \in answer.items
                BY <1>5, <2>8 DEF WithItems
            <3>4. \A k \in Loads : ~Current(k)'
                BY <1>1, <3>1
            <3>5. Ahead(p)'
                <4>1. CASE hasMore'
                    BY <1>5, <3>2, <4>1 DEF Ahead, AfterThe
                <4>2. CASE ~hasMore'
                    <5>1. mode = "custom"
                        BY <1>5, <2>1, <3>2, <4>2 DEF AfterThe
                    <5>2. \A q \in Posts : shown'[q] > 0 => shown'[q] = 1
                        BY <1>7
                    <5>3. \A q \in Posts : shown'[q] > 0 => ~Newer(p, q)
                        BY <3>2, <3>3, <5>2 DEF AfterThe
                    <5>4. QED BY <1>9, <4>2, <5>1, <5>3 DEF Ahead, Newer
                <4>3. QED BY <4>1, <4>2
            <3>6. QED BY <1>6, <3>2, <3>3, <3>4, <3>5 DEF Missing, AfterThe, Newer
        <2>9. CASE load.asked # "reset"
            <3>1. whole /\ \A q \in Posts : shown'[q] = 1 <=> q \in answer.items \/ shown[q] = 1
                BY <1>5, <1>6, <1>9, <2>9 DEF WithItems, FeedInv, FeedTyped
            <3>2. Missing(p)
                BY <2>2, <2>3, <2>6, <3>1 DEF FeedInv, WholeInv, Accounted, Tied
            <3>3. Reaches(load, p)
                BY <1>2, <2>1, <3>2 DEF Missing
            <3>4. AfterThe(answer, load, p)
                BY <1>4, <2>1, <2>3, <2>4, <2>7, <3>3, AnswersPassNothing
            <3>5. \A q \in Posts : shown'[q] = 1 => ~Newer(p, q)
                BY <3>1, <3>2, <3>4 DEF Missing, AfterThe
            <3>6. Ahead(p)'
                <4>1. CASE hasMore'
                    BY <1>5, <3>4, <4>1 DEF Ahead, AfterThe
                <4>2. CASE ~hasMore'
                    <5>1. mode = "custom"
                        BY <1>5, <2>1, <3>4, <4>2 DEF AfterThe
                    <5>2. \A q \in Posts : shown'[q] > 0 => shown'[q] = 1
                        BY <1>7
                    <5>3. \A q \in Posts : shown'[q] > 0 => ~Newer(p, q)
                        BY <3>5, <5>2
                    <5>4. QED BY <1>9, <4>2, <5>1, <5>3 DEF Ahead, Newer
                <4>3. QED BY <4>1, <4>2
            <3>7. \A k \in Loads : Current(k)' => Reaches(loads'[k], p)
                BY <1>1, <3>2 DEF Missing
            <3>8. QED BY <3>5, <3>6, <3>7 DEF Missing, Newer, Reaches
        <2>10. QED BY <2>8, <2>9
    <1>14. QED BY <1>10, <1>12, <1>13 DEF FeedInv

LEMMA FeedNextInv == FeedInv /\ [FeedNext]_feedVars => FeedInv'
    <1> SUFFICES ASSUME FeedInv, [FeedNext]_feedVars PROVE FeedInv'
        OBVIOUS
    <1>1. CASE UNCHANGED feedVars
        BY <1>1 DEF feedVars, FeedInv, FeedTyped, CurrentInv, Current, WholeInv, Wanted,
                    Accounted, Missing, Ahead, Reaches, Newer
    <1>2. ASSUME NEW l \in Loads, NEW m \in Tabs, Refresh(l, m, muted) PROVE FeedInv'
        BY <1>2, RefreshInv, FeedAssumption DEF FeedInv, FeedTyped
    <1>3. ASSUME NEW l \in Loads, NEW hidden \in Filters, Refresh(l, mode, hidden)
          PROVE  FeedInv'
        <2>1. mode \in Modes /\ hidden \in SUBSET Posts
            BY FeedAssumption DEF FeedInv, FeedTyped
        <2>2. QED BY <1>3, <2>1, RefreshInv
    <1>4. ASSUME NEW l \in Loads, ActionOk(l) \/ LoadMore(l) \/ Loaded(l) \/ LoadFails(l)
          PROVE  FeedInv'
        BY <1>4, ActionOkInv, LoadMoreInv, LoadedInv, LoadFailsInv
    <1>5. CASE UserActs \/ ActionFails
        BY <1>5, ActionQuiet
    <1>6. QED BY <1>1, <1>2, <1>3, <1>4, <1>5 DEF FeedNext

\* The feed shows no post twice, and skips none that some relay gave between the top and
\* where it stands, or its end: when few relays answer, or none; when a page is asked for
\* again after a failure, and both come, in either order; and when the mode or the filters
\* change while pages, or an action of the user, are on the way.
THEOREM FeedSkipsNothing == Spec => []FeedIsComplete
    <1>1. Init => FeedInv
        BY FeedInitInv DEF Init
    <1>2. FeedInv /\ [Next]_clientVars => FeedInv'
        <2>1. [Next]_clientVars => [FeedNext]_feedVars
            BY DEF Next, clientVars
        <2>2. QED BY <2>1, FeedNextInv
    <1>3. FeedInv => FeedIsComplete
        BY DEF FeedInv, FeedTyped, WholeInv, FeedIsComplete, Accounted, Missing
    <1>4. QED BY <1>1, <1>2, <1>3, PTL DEF Spec

(***************************************************************************)
(* Types                                                                   *)
(***************************************************************************)

Dialog ==
    [at : {"new", "ended"} \cup OnTheWay, secret : BOOLEAN, paired : BOOLEAN]

ConnectTyped ==
    /\ session \in [Sessions -> Dialog]
    /\ current \in Sessions \cup {NoSession}
    /\ status \in {"idle", "waiting", "signing", "done", "error"}

LEMMA ConnectTypes ==
    /\ ConnectInit => ConnectTyped
    /\ ConnectTyped /\ [ConnectNext]_connectVars => ConnectTyped'
    <1>1. ConnectInit => ConnectTyped
        BY DEF ConnectInit, ConnectTyped, Dialog, Fresh
    <1>2. ASSUME ConnectTyped, [ConnectNext]_connectVars PROVE ConnectTyped'
        <2>1. \A dialog \in Dialog, phase \in {"new", "ended"} \cup OnTheWay :
                 /\ [dialog EXCEPT !.at = phase] \in Dialog
                 /\ [dialog EXCEPT !.paired = TRUE] \in Dialog
                 /\ [dialog EXCEPT !.paired = FALSE, !.at = phase] \in Dialog
            BY DEF Dialog
        <2>2. CASE UNCHANGED connectVars
            BY <1>2, <2>2 DEF connectVars, ConnectTyped
        <2>3. ASSUME NEW s \in Sessions, NEW bunker \in BOOLEAN, NEW secret \in BOOLEAN,
                     Start(s, bunker, secret)
              PROVE  ConnectTyped'
            <3>1. [at |-> "signer", secret |-> secret, paired |-> bunker] \in Dialog
                BY DEF Dialog, OnTheWay, Awaiting
            <3>2. QED BY <1>2, <2>3, <3>1 DEF Start, ConnectTyped
        <2>4. ASSUME NEW s \in Sessions, NEW phase, Moves(s, phase),
                     phase \in {"new", "ended"} \cup OnTheWay
              PROVE  session' \in [Sessions -> Dialog]
            BY <1>2, <2>1, <2>4 DEF Moves, ConnectTyped
        <2>5. ASSUME NEW s \in Sessions, StartFails(s) PROVE ConnectTyped'
            BY <1>2, <2>4, <2>5 DEF StartFails, ConnectTyped
        <2>6. ASSUME NEW s \in Sessions, SignerAppears(s) PROVE ConnectTyped'
            <3>1. [session[s] EXCEPT !.paired = TRUE] \in Dialog
                BY <1>2, <2>1 DEF ConnectTyped
            <3>2. session' \in [Sessions -> Dialog]
                BY <1>2, <2>6, <3>1 DEF SignerAppears, ConnectTyped
            <3>3. QED BY <1>2, <2>6, <3>2 DEF SignerAppears, ConnectTyped
        <2>7. ASSUME NEW s \in Sessions,
                     Paired(s) \/ Answer(s) \/ Challenged(s) \/ Verified(s) \/ SessionFails(s)
              PROVE  ConnectTyped'
            <3>1. session' \in [Sessions -> Dialog]
                BY <2>4, <2>7 DEF Paired, Answer, Challenged, Verified, SessionFails, OnTheWay, Awaiting,
                                  Asking, Serving
            <3>2. QED BY <1>2, <2>7, <3>1
                      DEF Paired, Answer, Challenged, Verified, SessionFails, ConnectTyped
        <2>8. ASSUME Cancel PROVE ConnectTyped'
            <3>1. \A s \in Sessions : /\ session[s] \in Dialog
                                      /\ Rejected(session[s].at) \in {"new", "ended"} \cup OnTheWay
                BY <1>2 DEF ConnectTyped, Dialog, Rejected, OnTheWay
            <3>2. \A s \in Sessions :
                     [session[s] EXCEPT !.paired = FALSE, !.at = Rejected(session[s].at)] \in Dialog
                BY <2>1, <3>1
            <3>3. Cleanup(current) \in [Sessions -> Dialog]
                BY <1>2, <3>2 DEF ConnectTyped, Cleanup
            <3>4. QED BY <1>2, <2>8, <3>3 DEF Cancel, ConnectTyped
        <2>9. CASE Reset
            BY <1>2, <2>9 DEF Reset, ConnectTyped
        <2>10. QED BY <1>2, <2>2, <2>3, <2>5, <2>6, <2>7, <2>8, <2>9 DEF ConnectNext, Advance
    <1>3. QED BY <1>1, <1>2

WizardTyped ==
    /\ step \in 0..MaxStep /\ path \in {Unknown, "free", "premium"}
    /\ pubkey \in Pubkeys \cup {Nokey}
    /\ named \in BOOLEAN /\ paid \in BOOLEAN /\ profileNip05 \in BOOLEAN /\ completed \in BOOLEAN
    /\ sourceKey \in Sources \cup {Unknown} /\ selected \in Sources \cup {"none", "own"}
    /\ suggesting \subseteq Sources

LEMMA WizardTypes ==
    /\ WizardInit => WizardTyped
    /\ WizardTyped /\ [WizardNext]_wizardVars => WizardTyped'
    <1>1. WizardInit => WizardTyped
        <2>1. WizardInit => step \in 0..MaxStep /\ suggesting \subseteq Sources
            BY DEF WizardInit, MaxStep
        <2>2. WizardInit => /\ named \in BOOLEAN /\ paid \in BOOLEAN /\ profileNip05 \in BOOLEAN
                            /\ completed \in BOOLEAN
            BY DEF WizardInit
        <2>3. WizardInit => /\ path = Unknown /\ pubkey = Nokey
                            /\ sourceKey = Unknown /\ selected = "none"
            BY DEF WizardInit
        <2>4. QED BY <2>1, <2>2, <2>3 DEF WizardTyped
    <1>2. ASSUME WizardTyped, [WizardNext]_wizardVars PROVE WizardTyped'
        <2>1. Source(pubkey) \in Sources
            BY <1>2 DEF WizardTyped, Source, Sources
        <2> USE <1>2, <2>1 DEF WizardTyped, MaxStep, Shown, GoesTo, unchangedIdentity,
                unchangedRelays, unchangedSubmits
        <2>2. CASE UNCHANGED wizardVars
            BY <2>2 DEF wizardVars
        <2>3. ASSUME NEW chosen \in {"premium", "free"}, ChoosePath(chosen) PROVE WizardTyped'
            BY <2>3 DEF ChoosePath
        <2>4. ASSUME GoNext \/ GoBack PROVE WizardTyped'
            BY <2>4 DEF GoNext, GoBack, MayContinue
        <2>5. ASSUME NEW next \in 0..5, EditStep(next) PROVE WizardTyped'
            BY <2>5 DEF EditStep
        <2>6. ASSUME NEW key \in Pubkeys, SetKey(key) PROVE WizardTyped'
            BY <2>6 DEF SetKey
        <2>7. ASSUME NEW given \in BOOLEAN, SetName(given) \/ SelectRelays(given) PROVE WizardTyped'
            BY <2>7 DEF SetName, SelectRelays
        <2>8. ASSUME NEW source \in Sources, Suggested(source) \/ SuggestionFails(source)
              PROVE  WizardTyped'
            BY <2>8 DEF Suggested, SuggestionFails
        <2>9. ASSUME NEW s \in Submits, Complete(s) \/ Completed(s) \/ CompletionFails(s)
              PROVE  WizardTyped'
            <3>1. CASE Complete(s) \/ CompletionFails(s)
                BY <3>1 DEF Complete, CompletionFails
            <3>2. CASE Completed(s)
                <4>1. step' = 7 /\ suggesting' = {} /\ completed' = TRUE
                    BY <3>2 DEF Completed
                <4>2. UNCHANGED <<path, pubkey, named, paid, profileNip05, sourceKey, selected>>
                    BY <3>2 DEF Completed
                <4>3. QED BY <4>1, <4>2
            <3>3. QED BY <2>9, <3>1, <3>2
        <2>10. CASE MarkPaymentComplete
            BY <2>10 DEF MarkPaymentComplete
        <2>11. QED BY <2>2, <2>3, <2>4, <2>5, <2>6, <2>7, <2>8, <2>9, <2>10 DEF WizardNext
    <1>3. QED BY <1>1, <1>2

\* The receipts are asked for what the feed of the page has or had.
ZapPage ==
    /\ feedItems \subseteq ZapItems
    /\ zapLoads \in [ZapLoads -> {NoZapLoad} \cup
                        [at : {"asked", "open"}, items : SUBSET ZapItems, root : BOOLEAN]]

LEMMA ZapTypes ==
    /\ ZapsInit => ZapPage
    /\ ZapPage /\ [ZapsNext]_zapVars => ZapPage'
    <1>1. ZapsInit => ZapPage
        BY DEF ZapsInit, ZapPage
    <1>2. ASSUME ZapPage, [ZapsNext]_zapVars PROVE ZapPage'
        <2> DEFINE ZapLoad == [at : {"asked", "open"}, items : SUBSET ZapItems, root : BOOLEAN]
        <2>1. \A load \in ZapLoad : [load EXCEPT !.root = FALSE] \in ZapLoad
                                    /\ [load EXCEPT !.at = "open"] \in ZapLoad
            OBVIOUS
        <2>2. CASE UNCHANGED <<feedItems, zapLoads>>
            BY <1>2, <2>2 DEF ZapPage
        <2>3. ASSUME NEW items \in SUBSET ZapItems, FeedChanges(items) PROVE ZapPage'
            <3> DEFINE left == [l \in ZapLoads |->
                          IF zapLoads[l] = NoZapLoad \/ ~zapLoads[l].root THEN zapLoads[l]
                          ELSE IF zapLoads[l].at = "open" THEN NoZapLoad
                          ELSE [zapLoads[l] EXCEPT !.root = FALSE]]
            <3>1. left \in [ZapLoads -> {NoZapLoad} \cup ZapLoad]
                BY <1>2, <2>1 DEF ZapPage
            <3>2. \/ zapLoads' = left
                  \/ \E l \in ZapLoads :
                        zapLoads' = [left EXCEPT
                           ![l] = [at |-> "asked", items |-> items, root |-> TRUE]]
                BY <2>3 DEF FeedChanges
            <3>3. [at |-> "asked", items |-> items, root |-> TRUE] \in ZapLoad
                OBVIOUS
            <3> HIDE DEF left
            <3>4. zapLoads' \in [ZapLoads -> {NoZapLoad} \cup ZapLoad]
                <4> HIDE DEF ZapLoad
                <4>1. QED BY <3>1, <3>2, <3>3
            <3>5. QED BY <2>3, <3>4 DEF FeedChanges, ZapPage
        <2>4. ASSUME NEW l \in ZapLoads, ReceiptsLoaded(l) \/ ReceiptsFail(l) PROVE ZapPage'
            <3>1. zapLoads[l] \in ZapLoad
                BY <1>2, <2>4 DEF ReceiptsLoaded, ReceiptsFail, ZapPage, NoZapLoad
            <3>2. QED BY <1>2, <2>1, <2>4, <3>1 DEF ReceiptsLoaded, ReceiptsFail, ZapPage
        <2>5. ASSUME NEW l \in ZapLoads, NEW m \in ZapLoads, ReceiptComes(l, m) PROVE ZapPage'
            <3>1. zapLoads[l] \in ZapLoad
                BY <1>2, <2>5 DEF ReceiptComes, ZapPage, NoZapLoad
            <3>2. QED BY <1>2, <2>5, <3>1 DEF ReceiptComes, AsksReceipts, ZapPage
        <2>6. QED BY <1>2, <2>2, <2>3, <2>4, <2>5
                  DEF ZapsNext, zapVars, OnZap, BeforeInvoiceFails, InvoiceArrives, WalletPays,
                      OpenLink, WalletFails, ClearPending, AppPays, OthersPublish
    <1>3. QED BY <1>1, <1>2

\* No event is dated later than the clock has been.
Dated ==
    /\ second \in 1..LastSecond
    /\ \A r \in Relays : stored[r].at <= second
    /\ \A e \in Edits : EditUnderWay(e) => edits[e].second <= second

LEMMA ListTypes ==
    /\ ListsInit => Dated
    /\ ListsInv /\ Dated /\ [ListsNext]_listVars => Dated'
    <1>1. ListsInit => Dated
        BY ListsAssumption DEF ListsInit, Dated, NoEvent, EditUnderWay
    <1>2. ASSUME ListsInv, Dated, [ListsNext]_listVars PROVE Dated'
        <2> USE ListsAssumption
        <2>1. CASE UNCHANGED <<stored, edits>> /\ (second' = second \/ ListTick)
            <3>1. second \in Nat /\ \A r \in Relays : stored[r].at \in Nat
                BY <1>2 DEF ListsInv, ListsTyped, Event
            <3>2. \A e \in Edits : EditUnderWay(e) => edits[e].second \in Nat
                BY <1>2 DEF ListsInv, ListsTyped, EditUnderWay, EditRecord, SentRecord
            <3>3. second' \in 1..LastSecond /\ second <= second'
                BY <1>2, <2>1, <3>1 DEF Dated, ListTick
            <3>4. QED BY <1>2, <2>1, <3>1, <3>2, <3>3 DEF Dated, EditUnderWay
        <2>2. ASSUME NEW e \in Edits, NEW c \in Copies, NEW x \in Items,
                     NEW silent \in BOOLEAN, Click(e, c, x, silent)
              PROVE  Dated'
            <3>1. \A f \in Edits \ {e} : edits'[f] = edits[f]
                BY <1>2, <2>2 DEF Click, ListsInv, ListsTyped
            <3>2. edits'[e] = Done \/ edits'[e].second = second
                BY <1>2, <2>2 DEF Click, ListsInv, ListsTyped
            <3>3. UNCHANGED <<stored, second>>
                BY <2>2 DEF Click
            <3>4. QED BY <1>2, <3>1, <3>2, <3>3 DEF Dated, EditUnderWay
        <2>3. ASSUME NEW e \in Edits, NEW answering \in SUBSET Relays, ReadFollows(e, answering)
              PROVE  Dated'
            <3>1. \A f \in Edits \ {e} : edits'[f] = edits[f]
                BY <1>2, <2>3 DEF ReadFollows, ListsInv, ListsTyped
            <3>2. edits[e] \in EditRecord
                BY <1>2, <2>3 DEF ReadFollows, ListsInv, ListsTyped, SentRecord, NoEdit, Done
            <3>3. edits'[e].second = second
                BY <1>2, <2>3, <3>2 DEF ReadFollows, ListsInv, ListsTyped, EditRecord
            <3>4. UNCHANGED <<stored, second>>
                BY <2>3 DEF ReadFollows
            <3>5. QED BY <1>2, <3>1, <3>3, <3>4 DEF Dated, EditUnderWay
        <2>4. ASSUME NEW e \in Edits, Publish(e) PROVE Dated'
            <3>1. \A f \in Edits \ {e} : edits'[f] = edits[f]
                BY <1>2, <2>4 DEF Publish, ListsInv, ListsTyped
            <3>2. edits'[e].second = edits[e].second /\ UNCHANGED <<stored, second>>
                BY <1>2, <2>4 DEF Publish, ListsInv, ListsTyped
            <3>3. EditUnderWay(e)
                BY <2>4 DEF Publish, EditUnderWay, NoEdit, Done
            <3>4. QED BY <1>2, <3>1, <3>2, <3>3 DEF Dated, EditUnderWay
        <2>5. ASSUME NEW e \in Edits, NEW accepting \in SUBSET Relays, NEW wins \in BOOLEAN,
                     RelaysStore(e, accepting, wins)
              PROVE  Dated'
            <3>1. EditUnderWay(e)
                BY <2>5 DEF RelaysStore, EditUnderWay, NoEdit, Done
            <3>2. edits[e].second <= second
                BY <1>2, <3>1 DEF Dated
            <3>3. \A r \in Relays : stored'[r].at = stored[r].at \/ stored'[r].at = edits[e].second
                BY <2>5 DEF RelaysStore, Keeps
            <3>4. second' = second /\ edits' = [edits EXCEPT ![e] = Done]
                BY <2>5 DEF RelaysStore
            <3>5. \A f \in Edits : EditUnderWay(f)' => EditUnderWay(f) /\ edits'[f] = edits[f]
                BY <1>2, <3>4 DEF EditUnderWay, ListsInv, ListsTyped
            <3>6. QED BY <1>2, <3>2, <3>3, <3>4, <3>5 DEF Dated
        <2>6. ASSUME NEW e \in Edits, Decline(e) PROVE Dated'
            <3>1. edits' = [edits EXCEPT ![e] = Done] /\ UNCHANGED <<stored, second>>
                BY <2>6 DEF Decline
            <3>2. \A f \in Edits : EditUnderWay(f)' => EditUnderWay(f) /\ edits'[f] = edits[f]
                BY <1>2, <3>1 DEF EditUnderWay, ListsInv, ListsTyped
            <3>3. QED BY <1>2, <3>1, <3>2 DEF Dated
        <2>7. QED BY <1>2, <2>1, <2>2, <2>3, <2>4, <2>5, <2>6
                  DEF ListsNext, listVars, ListTick, Mount, Unmount, Reload, Show, ReloadFails,
                      Fetched
    <1>3. QED BY <1>1, <1>2

ClientTyped ==
    /\ FeedInv /\ ListsInv /\ Dated /\ ProfileInv /\ SignInInv
    /\ ConnectTyped /\ WizardInv /\ WizardTyped /\ ZapsInv /\ ZapPage

LEMMA ClientTypedIsInvariant == Spec => []ClientTyped
    <1>1. Init => ClientTyped
        BY FeedInitInv, ListsInitInv, ListTypes, ProfileInitInv, SignInInitInv, ConnectTypes,
           WizardInitInv, WizardTypes, ZapsInitInv, ZapTypes DEF Init, ClientTyped
    <1>2. ClientTyped /\ [Next]_clientVars => ClientTyped'
        <2> SUFFICES ASSUME ClientTyped, [Next]_clientVars PROVE ClientTyped'
            OBVIOUS
        <2>1. /\ [FeedNext]_feedVars /\ [ListsNext]_listVars /\ [ProfileNext]_profileVars
              /\ [SignInNext]_signInVars /\ [ConnectNext]_connectVars /\ [WizardNext]_wizardVars
              /\ [ZapsNext]_zapVars
            BY DEF Next, clientVars
        <2>2. FeedInv' /\ ListsInv' /\ ProfileInv' /\ SignInInv' /\ WizardInv' /\ ZapsInv'
            BY <2>1, FeedNextInv, ListsNextInv, ProfileNextInv, SignInNextInv, WizardNextInv,
               ZapsNextInv DEF ClientTyped
        <2>3. Dated' /\ ConnectTyped' /\ WizardTyped' /\ ZapPage'
            BY <2>1, ListTypes, ConnectTypes, WizardTypes, ZapTypes DEF ClientTyped
        <2>4. QED BY <2>2, <2>3 DEF ClientTyped
    <1>3. QED BY <1>1, <1>2, PTL DEF Spec

\* Every store, copy and dialog of the client holds what it may.
THEOREM ClientTypeCorrect == Spec => []TypeOK
    <1>1. ASSUME ClientTyped PROVE FeedTypeOK /\ ProfileTypeOK
        BY <1>1 DEF ClientTyped, ProfileInv, FeedInv, FeedTyped, FeedTypeOK, Load
    <1>2. ASSUME ClientTyped PROVE ListsTypeOK
        <2>1. ListsTyped /\ Dated
            BY <1>2 DEF ClientTyped, ListsInv
        <2>2. ASSUME NEW r \in Relays
              PROVE  stored[r] \in [items : SUBSET Items, at : 0..LastSecond]
            <3>1. stored[r] \in Event /\ stored[r].at <= second /\ second \in 1..LastSecond
                BY <2>1 DEF ListsTyped, Dated
            <3>2. stored[r].at \in 0..LastSecond
                BY <3>1, ListsAssumption DEF Event
            <3>3. QED BY <3>1, <3>2 DEF Event
        <2>3. stored \in [Relays -> [items : SUBSET Items, at : 0..LastSecond]]
            BY <2>1, <2>2 DEF ListsTyped
        <2>4. \A e \in Edits : EditUnderWay(e) => edits[e].at \in {"reading", "signing", "sent"}
            BY <2>1 DEF ListsTyped, EditUnderWay, EditRecord, SentRecord
        <2>5. QED BY <2>1, <2>3, <2>4 DEF ListsTypeOK, ListsTyped, Dated, Copy
    <1>3. ASSUME ClientTyped PROVE SignInTypeOK
        BY <1>3 DEF ClientTyped, SignInInv, SignInTyped, SignInTypeOK, Request, NoRequest
    <1>4. ASSUME ClientTyped PROVE ZapsTypeOK
        <2>1. ZapsTyped /\ ZapPage
            BY <1>4 DEF ClientTyped, ZapsInv
        <2>2. \A z \in Zaps : zaps[z].at \in {"none", "invoice", "wallet", "ended"}
            BY <2>1, ZapFields DEF ZapsTyped
        <2>3. QED BY <2>1, <2>2 DEF ZapsTyped, ZapPage, ZapsTypeOK, Statuses, NoZapLoad
    <1>5. ASSUME ClientTyped PROVE ConnectTypeOK
        <2>1. \A s \in Sessions :
                 /\ session[s].at \in {"new", "ended"} \cup OnTheWay
                 /\ session[s].secret \in BOOLEAN /\ session[s].paired \in BOOLEAN
            BY <1>5 DEF ClientTyped, ConnectTyped, Dialog
        <2>2. QED BY <1>5, <2>1 DEF ClientTyped, ConnectTyped, ConnectTypeOK
    <1>6. ASSUME ClientTyped PROVE WizardTypeOK
        BY <1>6 DEF ClientTyped, WizardTyped, WizardTypeOK
    <1>7. ClientTyped => TypeOK
        BY <1>1, <1>2, <1>3, <1>4, <1>5, <1>6 DEF TypeOK
    <1>8. QED BY <1>7, ClientTypedIsInvariant, PTL
=============================================================================
