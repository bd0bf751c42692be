---------------------------- MODULE ProfileCache ----------------------------
(***************************************************************************)
(* The profiles that the client keeps: an entry for ten minutes, and the   *)
(* fetch that later callers of the same profile join.  A login, a logout,  *)
(* a new name or a follow invalidates them while fetches may be under way. *)
(***************************************************************************)
EXTENDS Naturals, FiniteSets

CONSTANTS
    Keys,             \* public keys
    Tasks,            \* bound: fetches under way, of one profile or of several
    NewestVersion            \* bound: how often a profile is published and invalidated

ASSUME ProfileAssumption == NewestVersion \in Nat

VARIABLES
    published,        \* the version of each profile at the relays
    entries,          \* profileCache
    inflight,         \* the fetch to join, by key
    tasks,
    era,              \* history: how often the profile was invalidated
    late              \* history: a fetch from before that has stored its answer since

profileVars == <<published, entries, inflight, tasks, era, late>>

NoProfile == 0
NoTask == [kind |-> "none"]
None == "none"
NoEntry == [profile |-> NoProfile, fresh |-> FALSE, era |-> 0]

ProfileInit ==
    /\ published = [k \in Keys |-> NoProfile]
    /\ entries = [k \in Keys |-> NoEntry]
    /\ inflight = [k \in Keys |-> None]
    /\ tasks = [t \in Tasks |-> NoTask]
    /\ era = [k \in Keys |-> 0] /\ late = [k \in Keys |-> FALSE]

\* The user publishes a profile, from here or from elsewhere.
PublishProfile(k) ==
    /\ published[k] < NewestVersion
    /\ published' = [published EXCEPT ![k] = @ + 1]
    /\ UNCHANGED <<entries, inflight, tasks, era, late>>

Expire(k) ==
    /\ entries[k].fresh
    /\ entries' = [entries EXCEPT ![k].fresh = FALSE]
    /\ UNCHANGED <<published, inflight, tasks, era, late>>

\* What is fresh is answered at once, and a fetch under way is joined; otherwise one starts.
FetchProfileCached(t, k) ==
    /\ ~entries[k].fresh /\ inflight[k] = None
    /\ tasks[t] = NoTask
    /\ tasks' = [tasks EXCEPT ![t] = [kind |-> "one", keys |-> {k}, era |-> era]]
    /\ inflight' = [inflight EXCEPT ![k] = t]
    /\ UNCHANGED <<published, entries, era, late>>

\* Asks for all that is not fresh, and neither joins the fetches under way nor is joined.
FetchProfilesBatchCached(t, asked) ==
    LET stale == {k \in asked : ~entries[k].fresh}
    IN /\ tasks[t] = NoTask /\ stale # {}
       /\ tasks' = [tasks EXCEPT ![t] = [kind |-> "batch", keys |-> stale, era |-> era]]
       /\ UNCHANGED <<published, entries, inflight, era, late>>

\* Relays answer with a version they have, or with none; none is kept like a profile.
SetCache(task, answers) ==
    /\ entries' = [k \in Keys |->
          IF k \in task.keys THEN [profile |-> answers[k], fresh |-> TRUE, era |-> task.era[k]]
          ELSE entries[k]]
    /\ late' = [k \in Keys |-> late[k] \/ (k \in task.keys /\ task.era[k] # era[k])]

\* The end of a fetch takes away whatever there is to join for the key, also a later fetch.
Settled(task) ==
    inflight' = IF task.kind = "one"
                THEN [k \in Keys |-> IF k \in task.keys THEN None ELSE inflight[k]]
                ELSE inflight

ProfilesAnswered(t) ==
    /\ tasks[t] # NoTask
    /\ \E answers \in [tasks[t].keys -> 0..NewestVersion] :
          /\ \A k \in tasks[t].keys : answers[k] <= published[k]
          /\ SetCache(tasks[t], answers)
    /\ Settled(tasks[t])
    /\ tasks' = [tasks EXCEPT ![t] = NoTask]
    /\ UNCHANGED <<published, era>>

ProfilesFail(t) ==
    /\ tasks[t] # NoTask
    /\ Settled(tasks[t])
    /\ tasks' = [tasks EXCEPT ![t] = NoTask]
    /\ UNCHANGED <<published, entries, era, late>>

\* (mutant) The fetch under way can still be joined.
InvalidateEntries(keys) ==
    /\ entries' = [k \in Keys |-> IF k \in keys THEN NoEntry ELSE entries[k]]
    /\ era' = [k \in Keys |-> IF k \in keys THEN era[k] + 1 ELSE era[k]]
    /\ late' = [k \in Keys |-> late[k] /\ k \notin keys]
    /\ UNCHANGED <<published, inflight, tasks>>

\* requestIdentityRefresh of a key, or of all of them.
InvalidateProfileCache(keys) ==
    /\ entries' = [k \in Keys |-> IF k \in keys THEN NoEntry ELSE entries[k]]
    /\ inflight' = [k \in Keys |-> IF k \in keys THEN None ELSE inflight[k]]
    /\ era' = [k \in Keys |-> IF k \in keys THEN era[k] + 1 ELSE era[k]]
    /\ late' = [k \in Keys |-> late[k] /\ k \notin keys]
    /\ UNCHANGED <<published, tasks>>

Refreshes == {{k} : k \in Keys} \cup {Keys}

ProfileNext ==
    \/ \E k \in Keys : PublishProfile(k) \/ Expire(k)
    \/ \E keys \in Refreshes :
          (\A k \in keys : era[k] < NewestVersion) /\ InvalidateProfileCache(keys)
    \/ \E t \in Tasks :
          \/ \E k \in Keys : FetchProfileCached(t, k)
          \/ \E asked \in SUBSET Keys : FetchProfilesBatchCached(t, asked)
          \/ ProfilesAnswered(t) \/ ProfilesFail(t)

(***************************************************************************)
(* Properties                                                              *)
(***************************************************************************)

\* Whoever asks after an invalidation is not given what was asked before it: a fetch that
\* can be joined began after it, and so did the one that an entry is from, as long as no
\* older fetch has come in late.
ServedIsCurrent ==
    \A k \in Keys :
       /\ inflight[k] # None =>
             /\ tasks[inflight[k]].kind = "one" /\ k \in tasks[inflight[k]].keys
             /\ tasks[inflight[k]].era[k] = era[k]
       /\ entries[k].fresh /\ ~late[k] => entries[k].era = era[k]

ProfileTypeOK ==
    /\ published \in [Keys -> 0..NewestVersion] /\ era \in [Keys -> 0..NewestVersion]
    /\ late \in [Keys -> BOOLEAN] /\ inflight \in [Keys -> Tasks \cup {None}]
    /\ entries \in [Keys -> [profile : 0..NewestVersion, fresh : BOOLEAN, era : 0..NewestVersion]]
    /\ \A t \in Tasks : tasks[t] # NoTask => tasks[t].keys \subseteq Keys
=============================================================================
