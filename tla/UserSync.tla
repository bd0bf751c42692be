----------------------------- MODULE UserSync ------------------------------
(***************************************************************************)
(* The notes that are copied to the local relay at every login.  A file    *)
(* keeps for each user up to when, and is read and written as a whole by   *)
(* syncs that overlap; a write empties it first, and what cannot be parsed *)
(* is replaced by a file without users, which means a copy of everything.  *)
(***************************************************************************)
EXTENDS Clock, FiniteSets

CONSTANTS
    Users, Notes, AuthorOf,
    NoteDates,        \* the created_at that clients give their notes
    Syncs,            \* bound: syncs under way
    StopBound         \* bound: crashes

ASSUME UserSyncAssumption ==
    /\ AuthorOf \in [Notes -> Users] /\ IsFiniteSet(Notes)
    /\ NoteDates \subseteq Nat \ {0} /\ StopBound \in Nat

VARIABLES
    syncState,        \* data/sync-state.json: the users' cursors, if it can be parsed
    dated,            \* the second in which a note says it was written
    local,            \* the notes that the local relay has
    syncs,
    stops,            \* bound: crashes so far
    reached,          \* history: the latest cursor of a user
    excused           \* history: notes not given, or refused, or published too late

userSyncVars == <<syncState, dated, local, syncs, stops, reached, excused>>

NoSync == [at |-> "none"]
NotWritten == 0
NoCursor == 0
NoUsers == [u \in Users |-> NoCursor]
Unreadable == [u \in {} |-> NoCursor]

UserSyncInit ==
    /\ syncState = Unreadable
    /\ dated = [n \in Notes |-> NotWritten] /\ local = {}
    /\ syncs = [s \in Syncs |-> NoSync]
    /\ stops = 0 /\ reached = NoUsers /\ excused = {}

Second == now + 1

Syncing(u) == \E s \in Syncs : syncs[s] # NoSync /\ syncs[s].user = u

\* A note is published, with any date: the client's clock may be ahead, and a note may be
\* dated back.  It is too late for a sync that is under way, and for a cursor that the date
\* of another note has moved as far as its own.
WriteNote(n, date) ==
    /\ dated[n] = NotWritten
    /\ dated' = [dated EXCEPT ![n] = date]
    /\ excused' = IF Syncing(AuthorOf[n]) \/ date <= reached[AuthorOf[n]]
                  THEN excused \cup {n} ELSE excused
    /\ UNCHANGED <<syncState, local, syncs, stops, reached>>

\* onUserLogin: the request that logs in does not wait for it.
UserLogin(s, u) ==
    /\ syncs[s] = NoSync
    /\ syncs' = [syncs EXCEPT ![s] = [at |-> "get", user |-> u]]
    /\ UNCHANGED <<syncState, dated, local, stops, reached, excused>>

EndSync(s) == syncs' = [syncs EXCEPT ![s] = NoSync]

AsksFor(u, since) == [at |-> "ask", user |-> u, since |-> since]
Writes(u, target, content, after) ==
    [at |-> "write", user |-> u, target |-> target, content |-> content, after |-> after]
Saves(u, target, state) == Writes(u, target, [state EXCEPT ![u] = target], "end")

\* readSyncState, to get the cursor or to set it; a file that cannot be parsed is written
\* anew before that goes on.
ReadSyncState(s) ==
    LET sync == syncs[s]
    IN /\ sync.at \in {"get", "set"}
       /\ syncs' = [syncs EXCEPT ![s] =
             CASE sync.at = "get" /\ syncState = Unreadable ->
                     Writes(sync.user, NoCursor, NoUsers, "ask")
               [] sync.at = "get" /\ syncState # Unreadable ->
                     AsksFor(sync.user, syncState[sync.user])
               [] sync.at = "set" /\ syncState = Unreadable ->
                     Writes(sync.user, sync.target, NoUsers, "save")
               [] OTHER -> Saves(sync.user, sync.target, syncState)]
       /\ UNCHANGED <<syncState, dated, local, stops, reached, excused>>

WriteBegins(s) ==
    /\ syncs[s].at = "write"
    /\ syncState' = Unreadable
    /\ syncs' = [syncs EXCEPT ![s].at = "writing"]
    /\ UNCHANGED <<dated, local, stops, reached, excused>>

\* The end of a longer text that another sync has written meanwhile may remain.
WriteEnds(s) ==
    LET sync == syncs[s]
    IN /\ sync.at = "writing"
       /\ syncState' \in IF syncState = Unreadable THEN {sync.content}
                        ELSE {sync.content, Unreadable}
       /\ syncs' = [syncs EXCEPT ![s] =
             CASE sync.after = "ask" -> AsksFor(sync.user, NoCursor)
               [] sync.after = "save" -> Saves(sync.user, sync.target, NoUsers)
               [] sync.after = "end" -> NoSync]
       /\ UNCHANGED <<dated, local, stops, reached, excused>>

\* querySync: relays give some of the notes after the cursor; a relay that cannot be
\* reached gives none, and that is no failure.
NotesGiven(s, given) ==
    LET sync == syncs[s]
        asked == {n \in Notes : /\ AuthorOf[n] = sync.user /\ dated[n] # NotWritten
                                /\ dated[n] > sync.since}
    IN /\ sync.at = "ask"
       /\ given \subseteq asked
       /\ syncs' = [syncs EXCEPT ![s] = [at |-> "publish", user |-> sync.user,
                                         since |-> sync.since, given |-> given]]
       /\ excused' = excused \cup (asked \ given)
       /\ UNCHANGED <<syncState, dated, local, stops, reached>>

IsLatest(note, notes) == note \in notes /\ \A n \in notes : dated[n] <= dated[note]

SetsCursor(s, target) ==
    /\ syncs' = [syncs EXCEPT ![s] = [at |-> "set", user |-> syncs[s].user, target |-> target]]
    /\ reached' = [reached EXCEPT ![syncs[s].user] = IF target > @ THEN target ELSE @]

\* (mutant) A failure moves the cursor as an empty answer does.
QueryFailsOn(s) ==
    /\ syncs[s].at = "ask"
    /\ SetsCursor(s, Second)
    /\ UNCHANGED <<syncState, dated, local, stops, excused>>

QueryFails(s) ==
    /\ syncs[s].at = "ask"
    /\ EndSync(s)
    /\ UNCHANGED <<syncState, dated, local, stops, reached, excused>>

\* The cursor moves to the latest note that was given, refused or not; without any, to
\* the present, or nowhere if there was none yet.
PublishNotes(s, refused) ==
    LET sync == syncs[s]
    IN /\ sync.at = "publish"
       /\ refused \subseteq sync.given \ local
       /\ local' = local \cup (sync.given \ refused)
       /\ excused' = excused \cup refused
       /\ \/ \E note \in sync.given : IsLatest(note, sync.given) /\ SetsCursor(s, dated[note])
          \/ sync.given = {} /\ sync.since # NoCursor /\ SetsCursor(s, Second)
          \/ sync.given = {} /\ sync.since = NoCursor /\ EndSync(s) /\ UNCHANGED reached
       /\ UNCHANGED <<syncState, dated, stops>>

\* A file that can be neither read nor written ends the sync.
SyncFails(s) ==
    /\ syncs[s].at \in {"get", "set", "write", "writing"}
    /\ EndSync(s)
    /\ UNCHANGED <<syncState, dated, local, stops, reached, excused>>

ServerStops ==
    /\ stops < StopBound
    /\ stops' = stops + 1
    /\ syncs' = [s \in Syncs |-> NoSync]
    /\ UNCHANGED <<syncState, dated, local, reached, excused>>

UserSyncNext ==
    \/ /\ \/ \E n \in Notes, date \in NoteDates : WriteNote(n, date)
          \/ ServerStops
          \/ \E s \in Syncs :
                \/ \E u \in Users : UserLogin(s, u)
                \/ ReadSyncState(s) \/ WriteBegins(s) \/ WriteEnds(s)
                \/ \E notes \in SUBSET Notes : NotesGiven(s, notes) \/ PublishNotes(s, notes)
                \/ QueryFails(s) \/ SyncFails(s)
       /\ UNCHANGED now
    \/ TickClock /\ UNCHANGED userSyncVars

(***************************************************************************)
(* Properties                                                              *)
(***************************************************************************)

\* What the cursor has passed is at the local relay, however syncs of the same and of
\* other users, torn files and crashes mix: no note is skipped but one that no relay gave
\* when asked, that the local relay refused, that was published during a sync of its
\* author, or whose date a cursor of its author had reached before it was published.  The
\* last is any later note of a client that has dated one ahead, and any note dated back
\* (deltaSyncUserNotes, publishToLocalRelay).
CursorCoversLocal ==
    syncState # Unreadable =>
       \A n \in Notes :
          dated[n] \in 1..syncState[AuthorOf[n]] => n \in local \cup excused

UserSyncTypeOK ==
    /\ syncState = Unreadable \/ syncState \in [Users -> Nat]
    /\ dated \in [Notes -> Nat] /\ local \subseteq Notes /\ excused \subseteq Notes
    /\ \A s \in Syncs : syncs[s] # NoSync => syncs[s].user \in Users
=============================================================================
