--------------------------- MODULE PlatformProofs ---------------------------
(***************************************************************************)
(* What holds of the work with the relays, for any users, notes, relays,   *)
(* overlapping writers, crashes and throws: the two files that syncs and   *)
(* relay lists leave behind, the queue of the sync loop, and the rate of   *)
(* requests.                                                               *)
(***************************************************************************)
EXTENDS Platform, TLAPS, FiniteSetTheorems, SequenceTheorems

(***************************************************************************)
(* The cursors of the copied notes                                         *)
(***************************************************************************)

Cursors == [Users -> Nat]
SyncRecord ==
    [at : {"get"}, user : Users]
    \cup [at : {"ask"}, user : Users, since : Nat]
    \cup [at : {"publish"}, user : Users, since : Nat, given : SUBSET Notes]
    \cup [at : {"set"}, user : Users, target : Nat]
    \cup [at : {"write", "writing"}, user : Users, target : Nat, content : Cursors,
          after : {"ask", "save", "end"}]

UserSyncTyped ==
    /\ now \in Nat
    /\ dated \in [Notes -> Nat]
    /\ syncs \in [Syncs -> SyncRecord \cup {NoSync}]
    /\ reached \in [Users -> Nat]

\* A cursor that some file, some memory or some answer holds: it is not ahead of the
\* latest one, and what it has passed is copied or excused.
Backed(u, cursor) ==
    /\ cursor <= reached[u]
    /\ \A n \in Notes : AuthorOf[n] = u /\ dated[n] \in 1..cursor => n \in local \cup excused

AllBacked(cursors) == \A u \in Users : Backed(u, cursors[u])

\* Between the answer and the copy, every note of the author after the cursor is in the
\* answer or excused.
AnswerIsWhole(sync) ==
    \A n \in Notes : /\ AuthorOf[n] = sync.user
                     /\ dated[n] # NotWritten /\ dated[n] > sync.since
                     => n \in sync.given \cup excused

SyncIsBacked(sync) ==
    /\ sync.at \in {"ask", "publish"} => Backed(sync.user, sync.since)
    /\ sync.at = "publish" => AnswerIsWhole(sync)
    /\ sync.at \in {"set", "write", "writing"} => Backed(sync.user, sync.target)
    /\ sync.at \in {"write", "writing"} => AllBacked(sync.content)

FileIsBacked ==
    /\ syncState \in Cursors \cup {Unreadable}
    /\ syncState # Unreadable => AllBacked(syncState)

UserSyncInv ==
    /\ UserSyncTyped
    /\ FileIsBacked
    /\ \A s \in Syncs : SyncIsBacked(syncs[s])

LEMMA SyncFields ==
    ASSUME NEW sync \in SyncRecord \cup {NoSync}
    PROVE  /\ sync # NoSync <=> sync.at # "none"
           /\ sync # NoSync => sync.user \in Users
           /\ sync.at \in {"ask", "publish"} => sync.since \in Nat
           /\ sync.at = "publish" => sync.given \in SUBSET Notes
           /\ sync.at \in {"set", "write", "writing"} => sync.target \in Nat
           /\ sync.at \in {"write", "writing"} => /\ sync.content \in Cursors
                                                  /\ sync.after \in {"ask", "save", "end"}
    BY DEF SyncRecord, NoSync

\* Nothing passed is uncopied where there is no cursor.
LEMMA NoCursorIsBacked ==
    ASSUME UserSyncTyped
    PROVE  NoUsers \in Cursors /\ AllBacked(NoUsers) /\ \A u \in Users : Backed(u, NoCursor)
    BY DEF UserSyncTyped, NoUsers, NoCursor, AllBacked, Backed, Cursors

LEMMA UserSyncInitInv == Init => UserSyncInv
    <1> SUFFICES ASSUME Init PROVE UserSyncInv
        OBVIOUS
    <1>1. UserSyncTyped
        BY UserSyncAssumption DEF Init, UserSyncInit, UserSyncTyped, NoUsers, NoCursor, NotWritten
    <1>2. QED
        BY <1>1 DEF Init, UserSyncInit, UserSyncInv, SyncIsBacked, NoSync, FileIsBacked

\* What every step does: copies, excuses and cursors only grow, and a note that is written
\* is excused, or later than the cursors of an author who is not being synced.
Onward ==
    /\ now' \in Nat
    /\ dated' \in [Notes -> Nat] /\ reached' \in [Users -> Nat]
    /\ local \subseteq local' /\ excused \subseteq excused'
    /\ \A u \in Users : reached[u] <= reached'[u]
    /\ \A n \in Notes :
          \/ dated'[n] = dated[n]
          \/ n \in excused'
          \/ dated'[n] > reached[AuthorOf[n]] /\ ~Syncing(AuthorOf[n])

LEMMA BackedStays ==
    ASSUME UserSyncTyped, Onward, NEW u \in Users, NEW cursor \in Nat, Backed(u, cursor)
    PROVE  Backed(u, cursor)'
    <1>1. cursor <= reached'[u]
        BY DEF UserSyncTyped, Onward, Backed
    <1>2. ASSUME NEW n \in Notes, AuthorOf[n] = u, dated'[n] \in 1..cursor
          PROVE  n \in local' \cup excused'
        <2>1. dated[n] \in Nat /\ dated'[n] \in Nat /\ reached[u] \in Nat /\ cursor <= reached[u]
            BY DEF UserSyncTyped, Onward, Backed
        <2>2. CASE dated'[n] = dated[n]
            BY <1>2, <2>2 DEF Onward, Backed
        <2>3. CASE dated'[n] > reached[AuthorOf[n]]
            BY <1>2, <2>1, <2>3
        <2>4. QED BY <2>2, <2>3 DEF Onward
    <1>3. QED BY <1>1, <1>2 DEF Backed

LEMMA AllBackedStays ==
    ASSUME UserSyncTyped, Onward, NEW cursors \in Cursors, AllBacked(cursors)
    PROVE  AllBacked(cursors)'
    BY BackedStays DEF AllBacked, Cursors

LEMMA SyncStays ==
    ASSUME UserSyncInv, Onward, NEW s \in Syncs, NEW sync, sync = syncs[s]
    PROVE  SyncIsBacked(sync)'
    <1>1. sync \in SyncRecord \cup {NoSync} /\ SyncIsBacked(sync) /\ UserSyncTyped
        BY DEF UserSyncInv, UserSyncTyped
    <1>2. CASE sync.at = "publish"
        <2>1. sync.user \in Users /\ sync.since \in Nat /\ Syncing(sync.user)
            BY <1>1, <1>2, SyncFields DEF Syncing, NoSync
        <2>2. AnswerIsWhole(sync)'
            BY <1>1, <1>2, <2>1 DEF SyncIsBacked, AnswerIsWhole, Onward
        <2>3. QED BY <1>1, <1>2, <2>1, <2>2, BackedStays DEF SyncIsBacked
    <1>3. CASE sync.at # "publish"
        <2>1. sync.at \in {"ask"} => Backed(sync.user, sync.since)'
            BY <1>1, SyncFields, BackedStays DEF SyncIsBacked, NoSync
        <2>2. sync.at \in {"set", "write", "writing"} => Backed(sync.user, sync.target)'
            BY <1>1, SyncFields, BackedStays DEF SyncIsBacked, NoSync
        <2>3. sync.at \in {"write", "writing"} => AllBacked(sync.content)'
            BY <1>1, SyncFields, AllBackedStays DEF SyncIsBacked, NoSync
        <2>4. QED BY <1>3, <2>1, <2>2, <2>3 DEF SyncIsBacked
    <1>4. QED BY <1>2, <1>3

LEMMA FileStays ==
    ASSUME UserSyncInv, Onward, UNCHANGED syncState
    PROVE  FileIsBacked'
    <1>1. CASE syncState # Unreadable
        <2>1. PICK same : same = syncState
            OBVIOUS
        <2>2. AllBacked(same)'
            BY <1>1, <2>1, AllBackedStays DEF UserSyncInv, FileIsBacked
        <2>3. QED BY <1>1, <2>1, <2>2 DEF UserSyncInv, FileIsBacked
    <1>2. CASE syncState = Unreadable
        BY <1>2 DEF FileIsBacked, Unreadable, NoCursor
    <1>3. QED BY <1>1, <1>2

\* A step of one sync, which goes on as `sync`, and may leave another file.
LEMMA OneSyncMoves ==
    ASSUME UserSyncInv, Onward, NEW s \in Syncs, NEW sync \in SyncRecord \cup {NoSync},
           syncs' = [syncs EXCEPT ![s] = sync], SyncIsBacked(sync)', FileIsBacked'
    PROVE  UserSyncInv'
    <1>1. UserSyncTyped'
        BY DEF UserSyncInv, UserSyncTyped, Onward
    <1>2. \A other \in Syncs : SyncIsBacked(syncs[other])'
        <2> TAKE other \in Syncs
        <2>1. CASE other = s
            BY <2>1 DEF UserSyncInv, UserSyncTyped
        <2>2. CASE other # s
            <3>1. PICK same : same = syncs[other]
                OBVIOUS
            <3>2. SyncIsBacked(same)' /\ syncs'[other] = same
                BY <2>2, <3>1, SyncStays DEF UserSyncInv, UserSyncTyped
            <3>3. QED BY <3>2
        <2>3. QED BY <2>1, <2>2
    <1>3. QED BY <1>1, <1>2 DEF UserSyncInv

LEMMA KnownIsOnward ==
    ASSUME UserSyncInv, UNCHANGED <<now, dated, reached>>,
           local \subseteq local', excused \subseteq excused'
    PROVE  Onward
    BY DEF UserSyncInv, UserSyncTyped, Onward

LEMMA WriteNoteInv ==
    ASSUME UserSyncInv, NEW n \in Notes, NEW date \in NoteDates, WriteNote(n, date),
           UNCHANGED now
    PROVE  UserSyncInv'
    <1>1. Onward
        <2>1. /\ now \in Nat /\ now' = now /\ date \in Nat /\ AuthorOf[n] \in Users
              /\ dated \in [Notes -> Nat] /\ dated' = [dated EXCEPT ![n] = date]
              /\ reached \in [Users -> Nat] /\ reached' = reached /\ local' = local
              /\ excused' = IF Syncing(AuthorOf[n]) \/ date <= reached[AuthorOf[n]]
                            THEN excused \cup {n} ELSE excused
            <3>1. now \in Nat /\ date \in Nat
                BY UserSyncAssumption DEF UserSyncInv, UserSyncTyped
            <3>2. AuthorOf[n] \in Users
                BY UserSyncAssumption
            <3>3. QED BY <3>1, <3>2 DEF UserSyncInv, UserSyncTyped, WriteNote
        <2>2. \A m \in Notes : m # n => dated'[m] = dated[m]
            BY <2>1
        <2>3. \/ n \in excused'
              \/ dated'[n] > reached[AuthorOf[n]] /\ ~Syncing(AuthorOf[n])
            <3>1. CASE Syncing(AuthorOf[n]) \/ date <= reached[AuthorOf[n]]
                BY <2>1, <3>1
            <3>2. CASE ~Syncing(AuthorOf[n]) /\ ~(date <= reached[AuthorOf[n]])
                <4>1. dated'[n] = date /\ reached[AuthorOf[n]] \in Nat
                    BY <2>1
                <4>2. QED BY <2>1, <3>2, <4>1
            <3>3. QED BY <3>1, <3>2
        <2>4. excused \subseteq excused'
            BY <2>1
        <2>5. /\ dated' \in [Notes -> Nat] /\ reached' \in [Users -> Nat]
              /\ \A u \in Users : reached[u] <= reached'[u]
            BY <2>1
        <2>6. QED BY <2>1, <2>2, <2>3, <2>4, <2>5 DEF Onward
    <1>2. UNCHANGED <<syncs, syncState>>
        BY DEF WriteNote
    <1>3. UserSyncTyped'
        BY <1>1, <1>2 DEF UserSyncInv, UserSyncTyped, Onward, WriteNote
    <1>4. \A s \in Syncs : SyncIsBacked(syncs[s])'
        <2> TAKE s \in Syncs
        <2>1. PICK same : same = syncs[s]
            OBVIOUS
        <2>2. SyncIsBacked(same)'
            BY <1>1, <2>1, SyncStays
        <2>3. QED BY <1>2, <2>1, <2>2
    <1>5. FileIsBacked'
        BY <1>1, <1>2, FileStays
    <1>6. QED BY <1>3, <1>4, <1>5 DEF UserSyncInv

LEMMA UserLoginInv ==
    ASSUME UserSyncInv, NEW s \in Syncs, NEW u \in Users, UserLogin(s, u), UNCHANGED now
    PROVE  UserSyncInv'
    <1>1. PICK sync : sync = [at |-> "get", user |-> u]
        OBVIOUS
    <1>2. sync \in SyncRecord /\ SyncIsBacked(sync)'
        BY <1>1 DEF SyncRecord, SyncIsBacked
    <1>3. Onward
        BY KnownIsOnward DEF UserLogin
    <1>4. syncs' = [syncs EXCEPT ![s] = sync] /\ syncState' = syncState
        BY <1>1 DEF UserLogin
    <1>5. QED BY <1>2, <1>3, <1>4, FileStays, OneSyncMoves

\* A sync that ends leaves the file as it is.
LEMMA EndSyncInv ==
    ASSUME UserSyncInv, NEW s \in Syncs, EndSync(s), Onward, UNCHANGED syncState
    PROVE  UserSyncInv'
    <1>1. PICK sync : sync = NoSync
        OBVIOUS
    <1>2. SyncIsBacked(sync)'
        BY <1>1 DEF SyncIsBacked, NoSync
    <1>3. /\ syncs' = [syncs EXCEPT ![s] = sync] /\ syncState' = syncState
          /\ sync \in SyncRecord \cup {NoSync}
        BY <1>1 DEF EndSync
    <1>4. QED BY <1>2, <1>3, FileStays, OneSyncMoves

\* The file with a cursor that is backed is backed.
LEMMA SavesIsBacked ==
    ASSUME UserSyncTyped, NEW u \in Users, NEW target \in Nat, Backed(u, target),
           NEW cursors \in Cursors, AllBacked(cursors)
    PROVE  Saves(u, target, cursors) \in SyncRecord /\ SyncIsBacked(Saves(u, target, cursors))
    <1> DEFINE content == [cursors EXCEPT ![u] = target]
    <1>1. content \in Cursors /\ AllBacked(content)
        BY DEF Cursors, AllBacked
    <1>2. Saves(u, target, cursors) = [at |-> "write", user |-> u, target |-> target,
                                       content |-> content, after |-> "end"]
        BY DEF Saves, Writes
    <1> HIDE DEF content
    <1>3. QED BY <1>1, <1>2 DEF SyncRecord, SyncIsBacked

LEMMA ReadSyncStateInv ==
    ASSUME UserSyncInv, NEW s \in Syncs, ReadSyncState(s), UNCHANGED now
    PROVE  UserSyncInv'
    <1>1. PICK next : syncs' = [syncs EXCEPT ![s] = next] /\
             next = CASE syncs[s].at = "get" /\ syncState = Unreadable ->
                            Writes(syncs[s].user, NoCursor, NoUsers, "ask")
                      [] syncs[s].at = "get" /\ syncState # Unreadable ->
                            AsksFor(syncs[s].user, syncState[syncs[s].user])
                      [] syncs[s].at = "set" /\ syncState = Unreadable ->
                            Writes(syncs[s].user, syncs[s].target, NoUsers, "save")
                      [] OTHER -> Saves(syncs[s].user, syncs[s].target, syncState)
        BY DEF ReadSyncState
    <1>2. /\ syncs[s].at \in {"get", "set"} /\ syncs[s].user \in Users
          /\ syncs[s].at = "set" => syncs[s].target \in Nat /\ Backed(syncs[s].user, syncs[s].target)
          /\ UserSyncTyped
        BY SyncFields DEF UserSyncInv, UserSyncTyped, ReadSyncState, NoSync, SyncIsBacked
    <1>3. syncState # Unreadable => syncState \in Cursors /\ AllBacked(syncState)
        BY DEF UserSyncInv, FileIsBacked
    <1>4. next \in SyncRecord /\ SyncIsBacked(next)
        <2>1. CASE syncs[s].at = "get" /\ syncState = Unreadable
            <3>1. next = Writes(syncs[s].user, NoCursor, NoUsers, "ask")
                BY <1>1, <2>1
            <3>2. QED BY <1>2, <3>1, NoCursorIsBacked DEF Writes, SyncRecord, SyncIsBacked, NoCursor
        <2>2. CASE syncs[s].at = "get" /\ syncState # Unreadable
            <3>1. next = AsksFor(syncs[s].user, syncState[syncs[s].user])
                BY <1>1, <2>2
            <3>2. QED BY <1>2, <1>3, <2>2, <3>1 DEF AsksFor, SyncRecord, SyncIsBacked, AllBacked, Cursors
        <2>3. CASE syncs[s].at = "set" /\ syncState = Unreadable
            <3>1. next = Writes(syncs[s].user, syncs[s].target, NoUsers, "save")
                BY <1>1, <2>3
            <3>2. QED BY <1>2, <2>3, <3>1, NoCursorIsBacked DEF Writes, SyncRecord, SyncIsBacked
        <2>4. CASE syncs[s].at = "set" /\ syncState # Unreadable
            <3>1. next = Saves(syncs[s].user, syncs[s].target, syncState)
                BY <1>1, <2>4
            <3>2. QED BY <1>2, <1>3, <2>4, <3>1, SavesIsBacked
        <2>5. QED BY <1>2, <2>1, <2>2, <2>3, <2>4
    <1>5. UNCHANGED <<syncState, dated, local, reached, excused>>
        BY DEF ReadSyncState
    <1>6. SyncIsBacked(next)'
        BY <1>4, <1>5 DEF SyncIsBacked, AllBacked, AnswerIsWhole, Backed
    <1>7. Onward /\ syncs' = [syncs EXCEPT ![s] = next] /\ syncState' = syncState
        BY <1>1, <1>5, KnownIsOnward
    <1>8. QED BY <1>4, <1>6, <1>7, FileStays, OneSyncMoves

LEMMA WriteBeginsInv ==
    ASSUME UserSyncInv, NEW s \in Syncs, WriteBegins(s), UNCHANGED now
    PROVE  UserSyncInv'
    <1>1. PICK next : next = [syncs[s] EXCEPT !.at = "writing"]
        OBVIOUS
    <1>2. PICK sync : sync = syncs[s]
        OBVIOUS
    <1>3. /\ sync \in [at : {"write", "writing"}, user : Users, target : Nat, content : Cursors,
                       after : {"ask", "save", "end"}]
          /\ SyncIsBacked(sync) /\ sync.at = "write"
        BY <1>2 DEF UserSyncInv, UserSyncTyped, WriteBegins, SyncRecord, NoSync
    <1>4. next \in SyncRecord /\ SyncIsBacked(next)
        BY <1>1, <1>2, <1>3 DEF SyncRecord, SyncIsBacked
    <1>5. SyncIsBacked(next)'
        BY <1>4 DEF WriteBegins, SyncIsBacked, AllBacked, AnswerIsWhole, Backed
    <1>6. Onward /\ syncs' = [syncs EXCEPT ![s] = next]
        BY <1>1, KnownIsOnward DEF WriteBegins
    <1>7. FileIsBacked'
        BY DEF WriteBegins, FileIsBacked, Unreadable, NoCursor
    <1>8. QED BY <1>4, <1>5, <1>6, <1>7, OneSyncMoves

LEMMA WriteEndsInv ==
    ASSUME UserSyncInv, NEW s \in Syncs, WriteEnds(s), UNCHANGED now
    PROVE  UserSyncInv'
    <1>1. PICK sync : sync = syncs[s]
        OBVIOUS
    <1>2. /\ sync.user \in Users /\ sync.target \in Nat /\ sync.content \in Cursors
          /\ sync.after \in {"ask", "save", "end"}
          /\ Backed(sync.user, sync.target) /\ AllBacked(sync.content) /\ UserSyncTyped
        BY <1>1, SyncFields DEF UserSyncInv, UserSyncTyped, WriteEnds, NoSync, SyncIsBacked
    <1>3. PICK next : syncs' = [syncs EXCEPT ![s] = next] /\
             next = CASE sync.after = "ask" -> AsksFor(sync.user, NoCursor)
                      [] sync.after = "save" -> Saves(sync.user, sync.target, NoUsers)
                      [] sync.after = "end" -> NoSync
        BY <1>1 DEF WriteEnds
    <1>4. next \in SyncRecord \cup {NoSync} /\ SyncIsBacked(next)
        <2>1. CASE sync.after = "ask"
            <3>1. next = AsksFor(sync.user, NoCursor)
                BY <1>3, <2>1
            <3>2. QED BY <1>2, <3>1, NoCursorIsBacked DEF AsksFor, SyncRecord, SyncIsBacked, NoCursor
        <2>2. CASE sync.after = "save"
            <3>1. next = Saves(sync.user, sync.target, NoUsers)
                BY <1>3, <2>2
            <3>2. QED BY <1>2, <3>1, NoCursorIsBacked, SavesIsBacked
        <2>3. CASE sync.after = "end"
            BY <1>3, <2>3 DEF SyncIsBacked, NoSync
        <2>4. QED BY <1>2, <2>1, <2>2, <2>3
    <1>5. UNCHANGED <<dated, local, reached, excused>>
        BY DEF WriteEnds
    <1>6. SyncIsBacked(next)' /\ Onward
        BY <1>4, <1>5, KnownIsOnward DEF SyncIsBacked, AllBacked, AnswerIsWhole, Backed
    <1>7. FileIsBacked'
        <2>1. syncState' = sync.content \/ syncState' = Unreadable
            BY <1>1 DEF WriteEnds
        <2>2. PICK content : content = sync.content
            OBVIOUS
        <2>3. AllBacked(content)'
            BY <1>2, <1>5, <2>2 DEF AllBacked, Backed
        <2>4. Unreadable' = Unreadable /\ Cursors' = Cursors
            BY DEF Unreadable, NoCursor, Cursors
        <2>5. CASE syncState' = content
            BY <1>2, <2>2, <2>3, <2>4, <2>5 DEF FileIsBacked
        <2>6. QED BY <2>1, <2>2, <2>4, <2>5 DEF FileIsBacked
    <1>8. QED BY <1>3, <1>4, <1>6, <1>7, OneSyncMoves

LEMMA NotesGivenInv ==
    ASSUME UserSyncInv, NEW s \in Syncs, NEW given \in SUBSET Notes, NotesGiven(s, given),
           UNCHANGED now
    PROVE  UserSyncInv'
    <1>1. PICK user, since : user = syncs[s].user /\ since = syncs[s].since
        OBVIOUS
    <1>2. PICK next : next = [at |-> "publish", user |-> user, since |-> since, given |-> given]
        OBVIOUS
    <1>3. user \in Users /\ since \in Nat /\ Backed(user, since)
        BY <1>1, SyncFields DEF UserSyncInv, UserSyncTyped, NotesGiven, NoSync, SyncIsBacked
    <1>4. /\ UNCHANGED <<syncState, dated, local, reached>>
          /\ syncs' = [syncs EXCEPT ![s] = next]
          /\ excused' = excused \cup ({n \in Notes : /\ AuthorOf[n] = user
                                                     /\ dated[n] # NotWritten
                                                     /\ dated[n] > since} \ given)
        BY <1>1, <1>2 DEF NotesGiven
    <1>5. Onward
        BY <1>4, KnownIsOnward
    <1>6. next \in SyncRecord
        BY <1>2, <1>3 DEF SyncRecord
    <1>7. Backed(user, since)' /\ AnswerIsWhole(next)'
        BY <1>2, <1>3, <1>4 DEF Backed, AnswerIsWhole
    <1>8. SyncIsBacked(next)'
        BY <1>2, <1>7 DEF SyncIsBacked
    <1>9. QED BY <1>4, <1>5, <1>6, <1>8, FileStays, OneSyncMoves

\* A cursor may be set where the author's notes are all copied or excused.
LEMMA SetsCursorInv ==
    ASSUME UserSyncInv, NEW s \in Syncs, NEW target \in Nat, NEW user \in Users,
           user = syncs[s].user, SetsCursor(s, target), UNCHANGED <<now, dated, syncState>>,
           local \subseteq local', excused \subseteq excused',
           \A n \in Notes : AuthorOf[n] = user /\ dated[n] # NotWritten => n \in local' \cup excused'
    PROVE  UserSyncInv'
    <1>1. PICK next : next = [at |-> "set", user |-> user, target |-> target]
        OBVIOUS
    <1>2. /\ syncs' = [syncs EXCEPT ![s] = next]
          /\ reached' = [reached EXCEPT ![user] = IF target > @ THEN target ELSE @]
        BY <1>1 DEF SetsCursor
    <1>3. /\ reached \in [Users -> Nat] /\ reached' \in [Users -> Nat] /\ target <= reached'[user]
          /\ \A u \in Users : reached[u] <= reached'[u]
        BY <1>2 DEF UserSyncInv, UserSyncTyped
    <1>4. Onward
        BY <1>3 DEF UserSyncInv, UserSyncTyped, Onward
    <1>5. Backed(user, target)'
        BY <1>3 DEF Backed, UserSyncInv, UserSyncTyped, NotWritten
    <1>6. next \in SyncRecord /\ SyncIsBacked(next)'
        BY <1>1, <1>5 DEF SyncRecord, SyncIsBacked
    <1>7. QED BY <1>2, <1>4, <1>6, FileStays, OneSyncMoves

LEMMA PublishNotesInv ==
    ASSUME UserSyncInv, NEW s \in Syncs, NEW refused \in SUBSET Notes, PublishNotes(s, refused),
           UNCHANGED now
    PROVE  UserSyncInv'
    <1>1. PICK user, since, given :
             user = syncs[s].user /\ since = syncs[s].since /\ given = syncs[s].given
        OBVIOUS
    <1>2. /\ user \in Users /\ since \in Nat /\ given \in SUBSET Notes
          /\ Backed(user, since) /\ AnswerIsWhole(syncs[s])
        BY <1>1, SyncFields DEF UserSyncInv, UserSyncTyped, PublishNotes, NoSync, SyncIsBacked
    <1>3. /\ local' = local \cup (given \ refused) /\ excused' = excused \cup refused
          /\ UNCHANGED <<syncState, dated>>
        BY <1>1 DEF PublishNotes
    <1>4. \A n \in Notes : AuthorOf[n] = user /\ dated[n] # NotWritten => n \in local' \cup excused'
        BY <1>1, <1>2, <1>3 DEF Backed, AnswerIsWhole, UserSyncInv, UserSyncTyped, NotWritten
    <1>5. local \subseteq local' /\ excused \subseteq excused' /\ Second \in Nat
        BY <1>3 DEF UserSyncInv, UserSyncTyped, Second
    <1>6. ASSUME NEW target \in Nat, SetsCursor(s, target) PROVE UserSyncInv'
        BY <1>1, <1>2, <1>3, <1>4, <1>5, <1>6, SetsCursorInv
    <1>7. CASE EndSync(s) /\ UNCHANGED reached
        BY <1>3, <1>5, <1>7, KnownIsOnward, EndSyncInv DEF UserSyncInv, UserSyncTyped
    <1>8. CASE \E note \in given : IsLatest(note, given) /\ SetsCursor(s, dated[note])
        <2>1. PICK note \in given : SetsCursor(s, dated[note])
            BY <1>8
        <2>2. dated[note] \in Nat
            BY <1>2 DEF UserSyncInv, UserSyncTyped
        <2>3. QED BY <1>6, <2>1, <2>2
    <1>9. QED BY <1>1, <1>5, <1>6, <1>7, <1>8 DEF PublishNotes

\* A crash ends the syncs and leaves the file, torn or not.
LEMMA ServerStopsInv ==
    ASSUME UserSyncInv, ServerStops, UNCHANGED now
    PROVE  UserSyncInv'
    <1>1. UNCHANGED <<syncState, dated, local, reached, excused>> /\ syncs' = [s \in Syncs |-> NoSync]
        BY DEF ServerStops
    <1>2. Onward /\ FileIsBacked'
        BY <1>1, KnownIsOnward, FileStays
    <1>3. UserSyncTyped'
        BY <1>1 DEF UserSyncInv, UserSyncTyped
    <1>4. \A s \in Syncs : SyncIsBacked(syncs[s])'
        BY <1>1 DEF SyncIsBacked, NoSync
    <1>5. QED BY <1>2, <1>3, <1>4 DEF UserSyncInv

LEMMA UserSyncNextInv ==
    ASSUME UserSyncInv, UserSyncNext \/ UNCHANGED userSyncVars, now' \in Nat
    PROVE  UserSyncInv'
    <1>1. CASE UNCHANGED userSyncVars
        <2>1. UNCHANGED <<syncState, dated, local, syncs, reached, excused>>
            BY <1>1 DEF userSyncVars
        <2>2. Onward /\ UserSyncTyped'
            BY <2>1 DEF UserSyncInv, UserSyncTyped, Onward
        <2>3. FileIsBacked'
            BY <2>1, <2>2, FileStays
        <2>4. \A s \in Syncs : SyncIsBacked(syncs[s])'
            BY <2>1 DEF UserSyncInv, SyncIsBacked, AllBacked, AnswerIsWhole, Backed
        <2>5. QED BY <2>2, <2>3, <2>4 DEF UserSyncInv
    <1>2. CASE UserSyncNext /\ UNCHANGED now
        <2>1. CASE \E n \in Notes, date \in NoteDates : WriteNote(n, date)
            BY <1>2, <2>1, WriteNoteInv
        <2>2. CASE ServerStops
            BY <1>2, <2>2, ServerStopsInv
        <2>3. ASSUME NEW s \in Syncs, QueryFails(s) \/ SyncFails(s) PROVE UserSyncInv'
            <3>1. EndSync(s) /\ UNCHANGED <<syncState, dated, local, reached, excused>>
                BY <2>3 DEF QueryFails, SyncFails
            <3>2. QED BY <1>2, <3>1, KnownIsOnward, EndSyncInv
        <2>4. ASSUME NEW s \in Syncs,
                     \/ \E u \in Users : UserLogin(s, u)
                     \/ ReadSyncState(s) \/ WriteBegins(s) \/ WriteEnds(s)
                     \/ \E notes \in SUBSET Notes : NotesGiven(s, notes) \/ PublishNotes(s, notes)
              PROVE  UserSyncInv'
            BY <1>2, <2>4, UserLoginInv, ReadSyncStateInv, WriteBeginsInv, WriteEndsInv,
               NotesGivenInv, PublishNotesInv
        <2>5. CASE UNCHANGED userSyncVars
            BY <1>1, <2>5
        <2>6. QED BY <1>2, <2>1, <2>2, <2>3, <2>4, <2>5 DEF UserSyncNext
    <1>3. QED BY <1>1, <1>2 DEF UserSyncNext

LEMMA ClockTicks ==
    ASSUME now \in Nat, Next \/ UNCHANGED platformVars
    PROVE  now' \in Nat /\ now <= now'
    <1>1. CASE \E asked : AuthNext(asked)
        BY <1>1 DEF AuthNext, AuthTick, TickClock
    <1>2. CASE KeysNext(KeyEnds) \/ LimiterNext \/ UserSyncNext
        BY <1>2 DEF KeysNext, LimiterNext, UserSyncNext, TickClock
    <1>3. CASE VerificationNext
        <2>1. CASE VerificationTick
            BY <2>1 DEF VerificationTick, TickClock
        <2>2. ASSUME NEW a \in Addresses, NEW key, DomainChanges(a, key) PROVE now' = now
            BY <2>2 DEF DomainChanges
        <2>3. ASSUME NEW a \in Addresses, NEW key, VerifyCached(a, key) PROVE now' = now
            BY <2>3 DEF VerifyCached
        <2>4. ASSUME NEW c \in Checks, NEW a \in Addresses, NEW key, VerifyAsks(c, a, key)
              PROVE  now' = now
            BY <2>4 DEF VerifyAsks
        <2>5. ASSUME NEW c \in Checks, DomainAnswers(c) \/ AnswerArrives(c) \/ FetchFails(c)
              PROVE  now' = now
            BY <2>5 DEF DomainAnswers, AnswerArrives, FetchFails, Stores
        <2>6. QED BY <1>3, <2>1, <2>2, <2>3, <2>4, <2>5 DEF VerificationNext
    <1>4. QED BY <1>1, <1>2, <1>3 DEF Next, platformVars

\* (deltaSyncUserNotes) For any users, notes and dates, overlapping syncs, torn files and
\* crashes: no cursor passes a note that is neither copied nor excused, as one is whose date
\* was reached before it was published.
THEOREM CursorsPassNothing == Spec => []CursorCoversLocal
    <1>1. Init => UserSyncInv
        BY UserSyncInitInv
    <1>2. UserSyncInv /\ [Next]_platformVars => UserSyncInv'
        <2> SUFFICES ASSUME UserSyncInv, Next \/ UNCHANGED platformVars PROVE UserSyncInv'
            OBVIOUS
        <2>1. now' \in Nat
            BY ClockTicks DEF UserSyncInv, UserSyncTyped
        <2>2. UserSyncNext \/ UNCHANGED userSyncVars
            BY DEF Next, platformVars
        <2>3. QED BY <2>1, <2>2, UserSyncNextInv
    <1>3. UserSyncInv => CursorCoversLocal
        BY UserSyncAssumption DEF UserSyncInv, FileIsBacked, AllBacked, Backed, CursorCoversLocal
    <1>4. QED BY <1>1, <1>2, <1>3, PTL DEF Spec

(***************************************************************************)
(* The relays that users' events name                                      *)
(***************************************************************************)

CountedEntry ==
    {e \in [users : SUBSET Namers, writers : SUBSET Namers, seenInUsers : Nat, seenInWrites : Nat] :
        /\ e.seenInUsers = Cardinality(e.users) /\ e.seenInWrites = Cardinality(e.writers)
        /\ e.writers \subseteq e.users}
RelayMaps == UNION {[known -> CountedEntry] : known \in SUBSET Urls}
Taken == [at : {"open", "write"}, payload : RelayMaps, alone : BOOLEAN]
PersistRecord == {NoPersist} \cup [at : {"mkdir"}] \cup Taken

RegistryTyped ==
    /\ registry \in RelayMaps
    /\ saved \in [readable : BOOLEAN, relays : RelayMaps]
    /\ persists \in [Persists -> PersistRecord]
    /\ spoilt \in BOOLEAN

\* What was once known stays known.
OnceKnown(relays) ==
    \A url \in DOMAIN relays :
        url \in DOMAIN registry /\ relays[url].users \subseteq registry[url].users

PayloadIsKnown(persist) == persist.at \in {"open", "write"} => OnceKnown(persist.payload)

Alone(p) == persists[p].at \in {"open", "write"} /\ persists[p].alone
NoneWaits == \A p \in Persists : persists[p].at # "mkdir"

\* A persist that is alone is the only one that writes; it has torn the file; and if no
\* other one waits for its turn, it writes every relay.
AloneWritesAll ==
    \A p \in Persists : Alone(p) =>
        /\ \A q \in Writing : q = p
        /\ persists[p].at = "write" => saved = Torn
        /\ NoneWaits => DOMAIN persists[p].payload = DOMAIN registry

SavedIsWhole ==
    (\A p \in Persists : persists[p] = NoPersist) /\ ~spoilt =>
        saved.readable /\ DOMAIN saved.relays = DOMAIN registry

RegistryInv ==
    /\ RegistryTyped
    /\ OnceKnown(saved.relays)
    /\ \A p \in Persists : PayloadIsKnown(persists[p])
    /\ AloneWritesAll
    /\ SavedIsWhole

LEMMA PersistFields ==
    ASSUME NEW persist \in PersistRecord
    PROVE  /\ persist.at \in {"none", "mkdir", "open", "write"}
           /\ persist.at = "none" <=> persist = NoPersist
           /\ persist.at \in {"open", "write"} <=> persist \in Taken
           /\ persist.at \in {"open", "write"} =>
                 persist.payload \in RelayMaps /\ persist.alone \in BOOLEAN
    BY DEF PersistRecord, NoPersist, Taken

LEMMA EmptyMapIsKnown ==
    /\ EmptyMap \in RelayMaps /\ DOMAIN EmptyMap = {}
    /\ Torn \in [readable : BOOLEAN, relays : RelayMaps] /\ DOMAIN Torn.relays = {}
    <1>1. DOMAIN EmptyMap = {} /\ EmptyMap \in [{} -> CountedEntry]
        BY DEF EmptyMap
    <1>2. EmptyMap \in RelayMaps
        BY <1>1 DEF RelayMaps
    <1>3. QED BY <1>1, <1>2 DEF Torn

LEMMA RegistryInitInv == Init => RegistryInv
    <1> SUFFICES ASSUME Init PROVE RegistryInv
        OBVIOUS
    <1>1. RegistryTyped
        BY EmptyMapIsKnown DEF Init, RegistryInit, RegistryTyped, Readable, PersistRecord
    <1>2. OnceKnown(saved.relays) /\ SavedIsWhole
        BY EmptyMapIsKnown DEF Init, RegistryInit, OnceKnown, SavedIsWhole, Readable
    <1>3. (\A p \in Persists : PayloadIsKnown(persists[p])) /\ AloneWritesAll
        BY DEF Init, RegistryInit, PayloadIsKnown, AloneWritesAll, Alone, NoPersist
    <1>4. QED BY <1>1, <1>2, <1>3 DEF RegistryInv

\* The events add users, and count them.
LEMMA NamingGrows ==
    ASSUME registry \in RelayMaps, NEW user \in Namers, NEW urls \in SUBSET Urls,
           NEW written \in SUBSET Urls
    PROVE  /\ Naming(urls, user, written) \in RelayMaps
           /\ DOMAIN Naming(urls, user, written) = DOMAIN registry \cup urls
           /\ \A url \in DOMAIN registry :
                 registry[url].users \subseteq Naming(urls, user, written)[url].users
    <1>1. PICK known \in SUBSET Urls : registry \in [known -> CountedEntry]
        BY DEF RelayMaps
    <1>2. \A named \in SUBSET Namers : IsFiniteSet(named) /\ Cardinality(named) \in Nat
        BY RelayDiscoveryAssumption, FS_Subset, FS_CardinalityType
    <1>3. ASSUME NEW entry, entry.users \in SUBSET Namers, entry.writers \in SUBSET entry.users,
                 NEW writes \in BOOLEAN
          PROVE  Named(entry, user, writes) \in CountedEntry
                 /\ entry.users \subseteq Named(entry, user, writes).users
        BY <1>2, <1>3 DEF Named, CountedEntry
    <1>4. \A url : Entry(url).users \in SUBSET Namers
                   /\ Entry(url).writers \in SUBSET Entry(url).users
        BY <1>1 DEF Entry, Unseen, CountedEntry
    <1>5. \A url : (url \in written) \in BOOLEAN
        OBVIOUS
    <1>6. \A url \in urls : Named(Entry(url), user, url \in written) \in CountedEntry
                            /\ Entry(url).users \subseteq Named(Entry(url), user, url \in written).users
        BY <1>3, <1>4, <1>5
    <1>7. DOMAIN registry = known
        BY <1>1
    <1>8. Naming(urls, user, written) \in [known \cup urls -> CountedEntry]
        BY <1>1, <1>6, <1>7 DEF Naming
    <1>9. \A url \in known : registry[url].users \subseteq Naming(urls, user, written)[url].users
        BY <1>6, <1>7 DEF Naming, Entry
    <1>10. known \cup urls \in SUBSET Urls
        OBVIOUS
    <1>11. QED BY <1>7, <1>8, <1>9, <1>10 DEF RelayMaps

LEMMA OnceKnownStays ==
    ASSUME \A url \in DOMAIN registry :
              url \in DOMAIN registry' /\ registry[url].users \subseteq registry'[url].users,
           NEW relays, OnceKnown(relays)
    PROVE  OnceKnown(relays)'
    BY DEF OnceKnown

\* Events that name something new leave a persist behind that waits for its turn.
LEMMA NamedInv ==
    ASSUME RegistryInv, NEW p \in Persists, NEW user \in Namers, NEW urls \in SUBSET Urls,
           NEW written \in SUBSET Urls, persists[p] = NoPersist,
           registry' = Naming(urls, user, written), UNCHANGED <<saved, spoilt>>,
           \/ PersistStarts(p)
           \/ UNCHANGED persists /\ urls \subseteq DOMAIN registry
    PROVE  RegistryInv'
    <1>1. /\ registry' \in RelayMaps /\ DOMAIN registry' = DOMAIN registry \cup urls
          /\ \A url \in DOMAIN registry :
                url \in DOMAIN registry' /\ registry[url].users \subseteq registry'[url].users
        <2>1. PICK next : next = Naming(urls, user, written)
            OBVIOUS
        <2>2. /\ next \in RelayMaps /\ DOMAIN next = DOMAIN registry \cup urls
              /\ \A url \in DOMAIN registry : registry[url].users \subseteq next[url].users
            BY <2>1, NamingGrows DEF RegistryInv, RegistryTyped
        <2>3. QED BY <2>1, <2>2
    <1>2. /\ persists \in [Persists -> PersistRecord]
          /\ \A q \in Persists :
                \/ persists'[q] = persists[q]
                \/ q = p /\ persists'[q] = [at |-> "mkdir"] /\ PersistStarts(p)
        <2>1. persists \in [Persists -> PersistRecord]
            BY DEF RegistryInv, RegistryTyped
        <2>2. CASE UNCHANGED persists
            BY <2>1, <2>2
        <2>3. CASE PersistStarts(p)
            BY <2>1, <2>3 DEF PersistStarts
        <2>4. QED BY <2>1, <2>2, <2>3
    <1>3. RegistryTyped'
        BY <1>1, <1>2 DEF RegistryInv, RegistryTyped, PersistStarts, PersistRecord
    <1>4. OnceKnown(saved.relays)'
        <2>1. PICK relays : relays = saved.relays
            OBVIOUS
        <2>2. OnceKnown(relays)' /\ saved'.relays = relays
            BY <1>1, <2>1, OnceKnownStays DEF RegistryInv
        <2>3. QED BY <2>2
    <1>5. \A q \in Persists : PayloadIsKnown(persists[q])'
        <2> TAKE q \in Persists
        <2>1. CASE persists'[q] = persists[q] /\ persists[q].at \in {"open", "write"}
            <3>1. PICK payload : payload = persists[q].payload
                OBVIOUS
            <3>2. OnceKnown(payload)' /\ persists'[q].payload = payload
                BY <1>1, <2>1, <3>1, OnceKnownStays DEF RegistryInv, PayloadIsKnown
            <3>3. QED BY <3>2 DEF PayloadIsKnown
        <2>2. CASE persists'[q] = [at |-> "mkdir"]
            BY <2>2 DEF PayloadIsKnown
        <2>3. QED BY <1>2, <2>1, <2>2 DEF PayloadIsKnown
    <1>6. AloneWritesAll'
        <2> SUFFICES ASSUME NEW q \in Persists, Alone(q)'
                     PROVE  /\ \A r \in Writing' : r = q
                            /\ persists'[q].at = "write" => saved' = Torn
                            /\ NoneWaits' => DOMAIN persists'[q].payload = DOMAIN registry'
            BY DEF AloneWritesAll
        <2>1. persists'[q] = persists[q] /\ Alone(q) /\ Writing' = Writing
            BY <1>2 DEF Alone, NoPersist, Writing
        <2>2. NoneWaits' => NoneWaits /\ registry' \in RelayMaps /\ DOMAIN registry' = DOMAIN registry
            <3>1. ASSUME NoneWaits' PROVE UNCHANGED persists /\ urls \subseteq DOMAIN registry
                BY <3>1, <1>2 DEF NoneWaits, PersistStarts
            <3>2. QED BY <1>1, <3>1 DEF NoneWaits
        <2>3. QED BY <2>1, <2>2 DEF RegistryInv, AloneWritesAll
    <1>7. SavedIsWhole'
        <2> SUFFICES ASSUME \A q \in Persists : persists'[q] = NoPersist, ~spoilt'
                     PROVE  saved'.readable /\ DOMAIN saved'.relays = DOMAIN registry'
            BY DEF SavedIsWhole, NoPersist
        <2>1. UNCHANGED persists /\ DOMAIN registry' = DOMAIN registry
            BY <1>1, <1>2 DEF NoPersist, PersistStarts
        <2>2. QED BY <2>1 DEF RegistryInv, SavedIsWhole
    <1>8. QED BY <1>3, <1>4, <1>5, <1>6, <1>7 DEF RegistryInv

\* A step that leaves the registry as it is.
LEMMA PersistMoves ==
    ASSUME RegistryInv, UNCHANGED registry, RegistryTyped', OnceKnown(saved.relays)',
           \A q \in Persists :
              \/ persists'[q] = persists[q]
              \/ persists'[q].at \notin {"open", "write"}
              \/ persists'[q].payload = persists[q].payload /\ persists[q].at \in {"open", "write"}
              \/ persists'[q].payload = registry,
           AloneWritesAll', SavedIsWhole'
    PROVE  RegistryInv'
    <1>1. OnceKnown(registry)
        BY DEF OnceKnown
    <1>2. \A q \in Persists : PayloadIsKnown(persists[q])'
        BY <1>1 DEF RegistryInv, PayloadIsKnown, OnceKnown
    <1>3. QED BY <1>2 DEF RegistryInv

LEMMA ProbeInv ==
    ASSUME RegistryInv, NEW p \in Persists, ProbeAllRelays(p)
    PROVE  RegistryInv'
    <1>1. /\ persists \in [Persists -> PersistRecord] /\ persists[p] = NoPersist
          /\ persists' = [persists EXCEPT ![p] = [at |-> "mkdir"]]
          /\ UNCHANGED <<registry, saved, spoilt>>
        BY DEF RegistryInv, RegistryTyped, ProbeAllRelays, PersistStarts
    <1>2. RegistryTyped' /\ OnceKnown(saved.relays)'
        BY <1>1 DEF RegistryInv, RegistryTyped, PersistRecord, OnceKnown
    <1>3. ~NoneWaits' /\ SavedIsWhole'
        BY <1>1 DEF NoneWaits, SavedIsWhole, NoPersist
    <1>4. Writing' = Writing /\ \A q \in Persists : Alone(q)' => Alone(q) /\ persists'[q] = persists[q]
        BY <1>1 DEF Writing, Alone, NoPersist
    <1>5. AloneWritesAll'
        BY <1>1, <1>3, <1>4 DEF RegistryInv, AloneWritesAll
    <1>6. QED BY <1>1, <1>2, <1>3, <1>5, PersistMoves

LEMMA MetFacts ==
    ASSUME RegistryTyped, NEW p \in Persists, NEW persist \in PersistRecord,
           persists' = Met(p, persist)
    PROVE  /\ persists' \in [Persists -> PersistRecord] /\ persists'[p] = persist
           /\ \A q \in Persists \ {p} :
                 /\ persists'[q].at = persists[q].at /\ ~Alone(q)'
                 /\ q \notin Writing => persists'[q] = persists[q]
                 /\ q \in Writing => persists'[q].payload = persists[q].payload
    <1>1. persists'[p] = persist
        BY DEF Met
    <1>2. ASSUME NEW q \in Persists \ {p}
          PROVE  /\ persists'[q] \in PersistRecord
                 /\ persists'[q].at = persists[q].at /\ ~Alone(q)'
                 /\ q \notin Writing => persists'[q] = persists[q]
                 /\ q \in Writing => persists'[q].payload = persists[q].payload
        <2>1. CASE q \in Writing
            <3>1. persists[q] \in Taken /\ persists'[q] = [persists[q] EXCEPT !.alone = FALSE]
                BY <2>1, PersistFields DEF RegistryTyped, Writing, Met
            <3>2. QED BY <2>1, <3>1 DEF Taken, PersistRecord, Alone
        <2>2. CASE q \notin Writing
            <3>1. persists'[q] = persists[q] /\ persists[q].at \notin {"open", "write"}
                BY <2>2 DEF Met, Writing
            <3>2. QED BY <2>2, <3>1 DEF RegistryTyped, Alone
        <2>3. QED BY <2>1, <2>2
    <1>3. persists' = [q \in Persists |-> persists'[q]]
        BY DEF Met
    <1>4. QED BY <1>1, <1>2, <1>3

LEMMA TakePayloadInv ==
    ASSUME RegistryInv, NEW p \in Persists, TakePayload(p)
    PROVE  RegistryInv'
    <1>1. PICK next : next = [at |-> "open", payload |-> registry, alone |-> Writing = {}]
        OBVIOUS
    <1>2. /\ persists' = Met(p, next) /\ UNCHANGED <<registry, saved, spoilt>> /\ p \notin Writing
          /\ RegistryTyped
        BY <1>1 DEF TakePayload, RegistryInv, Writing
    <1>3. (Writing = {}) \in BOOLEAN
        OBVIOUS
    <1>4. next \in PersistRecord
        BY <1>1, <1>2, <1>3 DEF RegistryTyped, PersistRecord, Taken
    <1>5. /\ persists' \in [Persists -> PersistRecord] /\ persists'[p] = next
          /\ \A q \in Persists \ {p} :
                /\ persists'[q].at = persists[q].at /\ ~Alone(q)'
                /\ q \notin Writing => persists'[q] = persists[q]
                /\ q \in Writing => persists'[q].payload = persists[q].payload
        BY <1>2, <1>4, MetFacts
    <1>6. RegistryTyped' /\ OnceKnown(saved.relays)'
        BY <1>2, <1>5 DEF RegistryInv, RegistryTyped, OnceKnown
    <1>7. SavedIsWhole'
        BY <1>1, <1>5 DEF SavedIsWhole, NoPersist
    <1>8. AloneWritesAll'
        <2>1. ASSUME NEW q \in Persists, Alone(q)'
              PROVE  q = p /\ Writing = {}
            <3>1. q = p
                BY <1>5, <2>1
            <3>2. next.alone
                BY <1>5, <2>1, <3>1 DEF Alone
            <3>3. QED BY <1>1, <3>1, <3>2
        <2>2. Writing = {} => \A q \in Writing' : q = p
            BY <1>5 DEF Writing
        <2>3. persists'[p].at = "open" /\ persists'[p].payload = registry'
            BY <1>1, <1>2, <1>5
        <2>4. QED BY <2>1, <2>2, <2>3 DEF AloneWritesAll
    <1>9. QED BY <1>1, <1>2, <1>5, <1>6, <1>7, <1>8, PersistMoves DEF Writing

LEMMA OpenFileInv ==
    ASSUME RegistryInv, NEW p \in Persists, OpenFile(p)
    PROVE  RegistryInv'
    <1>1. persists[p] \in Taken /\ p \in Writing
        BY PersistFields DEF OpenFile, RegistryInv, RegistryTyped, Writing
    <1>2. /\ persists \in [Persists -> PersistRecord]
          /\ persists' = [persists EXCEPT ![p] = [persists[p] EXCEPT !.at = "write"]]
          /\ saved' = Torn /\ UNCHANGED <<registry, spoilt>>
        BY DEF OpenFile, RegistryInv, RegistryTyped
    <1>3. /\ persists'[p] \in Taken /\ persists'[p].at = "write"
          /\ persists'[p].payload = persists[p].payload /\ persists'[p].alone = persists[p].alone
          /\ \A q \in Persists \ {p} : persists'[q] = persists[q]
        BY <1>1, <1>2 DEF Taken
    <1>4. RegistryTyped' /\ OnceKnown(saved.relays)'
        BY <1>2, <1>3, EmptyMapIsKnown DEF RegistryInv, RegistryTyped, OnceKnown, PersistRecord
    <1>5. SavedIsWhole'
        BY <1>3 DEF SavedIsWhole, NoPersist
    <1>6. /\ Writing' = Writing /\ NoneWaits' = NoneWaits
          /\ \A q \in Persists : Alone(q)' = Alone(q) /\ persists'[q].payload = persists[q].payload
        BY <1>1, <1>3 DEF Writing, NoneWaits, Alone, Taken
    <1>7. AloneWritesAll'
        BY <1>1, <1>2, <1>6 DEF RegistryInv, AloneWritesAll
    <1>8. QED BY <1>1, <1>2, <1>3, <1>4, <1>5, <1>7, PersistMoves DEF Writing

LEMMA PersistFailsInv ==
    ASSUME RegistryInv, NEW p \in Persists, PersistFails(p)
    PROVE  RegistryInv'
    <1>1. /\ persists' = Met(p, NoPersist) /\ spoilt' = TRUE /\ UNCHANGED <<registry, saved>>
          /\ RegistryTyped /\ NoPersist \in PersistRecord
        BY DEF PersistFails, RegistryInv, PersistRecord
    <1>2. /\ persists' \in [Persists -> PersistRecord] /\ persists'[p] = NoPersist
          /\ \A q \in Persists \ {p} :
                /\ persists'[q].at = persists[q].at /\ ~Alone(q)'
                /\ q \notin Writing => persists'[q] = persists[q]
                /\ q \in Writing => persists'[q].payload = persists[q].payload
        BY <1>1, MetFacts
    <1>3. RegistryTyped' /\ OnceKnown(saved.relays)' /\ SavedIsWhole'
        BY <1>1, <1>2 DEF RegistryInv, RegistryTyped, OnceKnown, SavedIsWhole
    <1>4. AloneWritesAll'
        BY <1>2 DEF AloneWritesAll, Alone, NoPersist
    <1>5. QED BY <1>1, <1>2, <1>3, <1>4, PersistMoves DEF Writing, NoPersist

LEMMA WriteFileInv ==
    ASSUME RegistryInv, NEW p \in Persists, WriteFile(p)
    PROVE  RegistryInv'
    <1>1. PICK payload : payload = persists[p].payload
        OBVIOUS
    <1>2. /\ persists[p] \in Taken /\ p \in Writing /\ persists[p].at = "write"
          /\ payload \in RelayMaps /\ OnceKnown(payload)
        BY <1>1, PersistFields
           DEF WriteFile, RegistryInv, RegistryTyped, Writing, PayloadIsKnown
    <1>3. /\ persists \in [Persists -> PersistRecord]
          /\ persists' = [persists EXCEPT ![p] = NoPersist]
          /\ saved' \in {Readable(payload), Torn}
          /\ saved = Torn => saved' = Readable(payload)
          /\ spoilt' = ~persists[p].alone /\ UNCHANGED registry
        BY <1>1 DEF WriteFile, RegistryInv, RegistryTyped
    <1>4. persists'[p] = NoPersist /\ \A q \in Persists \ {p} : persists'[q] = persists[q]
        BY <1>3
    <1>5. RegistryTyped'
        <2>1. saved' \in [readable : BOOLEAN, relays : RelayMaps]
            <3>1. Readable(payload) \in [readable : BOOLEAN, relays : RelayMaps]
                BY <1>2 DEF Readable
            <3>2. QED BY <1>3, <3>1, EmptyMapIsKnown
        <2>2. persists' \in [Persists -> PersistRecord]
            BY <1>3 DEF PersistRecord
        <2>3. spoilt' \in BOOLEAN
            BY <1>3
        <2>4. QED BY <1>3, <2>1, <2>2, <2>3 DEF RegistryInv, RegistryTyped
    <1>6. OnceKnown(saved.relays)'
        BY <1>2, <1>3, EmptyMapIsKnown DEF OnceKnown, Readable
    <1>7. AloneWritesAll'
        <2> SUFFICES ASSUME NEW q \in Persists, Alone(q)' PROVE FALSE
            BY DEF AloneWritesAll
        <2>1. q # p /\ Alone(q)
            BY <1>4 DEF Alone, NoPersist
        <2>2. QED BY <1>2, <2>1 DEF RegistryInv, AloneWritesAll
    <1>8. SavedIsWhole'
        <2> SUFFICES ASSUME \A q \in Persists : persists'[q] = NoPersist, ~spoilt'
                     PROVE  saved'.readable /\ DOMAIN saved'.relays = DOMAIN registry'
            BY DEF SavedIsWhole, NoPersist
        <2>1. Alone(p) /\ NoneWaits
            <3>1. persists[p].alone \in BOOLEAN
                BY <1>2 DEF Taken
            <3>2. Alone(p)
                BY <1>2, <1>3, <3>1 DEF Alone
            <3>3. NoneWaits
                BY <1>2, <1>4 DEF NoneWaits, NoPersist
            <3>4. QED BY <3>2, <3>3
        <2>2. saved = Torn /\ DOMAIN payload = DOMAIN registry
            BY <1>1, <1>2, <2>1 DEF RegistryInv, AloneWritesAll
        <2>3. QED BY <1>3, <2>2 DEF Readable
    <1>9. QED BY <1>3, <1>4, <1>5, <1>6, <1>7, <1>8, PersistMoves DEF NoPersist

\* A crash forgets what was not written, and what was torn.
LEMMA CrashAndLoadInv ==
    ASSUME RegistryInv, CrashAndLoad
    PROVE  RegistryInv'
    <1>1. /\ registry' = saved.relays /\ saved' = Readable(saved.relays)
          /\ persists' = [p \in Persists |-> NoPersist] /\ spoilt' = FALSE
        BY DEF CrashAndLoad
    <1>2. RegistryTyped'
        BY <1>1 DEF RegistryInv, RegistryTyped, Readable, PersistRecord
    <1>3. OnceKnown(saved.relays)' /\ SavedIsWhole'
        BY <1>1 DEF OnceKnown, SavedIsWhole, Readable
    <1>4. (\A p \in Persists : PayloadIsKnown(persists[p])') /\ AloneWritesAll'
        BY <1>1 DEF PayloadIsKnown, AloneWritesAll, Alone, NoPersist
    <1>5. QED BY <1>2, <1>3, <1>4 DEF RegistryInv

LEMMA RegistryNextInv == RegistryInv /\ [RegistryNext]_registryVars => RegistryInv'
    <1> SUFFICES ASSUME RegistryInv, RegistryNext \/ UNCHANGED registryVars PROVE RegistryInv'
        OBVIOUS
    <1>1. CASE UNCHANGED registryVars
        BY <1>1 DEF registryVars, RegistryInv, RegistryTyped, OnceKnown, PayloadIsKnown,
                    AloneWritesAll, Alone, NoneWaits, Writing, SavedIsWhole
    <1>2. ASSUME NEW p \in Persists, NEW user \in Namers, NEW urls \in SUBSET Urls,
                 \/ \E written \in SUBSET urls : ProcessRelayList(p, user, urls, written)
                 \/ ProcessMentions(p, user, urls)
          PROVE  RegistryInv'
        <2>1. CASE \E written \in SUBSET urls : ProcessRelayList(p, user, urls, written)
            <3>1. PICK written \in SUBSET urls : ProcessRelayList(p, user, urls, written)
                BY <2>1
            <3>2. written \in SUBSET Urls
                OBVIOUS
            <3>3. QED BY <3>1, <3>2, NamedInv DEF ProcessRelayList
        <2>2. CASE ProcessMentions(p, user, urls)
            <3>1. PICK none \in SUBSET Urls : none = {}
                OBVIOUS
            <3>2. registry' = Naming(urls, user, none)
                BY <2>2, <3>1 DEF ProcessMentions
            <3>3. PersistStarts(p) \/ (UNCHANGED persists /\ urls \subseteq DOMAIN registry)
                BY <2>2 DEF ProcessMentions
            <3>4. persists[p] = NoPersist /\ UNCHANGED <<saved, spoilt>>
                BY <2>2 DEF ProcessMentions
            <3>5. QED BY <3>2, <3>3, <3>4, NamedInv
        <2>3. QED BY <1>2, <2>1, <2>2
    <1>3. QED
        BY <1>1, <1>2, CrashAndLoadInv, ProbeInv, TakePayloadInv, OpenFileInv, WriteFileInv,
           PersistFailsInv DEF RegistryNext

\* For any relays, users, overlapping persists and crashes: the counts are the users; the
\* file holds nothing that was not known; and between persists it holds every relay, unless
\* the last persist failed or met another one.
THEOREM NamedRelaysAreKept == Spec => []RegistryIsKept
    <1>1. Init => RegistryInv
        BY RegistryInitInv
    <1>2. RegistryInv /\ [Next]_platformVars => RegistryInv'
        BY RegistryNextInv DEF Next, platformVars
    <1>3. RegistryInv => RegistryIsKept
        <2>1. registry \in RelayMaps => \A url \in DOMAIN registry : registry[url] \in CountedEntry
            BY DEF RelayMaps
        <2>2. QED
            BY <2>1 DEF RegistryInv, RegistryTyped, OnceKnown, SavedIsWhole, RegistryIsKept,
                        CountedEntry
    <1>4. QED BY <1>1, <1>2, <1>3, PTL DEF Spec

(***************************************************************************)
(* The queue of users to copy                                              *)
(***************************************************************************)

QueueRow == [status : {"pending", "syncing", "complete", "error"}, source : Sources]

QueueTyped ==
    /\ MapOf(queue, Pubkeys, QueueRow)
    /\ paused \in BOOLEAN /\ full \in BOOLEAN /\ faults \in 0..MaxFaults
    /\ left \subseteq DOMAIN queue /\ unserved \subseteq DOMAIN queue

\* Users of a batch have a row, and those that the loop queues are users.
LoopTyped ==
    /\ loop.at \in {"none", "asleep", "down", "boot", "select", "mark", "fetch", "queue",
                    "finish", "fail"}
    /\ loop.at = "boot" => loop \in [at : {"boot"}, todo : SUBSET Pubkeys]
    /\ loop.at = "queue" =>
          loop \in [at : {"queue"}, todo : SUBSET (Pubkeys \X Sources), batch : Seq(Pubkeys)]
    /\ loop.at \in {"mark", "fetch", "queue", "finish", "fail"} =>
          /\ loop.batch \in Seq(Pubkeys) /\ Len(loop.batch) <= BatchSize
          /\ \A i \in 1..Len(loop.batch) : loop.batch[i] \in DOMAIN queue
    /\ loop.at \in {"fetch", "finish", "fail"} => loop.batch # <<>>

\* What is asked for during the sync of a user is served by that sync.
QueueInv ==
    /\ QueueTyped /\ LoopTyped
    /\ InWorkIsCurrent /\ AskedIsServed
    /\ Current \cap unserved = {}

LEMMA QueueInitInv == Init => QueueInv
    <1> SUFFICES ASSUME SyncInit PROVE QueueInv
        BY DEF Init
    <1>0. QueueTyped
        <2>1. DOMAIN queue = {} /\ left = {} /\ unserved = {} /\ faults = 0
            BY DEF SyncInit, EmptyMap
        <2>2. MapOf(queue, Pubkeys, QueueRow)
            BY <2>1 DEF MapOf
        <2>3. left \subseteq DOMAIN queue /\ unserved \subseteq DOMAIN queue
            BY <2>1
        <2>4. paused \in BOOLEAN /\ full \in BOOLEAN
            BY DEF SyncInit
        <2>5. faults \in 0..MaxFaults
            BY <2>1, RelaySyncAssumption
        <2>6. QED BY <2>2, <2>3, <2>4, <2>5 DEF QueueTyped
    <1>1. LoopTyped
        <2>1. loop \in [at : {"boot"}, todo : SUBSET Pubkeys] /\ loop.at = "boot"
            BY RelaySyncAssumption DEF SyncInit, Booting
        <2>2. QED BY <2>1 DEF LoopTyped
    <1>2. InWorkIsCurrent /\ AskedIsServed /\ Current \cap unserved = {}
        BY DEF SyncInit, InWorkIsCurrent, InWork, AskedIsServed, EmptyMap
    <1>3. QED BY <1>0, <1>1, <1>2 DEF QueueInv

\* A user that is queued waits, and nobody else's row changes.
LEMMA EnqueueKeeps ==
    ASSUME QueueTyped, AskedIsServed, NEW u \in Pubkeys, NEW source \in Sources,
           Enqueue(u, source), UNCHANGED <<paused, full, faults>>
    PROVE  /\ QueueTyped' /\ DOMAIN queue \subseteq DOMAIN queue'
           /\ InWork' \subseteq InWork \ {u} /\ left' = left \ {u}
           /\ AskedIsServed'
           /\ unserved' = unserved \cup ({u} \ Current)
    <1> DEFINE row == [status |-> "pending", source |-> source]
    <1>1. row \in QueueRow /\ row.status = "pending"
        BY DEF QueueRow
    <1>2. queue' = Put(queue, u, row) /\ left' = left \ {u}
          /\ unserved' = unserved \cup ({u} \ Current)
        BY DEF Enqueue
    <1> HIDE DEF row
    <1>3. /\ DOMAIN queue' = DOMAIN queue \cup {u} /\ queue'[u] = row
          /\ \A v \in DOMAIN queue \ {u} : queue'[v] = queue[v]
        BY <1>2 DEF Put
    <1>4. QueueTyped'
        BY <1>1, <1>2, <1>3 DEF QueueTyped, MapOf
    <1>5. InWork' \subseteq InWork \ {u}
        BY <1>1, <1>3 DEF InWork
    <1>6. AskedIsServed'
        BY <1>1, <1>2, <1>3 DEF AskedIsServed
    <1>7. QED BY <1>2, <1>3, <1>4, <1>5, <1>6

\* The status of one user who has a row.
LEMMA SetStatusKeeps ==
    ASSUME QueueTyped, NEW u \in DOMAIN queue,
           NEW status \in {"pending", "syncing", "complete", "error"},
           SetStatus(u, status), UNCHANGED <<paused, full>>, faults' \in 0..MaxFaults,
           left' \subseteq left, unserved' \subseteq unserved
    PROVE  /\ QueueTyped' /\ DOMAIN queue' = DOMAIN queue
           /\ queue'[u].status = status
           /\ \A v \in DOMAIN queue \ {u} : queue'[v] = queue[v]
    <1> DEFINE row == [queue[u] EXCEPT !.status = status]
    <1>1. row \in QueueRow /\ row.status = status
        BY DEF QueueTyped, MapOf, QueueRow
    <1>2. queue' = [queue EXCEPT ![u] = row]
        BY DEF SetStatus
    <1> HIDE DEF row
    <1>3. /\ DOMAIN queue' = DOMAIN queue /\ queue'[u] = row
          /\ \A v \in DOMAIN queue \ {u} : queue'[v] = queue[v]
        BY <1>2
    <1>4. QueueTyped'
        BY <1>1, <1>3 DEF QueueTyped, MapOf
    <1>5. QED BY <1>1, <1>3, <1>4

LEMMA HeadOfBatch ==
    ASSUME LoopTyped, loop.at \in {"mark", "fetch", "queue", "finish", "fail"},
           loop.batch # <<>>
    PROVE  /\ Head(loop.batch) \in DOMAIN queue
           /\ Tail(loop.batch) \in Seq(Pubkeys) /\ Len(Tail(loop.batch)) <= BatchSize
           /\ \A i \in 1..Len(Tail(loop.batch)) : Tail(loop.batch)[i] \in DOMAIN queue
    <1>1. PICK batch : batch = loop.batch
        OBVIOUS
    <1>2. /\ batch \in Seq(Pubkeys) /\ batch # <<>> /\ Len(batch) <= BatchSize
          /\ \A i \in 1..Len(batch) : batch[i] \in DOMAIN queue
        BY <1>1 DEF LoopTyped
    <1>3. /\ Len(batch) \in Nat \ {0} /\ Head(batch) = batch[1]
          /\ Tail(batch) \in Seq(Pubkeys) /\ Len(Tail(batch)) = Len(batch) - 1
          /\ \A i \in 1..Len(Tail(batch)) : Tail(batch)[i] = batch[i + 1]
        BY <1>2
    <1>4. Head(batch) \in DOMAIN queue
        BY <1>2, <1>3
    <1>5. Len(Tail(batch)) <= BatchSize
        BY <1>2, <1>3, RelaySyncAssumption
    <1>6. \A i \in 1..Len(Tail(batch)) : Tail(batch)[i] \in DOMAIN queue
        BY <1>2, <1>3
    <1>7. QED BY <1>1, <1>3, <1>4, <1>5, <1>6

LEMMA SeedInv == QueueInv /\ Seed => QueueInv'
    <1> SUFFICES ASSUME QueueInv, Seed PROVE QueueInv'
        OBVIOUS
    <1>1. loop.at = "boot" /\ Current = {}
        BY DEF Seed, Current
    <1>2. CASE loop.todo = {}
        <2>1. /\ loop' \in {Asleep, NoLoop} /\ paused' \in BOOLEAN
              /\ UNCHANGED <<queue, left, unserved, full, faults>>
            BY <1>2, RelaySyncAssumption DEF Seed
        <2>2. QueueTyped' /\ LoopTyped' /\ Current' = {}
            BY <2>1 DEF QueueInv, QueueTyped, LoopTyped, Asleep, NoLoop, Current
        <2>3. InWork' = InWork /\ AskedIsServed'
            BY <2>1 DEF QueueInv, InWork, AskedIsServed
        <2>4. QED BY <1>1, <2>1, <2>2, <2>3 DEF QueueInv, InWorkIsCurrent
    <1>3. CASE loop.todo # {}
        <2>1. PICK u \in loop.todo : /\ Enqueue(u, "seed")
                                     /\ loop' = [loop EXCEPT !.todo = @ \ {u}]
                                     /\ UNCHANGED <<paused, full, faults>>
            BY <1>3 DEF Seed
        <2>2. PICK seed : seed = "seed"
            OBVIOUS
        <2>3. u \in Pubkeys /\ seed \in Sources
            BY <1>1, <2>2 DEF QueueInv, LoopTyped, Sources
        <2>4. Enqueue(u, seed)
            BY <2>1, <2>2
        <2>5. /\ QueueTyped' /\ InWork' \subseteq InWork \ {u} /\ left' = left \ {u}
              /\ AskedIsServed'
            BY <2>1, <2>3, <2>4, EnqueueKeeps DEF QueueInv
        <2>6. loop' \in [at : {"boot"}, todo : SUBSET Pubkeys]
            BY <1>1, <2>1 DEF QueueInv, LoopTyped
        <2>7. loop'.at = "boot"
            BY <2>6
        <2>8. LoopTyped' /\ Current' = {}
            BY <2>6, <2>7 DEF LoopTyped, Current
        <2>9. QED BY <1>1, <2>5, <2>8 DEF QueueInv, InWorkIsCurrent
    <1>4. QED BY <1>2, <1>3

LEMMA QueueNextInvariant == QueueInv /\ QueueNext => QueueInv'
    <1> SUFFICES ASSUME QueueInv, QueueNext PROVE QueueInv'
        OBVIOUS
    <1>1. PICK t \in loop.todo : /\ Enqueue(t[1], t[2])
                                 /\ loop' = [loop EXCEPT !.todo = @ \ {t}]
                                 /\ UNCHANGED <<paused, full, faults>>
        BY DEF QueueNext
    <1>2. /\ loop.at = "queue" /\ LoopTyped
          /\ loop \in [at : {"queue"}, todo : SUBSET (Pubkeys \X Sources), batch : Seq(Pubkeys)]
        BY DEF QueueNext, QueueInv, LoopTyped
    <1>3. PICK u, source : u = t[1] /\ source = t[2]
        OBVIOUS
    <1>4. u \in Pubkeys /\ source \in Sources /\ Enqueue(u, source)
        BY <1>1, <1>2, <1>3
    <1>5. /\ QueueTyped' /\ DOMAIN queue \subseteq DOMAIN queue'
          /\ InWork' \subseteq InWork \ {u} /\ left' = left \ {u} /\ AskedIsServed'
          /\ unserved' = unserved \cup ({u} \ Current)
        BY <1>1, <1>4, EnqueueKeeps DEF QueueInv
    <1>6. /\ loop' \in [at : {"queue"}, todo : SUBSET (Pubkeys \X Sources), batch : Seq(Pubkeys)]
          /\ loop'.at = "queue" /\ loop'.batch = loop.batch
        BY <1>1, <1>2
    <1>7. LoopTyped'
        BY <1>2, <1>5, <1>6 DEF LoopTyped
    <1>8. Current' = Current
        BY <1>2, <1>6 DEF Current
    <1>9. QED BY <1>5, <1>7, <1>8 DEF QueueInv, InWorkIsCurrent

\* The operator queues a user whatever the loop does.
LEMMA AddPubkeyInv == ASSUME QueueInv, NEW u \in Pubkeys, AddPubkey(u) PROVE QueueInv'
    <1>1. PICK source : source = "operator"
        OBVIOUS
    <1>2. Enqueue(u, source) /\ source \in Sources /\ UNCHANGED <<loop, paused, full, faults>>
        BY <1>1 DEF AddPubkey, Sources
    <1>3. /\ QueueTyped' /\ DOMAIN queue \subseteq DOMAIN queue'
          /\ InWork' \subseteq InWork \ {u} /\ left' = left \ {u} /\ AskedIsServed'
          /\ unserved' = unserved \cup ({u} \ Current)
        BY <1>2, EnqueueKeeps DEF QueueInv
    <1>4. LoopTyped' /\ Current' = Current
        BY <1>2, <1>3 DEF QueueInv, LoopTyped, Current
    <1>5. QED BY <1>3, <1>4 DEF QueueInv, InWorkIsCurrent

\* A user's sync begins.
LEMMA MarkInv == ASSUME QueueInv, NEW u \in Pubkeys, Mark(u) PROVE QueueInv'
    <1>1. PICK syncing : syncing = "syncing"
        OBVIOUS
    <1>2. /\ loop.at = "mark" /\ loop.batch # <<>> /\ u = Head(loop.batch)
          /\ SetStatus(u, syncing) /\ syncing \in {"pending", "syncing", "complete", "error"}
          /\ loop' = [at |-> "fetch", batch |-> loop.batch]
          /\ left' = left \ {u} /\ unserved' = unserved \ {u}
          /\ UNCHANGED <<paused, full, faults>>
        BY <1>1 DEF Mark
    <1>3. u \in DOMAIN queue /\ Current = {} /\ faults' \in 0..MaxFaults
        BY <1>2, HeadOfBatch DEF QueueInv, QueueTyped, Current
    <1>4. /\ QueueTyped' /\ DOMAIN queue' = DOMAIN queue /\ queue'[u].status = syncing
          /\ \A v \in DOMAIN queue \ {u} : queue'[v] = queue[v]
        BY <1>2, <1>3, SetStatusKeeps DEF QueueInv
    <1>5. LoopTyped' /\ Current' = {u}
        BY <1>2, <1>4 DEF QueueInv, LoopTyped, Current
    <1>6. InWorkIsCurrent'
        BY <1>2, <1>3, <1>4, <1>5 DEF QueueInv, InWorkIsCurrent, InWork
    <1>7. AskedIsServed'
        BY <1>2, <1>4 DEF QueueInv, AskedIsServed
    <1>8. QED BY <1>2, <1>4, <1>5, <1>6, <1>7 DEF QueueInv

\* A user's sync ends, with or without an error.
LEMMA EndsSyncInv ==
    ASSUME QueueInv, loop.at \in {"finish", "fail"}, NEW status \in {"complete", "error"},
           SetStatus(Head(loop.batch), status), loop' = Rest(loop.batch),
           UNCHANGED <<paused, full, faults, left, unserved>>
    PROVE  QueueInv'
    <1>1. PICK u : u = Head(loop.batch)
        OBVIOUS
    <1>2. loop.batch # <<>> /\ u \in DOMAIN queue /\ Current = {u} /\ faults' \in 0..MaxFaults
        BY <1>1, HeadOfBatch DEF QueueInv, LoopTyped, Current, QueueTyped
    <1>3. /\ QueueTyped' /\ DOMAIN queue' = DOMAIN queue /\ queue'[u].status = status
          /\ \A v \in DOMAIN queue \ {u} : queue'[v] = queue[v]
        BY <1>1, <1>2, SetStatusKeeps DEF QueueInv
    <1>4. LoopTyped' /\ Current' = {}
        BY <1>2, <1>3, HeadOfBatch DEF QueueInv, LoopTyped, Current, Rest
    <1>5. InWorkIsCurrent'
        BY <1>2, <1>3, <1>4 DEF QueueInv, InWorkIsCurrent, InWork
    <1>6. AskedIsServed'
        BY <1>2, <1>3 DEF QueueInv, AskedIsServed
    <1>7. QED BY <1>3, <1>4, <1>5, <1>6 DEF QueueInv

\* The loop goes from one place to another, and no row changes; a sync that is left behind
\* is history.
LEMMA LoopMoves ==
    ASSUME QueueInv, LoopTyped', UNCHANGED <<queue, unserved>>,
           paused' \in BOOLEAN, full' \in BOOLEAN, faults' \in 0..MaxFaults,
           left' \subseteq DOMAIN queue,
           InWork \subseteq Current' \cup left', Current' \subseteq Current
    PROVE  QueueInv'
    <1>1. InWork' = InWork
        BY DEF InWork
    <1>2. QueueTyped' /\ AskedIsServed'
        BY DEF QueueInv, QueueTyped, AskedIsServed
    <1>3. QED BY <1>1, <1>2 DEF QueueInv, InWorkIsCurrent

\* No batch is longer than BatchSize, and every member of it has a row.
LEMMA BatchesAreKnown ==
    ASSUME QueueTyped, NEW batch \in Batches
    PROVE  /\ batch \in Seq(Pubkeys) /\ Len(batch) <= BatchSize
           /\ \A i \in 1..Len(batch) : batch[i] \in DOMAIN queue
    <1> DEFINE size == IF Cardinality(Pending) < BatchSize THEN Cardinality(Pending) ELSE BatchSize
    <1>1. Pending \subseteq DOMAIN queue /\ DOMAIN queue \subseteq Pubkeys
        BY DEF Pending, QueueTyped, MapOf
    <1>2. Cardinality(Pending) \in Nat /\ BatchSize \in Nat
        BY <1>1, FS_Subset, FS_CardinalityType, RelaySyncAssumption
    <1>3. size \in Nat /\ size <= BatchSize
        BY <1>2
    <1>4. batch \in [1..size -> Pending]
        BY DEF Batches, SeqsOf
    <1> HIDE DEF size
    <1>5. batch \in Seq(Pending) /\ Len(batch) = size
        BY <1>3, <1>4
    <1>6. batch \in Seq(Pubkeys)
        BY <1>1, <1>5
    <1>7. \A i \in 1..Len(batch) : batch[i] \in DOMAIN queue
        BY <1>1, <1>4, <1>5
    <1>8. QED BY <1>3, <1>5, <1>6, <1>7

LEMMA SelectInv == QueueInv /\ Select => QueueInv'
    <1> SUFFICES ASSUME QueueInv, Select PROVE QueueInv'
        OBVIOUS
    <1>1. /\ loop.at = "select" /\ Current = {} /\ InWork \subseteq left
          /\ UNCHANGED <<queue, paused, full, faults, left, unserved>>
        BY DEF Select, Current, QueueInv, InWorkIsCurrent
    <1>2. CASE Pending = {}
        <2>1. PICK authors \in SUBSET Pubkeys :
                 loop' = [at |-> "queue", todo |-> {<<u, "trending">> : u \in authors},
                          batch |-> <<>>]
            BY <1>2 DEF Select
        <2>2. PICK todo : todo = {<<u, "trending">> : u \in authors}
            OBVIOUS
        <2>3. todo \subseteq Pubkeys \X Sources
            BY <2>2 DEF Sources
        <2>4. loop' = [at |-> "queue", todo |-> todo, batch |-> <<>>]
            BY <2>1, <2>2
        <2>5. LoopTyped' /\ Current' = {}
            BY <2>3, <2>4, RelaySyncAssumption DEF LoopTyped, Current
        <2>6. QED BY <1>1, <2>5, LoopMoves DEF QueueInv, QueueTyped
    <1>3. CASE Pending # {}
        <2>1. PICK b \in Batches : loop' = [at |-> "mark", batch |-> b]
            BY <1>3 DEF Select
        <2>2. LoopTyped' /\ Current' = {}
            BY <1>1, <2>1, BatchesAreKnown DEF LoopTyped, Current, QueueInv
        <2>3. QED BY <1>1, <2>2, LoopMoves DEF QueueInv, QueueTyped
    <1>4. QED BY <1>2, <1>3

\* Within the sync of a user, the loop keeps its batch.
LEMMA FetchInv == QueueInv /\ (Fetch \/ Queued) => QueueInv'
    <1> SUFFICES ASSUME QueueInv, Fetch \/ Queued PROVE QueueInv'
        OBVIOUS
    <1>1. UNCHANGED <<queue, paused, full, faults, left, unserved>> /\ LoopTyped
        BY DEF Fetch, Queued, QueueInv
    <1>2. LoopTyped' /\ Current' = Current
        <2>1. CASE Fetch
            <3>1. PICK todo \in SUBSET (Pubkeys \X {"follow", "followOfFollow"}) :
                     loop' = [at |-> "queue", todo |-> todo, batch |-> loop.batch]
                BY <2>1 DEF Fetch
            <3>2. todo \subseteq Pubkeys \X Sources
                BY DEF Sources
            <3>3. loop.at = "fetch"
                BY <2>1 DEF Fetch
            <3>4. QED BY <1>1, <3>1, <3>2, <3>3 DEF LoopTyped, Current
        <2>2. CASE Queued /\ loop.batch = <<>>
            BY <1>1, <2>2 DEF Queued, LoopTyped, Current, Asleep
        <2>3. CASE Queued /\ loop.batch # <<>>
            <3>1. loop.at = "queue" /\ loop' = [at |-> "finish", batch |-> loop.batch]
                BY <2>3 DEF Queued
            <3>2. QED BY <1>1, <2>3, <3>1 DEF LoopTyped, Current
        <2>4. QED BY <2>1, <2>2, <2>3
    <1>3. QED BY <1>1, <1>2, LoopMoves DEF QueueInv, QueueTyped, InWorkIsCurrent

\* The loop and its process at rest: no user's sync is under way.
LEMMA RestInv ==
    ASSUME QueueInv, \/ Wake \/ BatchEnds \/ Start \/ Pause \/ Boot \/ DiskChanges
    PROVE  QueueInv'
    <1>1. /\ UNCHANGED <<queue, faults, left, unserved>> /\ LoopTyped
          /\ paused' \in BOOLEAN /\ full' \in BOOLEAN
        BY DEF QueueInv, QueueTyped, Wake, BatchEnds, Start, Pause, Boot, DiskChanges
    <1>2. CASE UNCHANGED loop
        <2>1. LoopTyped' /\ Current' = Current
            BY <1>1, <1>2 DEF LoopTyped, Current
        <2>2. QED BY <1>1, <2>1, LoopMoves DEF QueueInv, QueueTyped, InWorkIsCurrent
    <1>3. CASE loop' \in {Asleep, [at |-> "select"], Booting}
                 /\ loop.at \in {"asleep", "mark", "none", "down"}
        <2>1. LoopTyped' /\ Current' = {} /\ Current = {}
            BY <1>3, RelaySyncAssumption DEF LoopTyped, Current, Asleep, Booting
        <2>2. QED BY <1>1, <2>1, LoopMoves DEF QueueInv, QueueTyped, InWorkIsCurrent
    <1>4. QED
        <2>1. CASE Wake \/ BatchEnds \/ Start
            BY <1>2, <1>3, <2>1 DEF Wake, BatchEnds, Start, Asleep, NoLoop
        <2>2. CASE Boot
            BY <1>3, <2>2 DEF Boot, Down
        <2>3. CASE Pause \/ DiskChanges
            BY <1>2, <2>3 DEF Pause, DiskChanges
        <2>4. QED BY <2>1, <2>2, <2>3

\* A throw or a crash leaves the rows as they are; whose sync it breaks off is history.
LEMMA FaultsInv == QueueInv /\ Faults => QueueInv'
    <1> SUFFICES ASSUME QueueInv, Faults PROVE QueueInv'
        OBVIOUS
    <1>1. /\ UNCHANGED <<queue, full, unserved>> /\ paused' \in BOOLEAN
          /\ faults' \in 0..MaxFaults /\ LoopTyped
          /\ InWork \subseteq DOMAIN queue /\ left' \subseteq DOMAIN queue
        <2>1. faults < MaxFaults /\ faults' = faults + 1
            BY DEF Faults, Fault, BatchFails, SyncThrows, ExpansionThrows, FailThrows, Crash
        <2>2. faults' \in 0..MaxFaults
            BY <2>1, RelaySyncAssumption DEF QueueInv, QueueTyped
        <2>3. QED
            BY <2>2 DEF QueueInv, QueueTyped, InWork, Faults, BatchFails, SyncThrows,
                        ExpansionThrows, FailThrows, Crash
    <1>2. CASE BatchFails \/ ExpansionThrows
        <2>1. LoopTyped' /\ Current' = {} /\ Current = {} /\ left' = left
            BY <1>2 DEF BatchFails, ExpansionThrows, LoopTyped, Current, Asleep
        <2>2. QED BY <1>1, <2>1, LoopMoves DEF QueueInv, QueueTyped, InWorkIsCurrent
    <1>3. CASE SyncThrows
        <2>1. LoopTyped' /\ Current' = Current /\ left' = left
            BY <1>1, <1>3 DEF SyncThrows, LoopTyped, Current
        <2>2. QED BY <1>1, <2>1, LoopMoves DEF QueueInv, QueueTyped, InWorkIsCurrent
    <1>4. CASE FailThrows
        <2>1. LoopTyped' /\ Current' = {} /\ Current \subseteq {Head(loop.batch)}
            BY <1>4 DEF FailThrows, LoopTyped, Current, Asleep
        <2>2. left' = left \cup (InWork \cap {Head(loop.batch)})
            BY <1>4 DEF FailThrows
        <2>3. InWork \subseteq left'
            BY <2>1, <2>2 DEF QueueInv, InWorkIsCurrent
        <2>4. QED BY <1>1, <2>1, <2>3, LoopMoves DEF QueueInv, QueueTyped
    <1>5. CASE Crash
        <2>1. LoopTyped' /\ Current' = {} /\ InWork \subseteq left'
            BY <1>5 DEF Crash, LoopTyped, Current, Down
        <2>2. QED BY <1>1, <2>1, LoopMoves DEF QueueInv, QueueTyped
    <1>6. QED BY <1>2, <1>3, <1>4, <1>5 DEF Faults

LEMMA QueueStepInv == QueueInv /\ [SyncNext]_syncVars => QueueInv'
    <1> SUFFICES ASSUME QueueInv, SyncNext \/ UNCHANGED syncVars PROVE QueueInv'
        OBVIOUS
    <1>1. CASE UNCHANGED syncVars
        BY <1>1 DEF syncVars, QueueInv, QueueTyped, LoopTyped, InWorkIsCurrent, InWork,
                    AskedIsServed, Current
    <1>2. CASE Finish \/ Fail
        <2>1. PICK status \in {"complete", "error"} :
                 /\ loop.at \in {"finish", "fail"}
                 /\ SetStatus(Head(loop.batch), status) /\ loop' = Rest(loop.batch)
                 /\ UNCHANGED <<paused, full, faults, left, unserved>>
            <3>1. CASE Finish
                BY <3>1 DEF Finish
            <3>2. CASE Fail
                BY <3>2 DEF Fail
            <3>3. QED BY <1>2, <3>1, <3>2
        <2>2. QED BY <2>1, EndsSyncInv
    <1>3. CASE LoopStep /\ ~Finish /\ ~Fail
        BY <1>3, SeedInv, RestInv, SelectInv, FetchInv, QueueNextInvariant, MarkInv DEF LoopStep
    <1>4. QED
        BY <1>1, <1>2, <1>3, FaultsInv, RestInv, AddPubkeyInv DEF SyncNext

\* For any users, batches, crashes and throws of the database: a row says 'syncing' only
\* while the loop works on it, or because its sync was broken off.
THEOREM OnlyTheCurrentIsInWork == Spec => []InWorkIsCurrent
    <1>1. Init => QueueInv
        BY QueueInitInv
    <1>2. QueueInv /\ [Next]_platformVars => QueueInv'
        BY QueueStepInv DEF Next, platformVars
    <1>3. QueueInv => InWorkIsCurrent
        BY DEF QueueInv
    <1>4. QED BY <1>1, <1>2, <1>3, PTL DEF Spec

\* For any users, batches, crashes and throws of the database: who was asked for, while not
\* being synced, is not complete before one more sync.
THEOREM AskedAreServed == Spec => []AskedIsServed
    <1>1. Init => QueueInv
        BY QueueInitInv
    <1>2. QueueInv /\ [Next]_platformVars => QueueInv'
        BY QueueStepInv DEF Next, platformVars
    <1>3. QueueInv => AskedIsServed
        BY DEF QueueInv
    <1>4. QED BY <1>1, <1>2, <1>3, PTL DEF Spec

(***************************************************************************)
(* Requests to the relays                                                  *)
(***************************************************************************)

Wait == [at : {"window", "full", "delay", "request"}, relay : Relays, until : Nat]

LimiterTyped ==
    /\ now \in Nat
    /\ slots \in [Relays -> Seq(Nat)] /\ sent \in [Relays -> Seq(Nat)]
    /\ backoff \in [Relays -> [until : Nat, retries : Nat]]
    /\ caller = NoWait \/ caller \in Wait

\* Times in the order of the clock.
InOrderUntil(times, t) ==
    \A i \in 1..Len(times) : times[i] <= t /\ \A j \in 1..i : times[j] <= times[i]

Dropped(r) == Len(sent[r]) - Len(slots[r])

\* The slots are the latest requests, and those before them are out of the window.
SlotsAreLatest(r) ==
    /\ InOrderUntil(sent[r], now)
    /\ Len(slots[r]) <= Len(sent[r])
    /\ \A i \in 1..Len(slots[r]) : slots[r][i] = sent[r][Dropped(r) + i]
    /\ \A i \in 1..Dropped(r) : sent[r][i] + RateWindow < now

Before(at, r) == caller.at = at /\ caller.relay = r

\* The list is one longer than the limit only if its oldest request is out of the window;
\* and whoever was let past a full list takes the slot when that is so.
ListIsHeld(r) ==
    /\ \/ Len(slots[r]) <= RateLimit
       \/ Len(slots[r]) = RateLimit + 1 /\ slots[r][1] + RateWindow < now
    /\ Before("full", r) \/ Before("delay", r) => Len(slots[r]) <= RateLimit
    /\ Before("full", r) /\ Len(slots[r]) = RateLimit =>
          slots[r][1] + RateWindow <= caller.until
    /\ Before("delay", r) /\ Len(slots[r]) = RateLimit =>
          slots[r][1] + RateWindow < caller.until

LimiterInv ==
    /\ LimiterTyped /\ RateKept
    /\ \A r \in Relays : SlotsAreLatest(r) /\ ListIsHeld(r)

LEMMA RateTypes ==
    /\ RateLimit \in Nat /\ RateLimit > 0 /\ RateWindow \in Nat /\ RateWindow > 0
    /\ RequestDelay \in Nat /\ RequestDelay > 0
    BY RateLimiterAssumption

\* In a list in order, what is left when the lapsed requests are dropped is its end.
LEMMA RecentIsTheEnd ==
    ASSUME now \in Nat, NEW times \in Seq(Nat), InOrderUntil(times, now)
    PROVE  \E n \in 0..Len(times) :
              /\ Recent(times) \in Seq(Nat) /\ Len(Recent(times)) = Len(times) - n
              /\ \A i \in 1..(Len(times) - n) : Recent(times)[i] = times[n + i]
              /\ \A i \in 1..n : times[i] + RateWindow < now
              /\ \A i \in 1..Len(times) : i > n => times[i] + RateWindow >= now
    <1> DEFINE n == Cardinality(Lapsed(times))
               length == Len(times)
    <1>1. length \in Nat /\ DOMAIN times = 1..length /\ \A i \in 1..length : times[i] \in Nat
        OBVIOUS
    <1> HIDE DEF length
    <1>2. Lapsed(times) \subseteq 1..length /\ IsFiniteSet(1..length)
        BY <1>1, FS_Interval DEF Lapsed
    <1>3. IsFiniteSet(Lapsed(times)) /\ n \in Nat
        BY <1>2, FS_Subset, FS_CardinalityType
    <1>4. n <= length
        <2>1. Cardinality(1..length) = length
            BY <1>1, FS_Interval
        <2>2. Cardinality(Lapsed(times)) <= Cardinality(1..length)
            BY <1>2, FS_Subset
        <2>3. QED BY <2>1, <2>2
    <1>5. ASSUME NEW i \in Lapsed(times) PROVE i \in 1..n
        <2>1. i \in 1..length /\ times[i] + RateWindow < now
            BY <1>1 DEF Lapsed
        <2>2. \A j \in 1..i : j \in 1..length /\ times[j] <= times[i]
            BY <1>1, <2>1 DEF InOrderUntil, length
        <2>3. 1..i \subseteq Lapsed(times)
            BY <1>1, <2>1, <2>2, RateTypes DEF Lapsed
        <2>4. Cardinality(1..i) <= n /\ Cardinality(1..i) = i
            BY <1>3, <2>1, <2>3, FS_Subset, FS_Interval
        <2>5. QED BY <1>3, <2>1, <2>4
    <1> HIDE DEF n
    <1>6. Lapsed(times) = 1..n
        <2>1. Lapsed(times) \in SUBSET (1..n)
            BY <1>5
        <2>2. IsFiniteSet(1..n) /\ Cardinality(1..n) = n
            BY <1>3, FS_Interval
        <2>3. Cardinality(Lapsed(times)) = n
            BY DEF n
        <2>4. QED BY <2>1, <2>2, <2>3, FS_Subset
    <1>7. /\ \A i \in 1..n : times[i] + RateWindow < now
          /\ \A i \in 1..length : i > n => times[i] + RateWindow >= now
        <2>1. \A i \in 1..length : times[i] + RateWindow \in Nat
            BY <1>1, RateTypes
        <2>2. \A i \in 1..length : i \in Lapsed(times) <=> times[i] + RateWindow < now
            BY <1>1 DEF Lapsed
        <2>3. QED BY <1>1, <1>3, <1>4, <1>6, <2>1, <2>2
    <1>8. /\ Recent(times) \in Seq(Nat) /\ Len(Recent(times)) = length - n
          /\ \A i \in 1..(length - n) : Recent(times)[i] = times[n + i]
        <2>1. Recent(times) = SubSeq(times, n + 1, length)
            BY DEF Recent, n, length
        <2>2. n + 1 \in Int /\ length \in Int /\ \A i \in (n + 1)..length : times[i] \in Nat
            BY <1>1, <1>3
        <2>3. /\ SubSeq(times, n + 1, length) \in Seq(Nat)
              /\ Len(SubSeq(times, n + 1, length))
                    = IF n + 1 <= length THEN length - (n + 1) + 1 ELSE 0
              /\ \A i \in 1..(length - (n + 1) + 1) :
                    SubSeq(times, n + 1, length)[i] = times[(n + 1) + i - 1]
            BY <2>2, SubSeqProperties
        <2>4. length - (n + 1) + 1 = length - n
            BY <1>1, <1>3
        <2>5. \A i \in 1..(length - n) : (n + 1) + i - 1 = n + i
            BY <1>1, <1>3
        <2>6. QED BY <1>1, <1>3, <1>4, <2>1, <2>3, <2>4, <2>5
    <1>9. n \in 0..length
        BY <1>1, <1>3, <1>4
    <1>10. QED BY <1>7, <1>8, <1>9 DEF length

LEMMA LimiterInitInv == Init => LimiterInv
    <1> SUFFICES ASSUME Init PROVE LimiterInv
        OBVIOUS
    <1>1. /\ slots = [r \in Relays |-> <<>>] /\ sent = [r \in Relays |-> <<>>]
          /\ caller = NoWait /\ now = 0
          /\ backoff = [r \in Relays |-> [until |-> 0, retries |-> 0]]
        BY DEF Init, LimiterInit
    <1>2. LimiterTyped /\ RateKept
        <2>1. [until |-> 0, retries |-> 0] \in [until : Nat, retries : Nat]
            OBVIOUS
        <2>2. QED BY <1>1, <2>1, RateTypes DEF LimiterTyped, RateKept
    <1>3. ASSUME NEW r \in Relays PROVE SlotsAreLatest(r) /\ ListIsHeld(r)
        <2>1. slots[r] = <<>> /\ sent[r] = <<>>
            BY <1>1
        <2>2. QED BY <1>1, <2>1, RateTypes
                  DEF SlotsAreLatest, ListIsHeld, Before, InOrderUntil, Dropped, NoWait
    <1>4. QED BY <1>2, <1>3 DEF LimiterInv

\* As long as nothing is sent nor dropped, the clock only makes requests older.
LEMMA LatestStays ==
    ASSUME LimiterInv, NEW r \in Relays, slots'[r] = slots[r], sent'[r] = sent[r],
           now' \in Nat, now <= now'
    PROVE  SlotsAreLatest(r)'
    <1>1. PICK list, times : list = slots[r] /\ times = sent[r]
        OBVIOUS
    <1>2. list \in Seq(Nat) /\ times \in Seq(Nat) /\ now \in Nat /\ SlotsAreLatest(r)
        BY <1>1 DEF LimiterInv, LimiterTyped
    <1>3. \A i \in 1..Len(times) : times[i] \in Nat
        BY <1>2
    <1>4. InOrderUntil(times, now')
        <2>1. InOrderUntil(times, now)
            BY <1>1, <1>2 DEF SlotsAreLatest
        <2>2. QED BY <1>2, <1>3, <2>1 DEF InOrderUntil
    <1>5. Len(list) \in Nat /\ Len(times) \in Nat /\ Len(list) <= Len(times)
        BY <1>1, <1>2 DEF SlotsAreLatest
    <1>6. \A i \in 1..(Len(times) - Len(list)) : times[i] + RateWindow < now'
        BY <1>1, <1>2, <1>3, <1>5, RateTypes DEF SlotsAreLatest, Dropped
    <1>7. QED BY <1>1, <1>2, <1>4, <1>5, <1>6 DEF SlotsAreLatest, Dropped

\* The list of a relay that the caller does not wait for, as time passes.
LEMMA HeldStays ==
    ASSUME LimiterInv, NEW r \in Relays, slots'[r] = slots[r],
           now' \in Nat, now <= now', caller' = caller \/ caller'.at \notin {"full", "delay"}
    PROVE  ListIsHeld(r)'
    <1>1. ListIsHeld(r) /\ now \in Nat /\ slots[r] \in Seq(Nat)
        BY DEF LimiterInv, LimiterTyped
    <1>2. Len(slots[r]) = RateLimit + 1 => slots[r][1] \in Nat
        BY <1>1, RateTypes
    <1>3. \/ Len(slots[r]) <= RateLimit
          \/ Len(slots[r]) = RateLimit + 1 /\ slots[r][1] + RateWindow < now'
        BY <1>1, <1>2, RateTypes DEF ListIsHeld
    <1>4. CASE caller' = caller
        BY <1>1, <1>3, <1>4 DEF ListIsHeld, Before
    <1>5. CASE caller'.at \notin {"full", "delay"}
        BY <1>3, <1>5 DEF ListIsHeld, Before
    <1>6. QED BY <1>4, <1>5

\* Nothing is sent, and no list changes.
LEMMA LimiterWaits ==
    ASSUME LimiterInv, UNCHANGED <<slots, sent>>, now' \in Nat, now <= now',
           backoff' \in [Relays -> [until : Nat, retries : Nat]],
           caller' = caller
           \/ (caller' \in Wait \cup {NoWait} /\ caller'.at \notin {"full", "delay"})
    PROVE  LimiterInv'
    <1>1. LimiterTyped' /\ RateKept'
        BY DEF LimiterInv, LimiterTyped, RateKept
    <1>2. \A r \in Relays : SlotsAreLatest(r)' /\ ListIsHeld(r)'
        BY LatestStays, HeldStays
    <1>3. QED BY <1>1, <1>2 DEF LimiterInv

LEMMA LaterTimes == \A a, b \in Nat : Later(a, b) \in Nat /\ Later(a, b) >= a /\ Later(a, b) >= b
    BY DEF Later

\* The list of the caller's relay loses its lapsed requests.
LEMMA RecentIsLatest ==
    ASSUME LimiterInv, NEW r \in Relays
    PROVE  /\ Recent(slots[r]) \in Seq(Nat)
           /\ Len(Recent(slots[r])) <= RateLimit
           /\ Len(Recent(slots[r])) > 0 => Head(Recent(slots[r])) = Recent(slots[r])[1]
                                           /\ Recent(slots[r])[1] \in Nat
           /\ Len(Recent(slots[r])) <= Len(slots[r])
           /\ Len(Recent(slots[r])) = Len(slots[r]) /\ Len(slots[r]) > 0 =>
                 Recent(slots[r])[1] = slots[r][1]
           /\ \A list : list = Recent(slots[r]) =>
                 /\ Len(list) <= Len(sent[r])
                 /\ \A i \in 1..Len(list) : list[i] = sent[r][Len(sent[r]) - Len(list) + i]
                 /\ \A i \in 1..(Len(sent[r]) - Len(list)) : sent[r][i] + RateWindow < now
    <1>1. PICK list, times : list = slots[r] /\ times = sent[r]
        OBVIOUS
    <1>2. /\ list \in Seq(Nat) /\ times \in Seq(Nat) /\ now \in Nat
          /\ SlotsAreLatest(r) /\ ListIsHeld(r)
        BY <1>1 DEF LimiterInv, LimiterTyped
    <1>3. PICK length, total \in Nat : length = Len(list) /\ total = Len(times)
        BY <1>2
    <1>4. /\ length <= total /\ InOrderUntil(times, now)
          /\ \A i \in 1..length : list[i] = times[total - length + i] /\ list[i] \in Nat
          /\ \A i \in 1..(total - length) : times[i] + RateWindow < now
        <2>1. \A i \in 1..length : list[i] \in Nat
            BY <1>2, <1>3
        <2>2. Dropped(r) = total - length
            BY <1>1, <1>3 DEF Dropped
        <2>3. QED BY <1>1, <1>2, <1>3, <2>1, <2>2 DEF SlotsAreLatest
    <1>5. InOrderUntil(list, now)
        <2> SUFFICES ASSUME NEW i \in 1..length
                     PROVE  list[i] <= now /\ \A j \in 1..i : list[j] <= list[i]
            BY <1>3 DEF InOrderUntil
        <2>5. total - length + i \in 1..total
            BY <1>3, <1>4
        <2>1. PICK k \in 1..total : k = total - length + i
            BY <2>5
        <2>2. list[i] = times[k] /\ times[k] <= now /\ \A j \in 1..k : times[j] <= times[k]
            BY <1>3, <1>4, <2>1 DEF InOrderUntil
        <2>3. ASSUME NEW j \in 1..i PROVE list[j] <= list[i]
            <3>1. j \in 1..length /\ total - length + j \in 1..k
                BY <1>3, <1>4, <2>1
            <3>2. QED BY <1>4, <2>2, <3>1
        <2>4. QED BY <2>2, <2>3
    <1>6. PICK n \in 0..length :
             /\ Recent(list) \in Seq(Nat) /\ Len(Recent(list)) = length - n
             /\ \A i \in 1..(length - n) : Recent(list)[i] = list[n + i]
             /\ \A i \in 1..n : list[i] + RateWindow < now
             /\ \A i \in 1..length : i > n => list[i] + RateWindow >= now
        BY <1>2, <1>3, <1>5, RecentIsTheEnd
    <1>7. PICK recent : recent = Recent(list)
        OBVIOUS
    <1>8. Len(recent) <= RateLimit
        <2>1. CASE length <= RateLimit
            BY <1>3, <1>6, <1>7, <2>1, RateTypes
        <2>2. CASE length = RateLimit + 1 /\ list[1] + RateWindow < now
            <3>1. n >= 1
                <4>1. n = 0 => list[1] + RateWindow >= now
                    BY <1>6, <2>2, RateTypes
                <4>2. list[1] + RateWindow \in Nat
                    BY <1>4, <2>2, RateTypes
                <4>3. QED BY <1>2, <1>3, <1>6, <2>2, <4>1, <4>2
            <3>2. QED BY <1>3, <1>6, <1>7, <2>2, <3>1, RateTypes
        <2>3. QED BY <1>1, <1>2, <1>3, <2>1, <2>2 DEF ListIsHeld
    <1>9. /\ recent \in Seq(Nat) /\ Len(recent) <= length
          /\ Len(recent) > 0 => Head(recent) = recent[1] /\ recent[1] \in Nat
        BY <1>3, <1>6, <1>7
    <1>10. Len(recent) = length /\ length > 0 => recent[1] = list[1]
        BY <1>3, <1>6, <1>7
    <1>11. /\ Len(recent) <= total
           /\ \A i \in 1..Len(recent) : recent[i] = times[total - Len(recent) + i]
           /\ \A i \in 1..(total - Len(recent)) : times[i] + RateWindow < now
        <2>1. Len(recent) = length - n /\ total - Len(recent) = (total - length) + n
              /\ n \in Nat /\ n <= length
            <3>1. Len(recent) = length - n
                BY <1>6, <1>7
            <3>2. n \in Nat /\ n <= length
                BY <1>3
            <3>3. QED BY <1>3, <3>1, <3>2
        <2>2. ASSUME NEW i \in 1..Len(recent)
              PROVE  recent[i] = times[total - Len(recent) + i]
            <3>1. n + i \in 1..length /\ recent[i] = list[n + i]
                BY <1>3, <1>6, <1>7, <2>1
            <3>2. total - length + (n + i) = total - Len(recent) + i
                BY <1>3, <2>1
            <3>3. list[n + i] = times[total - length + (n + i)]
                BY <1>4, <3>1
            <3>4. QED BY <3>1, <3>2, <3>3
        <2>3. ASSUME NEW i \in 1..(total - Len(recent)) PROVE times[i] + RateWindow < now
            <3>1. CASE i <= total - length
                BY <1>3, <1>4, <2>1, <3>1
            <3>2. CASE i > total - length
                <4>1. PICK j \in 1..n : j = i - (total - length)
                    <5>1. i \in Nat /\ i <= (total - length) + n
                        BY <1>3, <1>4, <2>1
                    <5>2. i - (total - length) \in 1..n
                        BY <1>3, <1>4, <2>1, <3>2, <5>1
                    <5>3. QED BY <5>2
                <4>2. j \in 1..length /\ list[j] + RateWindow < now /\ total - length + j = i
                    BY <1>3, <1>4, <1>6, <2>1, <4>1
                <4>3. QED BY <1>4, <4>2
            <3>3. QED BY <1>3, <1>4, <3>1, <3>2
        <2>4. QED BY <1>3, <1>4, <2>1, <2>2, <2>3
    <1>12. QED BY <1>1, <1>3, <1>7, <1>8, <1>9, <1>10, <1>11

\* A wait of the caller that changes the list of its relay at most, and sends nothing.
LEMMA CallerMoves ==
    ASSUME LimiterInv, NEW r \in Relays, NEW list \in Seq(Nat),
           slots' = [slots EXCEPT ![r] = list], UNCHANGED <<now, backoff, sent>>,
           caller' \in Wait, caller'.relay = r,
           Len(list) <= Len(sent[r]),
           \A i \in 1..Len(list) : list[i] = sent[r][Len(sent[r]) - Len(list) + i],
           \A i \in 1..(Len(sent[r]) - Len(list)) : sent[r][i] + RateWindow < now,
           ListIsHeld(r)'
    PROVE  LimiterInv'
    <1>1. slots'[r] = list /\ \A q \in Relays \ {r} : slots'[q] = slots[q]
        BY DEF LimiterInv, LimiterTyped
    <1>2. LimiterTyped' /\ RateKept'
        BY DEF LimiterInv, LimiterTyped, RateKept
    <1>3. SlotsAreLatest(r)'
        <2>1. InOrderUntil(sent[r], now)
            BY DEF LimiterInv, SlotsAreLatest
        <2>2. InOrderUntil(sent'[r], now') /\ Dropped(r)' = Len(sent[r]) - Len(list)
            BY <1>1, <2>1 DEF Dropped
        <2>3. QED BY <1>1, <2>2 DEF SlotsAreLatest
    <1>4. ASSUME NEW q \in Relays \ {r} PROVE SlotsAreLatest(q)' /\ ListIsHeld(q)'
        <2>1. slots'[q] = slots[q] /\ sent'[q] = sent[q] /\ now \in Nat
            BY <1>1 DEF LimiterInv, LimiterTyped
        <2>2. SlotsAreLatest(q)'
            BY <2>1, LatestStays
        <2>3. ListIsHeld(q)
            BY DEF LimiterInv
        <2>4. ListIsHeld(q)'
            BY <2>1, <2>3 DEF ListIsHeld, Before
        <2>5. QED BY <2>2, <2>4
    <1>5. QED BY <1>2, <1>3, <1>4 DEF LimiterInv

LEMMA CheckWindowInv == ASSUME LimiterInv, CheckWindow, UNCHANGED now PROVE LimiterInv'
    <1>1. PICK r, list, until :
             /\ r = caller.relay /\ list = Recent(slots[r])
             /\ until = IF Len(list) >= RateLimit THEN Later(now, Head(list) + RateWindow) ELSE now
        OBVIOUS
    <1>2. /\ r \in Relays /\ now \in Nat /\ caller \in Wait
        BY <1>1 DEF CheckWindow, Woken, NoWait, LimiterInv, LimiterTyped, Wait
    <1>3. /\ slots' = [slots EXCEPT ![r] = list] /\ UNCHANGED <<now, backoff, sent>>
          /\ caller' = [at |-> "full", relay |-> r, until |-> until]
        BY <1>1 DEF CheckWindow, Sleep
    <1>4. /\ list \in Seq(Nat) /\ Len(list) <= RateLimit
          /\ Len(list) > 0 => Head(list) = list[1] /\ list[1] \in Nat
          /\ Len(list) <= Len(sent[r])
          /\ \A i \in 1..Len(list) : list[i] = sent[r][Len(sent[r]) - Len(list) + i]
          /\ \A i \in 1..(Len(sent[r]) - Len(list)) : sent[r][i] + RateWindow < now
        <2>1. r \in Relays /\ list = Recent(slots[r])
            BY <1>1, <1>2
        <2>2. /\ list \in Seq(Nat) /\ Len(list) <= RateLimit
              /\ Len(list) > 0 => Head(list) = list[1] /\ list[1] \in Nat
            BY <2>1, RecentIsLatest
        <2>3. /\ Len(list) <= Len(sent[r])
              /\ \A n \in 1..Len(list) : list[n] = sent[r][Len(sent[r]) - Len(list) + n]
              /\ \A n \in 1..(Len(sent[r]) - Len(list)) : sent[r][n] + RateWindow < now
            BY <2>1, RecentIsLatest
        <2>4. QED BY <2>2, <2>3
    <1>5. until \in Nat /\ (Len(list) = RateLimit => list[1] + RateWindow <= until)
        <2>1. CASE Len(list) = RateLimit
            <3>1. Head(list) = list[1] /\ list[1] + RateWindow \in Nat
                BY <1>4, <2>1, RateTypes
            <3>2. until = Later(now, list[1] + RateWindow)
                BY <1>1, <2>1, <3>1, RateTypes
            <3>3. QED BY <1>2, <3>1, <3>2, LaterTimes
        <2>2. CASE Len(list) # RateLimit
            BY <1>1, <1>2, <1>4, <2>2, RateTypes
        <2>3. QED BY <2>1, <2>2
    <1>6. caller' \in Wait /\ caller'.relay = r /\ caller'.at = "full" /\ caller'.until = until
        BY <1>2, <1>3, <1>5 DEF Wait
    <1>7. slots'[r] = list
        BY <1>2, <1>3 DEF LimiterInv, LimiterTyped
    <1>8. ListIsHeld(r)'
        BY <1>4, <1>5, <1>6, <1>7 DEF ListIsHeld, Before
    <1>9. QED BY <1>2, <1>3, <1>4, <1>6, <1>8, CallerMoves

LEMMA PassWindowInv == ASSUME LimiterInv, PassWindow, UNCHANGED now PROVE LimiterInv'
    <1>1. PICK r, old, list :
             /\ r = caller.relay /\ old = slots[r]
             /\ list = IF Len(old) >= RateLimit THEN Recent(old) ELSE old
        OBVIOUS
    <1>2. /\ r \in Relays /\ now \in Nat /\ caller \in Wait /\ caller.until \in Nat
          /\ now >= caller.until /\ Before("full", r)
        BY <1>1 DEF PassWindow, Woken, NoWait, LimiterInv, LimiterTyped, Wait, Before
    <1>3. /\ slots' = [slots EXCEPT ![r] = list] /\ UNCHANGED <<now, backoff, sent>>
          /\ caller' = [at |-> "delay", relay |-> r, until |-> now + RequestDelay]
        BY <1>1, <1>2 DEF PassWindow, Sleep, LimiterInv, LimiterTyped
    <1>4. /\ old \in Seq(Nat) /\ Len(old) <= RateLimit /\ SlotsAreLatest(r)
          /\ Len(old) = RateLimit => old[1] + RateWindow <= caller.until
        BY <1>1, <1>2 DEF LimiterInv, LimiterTyped, ListIsHeld
    <1>5. /\ list \in Seq(Nat) /\ Len(list) <= Len(old)
          /\ Len(list) = Len(old) /\ Len(old) > 0 => list[1] = old[1]
          /\ Len(list) <= Len(sent[r])
          /\ \A i \in 1..Len(list) : list[i] = sent[r][Len(sent[r]) - Len(list) + i]
          /\ \A i \in 1..(Len(sent[r]) - Len(list)) : sent[r][i] + RateWindow < now
        <2>1. CASE list = Recent(slots[r])
            BY <1>1, <1>2, <2>1, RecentIsLatest
        <2>2. CASE list = old
            <3>1. Dropped(r) = Len(sent[r]) - Len(old)
                BY <1>1 DEF Dropped
            <3>2. /\ Len(old) <= Len(sent[r])
                  /\ \A i \in 1..Len(old) : old[i] = sent[r][Len(sent[r]) - Len(old) + i]
                  /\ \A i \in 1..(Len(sent[r]) - Len(old)) : sent[r][i] + RateWindow < now
                BY <1>1, <1>4, <3>1 DEF SlotsAreLatest
            <3>3. Len(old) <= Len(old)
                BY <1>4
            <3>4. QED BY <1>4, <2>2, <3>2, <3>3
        <2>3. QED BY <1>1, <2>1, <2>2
    <1>6. caller' \in Wait /\ caller'.relay = r /\ caller'.at = "delay"
          /\ caller'.until = now + RequestDelay
        BY <1>2, <1>3, RateTypes DEF Wait
    <1>7. slots'[r] = list
        BY <1>2, <1>3 DEF LimiterInv, LimiterTyped
    <1>8. Len(list) <= RateLimit /\ (Len(list) = RateLimit => list[1] + RateWindow < now + RequestDelay)
        <2>1. Len(list) \in Nat /\ Len(old) \in Nat
            BY <1>4, <1>5
        <2>2. ASSUME Len(list) = RateLimit PROVE list[1] + RateWindow < now + RequestDelay
            <3>1. Len(old) = RateLimit /\ list[1] = old[1] /\ old[1] \in Nat
                BY <1>4, <1>5, <2>1, <2>2, RateTypes
            <3>2. QED BY <1>2, <1>4, <3>1, RateTypes
        <2>3. QED BY <1>4, <1>5, <2>1, <2>2, RateTypes
    <1>9. ListIsHeld(r)'
        BY <1>6, <1>7, <1>8 DEF ListIsHeld, Before
    <1>10. QED BY <1>2, <1>3, <1>5, <1>6, <1>9, CallerMoves

\* The slot is taken: either the list had room, and the request that fell out of it is out of
\* the window, or its oldest request was waited for.
LEMMA TakeSlotInv == ASSUME LimiterInv, TakeSlot, UNCHANGED now PROVE LimiterInv'
    <1>1. PICK r, old, times : r = caller.relay /\ old = slots[r] /\ times = sent[r]
        OBVIOUS
    <1>2. /\ r \in Relays /\ now \in Nat /\ caller \in Wait /\ caller.until \in Nat
          /\ now >= caller.until /\ Before("delay", r)
        BY <1>1 DEF TakeSlot, Woken, NoWait, LimiterInv, LimiterTyped, Wait, Before
    <1>3. /\ slots' = [slots EXCEPT ![r] = Append(old, now)]
          /\ sent' = [sent EXCEPT ![r] = Append(times, now)]
          /\ caller' = [at |-> "request", relay |-> r, until |-> now] /\ UNCHANGED backoff
        BY <1>1, <1>2 DEF TakeSlot, Sleep, LimiterInv, LimiterTyped
    <1>4. /\ old \in Seq(Nat) /\ times \in Seq(Nat)
          /\ SlotsAreLatest(r) /\ ListIsHeld(r)
        BY <1>1, <1>2 DEF LimiterInv, LimiterTyped
    <1>5. PICK length, total \in Nat : length = Len(old) /\ total = Len(times)
        BY <1>4
    <1>6. /\ length <= RateLimit
          /\ length = RateLimit => old[1] \in Nat /\ old[1] + RateWindow < now
        <2>1. length = RateLimit => old[1] \in Nat
            <3>1. \A i \in 1..Len(old) : old[i] \in Nat
                BY <1>4
            <3>2. QED BY <1>5, <3>1, RateTypes
        <2>2. length <= RateLimit
            BY <1>1, <1>2, <1>4, <1>5 DEF ListIsHeld
        <2>3. length = RateLimit => old[1] + RateWindow < caller.until
            BY <1>1, <1>2, <1>4, <1>5 DEF ListIsHeld
        <2>4. QED BY <1>2, <2>1, <2>2, <2>3, RateTypes
    <1>7. /\ length <= total /\ InOrderUntil(times, now)
          /\ \A i \in 1..length : old[i] = times[total - length + i]
          /\ \A i \in 1..(total - length) : times[i] + RateWindow < now
        <2>1. Dropped(r) = total - length
            BY <1>1, <1>5 DEF Dropped
        <2>2. QED BY <1>1, <1>4, <1>5, <2>1 DEF SlotsAreLatest
    <1>8. PICK list, more : list = Append(old, now) /\ more = Append(times, now)
        OBVIOUS
    <1>9. /\ list \in Seq(Nat) /\ Len(list) = length + 1 /\ list[length + 1] = now
          /\ \A i \in 1..length : list[i] = old[i]
          /\ more \in Seq(Nat) /\ Len(more) = total + 1 /\ more[total + 1] = now
          /\ \A i \in 1..total : more[i] = times[i] /\ times[i] \in Nat
        BY <1>2, <1>4, <1>5, <1>8, AppendProperties
    <1>10. /\ slots'[r] = list /\ sent'[r] = more
           /\ \A q \in Relays \ {r} : slots'[q] = slots[q] /\ sent'[q] = sent[q]
        BY <1>2, <1>3, <1>8 DEF LimiterInv, LimiterTyped
    <1>11. caller' \in Wait /\ caller'.at = "request"
        BY <1>2, <1>3 DEF Wait
    <1>12. LimiterTyped'
        BY <1>3, <1>8, <1>9, <1>11 DEF LimiterInv, LimiterTyped
    <1>13. SlotsAreLatest(r)'
        <2>1. InOrderUntil(more, now)
            <3>1. \A i \in 1..total : times[i] <= now /\ \A j \in 1..i : times[j] <= times[i]
                BY <1>5, <1>7 DEF InOrderUntil
            <3>2. ASSUME NEW i \in 1..(total + 1)
                  PROVE  more[i] <= now /\ \A j \in 1..i : more[j] <= more[i]
                <4>1. CASE i = total + 1
                    <5>1. \A j \in 1..total : more[j] <= now
                        BY <1>9, <3>1
                    <5>2. more[total + 1] = now /\ now <= now
                        BY <1>2, <1>9
                    <5>3. \A j \in 1..i : j \in 1..total \/ j = total + 1
                        BY <1>5, <4>1
                    <5>4. QED BY <4>1, <5>1, <5>2, <5>3
                <4>2. CASE i \in 1..total
                    <5>1. \A j \in 1..i : j \in 1..total
                        BY <1>5, <4>2
                    <5>2. QED BY <1>9, <3>1, <4>2, <5>1
                <4>3. QED BY <1>5, <4>1, <4>2
            <3>3. QED BY <1>9, <3>2 DEF InOrderUntil
        <2>2. Len(list) <= Len(more) /\ Len(more) - Len(list) = total - length
            BY <1>5, <1>7, <1>9
        <2>3. ASSUME NEW i \in 1..(length + 1) PROVE list[i] = more[total - length + i]
            <3>1. CASE i = length + 1
                BY <1>5, <1>9, <3>1
            <3>2. CASE i \in 1..length
                <4>1. total - length + i \in 1..total
                    BY <1>5, <1>7, <3>2
                <4>2. QED BY <1>7, <1>9, <3>2, <4>1
            <3>3. QED BY <1>5, <3>1, <3>2
        <2>4. \A i \in 1..(total - length) : more[i] + RateWindow < now
            <3>1. \A i \in 1..(total - length) : i \in 1..total
                BY <1>5
            <3>2. QED BY <1>7, <1>9, <3>1
        <2>5. QED BY <1>9, <1>10, <2>1, <2>2, <2>3, <2>4 DEF SlotsAreLatest, Dropped
    <1>14. ListIsHeld(r)'
        <2>1. \/ length + 1 <= RateLimit
              \/ length + 1 = RateLimit + 1 /\ list[1] + RateWindow < now
            <3>1. CASE length < RateLimit
                BY <1>5, <3>1, RateTypes
            <3>2. CASE length = RateLimit
                <4>1. list[1] = old[1]
                    BY <1>9, <3>2, RateTypes
                <4>2. QED BY <1>6, <3>2, <4>1
            <3>3. QED BY <1>5, <1>6, <3>1, <3>2, RateTypes
        <2>2. QED BY <1>9, <1>10, <1>11, <2>1 DEF ListIsHeld, Before
    <1>15. ASSUME NEW q \in Relays \ {r} PROVE SlotsAreLatest(q)' /\ ListIsHeld(q)'
        BY <1>2, <1>10, <1>11, LatestStays, HeldStays
    <1>16. RateKept'
        <2> SUFFICES ASSUME NEW q \in Relays, NEW i \in 1..Len(sent'[q]),
                            i + RateLimit <= Len(sent'[q])
                     PROVE  sent'[q][i + RateLimit] - sent'[q][i] >= RateWindow
            BY DEF RateKept
        <2>1. CASE q # r
            BY <1>10, <2>1 DEF LimiterInv, RateKept
        <2>2. CASE q = r /\ i + RateLimit <= total
            <3>1. i \in 1..total /\ i + RateLimit \in 1..total
                BY <1>5, <2>2, RateTypes
            <3>2. times[i + RateLimit] - times[i] >= RateWindow
                BY <1>1, <1>2, <1>5, <2>2, <3>1 DEF LimiterInv, RateKept
            <3>3. QED BY <1>9, <1>10, <2>2, <3>1, <3>2
        <2>3. CASE q = r /\ i + RateLimit = total + 1
            <3>1. i \in 1..total /\ i = total + 1 - RateLimit
                BY <1>5, <2>3, RateTypes
            <3>2. times[i] + RateWindow < now
                <4>1. CASE length = RateLimit
                    <5>1. old[1] = times[total - length + 1] /\ i = total - length + 1
                        BY <1>5, <1>7, <3>1, <4>1, RateTypes
                    <5>2. QED BY <1>6, <4>1, <5>1
                <4>2. CASE length < RateLimit
                    <5>1. i \in 1..(total - length)
                        BY <1>5, <3>1, <4>2, RateTypes
                    <5>2. QED BY <1>7, <5>1
                <4>3. QED BY <1>5, <1>6, <4>1, <4>2, RateTypes
            <3>3. sent'[q][i + RateLimit] = now /\ sent'[q][i] = times[i] /\ times[i] \in Nat
                BY <1>9, <1>10, <2>3, <3>1
            <3>4. QED BY <1>2, <3>2, <3>3, RateTypes
        <2>4. QED BY <1>5, <1>9, <1>10, <2>1, <2>2, <2>3, RateTypes
    <1>17. QED BY <1>12, <1>13, <1>14, <1>15, <1>16 DEF LimiterInv

LEMMA WaitForSlotInv ==
    ASSUME LimiterInv, NEW r \in Relays, WaitForSlot(r), UNCHANGED now PROVE LimiterInv'
    <1>1. PICK until : until = Later(backoff[r].until, now)
        OBVIOUS
    <1>2. now \in Nat /\ backoff[r].until \in Nat
        BY DEF LimiterInv, LimiterTyped
    <1>3. until \in Nat
        BY <1>1, <1>2, LaterTimes
    <1>4. /\ caller' = [at |-> "window", relay |-> r, until |-> until]
          /\ UNCHANGED <<slots, backoff, sent>>
        BY <1>1 DEF WaitForSlot, Sleep
    <1>5. caller' \in Wait \cup {NoWait} /\ caller'.at \notin {"full", "delay"}
        BY <1>3, <1>4 DEF Wait
    <1>6. now' \in Nat /\ now <= now' /\ backoff' \in [Relays -> [until : Nat, retries : Nat]]
        BY <1>2, <1>4 DEF LimiterInv, LimiterTyped
    <1>7. QED BY <1>4, <1>5, <1>6, LimiterWaits

LEMMA BackoffTyped == ASSUME NEW retries \in Nat PROVE Backoff(retries) \in Nat
    <1>1. PICK n : n = IF retries > MaxBackoff THEN MaxBackoff ELSE retries
        OBVIOUS
    <1>2. n \in 0..MaxBackoff
        BY <1>1, RateLimiterAssumption
    <1>3. 2 ^ n \in Nat
        BY <1>2, RateLimiterAssumption
    <1>4. QED BY <1>1, <1>3 DEF Backoff

LEMMA AnsweredInv == ASSUME LimiterInv, Answered, UNCHANGED now PROVE LimiterInv'
    <1> DEFINE Row == [until : Nat, retries : Nat]
    <1>1. PICK r : r = caller.relay
        OBVIOUS
    <1>2. r \in Relays /\ now \in Nat /\ backoff \in [Relays -> Row]
        BY <1>1 DEF Answered, NoWait, LimiterInv, LimiterTyped, Wait
    <1>3. backoff' \in [Relays -> Row]
        <2>1. CASE backoff' = [backoff EXCEPT ![r] = [until |-> 0, retries |-> 0]]
            BY <1>2, <2>1
        <2>2. CASE TooManyRequests(r)
            <3>1. PICK n : n = backoff[r].retries + 1
                OBVIOUS
            <3>2. n \in Nat
                BY <1>2, <3>1
            <3>3. now + Backoff(n) \in Nat
                BY <1>2, <3>2, BackoffTyped
            <3>4. backoff' = [backoff EXCEPT ![r] = [until |-> now + Backoff(n), retries |-> n]]
                BY <2>2, <3>1 DEF TooManyRequests
            <3>5. QED BY <1>2, <3>2, <3>3, <3>4
        <2>3. CASE UNCHANGED backoff
            BY <1>2, <2>3
        <2>4. QED BY <1>1, <2>1, <2>2, <2>3 DEF Answered
    <1>4. caller' = NoWait /\ UNCHANGED <<slots, sent>>
        BY DEF Answered
    <1>5. caller' \in Wait \cup {NoWait} /\ caller'.at \notin {"full", "delay"}
        BY <1>4 DEF NoWait
    <1>6. now' \in Nat /\ now <= now'
        BY <1>2
    <1>7. QED BY <1>3, <1>4, <1>5, <1>6, LimiterWaits

LEMMA LimiterStepInv == LimiterInv /\ [Next]_platformVars => LimiterInv'
    <1> SUFFICES ASSUME LimiterInv, Next \/ UNCHANGED platformVars PROVE LimiterInv'
        OBVIOUS
    <1>1. now' \in Nat /\ now <= now' /\ backoff \in [Relays -> [until : Nat, retries : Nat]]
        BY ClockTicks DEF LimiterInv, LimiterTyped
    <1>2. CASE UNCHANGED limiterVars
        BY <1>1, <1>2, LimiterWaits DEF limiterVars
    <1>3. CASE LimiterNext
        BY <1>2, <1>3, CheckWindowInv, PassWindowInv, TakeSlotInv, AnsweredInv, WaitForSlotInv
           DEF LimiterNext
    <1>4. QED BY <1>2, <1>3 DEF Next, platformVars

\* For any relays, limit, window and pause between requests, and however late the caller is
\* woken: a relay gets no more than its limit of requests in any window.
THEOREM RatesAreKept == Spec => []RateKept
    <1>1. LimiterInv => RateKept
        BY DEF LimiterInv
    <1>2. QED BY <1>1, LimiterInitInv, LimiterStepInv, PTL DEF Spec
=============================================================================
