----------------------------- MODULE RelaySync -----------------------------
(***************************************************************************)
(* The loop that copies the events of queued users from public relays to   *)
(* the local one.  The queue is a table of users with a status; it         *)
(* outlives the process, while the loop, its pause flag and its batch do   *)
(* not.  Nothing calls onModuleDestroy when the process is told to stop    *)
(* (main.ts enables no shutdown hooks), so every stop is a crash.  A       *)
(* database call may throw.  What the relays answer is the environment's   *)
(* choice.                                                                 *)
(***************************************************************************)
EXTENDS Maps, Naturals, Sequences, FiniteSets

CONSTANTS
    Pubkeys,          \* users that may be queued
    Notable,          \* those that are queued at every start
    BatchSize,        \* users taken in one batch
    Enabled,          \* RELAY_SYNC_ENABLED
    MaxFaults         \* bound: crashes and throws of the database

Sources == {"seed", "follow", "followOfFollow", "trending", "operator"}

\* scoreUser of a user that is taken to be active now (120), and the base of the source.
Score(source) ==
    120 + CASE source = "seed" -> 120 [] source = "follow" -> 40
            [] source = "trending" -> 25 [] source = "followOfFollow" -> 10
            [] source = "operator" -> 0

ASSUME RelaySyncAssumption ==
    /\ Notable \subseteq Pubkeys /\ IsFiniteSet(Pubkeys)
    /\ BatchSize \in Nat \ {0} /\ Enabled \in BOOLEAN /\ MaxFaults \in Nat

VARIABLES
    queue,            \* RelaySyncState rows: status and the source of the priority
    loop,             \* where the loop is, and the batch it works on
    paused,
    full,             \* whether the disk is over its hard limit
    faults,           \* bound: crashes and throws so far
    left,             \* history: users whose sync was broken off by a crash or the database
    unserved          \* history: users asked for, while not at work on, and not synced since

syncVars == <<queue, loop, paused, full, faults, left, unserved>>

NoLoop == [at |-> "none"]
Asleep == [at |-> "asleep"]
Down == [at |-> "down"]
Booting == [at |-> "boot", todo |-> Notable]

SyncInit ==
    /\ queue = EmptyMap
    /\ loop = Booting /\ paused = FALSE
    /\ full = FALSE
    /\ faults = 0 /\ left = {} /\ unserved = {}

\* The user whose sync is under way.
Current ==
    IF loop.at \in {"fetch", "queue", "finish", "fail"} /\ loop.batch # <<>>
    THEN {Head(loop.batch)} ELSE {}

\* (mutant) A user that is complete is not queued again.
EnqueueOnce(u, source) ==
    /\ queue' = IF u \in DOMAIN queue /\ queue[u].status = "complete" THEN queue
                ELSE Put(queue, u, [status |-> "pending", source |-> source])
    /\ left' = left \ {u}
    /\ unserved' = unserved \cup ({u} \ Current)

\* ensureQueued and addPubkey: whatever the row's status is.
Enqueue(u, source) ==
    /\ queue' = Put(queue, u, [status |-> "pending", source |-> source])
    /\ left' = left \ {u}
    /\ unserved' = unserved \cup ({u} \ Current)

SetStatus(u, s) == queue' = [queue EXCEPT ![u].status = s]

(***************************************************************************)
(* The process and its operator                                            *)
(***************************************************************************)

\* onModuleInit queues the notable accounts and starts the loop, or stays paused.
Seed ==
    /\ loop.at = "boot"
    /\ IF loop.todo = {}
       THEN /\ loop' = IF Enabled THEN Asleep ELSE NoLoop
            /\ paused' = ~Enabled
            /\ UNCHANGED <<queue, left, unserved>>
       ELSE \E u \in loop.todo :
              /\ Enqueue(u, "seed")
              /\ loop' = [loop EXCEPT !.todo = @ \ {u}]
              /\ UNCHANGED paused
    /\ UNCHANGED <<full, faults>>

Serving == loop.at \notin {"boot", "down"}

Start ==
    /\ Serving
    /\ paused' = FALSE
    /\ loop' = IF loop = NoLoop THEN Asleep ELSE loop
    /\ UNCHANGED <<queue, full, faults, left, unserved>>

Pause ==
    /\ Serving
    /\ paused' = TRUE
    /\ UNCHANGED <<queue, loop, full, faults, left, unserved>>

AddPubkey(u) ==
    /\ Serving
    /\ Enqueue(u, "operator")
    /\ UNCHANGED <<loop, paused, full, faults>>

InWork == {u \in DOMAIN queue : queue[u].status = "syncing"}

\* (bound) So many crashes and throws.
Fault == faults < MaxFaults /\ faults' = faults + 1

Crash ==
    /\ Fault
    /\ loop.at # "down"
    /\ loop' = Down /\ paused' = FALSE
    /\ left' = left \cup InWork
    /\ UNCHANGED <<queue, full, unserved>>

Boot ==
    /\ loop = Down
    /\ loop' = Booting
    /\ UNCHANGED <<queue, paused, full, faults, left, unserved>>

DiskChanges == full' = ~full /\ UNCHANGED <<queue, loop, paused, faults, left, unserved>>

(***************************************************************************)
(* The loop                                                                *)
(***************************************************************************)

\* An iteration begins: the loop sleeps on while it is paused, and pauses itself when
\* the disk is full.
Wake ==
    /\ loop = Asleep /\ ~paused
    /\ IF full THEN paused' = TRUE /\ UNCHANGED loop
       ELSE loop' = [at |-> "select"] /\ UNCHANGED paused
    /\ UNCHANGED <<queue, full, faults, left, unserved>>

Pending == {u \in DOMAIN queue : queue[u].status = "pending"}

SeqsOf(S, n) == {s \in [1..n -> S] : \A i, j \in 1..n : s[i] = s[j] => i = j}

\* The rows of greatest priority, in its order; the order of equals is not modelled.
Batches ==
    LET size == IF Cardinality(Pending) < BatchSize THEN Cardinality(Pending) ELSE BatchSize
        rank(u) == Score(queue[u].source)
    IN {b \in SeqsOf(Pending, size) :
          /\ \A i, j \in 1..size : i < j => rank(b[i]) >= rank(b[j])
          /\ \A u \in Pending : (\A i \in 1..size : b[i] # u)
                => \A i \in 1..size : rank(b[i]) >= rank(u)}

\* With nobody pending, the authors of trending events are queued instead.
Select ==
    /\ loop.at = "select"
    /\ IF Pending = {}
       THEN \E authors \in SUBSET Pubkeys :
              loop' = [at |-> "queue", todo |-> {<<u, "trending">> : u \in authors},
                       batch |-> <<>>]
       ELSE \E b \in Batches : loop' = [at |-> "mark", batch |-> b]
    /\ UNCHANGED <<queue, paused, full, faults, left, unserved>>

\* The batch is abandoned when the database throws outside of the sync of one user.
BatchFails ==
    /\ Fault
    /\ loop.at \in {"select", "mark"}
    /\ loop' = Asleep
    /\ UNCHANGED <<queue, paused, full, left, unserved>>

Mark(u) ==
    /\ loop.at = "mark" /\ loop.batch # <<>> /\ u = Head(loop.batch)
    /\ SetStatus(u, "syncing")
    /\ loop' = [at |-> "fetch", batch |-> loop.batch]
    /\ left' = left \ {u}
    /\ unserved' = unserved \ {u}
    /\ UNCHANGED <<paused, full, faults>>

\* syncUser: relays are asked one by one, what they have is imported, and whom the user
\* follows, and whom those follow, is queued.
Fetch ==
    /\ loop.at = "fetch"
    /\ \E todo \in SUBSET (Pubkeys \X {"follow", "followOfFollow"}) :
          loop' = [at |-> "queue", todo |-> todo, batch |-> loop.batch]
    /\ UNCHANGED <<queue, paused, full, faults, left, unserved>>

\* Follows are queued before their own follows.
QueueNext ==
    /\ loop.at = "queue" /\ loop.todo # {}
    /\ \E t \in loop.todo :
          /\ (\E o \in loop.todo : o[2] = "follow") => t[2] = "follow"
          /\ Enqueue(t[1], t[2])
          /\ loop' = [loop EXCEPT !.todo = @ \ {t}]
    /\ UNCHANGED <<paused, full, faults>>

\* syncUser ends; an expansion without a batch ends the iteration.
Queued ==
    /\ loop.at = "queue" /\ loop.todo = {}
    /\ loop' = IF loop.batch = <<>> THEN Asleep ELSE [at |-> "finish", batch |-> loop.batch]
    /\ UNCHANGED <<queue, paused, full, faults, left, unserved>>

Rest(b) == [at |-> "mark", batch |-> Tail(b)]

\* The row is complete, whatever happened to it since it was marked.
Finish ==
    /\ loop.at = "finish"
    /\ SetStatus(Head(loop.batch), "complete")
    /\ loop' = Rest(loop.batch)
    /\ UNCHANGED <<paused, full, faults, left, unserved>>

\* (mutant) Nothing catches what the sync of one user throws.
SyncThrowsOut ==
    /\ Fault
    /\ loop.at \in {"fetch", "queue", "finish"} /\ loop.batch # <<>>
    /\ loop' = Asleep
    /\ UNCHANGED <<queue, paused, full, left, unserved>>

\* A database call threw while the user was synced.
SyncThrows ==
    /\ Fault
    /\ loop.at \in {"fetch", "queue", "finish"} /\ loop.batch # <<>>
    /\ loop' = [at |-> "fail", batch |-> loop.batch]
    /\ UNCHANGED <<queue, paused, full, left, unserved>>

ExpansionThrows ==
    /\ Fault
    /\ loop.at = "queue" /\ loop.batch = <<>>
    /\ loop' = Asleep
    /\ UNCHANGED <<queue, paused, full, left, unserved>>

\* (mutant) After an error the user is waited for again.
FailStops ==
    /\ loop.at = "fail"
    /\ SetStatus(Head(loop.batch), "error")
    /\ loop' = [at |-> "fail", batch |-> loop.batch]
    /\ UNCHANGED <<paused, full, faults, left, unserved>>

Fail ==
    /\ loop.at = "fail"
    /\ SetStatus(Head(loop.batch), "error")
    /\ loop' = Rest(loop.batch)
    /\ UNCHANGED <<paused, full, faults, left, unserved>>

\* The write of the error throws as well: the row stays as it is, and the batch ends.
FailThrows ==
    /\ Fault
    /\ loop.at = "fail"
    /\ loop' = Asleep
    /\ left' = left \cup (InWork \cap {Head(loop.batch)})
    /\ UNCHANGED <<queue, paused, full, unserved>>

\* The statistics are written, and the loop sleeps.
BatchEnds ==
    /\ loop.at = "mark" /\ loop.batch = <<>>
    /\ loop' = Asleep
    /\ UNCHANGED <<queue, paused, full, faults, left, unserved>>

LoopStep ==
    \/ Seed \/ Wake \/ Select \/ Fetch \/ QueueNext \/ Queued \/ Finish
    \/ Fail \/ BatchEnds
    \/ \E u \in Pubkeys : Mark(u)

Faults == BatchFails \/ SyncThrows \/ ExpansionThrows \/ FailThrows \/ Crash

SyncNext ==
    \/ LoopStep \/ Faults
    \/ Start \/ Pause \/ Boot \/ DiskChanges
    \/ \E u \in Pubkeys : AddPubkey(u)

(***************************************************************************)
(* Properties                                                              *)
(***************************************************************************)

\* A row says 'syncing' only while the loop works on it, or because a crash or the
\* database broke off its sync: nothing else leaves a user where no query for 'pending'
\* finds it.
InWorkIsCurrent == InWork \subseteq Current \cup left

\* With room for everyone in a batch, whoever is queued is synced, whatever is queued
\* meanwhile and wherever a batch breaks off, unless the loop is paused or the disk is
\* full again and again.
QueuedIsTaken ==
    BatchSize >= Cardinality(Pubkeys) =>
        \A u \in Pubkeys : (u \in Pending) ~> (u \notin Pending \/ paused \/ full)

\* A user that somebody asked for is not complete before it has been synced once more.
\* It is when it was asked for during its own sync, which then completes the new request.
AskedIsServed ==
    \A u \in DOMAIN queue : queue[u].status = "complete" => u \notin unserved

\* The rows, the loop's place and its batch are what they may be.
SyncTypeOK ==
    /\ MapOf(queue, Pubkeys, [status : {"pending", "syncing", "complete", "error"},
                              source : Sources])
    /\ loop.at \in {"none", "asleep", "down", "boot", "select", "mark", "fetch", "queue",
                    "finish", "fail"}
    /\ loop.at \in {"mark", "fetch", "queue", "finish", "fail"} =>
          /\ Len(loop.batch) <= BatchSize
          /\ \A i \in 1..Len(loop.batch) : loop.batch[i] \in DOMAIN queue
    /\ loop.at \in {"finish", "fail"} => loop.batch # <<>>
    /\ paused \in BOOLEAN /\ full \in BOOLEAN
    /\ faults \in 0..MaxFaults
    /\ left \subseteq DOMAIN queue /\ unserved \subseteq DOMAIN queue
=============================================================================
