-------------------------- MODULE RelayDiscovery ---------------------------
(***************************************************************************)
(* The relays that users' events name, and by how many users each is       *)
(* named. They are in memory and, after every event that names something   *)
(* new, in a file that is written as a whole; persists overlap, each with  *)
(* the memory of its own moment.  The events come from the syncs of logins *)
(* and from questions about other users' relays, again and again.          *)
(***************************************************************************)
EXTENDS Maps, Naturals, FiniteSets

CONSTANTS
    Urls, Namers,     \* relays, and the users whose events name them
    Persists,         \* bound: handlers that write the file
    RestartBound      \* bound: crashes

ASSUME RelayDiscoveryAssumption == IsFiniteSet(Namers) /\ RestartBound \in Nat

VARIABLES
    registry,         \* relays, seenUsers and seenWriters, by url
    saved,            \* data/discovered-relays.json, if it can be parsed
    persists,
    restarts,         \* bound: crashes so far
    spoilt            \* history: the last persist failed, or it met another one

registryVars == <<registry, saved, persists, restarts, spoilt>>

NoPersist == [at |-> "none"]
Torn == [readable |-> FALSE, relays |-> EmptyMap]
Readable(relays) == [readable |-> TRUE, relays |-> relays]

RegistryInit ==
    /\ registry = EmptyMap /\ saved = Readable(EmptyMap)
    /\ persists = [p \in Persists |-> NoPersist]
    /\ restarts = 0 /\ spoilt = FALSE

Unseen == [users |-> {}, writers |-> {}, seenInUsers |-> 0, seenInWrites |-> 0]
Entry(url) == IF url \in DOMAIN registry THEN registry[url] ELSE Unseen

\* (mutant) Every event is counted.
NamedAgain(entry, user, writes) ==
    [users |-> entry.users \cup {user},
     writers |-> IF writes THEN entry.writers \cup {user} ELSE entry.writers,
     seenInUsers |-> entry.seenInUsers + 1,
     seenInWrites |-> entry.seenInWrites + (IF writes THEN 1 ELSE 0)]

\* A user counts once for a relay, and its counts are those of the sets.
Named(entry, user, writes) ==
    LET users == entry.users \cup {user}
        writers == IF writes THEN entry.writers \cup {user} ELSE entry.writers
    IN [users |-> users, writers |-> writers,
        seenInUsers |-> Cardinality(users), seenInWrites |-> Cardinality(writers)]

Naming(urls, user, written) ==
    [url \in DOMAIN registry \cup urls |->
        IF url \in urls THEN Named(Entry(url), user, url \in written) ELSE registry[url]]

PersistStarts(p) == persists' = [persists EXCEPT ![p] = [at |-> "mkdir"]]

\* processRelayList: the relays that a user reads from and writes to.
ProcessRelayList(p, user, urls, written) ==
    /\ persists[p] = NoPersist
    /\ registry' = Naming(urls, user, written)
    /\ PersistStarts(p)
    /\ UNCHANGED <<saved, restarts, spoilt>>

\* processContactList and processMetadata: relays that are only mentioned; without a new
\* one among them nothing is written.
ProcessMentions(p, user, urls) ==
    /\ persists[p] = NoPersist
    /\ registry' = Naming(urls, user, {})
    /\ IF urls \subseteq DOMAIN registry THEN UNCHANGED persists ELSE PersistStarts(p)
    /\ UNCHANGED <<saved, restarts, spoilt>>

\* What the probes find out is kept with the relay, and written when all have been probed.
ProbeAllRelays(p) ==
    /\ persists[p] = NoPersist /\ registry # EmptyMap
    /\ PersistStarts(p)
    /\ UNCHANGED <<registry, saved, restarts, spoilt>>

Writing == {p \in Persists : persists[p].at \in {"open", "write"}}

\* p goes on, and the persists that hold an older memory are no longer alone.
Met(p, persist) ==
    [q \in Persists |-> IF q = p THEN persist
                        ELSE IF q \in Writing THEN [persists[q] EXCEPT !.alone = FALSE]
                        ELSE persists[q]]

\* The directory is there, and the memory of this moment goes into the file.
TakePayload(p) ==
    /\ persists[p].at = "mkdir"
    /\ persists' = Met(p, [at |-> "open", payload |-> registry, alone |-> Writing = {}])
    /\ UNCHANGED <<registry, saved, restarts, spoilt>>

OpenFile(p) ==
    /\ persists[p].at = "open"
    /\ saved' = Torn
    /\ persists' = [persists EXCEPT ![p].at = "write"]
    /\ UNCHANGED <<registry, restarts, spoilt>>

\* The end of a longer text that another persist has written meanwhile may remain.
WriteFile(p) ==
    /\ persists[p].at = "write"
    /\ saved' \in {Readable(persists[p].payload)} \cup (IF saved = Torn THEN {} ELSE {Torn})
    /\ spoilt' = ~persists[p].alone
    /\ persists' = [persists EXCEPT ![p] = NoPersist]
    /\ UNCHANGED <<registry, restarts>>

PersistFails(p) ==
    /\ persists[p] # NoPersist
    /\ persists' = Met(p, NoPersist)
    /\ spoilt' = TRUE
    /\ UNCHANGED <<registry, saved, restarts>>

\* loadFromDisk, before anything else is served; a file that cannot be parsed is replaced
\* by an empty one.
CrashAndLoad ==
    /\ restarts < RestartBound /\ restarts' = restarts + 1
    /\ registry' = saved.relays
    /\ saved' = Readable(saved.relays)
    /\ persists' = [p \in Persists |-> NoPersist]
    /\ spoilt' = FALSE

RegistryNext ==
    \/ CrashAndLoad
    \/ \E p \in Persists :
          \/ \E user \in Namers, urls \in SUBSET Urls \ {{}} :
                \/ \E written \in SUBSET urls : ProcessRelayList(p, user, urls, written)
                \/ ProcessMentions(p, user, urls)
          \/ ProbeAllRelays(p)
          \/ TakePayload(p) \/ OpenFile(p) \/ WriteFile(p) \/ PersistFails(p)

(***************************************************************************)
(* Properties                                                              *)
(***************************************************************************)

\* However often the events come, and across restarts, a relay's counts are the users who
\* named it; what can be read from the file was once known; and between persists the file
\* has every relay, unless the last persist failed or met another, which may be older.
RegistryIsKept ==
    /\ \A url \in DOMAIN registry :
          /\ registry[url].seenInUsers = Cardinality(registry[url].users)
          /\ registry[url].seenInWrites = Cardinality(registry[url].writers)
    /\ \A url \in DOMAIN saved.relays :
          /\ url \in DOMAIN registry
          /\ saved.relays[url].users \subseteq registry[url].users
    /\ (\A p \in Persists : persists[p] = NoPersist) /\ ~spoilt =>
          saved.readable /\ DOMAIN saved.relays = DOMAIN registry

RegistryTypeOK ==
    /\ DOMAIN registry \subseteq Urls /\ DOMAIN saved.relays \subseteq Urls
    /\ \A url \in DOMAIN registry :
          /\ registry[url].users \subseteq Namers
          /\ registry[url].writers \subseteq registry[url].users
    /\ \A p \in Persists : persists[p].at \in {"none", "mkdir", "open", "write"}
=============================================================================
