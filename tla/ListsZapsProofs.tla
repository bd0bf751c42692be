-------------------------- MODULE ListsZapsProofs --------------------------
(***************************************************************************)
(* What holds of the lists of a user and of zaps and their totals, for any *)
(* relays, entries, copies on the screen, edits, posts, clicks and loads.  *)
(***************************************************************************)
EXTENDS Client, TLAPS, FiniteSetTheorems

(***************************************************************************)
(* Lists                                                                   *)
(***************************************************************************)

Event == [items : SUBSET Items, at : Nat]
Copy ==
    [at : {"unmounted", "loading", "fetched", "ready"}, items : SUBSET Items,
     fetched : SUBSET Items, behind : BOOLEAN]
EditRecord ==
    [at : {"reading", "signing"}, copy : Copies, item : Items, adds : BOOLEAN,
     before : SUBSET Items, next : SUBSET Items, second : Nat, wanted : SUBSET Items]
SentRecord == [at : {"sent"}, next : SUBSET Items, second : Nat]

ListsTyped ==
    /\ list \in ListNames
    /\ stored \in [Relays -> Event]
    /\ copies \in [Copies -> Copy]
    /\ edits \in [Edits -> EditRecord \cup SentRecord \cup {NoEdit, Done}]
    /\ local \subseteq Items /\ wanted \subseteq Items /\ second \in Nat
    /\ inOrder \in BOOLEAN

\* Some relay has an event that none at the others is newer than.
HasNewest == Relays # {} => \E r \in Relays : \A q \in Relays : stored[q].at <= stored[r].at

NewestAre(items) == \A n \in NewestAtRelays : n.items = items

UpToDate(c, at) == copies[c].at = at /\ ~copies[c].behind

\* An edit under way knows what the list was, and what it will be; only its own copy may
\* be up to date.
KnowsTheList(edit) ==
    /\ NewestAre(edit.wanted)
    /\ wanted = Edited(edit.wanted, edit.item, edit.adds)
    /\ edit.at = "signing" => edit.next = wanted
    /\ edit.at = "reading" => list = "follows"
    /\ \A c \in Copies : UpToDate(c, "ready") \/ UpToDate(c, "fetched") => c = edit.copy
    /\ UpToDate(edit.copy, "ready") =>
          /\ copies[edit.copy].items = (IF list = "bookmarks" THEN edit.wanted ELSE wanted)
          /\ edit.before = edit.wanted

InOrderInv ==
    /\ \A e, f \in Edits : EditUnderWay(e) /\ EditUnderWay(f) => e = f
    /\ \A e \in Edits : EditUnderWay(e) /\ edits[e].at # "sent" => KnowsTheList(edits[e])
    /\ \A e \in Edits : EditUnderWay(e) /\ edits[e].at = "sent" => edits[e].next = wanted
    /\ Idle => NewestAre(wanted)
    /\ (\A e \in Edits : EditUnderWay(e) => edits[e].at = "sent") =>
          \A c \in Copies : UpToDate(c, "ready") => copies[c].items = wanted
    /\ \A c \in Copies : UpToDate(c, "fetched") => Idle /\ copies[c].fetched = wanted
    /\ list = "filters" => local = wanted

ListsInv == ListsTyped /\ HasNewest /\ (inOrder => InOrderInv)

(***************************************************************************)
(* Edits and relays                                                        *)
(***************************************************************************)

LEMMA EditKinds ==
    ASSUME NEW edit \in EditRecord \cup SentRecord \cup {NoEdit, Done}
    PROVE  /\ edit \notin {NoEdit, Done} <=> edit.at \in {"reading", "signing", "sent"}
           /\ edit.at \in {"reading", "signing"} => edit \in EditRecord
           /\ edit.at = "sent" => edit \in SentRecord
    BY DEF EditRecord, SentRecord, NoEdit, Done

\* A read that reaches the newest list is given that list.
LEMMA SeenIsNewest ==
    ASSUME ListsTyped, NEW answering \in SUBSET Relays, Sees(answering),
           NEW items \in LatestAt(answering), NEW old, NewestAre(old)
    PROVE  items = old
    <1> DEFINE seen == {stored[r] : r \in answering}
    <1>1. PICK m \in seen : m \in NewestAtRelays
        BY DEF Sees
    <1>2. answering # {}
        BY <1>1
    <1>3. PICK n \in NewestOf(seen) : items = n.items
        BY <1>2 DEF LatestAt
    <1>4. \A r \in Relays : stored[r].at \in Nat
        BY DEF ListsTyped, Event
    <1>5. n \in NewestAtRelays
        BY <1>1, <1>3, <1>4 DEF NewestOf, NewestAtRelays
    <1>6. QED BY <1>3, <1>5 DEF NewestAre

\* Lists are read from relays, which have lists of items only.
LEMMA ReadAreItems ==
    ASSUME ListsTyped, NEW answering \in SUBSET Relays, NEW items \in LatestAt(answering)
    PROVE  items \in SUBSET Items
    BY DEF ListsTyped, Event, LatestAt, NewestOf

\* An event that is later than all, and taken by a relay, is the newest.
LEMMA PublishedIsNewest ==
    ASSUME ListsTyped, HasNewest, NEW event \in Event, NEW accepting \in SUBSET Relays,
           NEW wins \in BOOLEAN,
           stored' = [r \in Relays |-> IF r \in accepting THEN Keeps(r, event, wins) ELSE stored[r]]
    PROVE  /\ stored' \in [Relays -> Event]
           /\ HasNewest'
           /\ accepting # {} /\ (\A n \in NewestAtRelays : n.at < event.at) =>
                 NewestAtRelays' = {event}
    <1>1. stored' \in [Relays -> Event]
        BY DEF ListsTyped, Keeps
    <1>2. \A r \in Relays : stored[r].at \in Nat /\ stored'[r].at \in Nat
        BY <1>1 DEF ListsTyped, Event
    <1>3. event.at \in Nat
        BY DEF Event
    <1>4. ASSUME Relays # {}
          PROVE  /\ \E r \in Relays : \A q \in Relays : stored'[q].at <= stored'[r].at
                 /\ accepting # {} /\ (\A n \in NewestAtRelays : n.at < event.at) =>
                       NewestAtRelays' = {event}
        <2>1. PICK m \in Relays : \A q \in Relays : stored[q].at <= stored[m].at
            BY <1>4 DEF HasNewest
        <2>2. stored[m] \in NewestAtRelays
            BY <2>1 DEF NewestAtRelays, NewestOf
        <2>3. CASE accepting # {} /\ event.at > stored[m].at
            <3>1. PICK a \in accepting : TRUE
                BY <2>3
            <3>2. \A r \in Relays : event.at > stored[r].at
                BY <1>2, <1>3, <2>1, <2>3
            <3>3. \A r \in Relays : stored'[r] = IF r \in accepting THEN event ELSE stored[r]
                BY <3>2 DEF Keeps
            <3>4. stored'[a] = event /\ \A q \in Relays : stored'[q].at <= event.at
                BY <1>2, <1>3, <3>1, <3>2, <3>3
            <3>5. \A n \in NewestAtRelays' : n = event
                <4> SUFFICES ASSUME NEW r \in Relays, stored'[r] \in NewestAtRelays'
                             PROVE  stored'[r] = event
                    BY DEF NewestAtRelays, NewestOf
                <4>1. event.at <= stored'[r].at
                    BY <3>1, <3>4 DEF NewestAtRelays, NewestOf
                <4>2. QED BY <1>2, <1>3, <3>2, <3>3, <4>1
            <3>6. event \in NewestAtRelays'
                BY <3>1, <3>4 DEF NewestAtRelays, NewestOf
            <3>7. QED BY <3>1, <3>4, <3>5, <3>6
        <2>4. CASE ~(accepting # {} /\ event.at > stored[m].at)
            <3>1. \A q \in Relays : stored'[q].at <= stored'[m].at
                BY <1>2, <1>3, <2>1, <2>4 DEF Keeps
            <3>2. QED BY <1>2, <1>3, <2>2, <2>4, <3>1
        <2>5. QED BY <2>3, <2>4
    <1>5. QED BY <1>1, <1>4 DEF HasNewest

(***************************************************************************)
(* The invariant                                                           *)
(***************************************************************************)

LEMMA ListsInitInv == ListsInit => ListsInv
    <1> SUFFICES ASSUME ListsInit PROVE ListsInv
        OBVIOUS
    <1>1. ListsTyped
        BY DEF ListsInit, ListsTyped, Event, NoEvent, Copy, Nowhere
    <1>2. HasNewest
        BY DEF ListsInit, HasNewest, NoEvent
    <1>3. InOrderInv
        BY DEF ListsInit, InOrderInv, EditUnderWay, UpToDate, Nowhere, NewestAre, NewestAtRelays,
               NewestOf, NoEvent
    <1>4. QED BY <1>1, <1>2, <1>3 DEF ListsInv

\* A copy that changes and is not up to date afterwards, or is as the list.
LEMMA CopyInv ==
    ASSUME ListsInv, NEW c \in Copies, NEW copy \in Copy,
           copies' = [copies EXCEPT ![c] = copy],
           UNCHANGED <<list, stored, edits, second, wanted>>,
           local' \subseteq Items, inOrder' \in BOOLEAN,
           inOrder' => /\ inOrder
                       /\ list = "filters" => local' = wanted
                       /\ copy.at = "ready" /\ ~copy.behind => Idle /\ copy.items = wanted
                       /\ copy.at = "fetched" /\ ~copy.behind => Idle /\ copy.fetched = wanted
    PROVE  ListsInv'
    <1>1. ListsTyped'
        BY DEF ListsInv, ListsTyped
    <1>2. \A d \in Copies : copies'[d] = IF d = c THEN copy ELSE copies[d]
        BY DEF ListsInv, ListsTyped
    <1>3. (Idle' <=> Idle) /\ \A e \in Edits : EditUnderWay(e)' <=> EditUnderWay(e)
        BY DEF Idle, EditUnderWay
    <1>4. ASSUME inOrder' PROVE InOrderInv'
        <2>1. ASSUME NEW e \in Edits, EditUnderWay(e), edits[e].at # "sent"
              PROVE  KnowsTheList(edits[e])'
            <3>1. edits[e].copy = c => ~UpToDate(c, "ready")'
                BY <1>2, <1>4, <2>1 DEF UpToDate, Idle
            <3>2. KnowsTheList(edits[e])
                BY <1>4, <2>1 DEF ListsInv, InOrderInv
            <3>3. edits[e].copy \in Copies
                <4>1. edits[e] \in EditRecord
                    BY <2>1, EditKinds DEF ListsInv, ListsTyped, EditUnderWay
                <4>2. QED BY <4>1 DEF EditRecord
            <3>4. QED
                BY <1>2, <1>4, <2>1, <3>1, <3>2, <3>3
                DEF KnowsTheList, UpToDate, NewestAre, NewestAtRelays, Idle
        <2>2. QED
            BY <1>2, <1>3, <1>4, <2>1 DEF ListsInv, InOrderInv, UpToDate, NewestAre, NewestAtRelays
    <1>5. QED BY <1>1, <1>4 DEF ListsInv, HasNewest

LEMMA CopiesInv ==
    ASSUME ListsInv, NEW c \in Copies,
           \/ Mount(c) \/ Unmount(c) \/ Reload(c) \/ Show(c) \/ ReloadFails(c)
           \/ \E answering \in SUBSET Relays : Fetched(c, answering)
    PROVE  ListsInv'
    <1>1. copies[c] \in Copy /\ local \subseteq Items /\ inOrder \in BOOLEAN /\ list \in ListNames
        BY DEF ListsInv, ListsTyped
    <1>2. Idle \in BOOLEAN
        BY DEF Idle
    <1>3. CASE Mount(c)
        <2> DEFINE copy == IF list = "filters"
                           THEN [at |-> "ready", items |-> local, fetched |-> {}, behind |-> ~Idle]
                           ELSE [at |-> "loading", items |-> {}, fetched |-> {}, behind |-> TRUE]
        <2>1. copy \in Copy
            BY <1>1, <1>2 DEF Copy
        <2>2. copies' = [copies EXCEPT ![c] = copy]
            BY <1>3 DEF Mount
        <2>3. inOrder /\ copy.at = "ready" /\ ~copy.behind => Idle /\ copy.items = wanted
            BY DEF ListsInv, InOrderInv
        <2>4. copy.at # "fetched"
            OBVIOUS
        <2> HIDE DEF copy
        <2>5. QED BY <1>1, <1>3, <2>1, <2>2, <2>3, <2>4, CopyInv DEF Mount, ListsInv, InOrderInv
    <1>4. CASE Unmount(c)
        <2>1. Nowhere \in Copy /\ Nowhere.at = "unmounted"
            BY DEF Nowhere, Copy
        <2>2. QED BY <1>1, <1>4, <2>1, CopyInv DEF Unmount, ListsInv, InOrderInv
    <1>5. ASSUME Reload(c) \/ ReloadFails(c) PROVE ListsInv'
        <2>1. PICK copy : /\ copies' = [copies EXCEPT ![c] = copy]
                          /\ \/ copy = [copies[c] EXCEPT !.at = "loading"]
                             \/ copy = [copies[c] EXCEPT !.at = "ready", !.behind = TRUE]
            BY <1>5 DEF Reload, ReloadFails
        <2>2. copy \in Copy /\ copy.at # "fetched" /\ (copy.at = "ready" => copy.behind)
            BY <1>1, <2>1 DEF Copy
        <2>3. UNCHANGED <<list, stored, local, edits, second, wanted, inOrder>>
            BY <1>5 DEF Reload, ReloadFails
        <2>4. inOrder => (list = "filters" => local = wanted)
            BY DEF ListsInv, InOrderInv
        <2>5. QED BY <1>1, <2>1, <2>2, <2>3, <2>4, CopyInv
    <1>6. CASE Show(c)
        <2> DEFINE copy == [copies[c] EXCEPT !.at = "ready", !.items = copies[c].fetched,
                                             !.fetched = {}]
        <2>1. copy \in Copy
            BY <1>1 DEF Copy
        <2>2. copies' = [copies EXCEPT ![c] = copy]
            BY <1>6 DEF Show
        <2>3. inOrder /\ ~copies[c].behind => Idle /\ copies[c].fetched = wanted
            BY <1>6 DEF Show, ListsInv, InOrderInv, UpToDate
        <2>4. local' \subseteq Items /\ inOrder' \in BOOLEAN
            BY <1>1, <1>6 DEF Show, Copy
        <2>5. inOrder' => inOrder /\ (list = "filters" => local' = wanted)
            BY <1>6, <2>3 DEF Show
        <2>6. copy.at = "ready" /\ copy.items = copies[c].fetched /\ copy.behind = copies[c].behind
            BY <1>1 DEF Copy
        <2> HIDE DEF copy
        <2>7. QED BY <1>6, <2>1, <2>2, <2>3, <2>4, <2>5, <2>6, CopyInv DEF Show
    <1>7. ASSUME NEW answering \in SUBSET Relays, Fetched(c, answering) PROVE ListsInv'
        <2>1. PICK items \in LatestAt(answering) :
                 copies' = [copies EXCEPT ![c] =
                    [@ EXCEPT !.at = "fetched", !.fetched = items,
                              !.behind = ~Idle \/ ~Sees(answering)]]
            BY <1>7 DEF Fetched
        <2>2. items \in SUBSET Items
            BY ReadAreItems DEF ListsInv
        <2> DEFINE copy == [copies[c] EXCEPT !.at = "fetched", !.fetched = items,
                                             !.behind = ~Idle \/ ~Sees(answering)]
        <2>3. copy \in Copy
            BY <1>1, <1>2, <2>2 DEF Copy, Sees
        <2>4. copies' = [copies EXCEPT ![c] = copy]
            BY <2>1
        <2>5. copy.at = "fetched" /\ copy.fetched = items /\ copy.behind = (~Idle \/ ~Sees(answering))
            BY <1>1 DEF Copy
        <2>6. inOrder /\ ~copy.behind => Idle /\ items = wanted
            BY <2>5, SeenIsNewest DEF ListsInv, InOrderInv
        <2> HIDE DEF copy
        <2>7. QED
            BY <1>1, <1>7, <2>3, <2>4, <2>5, <2>6, CopyInv DEF Fetched, ListsInv, InOrderInv
    <1>8. QED BY <1>3, <1>4, <1>5, <1>6, <1>7

(***************************************************************************)
(* The steps of an edit                                                    *)
(***************************************************************************)

LEMMA OvertakenTyped ==
    ASSUME ListsTyped, NEW c \in Copies, NEW copy \in Copy, copies' = Overtaken(c, copy)
    PROVE  /\ copies' \in [Copies -> Copy]
           /\ copies'[c] = copy
           /\ \A d \in Copies \ {c} : copies'[d].behind
    BY DEF ListsTyped, Overtaken, Copy

LEMMA ClickInv ==
    ASSUME ListsInv, NEW e \in Edits, NEW c \in Copies, NEW x \in Items,
           NEW silent \in BOOLEAN, Click(e, c, x, silent)
    PROVE  ListsInv'
    <1> DEFINE adds == x \notin copies[c].items
               next == Edited(copies[c].items, x, adds)
               copy == [copies[c] EXCEPT !.items = IF list # "bookmarks" THEN next ELSE @,
                                         !.behind = @ \/ copies[c].at # "ready"]
    <1> PICK started :
           started = [at |-> IF list = "follows" THEN "reading" ELSE "signing",
                      copy |-> c, item |-> x, adds |-> adds, before |-> copies[c].items,
                      next |-> next, second |-> second, wanted |-> wanted]
        OBVIOUS
    <1>1. copies[c] \in Copy /\ ListsTyped
        BY DEF ListsInv, ListsTyped
    <1>2. next \in SUBSET Items /\ Edited(wanted, x, adds) \in SUBSET Items
        BY <1>1 DEF Copy, Edited, ListsTyped
    <1>3. copy \in Copy /\ copy.behind = (copies[c].behind \/ copies[c].at # "ready")
          /\ copy.at = copies[c].at /\ copy.items = IF list # "bookmarks" THEN next ELSE copies[c].items
        BY <1>1, <1>2 DEF Copy
    <1>4. started \in EditRecord
        BY <1>1, <1>2 DEF EditRecord, ListsTyped, Copy
    <1>5. /\ copies' = Overtaken(c, copy)
          /\ local' = IF list = "filters" THEN next ELSE local
          /\ edits' = [edits EXCEPT ![e] = IF silent THEN Done ELSE started]
          /\ wanted' = Edited(wanted, x, adds)
          /\ inOrder' = (/\ inOrder /\ Idle /\ ~silent
                         /\ list # "follows" => copies[c].at = "ready" /\ ~copies[c].behind)
          /\ UNCHANGED <<list, stored, second>>
        BY DEF Click
    <1>6. /\ copies' \in [Copies -> Copy] /\ copies'[c] = copy
          /\ \A d \in Copies \ {c} : copies'[d].behind
        BY <1>1, <1>3, <1>5, OvertakenTyped
    <1>7. ListsTyped'
        BY <1>1, <1>2, <1>4, <1>5, <1>6 DEF ListsTyped
    <1>8. ASSUME inOrder' PROVE InOrderInv'
        <2>1. inOrder /\ Idle /\ ~silent /\ InOrderInv
            BY <1>5, <1>8 DEF ListsInv
        <2>2. \A f \in Edits : EditUnderWay(f)' => f = e
            BY <1>1, <1>5, <2>1 DEF Idle, EditUnderWay, ListsTyped
        <2>3. edits'[e] = started
            BY <1>1, <1>5, <2>1 DEF ListsTyped
        <2>4. EditUnderWay(e)'
            BY <1>4, <2>3, EditKinds DEF EditUnderWay
        <2>5. NewestAre(wanted)'
              <=> \A n \in NewestAtRelays : n.items = wanted'
            BY <1>5 DEF NewestAre, NewestAtRelays
        <2>6. copies[c].at = "ready" /\ ~copies[c].behind => copies[c].items = wanted
            BY <2>1 DEF InOrderInv, UpToDate, Idle
        <2>7. KnowsTheList(started)'
            <3>1. NewestAre(wanted) /\ wanted' = Edited(wanted, x, adds)
                BY <1>5, <2>1 DEF InOrderInv
            <3>2. started.at = "signing" => next = wanted'
                BY <1>5, <1>8, <2>6 DEF Click
            <3>3. \A d \in Copies : ~copies'[d].behind => d = c
                BY <1>6
            <3>4. UpToDate(c, "ready")' =>
                     /\ copies'[c].items = IF list' = "bookmarks" THEN wanted ELSE wanted'
                     /\ copies[c].items = wanted
                BY <1>3, <1>5, <1>6, <2>6 DEF UpToDate
            <3>5. QED
                BY <1>5, <3>1, <3>2, <3>3, <3>4
                DEF KnowsTheList, UpToDate, NewestAre, NewestAtRelays
        <2>8. list = "filters" => local' = wanted'
            BY <1>5, <1>8, <2>6
        <2>9. \A d \in Copies : ~UpToDate(d, "fetched")'
            BY <1>3, <1>6 DEF UpToDate
        <2>10. ~Idle'
            BY <2>4 DEF Idle
        <2>11. \A f \in Edits :
                  EditUnderWay(f)' => edits'[f].at # "sent" /\ KnowsTheList(edits[f])'
            BY <2>2, <2>3, <2>7
        <2> HIDE DEF adds, next, copy
        <2>12. QED BY <1>5, <2>2, <2>4, <2>8, <2>9, <2>10, <2>11 DEF InOrderInv
    <1>9. HasNewest'
        BY <1>5 DEF ListsInv, HasNewest
    <1>10. QED BY <1>7, <1>8, <1>9 DEF ListsInv

LEMMA ReadFollowsInv ==
    ASSUME ListsInv, NEW e \in Edits, NEW answering \in SUBSET Relays, ReadFollows(e, answering)
    PROVE  ListsInv'
    <1>1. edits[e] \in EditRecord /\ EditUnderWay(e)
        BY EditKinds DEF ReadFollows, ListsInv, ListsTyped, EditUnderWay
    <1>2. PICK items \in LatestAt(answering) :
             edits' = [edits EXCEPT ![e] =
                [@ EXCEPT !.at = "signing", !.second = second,
                          !.next = Edited(items, edits[e].item, edits[e].adds)]]
        BY DEF ReadFollows
    <1> DEFINE next == Edited(items, edits[e].item, edits[e].adds)
    <1> PICK edit : edit = [edits[e] EXCEPT !.at = "signing", !.second = second, !.next = next]
        OBVIOUS
    <1>3. next \in SUBSET Items
        BY <1>1, ReadAreItems DEF ListsInv, EditRecord, Edited
    <1>4. edit \in EditRecord
        BY <1>1, <1>3 DEF EditRecord, ListsInv, ListsTyped
    <1>5. edits' = [edits EXCEPT ![e] = edit]
        BY <1>2
    <1>6. ListsTyped' /\ edits'[e] = edit
        BY <1>4, <1>5 DEF ReadFollows, ListsInv, ListsTyped
    <1>7. \A f \in Edits : EditUnderWay(f)' <=> EditUnderWay(f)
        <2>1. edit \notin {NoEdit, Done}
            BY <1>1, <1>4, EditKinds DEF EditRecord
        <2>2. \A f \in Edits : edits'[f] = IF f = e THEN edit ELSE edits[f]
            BY <1>5 DEF ListsInv, ListsTyped
        <2>3. QED BY <1>1, <2>1, <2>2 DEF EditUnderWay
    <1>8. ASSUME inOrder' PROVE InOrderInv'
        <2>1. inOrder /\ Sees(answering) /\ InOrderInv /\ KnowsTheList(edits[e])
            BY <1>1, <1>8 DEF ReadFollows, ListsInv, InOrderInv
        <2>2. items = edits[e].wanted
            BY <2>1, SeenIsNewest DEF ListsInv, KnowsTheList
        <2>3. next = wanted
            BY <2>1, <2>2 DEF KnowsTheList
        <2> PICK old : old = edits[e]
            OBVIOUS
        <2>4. KnowsTheList(edit)'
            <3>1. /\ edit.at = "signing" /\ edit.copy = old.copy /\ edit.item = old.item
                  /\ edit.adds = old.adds /\ edit.before = old.before /\ edit.next = wanted
                  /\ edit.wanted = old.wanted
                BY <1>1, <2>3 DEF EditRecord
            <3>2. UNCHANGED <<list, stored, copies, local, wanted>>
                BY DEF ReadFollows
            <3>3. QED BY <2>1, <3>1, <3>2 DEF KnowsTheList, UpToDate, NewestAre, NewestAtRelays
        <2>5. \A f \in Edits : EditUnderWay(f)' => f = e
            BY <1>1, <1>7, <2>1 DEF InOrderInv
        <2>6. ~Idle /\ ~Idle'
            BY <1>1, <1>7 DEF Idle
        <2>7. \A f \in Edits :
                 EditUnderWay(f)' => edits'[f].at # "sent" /\ KnowsTheList(edits[f])'
            BY <1>1, <1>6, <2>4, <2>5 DEF EditRecord
        <2>8. \A c \in Copies : ~UpToDate(c, "fetched")'
            BY <2>1, <2>6 DEF InOrderInv, UpToDate, ReadFollows
        <2>9. list' = "filters" => local' = wanted'
            BY <2>1 DEF InOrderInv, ReadFollows
        <2>10. EditUnderWay(e)'
            BY <1>1, <1>7
        <2>11. QED BY <2>5, <2>6, <2>7, <2>8, <2>9, <2>10 DEF InOrderInv
    <1>9. QED BY <1>6, <1>8 DEF ListsInv, HasNewest, ReadFollows

\* The end of the only edit: nothing is under way, and no fetched copy is up to date.
LEMMA EditEnds ==
    ASSUME ListsTyped, InOrderInv, NEW e \in Edits, EditUnderWay(e),
           edits[e].at = "signing", edits' = [edits EXCEPT ![e] = Done]
    PROVE  /\ Idle' /\ (\A f \in Edits : ~EditUnderWay(f)') /\ KnowsTheList(edits[e])
           /\ \A c \in Copies : ~UpToDate(c, "fetched")
           /\ \A c \in Copies : UpToDate(c, "ready") => c = edits[e].copy
    <1>1. \A f \in Edits : f # e => ~EditUnderWay(f)
        BY DEF InOrderInv
    <1>2. \A f \in Edits : ~EditUnderWay(f)'
        BY <1>1 DEF ListsTyped, EditUnderWay
    <1>3. \A c \in Copies : ~UpToDate(c, "fetched")
        BY DEF InOrderInv, Idle
    <1>4. QED BY <1>2, <1>3 DEF Idle, InOrderInv, KnowsTheList

LEMMA PublishInv ==
    ASSUME ListsInv, NEW e \in Edits, Publish(e)
    PROVE  ListsInv'
    <1> PICK edit : edit = edits[e]
        OBVIOUS
    <1> PICK sent : sent = [at |-> "sent", next |-> edit.next, second |-> edit.second]
        OBVIOUS
    <1> PICK copy : copy = IF list = "bookmarks" THEN [copies[edit.copy] EXCEPT !.items = edit.next]
                           ELSE copies[edit.copy]
        OBVIOUS
    <1>1. edit \in EditRecord /\ EditUnderWay(e) /\ edit.at = "signing"
        BY EditKinds DEF Publish, ListsInv, ListsTyped, EditUnderWay
    <1>2. /\ edit.copy \in Copies /\ ListsTyped /\ copies[edit.copy] \in Copy
          /\ edit.next \in SUBSET Items
        BY <1>1 DEF EditRecord, ListsInv, ListsTyped
    <1>3. /\ copies' = Overtaken(edit.copy, copy)
          /\ edits' = [edits EXCEPT ![e] = sent]
          /\ UNCHANGED <<list, stored, local, second, wanted, inOrder>>
        BY DEF Publish
    <1>4. sent \in SentRecord /\ sent.at = "sent" /\ sent.next = edit.next
        BY <1>1 DEF EditRecord, SentRecord
    <1>5. /\ copy \in Copy /\ copy.at = copies[edit.copy].at
          /\ copy.behind = copies[edit.copy].behind
          /\ copy.items = IF list = "bookmarks" THEN edit.next ELSE copies[edit.copy].items
        BY <1>2 DEF Copy
    <1>6. /\ copies' \in [Copies -> Copy] /\ copies'[edit.copy] = copy
          /\ \A d \in Copies \ {edit.copy} : copies'[d].behind
        BY <1>2, <1>3, <1>5, OvertakenTyped
    <1>7. ListsTyped' /\ edits'[e] = sent /\ \A f \in Edits \ {e} : edits'[f] = edits[f]
        BY <1>2, <1>3, <1>4, <1>6 DEF ListsTyped
    <1>8. \A f \in Edits : EditUnderWay(f)' <=> EditUnderWay(f)
        <2>1. EditUnderWay(e)'
            BY <1>4, <1>7, EditKinds DEF EditUnderWay
        <2>2. QED BY <1>1, <1>7, <2>1 DEF EditUnderWay
    <1>9. ASSUME inOrder' PROVE InOrderInv'
        <2>1. InOrderInv /\ KnowsTheList(edit)
            BY <1>1, <1>3, <1>9 DEF ListsInv, InOrderInv
        <2>2. edit.next = wanted
            BY <1>1, <2>1 DEF KnowsTheList
        <2>3. \A f \in Edits : EditUnderWay(f)' => f = e
            BY <1>1, <1>8, <2>1 DEF InOrderInv
        <2>4. ~Idle /\ ~Idle'
            BY <1>1, <1>8 DEF Idle
        <2>5. UpToDate(edit.copy, "ready")' => copies'[edit.copy].items = wanted'
            <3>1. UpToDate(edit.copy, "ready")' => UpToDate(edit.copy, "ready")
                BY <1>5, <1>6 DEF UpToDate
            <3>2. UpToDate(edit.copy, "ready")' => copy.items = wanted
                BY <1>5, <2>1, <2>2, <3>1 DEF KnowsTheList
            <3>3. QED BY <1>3, <1>6, <3>2
        <2>6. \A d \in Copies : UpToDate(d, "ready")' => copies'[d].items = wanted'
            BY <1>6, <2>5 DEF UpToDate
        <2>7. \A d \in Copies : ~UpToDate(d, "fetched")'
            BY <1>5, <1>6, <2>1, <2>4 DEF InOrderInv, UpToDate
        <2>8. list' = "filters" => local' = wanted'
            BY <1>3, <2>1 DEF InOrderInv
        <2>9. \A f \in Edits :
                  EditUnderWay(f)' => edits'[f].at = "sent" /\ edits'[f].next = wanted'
            BY <1>3, <1>4, <1>7, <2>2, <2>3
        <2>10. QED BY <2>3, <2>4, <2>6, <2>7, <2>8, <2>9 DEF InOrderInv
    <1>10. HasNewest'
        BY <1>3 DEF ListsInv, HasNewest
    <1>11. QED BY <1>7, <1>9, <1>10 DEF ListsInv

LEMMA RelaysStoreInv ==
    ASSUME ListsInv, NEW e \in Edits, NEW accepting \in SUBSET Relays, NEW wins \in BOOLEAN,
           RelaysStore(e, accepting, wins)
    PROVE  ListsInv'
    <1> PICK edit : edit = edits[e]
        OBVIOUS
    <1> DEFINE event == [items |-> edit.next, at |-> edit.second]
    <1>1. edit \in SentRecord /\ EditUnderWay(e) /\ edit.at = "sent"
        BY EditKinds DEF RelaysStore, ListsInv, ListsTyped, EditUnderWay
    <1>2. event \in Event /\ ListsTyped
        BY <1>1 DEF Event, SentRecord, ListsInv
    <1>3. /\ stored' = [r \in Relays |-> IF r \in accepting THEN Keeps(r, event, wins)
                                         ELSE stored[r]]
          /\ edits' = [edits EXCEPT ![e] = Done]
          /\ inOrder' = (inOrder /\ accepting # {} /\ \A n \in NewestAtRelays : n.at < edit.second)
          /\ UNCHANGED <<list, copies, local, second, wanted>>
        BY DEF RelaysStore
    <1>4. /\ stored' \in [Relays -> Event] /\ HasNewest'
          /\ inOrder' => NewestAtRelays' = {event}
        <2>1. event.at = edit.second
            OBVIOUS
        <2> HIDE DEF event
        <2>2. QED BY <1>2, <1>3, <2>1, PublishedIsNewest DEF ListsInv
    <1>5. ListsTyped'
        BY <1>2, <1>3, <1>4 DEF ListsTyped
    <1>6. ASSUME inOrder' PROVE InOrderInv'
        <2>1. InOrderInv /\ edit.next = wanted
            BY <1>1, <1>3, <1>6 DEF ListsInv, InOrderInv
        <2>2. \A f \in Edits : f # e => ~EditUnderWay(f)
            BY <1>1, <2>1 DEF InOrderInv
        <2>3. /\ \A f \in Edits : edits'[f] = IF f = e THEN Done ELSE edits[f]
              /\ \A f \in Edits : ~EditUnderWay(f)'
            BY <1>2, <1>3, <2>2 DEF ListsTyped, EditUnderWay
        <2>4. NewestAre(wanted)'
            BY <1>3, <1>4, <1>6, <2>1 DEF NewestAre
        <2>5. \A f \in Edits : EditUnderWay(f) => edits[f].at = "sent"
            BY <1>1, <2>2
        <2>6. \A c \in Copies : UpToDate(c, "ready") => copies[c].items = wanted
            BY <2>1, <2>5 DEF InOrderInv
        <2>7. \A c \in Copies : ~UpToDate(c, "fetched")
            BY <1>1, <2>1 DEF InOrderInv, Idle
        <2>8. Idle'
            BY <2>3 DEF Idle
        <2>9. QED BY <1>3, <2>1, <2>3, <2>4, <2>6, <2>7, <2>8 DEF InOrderInv, UpToDate
    <1>7. QED BY <1>4, <1>5, <1>6 DEF ListsInv

LEMMA DeclineInv ==
    ASSUME ListsInv, NEW e \in Edits, Decline(e)
    PROVE  ListsInv'
    <1> PICK edit : edit = edits[e]
        OBVIOUS
    <1>1. /\ edit \in EditRecord /\ EditUnderWay(e) /\ edit.at = "signing"
          /\ list \in {"follows", "bookmarks"}
        BY EditKinds DEF Decline, ListsInv, ListsTyped, EditUnderWay
    <1>2. /\ copies' = IF list = "follows"
                       THEN [copies EXCEPT ![edit.copy] = [@ EXCEPT !.items = edit.before]]
                       ELSE copies
          /\ edits' = [edits EXCEPT ![e] = Done]
          /\ wanted' = edit.wanted
          /\ UNCHANGED <<list, stored, local, second, inOrder>>
        BY DEF Decline
    <1>3. edit.copy \in Copies /\ edit.before \in SUBSET Items /\ edit.wanted \in SUBSET Items
        BY <1>1 DEF EditRecord
    <1>4. /\ copies' \in [Copies -> Copy]
          /\ \A c \in Copies : /\ copies'[c].at = copies[c].at /\ copies'[c].behind = copies[c].behind
                               /\ c = edit.copy /\ list = "follows" => copies'[c].items = edit.before
                               /\ list # "follows" => copies'[c].items = copies[c].items
        BY <1>2, <1>3 DEF ListsInv, ListsTyped, Copy
    <1>5. ListsTyped' /\ HasNewest'
        BY <1>2, <1>3, <1>4 DEF ListsInv, ListsTyped, HasNewest
    <1>6. ASSUME inOrder' PROVE InOrderInv'
        <2>1. InOrderInv
            BY <1>2, <1>6 DEF ListsInv
        <2>2. /\ Idle' /\ (\A f \in Edits : ~EditUnderWay(f)') /\ KnowsTheList(edit)
              /\ \A c \in Copies : ~UpToDate(c, "fetched")
              /\ \A c \in Copies : UpToDate(c, "ready") => c = edit.copy
            BY <1>1, <1>2, <2>1, EditEnds DEF ListsInv
        <2>3. NewestAre(wanted)'
            BY <1>2, <2>2 DEF KnowsTheList, NewestAre, NewestAtRelays
        <2>4. \A c \in Copies : UpToDate(c, "ready")' => copies'[c].items = wanted'
            BY <1>1, <1>2, <1>4, <2>2 DEF KnowsTheList, UpToDate
        <2>5. \A c \in Copies : ~UpToDate(c, "fetched")'
            BY <1>4, <2>2 DEF UpToDate
        <2>6. QED BY <1>1, <1>2, <2>2, <2>3, <2>4, <2>5 DEF InOrderInv
    <1>7. QED BY <1>5, <1>6 DEF ListsInv

LEMMA ListsNextInv == ListsInv /\ [ListsNext]_listVars => ListsInv'
    <1> SUFFICES ASSUME ListsInv, [ListsNext]_listVars PROVE ListsInv'
        OBVIOUS
    <1>1. ASSUME UNCHANGED <<list, stored, copies, local, edits, wanted, inOrder>>, second' \in Nat
          PROVE  ListsInv'
        BY <1>1 DEF ListsInv, ListsTyped, HasNewest, InOrderInv, KnowsTheList, UpToDate, Idle,
                    EditUnderWay, NewestAre, NewestAtRelays
    <1>2. CASE ListTick
        BY <1>1, <1>2 DEF ListTick, ListsInv, ListsTyped
    <1>3. CASE UNCHANGED listVars
        BY <1>1, <1>3 DEF listVars, ListsInv, ListsTyped
    <1>4. QED
        BY <1>2, <1>3, CopiesInv, ClickInv, ReadFollowsInv, PublishInv, RelaysStoreInv, DeclineInv
           DEF ListsNext

\* For any relays, entries, copies and edits: what the clicks add up to is what the relays
\* have in the end, and every copy that is up to date, as long as each edit starts from the
\* newest list and ends before the next one.
THEOREM ListsAddUp == Spec => []EditsCompose
    <1>1. Init => ListsInv
        BY ListsInitInv DEF Init
    <1>2. ListsInv /\ [Next]_clientVars => ListsInv'
        BY ListsNextInv DEF Next, clientVars
    <1>3. ListsInv => EditsCompose
        BY DEF ListsInv, InOrderInv, EditsCompose, NewestAre, UpToDate, Idle
    <1>4. QED BY <1>1, <1>2, <1>3, PTL DEF Spec

(***************************************************************************)
(* Zaps                                                                    *)
(***************************************************************************)

Statuses == {"none", "pending", "confirmed", "failed"}
InvoiceRecord == [zap : Zaps, item : ZapItems, number : Nat]

\* What remains of the wallets to try: a link to an app is always among them.
AttemptsLeft ==
    {<<"webln", "nwc", "external">>, <<"nwc", "webln", "external">>, <<"nwc", "external">>,
     <<"webln", "external">>, <<"external">>, <<"external", "webln", "nwc">>}

ZapRecord ==
    [at : {"invoice", "wallet"}, item : ZapItems, left : AttemptsLeft]
    \cup [at : {"ended"}, item : ZapItems, left : {<<>>}]

ZapsTyped ==
    /\ zaps \in [Zaps -> ZapRecord \cup {NoZap}]
    /\ pendingZaps \in [Zaps -> Statuses]
    /\ issued \in [Zaps -> Nat]
    /\ charged \subseteq InvoiceRecord /\ IsFiniteSet(charged)
    /\ linked \subseteq InvoiceRecord
    /\ IsFiniteSet(others)
    /\ zapTotals \in [ZapItems -> Nat]

GivenOut == charged \cup linked

\* A wallet has had an invoice only while the zap is with the wallets or after, and it is
\* the last one that arrived.
GivenIsLatest ==
    \A i \in GivenOut : zaps[i.zap].at \in {"wallet", "ended"} /\ i = Invoice(i.zap)

StatusIsTrue ==
    \A z \in Zaps :
        /\ pendingZaps[z] \in {"failed", "confirmed"} => zaps[z].at = "ended"
        /\ pendingZaps[z] = "failed" => \A i \in GivenOut : i.zap # z
        /\ pendingZaps[z] = "confirmed" => \E i \in GivenOut : i.zap = z

ReceiptsFor(item) == {r \in Receipts : r.item = item}

TotalsArePublished == \A item \in ZapItems : zapTotals[item] <= Cardinality(ReceiptsFor(item))

ZapsInv == ZapsTyped /\ GivenIsLatest /\ StatusIsTrue /\ TotalsArePublished

LEMMA ZapFields ==
    ASSUME NEW zap \in ZapRecord \cup {NoZap}
    PROVE  /\ zap # NoZap <=> zap.at # "none"
           /\ zap.at \in {"none", "invoice", "wallet", "ended"}
           /\ zap.at # "none" => zap.item \in ZapItems
           /\ zap.at \in {"invoice", "wallet"} => zap.left \in AttemptsLeft
    BY DEF ZapRecord, NoZap

LEMMA FinitelyMany == ZapsTyped => IsFiniteSet(Receipts)
    BY FS_Union DEF ZapsTyped, Receipts

\* The receipts are finite, and only grow, so that totals stay below them.
LEMMA MorePublished ==
    ASSUME ZapsInv, Receipts \subseteq Receipts', IsFiniteSet(Receipts'), UNCHANGED zapTotals
    PROVE  TotalsArePublished'
    <1> SUFFICES ASSUME NEW item \in ZapItems
                 PROVE  zapTotals[item] <= Cardinality(ReceiptsFor(item)')
        BY DEF TotalsArePublished
    <1>1. ReceiptsFor(item) \subseteq ReceiptsFor(item)' /\ ReceiptsFor(item)' \subseteq Receipts'
        BY DEF ReceiptsFor, Receipts
    <1>2. IsFiniteSet(ReceiptsFor(item)')
        BY <1>1, FS_Subset
    <1>3. /\ Cardinality(ReceiptsFor(item)) <= Cardinality(ReceiptsFor(item)')
          /\ IsFiniteSet(ReceiptsFor(item))
        BY <1>1, <1>2, FS_Subset
    <1>4. Cardinality(ReceiptsFor(item)) \in Nat /\ Cardinality(ReceiptsFor(item)') \in Nat
        BY <1>2, <1>3, FS_CardinalityType
    <1>5. zapTotals[item] \in Nat /\ zapTotals[item] <= Cardinality(ReceiptsFor(item))
        BY DEF ZapsInv, ZapsTyped, TotalsArePublished
    <1>6. QED BY <1>3, <1>4, <1>5

LEMMA OnePaid ==
    ASSUME ZapsInv, NEW i, charged' = charged \cup {i} \/ UNCHANGED charged, UNCHANGED others
    PROVE  /\ charged \subseteq charged' /\ IsFiniteSet(charged')
           /\ Receipts \subseteq Receipts' /\ IsFiniteSet(Receipts')
    <1>1. IsFiniteSet(charged) /\ IsFiniteSet(others)
        BY DEF ZapsInv, ZapsTyped
    <1>2. IsFiniteSet(charged')
        BY <1>1, FS_AddElement
    <1>3. Receipts' = charged' \cup others
        BY DEF Receipts
    <1>4. IsFiniteSet(Receipts')
        BY <1>1, <1>2, <1>3, FS_Union
    <1>5. charged \subseteq charged' /\ Receipts \subseteq Receipts'
        BY <1>3 DEF Receipts
    <1>6. QED BY <1>2, <1>4, <1>5

(***************************************************************************)
(* One zap                                                                 *)
(***************************************************************************)

LEMMA OnZapInv ==
    ASSUME ZapsInv, NEW z \in Zaps, NEW item \in ZapItems,
           NEW requested \in {"webln", "nwc", "external"}, OnZap(z, item, requested)
    PROVE  ZapsInv'
    <1>1. Attempts(requested) \in AttemptsLeft
        BY DEF Attempts, AttemptsLeft
    <1>2. zaps' \in [Zaps -> ZapRecord \cup {NoZap}]
        BY <1>1 DEF OnZap, ZapsInv, ZapsTyped, ZapRecord
    <1>3. zaps[z].at = "none" /\ pendingZaps[z] = "none"
        BY DEF OnZap, NoZap
    <1>4. /\ zaps' = [zaps EXCEPT ![z] = zaps'[z]] /\ pendingZaps' = [pendingZaps EXCEPT ![z] = "pending"]
          /\ UNCHANGED <<issued, linked, charged, others, zapTotals>>
        BY DEF OnZap, ZapsInv, ZapsTyped
    <1>5. ZapsTyped'
        BY <1>2, <1>4 DEF ZapsInv, ZapsTyped, Statuses
    <1>6. \A i \in GivenOut : i.zap # z /\ i.zap \in Zaps
        BY <1>3 DEF ZapsInv, ZapsTyped, GivenIsLatest, GivenOut, InvoiceRecord
    <1>7. GivenIsLatest'
        BY <1>4, <1>6 DEF ZapsInv, ZapsTyped, GivenIsLatest, GivenOut, Invoice
    <1>8. StatusIsTrue'
        BY <1>4 DEF ZapsInv, ZapsTyped, StatusIsTrue, GivenOut
    <1>9. TotalsArePublished'
        BY <1>4 DEF ZapsInv, TotalsArePublished, ReceiptsFor, Receipts
    <1>10. QED BY <1>5, <1>7, <1>8, <1>9 DEF ZapsInv

\* A zap ends without an invoice that anyone has, or with one that is given out.
LEMMA EndsInv ==
    ASSUME ZapsInv, NEW z \in Zaps, NEW result \in {"failed", "confirmed"}, EndsAs(z, result),
           zaps[z].at \in {"invoice", "wallet"},
           result = "failed" => zaps[z].at = "invoice",
           NEW i, result = "confirmed" => i = Invoice(z),
           \/ GivenOut' = GivenOut /\ result = "failed"
           \/ GivenOut' = GivenOut \cup {i} /\ result = "confirmed" /\ zaps[z].at = "wallet",
           UNCHANGED <<issued, zapTotals>>
    PROVE  /\ zaps' \in [Zaps -> ZapRecord \cup {NoZap}] /\ pendingZaps' \in [Zaps -> Statuses]
           /\ GivenIsLatest' /\ StatusIsTrue'
    <1>1. zaps[z].item \in ZapItems
        BY ZapFields DEF ZapsInv, ZapsTyped
    <1>2. /\ zaps' = [zaps EXCEPT ![z] = [at |-> "ended", item |-> zaps[z].item, left |-> <<>>]]
          /\ pendingZaps' = [pendingZaps EXCEPT ![z] = result]
        BY DEF EndsAs
    <1>3. zaps' \in [Zaps -> ZapRecord \cup {NoZap}] /\ pendingZaps' \in [Zaps -> Statuses]
        BY <1>1, <1>2 DEF ZapsInv, ZapsTyped, ZapRecord, Statuses
    <1>4. \A y \in Zaps : zaps'[y].item = zaps[y].item /\ (y # z => zaps'[y] = zaps[y])
        BY <1>2 DEF ZapsInv, ZapsTyped
    <1>5. zaps'[z].at = "ended" /\ pendingZaps'[z] = result
        BY <1>2 DEF ZapsInv, ZapsTyped
    <1>6. \A j \in GivenOut : j.zap \in Zaps
        BY DEF GivenOut, ZapsInv, ZapsTyped, InvoiceRecord
    <1>7. result = "confirmed" => i.zap = z /\ i = Invoice(z)'
        BY <1>4 DEF Invoice
    <1>8. \A y \in Zaps : Invoice(y)' = Invoice(y)
        BY <1>4 DEF Invoice
    <1>9. GivenIsLatest'
        <2> SUFFICES ASSUME NEW j \in GivenOut'
                     PROVE  zaps'[j.zap].at \in {"wallet", "ended"} /\ j = Invoice(j.zap)'
            BY DEF GivenIsLatest
        <2>1. CASE j \in GivenOut
            BY <1>4, <1>5, <1>6, <1>8, <2>1 DEF ZapsInv, GivenIsLatest
        <2>2. CASE j \notin GivenOut
            BY <1>5, <1>7, <2>2
        <2>3. QED BY <2>1, <2>2
    <1>10. result = "failed" => \A j \in GivenOut : j.zap # z
        BY DEF ZapsInv, GivenIsLatest
    <1>11. StatusIsTrue'
        <2> SUFFICES ASSUME NEW y \in Zaps
                     PROVE  /\ pendingZaps'[y] \in {"failed", "confirmed"} => zaps'[y].at = "ended"
                            /\ pendingZaps'[y] = "failed" => \A j \in GivenOut' : j.zap # y
                            /\ pendingZaps'[y] = "confirmed" => \E j \in GivenOut' : j.zap = y
            BY DEF StatusIsTrue
        <2>1. CASE y = z
            BY <1>5, <1>7, <1>10, <2>1
        <2>2. CASE y # z
            <3>1. pendingZaps'[y] = pendingZaps[y] /\ zaps'[y] = zaps[y]
                BY <1>2, <1>4, <2>2 DEF ZapsInv, ZapsTyped
            <3>2. \A j \in GivenOut' : j \in GivenOut \/ j.zap = z
                BY <1>7
            <3>3. QED BY <2>2, <3>1, <3>2 DEF ZapsInv, StatusIsTrue
        <2>3. QED BY <2>1, <2>2
    <1>12. QED BY <1>3, <1>9, <1>11

LEMMA BeforeInvoiceFailsInv ==
    ASSUME ZapsInv, NEW z \in Zaps, BeforeInvoiceFails(z)
    PROVE  ZapsInv'
    <1>1. /\ zaps[z].at = "invoice" /\ EndsAs(z, "failed")
          /\ UNCHANGED <<issued, linked, charged, others, zapTotals>>
        BY DEF BeforeInvoiceFails
    <1>2. GivenOut' = GivenOut
        BY <1>1 DEF GivenOut
    <1>3. /\ zaps' \in [Zaps -> ZapRecord \cup {NoZap}] /\ pendingZaps' \in [Zaps -> Statuses]
          /\ GivenIsLatest' /\ StatusIsTrue'
        BY <1>1, <1>2, EndsInv
    <1>4. TotalsArePublished'
        BY <1>1 DEF ZapsInv, TotalsArePublished, ReceiptsFor, Receipts
    <1>5. QED BY <1>1, <1>3, <1>4 DEF ZapsInv, ZapsTyped

LEMMA InvoiceArrivesInv ==
    ASSUME ZapsInv, NEW z \in Zaps, InvoiceArrives(z)
    PROVE  ZapsInv'
    <1>1. /\ zaps[z].at = "invoice" /\ issued' = [issued EXCEPT ![z] = @ + 1]
          /\ zaps' = [zaps EXCEPT ![z].at = "wallet"]
          /\ UNCHANGED <<pendingZaps, linked, charged, others, zapTotals>>
        BY DEF InvoiceArrives
    <1>2. zaps' \in [Zaps -> ZapRecord \cup {NoZap}]
        <2>1. zaps[z] \in [at : {"invoice", "wallet"}, item : ZapItems, left : AttemptsLeft]
            BY <1>1 DEF ZapsInv, ZapsTyped, ZapRecord, NoZap
        <2>2. [zaps[z] EXCEPT !.at = "wallet"] \in ZapRecord
            BY <2>1 DEF ZapRecord
        <2>3. QED BY <1>1, <2>2 DEF ZapsInv, ZapsTyped
    <1>3. ZapsTyped'
        BY <1>1, <1>2 DEF ZapsInv, ZapsTyped
    <1>4. \A i \in GivenOut : i.zap \in Zaps /\ i.zap # z
        BY <1>1 DEF ZapsInv, ZapsTyped, GivenIsLatest, GivenOut, InvoiceRecord
    <1>5. \A y \in Zaps : y # z => zaps'[y] = zaps[y] /\ Invoice(y)' = Invoice(y)
        BY <1>1 DEF ZapsInv, ZapsTyped, Invoice
    <1>6. GivenOut' = GivenOut
        BY <1>1 DEF GivenOut
    <1>7. GivenIsLatest'
        BY <1>4, <1>5, <1>6 DEF ZapsInv, GivenIsLatest
    <1>8. pendingZaps[z] \notin {"failed", "confirmed"}
        BY <1>1 DEF ZapsInv, StatusIsTrue
    <1>9. StatusIsTrue'
        BY <1>1, <1>5, <1>6, <1>8 DEF ZapsInv, StatusIsTrue
    <1>10. TotalsArePublished'
        BY <1>1 DEF ZapsInv, TotalsArePublished, ReceiptsFor, Receipts
    <1>11. QED BY <1>3, <1>7, <1>9, <1>10 DEF ZapsInv

LEMMA InvoiceTyped ==
    ASSUME ZapsInv, NEW z \in Zaps, zaps[z].at = "wallet"
    PROVE  Invoice(z) \in InvoiceRecord /\ Invoice(z).zap = z
    BY ZapFields DEF ZapsInv, ZapsTyped, Invoice, InvoiceRecord

LEMMA WalletPaysInv ==
    ASSUME ZapsInv, NEW z \in Zaps, WalletPays(z)
    PROVE  ZapsInv'
    <1>1. /\ zaps[z].at = "wallet" /\ EndsAs(z, "confirmed")
          /\ charged' = charged \cup {Invoice(z)} /\ UNCHANGED <<issued, linked, others, zapTotals>>
        BY DEF WalletPays, WithWallet
    <1>2. GivenOut' = GivenOut \cup {Invoice(z)}
        BY <1>1 DEF GivenOut
    <1>3. /\ zaps' \in [Zaps -> ZapRecord \cup {NoZap}] /\ pendingZaps' \in [Zaps -> Statuses]
          /\ GivenIsLatest' /\ StatusIsTrue'
        BY <1>1, <1>2, EndsInv
    <1>4. /\ charged \subseteq charged' /\ IsFiniteSet(charged')
          /\ Receipts \subseteq Receipts' /\ IsFiniteSet(Receipts')
        BY <1>1, OnePaid
    <1>5. charged' \subseteq InvoiceRecord
        BY <1>1, InvoiceTyped DEF ZapsInv, ZapsTyped
    <1>6. TotalsArePublished'
        BY <1>1, <1>4, MorePublished
    <1>7. QED BY <1>1, <1>3, <1>4, <1>5, <1>6 DEF ZapsInv, ZapsTyped

LEMMA OpenLinkInv ==
    ASSUME ZapsInv, NEW z \in Zaps, OpenLink(z)
    PROVE  ZapsInv'
    <1>1. /\ zaps[z].at = "wallet" /\ EndsAs(z, "confirmed")
          /\ linked' = linked \cup {Invoice(z)} /\ UNCHANGED <<issued, charged, others, zapTotals>>
        BY DEF OpenLink, WithWallet
    <1>2. GivenOut' = GivenOut \cup {Invoice(z)}
        BY <1>1 DEF GivenOut
    <1>3. /\ zaps' \in [Zaps -> ZapRecord \cup {NoZap}] /\ pendingZaps' \in [Zaps -> Statuses]
          /\ GivenIsLatest' /\ StatusIsTrue'
        BY <1>1, <1>2, EndsInv
    <1>4. linked' \subseteq InvoiceRecord
        BY <1>1, InvoiceTyped DEF ZapsInv, ZapsTyped
    <1>5. TotalsArePublished'
        BY <1>1 DEF ZapsInv, TotalsArePublished, ReceiptsFor, Receipts
    <1>6. QED BY <1>1, <1>3, <1>4, <1>5 DEF ZapsInv, ZapsTyped

\* After a wallet that fails another one is left: the link is never tried before the last.
LEMMA AnotherIsLeft ==
    ASSUME NEW left \in AttemptsLeft, Head(left) \in {"webln", "nwc"}
    PROVE  Len(left) # 1 /\ Tail(left) \in AttemptsLeft
    <1>1. left # <<"external">> /\ left # <<"external", "webln", "nwc">>
        OBVIOUS
    <1>2. CASE left = <<"webln", "nwc", "external">>
        <2>1. Len(left) = 3 /\ Tail(left) = <<"nwc", "external">>
            BY <1>2
        <2>2. QED BY <2>1 DEF AttemptsLeft
    <1>3. CASE left = <<"nwc", "webln", "external">>
        <2>1. Len(left) = 3 /\ Tail(left) = <<"webln", "external">>
            BY <1>3
        <2>2. QED BY <2>1 DEF AttemptsLeft
    <1>4. CASE left = <<"nwc", "external">>
        <2>1. Len(left) = 2 /\ Tail(left) = <<"external">>
            BY <1>4
        <2>2. QED BY <2>1 DEF AttemptsLeft
    <1>5. CASE left = <<"webln", "external">>
        <2>1. Len(left) = 2 /\ Tail(left) = <<"external">>
            BY <1>5
        <2>2. QED BY <2>1 DEF AttemptsLeft
    <1>6. QED BY <1>1, <1>2, <1>3, <1>4, <1>5 DEF AttemptsLeft

LEMMA WalletFailsInv ==
    ASSUME ZapsInv, NEW z \in Zaps, WalletFails(z)
    PROVE  ZapsInv'
    <1>1. /\ zaps[z].at = "wallet" /\ Head(zaps[z].left) \in {"webln", "nwc"}
          /\ UNCHANGED <<issued, linked, others, zapTotals>>
        BY DEF WalletFails, WithWallet
    <1>2. zaps[z] \in [at : {"invoice", "wallet"}, item : ZapItems, left : AttemptsLeft]
        BY <1>1 DEF ZapsInv, ZapsTyped, ZapRecord, NoZap
    <1>3. Len(zaps[z].left) # 1 /\ Tail(zaps[z].left) \in AttemptsLeft
        BY <1>1, <1>2, AnotherIsLeft
    <1>4. zaps' = [zaps EXCEPT ![z].left = Tail(@)] /\ UNCHANGED pendingZaps
        BY <1>3 DEF WalletFails
    <1>5. zaps' \in [Zaps -> ZapRecord \cup {NoZap}]
        <2>1. [zaps[z] EXCEPT !.left = Tail(@)] \in ZapRecord
            BY <1>2, <1>3 DEF ZapRecord
        <2>2. QED BY <1>4, <2>1 DEF ZapsInv, ZapsTyped
    <1>6. /\ charged' \in {charged, charged \cup {Invoice(z)}}
        BY DEF WalletFails
    <1>7. /\ charged \subseteq charged' /\ IsFiniteSet(charged')
          /\ Receipts \subseteq Receipts' /\ IsFiniteSet(Receipts')
        BY <1>1, <1>6, OnePaid
    <1>8. charged' \subseteq InvoiceRecord
        BY <1>1, <1>6, InvoiceTyped DEF ZapsInv, ZapsTyped
    <1>9. \A y \in Zaps : zaps'[y].at = zaps[y].at /\ Invoice(y)' = Invoice(y)
        BY <1>1, <1>2, <1>4 DEF ZapsInv, ZapsTyped, Invoice
    <1>10. /\ GivenOut \subseteq GivenOut' /\ GivenOut' \subseteq GivenOut \cup {Invoice(z)}
           /\ Invoice(z).zap = z /\ \A i \in GivenOut : i.zap \in Zaps
        BY <1>1, <1>6 DEF GivenOut, Invoice, ZapsInv, ZapsTyped, InvoiceRecord
    <1>11. GivenIsLatest'
        BY <1>1, <1>9, <1>10 DEF ZapsInv, GivenIsLatest
    <1>12. pendingZaps[z] \notin {"failed", "confirmed"}
        BY <1>1 DEF ZapsInv, StatusIsTrue
    <1>13. StatusIsTrue'
        BY <1>4, <1>9, <1>10, <1>12 DEF ZapsInv, StatusIsTrue
    <1>14. TotalsArePublished'
        BY <1>1, <1>7, MorePublished
    <1>15. QED BY <1>1, <1>4, <1>5, <1>7, <1>8, <1>11, <1>13, <1>14 DEF ZapsInv, ZapsTyped

LEMMA ClearPendingInv ==
    ASSUME ZapsInv, NEW z \in Zaps, ClearPending(z)
    PROVE  ZapsInv'
    <1>1. /\ pendingZaps' = [pendingZaps EXCEPT ![z] = "none"]
          /\ UNCHANGED <<zaps, issued, linked, charged, others, zapTotals>>
        BY DEF ClearPending
    <1>2. ZapsTyped'
        BY <1>1 DEF ZapsInv, ZapsTyped, Statuses
    <1>3. GivenIsLatest'
        BY <1>1 DEF ZapsInv, GivenIsLatest, GivenOut, Invoice
    <1>4. StatusIsTrue'
        BY <1>1 DEF ZapsInv, ZapsTyped, StatusIsTrue, GivenOut
    <1>5. TotalsArePublished'
        BY <1>1 DEF ZapsInv, TotalsArePublished, ReceiptsFor, Receipts
    <1>6. QED BY <1>2, <1>3, <1>4, <1>5 DEF ZapsInv

LEMMA OthersPublishInv ==
    ASSUME ZapsInv, NEW o, NEW item, OthersPublish(o, item)
    PROVE  ZapsInv'
    <1>1. /\ others' = others \cup {[other |-> o, item |-> item]}
          /\ UNCHANGED <<zaps, pendingZaps, issued, linked, charged, zapTotals>>
        BY DEF OthersPublish
    <1>2. IsFiniteSet(charged) /\ IsFiniteSet(others)
        BY DEF ZapsInv, ZapsTyped
    <1>3. IsFiniteSet(others')
        BY <1>1, <1>2, FS_AddElement
    <1>4. ZapsTyped'
        BY <1>1, <1>3 DEF ZapsInv, ZapsTyped
    <1>5. GivenIsLatest' /\ StatusIsTrue'
        BY <1>1 DEF ZapsInv, GivenIsLatest, StatusIsTrue, GivenOut, Invoice
    <1>6. Receipts' = charged \cup others'
        BY <1>1 DEF Receipts
    <1>7. Receipts \subseteq Receipts' /\ IsFiniteSet(Receipts')
        BY <1>1, <1>2, <1>3, <1>6, FS_Union DEF Receipts
    <1>8. TotalsArePublished'
        BY <1>1, <1>7, MorePublished
    <1>9. QED BY <1>4, <1>5, <1>8 DEF ZapsInv

LEMMA AppPaysInv ==
    ASSUME ZapsInv, NEW i \in linked, AppPays(i)
    PROVE  ZapsInv'
    <1>1. /\ charged' = charged \cup {i}
          /\ UNCHANGED <<zaps, pendingZaps, issued, linked, others, zapTotals>>
        BY DEF AppPays
    <1>2. GivenOut' = GivenOut
        BY <1>1 DEF GivenOut
    <1>3. /\ charged \subseteq charged' /\ IsFiniteSet(charged')
          /\ Receipts \subseteq Receipts' /\ IsFiniteSet(Receipts')
        BY <1>1, OnePaid
    <1>4. ZapsTyped'
        BY <1>1, <1>3 DEF ZapsInv, ZapsTyped
    <1>5. GivenIsLatest' /\ StatusIsTrue'
        BY <1>1, <1>2 DEF ZapsInv, GivenIsLatest, StatusIsTrue, Invoice
    <1>6. TotalsArePublished'
        BY <1>1, <1>3, MorePublished
    <1>7. QED BY <1>4, <1>5, <1>6 DEF ZapsInv

(***************************************************************************)
(* Totals                                                                  *)
(***************************************************************************)

\* Whatever the two questions find, it is counted once, and it is published.
LEMMA ReceiptsLoadedInv ==
    ASSUME ZapsInv, NEW l \in ZapLoads, ReceiptsLoaded(l)
    PROVE  ZapsInv'
    <1>1. UNCHANGED <<zaps, pendingZaps, issued, linked, charged, others>>
        BY DEF ReceiptsLoaded
    <1>2. PICK byPost \in SUBSET Receipts, byAuthor \in SUBSET Receipts :
              zapTotals' = Counted(byPost, byAuthor)
        BY DEF ReceiptsLoaded, ByPost, ByAuthor
    <1>3. ASSUME NEW item \in ZapItems
          PROVE  /\ zapTotals'[item] \in Nat
                 /\ zapTotals'[item] <= Cardinality(ReceiptsFor(item))
        <2> DEFINE found == {r \in byPost \cup byAuthor : r.item = item}
        <2>1. found \subseteq ReceiptsFor(item) /\ ReceiptsFor(item) \subseteq Receipts
            BY DEF ReceiptsFor
        <2>2. IsFiniteSet(ReceiptsFor(item)) /\ IsFiniteSet(found)
            BY <2>1, FinitelyMany, FS_Subset DEF ZapsInv
        <2>3. Cardinality(found) <= Cardinality(ReceiptsFor(item)) /\ Cardinality(found) \in Nat
            BY <2>1, <2>2, FS_Subset, FS_CardinalityType
        <2>4. zapTotals'[item] = Cardinality(found)
            BY <1>2 DEF Counted
        <2>5. QED BY <2>3, <2>4
    <1>4. zapTotals' \in [ZapItems -> Nat]
        BY <1>2, <1>3 DEF Counted
    <1>5. ZapsTyped' /\ GivenIsLatest' /\ StatusIsTrue'
        BY <1>1, <1>4 DEF ZapsInv, ZapsTyped, GivenIsLatest, StatusIsTrue, GivenOut, Invoice
    <1>6. TotalsArePublished'
        BY <1>1, <1>3 DEF TotalsArePublished, ReceiptsFor, Receipts
    <1>7. QED BY <1>5, <1>6 DEF ZapsInv

LEMMA NothingCounted ==
    ASSUME ZapsInv, UNCHANGED <<zaps, pendingZaps, issued, linked, charged, others>>,
           zapTotals' = zapTotals \/ zapTotals' = NoTotals
    PROVE  ZapsInv'
    <1>1. zapTotals' \in [ZapItems -> Nat]
        BY DEF ZapsInv, ZapsTyped, NoTotals
    <1>2. ZapsTyped' /\ GivenIsLatest' /\ StatusIsTrue'
        BY <1>1 DEF ZapsInv, ZapsTyped, GivenIsLatest, StatusIsTrue, GivenOut, Invoice
    <1>3. \A item \in ZapItems : Cardinality(ReceiptsFor(item)) \in Nat
        <2> SUFFICES ASSUME NEW item \in ZapItems PROVE Cardinality(ReceiptsFor(item)) \in Nat
            OBVIOUS
        <2>1. ReceiptsFor(item) \subseteq Receipts /\ IsFiniteSet(Receipts)
            BY FinitelyMany DEF ReceiptsFor, ZapsInv
        <2>2. QED BY <2>1, FS_Subset, FS_CardinalityType
    <1>4. TotalsArePublished'
        <2> SUFFICES ASSUME NEW item \in ZapItems
                     PROVE  zapTotals'[item] <= Cardinality(ReceiptsFor(item))
            BY DEF TotalsArePublished, ReceiptsFor, Receipts
        <2>1. CASE zapTotals' = zapTotals
            BY <2>1 DEF ZapsInv, TotalsArePublished
        <2>2. CASE zapTotals' = NoTotals
            BY <1>3, <2>2 DEF NoTotals
        <2>3. QED BY <2>1, <2>2
    <1>5. QED BY <1>2, <1>4 DEF ZapsInv

LEMMA ZapsInitInv == ZapsInit => ZapsInv
    <1> SUFFICES ASSUME ZapsInit PROVE ZapsInv
        OBVIOUS
    <1>1. ZapsTyped
        BY FS_EmptySet DEF ZapsInit, ZapsTyped, Statuses, NoTotals
    <1>2. GivenIsLatest /\ StatusIsTrue
        BY DEF ZapsInit, GivenIsLatest, StatusIsTrue, GivenOut
    <1>3. TotalsArePublished
        <2> SUFFICES ASSUME NEW item \in ZapItems
                     PROVE  zapTotals[item] <= Cardinality(ReceiptsFor(item))
            BY DEF TotalsArePublished
        <2>1. ReceiptsFor(item) = {}
            BY DEF ZapsInit, ReceiptsFor, Receipts
        <2>2. QED BY <2>1, FS_EmptySet DEF ZapsInit, NoTotals
    <1>4. QED BY <1>1, <1>2, <1>3 DEF ZapsInv

LEMMA ZapsNextInv == ZapsInv /\ [ZapsNext]_zapVars => ZapsInv'
    <1> SUFFICES ASSUME ZapsInv, ZapsNext \/ UNCHANGED zapVars PROVE ZapsInv'
        OBVIOUS
    <1>1. CASE UNCHANGED zapVars
        BY <1>1, NothingCounted DEF zapVars
    <1>2. ASSUME NEW items \in SUBSET ZapItems, FeedChanges(items) PROVE ZapsInv'
        BY <1>2, NothingCounted DEF FeedChanges
    <1>3. ASSUME NEW l \in ZapLoads, ReceiptsFail(l) PROVE ZapsInv'
        BY <1>3, NothingCounted DEF ReceiptsFail
    <1>4. ASSUME NEW l \in ZapLoads, NEW m \in ZapLoads, ReceiptComes(l, m) PROVE ZapsInv'
        BY <1>4, NothingCounted DEF ReceiptComes
    <1>5. ASSUME NEW z \in Zaps,
                 \/ \E item \in ZapItems, requested \in {"webln", "nwc", "external"} :
                        OnZap(z, item, requested)
                 \/ BeforeInvoiceFails(z) \/ InvoiceArrives(z)
                 \/ WalletPays(z) \/ OpenLink(z) \/ WalletFails(z) \/ ClearPending(z)
          PROVE  ZapsInv'
        BY <1>5, OnZapInv, BeforeInvoiceFailsInv, InvoiceArrivesInv, WalletPaysInv, OpenLinkInv,
           WalletFailsInv, ClearPendingInv
    <1>6. QED BY <1>1, <1>2, <1>3, <1>4, <1>5, AppPaysInv, OthersPublishInv, ReceiptsLoadedInv
              DEF ZapsNext

\* For any posts, clicks, loads, wallets that pay and then fail, and receipts of anyone: no
\* zap is paid twice, none that failed is paid, and no post shows more zaps than there are
\* receipts for it, however loads overlap.
THEOREM ZapsArePaidOnce == Spec => []ZapsAddUp
    <1>1. Init => ZapsInv
        BY ZapsInitInv DEF Init
    <1>2. ZapsInv /\ [Next]_clientVars => ZapsInv'
        BY ZapsNextInv DEF Next, clientVars
    <1>3. ASSUME ZapsInv PROVE ZapsAddUp
        <2>1. ASSUME NEW z \in Zaps PROVE Cardinality(PaidBy(z)) <= 1
            <3>1. PaidBy(z) \subseteq {Invoice(z)}
                BY <1>3 DEF ZapsInv, GivenIsLatest, GivenOut, PaidBy
            <3>2. IsFiniteSet({Invoice(z)}) /\ Cardinality({Invoice(z)}) = 1
                BY FS_Singleton
            <3>3. QED BY <3>1, <3>2, FS_Subset
        <2>2. \A item \in ZapItems : zapTotals[item] <= Cardinality({r \in Receipts : r.item = item})
            BY <1>3 DEF ZapsInv, TotalsArePublished, ReceiptsFor, Receipts
        <2>3. QED BY <1>3, <2>1, <2>2 DEF ZapsInv, StatusIsTrue, GivenOut, ZapsAddUp
    <1>4. QED BY <1>1, <1>2, <1>3, PTL DEF Spec
=============================================================================
