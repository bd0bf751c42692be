------------------------------- MODULE Lists -------------------------------
(***************************************************************************)
(* The lists that a user keeps at relays, each one event that a newer one  *)
(* replaces: follows, bookmarks, content filters, subscriptions.  Every    *)
(* component on the screen holds a copy of its own, and the lists differ   *)
(* in what an edit starts from and when the copy changes:                  *)
(*   follows        read the relays, then sign; the copy changes at once   *)
(*   bookmarks      start from the copy; it changes after the publication  *)
(*   filters        the same, but the copy and the local storage change at *)
(*                  once, and a list without an entry is not published     *)
(*   subscriptions  as filters, without a local storage                    *)
(***************************************************************************)
EXTENDS Naturals, FiniteSets

CONSTANTS
    Relays, Items,
    Copies,           \* components that show or edit the list
    EditBound,        \* bound: edits in all
    LastSecond        \* bound of the clock that dates the events

ASSUME ListsAssumption == IsFiniteSet(Relays) /\ LastSecond \in Nat \ {0} /\ EditBound \in Nat

VARIABLES
    list,             \* which of the lists this is about
    stored,           \* what each relay keeps
    copies,
    local,            \* the filters in the local storage
    edits,
    second,
    wanted,           \* history: the list that the clicks add up to
    inOrder           \* history: no edit started from less than the newest list

listVars == <<list, stored, copies, local, edits, second, wanted, inOrder>>

Edits == 1..EditBound

ListNames == {"follows", "bookmarks", "filters", "subscriptions"}
NoEvent == [items |-> {}, at |-> 0]
NoEdit == [at |-> "none"]
Done == [at |-> "done"]
Nowhere == [at |-> "unmounted", items |-> {}, fetched |-> {}, behind |-> FALSE]

ListsInit ==
    /\ list \in ListNames
    /\ stored = [r \in Relays |-> NoEvent]
    /\ copies = [c \in Copies |-> Nowhere]
    /\ local = {}
    /\ edits = [e \in Edits |-> NoEdit]
    /\ second = 1 /\ wanted = {} /\ inOrder = TRUE

(***************************************************************************)
(* Relays                                                                  *)
(***************************************************************************)

NewestOf(S) == {e \in S : \A f \in S : f.at <= e.at}
NewestAtRelays == NewestOf({stored[r] : r \in Relays})

\* The newest list of the relays that answer, and an empty one if none does.
LatestAt(answering) ==
    IF answering = {} THEN {{}} ELSE {e.items : e \in NewestOf({stored[r] : r \in answering})}

\* The relays that answer hold the newest list, and there is only one.
Sees(answering) ==
    /\ Cardinality(NewestAtRelays) = 1
    /\ {stored[r] : r \in answering} \cap NewestAtRelays # {}

\* A relay replaces its event by a newer one; which of two of the same second it
\* keeps depends on their ids.
Keeps(r, event, wins) ==
    IF event.at > stored[r].at \/ (event.at = stored[r].at /\ wins) THEN event ELSE stored[r]

ListTick ==
    /\ second < LastSecond
    /\ second' = second + 1
    /\ UNCHANGED <<list, stored, copies, local, edits, wanted, inOrder>>

(***************************************************************************)
(* Copies                                                                  *)
(***************************************************************************)

EditUnderWay(e) == edits[e] \notin {NoEdit, Done}
Idle == \A e \in Edits : ~EditUnderWay(e)

\* A copy of the filters starts from the local storage, the others ask the relays.
Mount(c) ==
    /\ copies[c].at = "unmounted"
    /\ copies' = [copies EXCEPT ![c] =
                     IF list = "filters"
                     THEN [at |-> "ready", items |-> local, fetched |-> {}, behind |-> ~Idle]
                     ELSE [at |-> "loading", items |-> {}, fetched |-> {}, behind |-> TRUE]]
    /\ UNCHANGED <<list, stored, local, edits, second, wanted, inOrder>>

Unmount(c) ==
    /\ copies[c].at = "ready"
    /\ \A e \in Edits : edits[e].at \in {"reading", "signing"} => edits[e].copy # c
    /\ copies' = [copies EXCEPT ![c] = Nowhere]
    /\ UNCHANGED <<list, stored, local, edits, second, wanted, inOrder>>

\* loadAndDecrypt, loadAll, syncNow, the refresh of a page.
Reload(c) ==
    /\ copies[c].at = "ready"
    /\ copies' = [copies EXCEPT ![c] = [@ EXCEPT !.at = "loading"]]
    /\ UNCHANGED <<list, stored, local, edits, second, wanted, inOrder>>

Fetched(c, answering) ==
    /\ copies[c].at = "loading"
    /\ \E items \in LatestAt(answering) :
          copies' = [copies EXCEPT ![c] = [@ EXCEPT !.at = "fetched", !.fetched = items,
                                                    !.behind = ~Idle \/ ~Sees(answering)]]
    /\ UNCHANGED <<list, stored, local, edits, second, wanted, inOrder>>

\* The answer takes the place of the copy, and of the edits made to it meanwhile.
Show(c) ==
    /\ copies[c].at = "fetched"
    /\ copies' = [copies EXCEPT ![c] = [@ EXCEPT !.at = "ready", !.items = copies[c].fetched,
                                                 !.fetched = {}]]
    /\ local' = IF list = "filters" THEN copies[c].fetched ELSE local
    /\ inOrder' = (inOrder /\ ~(list = "filters" /\ copies[c].behind))
    /\ UNCHANGED <<list, stored, edits, second, wanted>>

\* A list that cannot be decrypted leaves the copy as it is.
ReloadFails(c) ==
    /\ copies[c].at = "loading"
    /\ copies' = [copies EXCEPT ![c] = [@ EXCEPT !.at = "ready", !.behind = TRUE]]
    /\ UNCHANGED <<list, stored, local, edits, second, wanted, inOrder>>

(***************************************************************************)
(* Edits                                                                   *)
(***************************************************************************)

\* What the other copies show is from before this edit.
Overtaken(c, copy) == [d \in Copies |-> IF d = c THEN copy ELSE [copies[d] EXCEPT !.behind = TRUE]]

Edited(items, x, adds) == IF adds THEN items \cup {x} ELSE items \ {x}

\* The button of the follows page and of the bookmark, and the entries of the mute menus
\* and of the settings: adds what its own copy lacks and removes what it has.  Filters are
\* not published without the key of the session, or when none is left.
Click(e, c, x, silent) ==
    LET adds == x \notin copies[c].items
        next == Edited(copies[c].items, x, adds)
        atOnce == list # "bookmarks"
        started == [at |-> IF list = "follows" THEN "reading" ELSE "signing",
                    copy |-> c, item |-> x, adds |-> adds, before |-> copies[c].items,
                    next |-> next, second |-> second, wanted |-> wanted]
    IN /\ copies[c].at # "unmounted"
       /\ silent => list = "filters"
       /\ list = "filters" /\ next = {} => silent
       /\ edits[e] = NoEdit /\ \A f \in 1..e - 1 : edits[f] # NoEdit
       /\ copies' = Overtaken(c, [copies[c] EXCEPT !.items = IF atOnce THEN next ELSE @,
                                                !.behind = @ \/ copies[c].at # "ready"])
       /\ local' = IF list = "filters" THEN next ELSE local
       /\ edits' = [edits EXCEPT ![e] = IF silent THEN Done ELSE started]
       /\ wanted' = Edited(wanted, x, adds)
       /\ inOrder' = (/\ inOrder /\ Idle /\ ~silent
                      /\ list # "follows" => copies[c].at = "ready" /\ ~copies[c].behind)
       /\ UNCHANGED <<list, stored, second>>

\* (mutant) The follow publishes the followed key alone.
ReadFollowsNone(e, answering) ==
    /\ edits[e].at = "reading"
    /\ \E items \in LatestAt(answering) :
          edits' = [edits EXCEPT ![e] =
             [@ EXCEPT !.at = "signing", !.second = second,
                       !.next = Edited({}, edits[e].item, edits[e].adds)]]
    /\ inOrder' = (inOrder /\ Sees(answering))
    /\ UNCHANGED <<list, stored, copies, local, second, wanted>>

\* followPubkey and unfollowPubkey read the list again and change that.
ReadFollows(e, answering) ==
    /\ edits[e].at = "reading"
    /\ \E items \in LatestAt(answering) :
          edits' = [edits EXCEPT ![e] =
             [@ EXCEPT !.at = "signing", !.second = second,
                       !.next = Edited(items, edits[e].item, edits[e].adds)]]
    /\ inOrder' = (inOrder /\ Sees(answering))
    /\ UNCHANGED <<list, stored, copies, local, second, wanted>>

\* The end of an edit: publishEvent closes its pool and reports success before a relay
\* has answered, and the bookmarks show the new list.
Publish(e) ==
    LET edit == edits[e]
    IN /\ edit.at = "signing"
       /\ copies' = Overtaken(edit.copy, IF list = "bookmarks"
                                         THEN [copies[edit.copy] EXCEPT !.items = edit.next]
                                         ELSE copies[edit.copy])
       /\ edits' = [edits EXCEPT
                       ![e] = [at |-> "sent", next |-> edit.next, second |-> edit.second]]
       /\ UNCHANGED <<list, stored, local, second, wanted, inOrder>>

\* Later, what was sent reaches some of the relays, or none.
RelaysStore(e, accepting, wins) ==
    LET edit == edits[e]
        event == [items |-> edit.next, at |-> edit.second]
    IN /\ edit.at = "sent"
       /\ stored' = [r \in Relays |-> IF r \in accepting THEN Keeps(r, event, wins) ELSE stored[r]]
       /\ edits' = [edits EXCEPT ![e] = Done]
       /\ inOrder' = (inOrder /\ accepting # {} /\ \A n \in NewestAtRelays : n.at < edit.second)
       /\ UNCHANGED <<list, copies, local, second, wanted>>

\* The user declines the signature: the follows page goes back to what it showed before
\* the click.  Filters and subscriptions are signed with the key of the session.
Decline(e) ==
    LET edit == edits[e]
    IN /\ edit.at = "signing" /\ list \in {"follows", "bookmarks"}
       /\ copies' = IF list = "follows"
                    THEN [copies EXCEPT ![edit.copy] = [@ EXCEPT !.items = edit.before]]
                    ELSE copies
       /\ edits' = [edits EXCEPT ![e] = Done]
       /\ wanted' = edit.wanted
       /\ UNCHANGED <<list, stored, local, second, inOrder>>

ListsNext ==
    \/ ListTick
    \/ \E c \in Copies :
          \/ Mount(c) \/ Unmount(c) \/ Reload(c) \/ Show(c) \/ ReloadFails(c)
          \/ \E answering \in SUBSET Relays : Fetched(c, answering)
    \/ \E e \in Edits :
          \/ \E c \in Copies, x \in Items, silent \in BOOLEAN : Click(e, c, x, silent)
          \/ \E answering \in SUBSET Relays : ReadFollows(e, answering)
          \/ Publish(e) \/ Decline(e)
          \/ \E accepting \in SUBSET Relays, wins \in BOOLEAN : RelaysStore(e, accepting, wins)

(***************************************************************************)
(* Properties                                                              *)
(***************************************************************************)

\* As long as edits do not overlap, each is later than the one before and has been taken by
\* a relay before the next one, and starts from a read that reached the newest list (for the
\* lists that are edited from a copy: from a copy that no other component has overtaken), the
\* newest list at the relays is what the clicks add up to, and so is every copy that is up to
\* date.
EditsCompose ==
    inOrder /\ Idle =>
       /\ \A n \in NewestAtRelays : n.items = wanted
       /\ \A c \in Copies : copies[c].at = "ready" /\ ~copies[c].behind => copies[c].items = wanted

ListsTypeOK ==
    /\ list \in ListNames /\ inOrder \in BOOLEAN /\ second \in 1..LastSecond
    /\ stored \in [Relays -> [items : SUBSET Items, at : 0..LastSecond]]
    /\ local \subseteq Items /\ wanted \subseteq Items
    /\ \A c \in Copies :
          /\ copies[c].at \in {"unmounted", "loading", "fetched", "ready"}
          /\ copies[c].items \subseteq Items /\ copies[c].fetched \subseteq Items
    /\ \A e \in Edits : EditUnderWay(e) => edits[e].at \in {"reading", "signing", "sent"}
=============================================================================
