-------------------------------- MODULE Feed --------------------------------
(***************************************************************************)
(* The feed page: pages of posts that are asked of the relays, each from   *)
(* the cursor that the one before left, and put together on the screen.    *)
(* Nothing ties an answer to the mode and the cursor that it was asked     *)
(* for: it takes effect when it comes.  A relay that does not answer is    *)
(* left out without an error, so that any of the posts may be missing.     *)
(***************************************************************************)
EXTENDS Naturals, FiniteSets

CONSTANTS
    Posts,
    PostTime,         \* created_at of a post
    PostScore,        \* how its author, or what others did with it, ranks it
    InMode,           \* the posts that a mode is about, by mode
    Tabs,             \* bound: the modes that the user chooses
    Filters,          \* the posts that content filters hide, by filter
    Loads,            \* bound: answers waited for at the same time
    PageSize,
    CustomPage        \* how much of a page a custom feed shows at most

Modes == {"firehose", "following", "wot", "high-signal", "custom", "bookmarks"}
Ranked == {"wot", "high-signal"}

ASSUME FeedAssumption ==
    /\ IsFiniteSet(Posts) /\ PageSize \in Nat \ {0} /\ CustomPage \in Nat \ {0}
    /\ PostTime \in [Posts -> Nat \ {0}] /\ PostScore \in [Posts -> Nat]
    /\ Tabs \subseteq Modes /\ Filters \subseteq SUBSET Posts
    /\ InMode \in [Modes -> SUBSET Posts] /\ InMode["firehose"] = Posts

VARIABLES
    mode,             \* of the tabs and custom feeds, the one chosen
    muted,            \* posts that the content filters hide
    shown,            \* how often a post is on the screen
    cursor,           \* until when the next page reaches
    hasMore,
    loading,          \* "reset", "more" or "no", as far as the page knows
    loads,            \* the answers waited for
    acting,           \* the mode and filters from which the user posted, liked or zapped
    whole,            \* history: every answer on the screen was asked for it
    withheld          \* history: posts that no relay gave when they were asked for

feedVars ==
    <<mode, muted, shown, cursor, hasMore, loading, loads, acting, whole, withheld>>

NoLoad == [asked |-> "nothing"]
NoAction == [mode |-> "none"]
Undefined == 0
Nothing == [p \in Posts |-> 0]

FeedInit ==
    /\ mode = "following" /\ muted = {}
    /\ shown = Nothing /\ cursor = Undefined /\ hasMore = FALSE
    /\ loading = "no" /\ loads = [l \in Loads |-> NoLoad]
    /\ acting = NoAction /\ whole = FALSE /\ withheld = {}

(***************************************************************************)
(* What the relays answer                                                  *)
(***************************************************************************)

Least(S) == CHOOSE n \in S : \A k \in S : n <= k

\* The first n posts of S in an order, or all of fewer; of equals, any.
First(n, S, before(_, _)) ==
    {page \in SUBSET S :
        /\ Cardinality(page) = IF Cardinality(S) < n THEN Cardinality(S) ELSE n
        /\ \A p \in page, q \in S \ page : ~before(q, p)}

Newer(p, q) == PostTime[p] > PostTime[q]
Better(p, q) == PostScore[p] > PostScore[q] \/ (PostScore[p] = PostScore[q] /\ Newer(p, q))

FindNextCursor(page) ==
    IF page = {} THEN Undefined ELSE Least({PostTime[p] : p \in page}) - 1

\* What a load asks for: a custom feed is chosen among the firehose.
Asked(load) ==
    LET posts == IF load.mode = "custom" THEN Posts ELSE InMode[load.mode]
    IN {p \in posts : load.until = Undefined \/ PostTime[p] <= load.until}

\* The firehose and the follows by time, the web of trust by the author's score and the
\* high signal by the interactions: the relays are asked for more than a page and the page
\* is chosen among what they give.
Pages(m, given) == IF m \in Ranked THEN First(PageSize, given, Better)
                   ELSE First(PageSize, given, Newer)

\* (mutant) Whether there is more is seen by what is shown of the page.
IsFullOfShown(load, page) == Cardinality(page \ load.muted) = PageSize

IsFull(load, page) == Cardinality(page) = PageSize

\* A custom feed shows what matches it in a page, and no more than so much of that.
CustomPosts(load, page) == First(CustomPage, (page \cap InMode["custom"]) \ load.muted, Newer)

\* loadFeedWithDiagnostics, loadFeedForCustomDefinition and loadBookmarkFeed: the posts, the
\* next cursor and whether the page was full, of whatever relays gave.  The cursor of a
\* custom feed is that of what it shows.
Answers(load, given) ==
    CASE load.mode = "bookmarks" ->
            {[items |-> given \ load.muted, next |-> Undefined, full |-> FALSE]}
      [] load.mode = "custom" ->
            UNION {{[items |-> kept, next |-> FindNextCursor(kept), full |-> IsFull(load, page)]
                       : kept \in CustomPosts(load, page)} : page \in Pages("custom", given)}
      [] OTHER ->
            {[items |-> page \ load.muted, next |-> FindNextCursor(page),
              full |-> IsFull(load, page)] : page \in Pages(load.mode, given)}

(***************************************************************************)
(* The page                                                                *)
(***************************************************************************)

\* The old posts stay on the screen, and answers that are still awaited are not given up.
\* What the refresh asks for need not be what the page is about now.
StartOver(l, m, hidden) ==
    /\ loads[l] = NoLoad
    /\ cursor' = Undefined /\ hasMore' = FALSE
    /\ loading' = "reset"
    /\ loads' = [k \in Loads |->
                    IF k = l THEN [asked |-> "reset", mode |-> m, until |-> Undefined,
                                   muted |-> hidden, stale |-> m # mode' \/ hidden # muted']
                    ELSE IF loads[k] = NoLoad THEN NoLoad
                    ELSE [loads[k] EXCEPT !.stale = TRUE]]
    /\ whole' = FALSE /\ withheld' = {}
    /\ UNCHANGED shown

\* The effect of a new mode or of new filters, and the refresh button.
Refresh(l, m, hidden) ==
    /\ mode' = m /\ muted' = hidden
    /\ StartOver(l, m, hidden)
    /\ UNCHANGED acting

\* The user posts, likes or zaps (one at a time), and waits for signer and relays.
UserActs ==
    /\ acting = NoAction /\ acting' = [mode |-> mode, muted |-> muted]
    /\ UNCHANGED <<mode, muted, shown, cursor, hasMore, loading, loads, whole, withheld>>

\* Then the page is refreshed, in the mode and with the filters that it had at the click.
ActionOk(l) ==
    /\ acting # NoAction /\ acting' = NoAction
    /\ UNCHANGED <<mode, muted>>
    /\ StartOver(l, acting.mode, acting.muted)

ActionFails ==
    /\ acting # NoAction /\ acting' = NoAction
    /\ UNCHANGED <<mode, muted, shown, cursor, hasMore, loading, loads, whole, withheld>>

\* The observer at the end of the feed, or a feed shorter than the window.
LoadMore(l) ==
    /\ loads[l] = NoLoad
    /\ hasMore /\ loading = "no"
    /\ loading' = "more"
    /\ loads' = [loads EXCEPT ![l] = [asked |-> "more", mode |-> mode, until |-> cursor,
                                      muted |-> muted, stale |-> ~whole]]
    /\ UNCHANGED <<mode, muted, shown, cursor, hasMore, acting, whole, withheld>>

\* A reset replaces what is on the screen, another page adds what is not there yet.
WithItems(load, items) ==
    IF load.asked = "reset" THEN [p \in Posts |-> IF p \in items THEN 1 ELSE 0]
    ELSE [p \in Posts |-> IF p \in items /\ shown[p] = 0 THEN 1 ELSE shown[p]]

\* History: what the relays kept back, for this reset and the pages after it.
Withholds(load, given) ==
    /\ whole' = (~load.stale /\ (whole \/ load.asked = "reset"))
    /\ withheld' = IF ~whole' THEN {}
                   ELSE {p \in withheld \cup (Asked(load) \ given) : shown'[p] = 0}

Loaded(l) ==
    /\ loads[l] # NoLoad
    /\ \E given \in SUBSET Asked(loads[l]) :
          /\ \E answer \in Answers(loads[l], given) :
                /\ shown' = WithItems(loads[l], answer.items)
                /\ cursor' = answer.next
                /\ hasMore' = (answer.full /\ answer.next # Undefined)
          /\ Withholds(loads[l], given)
    /\ loading' = "no"
    /\ loads' = [loads EXCEPT ![l] = NoLoad]
    /\ UNCHANGED <<mode, muted, acting>>

\* A reset that fails empties the screen, whichever mode it was for.
LoadFails(l) ==
    /\ loads[l] # NoLoad
    /\ shown' = IF loads[l].asked = "reset" THEN Nothing ELSE shown
    /\ loading' = "no"
    /\ loads' = [loads EXCEPT ![l] = NoLoad]
    /\ whole' = (whole /\ loads[l].asked # "reset")
    /\ withheld' = IF whole' THEN withheld ELSE {}
    /\ UNCHANGED <<mode, muted, cursor, hasMore, acting>>

FeedNext ==
    \/ UserActs \/ ActionFails
    \/ \E l \in Loads :
          \/ \E m \in Tabs : Refresh(l, m, muted)
          \/ \E hidden \in Filters : Refresh(l, mode, hidden)
          \/ ActionOk(l) \/ LoadMore(l) \/ Loaded(l) \/ LoadFails(l)

(***************************************************************************)
(* Properties                                                              *)
(***************************************************************************)

Wanted == InMode[mode] \ muted

\* Beyond what is read so far.  A custom feed also ends at the first page without a match,
\* and at a last page with more matches than it shows of one.
Ahead(p) ==
    IF hasMore THEN PostTime[p] <= cursor
    ELSE mode = "custom" /\ \A q \in Posts : shown[q] > 0 => ~Newer(p, q)

\* The feed shows a post once, whatever answers are mixed, and, as long as no answer that
\* was asked for another mode or other filters has come in between, it skips no post between
\* the top and the cursor, or the end, that some relay gave when it was asked for, however
\* few of them answer each time; but those of the very second of another one.  (By score
\* it does skip.)
FeedIsComplete ==
    /\ \A p \in Posts : shown[p] <= 1
    /\ whole /\ mode \notin Ranked =>
          \A p \in Wanted \ withheld :
              \/ shown[p] = 1 \/ Ahead(p)
              \/ \E q \in Posts \ {p} : PostTime[q] = PostTime[p]

FeedTypeOK ==
    /\ mode \in Modes /\ muted \subseteq Posts
    /\ shown \in [Posts -> Nat] /\ cursor \in Nat
    /\ hasMore \in BOOLEAN /\ loading \in {"no", "more", "reset"}
    /\ whole \in BOOLEAN /\ withheld \subseteq Posts
    /\ acting \in {NoAction} \cup [mode : Modes, muted : SUBSET Posts]
    /\ loads \in [Loads -> {NoLoad} \cup [asked : {"reset", "more"}, mode : Modes, until : Nat,
                                          muted : SUBSET Posts, stale : BOOLEAN]]
=============================================================================
