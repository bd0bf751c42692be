----------------------------- MODULE MCClient ------------------------------
(* Instances of the parts of the client small enough for TLC. *)
EXTENDS Client, TLC

CONSTANTS p1, p2, p3, p4

\* A page holds two posts, and two of the posts are of the same second.
MCPosts == {p1, p2, p3, p4}
MCPostTime == (p1 :> 4 @@ p2 :> 3 @@ p3 :> 3 @@ p4 :> 2)
MCPostScore == (p1 :> 0 @@ p2 :> 1 @@ p3 :> 2 @@ p4 :> 1)
MCInMode ==
    [firehose |-> MCPosts, following |-> {p1, p2, p4}, wot |-> {p1, p2, p3},
     custom |-> {p1, p2, p4}, bookmarks |-> {p2, p4}] @@ ("high-signal" :> MCPosts)

MCFilters == {{}, {p2}}

\* The receipts of a post are found twice, by the post and by its author.
MCPosterOf == (p1 :> "author")
=============================================================================
