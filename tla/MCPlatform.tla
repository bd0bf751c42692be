---------------------------- MODULE MCPlatform -----------------------------
(* Instances of the services small enough for TLC. *)
EXTENDS Platform, TLC

CONSTANTS alice, bob, n1, n2

\* A client whose clock is right, late, or ahead by the whole window and more.
MCEvents == {[key |-> alice, created |-> c] : c \in 0..2}
MCHorizon ==
    [challenges |-> 2, wallets |-> 1, events |-> 3, keys |-> 1, queue |-> 0, window |-> 7,
     notes |-> 2, registry |-> 0, checks |-> 2]

\* Two notes of alice, and bob, whose logins write the same file.
MCAuthorOf == [n \in {n1, n2} |-> alice]

\* The handlers of all services share names, and so do keys and sessions, notes and relays:
\* only one of the services moves.
MCSymmetry == Permutations(SessionIds) \cup Permutations(Requests) \cup Permutations(Notes)
=============================================================================
