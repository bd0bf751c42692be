------------------------------- MODULE Sale -------------------------------
(***************************************************************************)
(* What settlement promises, told without invoices, clocks or callbacks:   *)
(* the name is awarded to the winner, then offered to one bidder after     *)
(* another, never to one who has it already and never twice to the same,   *)
(* until someone pays or nobody is left; a sale that is made is final.     *)
(***************************************************************************)
CONSTANTS Buyers, Nobody
VARIABLES phase, buyer, offered

Init == phase = "open" /\ buyer = Nobody /\ offered = {}

Award(b) ==
    /\ phase = "open"
    /\ phase' = "awarded" /\ buyer' = b
    /\ UNCHANGED offered

Offer(b) ==
    /\ phase = "awarded"
    /\ b \notin offered \cup {buyer}
    /\ buyer' = b /\ offered' = offered \cup {b}
    /\ UNCHANGED phase

Pay ==
    /\ phase = "awarded"
    /\ phase' = "sold"
    /\ UNCHANGED <<buyer, offered>>

Fail ==
    /\ phase = "awarded"
    /\ phase' = "failed"
    /\ UNCHANGED <<buyer, offered>>

Next == (\E b \in Buyers : Award(b) \/ Offer(b)) \/ Pay \/ Fail

Spec == Init /\ [][Next]_<<phase, buyer, offered>>
=============================================================================
