------------------------------ MODULE ChainStore ------------------------------
(***************************************************************************)
(* What the header store promises to its readers (the scanner, the block   *)
(* locator, the getcfilters server), with no peer, goroutine or channel in *)
(* sight: it starts empty, it only grows, one header at a time, and it     *)
(* never skips a height.                                                   *)
(***************************************************************************)
EXTENDS HeaderStore

VARIABLE store   \* the stored headers

Init == store = {}

Extend(b) == /\ height[b] \in 1..(TipHeight(store) + 1)
             /\ store' = store \cup {b}

Next == \E b \in Block : Extend(b)

Spec == Init /\ [][Next]_store

=============================================================================
