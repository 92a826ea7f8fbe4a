------------------------------ MODULE MCNodeSync ------------------------------
(***************************************************************************)
(* An instance of NodeSync for TLC: one chain 1, ..., N, of which the      *)
(* peers with compact filters have the first FirstHeight blocks when the   *)
(* node connects.  The others have no block yet.                           *)
(***************************************************************************)
EXTENDS NodeSync

CONSTANTS N, FirstHeight

MCBlock == 1..N
MCHeight == [b \in MCBlock |-> b]
MCPrev == [b \in MCBlock |-> b - 1]
MCBranch == [p \in Peer |-> IF p \in CFPeer THEN [h \in 1..N |-> h] ELSE <<>>]
MCHeadersMsg == {}
MCStartHeight == [p \in Peer |-> IF p \in CFPeer THEN FirstHeight ELSE 0]

=============================================================================
