---------------------------- MODULE MCHeaderSync ----------------------------
(***************************************************************************)
(* Instances of HeaderSync for TLC.  The headers form a chain a1, a2, a3   *)
(* with a fork b2 on a1.  A headers message holds up to three headers in   *)
(* sequence, linked or not, so that it can start below the tip and end     *)
(* above it; one message out of sequence stands for all those.             *)
(***************************************************************************)
EXTENDS HeaderSync

CONSTANTS a1, a2, a3, b2

MCBlock == {a1, a2, a3, b2}

MCHeight == [b \in MCBlock |-> CASE b = a1 -> 1 [] b \in {a2, b2} -> 2 [] b = a3 -> 3]

MCPrev == [b \in MCBlock |-> CASE b = a1 -> Genesis [] b \in {a2, b2} -> a1 [] b = a3 -> a2]

AnyMsg == UNION {[1..n -> MCBlock] : n \in 0..3}

MCHeadersMsg ==
  {m \in AnyMsg : \A i \in 1..Len(m) : MCHeight[m[i]] = MCHeight[m[1]] + i - 1}
    \cup {<<a2, a1>>}

MCStartHeight == [p \in Peer |-> IF p = InitialPeer THEN 2 ELSE 3]

(* checkHeadersInSequence compares neighbours; InSequence counts from the  *)
(* first header.                                                           *)
ASSUME NeighboursSuffice ==
  \A m \in AnyMsg :
    InSequence(m) <=> \A i \in 1..(Len(m) - 1) : height[m[i]] = height[m[i + 1]] - 1

(* handleHeaders filters on height > tip; NewHeaders takes a suffix.       *)
ASSUME SuffixIsFilter ==
  \A m \in HeadersMsg, tip \in 0..3 :
    LET Above(b) == height[b] > tip IN
    m # <<>> /\ InSequence(m) /\ height[Head(m)] < tip
      => NewHeaders(m, tip) = SelectSeq(m, Above)

=============================================================================
