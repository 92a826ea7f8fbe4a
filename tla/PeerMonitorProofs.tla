--------------------------- MODULE PeerMonitorProofs ---------------------------
(***************************************************************************)
(* What PeerMonitor guarantees for any number of peers and pings.  The     *)
(* invariant ties the keys of monitorPeers' map to the goroutines that     *)
(* wait for them: the map holds a nonce of p only while monitorPeer(p)     *)
(* waits for it or reports that it has waited long enough.                 *)
(***************************************************************************)
EXTENDS PeerMonitor, FiniteSetTheorems, TLAPS

(* The states of monitorPeer(p) in which its last nonce may be in the map  *)
Registered == {"wait", "report"}

(* The nonces of p in the map: the last one, if any.                       *)
NoncesOf(p) == \A k \in peerPings :
                 k.peer = p => ping[p] \in Registered /\ k = Last(p)

(* The pong on its way to a monitorPeer is still a key of the map.         *)
ForwardedIsKnown == Selecting \/ forwarding \in peerPings

IInv ==
  /\ TypeOK
  /\ \A p \in Peer : ping[p] \in {"register"} \cup Registered => sent[p] >= 1
  /\ \A p \in Peer : NoncesOf(p)
  /\ \A p \in Peer : ping[p] = "done" => p \notin known
  /\ ForwardedIsKnown
  /\ PongRecognised

-----------------------------------------------------------------------------

(* Nobody is monitored at first.                                           *)
LEMMA InitInv == Init => IInv
BY MaxPingsAssumption
   DEF Init, IInv, TypeOK, PingState, ReaderState, NoncesOf, Registered, ForwardedIsKnown,
       PongRecognised, Selecting

(* Every step preserves the types.                                         *)
LEMMA TypeStep == IInv /\ [Next]_vars => TypeOK'
<1> SUFFICES ASSUME IInv, [Next]_vars PROVE TypeOK'
  OBVIOUS
<1> USE MaxPingsAssumption DEF IInv, TypeOK, PingState, ReaderState, Nonce
<1>1. ASSUME NEW p \in Peer, AddPeer(p) PROVE TypeOK'
  BY <1>1 DEF AddPeer
<1>2. ASSUME NEW p \in Peer, ConnectionLost(p) PROVE TypeOK'
  BY <1>2 DEF ConnectionLost
<1>3. ASSUME NEW p \in Peer, NEW k \in Nonce, ReadPong(p, k) PROVE TypeOK'
  BY <1>3 DEF ReadPong
<1>4. ASSUME NEW p \in Peer, PassPong(p) PROVE TypeOK'
  BY <1>4 DEF PassPong
<1>5. ASSUME NEW p \in Peer, ReadError(p) PROVE TypeOK'
  BY <1>5 DEF ReadError
<1>6. ASSUME NEW p \in Peer, SendPing(p) PROVE TypeOK'
  BY <1>6 DEF SendPing, Disconnect
<1>7. ASSUME NEW p \in Peer, RegisterPing(p) PROVE TypeOK'
  BY <1>7 DEF RegisterPing, Last, Registered
<1>8. ASSUME NEW p \in Peer, PingTimeout(p) PROVE TypeOK'
  BY <1>8 DEF PingTimeout
<1>9. ASSUME NEW p \in Peer, DisconnectPeer(p) PROVE TypeOK'
  BY <1>9 DEF DisconnectPeer, Disconnect, Forgotten, Of
<1>10. CASE ForwardPong
  BY <1>10 DEF ForwardPong, Answered
<1>11. CASE UNCHANGED vars
  BY <1>11 DEF vars
<1> QED BY <1>1, <1>2, <1>3, <1>4, <1>5, <1>6, <1>7, <1>8, <1>9, <1>10, <1>11
        DEF Next, Reader, Pinger

(* Every step preserves the tie between the map and the goroutines.        *)
THEOREM StepInvariant == IInv /\ [Next]_vars => IInv'
<1> SUFFICES ASSUME IInv, [Next]_vars PROVE IInv'
  OBVIOUS
<1> DEFINE Tie == /\ \A p \in Peer : ping[p] \in {"register"} \cup Registered => sent[p] >= 1
                  /\ \A p \in Peer : NoncesOf(p)
                  /\ \A p \in Peer : ping[p] = "done" => p \notin known
                  /\ ForwardedIsKnown
                  /\ PongRecognised
<1>0. TypeOK'
  BY TypeStep
<1>a. SUFFICES Tie'
  BY <1>0, <1>a DEF IInv
<1> USE MaxPingsAssumption
    DEF IInv, TypeOK, NoncesOf, Registered, ForwardedIsKnown, PongRecognised, Last, Selecting
<1>1. ASSUME NEW p \in Peer, AddPeer(p) PROVE Tie'
  BY <1>1 DEF AddPeer
<1>2. ASSUME NEW p \in Peer, ConnectionLost(p) PROVE Tie'
  BY <1>2 DEF ConnectionLost
<1>3. ASSUME NEW p \in Peer, NEW k \in Nonce, ReadPong(p, k) PROVE Tie'
  BY <1>3 DEF ReadPong
<1>4. ASSUME NEW p \in Peer, PassPong(p) PROVE Tie'
  BY <1>4 DEF PassPong, IsAwaited
<1>5. ASSUME NEW p \in Peer, ReadError(p) PROVE Tie'
  BY <1>5 DEF ReadError
<1>6. ASSUME NEW p \in Peer, SendPing(p) PROVE Tie'
  BY <1>6 DEF SendPing, Disconnect
<1>7. ASSUME NEW p \in Peer, RegisterPing(p) PROVE Tie'
  BY <1>7 DEF RegisterPing, Nonce
<1>8. ASSUME NEW p \in Peer, PingTimeout(p) PROVE Tie'
  BY <1>8 DEF PingTimeout
<1>9. ASSUME NEW p \in Peer, DisconnectPeer(p) PROVE Tie'
  BY <1>9 DEF DisconnectPeer, Disconnect, Forgotten, Of
<1>10. CASE ForwardPong
  BY <1>10 DEF ForwardPong, Receives, Answered, Nonce
<1>11. CASE UNCHANGED vars
  BY <1>11 DEF vars
<1> QED BY <1>1, <1>2, <1>3, <1>4, <1>5, <1>6, <1>7, <1>8, <1>9, <1>10, <1>11
        DEF Next, Reader, Pinger

(* So the tie between the map and the goroutines always holds.             *)
LEMMA Invariance == Spec => []IInv
BY InitInv, StepInvariant, PTL DEF Spec

-----------------------------------------------------------------------------

(* Types, and that a pong being passed on answers a ping that was sent.    *)
THEOREM Typing == Spec => []TypeOK
<1>1. IInv => TypeOK
  BY DEF IInv
<1> QED BY Invariance, <1>1, PTL

(* monitorPeer never receives a nonce it does not wait for: the "nonce     *)
(* doesn't match" branch of monitorPeer is dead.                           *)
THEOREM NonceMatchesHolds == Spec => []NonceMatches
<1>1. IInv => NonceMatches
  BY DEF IInv, TypeOK, NonceMatches, NoncesOf, ForwardedIsKnown, Nonce
<1> QED BY Invariance, <1>1, PTL

(* monitorPeers' map holds at most one nonce of a peer, so that the loop   *)
(* that deletes one and leaves forgets all there are.                      *)
THEOREM OnePingEachHolds == Spec => []OnePingEach
<1>1. IInv => OnePingEach
  <2> SUFFICES ASSUME IInv, NEW p \in Peer PROVE Cardinality(Of(p)) <= 1
    BY DEF OnePingEach
  <2>1. Of(p) = {} \/ Of(p) = {Last(p)}
    BY DEF IInv, NoncesOf, Of
  <2>2. CASE Of(p) = {}
    BY <2>2, FS_EmptySet
  <2>3. CASE Of(p) = {Last(p)}
    BY <2>3, FS_Singleton
  <2> QED BY <2>1, <2>2, <2>3
<1> QED BY Invariance, <1>1, PTL

(* The pong of a registered ping is recognised: no disconnection, pong or  *)
(* timer of another peer takes its nonce out of the map.                   *)
THEOREM PongRecognisedHolds == Spec => []PongRecognised
<1>1. IInv => PongRecognised
  BY DEF IInv
<1> QED BY Invariance, <1>1, PTL

(* Whichever goroutine reports a disconnection first, nothing of the peer  *)
(* stays once monitorPeer has returned.                                    *)
THEOREM NothingLeftHolds == Spec => []NothingLeft
<1>1. IInv => NothingLeft
  BY DEF IInv, NothingLeft, NoncesOf, Registered, Of
<1> QED BY Invariance, <1>1, PTL

(* Once monitorPeers and a monitorPeer that has timed out send to each     *)
(* other, they do so for ever: no step of any goroutine frees them.        *)
THEOREM StuckForever == Spec => StuckStays
<1>1. ASSUME IInv, [Next]_vars, Stuck PROVE Stuck'
  <2> USE <1>1 DEF IInv, TypeOK, Stuck, Selecting, Nonce
  <2>1. ASSUME NEW p \in Peer, AddPeer(p) PROVE Stuck'
    BY <2>1 DEF AddPeer
  <2>2. ASSUME NEW p \in Peer, ConnectionLost(p) \/ Reader(p) PROVE Stuck'
    BY <2>2 DEF ConnectionLost, Reader, ReadPong, PassPong, ReadError
  <2>3. ASSUME NEW p \in Peer, Pinger(p) PROVE Stuck'
    BY <2>3 DEF Pinger, SendPing, RegisterPing, PingTimeout
  <2>4. ASSUME NEW p \in Peer, DisconnectPeer(p) PROVE Stuck'
    BY <2>4 DEF DisconnectPeer
  <2>5. CASE ForwardPong
    BY <2>5 DEF ForwardPong, Receives
  <2>6. CASE UNCHANGED vars
    BY <2>6 DEF vars
  <2> QED BY <2>1, <2>2, <2>3, <2>4, <2>5, <2>6 DEF Next
<1> QED BY Invariance, <1>1, PTL DEF Spec, StuckStays

=============================================================================
