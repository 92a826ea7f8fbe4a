----------------------------- MODULE PeerMonitor -----------------------------
(***************************************************************************)
(* How pkg/node keeps track of its peers (handle_ping.go): pings, pongs,   *)
(* timeouts and disconnections.                                            *)
(*                                                                         *)
(*   monitorPeers        one goroutine: receives pongs, pings and          *)
(*                       disconnections, each on an unbuffered channel, in *)
(*                       one select; forwards a pong over a third channel; *)
(*   monitorPeer         one goroutine per peer: pings it at each tick and *)
(*                       waits for the pong or a timeout;                  *)
(*   handlePeerMessages  one goroutine per peer: reads pongs, reports a    *)
(*                       connection that breaks.                           *)
(*                                                                         *)
(* n.quit is absent: Start runs on a copy of the node (its receiver is a   *)
(* value) and replaces the copy's quit channel, which Stop never closes.   *)
(***************************************************************************)
EXTENDS Integers, FiniteSets

CONSTANTS
  Peer,
  MaxPings   \* bound: the pings sent to each peer

ASSUME MaxPingsAssumption == MaxPings \in Nat

(* The nonce of the n-th ping to p.  Nonces are random 64-bit numbers; no  *)
(* two are equal here.                                                     *)
Nonce == [peer : Peer, n : 1..MaxPings]

NoNonce == [peer |-> "none"]

VARIABLES
  known,       \* n.Peers
  open,        \* the peers whose connection is open
  pinged,      \* the nonces that have reached their peer
  peerPings,   \* the keys of monitorPeers' map; a nonce names its peer
  forwarding,  \* the pong monitorPeers is sending on peersPongCh, NoNonce at its select
  ping,        \* ping[p]: where monitorPeer(p) is
  sent,        \* sent[p]: the number of pings sent to p
  reader,      \* reader[p]: where handlePeerMessages(p) is
  pong         \* pong[p]: the nonce the reader of p is sending on pongsCh

vars == <<known, open, pinged, peerPings, forwarding, ping, sent, reader, pong>>

(* off       monitorPeer(p) has not been started                           *)
(* idle      waiting for its ticker                                        *)
(* register  sending the nonce on pingsCh                                  *)
(* wait      waiting for the pong or the timer                             *)
(* report    sending the peer on DisconCh                                  *)
(* done      returned                                                      *)
PingState == {"off", "idle", "register", "wait", "report", "done"}

(* read      conn.Read                                                     *)
(* pong      sending a nonce on pongsCh                                    *)
(* discon    sending the peer on DisconCh                                  *)
(* gone      returned                                                      *)
ReaderState == {"read", "pong", "discon", "gone"}

Init ==
  /\ known = {} /\ open = Peer
  /\ pinged = {} /\ peerPings = {}
  /\ forwarding = NoNonce
  /\ ping = [p \in Peer |-> "off"]
  /\ sent = [p \in Peer |-> 0]
  /\ reader = [p \in Peer |-> "read"]
  /\ pong = [p \in Peer |-> NoNonce]

(* monitorPeers is at its select: it takes from any of its channels        *)
Selecting == forwarding = NoNonce

Of(p) == {k \in peerPings : k.peer = p}

PreviousPing(p) == [peer |-> p, n |-> sent[p] - 1]   \* a mutant of Last

(* The nonce of the last ping to p                                         *)
Last(p) == [peer |-> p, n |-> sent[p]]

-----------------------------------------------------------------------------

(* handleVersion: the peer is inserted in n.Peers and go monitorPeer       *)
AddPeer(p) ==
  /\ reader[p] = "read" /\ p \in open
  /\ ping[p] = "off"
  /\ known' = known \cup {p}
  /\ ping' = [ping EXCEPT ![p] = "idle"]
  /\ UNCHANGED <<open, pinged, peerPings, forwarding, sent, reader, pong>>

ConnectionLost(p) ==
  /\ p \in open
  /\ open' = open \ {p}
  /\ UNCHANGED <<known, pinged, peerPings, forwarding, ping, sent, reader, pong>>

(* a mutant of Disconnect: the connection is closed, the peer stays        *)
OnlyClose(p) == known' = known /\ open' = open \ {p}

(* disconnectPeer: nothing is done for a peer that is not in n.Peers.      *)
Disconnect(p) == /\ known' = known \ {p}
                 /\ open' = IF p \in known THEN open \ {p} ELSE open

(* The ticker of monitorPeer(p): a ping is written.  When the write fails  *)
(* the peer is disconnected, and the goroutine goes on.                    *)
SendPing(p) ==
  /\ ping[p] = "idle" /\ sent[p] < MaxPings
  /\ sent' = [sent EXCEPT ![p] = @ + 1]
  /\ ping' = [ping EXCEPT ![p] = "register"]
  /\ \/ /\ p \in open
        /\ pinged' = pinged \cup {[peer |-> p, n |-> sent[p] + 1]}
        /\ UNCHANGED <<known, open>>
     \/ /\ p \notin open
        /\ Disconnect(p)
        /\ UNCHANGED pinged
  /\ UNCHANGED <<peerPings, forwarding, reader, pong>>

(* n.pingsCh <- peerPing, taken by monitorPeers                            *)
RegisterPing(p) ==
  /\ ping[p] = "register" /\ Selecting
  /\ peerPings' = peerPings \cup {Last(p)}
  /\ ping' = [ping EXCEPT ![p] = "wait"]
  /\ UNCHANGED <<known, open, pinged, forwarding, sent, reader, pong>>

(* p answers a ping, perhaps more than once; the pong is read.             *)
ReadPong(p, k) ==
  /\ reader[p] = "read" /\ p \in open
  /\ k \in pinged /\ k.peer = p
  /\ reader' = [reader EXCEPT ![p] = "pong"]
  /\ pong' = [pong EXCEPT ![p] = k]
  /\ UNCHANGED <<known, open, pinged, peerPings, forwarding, ping, sent>>

(* a mutant of IsAwaited: an answered nonce is forwarded again             *)
IsPinged(k) == k \in pinged /\ k.peer \in known

(* monitorPeers knows the nonce and the peer                               *)
IsAwaited(k) == k \in peerPings /\ k.peer \in known

(* n.pongsCh <- nonce, taken by monitorPeers                               *)
PassPong(p) ==
  /\ reader[p] = "pong" /\ Selecting
  /\ forwarding' = IF IsAwaited(pong[p]) THEN pong[p] ELSE NoNonce
  /\ reader' = [reader EXCEPT ![p] = "read"]
  /\ pong' = [pong EXCEPT ![p] = NoNonce]
  /\ UNCHANGED <<known, open, pinged, peerPings, ping, sent>>

AnsweredKept(k) == peerPings   \* a mutant of Answered

(* The nonces left when k is answered                                      *)
Answered(k) == peerPings \ {k}

ReceivesLate(p) == ping[p] \in {"wait", "report"}   \* a mutant of Receives

(* monitorPeer(p) receives from n.peersPongCh[p]                           *)
Receives(p) == ping[p] = "wait"

(* n.peersPongCh[p] <- nonce, taken by monitorPeer(p) if it waits; the     *)
(* nonce is forgotten.                                                     *)
ForwardPong ==
  LET p == forwarding.peer IN
  /\ ~Selecting
  /\ Receives(p)
  /\ ping' = [ping EXCEPT ![p] = IF forwarding = Last(p) THEN "idle" ELSE "report"]
  /\ peerPings' = Answered(forwarding)
  /\ forwarding' = NoNonce
  /\ UNCHANGED <<known, open, pinged, sent, reader, pong>>

(* The timer of monitorPeer(p)                                             *)
PingTimeout(p) ==
  /\ ping[p] = "wait"
  /\ ping' = [ping EXCEPT ![p] = "report"]
  /\ UNCHANGED <<known, open, pinged, peerPings, forwarding, sent, reader, pong>>

ReadError(p) ==
  /\ reader[p] = "read" /\ p \notin open
  /\ reader' = [reader EXCEPT ![p] = "discon"]
  /\ UNCHANGED <<known, open, pinged, peerPings, forwarding, ping, sent, pong>>

(* a mutant of Forgotten: the nonces stay                                  *)
ForgottenNone(p) == {peerPings}

(* a mutant of Forgotten: the loop deletes the first it finds of any peer  *)
ForgottenAny(p) == {peerPings \ {k} : k \in peerPings}

(* The nonces left when p is disconnected: the loop deletes the first it   *)
(* finds of p and stops.                                                   *)
Forgotten(p) == {peerPings \ {k} : k \in Of(p)}

(* n.DisconCh <- p, from monitorPeer or from handlePeerMessages            *)
DisconnectPeer(p) ==
  /\ Selecting
  /\ \/ /\ ping[p] = "report"
        /\ ping' = [ping EXCEPT ![p] = "done"]
        /\ UNCHANGED reader
     \/ /\ reader[p] = "discon"
        /\ reader' = [reader EXCEPT ![p] = "gone"]
        /\ UNCHANGED ping
  /\ Disconnect(p)
  /\ IF Of(p) = {} THEN UNCHANGED peerPings ELSE peerPings' \in Forgotten(p)
  /\ UNCHANGED <<pinged, forwarding, sent, pong>>

Reader(p) ==
  \/ \E k \in Nonce : ReadPong(p, k)
  \/ PassPong(p)
  \/ ReadError(p)

Pinger(p) ==
  \/ SendPing(p)
  \/ RegisterPing(p)
  \/ PingTimeout(p)

Next ==
  \/ \E p \in Peer :
       \/ AddPeer(p)
       \/ ConnectionLost(p)
       \/ Reader(p)
       \/ Pinger(p)
       \/ DisconnectPeer(p)
  \/ ForwardPong

(* Goroutines that can run do; timers fire.  A goroutine blocked on a      *)
(* channel of monitorPeers is served in turn, since blocked senders queue  *)
(* and select is fair among its channels: hence SF.  Nothing makes a peer  *)
(* answer or a connection break.                                           *)
Fairness ==
  /\ \A p \in Peer :
       /\ WF_vars(ReadError(p))
       /\ WF_vars(SendPing(p))
       /\ WF_vars(PingTimeout(p))
       /\ SF_vars(RegisterPing(p))
       /\ SF_vars(PassPong(p))
       /\ SF_vars(DisconnectPeer(p))
  /\ WF_vars(ForwardPong)

Spec == Init /\ [][Next]_vars /\ Fairness

-----------------------------------------------------------------------------
(* Properties                                                              *)

(* Every variable has its type; a nonce in a goroutine's hands is one that *)
(* was sent.                                                               *)
TypeOK ==
  /\ known \in SUBSET Peer /\ open \in SUBSET Peer
  /\ pinged \in SUBSET Nonce /\ peerPings \in SUBSET Nonce
  /\ forwarding \in Nonce \cup {NoNonce}
  /\ ping \in [Peer -> PingState]
  /\ sent \in [Peer -> 0..MaxPings]
  /\ reader \in [Peer -> ReaderState]
  /\ pong \in [Peer -> Nonce \cup {NoNonce}]
  /\ \A p \in Peer : reader[p] = "pong" => pong[p] \in pinged

(* monitorPeers never hands monitorPeer a nonce other than the one it      *)
(* waits for, whatever pongs arrive twice or late: the "nonce doesn't      *)
(* match" branch, which would drop a peer that answers, is dead.           *)
NonceMatches ==
  ~Selecting /\ ping[forwarding.peer] = "wait" => forwarding = Last(forwarding.peer)

(* monitorPeers registers at most one nonce per peer, although pings of a  *)
(* removed peer go on: on DisconCh it deletes one and leaves the loop.     *)
OnePingEach == \A p \in Peer : Cardinality(Of(p)) <= 1

(* Once the nonce of a ping is registered, its pong is recognised whenever *)
(* it comes, whatever happens to other peers meanwhile: a peer that is in  *)
(* n.Peers loses an answer only if it comes before the registration.       *)
PongRecognised == \A p \in known : ping[p] = "wait" => Last(p) \in peerPings

(* When monitorPeer(p) has returned, nothing of p stays in monitorPeers'   *)
(* map, whichever of its two goroutines reported the disconnection first.  *)
NothingLeft == \A p \in Peer : ping[p] = "done" => Of(p) = {} /\ p \notin known

(* monitorPeers sends a pong to a monitorPeer that timed out meanwhile and *)
(* reports that on DisconCh: each waits for the other.                     *)
Stuck == ~Selecting /\ ping[forwarding.peer] \in {"report", "done"}

(* No step of any goroutine, peer or timer ends that: monitorPeers never   *)
(* takes a ping, a pong or a disconnection again.                          *)
StuckStays == [][Stuck => Stuck']_vars

(* "on disconnect, remove the peer from the node": a peer whose connection *)
(* is lost leaves n.Peers.                                                 *)
RemovedOnDisconnect == \A p \in Peer : (p \in known /\ p \notin open) ~> (p \notin known)

(* It does unless monitorPeers is stuck: the late pong is the only way for *)
(* the goroutines of this file to block each other.                        *)
RemovedUnlessStuck ==
  \A p \in Peer : (p \in known /\ p \notin open) ~> (p \notin known \/ Stuck)

=============================================================================
