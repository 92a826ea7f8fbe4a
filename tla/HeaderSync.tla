------------------------------ MODULE HeaderSync ------------------------------
(***************************************************************************)
(* Block header synchronisation in pkg/node: how many goroutines, one per  *)
(* peer, feed one writer over an unbuffered channel.                       *)
(*                                                                         *)
(*   handlePeerMessages   one goroutine per peer: reads a message, decides *)
(*                        against the chain tip it reads at that moment,   *)
(*                        hands headers over one at a time, asks for more; *)
(*   monitorBlockHeaders  one goroutine: receives a header, writes it,     *)
(*                        asks some peer for its compact filter;           *)
(*   checkSyncedInitial   one goroutine: polls until the node is synced;   *)
(*   go n.sync(p)         the first getheaders, from addPeer;              *)
(*   monitorPeers         removes peers (PeerMonitor models how it gets    *)
(*                        to it).                                          *)
(*                                                                         *)
(* What a peer sends is arbitrary here, within HeadersMsg and Block, once  *)
(* it has sent its version message (one, and before any other): safety     *)
(* must hold whatever arrives.  NodeSync adds peers that answer.  Reads of *)
(* the database are assumed not to fail; FaultySpec lets writes fail.      *)
(***************************************************************************)
EXTENDS HeaderStore, Sequences

CONSTANTS
  Peer,         \* the peers the node may be told to connect to
  InitialPeer,  \* the one Start connects to and waits for
  CFPeer,       \* the peers whose version message has SFNodeCF
  startHeight,  \* startHeight[p]: StartHeight in the version message of p
  HeadersMsg    \* the contents a headers message may have

ASSUME PeerAssumption ==
  /\ InitialPeer \in Peer
  /\ CFPeer \subseteq Peer
  /\ startHeight \in [Peer -> Nat]

ASSUME HeadersMsgAssumption == HeadersMsg \subseteq Seq(Block)

VARIABLES
  crashed,    \* a panic nobody recovers has ended the process
  store,      \* blockHeadersDb
  known,      \* n.Peers
  open,       \* the peers whose connection is open
  peersTip,   \* peersTip[p]: p.PeersTip(), 0 until SetPeersTip
  pc,         \* pc[p]: where handlePeerMessages(p) is
  pending,    \* pending[p]: headers it still has to send on blockHeadersCh
  syncing,    \* the peers for which addPeer started a goroutine: go n.sync(p)
  writer,     \* where monitorBlockHeaders is
  writing,    \* the header it is handling, Genesis when it is idle
  polled,     \* the tip checkSyncedInitial is examining, Genesis when it is asleep
  synced      \* checkSyncedInitial has returned: Start has returned to its caller

vars == <<crashed, store, known, open, peersTip, pc, pending, syncing,
          writer, writing, polled, synced>>

(* new      AddOutboundPeer(p) has not been called                         *)
(* greet    conn.Read, and no version message was read yet                 *)
(* added    in addPeer, between inserting p and reading len(n.Peers)       *)
(* read     conn.Read                                                      *)
(* headers  handleHeaders, sending on blockHeadersCh                       *)
(* block    handleBlock, sending on blockHeadersCh                         *)
(* sync     about to call n.sync(p)                                        *)
(* gone     the goroutine has returned                                     *)
HandlerState == {"new", "greet", "added", "read", "headers", "block", "sync", "gone"}

(* idle     select on blockHeadersCh                                       *)
(* write    received, about to call WriteHeaders                           *)
(* check    written, about to test len(n.Peers) > 0                        *)
(* request  tested, about to call getBestPeerForSync                       *)
WriterState == {"idle", "write", "check", "request"}

Init ==
  /\ crashed = FALSE
  /\ known = {}
  /\ open = {}
  /\ peersTip = [p \in Peer |-> 0]
  /\ pc = [p \in Peer |-> "new"]
  /\ pending = [p \in Peer |-> <<>>]
  /\ syncing = {}
  /\ writer = "idle"
  /\ writing = Genesis
  /\ polled = Genesis
  /\ synced = FALSE
  /\ store = {}

(* Start has connected the initial peer and launched the node's goroutines *)
Started == pc[InitialPeer] # "new"

Goto(p, l) == pc' = [pc EXCEPT ![p] = l]

-----------------------------------------------------------------------------
(* Peers come and go.                                                      *)

(* Start for the initial peer, AddOutboundPeer for another: version sent,  *)
(* go handlePeerMessages.                                                  *)
AddOutboundPeer(p) ==
  /\ ~crashed
  /\ pc[p] = "new"
  /\ p \notin known
  /\ Goto(p, "greet")
  /\ open' = open \cup {p}
  /\ UNCHANGED <<crashed, store, known, peersTip, pending, syncing, writer, writing, polled, synced>>

(* handleVersion: a peer with compact filters is inserted in n.Peers; for  *)
(* another one an error is logged and the goroutine reads on.              *)
HandleVersion(p) ==
  /\ ~crashed
  /\ pc[p] = "greet" /\ p \in open
  /\ IF p \in CFPeer
       THEN /\ peersTip' = [peersTip EXCEPT ![p] = startHeight[p]]
            /\ known' = known \cup {p}
            /\ Goto(p, "added")
       ELSE /\ Goto(p, "read")
            /\ UNCHANGED <<peersTip, known>>
  /\ UNCHANGED <<crashed, store, open, pending, syncing, writer, writing, polled, synced>>

(* a mutant of FirstPeer: the length is taken before the insertion         *)
NoPeerYet == Cardinality(known) = 0

(* len(n.Peers) == 1                                                       *)
FirstPeer == Cardinality(known) = 1

(* The rest of addPeer: the only peer is asked for headers.                *)
StartSync(p) ==
  /\ ~crashed
  /\ pc[p] = "added"
  /\ syncing' = IF FirstPeer THEN syncing \cup {p} ELSE syncing
  /\ Goto(p, "read")
  /\ UNCHANGED <<crashed, store, known, open, peersTip, pending, writer, writing, polled, synced>>

(* The connection breaks.                                                  *)
ConnectionLost(p) ==
  /\ ~crashed
  /\ p \in open
  /\ open' = open \ {p}
  /\ UNCHANGED <<crashed, store, known, peersTip, pc, pending, syncing, writer, writing, polled, synced>>

(* conn.Read fails: the goroutine reports on DisconCh and returns.         *)
ReadError(p) ==
  /\ ~crashed
  /\ pc[p] \in {"greet", "read"} /\ p \notin open
  /\ Goto(p, "gone")
  /\ UNCHANGED <<crashed, store, known, open, peersTip, pending, syncing, writer, writing, polled, synced>>

(* monitorPeers runs disconnectPeer(p) for a handler that returned or for  *)
(* a ping that timed out.                                                  *)
DisconnectPeer(p) ==
  /\ ~crashed
  /\ Started
  /\ p \in known
  /\ known' = known \ {p}
  /\ open' = open \ {p}
  /\ UNCHANGED <<crashed, store, peersTip, pc, pending, syncing, writer, writing, polled, synced>>

-----------------------------------------------------------------------------
(* Messages.                                                               *)

(* checkHeadersInSequence: the heights, not the hashes, go up by one       *)
InSequence(m) == \A i \in 1..Len(m) : height[m[i]] = height[m[1]] + (i - 1)

(* The headers handleHeaders sends on, against a tip of the given height:  *)
(* those above the tip (a suffix, as m is in sequence) when the first one  *)
(* is below it, but a message that starts with the tip itself is kept      *)
(* whole.                                                                  *)
NewHeaders(m, tip) ==
  IF height[Head(m)] < tip THEN SubSeq(m, tip - height[Head(m)] + 2, Len(m)) ELSE m

(* mutants: one height may be skipped, any higher block is taken           *)
FollowsLoosely(b) == height[b] <= TipHeight(store) + 2
IsHigher(b) == height[b] > TipHeight(store)

(* The first header of a message, or a new block, continues the chain      *)
Follows(b) == height[b] <= TipHeight(store) + 1
IsNext(b) == height[b] = TipHeight(store) + 1

(* handleHeaders, up to its first channel send or its call of n.sync.  The *)
(* tip is read once; what the goroutine does next depends on that value.   *)
(* An empty or unordered message is dropped, one that starts too high is   *)
(* asked for again, one with nothing new is dropped.                       *)
HandleHeaders(p, m) ==
  /\ ~crashed
  /\ pc[p] = "read" /\ p \in open
  /\ \/ /\ m = <<>> \/ ~InSequence(m)
        /\ UNCHANGED <<pc, pending>>
     \/ /\ m # <<>> /\ InSequence(m)
        /\ ~Follows(Head(m))
        /\ Goto(p, "sync")
        /\ UNCHANGED pending
     \/ /\ m # <<>> /\ InSequence(m)
        /\ Follows(Head(m))
        /\ height[m[Len(m)]] <= TipHeight(store)
        /\ UNCHANGED <<pc, pending>>
     \/ /\ m # <<>> /\ InSequence(m)
        /\ Follows(Head(m))
        /\ height[m[Len(m)]] > TipHeight(store)
        /\ pending' = [pending EXCEPT ![p] = NewHeaders(m, TipHeight(store))]
        /\ Goto(p, "headers")
  /\ UNCHANGED <<crashed, store, known, open, peersTip, syncing, writer, writing, polled, synced>>

(* a mutant: an older block moves the height of the peer, too              *)
IsOther(p, b) == height[b] # peersTip[p]

(* The peer is not known to have come that far.                            *)
IsLater(p, b) == height[b] > peersTip[p]

(* handleBlock, up to its channel send or its call of n.sync: the next     *)
(* block is sent on, a later one than the peer is known to have moves its  *)
(* tip and asks for headers, any other is dropped.                         *)
HandleBlock(p, b) ==
  /\ ~crashed
  /\ pc[p] = "read" /\ p \in open
  /\ \/ /\ IsNext(b)
        /\ pending' = [pending EXCEPT ![p] = <<b>>]
        /\ Goto(p, "block")
        /\ UNCHANGED peersTip
     \/ /\ ~IsNext(b)
        /\ IsLater(p, b)
        /\ peersTip' = [peersTip EXCEPT ![p] = height[b]]
        /\ Goto(p, "sync")
        /\ UNCHANGED pending
     \/ /\ ~IsNext(b)
        /\ ~IsLater(p, b)
        /\ UNCHANGED <<pc, pending, peersTip>>
  /\ UNCHANGED <<crashed, store, known, open, syncing, writer, writing, polled, synced>>

(* mutants: the loop is left one header early; headers are not asked for   *)
(* again after the last                                                    *)
AfterSendEarly(p) == IF Len(pending[p]) > 2 THEN pc[p]
                     ELSE IF pc[p] = "headers" THEN "sync" ELSE "read"
AfterSendNoSync(p) == IF Len(pending[p]) > 1 THEN pc[p] ELSE "read"

(* After its last header handleHeaders goes on to n.sync, handleBlock      *)
(* returns to the loop.                                                    *)
AfterSend(p) == IF Len(pending[p]) > 1 THEN pc[p]
                ELSE IF pc[p] = "headers" THEN "sync" ELSE "read"

(* n.blockHeadersCh <- header: a rendezvous with the idle writer.          *)
SendHeader(p) ==
  /\ ~crashed
  /\ Started
  /\ pc[p] \in {"headers", "block"}
  /\ writer = "idle"
  /\ writer' = "write"
  /\ writing' = Head(pending[p])
  /\ pending' = [pending EXCEPT ![p] = Tail(@)]
  /\ Goto(p, AfterSend(p))
  /\ UNCHANGED <<crashed, store, known, open, peersTip, syncing, polled, synced>>

(* n.sync(p) in the peer's goroutine.  The getheaders message is NodeSync's*)
(* matter; a panic in pg's locator is recovered and the loop restarted.    *)
Sync(p) ==
  /\ ~crashed
  /\ pc[p] = "sync"
  /\ Goto(p, "read")
  /\ UNCHANGED <<crashed, store, known, open, peersTip, pending, syncing, writer, writing, polled, synced>>

(* n.sync(p) in the goroutine addPeer started: the same panic is not       *)
(* recovered there.                                                        *)
SyncGoroutine(p) ==
  /\ ~crashed
  /\ p \in syncing
  /\ syncing' = syncing \ {p}
  /\ crashed' = (p \in known /\ Postgres /\ LocatorFails(store))
  /\ UNCHANGED <<store, known, open, peersTip, pc, pending, writer, writing, polled, synced>>

-----------------------------------------------------------------------------
(* monitorBlockHeaders                                                     *)

WriteHeader ==
  /\ ~crashed
  /\ writer = "write"
  /\ store' = Insert(store, writing)
  /\ writer' = "check"
  /\ UNCHANGED <<crashed, known, open, peersTip, pc, pending, syncing, writing, polled, synced>>

(* WriteHeaders returns an error: it is logged, the header is dropped.     *)
WriteHeaderFails ==
  /\ ~crashed
  /\ writer = "write"
  /\ writer' = "idle" /\ writing' = Genesis
  /\ UNCHANGED <<crashed, store, known, open, peersTip, pc, pending, syncing, polled, synced>>

(* With pg, an error that is not one of the server, such as that of a      *)
(* broken connection to it, fails a type assertion; nobody recovers.       *)
WriteHeaderPanics ==
  /\ ~crashed
  /\ Postgres
  /\ writer = "write"
  /\ crashed' = TRUE
  /\ UNCHANGED <<store, known, open, peersTip, pc, pending, syncing, writer, writing, polled, synced>>

HasOtherPeers == Cardinality(known) > 1   \* a mutant of HasPeers

(* len(n.Peers) > 0                                                        *)
HasPeers == known # {}

CheckPeers ==
  /\ ~crashed
  /\ writer = "check"
  /\ IF HasPeers THEN writer' = "request" /\ UNCHANGED writing
                 ELSE writer' = "idle" /\ writing' = Genesis
  /\ UNCHANGED <<crashed, store, known, open, peersTip, pc, pending, syncing, polled, synced>>

(* getcfilters to the first peer the map iteration yields                  *)
RequestFilter(q) ==
  /\ ~crashed
  /\ writer = "request"
  /\ q \in known
  /\ writer' = "idle" /\ writing' = Genesis
  /\ UNCHANGED <<crashed, store, known, open, peersTip, pc, pending, syncing, polled, synced>>

(* getBestPeerForSync returns nil, on which Connection() is called         *)
RequestFilterFromNobody ==
  /\ ~crashed
  /\ writer = "request"
  /\ known = {}
  /\ crashed' = TRUE
  /\ UNCHANGED <<store, known, open, peersTip, pc, pending, syncing, writer, writing, polled, synced>>

-----------------------------------------------------------------------------
(* checkSyncedInitial                                                      *)

(* synced(p) reads the chain tip first ...                                 *)
PollTip ==
  /\ ~crashed
  /\ Started /\ ~synced
  /\ polled = Genesis
  /\ polled' \in Tips(store)
  /\ UNCHANGED <<crashed, store, known, open, peersTip, pc, pending, syncing, writer, writing, synced>>

(* a mutant: the height of the peer is not looked at                       *)
IsSyncedByAncestors(tip) == HasAllAncestors(store, tip)

(* ... then the ancestors of that tip, which only get more complete, and   *)
(* last the height the initial peer is known to have.                      *)
IsSynced(tip) == HasAllAncestors(store, tip) /\ height[tip] >= peersTip[InitialPeer]

CheckSynced ==
  /\ ~crashed
  /\ polled # Genesis
  /\ synced' = IsSynced(polled)
  /\ polled' = Genesis
  /\ UNCHANGED <<crashed, store, known, open, peersTip, pc, pending, syncing, writer, writing>>

-----------------------------------------------------------------------------

(* The process is killed, or has crashed, and is started again: the pg     *)
(* tables are all that is left.                                            *)
Restart ==
  /\ Postgres
  /\ crashed' = FALSE
  /\ known' = {}
  /\ open' = {}
  /\ peersTip' = [p \in Peer |-> 0]
  /\ pc' = [p \in Peer |-> "new"]
  /\ pending' = [p \in Peer |-> <<>>]
  /\ syncing' = {}
  /\ writer' = "idle"
  /\ writing' = Genesis
  /\ polled' = Genesis
  /\ synced' = FALSE
  /\ UNCHANGED store

PeerStep(p) ==
  \/ AddOutboundPeer(p)
  \/ HandleVersion(p)
  \/ StartSync(p)
  \/ ConnectionLost(p)
  \/ ReadError(p)
  \/ DisconnectPeer(p)
  \/ \E m \in HeadersMsg : HandleHeaders(p, m)
  \/ \E b \in Block : HandleBlock(p, b)
  \/ SendHeader(p)
  \/ Sync(p)
  \/ SyncGoroutine(p)
  \/ RequestFilter(p)

Next ==
  \/ \E p \in Peer : PeerStep(p)
  \/ WriteHeader
  \/ CheckPeers
  \/ RequestFilterFromNobody
  \/ PollTip
  \/ CheckSynced
  \/ Restart

Spec == Init /\ [][Next]_vars

(* The same program over a database whose writes may fail                  *)
FaultySpec == Init /\ [][Next \/ WriteHeaderFails \/ WriteHeaderPanics]_vars

-----------------------------------------------------------------------------
(* Properties                                                              *)

(* Every variable has its type; what is in flight is where it should be.   *)
TypeOK ==
  /\ crashed \in BOOLEAN
  /\ store \in SUBSET Block
  /\ known \in SUBSET Peer
  /\ open \in SUBSET Peer
  /\ peersTip \in [Peer -> Nat]
  /\ pc \in [Peer -> HandlerState]
  /\ pending \in [Peer -> Seq(Block)]
  /\ \A p \in Peer : pc[p] \in {"headers", "block"} <=> pending[p] # <<>>
  /\ syncing \in SUBSET Peer
  /\ writer \in WriterState
  /\ writing \in (IF writer = "idle" THEN {Genesis} ELSE Block)
  /\ polled \in Block \cup {Genesis}
  /\ synced \in BOOLEAN

(* The stored heights are 1, 2, ..., tip with none missing, however the    *)
(* goroutines of several peers interleave: each tests its headers against  *)
(* a tip that other goroutines may have moved before the first is written  *)
(* (handleHeaders, handleBlock, monitorBlockHeaders).  The block locator   *)
(* and the scanner look headers up by height and rely on it.               *)
NoGap == Heights(store) = 1..TipHeight(store)

(* The height the store reaches when the header on its way is written      *)
Frontier == IF writer = "write" /\ height[writing] > TipHeight(store)
              THEN height[writing] ELSE TipHeight(store)

(* No header that is still on its way, in monitorBlockHeaders or in the    *)
(* loop of a handler, can open a gap when it is written.                   *)
InFlightInOrder ==
  /\ writer = "write" => height[writing] <= TipHeight(store) + 1
  /\ \A p \in Peer : pending[p] # <<>> =>
       InSequence(pending[p]) /\ height[Head(pending[p])] <= Frontier + 1

(* The version message of p was read, and its goroutine has not returned.  *)
Greeted(p) == p \in CFPeer /\ pc[p] \in {"added", "read", "headers", "block", "sync"}

(* Once the version of the initial peer was read, the node is not called   *)
(* synced without a complete chain to the height it gave: whatever blocks  *)
(* have moved PeersTip since (handleBlock), whatever other peers send,     *)
(* whichever branch pg kept of an earlier life, and whatever was written   *)
(* between the two reads of synced().                                      *)
SyncedAsHeard ==
  [][~synced /\ synced' /\ Greeted(InitialPeer) =>
       \E t \in store : HasAllAncestors(store, t) /\ height[t] >= startHeight[InitialPeer]]_vars

(* "node is synced with peer": the store has reached the height the        *)
(* initial peer reported when it was connected (Start returns, server.go). *)
SyncedCaughtUp == synced => TipHeight(store) >= startHeight[InitialPeer]

(* The connection to p was opened and is no more.                          *)
Lost(p) == pc[p] # "new" /\ p \notin open

(* Only the loss of a peer can make the process panic: while none is lost, *)
(* getBestPeerForSync finds one, and the locator of the first getheaders   *)
(* finds a header at every height it walks.                                *)
CrashOnlyOnLoss == crashed => \E p \in Peer : Lost(p)

(* The store, to its readers, only grows and never skips a height.         *)
Abstract == INSTANCE ChainStore

StoreSpec == Abstract!Spec

=============================================================================
