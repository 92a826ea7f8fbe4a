------------------------------- MODULE NodeSync -------------------------------
(***************************************************************************)
(* HeaderSync together with peers that follow the protocol: getheaders and *)
(* getcfilters travel to a peer, the peer answers from its chain and       *)
(* announces the blocks it learns of, and its messages are read in the     *)
(* order it sent them.  The peers are Elements nodes, known here only by   *)
(* what pkg/node expects of them.                                          *)
(*                                                                         *)
(* It adds the filter half of pkg/node: handleCFilter hands a filter to    *)
(* monitorCFilters, which stores it.                                       *)
(***************************************************************************)
EXTENDS HeaderSync

CONSTANTS
  Branch,  \* Branch[p]: the chain p follows, its header of height h at index h
  Batch,   \* the most headers a peer puts in one message (2000 on the network)
  Room     \* bound: the most messages on their way from one peer

ASSUME NodeSyncAssumption ==
  /\ Branch \in [Peer -> Seq(Block)]
  /\ \A p \in Peer : startHeight[p] <= Len(Branch[p])
  /\ Batch \in Nat \ {0} /\ Room \in Nat \ {0}

VARIABLES
  chain,    \* chain[p]: the height p's chain has reached
  inbox,    \* inbox[p]: the messages p sent that the node has not read
  asked,    \* asked[p]: the locators of the getheaders p has not answered
  wanted,   \* wanted[p]: the headers whose filters p was asked for, and has not answered
  putting,  \* the header whose filter monitorCFilters is storing, Genesis when it is idle
  filters   \* filtersDb: the headers whose filters are stored

netVars == <<chain, inbox, asked, wanted, putting, filters>>
nodeVars == <<vars, netVars>>

HeadersOf(m) == [type |-> "headers", headers |-> m]
BlockOf(b) == [type |-> "block", block |-> b]
CFilterOf(b) == [type |-> "cfilter", block |-> b]

NodeInit ==
  /\ Init
  /\ chain = startHeight
  /\ inbox = [p \in Peer |-> <<>>]
  /\ asked = [p \in Peer |-> {}]
  /\ wanted = [p \in Peer |-> {}]
  /\ putting = Genesis
  /\ filters = {}

-----------------------------------------------------------------------------
(* The peers.                                                              *)

(* The connection is up and p has received verack.                         *)
Connected(p) == p \in CFPeer /\ p \in open /\ pc[p] \notin {"new", "greet"}

Deliver(p, m) == /\ Len(inbox[p]) < Room
                 /\ inbox' = [inbox EXCEPT ![p] = Append(@, m)]

(* p learns of a block: it announces it to a connected node, by its header *)
(* (sendheaders) or, after inv and getdata, by the block.                  *)
Mine(p) ==
  LET b == Branch[p][chain[p] + 1] IN
  /\ chain[p] < Len(Branch[p])
  /\ chain' = [chain EXCEPT ![p] = @ + 1]
  /\ IF Connected(p) THEN Deliver(p, HeadersOf(<<b>>)) \/ Deliver(p, BlockOf(b))
                     ELSE UNCHANGED inbox
  /\ UNCHANGED <<vars, asked, wanted, putting, filters>>

(* The highest header of a locator on the chain of p                       *)
ForkPoint(p, loc) ==
  TipHeight({b \in loc : height[b] <= chain[p] /\ Branch[p][height[b]] = b})

(* p answers getheaders with what follows the fork point.  An empty answer *)
(* would be dropped by handleHeaders; it is not sent here.                 *)
AnswerHeaders(p, loc) ==
  LET from == ForkPoint(p, loc)
      to == IF from + Batch < chain[p] THEN from + Batch ELSE chain[p]
  IN
  /\ p \in open
  /\ loc \in asked[p]
  /\ asked' = [asked EXCEPT ![p] = @ \ {loc}]
  /\ IF to > from THEN Deliver(p, HeadersOf(SubSeq(Branch[p], from + 1, to)))
                  ELSE UNCHANGED inbox
  /\ UNCHANGED <<vars, chain, wanted, putting, filters>>

(* p answers getcfilters for a block of its chain and ignores any other.   *)
AnswerFilter(p, b) ==
  /\ p \in open
  /\ b \in wanted[p]
  /\ wanted' = [wanted EXCEPT ![p] = @ \ {b}]
  /\ IF height[b] <= chain[p] /\ Branch[p][height[b]] = b
       THEN Deliver(p, CFilterOf(b)) ELSE UNCHANGED inbox
  /\ UNCHANGED <<vars, chain, asked, putting, filters>>

-----------------------------------------------------------------------------
(* The node: the steps of HeaderSync with the messages they read and send. *)

SendGetHeadersToAny(p) ==   \* a mutant: the connection is not looked at
  IF ~LocatorFails(store)
    THEN \E loc \in Locators(store) : asked' = [asked EXCEPT ![p] = @ \cup {loc}]
    ELSE UNCHANGED asked

(* The part of n.sync(p) that HeaderSync leaves out: p must be in n.Peers, *)
(* a locator must exist and the write must succeed for getheaders to leave *)
SendGetHeaders(p) ==
  IF p \in known /\ p \in open /\ ~LocatorFails(store)
    THEN \E loc \in Locators(store) : asked' = [asked EXCEPT ![p] = @ \cup {loc}]
    ELSE UNCHANGED asked

SyncPeer(p) == /\ Sync(p) \/ SyncGoroutine(p)
               /\ SendGetHeaders(p)
               /\ UNCHANGED <<chain, inbox, wanted, putting, filters>>

(* conn.Read returns the next message and its handler runs.  A filter is   *)
(* handed to monitorCFilters, over an unbuffered channel.                  *)
ReadMessage(p) ==
  /\ inbox[p] # <<>>
  /\ inbox' = [inbox EXCEPT ![p] = Tail(@)]
  /\ LET m == Head(inbox[p]) IN
     \/ m.type = "headers" /\ HandleHeaders(p, m.headers) /\ UNCHANGED putting
     \/ m.type = "block" /\ HandleBlock(p, m.block) /\ UNCHANGED putting
     \/ /\ m.type = "cfilter"
        /\ ~crashed /\ pc[p] = "read" /\ p \in open /\ Started
        /\ putting = Genesis
        /\ putting' = m.block
        /\ UNCHANGED vars
  /\ UNCHANGED <<chain, asked, wanted, filters>>

(* monitorCFilters: PutFilter                                              *)
PutFilter ==
  /\ ~crashed
  /\ putting # Genesis
  /\ filters' = filters \cup {putting}
  /\ putting' = Genesis
  /\ UNCHANGED <<vars, chain, inbox, asked, wanted>>

AskForFilter(q) ==
  /\ RequestFilter(q)
  /\ wanted' = IF q \in open THEN [wanted EXCEPT ![q] = @ \cup {writing}] ELSE wanted
  /\ UNCHANGED <<chain, inbox, asked, putting, filters>>

(* A connection that breaks or is closed takes what was on its way with it *)
Lose(p) == /\ ConnectionLost(p) \/ DisconnectPeer(p)
           /\ inbox' = [inbox EXCEPT ![p] = <<>>]
           /\ asked' = [asked EXCEPT ![p] = {}]
           /\ wanted' = [wanted EXCEPT ![p] = {}]
           /\ UNCHANGED <<chain, putting, filters>>

(* The steps of a goroutine that involve no message                        *)
Quietly(A) == A /\ UNCHANGED netVars

Handler(p) ==
  \/ Quietly(HandleVersion(p))
  \/ Quietly(StartSync(p))
  \/ Quietly(ReadError(p))
  \/ ReadMessage(p)
  \/ SyncPeer(p)

Writer ==
  \/ Quietly(WriteHeader)
  \/ Quietly(CheckPeers)
  \/ \E q \in Peer : AskForFilter(q)
  \/ Quietly(RequestFilterFromNobody)

Poller == Quietly(PollTip) \/ Quietly(CheckSynced)

NodeNext ==
  \/ \E p \in Peer :
       \/ Quietly(AddOutboundPeer(p))
       \/ Handler(p)
       \/ Quietly(SendHeader(p))
       \/ Mine(p)
       \/ \E loc \in asked[p] : AnswerHeaders(p, loc)
       \/ \E b \in wanted[p] : AnswerFilter(p, b)
       \/ Lose(p)
  \/ Writer
  \/ PutFilter
  \/ Poller

(* Start is called; every goroutine that can take a step takes one; a      *)
(* sender on blockHeadersCh is served in turn (blocked senders wait in a   *)
(* FIFO queue), hence SF; a connected peer answers.  Nothing is assumed of *)
(* connections, pings, or the peers' chains.                               *)
Fairness ==
  /\ WF_nodeVars(Quietly(AddOutboundPeer(InitialPeer)))
  /\ \A p \in Peer :
       /\ WF_nodeVars(Handler(p))
       /\ SF_nodeVars(Quietly(SendHeader(p)))
       /\ WF_nodeVars(\E loc \in asked[p] : AnswerHeaders(p, loc))
       /\ WF_nodeVars(\E b \in wanted[p] : AnswerFilter(p, b))
  /\ WF_nodeVars(Writer)
  /\ WF_nodeVars(PutFilter)
  /\ WF_nodeVars(Poller)

NodeSpec == NodeInit /\ [][NodeNext]_nodeVars /\ Fairness

-----------------------------------------------------------------------------
(* Properties                                                              *)

(* Messages and filters have their types, and nothing is on its way over a *)
(* connection that is lost.                                                *)
NodeTypeOK ==
  /\ chain \in [Peer -> Nat] /\ \A p \in Peer : chain[p] <= Len(Branch[p])
  /\ \A p \in Peer : Len(inbox[p]) <= Room
  /\ asked \in [Peer -> SUBSET SUBSET Block]
  /\ wanted \in [Peer -> SUBSET Block]
  /\ \A p \in Peer : Lost(p) => inbox[p] = <<>> /\ asked[p] = {} /\ wanted[p] = {}
  /\ putting \in Block \cup {Genesis}
  /\ filters \in SUBSET Block

(* Start returns: the initial peer is followed until the node is synced,   *)
(* unless its connection is lost first (checkSyncedInitial, n.sync).       *)
EventuallySynced == (pc[InitialPeer] # "new") ~> (synced \/ Lost(InitialPeer))

(* The store catches up with the initial peer's chain again and again: the *)
(* batches of the initial download chain on, and no announcement that      *)
(* overtakes them is forgotten (handleHeaders, handleBlock).               *)
CatchesUp ==
  []<>(TipHeight(store) >= chain[InitialPeer] \/ crashed \/ Lost(InitialPeer))

(* Every stored header gets its filter while no peer is lost               *)
(* (monitorBlockHeaders asks once, and never again).                       *)
EventuallyFiltered == []<>(store \subseteq filters \/ \E p \in Peer : Lost(p))

(* A filter is stored only for a stored header: the scanner reaches a      *)
(* filter through the header of its height.                                *)
FiltersOfStored == filters \subseteq store

=============================================================================
