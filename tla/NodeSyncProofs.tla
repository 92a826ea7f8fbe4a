---------------------------- MODULE NodeSyncProofs ----------------------------
(***************************************************************************)
(* Proofs about NodeSync, for any number of peers, any branches they       *)
(* follow, batches of any size and either repository: messages on their    *)
(* way are well formed and belong to an open connection, the store has no  *)
(* gap, no filter is stored without its header, and the node says that it  *)
(* is synced only when it is.                                              *)
(***************************************************************************)
EXTENDS NodeSync, HeaderSyncProofs, WellFoundedInduction

Message == [type : {"headers"}, headers : Seq(Block)]
             \cup [type : {"block", "cfilter"}, block : Block]

(* The types of what the network holds.                                    *)
NetType ==
  /\ chain \in [Peer -> Nat] /\ \A p \in Peer : chain[p] <= Len(Branch[p])
  /\ inbox \in [Peer -> Seq(Message)] /\ \A p \in Peer : Len(inbox[p]) <= Room
  /\ asked \in [Peer -> SUBSET SUBSET Block]
  /\ wanted \in [Peer -> SUBSET Block]
  /\ putting \in Block \cup {Genesis}
  /\ filters \in SUBSET Block

(* Without a connection nothing is on its way.                             *)
Silent == \A p \in Peer : p \notin open =>
            inbox[p] = <<>> /\ asked[p] = {} /\ wanted[p] = {}

(* A filter is asked for, sent and stored for a stored header only.        *)
Asked ==
  /\ writer \in {"check", "request"} => writing \in store
  /\ \A p \in Peer : wanted[p] \subseteq store
Answered ==
  \A p \in Peer : \A i \in 1..Len(inbox[p]) :
    inbox[p][i].type = "cfilter" => inbox[p][i].block \in store
Stored == putting \in store \cup {Genesis} /\ filters \subseteq store

Traffic == Asked /\ Answered /\ Stored

NodeIInv == IInv /\ NetType /\ Silent /\ (~Postgres => Traffic)

-----------------------------------------------------------------------------
(* What the peers send.                                                    *)

(* A set of numbers with a bound has a greatest one.                       *)
LEMMA Greatest ==
  ASSUME NEW n \in Nat, NEW S \in SUBSET (0..n), S # {}
  PROVE  \E x \in S : \A y \in S : y <= x
<1> DEFINE T == {n - x : x \in S}
           R == OpToRel(<, Nat)
<1>1. T \subseteq Nat /\ T # {}
  <2>1. \A x \in S : n - x \in Nat
    OBVIOUS
  <2> QED BY <2>1
<1>2. IsWellFoundedOn(R, Nat)
  BY NatLessThanWellFounded
<1>3. \A x, y \in Nat : y < x => <<y, x>> \in R
  BY DEF OpToRel
<1> HIDE DEF T, R
<1>4. PICK m \in T : \A k \in T : ~(<<k, m>> \in R)
  BY <1>1, <1>2, WFMin
<1>5. \A k \in T : m <= k
  <2> TAKE k \in T
  <2>1. k \in Nat /\ m \in Nat
    BY <1>1
  <2>2. ~(k < m)
    BY <1>3, <1>4, <2>1
  <2> QED BY <2>1, <2>2
<1>6. PICK x \in S : m = n - x
  BY DEF T
<1>7. \A y \in S : y <= x
  <2>1. \A y \in S : n - y \in T
    BY DEF T
  <2> QED BY <1>5, <1>6, <2>1
<1> QED BY <1>7

(* The fork point is a height of the peer's chain, and what it answers is  *)
(* a list of headers.                                                      *)
LEMMA ForkPointType ==
  ASSUME NetType, NEW p \in Peer, NEW loc \in SUBSET Block
  PROVE  ForkPoint(p, loc) \in 0..chain[p]
<1> DEFINE S == {b \in loc : height[b] <= chain[p] /\ Branch[p][height[b]] = b}
<1>1. chain[p] \in Nat
  BY DEF NetType
<1>2. Heights(S) \subseteq 0..chain[p]
  BY <1>1, BlockTree DEF Heights
<1>3. CASE S = {}
  BY <1>1, <1>3 DEF ForkPoint, TipHeight
<1>4. CASE S # {}
  <2>1. Heights(S) # {}
    BY <1>4 DEF Heights
  <2> HIDE DEF S
  <2>2. \E h \in Heights(S) : \A g \in Heights(S) : g <= h
    BY <1>1, <1>2, <2>1, Greatest
  <2>3. TipHeight(S) \in Heights(S)
    BY <1>4, <2>2 DEF TipHeight
  <2>4. ForkPoint(p, loc) = TipHeight(S)
    BY DEF ForkPoint, S
  <2> QED BY <1>2, <2>3, <2>4
<1> QED BY <1>3, <1>4

(* A message joins the inbox of its peer.                                  *)
LEMMA Delivered ==
  ASSUME NetType, NEW p \in Peer, NEW m \in Message, Deliver(p, m)
  PROVE  /\ inbox' \in [Peer -> Seq(Message)]
         /\ \A q \in Peer : Len(inbox'[q]) <= Room
         /\ \A q \in Peer \ {p} : inbox'[q] = inbox[q]
         /\ \A i \in 1..Len(inbox'[p]) : inbox'[p][i] = m \/
              (i \in 1..Len(inbox[p]) /\ inbox'[p][i] = inbox[p][i])
<1>1. inbox[p] \in Seq(Message) /\ inbox' = [inbox EXCEPT ![p] = Append(inbox[p], m)]
  BY DEF NetType, Deliver
<1>2. inbox'[p] = Append(inbox[p], m)
  BY <1>1 DEF NetType
<1>3. inbox'[p] \in Seq(Message) /\ Len(inbox'[p]) = Len(inbox[p]) + 1
  BY <1>1, <1>2, AppendProperties
<1>4. \A q \in Peer \ {p} : inbox'[q] = inbox[q]
  BY <1>1 DEF NetType
<1>5. inbox' \in [Peer -> Seq(Message)]
  BY <1>1, <1>2, <1>3 DEF NetType
<1>6. \A q \in Peer : Len(inbox'[q]) <= Room
  BY <1>1, <1>3, <1>4, NodeSyncAssumption DEF NetType, Deliver
<1>7. \A i \in 1..Len(inbox'[p]) : inbox'[p][i] = m \/
              (i \in 1..Len(inbox[p]) /\ inbox'[p][i] = inbox[p][i])
  BY <1>1, <1>2, <1>3
<1> QED BY <1>4, <1>5, <1>6, <1>7

-----------------------------------------------------------------------------
(* Every step keeps the invariant.                                         *)

(* At first nobody has connected and nothing is on its way.                *)
LEMMA NodeInitInvariant == NodeInit => NodeIInv
<1> SUFFICES ASSUME NodeInit PROVE NodeIInv
  OBVIOUS
<1>1. IInv
  BY InitInvariant DEF NodeInit
<1>2. NetType
  <2>1. chain \in [Peer -> Nat] /\ \A p \in Peer : chain[p] <= Len(Branch[p])
    BY PeerAssumption, NodeSyncAssumption DEF NodeInit
  <2>2. inbox \in [Peer -> Seq(Message)] /\ \A p \in Peer : Len(inbox[p]) <= Room
    BY NodeSyncAssumption DEF NodeInit
  <2> QED BY <2>1, <2>2 DEF NetType, NodeInit
<1>3. Silent /\ Traffic
  BY DEF NodeInit, Init, Silent, Traffic, Asked, Answered, Stored
<1> QED BY <1>1, <1>2, <1>3 DEF NodeIInv

(* A step of the node that neither reads nor sends a message.              *)
LEMMA QuietNet ==
  ASSUME NodeIInv, UNCHANGED netVars, open \subseteq open', store \subseteq store',
         ~Postgres => (writer' \in {"check", "request"} => writing' \in store')
  PROVE  NetType' /\ Silent' /\ (~Postgres => Traffic')
<1> USE DEF NodeIInv, netVars
<1>1. NetType'
  BY DEF NetType
<1>2. Silent'
  BY DEF Silent
<1>3. ASSUME ~Postgres PROVE Traffic'
  <2>1. Asked'
    BY <1>3 DEF Traffic, Asked
  <2>2. Answered'
    BY <1>3 DEF Traffic, Answered
  <2>3. Stored'
    BY <1>3 DEF Traffic, Stored
  <2> QED BY <2>1, <2>2, <2>3 DEF Traffic
<1> QED BY <1>1, <1>2, <1>3

(* The steps of a peer's goroutine that the network does not see.          *)
LEMMA QuietHandler ==
  ASSUME NodeIInv, NEW p \in Peer,
         \/ Quietly(AddOutboundPeer(p)) \/ Quietly(HandleVersion(p))
         \/ Quietly(StartSync(p)) \/ Quietly(ReadError(p)) \/ Quietly(SendHeader(p))
  PROVE  NodeIInv'
<1>1. IInv'
  BY PeerSteps, SendHeaderStep DEF NodeIInv, Quietly
<1>2. /\ UNCHANGED netVars /\ open \subseteq open' /\ UNCHANGED store
      /\ writer' = "write" \/ UNCHANGED <<writer, writing>>
  BY DEF Quietly, AddOutboundPeer, HandleVersion, StartSync, ReadError, SendHeader
<1>3. ~Postgres => (writer' \in {"check", "request"} => writing' \in store')
  BY <1>2 DEF NodeIInv, Traffic, Asked
<1> QED BY <1>1, <1>2, <1>3, QuietNet DEF NodeIInv

(* The writer stores the header before it asks for its filter; the         *)
(* in-memory store takes every header.                                     *)
LEMMA QuietWriter ==
  ASSUME NodeIInv,
         \/ Quietly(WriteHeader) \/ Quietly(CheckPeers) \/ Quietly(RequestFilterFromNobody)
         \/ Quietly(PollTip) \/ Quietly(CheckSynced)
  PROVE  NodeIInv'
<1>1. IInv'
  BY WriteHeaderStep, OtherSteps DEF NodeIInv, Quietly
<1>2. CASE Quietly(WriteHeader)
  <2>1. /\ UNCHANGED netVars /\ UNCHANGED open /\ store \subseteq store'
        /\ ~Postgres => writing' \in store'
    BY <1>2 DEF Quietly, WriteHeader, Insert
  <2> QED BY <1>1, <2>1, QuietNet DEF NodeIInv
<1>3. CASE Quietly(CheckPeers) \/ Quietly(RequestFilterFromNobody)
           \/ Quietly(PollTip) \/ Quietly(CheckSynced)
  <2>1. /\ UNCHANGED netVars /\ UNCHANGED open /\ UNCHANGED store
        /\ \/ UNCHANGED writing /\ (writer' \in {"check", "request"} =>
                                      writer \in {"check", "request"})
           \/ writer' = "idle"
    BY <1>3 DEF Quietly, CheckPeers, RequestFilterFromNobody, PollTip, CheckSynced
  <2>2. ~Postgres => (writer' \in {"check", "request"} => writing' \in store')
    BY <2>1 DEF NodeIInv, Traffic, Asked
  <2> QED BY <1>1, <2>1, <2>2, QuietNet DEF NodeIInv
<1> QED BY <1>2, <1>3

(* A message that joins an inbox; if it is a filter, its header is stored. *)
LEMMA DeliverKeeps ==
  ASSUME NodeIInv, UNCHANGED vars, NEW p \in Peer, p \in open,
         NEW m \in Message, Deliver(p, m) \/ UNCHANGED inbox,
         ~Postgres => (m.type = "cfilter" => m.block \in store),
         chain' \in [Peer -> Nat], \A q \in Peer : chain'[q] <= Len(Branch[q]),
         asked' \in [Peer -> SUBSET SUBSET Block],
         \A q \in Peer : asked'[q] \subseteq asked[q],
         wanted' \in [Peer -> SUBSET Block],
         \A q \in Peer : wanted'[q] \subseteq wanted[q],
         UNCHANGED <<putting, filters>>
  PROVE  NodeIInv'
<1> USE DEF NodeIInv
<1>1. IInv'
  BY OtherSteps
<1>2. NetType'
  <2>1. inbox' \in [Peer -> Seq(Message)] /\ \A q \in Peer : Len(inbox'[q]) <= Room
    BY Delivered DEF NetType
  <2> QED BY <2>1 DEF NetType
<1>3. \A q \in Peer \ {p} : inbox'[q] = inbox[q]
  BY Delivered
<1>4. Silent'
  BY <1>3 DEF Silent, vars
<1>5. ASSUME ~Postgres PROVE Traffic'
  <2>1. Asked'
    BY <1>5 DEF Traffic, Asked, vars
  <2>2. Answered'
    <3> SUFFICES ASSUME NEW q \in Peer, NEW i \in 1..Len(inbox'[q]),
                        inbox'[q][i].type = "cfilter"
                 PROVE  inbox'[q][i].block \in store
      BY DEF Answered, vars
    <3>1. CASE inbox'[q] = inbox[q]
      BY <1>5, <3>1 DEF Traffic, Answered
    <3>2. CASE q = p /\ Deliver(p, m)
      <4>1. inbox'[p][i] = m \/ (i \in 1..Len(inbox[p]) /\ inbox'[p][i] = inbox[p][i])
        BY <3>2, Delivered
      <4> QED BY <1>5, <3>2, <4>1 DEF Traffic, Answered
    <3> QED BY <1>3, <3>1, <3>2
  <2>3. Stored'
    BY <1>5 DEF Traffic, Stored, vars
  <2> QED BY <2>1, <2>2, <2>3 DEF Traffic
<1> QED BY <1>1, <1>2, <1>4, <1>5

(* The peers announce blocks and answer.                                   *)
LEMMA MineStep ==
  ASSUME NodeIInv, NEW p \in Peer, Mine(p)
  PROVE  NodeIInv'
<1> DEFINE b == Branch[p][chain[p] + 1]
<1>1. /\ chain[p] \in Nat /\ chain[p] < Len(Branch[p]) /\ Branch[p] \in Seq(Block)
      /\ chain' = [chain EXCEPT ![p] = chain[p] + 1]
      /\ UNCHANGED <<vars, asked, wanted, putting, filters>>
  BY NodeSyncAssumption DEF Mine, NodeIInv, NetType
<1>2. b \in Block
  BY <1>1
<1>3. HeadersOf(<<b>>) \in Message /\ BlockOf(b) \in Message
  BY <1>2 DEF HeadersOf, BlockOf, Message
<1>4. HeadersOf(<<b>>).type # "cfilter" /\ BlockOf(b).type # "cfilter"
  BY DEF HeadersOf, BlockOf
<1>5. chain' \in [Peer -> Nat] /\ \A q \in Peer : chain'[q] <= Len(Branch[q])
  BY <1>1 DEF NodeIInv, NetType
<1>6. asked' \in [Peer -> SUBSET SUBSET Block] /\ wanted' \in [Peer -> SUBSET Block]
      /\ \A q \in Peer : asked'[q] \subseteq asked[q] /\ wanted'[q] \subseteq wanted[q]
  BY <1>1 DEF NodeIInv, NetType
<1>7. CASE Connected(p)
  <2>1. p \in open /\ (Deliver(p, HeadersOf(<<b>>)) \/ Deliver(p, BlockOf(b)))
    BY <1>7 DEF Mine, Connected
  <2> HIDE DEF b
  <2> QED BY <1>1, <1>3, <1>4, <1>5, <1>6, <2>1, DeliverKeeps
<1>8. CASE ~Connected(p)
  <2>1. UNCHANGED inbox
    BY <1>8 DEF Mine
  <2>2. IInv'
    BY <1>1, OtherSteps DEF NodeIInv
  <2>3. NetType' /\ Silent' /\ (~Postgres => Traffic')
    BY <1>1, <1>5, <2>1 DEF NodeIInv, NetType, Silent, Traffic, Asked, Answered, Stored, vars
  <2> QED BY <2>2, <2>3 DEF NodeIInv
<1> QED BY <1>7, <1>8

(* A peer answers getheaders with a batch of its branch, never a filter.   *)
LEMMA AnswerHeadersStep ==
  ASSUME NodeIInv, NEW p \in Peer, NEW loc \in asked[p], AnswerHeaders(p, loc)
  PROVE  NodeIInv'
<1> DEFINE from == ForkPoint(p, loc)
           to == IF from + Batch < chain[p] THEN from + Batch ELSE chain[p]
           m == HeadersOf(SubSeq(Branch[p], from + 1, to))
<1>1. /\ chain[p] \in Nat /\ chain[p] <= Len(Branch[p]) /\ Branch[p] \in Seq(Block)
      /\ loc \in SUBSET Block /\ asked \in [Peer -> SUBSET SUBSET Block]
  BY NodeSyncAssumption DEF NodeIInv, NetType
<1>2. from \in 0..chain[p]
  BY <1>1, ForkPointType DEF NodeIInv
<1>3. /\ p \in open
      /\ asked' = [asked EXCEPT ![p] = asked[p] \ {loc}]
      /\ IF to > from THEN Deliver(p, m) ELSE UNCHANGED inbox
      /\ UNCHANGED <<vars, chain, wanted, putting, filters>>
  BY DEF AnswerHeaders
<1> HIDE DEF from
<1>4. SubSeq(Branch[p], from + 1, to) \in Seq(Block)
  <2>1. from + 1 \in Int /\ to \in Int /\ \A i \in (from + 1)..to : i \in 1..Len(Branch[p])
    BY <1>1, <1>2, NodeSyncAssumption
  <2>2. \A i \in (from + 1)..to : Branch[p][i] \in Block
    BY <1>1, <2>1
  <2> HIDE DEF to
  <2> QED BY <2>1, <2>2, SubSeqProperties
<1>5. m \in Message /\ m.type # "cfilter"
  BY <1>4 DEF HeadersOf, Message
<1>6. /\ asked' \in [Peer -> SUBSET SUBSET Block]
      /\ \A q \in Peer : asked'[q] \subseteq asked[q]
  BY <1>1, <1>3
<1>7. /\ chain' \in [Peer -> Nat] /\ \A q \in Peer : chain'[q] <= Len(Branch[q])
      /\ wanted' \in [Peer -> SUBSET Block] /\ \A q \in Peer : wanted'[q] \subseteq wanted[q]
  BY <1>3 DEF NodeIInv, NetType
<1>8. Deliver(p, m) \/ UNCHANGED inbox
  BY <1>3
<1> HIDE DEF m, to
<1> QED BY <1>3, <1>5, <1>6, <1>7, <1>8, DeliverKeeps

(* A peer sends a filter only for a header it was asked about, which is    *)
(* stored.                                                                 *)
LEMMA AnswerFilterStep ==
  ASSUME NodeIInv, NEW p \in Peer, NEW b \in wanted[p], AnswerFilter(p, b)
  PROVE  NodeIInv'
<1>1. /\ p \in open
      /\ wanted' = [wanted EXCEPT ![p] = wanted[p] \ {b}]
      /\ Deliver(p, CFilterOf(b)) \/ UNCHANGED inbox
      /\ UNCHANGED <<vars, chain, asked, putting, filters>>
  BY DEF AnswerFilter
<1>2. b \in Block /\ wanted \in [Peer -> SUBSET Block]
  BY DEF NodeIInv, NetType
<1>3. CFilterOf(b) \in Message /\ CFilterOf(b).block = b
  BY <1>2 DEF CFilterOf, Message
<1>4. ~Postgres => b \in store
  BY DEF NodeIInv, Traffic, Asked
<1>5. wanted' \in [Peer -> SUBSET Block] /\ \A q \in Peer : wanted'[q] \subseteq wanted[q]
  BY <1>1, <1>2
<1>6. /\ chain' \in [Peer -> Nat] /\ \A q \in Peer : chain'[q] <= Len(Branch[q])
      /\ asked' \in [Peer -> SUBSET SUBSET Block] /\ \A q \in Peer : asked'[q] \subseteq asked[q]
  BY <1>1 DEF NodeIInv, NetType
<1> QED BY <1>1, <1>3, <1>4, <1>5, <1>6, DeliverKeeps

-----------------------------------------------------------------------------
(* The node reads messages and sends its own.                              *)

(* handlePeerMessages takes the first message: what is left is a suffix,   *)
(* and a filter goes on its way to the repository.                         *)
LEMMA ReadMessageStep ==
  ASSUME NodeIInv, NEW p \in Peer, ReadMessage(p)
  PROVE  NodeIInv'
<1> DEFINE m == Head(inbox[p])
<1> USE DEF NodeIInv
<1>1. inbox \in [Peer -> Seq(Message)] /\ inbox[p] \in Seq(Message) /\ inbox[p] # <<>>
  BY DEF NetType, ReadMessage
<1>2. m \in Message /\ m = inbox[p][1] /\ 1 \in 1..Len(inbox[p])
  BY <1>1
<1>3. /\ Tail(inbox[p]) \in Seq(Message) /\ Len(Tail(inbox[p])) = Len(inbox[p]) - 1
      /\ \A i \in 1..Len(Tail(inbox[p])) : Tail(inbox[p])[i] = inbox[p][i + 1]
  BY <1>1, HeadTailProperties
<1>4. /\ inbox' = [inbox EXCEPT ![p] = Tail(inbox[p])]
      /\ UNCHANGED <<chain, asked, wanted, filters>>
      /\ \/ m.type = "headers" /\ HandleHeaders(p, m.headers) /\ UNCHANGED putting
         \/ m.type = "block" /\ HandleBlock(p, m.block) /\ UNCHANGED putting
         \/ m.type = "cfilter" /\ putting' = m.block /\ UNCHANGED vars
  BY DEF ReadMessage
<1>5. /\ m.type = "headers" => m.headers \in Seq(Block)
      /\ m.type \in {"block", "cfilter"} => m.block \in Block
  BY <1>2 DEF Message
<1>6. IInv' /\ UNCHANGED <<store, writer, writing, open>>
  <2> HIDE DEF m
  <2>1. CASE m.type = "headers" /\ HandleHeaders(p, m.headers)
    BY <1>5, <2>1, HandleHeadersStep DEF HandleHeaders
  <2>2. CASE m.type = "block" /\ HandleBlock(p, m.block)
    BY <1>5, <2>2, HandleBlockStep DEF HandleBlock
  <2>3. CASE UNCHANGED vars
    BY <2>3, OtherSteps DEF vars
  <2> QED BY <1>4, <2>1, <2>2, <2>3
<1>7. putting' = putting \/ (m.type = "cfilter" /\ putting' = m.block)
  BY <1>4
<1> HIDE DEF m
<1>8. NetType'
  <2>1. inbox' \in [Peer -> Seq(Message)]
    BY <1>1, <1>3, <1>4
  <2>2. \A q \in Peer : Len(inbox'[q]) <= Room
    BY <1>1, <1>3, <1>4, NodeSyncAssumption DEF NetType
  <2>3. putting' \in Block \cup {Genesis}
    BY <1>5, <1>7 DEF NetType
  <2> QED BY <1>4, <2>1, <2>2, <2>3 DEF NetType
<1>9. Silent'
  <2>1. p \in open
    BY <1>1 DEF Silent
  <2> QED BY <1>1, <1>4, <1>6, <2>1 DEF Silent
<1>10. ASSUME ~Postgres PROVE Traffic'
  <2>1. Asked'
    BY <1>4, <1>6, <1>10 DEF Traffic, Asked
  <2>2. Answered'
    <3> SUFFICES ASSUME NEW q \in Peer, NEW i \in 1..Len(inbox'[q]),
                        inbox'[q][i].type = "cfilter"
                 PROVE  inbox'[q][i].block \in store
      BY <1>6 DEF Answered
    <3>1. CASE q # p
      BY <1>1, <1>4, <1>10, <3>1 DEF Traffic, Answered
    <3>2. CASE q = p
      <4>1. inbox'[p] = Tail(inbox[p])
        BY <1>1, <1>4
      <4>2. i + 1 \in 1..Len(inbox[p]) /\ inbox'[p][i] = inbox[p][i + 1]
        BY <1>1, <1>3, <3>2, <4>1
      <4> QED BY <1>10, <3>2, <4>2 DEF Traffic, Answered
    <3> QED BY <3>1, <3>2
  <2>3. Stored'
    BY <1>2, <1>4, <1>6, <1>7, <1>10 DEF Traffic, Answered, Stored
  <2> QED BY <2>1, <2>2, <2>3 DEF Traffic
<1> QED BY <1>6, <1>8, <1>9, <1>10

(* sync sends getheaders only to a peer whose connection is open.          *)
LEMMA SyncPeerStep ==
  ASSUME NodeIInv, NEW p \in Peer, SyncPeer(p)
  PROVE  NodeIInv'
<1> USE DEF NodeIInv
<1>1. IInv' /\ UNCHANGED <<store, writer, writing, open>>
  BY PeerSteps DEF SyncPeer, Sync, SyncGoroutine
<1>2. UNCHANGED <<chain, inbox, wanted, putting, filters>>
  BY DEF SyncPeer
<1>3. asked' = asked \/ (p \in open /\ \E loc \in SUBSET Block :
                           asked' = [asked EXCEPT ![p] = asked[p] \cup {loc}])
  BY DEF SyncPeer, SendGetHeaders, Locators, IInv, TypeOK
<1>4. NetType'
  BY <1>2, <1>3 DEF NetType
<1>5. Silent'
  BY <1>1, <1>2, <1>3 DEF Silent, NetType
<1>6. ~Postgres => Traffic'
  BY <1>1, <1>2 DEF Traffic, Asked, Answered, Stored
<1> QED BY <1>1, <1>4, <1>5, <1>6

(* monitorCFilters stores the filter it received.                          *)
LEMMA PutFilterStep == ASSUME NodeIInv, PutFilter PROVE NodeIInv'
<1> USE DEF NodeIInv
<1>1. IInv'
  BY OtherSteps DEF PutFilter
<1>2. NetType' /\ Silent'
  BY DEF PutFilter, NetType, Silent, vars
<1>3. ~Postgres => Traffic'
  BY DEF PutFilter, Traffic, Asked, Answered, Stored, vars
<1> QED BY <1>1, <1>2, <1>3

(* monitorBlockHeaders asks for the filter of the header it has stored.    *)
LEMMA AskForFilterStep ==
  ASSUME NodeIInv, NEW q \in Peer, AskForFilter(q)
  PROVE  NodeIInv'
<1> USE DEF NodeIInv
<1>1. IInv'
  BY OtherSteps DEF AskForFilter
<1>2. /\ UNCHANGED <<store, open, chain, inbox, asked, putting, filters>>
      /\ writer = "request" /\ writer' = "idle"
      /\ \/ UNCHANGED wanted
         \/ q \in open /\ wanted' = [wanted EXCEPT ![q] = wanted[q] \cup {writing}]
  BY DEF AskForFilter, RequestFilter
<1>3. writing \in Block
  BY <1>2 DEF IInv, TypeOK
<1>4. NetType'
  BY <1>2, <1>3 DEF NetType
<1>5. Silent'
  BY <1>2 DEF Silent, NetType
<1>6. ~Postgres => Traffic'
  BY <1>2 DEF Traffic, Asked, Answered, Stored, NetType
<1> QED BY <1>1, <1>4, <1>5, <1>6

(* A lost connection takes with it what was on its way.                    *)
LEMMA LoseStep ==
  ASSUME NodeIInv, NEW p \in Peer, Lose(p)
  PROVE  NodeIInv'
<1> USE DEF NodeIInv
<1>1. IInv' /\ UNCHANGED <<store, writer, writing>> /\ open' = open \ {p}
  BY PeerSteps DEF Lose, ConnectionLost, DisconnectPeer
<1>2. /\ inbox' = [inbox EXCEPT ![p] = <<>>]
      /\ asked' = [asked EXCEPT ![p] = {}]
      /\ wanted' = [wanted EXCEPT ![p] = {}]
      /\ UNCHANGED <<chain, putting, filters>>
  BY DEF Lose
<1>3. NetType'
  BY <1>2, NodeSyncAssumption DEF NetType
<1>4. Silent'
  BY <1>1, <1>2 DEF Silent, NetType
<1>5. ~Postgres => Traffic'
  BY <1>1, <1>2 DEF Traffic, Asked, Answered, Stored, NetType
<1> QED BY <1>1, <1>3, <1>4, <1>5

(* No step of the node, of a peer or of the network breaks the invariant.  *)
THEOREM NodeStepInvariant == NodeIInv /\ [NodeNext]_nodeVars => NodeIInv'
<1> SUFFICES ASSUME NodeIInv, [NodeNext]_nodeVars PROVE NodeIInv'
  OBVIOUS
<1>1. ASSUME NEW p \in Peer,
             \/ Quietly(AddOutboundPeer(p)) \/ Handler(p) \/ Quietly(SendHeader(p))
      PROVE  NodeIInv'
  BY <1>1, QuietHandler, ReadMessageStep, SyncPeerStep DEF Handler
<1>2. ASSUME NEW p \in Peer,
             \/ Mine(p) \/ Lose(p)
             \/ \E loc \in asked[p] : AnswerHeaders(p, loc)
             \/ \E b \in wanted[p] : AnswerFilter(p, b)
      PROVE  NodeIInv'
  BY <1>2, MineStep, LoseStep, AnswerHeadersStep, AnswerFilterStep
<1>3. CASE Writer
  BY <1>3, QuietWriter, AskForFilterStep DEF Writer
<1>4. CASE PutFilter
  BY <1>4, PutFilterStep
<1>5. CASE Poller
  BY <1>5, QuietWriter DEF Poller
<1>6. CASE UNCHANGED nodeVars
  <2>1. UNCHANGED vars /\ UNCHANGED netVars
    BY <1>6 DEF nodeVars
  <2>2. IInv'
    BY <2>1, OtherSteps DEF NodeIInv
  <2>3. NetType' /\ Silent' /\ (~Postgres => Traffic')
    BY <2>1 DEF NodeIInv, NetType, Silent, Traffic, Asked, Answered, Stored, netVars, vars
  <2> QED BY <2>2, <2>3 DEF NodeIInv
<1> QED BY <1>1, <1>2, <1>3, <1>4, <1>5, <1>6 DEF NodeNext

(* So the invariant always holds.                                          *)
THEOREM NodeInvariance == NodeSpec => []NodeIInv
BY NodeInitInvariant, NodeStepInvariant, PTL DEF NodeSpec

-----------------------------------------------------------------------------
(* What follows.                                                           *)

(* Messages, requests and filters have their types, and nothing is on its  *)
(* way over a lost connection (disconnectPeer closes it).                  *)
THEOREM NodeTyping == NodeSpec => []NodeTypeOK
<1>1. NodeIInv => NodeTypeOK
  BY DEF NodeIInv, NetType, Silent, NodeTypeOK, Lost
<1> QED BY NodeInvariance, <1>1, PTL

(* The in-memory repositories never hold a filter without its header: it   *)
(* is asked for after the header is written (monitorBlockHeaders), and     *)
(* nothing removes a header.                                               *)
THEOREM FiltersOfStoredHolds ==
  ASSUME ~Postgres
  PROVE  NodeSpec => []FiltersOfStored
<1>1. NodeIInv => FiltersOfStored
  BY DEF NodeIInv, Traffic, Stored, FiltersOfStored
<1> QED BY NodeInvariance, <1>1, PTL

(* What peers that follow the protocol send, in whatever order it is read, *)
(* leaves no gap in the store (handleHeaders, handleBlock).                *)
THEOREM NodeNoGap == NodeSpec => []NoGap
<1>1. NodeIInv => NoGap
  BY DEF NodeIInv, IInv, TipInv
<1> QED BY NodeInvariance, <1>1, PTL

-----------------------------------------------------------------------------
(* When Start returns.                                                     *)

(* The node knows how high the initial peer was when it was connected.     *)
Met == peersTip[InitialPeer] >= startHeight[InitialPeer]

(* No peer that would be asked for headers has said its version.           *)
Untouched ==
  /\ known = {} /\ store = {} /\ writer = "idle"
  /\ \A p \in Peer : /\ pc[p] \in {"new", "greet", "read", "gone"}
                     /\ ~Connected(p)
                     /\ inbox[p] = <<>> /\ asked[p] = {} /\ wanted[p] = {}

SyncInv == NodeIInv /\ (Met \/ Untouched) /\ PolledStored /\ SyncedCaughtUp

(* What the node knows of the height of a peer only grows (handleBlock),   *)
(* once it is set (handleVersion).                                         *)
LEMMA MetStays ==
  ASSUME NodeIInv, Met, [NodeNext]_nodeVars
  PROVE  Met'
<1> DEFINE s == startHeight[InitialPeer]
<1>1. /\ peersTip \in [Peer -> Nat] /\ InitialPeer \in Peer /\ s \in Nat
      /\ \A b \in Block : height[b] \in Nat
  BY PeerAssumption, BlockTree DEF NodeIInv, IInv, TypeOK
<1>2. ASSUME NEW p \in Peer, Quietly(HandleVersion(p)) PROVE Met'
  BY <1>1, <1>2 DEF Quietly, HandleVersion, Met
<1>3. ASSUME NEW p \in Peer, ReadMessage(p) PROVE Met'
  <2>1. \/ UNCHANGED peersTip
        \/ peersTip' = [peersTip EXCEPT ![p] = height[Head(inbox[p]).block]]
              /\ height[Head(inbox[p]).block] > peersTip[p]
              /\ Head(inbox[p]).block \in Block
    <3>1. inbox[p] # <<>> /\ inbox[p] \in Seq(Message)
      BY <1>3 DEF NodeIInv, NetType, ReadMessage
    <3>2. Head(inbox[p]) \in Message
      BY <3>1
    <3>3. Head(inbox[p]).type = "block" => Head(inbox[p]).block \in Block
      BY <3>2 DEF Message
    <3> QED BY <1>3, <3>3 DEF ReadMessage, HandleHeaders, HandleBlock, IsLater, vars
  <2>2. peersTip'[InitialPeer] >= peersTip[InitialPeer]
    BY <1>1, <2>1
  <2>3. peersTip'[InitialPeer] \in Nat
    BY <1>1, <2>1
  <2> QED BY <1>1, <2>2, <2>3 DEF Met
<1>4. CASE UNCHANGED peersTip
  BY <1>4 DEF Met
<1> QED BY <1>2, <1>3, <1>4 DEF NodeNext, Handler, Writer, Poller, Quietly, nodeVars, vars,
      AddOutboundPeer, StartSync, ConnectionLost, ReadError, DisconnectPeer, SendHeader,
      SyncPeer, Sync, SyncGoroutine, Mine, AnswerHeaders, AnswerFilter, Lose, WriteHeader,
      CheckPeers, AskForFilter, RequestFilter, RequestFilterFromNobody, PutFilter, PollTip,
      CheckSynced

(* Until the initial peer has said its version nobody is asked for headers *)
(* and no header comes, if no other peer has compact filters (addPeer).    *)
LEMMA UntouchedUntilMet ==
  ASSUME CFPeer \subseteq {InitialPeer}, NodeIInv, Untouched, [NodeNext]_nodeVars
  PROVE  Met' \/ Untouched'
<1> USE DEF Untouched
<1>1. /\ peersTip \in [Peer -> Nat] /\ InitialPeer \in Peer
      /\ startHeight[InitialPeer] \in Nat /\ pc \in [Peer -> HandlerState]
      /\ inbox \in [Peer -> Seq(Message)] /\ asked \in [Peer -> SUBSET SUBSET Block]
      /\ wanted \in [Peer -> SUBSET Block]
  BY PeerAssumption DEF NodeIInv, IInv, TypeOK, NetType
<1>2. ASSUME NEW p \in Peer, Quietly(HandleVersion(p)) PROVE Met' \/ Untouched'
  <2>1. CASE p \in CFPeer
    BY <1>1, <1>2, <2>1 DEF Quietly, HandleVersion, Met
  <2>2. CASE p \notin CFPeer
    BY <1>1, <1>2, <2>2 DEF Quietly, HandleVersion, Goto, netVars, Connected
  <2> QED BY <2>1, <2>2
<1>3. ASSUME NEW p \in Peer, Quietly(AddOutboundPeer(p)) \/ Quietly(ReadError(p))
      PROVE  Untouched'
  BY <1>1, <1>3 DEF Quietly, AddOutboundPeer, ReadError, Goto, netVars, Connected
<1>4. ASSUME NEW p \in Peer,
             Quietly(StartSync(p)) \/ ReadMessage(p) \/ Quietly(SendHeader(p))
      PROVE  FALSE
  BY <1>1, <1>4 DEF Quietly, StartSync, ReadMessage, SendHeader
<1>5. ASSUME NEW p \in Peer, SyncPeer(p) PROVE Untouched'
  BY <1>1, <1>5 DEF SyncPeer, Sync, SyncGoroutine, SendGetHeaders, Connected
<1>6. ASSUME NEW p \in Peer, Mine(p) PROVE Untouched'
  <2>1. UNCHANGED <<vars, inbox, asked, wanted>>
    BY <1>6 DEF Mine
  <2> QED BY <2>1 DEF vars, Connected
<1>7. ASSUME NEW p \in Peer, Lose(p) PROVE Untouched'
  <2>1. /\ UNCHANGED <<pc, store, writer>> /\ known' \subseteq known
        /\ open' \subseteq open
    BY <1>7 DEF Lose, ConnectionLost, DisconnectPeer
  <2>2. /\ inbox' = [inbox EXCEPT ![p] = <<>>] /\ asked' = [asked EXCEPT ![p] = {}]
        /\ wanted' = [wanted EXCEPT ![p] = {}]
    BY <1>7 DEF Lose
  <2> QED BY <1>1, <2>1, <2>2 DEF Connected
<1>8. ASSUME NEW p \in Peer PROVE asked[p] = {} /\ wanted[p] = {}
  OBVIOUS
<1>9. CASE Poller \/ PutFilter \/ UNCHANGED nodeVars
  BY <1>9 DEF Poller, Quietly, PollTip, CheckSynced, PutFilter, nodeVars, netVars, vars,
         Connected
<1>10. ~Writer
  BY DEF Writer, Quietly, WriteHeader, CheckPeers, AskForFilter, RequestFilter,
         RequestFilterFromNobody
<1> QED BY <1>2, <1>3, <1>4, <1>5, <1>6, <1>7, <1>8, <1>9, <1>10 DEF NodeNext, Handler

(* Who writes the store, and who polls it.                                 *)
LEMMA StoreUsers ==
  ASSUME [NodeNext]_nodeVars
  PROVE  \/ UNCHANGED <<store, polled, synced>>
         \/ Quietly(WriteHeader) \/ Quietly(PollTip) \/ Quietly(CheckSynced)
<1> DEFINE Same == UNCHANGED <<store, polled, synced>>
<1>1. ASSUME NEW p \in Peer, Handler(p) PROVE Same
  <2>1. CASE ReadMessage(p)
    BY <2>1 DEF ReadMessage, HandleHeaders, HandleBlock, vars
  <2>2. CASE SyncPeer(p)
    BY <2>2 DEF SyncPeer, Sync, SyncGoroutine
  <2>3. CASE Quietly(HandleVersion(p)) \/ Quietly(StartSync(p)) \/ Quietly(ReadError(p))
    BY <2>3 DEF Quietly, HandleVersion, StartSync, ReadError
  <2> QED BY <1>1, <2>1, <2>2, <2>3 DEF Handler
<1>2. ASSUME NEW p \in Peer, Quietly(AddOutboundPeer(p)) \/ Quietly(SendHeader(p)) \/ Lose(p)
      PROVE  Same
  BY <1>2 DEF Quietly, AddOutboundPeer, SendHeader, Lose, ConnectionLost, DisconnectPeer
<1>3. ASSUME NEW p \in Peer,
             \/ Mine(p)
             \/ \E loc \in asked[p] : AnswerHeaders(p, loc)
             \/ \E b \in wanted[p] : AnswerFilter(p, b)
      PROVE  Same
  BY <1>3 DEF Mine, AnswerHeaders, AnswerFilter, vars
<1>4. CASE PutFilter \/ UNCHANGED nodeVars
  BY <1>4 DEF PutFilter, nodeVars, vars
<1>5. CASE Writer
  <2>1. CASE \E q \in Peer : AskForFilter(q)
    BY <2>1 DEF AskForFilter, RequestFilter
  <2>2. CASE Quietly(CheckPeers) \/ Quietly(RequestFilterFromNobody)
    BY <2>2 DEF Quietly, CheckPeers, RequestFilterFromNobody
  <2> QED BY <1>5, <2>1, <2>2 DEF Writer
<1>6. CASE Poller
  BY <1>6 DEF Poller
<1> QED BY <1>1, <1>2, <1>3, <1>4, <1>5, <1>6 DEF NodeNext

(* The store only grows, and with it its tip (monitorBlockHeaders).        *)
LEMMA TipGrows ==
  ASSUME NodeIInv, [NodeNext]_nodeVars
  PROVE  store \subseteq store' /\ TipHeight(store) <= TipHeight(store)'
<1>1. store \subseteq store'
  BY StoreUsers DEF Quietly, WriteHeader, PollTip, CheckSynced, Insert
<1>2. NodeIInv'
  BY NodeStepInvariant
<1> DEFINE n == TipHeight(store)
           k == TipHeight(store)'
<1>3. n \in Nat /\ k \in Nat /\ Heights(store) = 1..n /\ Heights(store)' = 1..k
  BY <1>2 DEF NodeIInv, IInv, TipInv, NoGap
<1>4. 1..n \subseteq 1..k
  BY <1>1, <1>3 DEF Heights
<1> HIDE DEF n, k
<1>5. n <= k
  BY <1>3, <1>4
<1> QED BY <1>1, <1>5 DEF n, k

(* synced() compares a stored header with the height of the peer, which    *)
(* the node knows by then: had it no version yet, it had no header either. *)
LEMMA SyncedOnTime ==
  ASSUME SyncInv, [NodeNext]_nodeVars
  PROVE  PolledStored' /\ SyncedCaughtUp'
<1> USE DEF SyncInv
<1> DEFINE s == startHeight[InitialPeer]
           n == TipHeight(store)
           k == TipHeight(store)'
<1>1. /\ n \in Nat /\ k \in Nat /\ n <= k /\ store \subseteq store' /\ s \in Nat
      /\ peersTip[InitialPeer] \in Nat
  BY TipGrows, NodeStepInvariant, PeerAssumption DEF NodeIInv, IInv, TipInv, TypeOK
<1>2. CASE Quietly(PollTip)
  <2>1. polled' \in store \cup {Genesis} /\ UNCHANGED synced
    BY <1>2 DEF Quietly, PollTip, Tips, At
  <2> HIDE DEF n, k, s
  <2>2. synced' => k >= s
    BY <1>1, <2>1 DEF SyncedCaughtUp, n, s
  <2> QED BY <1>1, <2>1, <2>2 DEF PolledStored, SyncedCaughtUp, k, s
<1>3. CASE Quietly(CheckSynced)
  <2>1. polled \in store /\ polled' = Genesis /\ synced' = IsSynced(polled)
    BY <1>3 DEF Quietly, CheckSynced, PolledStored
  <2>2. Met
    BY <2>1 DEF Untouched
  <2>3. height[polled] \in Heights(store) /\ Heights(store) = 1..n
    BY <2>1 DEF Heights, NodeIInv, IInv, TipInv, NoGap
  <2>4. synced' => height[polled] >= peersTip[InitialPeer]
    BY <2>1 DEF IsSynced
  <2>5. peersTip[InitialPeer] >= s
    BY <2>2 DEF Met
  <2> HIDE DEF n, k, s
  <2>6. synced' => k >= s
    BY <1>1, <2>3, <2>4, <2>5
  <2> QED BY <2>1, <2>6 DEF PolledStored, SyncedCaughtUp, k, s
<1>4. CASE UNCHANGED <<polled, synced>>
  <2> HIDE DEF n, k, s
  <2>1. synced' => k >= s
    BY <1>1, <1>4 DEF SyncedCaughtUp, n, s
  <2> QED BY <1>1, <1>4, <2>1 DEF PolledStored, SyncedCaughtUp, k, s
<1>5. Quietly(WriteHeader) => UNCHANGED <<polled, synced>>
  BY DEF Quietly, WriteHeader
<1> QED BY <1>2, <1>3, <1>4, <1>5, StoreUsers

(* When Start returns the store has reached the height that the initial    *)
(* peer gave when it was connected, if no other peer has compact filters   *)
(* (checkSyncedInitial): the daemon connects to one peer.                  *)
THEOREM SyncedCaughtUpHolds ==
  ASSUME CFPeer \subseteq {InitialPeer}
  PROVE  NodeSpec => []SyncedCaughtUp
<1>1. NodeInit => SyncInv
  <2> SUFFICES ASSUME NodeInit PROVE SyncInv
    OBVIOUS
  <2>1. Untouched
    BY DEF NodeInit, Init, Untouched, Connected
  <2>2. PolledStored /\ SyncedCaughtUp
    BY DEF NodeInit, Init, PolledStored, SyncedCaughtUp
  <2> QED BY <2>1, <2>2, NodeInitInvariant DEF SyncInv
<1>2. SyncInv /\ [NodeNext]_nodeVars => SyncInv'
  BY NodeStepInvariant, MetStays, UntouchedUntilMet, SyncedOnTime DEF SyncInv
<1>3. SyncInv => SyncedCaughtUp
  BY DEF SyncInv
<1> QED BY <1>1, <1>2, <1>3, PTL DEF NodeSpec

=============================================================================
