--------------------------- MODULE HeaderSyncProofs ---------------------------
(***************************************************************************)
(* Proofs about HeaderSync, for any number of peers and headers and for    *)
(* both repositories.  The inductive invariant is TypeOK, NoGap with the   *)
(* fact that the tip is a number, and InFlightInOrder.                     *)
(***************************************************************************)
EXTENDS HeaderSync, SequenceTheorems, TLAPS

TipInv == TipHeight(store) \in Nat /\ NoGap

IInv == TypeOK /\ TipInv /\ InFlightInOrder

-----------------------------------------------------------------------------
(* The store.                                                              *)

(* TipHeight is the end of the range when the stored heights are 1..n.     *)
LEMMA TipOfRange ==
  ASSUME NEW S \in SUBSET Block, NEW n \in Nat, Heights(S) = 1..n
  PROVE  TipHeight(S) = n
<1>1. CASE S = {}
  <2>1. Heights(S) = {}
    BY <1>1 DEF Heights
  <2>2. n = 0
    BY <2>1
  <2> QED BY <1>1, <2>2 DEF TipHeight
<1>2. CASE S # {}
  <2>1. Heights(S) # {}
    BY <1>2 DEF Heights
  <2>2. n \in Heights(S) /\ \A g \in Heights(S) : g <= n
    BY <2>1
  <2>3. \A h \in Heights(S) : (\A g \in Heights(S) : g <= h) => h = n
    BY <2>2
  <2> QED BY <1>2, <2>2, <2>3 DEF TipHeight
<1> QED BY <1>1, <1>2

(* WriteHeaders(b) of a header that is at most one above the tip keeps the *)
(* heights a range and moves the tip to the height of b if it is higher    *)
(* (headerInmemory.WriteHeaders, headerRepositoryImpl.WriteHeaders).       *)
LEMMA InsertKeepsRange ==
  ASSUME NEW S \in SUBSET Block, NEW b \in Block,
         TipHeight(S) \in Nat, Heights(S) = 1..TipHeight(S),
         height[b] <= TipHeight(S) + 1
  PROVE  /\ Heights(Insert(S, b)) = 1..TipHeight(Insert(S, b))
         /\ TipHeight(Insert(S, b)) =
              IF height[b] > TipHeight(S) THEN height[b] ELSE TipHeight(S)
<1> DEFINE n == TipHeight(S)
           h == height[b]
<1>1. h \in Nat /\ h >= 1
  BY BlockTree
<1>2. CASE Insert(S, b) = S
  <2>1. At(S, h) # {} \/ b \in S
    BY <1>2 DEF Insert
  <2>2. h \in Heights(S)
    BY <2>1 DEF At, Heights
  <2>3. ~(h > n)
    BY <2>2
  <2> QED BY <1>2, <2>3
<1>3. CASE Insert(S, b) = S \cup {b}
  <2> DEFINE m == IF h > n THEN h ELSE n
  <2>1. Heights(S \cup {b}) = Heights(S) \cup {h}
    BY DEF Heights
  <2>2. 1..n \cup {h} = 1..m
    BY <1>1
  <2>3. Heights(S \cup {b}) = 1..m
    BY <2>1, <2>2
  <2>4. TipHeight(S \cup {b}) = m
    BY <1>1, <2>3, TipOfRange
  <2> QED BY <1>3, <2>3, <2>4
<1> QED BY <1>2, <1>3 DEF Insert

(* Over an unbroken range of heights the block locator always exists       *)
(* (blockLocatorFromHash).                                                 *)
LEMMA LocatorExists ==
  ASSUME NEW S \in SUBSET Block, TipHeight(S) \in Nat, Heights(S) = 1..TipHeight(S)
  PROVE  ~LocatorFails(S)
<1> SUFFICES ASSUME NEW h \in Walked(TipHeight(S)) PROVE At(S, h) # {}
  BY DEF LocatorFails
<1>1. h \in Heights(S)
  BY DEF Walked
<1> QED BY <1>1 DEF At, Heights

-----------------------------------------------------------------------------
(* The headers a handler sends on.                                         *)

(* A suffix of headers in sequence is in sequence, and its first height is *)
(* known from where it starts.                                             *)
LEMMA SuffixInSequence ==
  ASSUME NEW m \in Seq(Block), InSequence(m),
         NEW k \in 1..Len(m),
         NEW s \in Seq(Block), Len(s) = Len(m) - k + 1,
         \A i \in 1..Len(s) : s[i] = m[k + i - 1]
  PROVE  /\ s # <<>>
         /\ InSequence(s)
         /\ height[Head(s)] = height[Head(m)] + (k - 1)
<1> DEFINE f == height[m[1]]
<1>1. /\ Len(m) \in Nat /\ Len(m) >= 1 /\ Len(s) \in Nat /\ Len(s) >= 1
      /\ m # <<>> /\ s # <<>>
      /\ Head(m) = m[1] /\ Head(s) = s[1]
      /\ m[1] \in Block
  OBVIOUS
<1>2. f \in Nat
  BY <1>1, BlockTree
<1>3. \A i \in 1..Len(s) : height[s[i]] = f + (k - 1) + (i - 1)
  <2> TAKE i \in 1..Len(s)
  <2>1. k + i - 1 \in 1..Len(m)
    BY <1>1
  <2>2. height[m[k + i - 1]] = f + (k + i - 1 - 1)
    BY <2>1 DEF InSequence
  <2>3. height[s[i]] = height[m[k + i - 1]]
    OBVIOUS
  <2> HIDE DEF f
  <2>4. f + (k + i - 1 - 1) = f + (k - 1) + (i - 1)
    BY <1>1, <1>2
  <2> QED BY <2>2, <2>3, <2>4
<1> HIDE DEF f
<1>4. 1 \in 1..Len(s)
  BY <1>1
<1>5. height[s[1]] = f + (k - 1)
  BY <1>2, <1>3, <1>4
<1>6. \A i \in 1..Len(s) : height[s[i]] = height[s[1]] + (i - 1)
  BY <1>3, <1>5
<1>7. InSequence(s)
  BY <1>6 DEF InSequence
<1> QED BY <1>1, <1>5, <1>7 DEF f

(* What handleHeaders keeps of a message that follows the tip and reaches  *)
(* beyond it is not empty, in sequence, and follows the tip.               *)
LEMMA NewHeadersFollow ==
  ASSUME NEW m \in Seq(Block), m # <<>>, InSequence(m),
         NEW tip \in Nat,
         height[Head(m)] <= tip + 1, height[m[Len(m)]] > tip
  PROVE  /\ NewHeaders(m, tip) \in Seq(Block)
         /\ NewHeaders(m, tip) # <<>>
         /\ InSequence(NewHeaders(m, tip))
         /\ height[Head(NewHeaders(m, tip))] <= tip + 1
<1>1. /\ Len(m) \in Nat /\ Len(m) >= 1
      /\ Head(m) = m[1]
      /\ m[1] \in Block
      /\ Len(m) \in 1..Len(m)
  OBVIOUS
<1>2. height[Head(m)] \in Nat
  BY <1>1, BlockTree
<1>3. CASE ~(height[Head(m)] < tip)
  BY <1>3 DEF NewHeaders
<1>4. CASE height[Head(m)] < tip
  <2>1. height[m[Len(m)]] = height[Head(m)] + (Len(m) - 1)
    BY <1>1 DEF InSequence
  <2>2. PICK k \in 1..Len(m) : k = tip - height[Head(m)] + 2
    BY <1>1, <1>2, <1>4, <2>1
  <2>3. PICK s : s = SubSeq(m, k, Len(m))
    OBVIOUS
  <2>4. /\ s \in Seq(Block)
        /\ Len(s) = Len(m) - k + 1
        /\ \A i \in 1..Len(s) : s[i] = m[k + i - 1]
    BY <1>1, <2>3, SubSeqProperties
  <2>5. s # <<>> /\ InSequence(s) /\ height[Head(s)] = height[Head(m)] + (k - 1)
    BY <2>4, SuffixInSequence
  <2>6. height[Head(s)] = tip + 1
    BY <1>2, <2>2, <2>5
  <2>7. NewHeaders(m, tip) = s
    BY <1>4, <2>2, <2>3 DEF NewHeaders
  <2> QED BY <2>4, <2>5, <2>6, <2>7
<1> QED BY <1>3, <1>4

(* After the first of them is sent, the others follow it.                  *)
LEMMA TailFollows ==
  ASSUME NEW m \in Seq(Block), Len(m) > 1, InSequence(m)
  PROVE  /\ Tail(m) \in Seq(Block)
         /\ Tail(m) # <<>>
         /\ InSequence(Tail(m))
         /\ height[Head(Tail(m))] = height[Head(m)] + 1
<1>1. PICK s : s = Tail(m)
  OBVIOUS
<1>2. /\ s \in Seq(Block)
      /\ Len(s) = Len(m) - 2 + 1
      /\ \A i \in 1..Len(s) : s[i] = m[2 + i - 1]
  BY <1>1
<1>3. 2 \in 1..Len(m)
  OBVIOUS
<1>4. s # <<>> /\ InSequence(s) /\ height[Head(s)] = height[Head(m)] + (2 - 1)
  BY <1>2, <1>3, SuffixInSequence
<1>5. 2 - 1 = 1
  OBVIOUS
<1> QED BY <1>1, <1>2, <1>4, <1>5

-----------------------------------------------------------------------------
(* The invariant.                                                          *)

(* A step that touches neither the store nor a header in flight keeps the  *)
(* order of those in flight.                                               *)
LEMMA QuietStep ==
  ASSUME TipInv, InFlightInOrder, UNCHANGED <<store, pending>>,
         writer' = "write" => writer = "write" /\ writing' = writing,
         writer = "write" => writer' = "write"
  PROVE  TipInv' /\ InFlightInOrder'
<1>1. TipHeight(store)' = TipHeight(store) /\ Heights(store)' = Heights(store)
  BY DEF TipHeight, Heights
<1>2. TipInv'
  BY <1>1 DEF TipInv, NoGap
<1>3. Frontier' = Frontier
  BY <1>1 DEF Frontier
<1>4. InFlightInOrder'
  BY <1>1, <1>3 DEF InFlightInOrder, InSequence
<1> QED BY <1>2, <1>4

(* A node that has just been created, with an empty store and no peer      *)
(* (New), satisfies the invariant.                                         *)
THEOREM InitInvariant == Init => IInv
<1> SUFFICES ASSUME Init PROVE IInv
  OBVIOUS
<1>1. TypeOK
  <2>1. pc \in [Peer -> HandlerState] /\ writer \in WriterState
    BY DEF Init, HandlerState, WriterState
  <2>2. pending \in [Peer -> Seq(Block)] /\ peersTip \in [Peer -> Nat]
    BY DEF Init
  <2>3. \A p \in Peer : pc[p] \in {"headers", "block"} <=> pending[p] # <<>>
    BY DEF Init
  <2> QED BY <2>1, <2>2, <2>3 DEF Init, TypeOK
<1>2. Heights(store) = {} /\ TipHeight(store) = 0
  BY DEF Init, Heights, TipHeight
<1>3. TipInv
  BY <1>2 DEF TipInv, NoGap
<1>4. InFlightInOrder
  BY DEF Init, InFlightInOrder
<1> QED BY <1>1, <1>3, <1>4 DEF IInv

(* Peers coming and going, and the steps of handlers that hold no header   *)
LEMMA PeerSteps ==
  ASSUME IInv, NEW p \in Peer,
         \/ AddOutboundPeer(p) \/ HandleVersion(p) \/ StartSync(p)
         \/ ConnectionLost(p) \/ ReadError(p) \/ DisconnectPeer(p)
         \/ Sync(p) \/ SyncGoroutine(p)
  PROVE  IInv'
<1> USE DEF IInv
<1>1. CASE AddOutboundPeer(p)
  <2>1. TypeOK'
    BY <1>1 DEF TypeOK, AddOutboundPeer, Goto, HandlerState
  <2> QED BY <1>1, <2>1, QuietStep DEF AddOutboundPeer
<1>2. CASE HandleVersion(p)
  <2>1. TypeOK'
    BY <1>2, PeerAssumption DEF TypeOK, HandleVersion, Goto, HandlerState
  <2> QED BY <1>2, <2>1, QuietStep DEF HandleVersion
<1>3. CASE StartSync(p)
  <2>1. TypeOK'
    BY <1>3 DEF TypeOK, StartSync, Goto, HandlerState
  <2> QED BY <1>3, <2>1, QuietStep DEF StartSync
<1>4. CASE ConnectionLost(p)
  <2>1. TypeOK'
    BY <1>4 DEF TypeOK, ConnectionLost
  <2> QED BY <1>4, <2>1, QuietStep DEF ConnectionLost
<1>5. CASE ReadError(p)
  <2>1. TypeOK'
    BY <1>5 DEF TypeOK, ReadError, Goto, HandlerState
  <2> QED BY <1>5, <2>1, QuietStep DEF ReadError
<1>6. CASE DisconnectPeer(p)
  <2>1. TypeOK'
    BY <1>6 DEF TypeOK, DisconnectPeer
  <2> QED BY <1>6, <2>1, QuietStep DEF DisconnectPeer
<1>7. CASE Sync(p)
  <2>1. TypeOK'
    BY <1>7 DEF TypeOK, Sync, Goto, HandlerState
  <2> QED BY <1>7, <2>1, QuietStep DEF Sync
<1>8. CASE SyncGoroutine(p)
  <2>1. TypeOK'
    BY <1>8, PostgresIsBoolean DEF TypeOK, SyncGoroutine
  <2> QED BY <1>8, <2>1, QuietStep DEF SyncGoroutine
<1> QED BY <1>1, <1>2, <1>3, <1>4, <1>5, <1>6, <1>7, <1>8

(* A handler takes headers to send: they follow the tip it has read.       *)
LEMMA HandleHeadersStep ==
  ASSUME IInv, NEW p \in Peer, NEW m \in Seq(Block), HandleHeaders(p, m)
  PROVE  IInv'
<1> USE DEF IInv
<1> DEFINE tip == TipHeight(store)
<1>1. CASE UNCHANGED <<pc, pending>>
  <2>1. TypeOK'
    BY <1>1 DEF TypeOK, HandleHeaders
  <2> QED BY <1>1, <2>1, QuietStep DEF HandleHeaders
<1>2. CASE UNCHANGED pending /\ Goto(p, "sync")
  <2>1. TypeOK'
    BY <1>2 DEF TypeOK, HandleHeaders, Goto, HandlerState
  <2> QED BY <1>2, <2>1, QuietStep DEF HandleHeaders
<1>3. CASE /\ m # <<>> /\ InSequence(m) /\ Follows(Head(m))
           /\ height[m[Len(m)]] > tip
           /\ pending' = [pending EXCEPT ![p] = NewHeaders(m, tip)]
           /\ Goto(p, "headers")
  <2>1. m \in Seq(Block) /\ tip \in Nat /\ height[Head(m)] <= tip + 1
    BY <1>3 DEF TipInv, Follows
  <2> HIDE DEF tip
  <2>2. PICK s \in Seq(Block) :
          /\ s = NewHeaders(m, tip)
          /\ s # <<>> /\ InSequence(s) /\ height[Head(s)] <= tip + 1
    BY <1>3, <2>1, NewHeadersFollow
  <2>3. pending' = [pending EXCEPT ![p] = s]
    BY <1>3, <2>2
  <2>4. TypeOK'
    BY <1>3, <2>2, <2>3 DEF TypeOK, HandleHeaders, Goto, HandlerState
  <2>5. UNCHANGED <<store, writer, writing>>
    BY DEF HandleHeaders
  <2>6. TipHeight(store)' = tip /\ Heights(store)' = Heights(store)
    BY <2>5 DEF TipHeight, Heights, tip
  <2>7. TipInv'
    BY <2>6 DEF TipInv, NoGap, tip
  <2>8. Frontier' = Frontier
    BY <2>5, <2>6 DEF Frontier, tip
  <2>9. tip <= Frontier /\ Frontier \in Nat
    BY <2>1, BlockTree DEF Frontier, TypeOK, tip
  <2>10. height[Head(s)] \in Nat
    BY <2>2, BlockTree
  <2>11. InFlightInOrder'
    <3>1. writer' = "write" => height'[writing'] <= TipHeight(store)' + 1
      BY <2>5, <2>6 DEF InFlightInOrder, tip
    <3>2. \A q \in Peer : pending'[q] # <<>> =>
            InSequence(pending'[q]) /\ height[Head(pending'[q])] <= Frontier' + 1
      <4> TAKE q \in Peer
      <4>1. CASE q = p
        BY <2>1, <2>2, <2>3, <2>8, <2>9, <2>10, <4>1 DEF TypeOK
      <4>2. CASE q # p
        BY <2>3, <2>8, <4>2 DEF TypeOK, InFlightInOrder
      <4> QED BY <4>1, <4>2
    <3> QED BY <3>1, <3>2 DEF InFlightInOrder, InSequence
  <2> QED BY <2>4, <2>7, <2>11
<1> QED BY <1>1, <1>2, <1>3 DEF HandleHeaders

(* handleBlock takes the next block.                                       *)
LEMMA HandleBlockStep ==
  ASSUME IInv, NEW p \in Peer, NEW b \in Block, HandleBlock(p, b)
  PROVE  IInv'
<1> USE DEF IInv
<1>0. height[b] \in Nat
  BY BlockTree
<1>1. CASE /\ UNCHANGED pending
           /\ pc' = pc \/ Goto(p, "sync")
           /\ peersTip' = peersTip \/ peersTip' = [peersTip EXCEPT ![p] = height[b]]
  <2>1. TypeOK'
    BY <1>0, <1>1 DEF TypeOK, HandleBlock, Goto, HandlerState
  <2> QED BY <1>1, <2>1, QuietStep DEF HandleBlock
<1>2. CASE /\ IsNext(b)
           /\ pending' = [pending EXCEPT ![p] = <<b>>]
           /\ Goto(p, "block")
           /\ UNCHANGED peersTip
  <2> DEFINE tip == TipHeight(store)
  <2>1. tip \in Nat /\ height[b] = tip + 1
    BY <1>2 DEF TipInv, IsNext
  <2>2. PICK s : s = <<b>>
    OBVIOUS
  <2>2a. s \in Seq(Block) /\ s # <<>> /\ Len(s) = 1 /\ s[1] = b /\ Head(s) = b
    BY <2>2
  <2>3. InSequence(s)
    BY <1>0, <2>2a DEF InSequence
  <2>4. pending' = [pending EXCEPT ![p] = s]
    BY <1>2, <2>2
  <2>5. UNCHANGED <<store, writer, writing>>
    BY DEF HandleBlock
  <2>6. TypeOK'
    BY <1>2, <2>2a, <2>4 DEF TypeOK, HandleBlock, Goto, HandlerState
  <2> HIDE DEF tip
  <2>7. TipHeight(store)' = tip /\ Heights(store)' = Heights(store)
    BY <2>5 DEF TipHeight, Heights, tip
  <2>8. TipInv'
    BY <2>7 DEF TipInv, NoGap, tip
  <2>9. Frontier' = Frontier
    BY <2>5, <2>7 DEF Frontier, tip
  <2>10. tip <= Frontier /\ Frontier \in Nat
    BY <2>1, BlockTree DEF Frontier, TypeOK, tip
  <2>11. InFlightInOrder'
    <3>1. writer' = "write" => height'[writing'] <= TipHeight(store)' + 1
      BY <2>5, <2>7 DEF InFlightInOrder, tip
    <3>2. \A q \in Peer : pending'[q] # <<>> =>
            InSequence(pending'[q]) /\ height[Head(pending'[q])] <= Frontier' + 1
      <4> TAKE q \in Peer
      <4>1. CASE q = p
        BY <1>0, <2>1, <2>2a, <2>3, <2>4, <2>9, <2>10, <4>1 DEF TypeOK
      <4>2. CASE q # p
        BY <2>4, <2>9, <4>2 DEF TypeOK, InFlightInOrder
      <4> QED BY <4>1, <4>2
    <3> QED BY <3>1, <3>2 DEF InFlightInOrder, InSequence
  <2> QED BY <2>6, <2>8, <2>11
<1> QED BY <1>1, <1>2 DEF HandleBlock

(* A header passes from a handler to the writer: the frontier moves up to  *)
(* it, and the handler's next header follows.                              *)
LEMMA SendHeaderStep ==
  ASSUME IInv, NEW p \in Peer, SendHeader(p)
  PROVE  IInv'
<1> USE DEF IInv
<1> DEFINE tip == TipHeight(store)
<1>1. PICK m \in Seq(Block) : m = pending[p] /\ m # <<>> /\ Len(m) \in Nat /\ Len(m) >= 1
                               /\ Head(m) \in Block /\ Tail(m) \in Seq(Block)
  BY DEF TypeOK, SendHeader
<1>2. /\ InSequence(m) /\ height[Head(m)] <= tip + 1
      /\ tip \in Nat /\ height[Head(m)] \in Nat
  BY <1>1, BlockTree DEF InFlightInOrder, Frontier, SendHeader, TipInv
<1>3. /\ pending' = [pending EXCEPT ![p] = Tail(m)]
      /\ writer = "idle" /\ writer' = "write" /\ writing' = Head(m)
      /\ UNCHANGED store
  BY <1>1 DEF SendHeader
<1>4. PICK rest \in Seq(Block), next \in HandlerState :
        /\ rest = Tail(m) /\ next = AfterSend(p)
        /\ next \in {"headers", "block"} <=> rest # <<>>
        /\ rest # <<>> => /\ InSequence(rest)
                          /\ height[Head(rest)] = height[Head(m)] + 1
  <2>1. CASE Len(m) > 1
    <3>1. /\ Tail(m) # <<>> /\ InSequence(Tail(m))
          /\ height[Head(Tail(m))] = height[Head(m)] + 1
      BY <1>2, <2>1, TailFollows
    <3>2. AfterSend(p) \in {"headers", "block"}
      BY <1>1, <2>1 DEF AfterSend, SendHeader
    <3> QED BY <1>1, <3>1, <3>2 DEF HandlerState
  <2>2. CASE ~(Len(m) > 1)
    <3>1. Tail(m) = <<>>
      BY <1>1, <2>2
    <3>2. AfterSend(p) \in {"sync", "read"}
      BY <1>1, <2>2 DEF AfterSend
    <3> QED BY <1>1, <3>1, <3>2 DEF HandlerState
  <2> QED BY <2>1, <2>2
<1>5. pending' = [pending EXCEPT ![p] = rest] /\ pc' = [pc EXCEPT ![p] = next]
  BY <1>3, <1>4 DEF SendHeader, Goto
<1>6. TypeOK'
  BY <1>1, <1>3, <1>4, <1>5 DEF TypeOK, SendHeader, WriterState
<1> HIDE DEF tip
<1>7. TipHeight(store)' = tip /\ Heights(store)' = Heights(store)
  BY <1>3 DEF TipHeight, Heights, tip
<1>8. TipInv'
  BY <1>7 DEF TipInv, NoGap, tip
<1>9. /\ Frontier = tip
      /\ Frontier' \in Nat /\ Frontier' >= tip /\ Frontier' >= height[Head(m)]
  BY <1>2, <1>3, <1>7 DEF Frontier, tip
<1>10. InFlightInOrder'
  <2>1. writer' = "write" => height'[writing'] <= TipHeight(store)' + 1
    BY <1>2, <1>3, <1>7
  <2>2. \A q \in Peer : pending'[q] # <<>> =>
          InSequence(pending'[q]) /\ height[Head(pending'[q])] <= Frontier' + 1
    <3> TAKE q \in Peer
    <3>1. CASE q = p
      <4>1. pending'[q] = rest
        BY <1>5, <3>1 DEF TypeOK
      <4>2. rest # <<>> => height[Head(rest)] <= Frontier' + 1
        BY <1>2, <1>4, <1>9
      <4> QED BY <1>4, <4>1, <4>2
    <3>2. CASE q # p /\ pending'[q] # <<>>
      <4>1. pending'[q] = pending[q] /\ pending[q] \in Seq(Block)
        BY <1>5, <3>2 DEF TypeOK
      <4>2. InSequence(pending[q]) /\ height[Head(pending[q])] <= tip + 1
        BY <1>9, <3>2, <4>1 DEF InFlightInOrder
      <4>3. height[Head(pending[q])] \in Nat
        BY <3>2, <4>1, BlockTree
      <4> QED BY <1>2, <1>9, <4>1, <4>2, <4>3
    <3> QED BY <3>1, <3>2
  <2> QED BY <2>1, <2>2 DEF InFlightInOrder, InSequence
<1> QED BY <1>6, <1>8, <1>10

(* The writer stores the header: the tip reaches the frontier.             *)
LEMMA WriteHeaderStep ==
  ASSUME IInv, WriteHeader
  PROVE  IInv'
<1> USE DEF IInv
<1>1. /\ store \in SUBSET Block /\ writing \in Block
      /\ TipHeight(store) \in Nat /\ Heights(store) = 1..TipHeight(store)
      /\ height[writing] <= TipHeight(store) + 1
      /\ height[writing] \in Nat
  BY BlockTree DEF TypeOK, TipInv, NoGap, InFlightInOrder, WriteHeader
<1>2. PICK S : S = Insert(store, writing) /\ store' = S
  BY DEF WriteHeader
<1>3. S \in SUBSET Block
  BY <1>1, <1>2 DEF Insert
<1>4. Heights(S) = 1..TipHeight(S) /\ TipHeight(S) = Frontier
  BY <1>1, <1>2, InsertKeepsRange DEF Frontier, WriteHeader
<1>5. TypeOK'
  BY <1>2, <1>3 DEF TypeOK, WriteHeader, WriterState
<1>6. Heights(store)' = Heights(S) /\ TipHeight(store)' = TipHeight(S)
  BY <1>2 DEF Heights, TipHeight
<1>7. TipInv'
  BY <1>1, <1>4, <1>6 DEF TipInv, NoGap, Frontier
<1>8. Frontier' = Frontier
  BY <1>4, <1>6 DEF Frontier, WriteHeader
<1>9. InFlightInOrder'
  BY <1>8 DEF InFlightInOrder, InSequence, WriteHeader
<1> QED BY <1>5, <1>7, <1>9

(* The other steps of the writer, the poller and the restart hold no       *)
(* header back and write none.                                             *)
LEMMA OtherSteps ==
  ASSUME IInv,
         \/ CheckPeers \/ (\E q \in Peer : RequestFilter(q)) \/ RequestFilterFromNobody
         \/ PollTip \/ CheckSynced \/ UNCHANGED vars
  PROVE  IInv'
<1> USE DEF IInv
<1>1. CASE CheckPeers
  <2>1. TypeOK'
    BY <1>1 DEF TypeOK, CheckPeers, WriterState
  <2> QED BY <1>1, <2>1, QuietStep DEF CheckPeers
<1>2. ASSUME NEW q \in Peer, RequestFilter(q) PROVE IInv'
  <2>1. TypeOK'
    BY <1>2 DEF TypeOK, RequestFilter, WriterState
  <2> QED BY <1>2, <2>1, QuietStep DEF RequestFilter
<1>3. CASE RequestFilterFromNobody
  <2>1. TypeOK'
    BY <1>3 DEF TypeOK, RequestFilterFromNobody
  <2> QED BY <1>3, <2>1, QuietStep DEF RequestFilterFromNobody
<1>4. CASE PollTip
  <2>1. TypeOK'
    BY <1>4 DEF TypeOK, PollTip, Tips, At
  <2> QED BY <1>4, <2>1, QuietStep DEF PollTip
<1>5. CASE CheckSynced
  <2>1. TypeOK'
    BY <1>5 DEF TypeOK, CheckSynced, IsSynced, HasAllAncestors
  <2> QED BY <1>5, <2>1, QuietStep DEF CheckSynced
<1>6. CASE UNCHANGED vars
  <2>1. TypeOK'
    BY <1>6 DEF TypeOK, vars
  <2> QED BY <1>6, <2>1, QuietStep DEF vars
<1> QED BY <1>1, <1>2, <1>3, <1>4, <1>5, <1>6

(* A restart keeps the store and drops every header in flight.             *)
LEMMA RestartStep ==
  ASSUME IInv, Restart
  PROVE  IInv'
<1> USE DEF IInv
<1>1. TypeOK'
  <2>1. /\ pc' \in [Peer -> HandlerState] /\ writer' \in WriterState
        /\ pending' \in [Peer -> Seq(Block)] /\ peersTip' \in [Peer -> Nat]
    BY DEF Restart, HandlerState, WriterState
  <2>2. \A p \in Peer : pc'[p] \in {"headers", "block"} <=> pending'[p] # <<>>
    BY DEF Restart
  <2> QED BY <2>1, <2>2 DEF Restart, TypeOK
<1>2. TipHeight(store)' = TipHeight(store) /\ Heights(store)' = Heights(store)
  BY DEF Restart, TipHeight, Heights
<1>3. TipInv'
  BY <1>2 DEF TipInv, NoGap
<1>4. InFlightInOrder'
  BY DEF Restart, InFlightInOrder
<1> QED BY <1>1, <1>3, <1>4

(* The invariant holds of every step of the program.                       *)
THEOREM StepInvariant == IInv /\ [Next]_vars => IInv'
<1> SUFFICES ASSUME IInv, [Next]_vars PROVE IInv'
  OBVIOUS
<1>1. ASSUME NEW p \in Peer, PeerStep(p) PROVE IInv'
  <2>1. CASE \/ AddOutboundPeer(p) \/ HandleVersion(p) \/ StartSync(p)
             \/ ConnectionLost(p) \/ ReadError(p) \/ DisconnectPeer(p)
             \/ Sync(p) \/ SyncGoroutine(p)
    BY <2>1, PeerSteps
  <2>2. CASE \E m \in HeadersMsg : HandleHeaders(p, m)
    BY <2>2, HandleHeadersStep, HeadersMsgAssumption
  <2>3. CASE \E b \in Block : HandleBlock(p, b)
    BY <2>3, HandleBlockStep
  <2>4. CASE SendHeader(p)
    BY <2>4, SendHeaderStep
  <2>5. CASE RequestFilter(p)
    BY <2>5, OtherSteps
  <2> QED BY <1>1, <2>1, <2>2, <2>3, <2>4, <2>5 DEF PeerStep
<1>2. CASE WriteHeader
  BY <1>2, WriteHeaderStep
<1>3. CASE CheckPeers \/ RequestFilterFromNobody \/ PollTip \/ CheckSynced \/ UNCHANGED vars
  BY <1>3, OtherSteps
<1>4. CASE Restart
  BY <1>4, RestartStep
<1> QED BY <1>1, <1>2, <1>3, <1>4 DEF Next

(* Every reachable state of pkg/node's header goroutines satisfies the     *)
(* invariant.                                                              *)
THEOREM Invariance == Spec => []IInv
BY InitInvariant, StepInvariant, PTL DEF Spec

(* Every variable keeps its type; a handler has headers to send exactly    *)
(* while it is in the loop of handleHeaders or in handleBlock.             *)
THEOREM Typing == Spec => []TypeOK
<1>1. IInv => TypeOK
  BY DEF IInv
<1> QED BY Invariance, <1>1, PTL

(* Whatever peers send and however handlers interleave, monitorBlockHeaders*)
(* never leaves a height without a header below the tip.                   *)
THEOREM NoGapHolds == Spec => []NoGap
<1>1. IInv => NoGap
  BY DEF IInv, TipInv
<1> QED BY Invariance, <1>1, PTL

(* The tip that handleHeaders and handleBlock read may be stale when their *)
(* headers are written; it is never stale in the harmful direction.        *)
THEOREM InFlightHolds == Spec => []InFlightInOrder
<1>1. IInv => InFlightInOrder
  BY DEF IInv
<1> QED BY Invariance, <1>1, PTL

-----------------------------------------------------------------------------
(* The store grows, in order.                                              *)

(* Every step writes a header at most one above the tip, or none.          *)
LEMMA StoreSteps ==
  ASSUME IInv, [Next]_vars
  PROVE  \/ UNCHANGED store
         \/ /\ writing \in Block /\ height[writing] \in 1..(TipHeight(store) + 1)
            /\ store' = store \cup {writing}
<1>1. CASE WriteHeader
  <2>1. writing \in Block /\ height[writing] \in 1..(TipHeight(store) + 1)
    BY <1>1, BlockTree DEF IInv, TypeOK, TipInv, InFlightInOrder, WriteHeader
  <2> QED BY <1>1, <2>1 DEF WriteHeader, Insert
<1>2. ASSUME NEW p \in Peer, PeerStep(p) PROVE UNCHANGED store
  BY <1>2 DEF PeerStep, AddOutboundPeer, HandleVersion, StartSync, ConnectionLost,
    ReadError, DisconnectPeer, HandleHeaders, HandleBlock, SendHeader, Sync,
    SyncGoroutine, RequestFilter
<1>3. CASE CheckPeers \/ RequestFilterFromNobody \/ PollTip \/ CheckSynced \/ Restart
           \/ UNCHANGED vars
  BY <1>3 DEF CheckPeers, RequestFilterFromNobody, PollTip, CheckSynced, Restart, vars
<1> QED BY <1>1, <1>2, <1>3 DEF Next

(* pkg/node, with any number of peers sending anything, restarts included, *)
(* implements the store its readers rely on: it starts empty and grows by  *)
(* one header at a time, never skipping a height.                          *)
THEOREM Refinement == Spec => StoreSpec
<1>1. Init => Abstract!Init
  BY DEF Init, Abstract!Init
<1>2. IInv /\ [Next]_vars => [Abstract!Next]_store
  <2> SUFFICES ASSUME IInv, [Next]_vars, store' # store
               PROVE  Abstract!Next
    OBVIOUS
  <2>1. /\ writing \in Block /\ height[writing] \in 1..(TipHeight(store) + 1)
        /\ store' = store \cup {writing}
    BY StoreSteps
  <2>2. Abstract!TipHeight(store) = TipHeight(store)
    BY DEF TipHeight, Abstract!TipHeight, Heights, Abstract!Heights
  <2> QED BY <2>1, <2>2 DEF Abstract!Next, Abstract!Extend
<1> QED BY Invariance, <1>1, <1>2, PTL DEF Spec, StoreSpec, Abstract!Spec

-----------------------------------------------------------------------------
(* What "synced" promises.                                                 *)

PolledStored == polled \in store \cup {Genesis}

(* The header checkSyncedInitial looks at stays in the store.              *)
LEMMA PolledStays == IInv /\ PolledStored /\ [Next]_vars => PolledStored'
<1> SUFFICES ASSUME IInv, PolledStored, [Next]_vars PROVE PolledStored'
  OBVIOUS
<1>1. store \subseteq store'
  BY StoreSteps
<1>2. polled' = polled \/ polled' \in store \cup {Genesis}
  BY DEF Next, PeerStep, AddOutboundPeer, HandleVersion, StartSync, ConnectionLost,
        ReadError, DisconnectPeer, HandleHeaders, HandleBlock, SendHeader, Sync,
        SyncGoroutine, RequestFilter, WriteHeader, CheckPeers, RequestFilterFromNobody,
        PollTip, CheckSynced, Restart, Tips, At, vars
<1> QED BY <1>1, <1>2 DEF PolledStored

(* Once its version was read, the node knows the height that p gave, or a  *)
(* later one.                                                              *)
TipHeard(p) == Greeted(p) => peersTip[p] >= startHeight[p]

(* handleVersion sets the height of a peer, handleBlock only raises it.    *)
LEMMA TipHeardStays ==
  ASSUME TypeOK, NEW p \in Peer, TipHeard(p), [Next]_vars
  PROVE  TipHeard(p)'
<1> USE DEF TypeOK, TipHeard, Greeted, Goto
<1>0. /\ startHeight[p] \in Nat
      /\ \A q \in Peer, l \in HandlerState :
           pc' = [pc EXCEPT ![q] = l] => pc'[q] = l /\ (q # p => pc'[p] = pc[p])
  BY PeerAssumption
<1>1. ASSUME NEW q \in Peer, PeerStep(q) PROVE TipHeard(p)'
  <2>1. CASE HandleVersion(q)
    BY <1>0, <2>1 DEF HandleVersion
  <2>2. CASE \E b \in Block : HandleBlock(q, b)
    <3> PICK b \in Block : HandleBlock(q, b)
      BY <2>2
    <3>1. \/ UNCHANGED peersTip
          \/ height[b] > peersTip[q] /\ peersTip' = [peersTip EXCEPT ![q] = height[b]]
      BY DEF HandleBlock, IsLater
    <3>2. height[b] \in Nat /\ peersTip[p] \in Nat
      BY BlockTree
    <3>3. \/ peersTip'[p] = peersTip[p]
          \/ peersTip'[p] = height[b] /\ height[b] > peersTip[p]
      BY <3>1
    <3>4. Greeted(p)' => Greeted(p)
      BY DEF HandleBlock
    <3>5. peersTip[p] >= startHeight[p] => peersTip'[p] >= startHeight[p]
      BY <1>0, <3>2, <3>3
    <3> QED BY <3>4, <3>5
  <2>3. CASE AddOutboundPeer(q) \/ ReadError(q)
    BY <2>3 DEF AddOutboundPeer, ReadError
  <2>4. CASE StartSync(q) \/ Sync(q) \/ \E m \in HeadersMsg : HandleHeaders(q, m)
    BY <2>4 DEF StartSync, Sync, HandleHeaders
  <2>5. CASE SendHeader(q)
    BY <2>5 DEF SendHeader, AfterSend
  <2>6. CASE ConnectionLost(q) \/ DisconnectPeer(q) \/ SyncGoroutine(q) \/ RequestFilter(q)
    BY <2>6 DEF ConnectionLost, DisconnectPeer, SyncGoroutine, RequestFilter
  <2> QED BY <1>1, <2>1, <2>2, <2>3, <2>4, <2>5, <2>6 DEF PeerStep
<1>2. CASE WriteHeader \/ CheckPeers \/ RequestFilterFromNobody \/ PollTip \/ CheckSynced
           \/ UNCHANGED vars
  BY <1>2 DEF WriteHeader, CheckPeers, RequestFilterFromNobody, PollTip, CheckSynced, vars
<1>3. CASE Restart
  BY <1>3 DEF Restart
<1> QED BY <1>1, <1>2, <1>3 DEF Next

(* Once the version of the initial peer was read, the node is not called   *)
(* synced without a complete chain to the height it gave: whatever blocks  *)
(* and headers arrive, whatever a database kept from an earlier life.  So  *)
(* finding 1 needs a poll of checkSyncedInitial before that message.       *)
THEOREM SyncedAsHeardHolds == Spec => SyncedAsHeard
<1> DEFINE Heard == TipHeard(InitialPeer)
           Complete == \E t \in store :
                         HasAllAncestors(store, t) /\ height[t] >= startHeight[InitialPeer]
           InTime == ~synced /\ synced' /\ Greeted(InitialPeer) => Complete
<1>1. Init => PolledStored /\ Heard
  BY PeerAssumption DEF Init, PolledStored, TipHeard, Greeted
<1>2. IInv /\ Heard /\ [Next]_vars => Heard'
  BY TipHeardStays, PeerAssumption DEF IInv
<1>3. ASSUME IInv, PolledStored, Heard, [Next]_vars PROVE InTime
  <2>1. CASE CheckSynced
    <3> SUFFICES ASSUME synced', Greeted(InitialPeer) PROVE Complete
      OBVIOUS
    <3>1. /\ polled \in store /\ HasAllAncestors(store, polled)
          /\ height[polled] >= peersTip[InitialPeer]
      BY <1>3, <2>1 DEF CheckSynced, IsSynced, PolledStored
    <3>2. height[polled] \in Nat
      BY <1>3, <3>1, BlockTree DEF IInv, TypeOK
    <3>3. peersTip[InitialPeer] >= startHeight[InitialPeer]
      BY <1>3 DEF TipHeard
    <3>4. peersTip[InitialPeer] \in Nat /\ startHeight[InitialPeer] \in Nat
      BY <1>3, PeerAssumption DEF IInv, TypeOK
    <3>5. height[polled] >= startHeight[InitialPeer]
      BY <3>1, <3>2, <3>3, <3>4
    <3> QED BY <3>1, <3>5
  <2>2. CASE Restart
    BY <2>2 DEF Restart
  <2>3. CASE UNCHANGED synced
    BY <2>3
  <2> QED BY <1>3, <2>1, <2>2, <2>3 DEF Next, PeerStep, AddOutboundPeer, HandleVersion,
        StartSync, ConnectionLost, ReadError, DisconnectPeer, HandleHeaders, HandleBlock,
        SendHeader, Sync, SyncGoroutine, RequestFilter, WriteHeader, CheckPeers,
        RequestFilterFromNobody, PollTip, vars
<1> HIDE DEF Heard
<1> QED BY Invariance, PolledStays, <1>1, <1>2, <1>3, PTL DEF Spec, SyncedAsHeard

-----------------------------------------------------------------------------
(* What a panic needs.                                                     *)

SomeLost == \E p \in Peer : Lost(p)

(* A peer in n.Peers was connected; a writer that saw one finds one, or    *)
(* one was lost in between.                                                *)
PanicInv == /\ \A p \in known : pc[p] # "new"
            /\ writer = "request" => known # {} \/ SomeLost
            /\ CrashOnlyOnLoss

(* A lost peer stays lost until the process is started again.              *)
LEMMA LossIsForever ==
  ASSUME TypeOK, [Next]_vars, ~Restart, NEW p \in Peer, Lost(p)
  PROVE  Lost(p)'
<1>1. ASSUME NEW q \in Peer, PeerStep(q) PROVE Lost(p)'
  <2>1. CASE AddOutboundPeer(q)
    BY <2>1 DEF AddOutboundPeer, Goto, Lost, TypeOK
  <2>2. CASE HandleVersion(q)
    BY <2>2 DEF HandleVersion, Goto, Lost, TypeOK
  <2>3. CASE StartSync(q)
    BY <2>3 DEF StartSync, Goto, Lost, TypeOK
  <2>4. CASE ConnectionLost(q) \/ DisconnectPeer(q) \/ SyncGoroutine(q) \/ RequestFilter(q)
    BY <2>4 DEF ConnectionLost, DisconnectPeer, SyncGoroutine, RequestFilter, Lost
  <2>5. CASE ReadError(q) \/ Sync(q)
    BY <2>5 DEF ReadError, Sync, Goto, Lost, TypeOK
  <2>6. CASE \E m \in HeadersMsg : HandleHeaders(q, m)
    BY <2>6 DEF HandleHeaders, Goto, Lost, TypeOK
  <2>7. CASE \E b \in Block : HandleBlock(q, b)
    BY <2>7 DEF HandleBlock, Goto, Lost, TypeOK
  <2>8. CASE SendHeader(q)
    BY <2>8 DEF SendHeader, AfterSend, Goto, Lost, TypeOK
  <2> QED BY <1>1, <2>1, <2>2, <2>3, <2>4, <2>5, <2>6, <2>7, <2>8 DEF PeerStep
<1>2. CASE WriteHeader \/ CheckPeers \/ RequestFilterFromNobody \/ PollTip \/ CheckSynced
           \/ UNCHANGED vars
  BY <1>2 DEF WriteHeader, CheckPeers, RequestFilterFromNobody, PollTip, CheckSynced, vars, Lost
<1> QED BY <1>1, <1>2 DEF Next

(* Without a restart a step adds to n.Peers only a peer that is connected, *)
(* and a peer that leaves n.Peers is lost.                                 *)
LEMMA KnownSteps ==
  ASSUME TypeOK, PanicInv, [Next]_vars, ~Restart
  PROVE  /\ \A p \in known' : pc'[p] # "new"
         /\ known \subseteq known' \/ SomeLost'
<1> USE DEF PanicInv, TypeOK
<1>1. ASSUME NEW q \in Peer, PeerStep(q)
      PROVE  /\ \A p \in known' : pc'[p] # "new"
             /\ known \subseteq known' \/ SomeLost'
  <2>1. CASE AddOutboundPeer(q)
    BY <2>1 DEF AddOutboundPeer, Goto
  <2>2. CASE HandleVersion(q)
    BY <2>2 DEF HandleVersion, Goto
  <2>3. CASE StartSync(q)
    BY <2>3 DEF StartSync, Goto
  <2>4. CASE ConnectionLost(q) \/ SyncGoroutine(q) \/ RequestFilter(q)
    BY <2>4 DEF ConnectionLost, SyncGoroutine, RequestFilter
  <2>5. CASE ReadError(q) \/ Sync(q)
    BY <2>5 DEF ReadError, Sync, Goto
  <2>6. CASE \E m \in HeadersMsg : HandleHeaders(q, m)
    BY <2>6 DEF HandleHeaders, Goto
  <2>7. CASE \E b \in Block : HandleBlock(q, b)
    BY <2>7 DEF HandleBlock, Goto
  <2>8. CASE SendHeader(q)
    BY <2>8 DEF SendHeader, AfterSend, Goto
  <2>9. CASE DisconnectPeer(q)
    <3>1. pc'[q] # "new" /\ q \notin open'
      BY <2>9 DEF DisconnectPeer
    <3> QED BY <2>9, <3>1 DEF DisconnectPeer, SomeLost, Lost
  <2> QED BY <1>1, <2>1, <2>2, <2>3, <2>4, <2>5, <2>6, <2>7, <2>8, <2>9 DEF PeerStep
<1>2. CASE WriteHeader \/ CheckPeers \/ RequestFilterFromNobody \/ PollTip \/ CheckSynced
           \/ UNCHANGED vars
  BY <1>2 DEF WriteHeader, CheckPeers, RequestFilterFromNobody, PollTip, CheckSynced, vars
<1> QED BY <1>1, <1>2 DEF Next

(* While no peer is lost the process does not panic: monitorBlockHeaders   *)
(* finds a peer to ask, and the first getheaders finds its locator because *)
(* the store has no gap (getBestPeerForSync, blockLocatorFromHash).        *)
THEOREM CrashOnlyOnLossHolds == Spec => []CrashOnlyOnLoss
<1>1. Init => PanicInv
  BY DEF Init, PanicInv, CrashOnlyOnLoss
<1>2. IInv /\ PanicInv /\ [Next]_vars => PanicInv'
  <2> SUFFICES ASSUME IInv, PanicInv, [Next]_vars PROVE PanicInv'
    OBVIOUS
  <2>1. CASE Restart
    BY <2>1 DEF Restart, PanicInv, CrashOnlyOnLoss
  <2>2. CASE ~Restart
    <3>1. TypeOK
      BY DEF IInv
    <3>2. SomeLost => SomeLost'
      BY <2>2, <3>1, LossIsForever DEF SomeLost
    <3>3. \A p \in known' : pc'[p] # "new"
      BY <2>2, <3>1, KnownSteps
    <3>4. writer' = "request" => known' # {} \/ SomeLost'
      <4>1. CASE CheckPeers
        BY <4>1 DEF CheckPeers, HasPeers
      <4>2. CASE writer' = "request" => writer = "request"
        BY <2>2, <3>1, <3>2, <4>2, KnownSteps DEF PanicInv
      <4>3. CheckPeers \/ (writer' = "request" => writer = "request")
        BY <2>2 DEF Next, PeerStep, AddOutboundPeer, HandleVersion, StartSync, ConnectionLost,
          ReadError, DisconnectPeer, HandleHeaders, HandleBlock, SendHeader, Sync, SyncGoroutine,
          RequestFilter, WriteHeader, RequestFilterFromNobody, PollTip, CheckSynced, vars
      <4> QED BY <4>1, <4>2, <4>3
    <3>5. crashed' => crashed \/ SomeLost
      <4>1. ~LocatorFails(store)
        BY LocatorExists DEF IInv, TypeOK, TipInv, NoGap
      <4>2. CASE RequestFilterFromNobody
        BY <4>2 DEF RequestFilterFromNobody, PanicInv
      <4>3. CASE \E p \in Peer : SyncGoroutine(p)
        BY <4>1, <4>3 DEF SyncGoroutine
      <4>4. CASE UNCHANGED crashed
        BY <4>4
      <4> QED BY <2>2, <4>2, <4>3, <4>4 DEF Next, PeerStep, AddOutboundPeer, HandleVersion,
          StartSync, ConnectionLost, ReadError, DisconnectPeer, HandleHeaders, HandleBlock,
          SendHeader, Sync, RequestFilter, WriteHeader, CheckPeers, PollTip, CheckSynced, vars
    <3>6. CrashOnlyOnLoss'
      BY <3>2, <3>5 DEF PanicInv, CrashOnlyOnLoss, SomeLost
    <3> QED BY <3>3, <3>4, <3>6 DEF PanicInv
  <2> QED BY <2>1, <2>2
<1>3. PanicInv => CrashOnlyOnLoss
  BY DEF PanicInv
<1> QED BY Invariance, <1>1, <1>2, <1>3, PTL DEF Spec

=============================================================================
