----------------------------- MODULE MempoolProofs -----------------------------
(***************************************************************************)
(* Theorems about Mempool, for any number of peers, transactions, blocks   *)
(* and subscribers.                                                        *)
(***************************************************************************)
EXTENDS Mempool, FiniteSetTheorems, TLAPS

Types ==
  /\ txs \in SUBSET Tx /\ subs \in SUBSET Subscriber
  /\ messages \in 0..MaxMessages
  /\ adding \in [Handler -> Tx \cup {NoTx}]
  /\ listener \in ListenerState /\ new \in Tx \cup {NoTx}
  /\ listener \in {"lock", "write", "tell"} => new \in Tx
  /\ check \in [Check -> CheckState]
  /\ current \in [Check -> Tx \cup {NoTx}]
  /\ visited \in [Check -> SUBSET Tx] /\ stayed \in [Check -> SUBSET txs]
  /\ told \in [Subscriber -> SUBSET Event] /\ pending \in [Subscriber -> Nat]
  /\ missed \in [Subscriber -> SUBSET Tx]
  /\ stop \in StopState /\ process \in {"up", "race", "closed"}
  /\ closed \subseteq subs /\ closing \subseteq subs \ closed
  /\ stop # "subs" => closed = {} /\ closing = {}

(* txsMutex has one holder.                                                *)
Mutex ==
  \A c \in Check :
    check[c] = "write" => /\ listener # "write"
                          /\ \A d \in Check : check[d] = "write" => d = c

(* Check c has found a transaction and not yet told of it.                 *)
InHand(c) == check[c] \in {"lock", "write", "tell"}

(* What the range of c has produced and is in the block has left the map,  *)
(* unless it is the one that c is about to remove.                         *)
RangeOf(c) ==
  /\ check[c] = "idle" => visited[c] = {}
  /\ \A t \in block[c] \cap stayed[c] \cap visited[c] :
       current[c] = t /\ check[c] \in {"lock", "write"}
  /\ InHand(c) => current[c] \in Tx
  /\ check[c] = "done" => block[c] \cap stayed[c] = {}

RangeInv == \A c \in Check : RangeOf(c)

(* What s was told of t, and will be by those who have changed the pool    *)
ToldOf(s, t) ==
  /\ t \in txs => ToldUnconfirmed(s, t)
  /\ ToldUnconfirmed(s, t) /\ t \notin txs => ToldConfirmed(s, t)
  /\ Confirmed(t) \in told[s] => ToldUnconfirmed(s, t)
  /\ \A c \in Check : InHand(c) /\ current[c] = t => ToldUnconfirmed(s, t)

ToldInv ==
  /\ \A s \in Subscriber \ subs : told[s] = {}
  /\ \A s \in subs : \A t \in Tx \ missed[s] : ToldOf(s, t)

IInv == Types /\ Mutex /\ RangeInv /\ ToldInv

-----------------------------------------------------------------------------

(* The pool is empty, and nothing runs.                                    *)
LEMMA InitInv == Init => IInv
  BY MempoolAssumption
  DEF Init, IInv, Types, Mutex, RangeInv, RangeOf, InHand, ToldInv, ListenerState,
      CheckState, StopState

(* Every step of a handler, of the listener, of a check and of Stop keeps  *)
(* the types; stayed shrinks with txs.                                     *)
LEMMA TypesStep == IInv /\ [Next]_vars => Types'
<1> SUFFICES ASSUME IInv, [Next]_vars PROVE Types'
  OBVIOUS
<1> USE MempoolAssumption DEF IInv, Types, ListenerState, CheckState, StopState, Event,
       Confirmed, Unconfirmed, poolVars, stopVars, eventVars, subscriberVars
<1>1. ASSUME NEW s \in Subscriber, AddSubscriber(s) PROVE Types'
  BY <1>1 DEF AddSubscriber
<1>2. ASSUME NEW s \in Subscriber, ReceiveEvent(s) PROVE Types'
  BY <1>2 DEF ReceiveEvent
<1>3. ASSUME NEW s \in Subscriber, SendPanics(s) PROVE Types'
  BY <1>3 DEF SendPanics
<1>4. ASSUME NEW s \in Subscriber, CloseSubscriber(s) PROVE Types'
  BY <1>4 DEF CloseSubscriber
<1>5. ASSUME NEW p \in Handler, NEW t \in Tx, HandleTx(p, t) PROVE Types'
  BY <1>5 DEF HandleTx
<1>6. ASSUME NEW p \in Handler, AddTx(p) PROVE Types'
  BY <1>6 DEF AddTx
<1>7. ASSUME NEW p \in Handler, AddTxPanics(p) PROVE Types'
  BY <1>7 DEF AddTxPanics
<1>8. CASE Start
  BY <1>8 DEF Start
<1>9. CASE ListenerReturns
  BY <1>9 DEF ListenerReturns
<1>10. CASE LockToAdd
  BY <1>10 DEF LockToAdd, Writing
<1>11. CASE Add
  BY <1>11 DEF Add
<1>12. CASE TellUnconfirmed
  BY <1>12 DEF TellUnconfirmed, Notify
<1>13. ASSUME NEW c \in Check, CheckTxConfirmed(c) PROVE Types'
  BY <1>13 DEF CheckTxConfirmed
<1>14. ASSUME NEW c \in Check, NEW t \in Tx, Visit(c, t) PROVE Types'
  BY <1>14 DEF Visit
<1>15. ASSUME NEW c \in Check, CheckReturns(c) PROVE Types'
  BY <1>15 DEF CheckReturns, Ranged
<1>16. ASSUME NEW c \in Check, Remove(c) PROVE Types'
  <2>1. txs' \in SUBSET Tx /\ stayed' \in [Check -> SUBSET txs']
    BY <1>16 DEF Remove, Kept
  <2> QED
    BY <1>16, <2>1 DEF Remove, AfterRemove
<1>17. ASSUME NEW c \in Check, TellConfirmed(c) PROVE Types'
  <2>1. current[c] \in Tx
    BY <1>17 DEF TellConfirmed, RangeInv, RangeOf, InHand
  <2>2. told' \in [Subscriber -> SUBSET Event]
    BY <1>17, <2>1 DEF TellConfirmed, Notify
  <2> QED
    BY <1>17, <2>2 DEF TellConfirmed, Notify
<1>18. ASSUME NEW c \in Check, LockToRemove(c) PROVE Types'
  BY <1>18 DEF LockToRemove, Writing
<1>19. ASSUME NEW c \in Check, MapRace(c) PROVE Types'
  BY <1>19 DEF MapRace
<1>20. CASE CloseTxChan
  BY <1>20 DEF CloseTxChan
<1>21. CASE ReadSubscribers
  BY <1>21 DEF ReadSubscribers
<1>22. CASE UNCHANGED vars
  BY <1>22 DEF vars
<1> QED
  BY <1>1, <1>2, <1>3, <1>4, <1>5, <1>6, <1>7, <1>8, <1>9, <1>10, <1>11, <1>12,
     <1>13, <1>14, <1>15, <1>16, <1>17, <1>18, <1>19, <1>20, <1>21, <1>22
     DEF Next, Listen, CheckStep

(* Whoever takes txsMutex finds that nobody writes.                        *)
LEMMA MutexStep == IInv /\ [Next]_vars => Mutex'
<1> SUFFICES ASSUME IInv, [Next]_vars PROVE Mutex'
  OBVIOUS
<1> USE MempoolAssumption DEF IInv, Types, Mutex, poolVars, stopVars, eventVars, subscriberVars
<1>1. ASSUME NEW s \in Subscriber, AddSubscriber(s) PROVE Mutex'
  BY <1>1 DEF AddSubscriber
<1>2. ASSUME NEW s \in Subscriber, ReceiveEvent(s) PROVE Mutex'
  BY <1>2 DEF ReceiveEvent
<1>3. ASSUME NEW s \in Subscriber, SendPanics(s) PROVE Mutex'
  BY <1>3 DEF SendPanics
<1>4. ASSUME NEW s \in Subscriber, CloseSubscriber(s) PROVE Mutex'
  BY <1>4 DEF CloseSubscriber
<1>5. ASSUME NEW p \in Handler, NEW t \in Tx, HandleTx(p, t) PROVE Mutex'
  BY <1>5 DEF HandleTx
<1>6. ASSUME NEW p \in Handler, AddTx(p) PROVE Mutex'
  BY <1>6 DEF AddTx
<1>7. ASSUME NEW p \in Handler, AddTxPanics(p) PROVE Mutex'
  BY <1>7 DEF AddTxPanics
<1>8. CASE Start
  BY <1>8 DEF Start
<1>9. CASE ListenerReturns
  BY <1>9 DEF ListenerReturns
<1>10. CASE LockToAdd
  BY <1>10 DEF LockToAdd, Writing
<1>11. CASE Add
  BY <1>11 DEF Add
<1>12. CASE TellUnconfirmed
  BY <1>12 DEF TellUnconfirmed, Notify
<1>13. ASSUME NEW c \in Check, CheckTxConfirmed(c) PROVE Mutex'
  BY <1>13 DEF CheckTxConfirmed
<1>14. ASSUME NEW c \in Check, NEW t \in Tx, Visit(c, t) PROVE Mutex'
  BY <1>14 DEF Visit
<1>15. ASSUME NEW c \in Check, CheckReturns(c) PROVE Mutex'
  BY <1>15 DEF CheckReturns, Ranged
<1>16. ASSUME NEW c \in Check, Remove(c) PROVE Mutex'
  BY <1>16 DEF Remove, Kept, AfterRemove
<1>17. ASSUME NEW c \in Check, TellConfirmed(c) PROVE Mutex'
  BY <1>17 DEF TellConfirmed, Notify
<1>18. ASSUME NEW c \in Check, LockToRemove(c) PROVE Mutex'
  BY <1>18 DEF LockToRemove, Writing
<1>19. ASSUME NEW c \in Check, MapRace(c) PROVE Mutex'
  BY <1>19 DEF MapRace
<1>20. CASE CloseTxChan
  BY <1>20 DEF CloseTxChan
<1>21. CASE ReadSubscribers
  BY <1>21 DEF ReadSubscribers
<1>22. CASE UNCHANGED vars
  BY <1>22 DEF vars
<1> QED
  BY <1>1, <1>2, <1>3, <1>4, <1>5, <1>6, <1>7, <1>8, <1>9, <1>10, <1>11, <1>12,
     <1>13, <1>14, <1>15, <1>16, <1>17, <1>18, <1>19, <1>20, <1>21, <1>22
     DEF Next, Listen, CheckStep

(* A range ends only when it has produced what has stayed; what it has     *)
(* produced of its block it removes, and an entry that comes back to the   *)
(* map has not stayed.                                                     *)
LEMMA RangeStep == IInv /\ [Next]_vars => RangeInv'
<1> SUFFICES ASSUME IInv, [Next]_vars PROVE RangeInv'
  OBVIOUS
<1> USE MempoolAssumption DEF IInv, Types, RangeInv, RangeOf, InHand, poolVars, stopVars, eventVars, subscriberVars
<1>1. ASSUME NEW s \in Subscriber, AddSubscriber(s) PROVE RangeInv'
  BY <1>1 DEF AddSubscriber
<1>2. ASSUME NEW s \in Subscriber, ReceiveEvent(s) PROVE RangeInv'
  BY <1>2 DEF ReceiveEvent
<1>3. ASSUME NEW s \in Subscriber, SendPanics(s) PROVE RangeInv'
  BY <1>3 DEF SendPanics
<1>4. ASSUME NEW s \in Subscriber, CloseSubscriber(s) PROVE RangeInv'
  BY <1>4 DEF CloseSubscriber
<1>5. ASSUME NEW p \in Handler, NEW t \in Tx, HandleTx(p, t) PROVE RangeInv'
  BY <1>5 DEF HandleTx
<1>6. ASSUME NEW p \in Handler, AddTx(p) PROVE RangeInv'
  BY <1>6 DEF AddTx
<1>7. ASSUME NEW p \in Handler, AddTxPanics(p) PROVE RangeInv'
  BY <1>7 DEF AddTxPanics
<1>8. CASE Start
  BY <1>8 DEF Start
<1>9. CASE ListenerReturns
  BY <1>9 DEF ListenerReturns
<1>10. CASE LockToAdd
  BY <1>10 DEF LockToAdd, Writing
<1>11. CASE Add
  BY <1>11 DEF Add
<1>12. CASE TellUnconfirmed
  BY <1>12 DEF TellUnconfirmed, Notify
<1>13. ASSUME NEW c \in Check, CheckTxConfirmed(c) PROVE RangeInv'
  BY <1>13 DEF CheckTxConfirmed
<1>14. ASSUME NEW c \in Check, NEW t \in Tx, Visit(c, t) PROVE RangeInv'
  BY <1>14 DEF Visit
<1>15. ASSUME NEW c \in Check, CheckReturns(c) PROVE RangeInv'
  BY <1>15 DEF CheckReturns, Ranged
<1>16. ASSUME NEW c \in Check, Remove(c) PROVE RangeInv'
  BY <1>16 DEF Remove, Kept, AfterRemove
<1>17. ASSUME NEW c \in Check, TellConfirmed(c) PROVE RangeInv'
  BY <1>17 DEF TellConfirmed, Notify
<1>18. ASSUME NEW c \in Check, LockToRemove(c) PROVE RangeInv'
  BY <1>18 DEF LockToRemove, Writing
<1>19. ASSUME NEW c \in Check, MapRace(c) PROVE RangeInv'
  BY <1>19 DEF MapRace
<1>20. CASE CloseTxChan
  BY <1>20 DEF CloseTxChan
<1>21. CASE ReadSubscribers
  BY <1>21 DEF ReadSubscribers
<1>22. CASE UNCHANGED vars
  BY <1>22 DEF vars
<1> QED
  BY <1>1, <1>2, <1>3, <1>4, <1>5, <1>6, <1>7, <1>8, <1>9, <1>10, <1>11, <1>12,
     <1>13, <1>14, <1>15, <1>16, <1>17, <1>18, <1>19, <1>20, <1>21, <1>22
     DEF Next, Listen, CheckStep

(* A transaction is told of after it was added, and after it was removed,  *)
(* by the goroutine that did it; a new subscriber has missed what is there.*)
LEMMA ToldStep == IInv /\ [Next]_vars => ToldInv'
<1> SUFFICES ASSUME IInv, [Next]_vars PROVE ToldInv'
  OBVIOUS
<1> USE MempoolAssumption DEF IInv, Types, ToldInv, ToldOf, InHand, ToldUnconfirmed, ToldConfirmed,
       Confirmed, Unconfirmed, poolVars, stopVars, eventVars, subscriberVars
<1>1. ASSUME NEW s \in Subscriber, AddSubscriber(s) PROVE ToldInv'
  <2>1. ASSUME NEW t \in Tx \ missed'[s] PROVE ToldOf(s, t)'
    <3>1. t \notin txs /\ ~(listener = "tell" /\ new = t) /\ told[s] = {}
      BY <1>1 DEF AddSubscriber
    <3>2. ASSUME NEW c \in Check, InHand(c) PROVE current[c] # t
      <4>1. current[c] # NoTx
        BY <3>2 DEF RangeInv, RangeOf
      <4> QED
        BY <1>1, <4>1 DEF AddSubscriber
    <3> QED
      BY <1>1, <3>1, <3>2 DEF AddSubscriber
  <2>2. ASSUME NEW r \in subs, NEW t \in Tx \ missed'[r] PROVE ToldOf(r, t)'
    BY <1>1 DEF AddSubscriber
  <2> QED
    BY <1>1, <2>1, <2>2 DEF AddSubscriber
<1>2. ASSUME NEW s \in Subscriber, ReceiveEvent(s) PROVE ToldInv'
  BY <1>2 DEF ReceiveEvent
<1>3. ASSUME NEW s \in Subscriber, SendPanics(s) PROVE ToldInv'
  BY <1>3 DEF SendPanics
<1>4. ASSUME NEW s \in Subscriber, CloseSubscriber(s) PROVE ToldInv'
  BY <1>4 DEF CloseSubscriber
<1>5. ASSUME NEW p \in Handler, NEW t \in Tx, HandleTx(p, t) PROVE ToldInv'
  BY <1>5 DEF HandleTx
<1>6. ASSUME NEW p \in Handler, AddTx(p) PROVE ToldInv'
  BY <1>6 DEF AddTx
<1>7. ASSUME NEW p \in Handler, AddTxPanics(p) PROVE ToldInv'
  BY <1>7 DEF AddTxPanics
<1>8. CASE Start
  BY <1>8 DEF Start
<1>9. CASE ListenerReturns
  BY <1>9 DEF ListenerReturns
<1>10. CASE LockToAdd
  BY <1>10 DEF LockToAdd, Writing
<1>11. CASE Add
  BY <1>11 DEF Add
<1>12. CASE TellUnconfirmed
  BY <1>12 DEF TellUnconfirmed, Notify
<1>13. ASSUME NEW c \in Check, CheckTxConfirmed(c) PROVE ToldInv'
  BY <1>13 DEF CheckTxConfirmed
<1>14. ASSUME NEW c \in Check, NEW t \in Tx, Visit(c, t) PROVE ToldInv'
  BY <1>14 DEF Visit
<1>15. ASSUME NEW c \in Check, CheckReturns(c) PROVE ToldInv'
  BY <1>15 DEF CheckReturns, Ranged
<1>16. ASSUME NEW c \in Check, Remove(c) PROVE ToldInv'
  BY <1>16 DEF Remove, Kept, AfterRemove
<1>17. ASSUME NEW c \in Check, TellConfirmed(c) PROVE ToldInv'
  BY <1>17 DEF TellConfirmed, Notify
<1>18. ASSUME NEW c \in Check, LockToRemove(c) PROVE ToldInv'
  BY <1>18 DEF LockToRemove, Writing
<1>19. ASSUME NEW c \in Check, MapRace(c) PROVE ToldInv'
  BY <1>19 DEF MapRace
<1>20. CASE CloseTxChan
  BY <1>20 DEF CloseTxChan
<1>21. CASE ReadSubscribers
  BY <1>21 DEF ReadSubscribers
<1>22. CASE UNCHANGED vars
  BY <1>22 DEF vars
<1> QED
  BY <1>1, <1>2, <1>3, <1>4, <1>5, <1>6, <1>7, <1>8, <1>9, <1>10, <1>11, <1>12,
     <1>13, <1>14, <1>15, <1>16, <1>17, <1>18, <1>19, <1>20, <1>21, <1>22
     DEF Next, Listen, CheckStep

(* The four parts together, in every reachable state.                      *)
THEOREM Invariant == Spec => []IInv
<1>1. IInv /\ [Next]_vars => IInv'
  BY TypesStep, MutexStep, RangeStep, ToldStep DEF IInv
<1> QED
  BY <1>1, InitInv, PTL DEF Spec

(* The types; txsMutex of the pool has one holder, and Stop closes each    *)
(* channel once.                                                           *)
THEOREM Typing == Spec => []TypeOK
<1>1. ASSUME IInv PROVE TypeOK
  <2> DEFINE W == {c \in Check : check[c] = "write"}
  <2>1. CASE W = {}
    <3>1. Cardinality(W) = 0
      BY <2>1, FS_EmptySet
    <3> QED
      BY <1>1, <3>1 DEF IInv, Types, TypeOK
  <2>2. CASE W # {}
    <3>1. PICK c \in Check : check[c] = "write"
      BY <2>2
    <3>2. W = {c} /\ listener # "write"
      BY <1>1, <3>1 DEF IInv, Mutex
    <3>3. Cardinality(W) = 1
      BY <3>2, FS_Singleton
    <3> QED
      BY <1>1, <3>2, <3>3 DEF IInv, Types, TypeOK
  <2> QED
    BY <2>1, <2>2
<1> QED
  BY <1>1, Invariant, PTL

(* checkTxConfirmed leaves no transaction of its block that was there when *)
(* it started, though its range and its removals meet those of others.     *)
THEOREM MinedLeavesHolds == Spec => []MinedLeaves
<1>1. IInv => MinedLeaves
  BY DEF IInv, RangeInv, RangeOf, MinedLeaves
<1> QED
  BY <1>1, Invariant, PTL

(* notifySubscribers reaches a subscriber with everything that comes into  *)
(* the pool and leaves it after AddSubscriber.                             *)
THEOREM SubscribersToldHolds == Spec => []SubscribersTold
<1>1. IInv => SubscribersTold
  BY DEF IInv, ToldInv, ToldOf, SubscribersTold, ToldUnconfirmed
<1> QED
  BY <1>1, Invariant, PTL

=============================================================================
