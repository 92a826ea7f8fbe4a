-------------------------------- MODULE Mempool --------------------------------
(***************************************************************************)
(* pkg/node/mempool.go: the transactions the peers announce, kept until a  *)
(* block with them arrives, and the subscribers told of both.              *)
(*                                                                         *)
(* The goroutines: each peer's message handler, in AddTx; listenForNewTxs; *)
(* one checkTxConfirmed for each block received; one short goroutine for   *)
(* each event and subscriber; whoever calls Stop.                          *)
(*                                                                         *)
(* txsMutex guards the writes of txs, but the range of checkTxConfirmed    *)
(* reads the map without it.  The runtime may notice that and kill the     *)
(* process, or may not.                                                    *)
(***************************************************************************)
EXTENDS Naturals, FiniteSets

CONSTANTS
  Tx,
  Handler,     \* the goroutines that handle tx messages
  Subscriber,
  Check,       \* the calls of CheckTxConfirmed
  block,       \* block[c]: the transactions of the block c is called with
  MaxMessages  \* bound: the number of tx messages

NoTx == "none"

ASSUME MempoolAssumption ==
  /\ NoTx \notin Tx /\ block \in [Check -> SUBSET Tx]
  /\ MaxMessages \in Nat

Event == [type : {"confirmed", "unconfirmed"}, tx : Tx]
Confirmed(t) == [type |-> "confirmed", tx |-> t]
Unconfirmed(t) == [type |-> "unconfirmed", tx |-> t]

VARIABLES
  txs,       \* the keys of m.txs
  subs,      \* m.txSubscribers
  messages,  \* the number of tx messages so far
  adding,    \* adding[p]: the transaction p is sending on txChan
  listener,  \* where listenForNewTxs is
  new,       \* the transaction it has received
  check,     \* check[c]: where the goroutine of call c is
  current,   \* current[c]: the transaction of its range
  visited,   \* visited[c]: the entries its range has produced
  stayed,    \* stayed[c]: the entries of txs since its range began
  told,      \* told[s]: the events that goroutines were started to send to s
  pending,   \* pending[s]: how many of these goroutines have not sent yet
  missed,    \* history: what was in the pool, or told of, when s subscribed
  stop,      \* where Stop is
  closed,    \* the subscribers whose channel Stop has closed
  closing,   \* those whose channel it has still to close
  process    \* "up", or what killed it: "race", "closed" (a send on a closed channel)

poolVars == <<txs, new, current, visited, stayed>>
stopVars == <<stop, closed, closing>>
eventVars == <<told, pending>>
subscriberVars == <<subs, missed>>
vars == <<poolVars, messages, adding, listener, check, subscriberVars, eventVars,
          stopVars, process>>

(* off      not started                                                    *)
(* receive  receiving from txChan                                          *)
(* lock     about to take txsMutex, in addTx                               *)
(* write    in addTx with the mutex                                        *)
(* tell     about to notify the subscribers                                *)
(* gone     returned                                                       *)
ListenerState == {"off", "receive", "lock", "write", "tell", "gone"}

(* idle     not called                                                     *)
(* range    about to take the next entry of m.txs                          *)
(* lock, write, tell   as above, in removeTxFromMemPool and after it       *)
(* done     returned                                                       *)
CheckState == {"idle", "range", "lock", "write", "tell", "done"}

(* running, then txChan is closed, then the subscribers are read           *)
StopState == {"no", "txChan", "subs"}

Init ==
  /\ txs = {} /\ subs = {} /\ messages = 0
  /\ adding = [p \in Handler |-> NoTx]
  /\ listener = "off" /\ new = NoTx
  /\ check = [c \in Check |-> "idle"]
  /\ current = [c \in Check |-> NoTx]
  /\ visited = [c \in Check |-> {}]
  /\ stayed = [c \in Check |-> {}]
  /\ told = [s \in Subscriber |-> {}]
  /\ pending = [s \in Subscriber |-> 0]
  /\ missed = [s \in Subscriber |-> {}]
  /\ stop = "no" /\ closed = {} /\ closing = {}
  /\ process = "up"

Up == process = "up"

AddWrites == listener = "write"   \* a mutant of Writing: a removal only reads

(* The holder of txsMutex writes the map.                                  *)
Writing == listener = "write" \/ \E c \in Check : check[c] = "write"

-----------------------------------------------------------------------------
(* The subscribers                                                         *)

(* AddSubscriber makes the channel.                                        *)
AddSubscriber(s) ==
  /\ Up /\ s \notin subs
  /\ subs' = subs \cup {s}
  /\ missed' = [missed EXCEPT ![s] =
       txs \cup (IF listener = "tell" THEN {new} ELSE {})
           \cup {current[c] : c \in {d \in Check : current[d] # NoTx}}]
  /\ UNCHANGED <<poolVars, messages, adding, listener, check, eventVars, stopVars, process>>

(* a mutant of Notify: the caller itself sends the event, after those that *)
(* the subscriber has still to read                                        *)
NotifyWaits(e) ==
  /\ \A s \in subs : pending[s] = 0
  /\ told' = [s \in Subscriber |-> told[s] \cup {x \in {e} : s \in subs}]
  /\ pending' = [s \in Subscriber |-> pending[s] + (IF s \in subs THEN 1 ELSE 0)]

(* notifySubscribers starts a goroutine for each subscriber.               *)
Notify(e) ==
  /\ told' = [s \in Subscriber |-> told[s] \cup {x \in {e} : s \in subs}]
  /\ pending' = [s \in Subscriber |-> pending[s] + (IF s \in subs THEN 1 ELSE 0)]

(* One of them, in any order, sends its event.                             *)
ReceiveEvent(s) ==
  /\ Up
  /\ pending[s] > 0 /\ s \notin closed
  /\ pending' = [pending EXCEPT ![s] = @ - 1]
  /\ UNCHANGED <<poolVars, messages, adding, listener, check, subscriberVars, told, stopVars, process>>

(* Or finds the channel closed: nothing recovers that panic.               *)
SendPanics(s) ==
  /\ Up
  /\ s \in closed /\ pending[s] > 0
  /\ process' = "closed"
  /\ UNCHANGED <<poolVars, messages, adding, listener, check, subscriberVars, eventVars, stopVars>>

-----------------------------------------------------------------------------
(* New transactions                                                        *)

Start ==
  /\ Up /\ listener = "off"
  /\ listener' = "receive"
  /\ UNCHANGED <<poolVars, messages, adding, check, subscriberVars, eventVars, stopVars, process>>

(* handleTx                                                                *)
HandleTx(p, t) ==
  /\ Up /\ adding[p] = NoTx /\ messages < MaxMessages
  /\ messages' = messages + 1
  /\ adding' = [adding EXCEPT ![p] = t]
  /\ UNCHANGED <<poolVars, listener, check, subscriberVars, eventVars, stopVars, process>>

(* m.txChan <- tx, received by the listener                                *)
AddTx(p) ==
  /\ Up /\ adding[p] # NoTx
  /\ listener = "receive" /\ stop = "no"
  /\ new' = adding[p]
  /\ adding' = [adding EXCEPT ![p] = NoTx]
  /\ listener' = "lock"
  /\ UNCHANGED <<txs, current, visited, stayed, messages, check, subscriberVars, eventVars,
                 stopVars, process>>

(* txChan is closed: the handler panics, recovers and reads on.            *)
AddTxPanics(p) ==
  /\ Up /\ adding[p] # NoTx /\ stop # "no"
  /\ adding' = [adding EXCEPT ![p] = NoTx]
  /\ UNCHANGED <<poolVars, messages, listener, check, subscriberVars, eventVars, stopVars, process>>

ListenerReturns ==
  /\ Up /\ listener = "receive" /\ stop # "no"
  /\ listener' = "gone"
  /\ UNCHANGED <<poolVars, messages, adding, check, subscriberVars, eventVars, stopVars, process>>

LockToAdd ==
  /\ Up /\ listener = "lock" /\ ~Writing
  /\ listener' = "write"
  /\ UNCHANGED <<poolVars, messages, adding, check, subscriberVars, eventVars, stopVars, process>>

(* addTx.  A new entry may be produced by a range that runs, even where    *)
(* the same key was deleted before it.                                     *)
Add ==
  /\ Up /\ listener = "write"
  /\ txs' = txs \cup {new}
  /\ visited' = IF new \in txs THEN visited ELSE [c \in Check |-> visited[c] \ {new}]
  /\ listener' = "tell"
  /\ UNCHANGED <<new, current, stayed, messages, adding, check, subscriberVars, eventVars,
                 stopVars, process>>

(* The event is sent for a transaction that was there already, too.        *)
TellUnconfirmed ==
  /\ Up /\ listener = "tell"
  /\ Notify(Unconfirmed(new))
  /\ new' = NoTx
  /\ listener' = "receive"
  /\ UNCHANGED <<txs, current, visited, stayed, messages, adding, check, subscriberVars,
                 stopVars, process>>

-----------------------------------------------------------------------------
(* checkTxConfirmed                                                        *)

(* CheckTxConfirmed, from handleBlock                                      *)
CheckTxConfirmed(c) ==
  /\ Up /\ check[c] = "idle"
  /\ check' = [check EXCEPT ![c] = "range"]
  /\ stayed' = [stayed EXCEPT ![c] = txs]
  /\ UNCHANGED <<txs, new, current, visited, messages, adding, listener, subscriberVars, eventVars,
                 stopVars, process>>

(* The range produces an entry, which is looked up in the block.           *)
Visit(c, t) ==
  /\ Up /\ check[c] = "range"
  /\ t \in txs \ visited[c]
  /\ visited' = [visited EXCEPT ![c] = @ \cup {t}]
  /\ IF t \in block[c]
     THEN /\ current' = [current EXCEPT ![c] = t]
          /\ check' = [check EXCEPT ![c] = "lock"]
     ELSE UNCHANGED <<current, check>>
  /\ UNCHANGED <<txs, new, stayed, messages, adding, listener, subscriberVars, eventVars, stopVars,
                 process>>

(* The range has produced what was there all along; later entries may have *)
(* been left out.                                                          *)
Ranged(c) == stayed[c] \subseteq visited[c]

CheckReturns(c) ==
  /\ Up /\ check[c] = "range" /\ Ranged(c)
  /\ check' = [check EXCEPT ![c] = "done"]
  /\ UNCHANGED <<poolVars, messages, adding, listener, subscriberVars, eventVars, stopVars, process>>

(* The range, unlocked, meets a write: "concurrent map iteration and map   *)
(* write" is not a panic and cannot be recovered.                          *)
MapRace(c) ==
  /\ Up /\ check[c] = "range" /\ Writing
  /\ process' = "race"
  /\ UNCHANGED <<poolVars, messages, adding, listener, check, subscriberVars, eventVars, stopVars>>

LockToRemove(c) ==
  /\ Up /\ check[c] = "lock" /\ ~Writing
  /\ check' = [check EXCEPT ![c] = "write"]
  /\ UNCHANGED <<poolVars, messages, adding, listener, subscriberVars, eventVars, stopVars, process>>

(* a mutant of AfterRemove: the error is returned                          *)
AfterRemoveReturns(c) == IF current[c] \in txs THEN "tell" ELSE "done"

(* removeTxFromMemPool may not find the transaction; that error is logged. *)
AfterRemove(c) == "tell"

KeptOfOthers(c) == txs \ block[c]   \* a mutant of Kept

Kept(c) == txs \ {current[c]}

Remove(c) ==
  /\ Up /\ check[c] = "write"
  /\ txs' = Kept(c)
  /\ stayed' = [d \in Check |-> stayed[d] \cap Kept(c)]
  /\ check' = [check EXCEPT ![c] = AfterRemove(c)]
  /\ UNCHANGED <<new, current, visited, messages, adding, listener, subscriberVars, eventVars,
                 stopVars, process>>

(* The event is sent whoever has removed the transaction.                  *)
TellConfirmed(c) ==
  /\ Up /\ check[c] = "tell"
  /\ Notify(Confirmed(current[c]))
  /\ current' = [current EXCEPT ![c] = NoTx]
  /\ check' = [check EXCEPT ![c] = "range"]
  /\ UNCHANGED <<txs, new, visited, stayed, messages, adding, listener, subscriberVars, stopVars,
                 process>>

-----------------------------------------------------------------------------
(* Stop, called once                                                       *)

CloseTxChan ==
  /\ Up /\ stop = "no"
  /\ stop' = "txChan"
  /\ UNCHANGED <<poolVars, messages, adding, listener, check, subscriberVars, eventVars, closed,
                 closing, process>>

ReadSubscribers ==
  /\ Up /\ stop = "txChan"
  /\ stop' = "subs"
  /\ closing' = subs
  /\ UNCHANGED <<poolVars, messages, adding, listener, check, subscriberVars, eventVars, closed,
                 process>>

CloseSubscriber(s) ==
  /\ Up /\ s \in closing
  /\ closing' = closing \ {s}
  /\ closed' = closed \cup {s}
  /\ UNCHANGED <<poolVars, messages, adding, listener, check, subscriberVars, eventVars, stop,
                 process>>

-----------------------------------------------------------------------------

Listen ==
  \/ Start
  \/ ListenerReturns
  \/ Add
  \/ TellUnconfirmed

CheckStep(c) ==
  \/ \E t \in Tx : Visit(c, t)
  \/ CheckReturns(c)
  \/ Remove(c)
  \/ TellConfirmed(c)

Next ==
  \/ Listen
  \/ LockToAdd
  \/ \E p \in Handler : (\E t \in Tx : HandleTx(p, t)) \/ AddTx(p) \/ AddTxPanics(p)
  \/ \E c \in Check : CheckTxConfirmed(c) \/ CheckStep(c) \/ LockToRemove(c) \/ MapRace(c)
  \/ \E s \in Subscriber : \/ AddSubscriber(s)
                           \/ ReceiveEvent(s)
                           \/ SendPanics(s)
                           \/ CloseSubscriber(s)
  \/ CloseTxChan
  \/ ReadSubscribers

(* Goroutines that can run do.  Senders on a channel and goroutines at a   *)
(* mutex queue: hence SF.  No subscriber is assumed to read.               *)
Fairness ==
  /\ WF_vars(Listen)
  /\ SF_vars(LockToAdd)
  /\ \A p \in Handler : SF_vars(AddTx(p)) /\ WF_vars(AddTxPanics(p))
  /\ \A c \in Check : WF_vars(CheckStep(c)) /\ SF_vars(LockToRemove(c))

Spec == Init /\ [][Next]_vars /\ Fairness

-----------------------------------------------------------------------------
(* Properties                                                              *)

(* Every variable has its type; the mutex has one holder; Stop closes no   *)
(* channel twice, which would be a panic.                                  *)
TypeOK ==
  /\ txs \in SUBSET Tx /\ subs \in SUBSET Subscriber
  /\ messages \in 0..MaxMessages
  /\ adding \in [Handler -> Tx \cup {NoTx}]
  /\ listener \in ListenerState /\ new \in Tx \cup {NoTx}
  /\ check \in [Check -> CheckState]
  /\ current \in [Check -> Tx \cup {NoTx}]
  /\ visited \in [Check -> SUBSET Tx] /\ stayed \in [Check -> SUBSET txs]
  /\ told \in [Subscriber -> SUBSET Event] /\ pending \in [Subscriber -> Nat]
  /\ missed \in [Subscriber -> SUBSET Tx]
  /\ stop \in StopState /\ process \in {"up", "race", "closed"}
  /\ closed \subseteq subs /\ closing \subseteq subs \ closed
  /\ Cardinality({c \in Check : check[c] = "write"}) + (IF listener = "write" THEN 1 ELSE 0) <= 1

(* When checkTxConfirmed returns, no transaction of its block is left that *)
(* was in the pool when it started, although it ranges over the map while  *)
(* the listener and other checks change it; one that was announced again   *)
(* meanwhile may be.                                                       *)
MinedLeaves == \A c \in Check : check[c] = "done" => block[c] \cap stayed[c] = {}

ToldUnconfirmed(s, t) == Unconfirmed(t) \in told[s] \/ (listener = "tell" /\ new = t)
ToldConfirmed(s, t) ==
  Confirmed(t) \in told[s] \/ \E c \in Check : check[c] = "tell" /\ current[c] = t

(* A subscriber hears of what happens in the pool once it has subscribed,  *)
(* whichever goroutines add and remove a transaction at the same time: no  *)
(* transaction comes in unannounced, none leaves without a confirmation,   *)
(* none is confirmed that was not announced.  The goroutine of an event    *)
(* may still have to be started.                                           *)
SubscribersTold ==
  \A s \in subs : \A t \in Tx \ missed[s] :
    /\ t \in txs => ToldUnconfirmed(s, t)
    /\ Unconfirmed(t) \in told[s] /\ t \notin txs => ToldConfirmed(s, t)
    /\ Confirmed(t) \in told[s] => ToldUnconfirmed(s, t)

(* A peer's handler does not stay in AddTx: neither a subscriber that does *)
(* not read nor Stop keeps it from handling the next message.              *)
AddTxReturns == \A p \in Handler : adding[p] # NoTx ~> adding[p] = NoTx \/ ~Up

=============================================================================
