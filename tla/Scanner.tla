------------------------------- MODULE Scanner -------------------------------
(***************************************************************************)
(* pkg/scanner: one goroutine, requestsManager, takes scan requests from a *)
(* queue that any goroutine may add to, follows the stored chain with them *)
(* and reports the transactions that match.                                *)
(*                                                                         *)
(* The chain is what ChainStore promises: heights 1..chainTip, growing.  A *)
(* block is its height; what a request matches in it is a number of        *)
(* transactions.  A filter is stored some time after its header, if at all *)
(* (FiltersOfStored of NodeSync), and may match by mistake; a block may be *)
(* unknown to the block service.                                           *)
(*                                                                         *)
(* Start is called once; whoever called it reads the channel of reports.   *)
(***************************************************************************)
EXTENDS Integers, SequencesExt

CONSTANTS
  Request,     \* the requests clients make: ClientID and Item together
  Persistent,  \* those made with WithPersistentWatch
  firstBlock,  \* firstBlock[r]: the StartHeight r is made with
  MaxHeight,   \* bound: the height the chain grows to
  MaxErrors,   \* bound: the errors of the databases and the block service
  hits         \* hits[r][h]: how many transactions of block h match r

ASSUME ScannerAssumption ==
  /\ Persistent \subseteq Request
  /\ firstBlock \in [Request -> 0..(MaxHeight + 1)]
  /\ MaxHeight \in Nat /\ MaxErrors \in Nat
  /\ hits \in [Request -> [0..MaxHeight -> Nat]]
  /\ \A r \in Request : hits[r][0] = 0   \* no filter of genesis is ever stored

(* A ScanRequest: the same r may be queued several times.                  *)
Scan == [id : Request, start : 0..(MaxHeight + 1)]

(* What the loops of the scanner make of a slice of requests: each of them *)
(* n times over, or those that belong to S alone, in the order of q.       *)
Repeat(q, n) == FlattenSeq([i \in 1..Len(q) |-> [j \in 1..n[q[i]] |-> q[i]]])
Select(q, S) == Repeat(q, [x \in Scan |-> IF x \in S THEN 1 ELSE 0])

VARIABLES
  chainTip,  \* the height of headerDB.ChainTip(), 0 for ErrNoBlocksHeaders
  filters,   \* the heights whose filter is in filterDB
  made,      \* the requests passed to Watch by a client
  queue,     \* requestsQueue.requests
  stopping,  \* Stop has put its token in quitCh and nobody has taken it
  manager,   \* where requestsManager is
  batch,     \* nextBatch
  at,        \* nextHeight
  tip,       \* the chain tip read last
  out,       \* the requests of the reports still to send, in order
  reported,  \* reported[r][h]: the reports sent for r and block h
  skipped,   \* history: the <<r, h>> passed over with h's filter or block missing
  errors,    \* the number of errors so far
  dropped    \* history: the requests an error has taken out of a batch

errorVars == <<errors, dropped>>
scanVars == <<manager, batch, at, tip, out, reported, skipped, errorVars>>
vars == <<chainTip, filters, made, queue, stopping, scanVars>>

(* check   about to call isEmpty, holding cond.L                           *)
(* park    isEmpty returned true, about to enter cond.Wait                 *)
(* wait    in cond.Wait                                                    *)
(* woken   signalled, about to look at quitCh                              *)
(* peek    the queue is not empty                                          *)
(* tip     in requestWorker, about to read the chain tip                   *)
(* scan    at the head of its loop, with the tip it has read               *)
(* match   about to look for the items of the batch in block at            *)
(* emit    sending a report                                                *)
(* rewatch about to queue the request of that report again                 *)
(* off     returned                                                        *)
ManagerState ==
  {"check", "park", "wait", "woken", "peek", "tip", "scan", "match", "emit", "rewatch", "off"}

Init ==
  /\ chainTip = 0 /\ filters = {}
  /\ made = {} /\ queue = <<>> /\ stopping = FALSE
  /\ manager = "check"
  /\ batch = <<>> /\ at = 0 /\ tip = 0 /\ out = <<>>
  /\ reported = [r \in Request |-> [h \in 0..MaxHeight |-> 0]]
  /\ skipped = {}
  /\ errors = 0 /\ dropped = {}

-----------------------------------------------------------------------------
(* The repositories, fed by pkg/node.                                      *)

ExtendChain ==
  /\ chainTip < MaxHeight
  /\ chainTip' = chainTip + 1
  /\ UNCHANGED <<filters, made, queue, stopping, scanVars>>

PutFilter(h) ==
  /\ h \in 1..chainTip /\ h \notin filters
  /\ filters' = filters \cup {h}
  /\ UNCHANGED <<chainTip, made, queue, stopping, scanVars>>

-----------------------------------------------------------------------------
(* The queue and its clients.                                              *)

EnqueueFirst(q, x) == <<x>> \o q   \* a mutant of Enqueue

(* scanRequestQueue.enqueue: its Signal reaches a waiting manager only.    *)
Enqueue(q, x) == Append(q, x)
Signalled == IF manager = "wait" THEN "woken" ELSE manager

(* Watch, called by a client                                               *)
Watch(r) ==
  /\ r \notin made
  /\ made' = made \cup {r}
  /\ queue' = Enqueue(queue, [id |-> r, start |-> firstBlock[r]])
  /\ manager' = Signalled
  /\ UNCHANGED <<chainTip, filters, stopping, batch, at, tip, out, reported, skipped, errorVars>>

(* quitCh has room for one token; nobody is signalled.                     *)
Stop ==
  /\ manager # "off" /\ ~stopping
  /\ stopping' = TRUE
  /\ UNCHANGED <<chainTip, filters, made, queue, scanVars>>

-----------------------------------------------------------------------------
(* requestsManager                                                         *)

(* isEmpty takes the queue's lock, which enqueue holds too; cond.L, which  *)
(* the manager holds, is not taken by enqueue.                             *)
CheckQueue ==
  /\ manager = "check"
  /\ manager' = IF queue = <<>> THEN "park" ELSE "peek"
  /\ UNCHANGED <<chainTip, filters, made, queue, stopping, batch, at, tip, out, reported, skipped, errorVars>>

Wait ==
  /\ manager = "park"
  /\ manager' = "wait"
  /\ UNCHANGED <<chainTip, filters, made, queue, stopping, batch, at, tip, out, reported, skipped, errorVars>>

QuitLater == manager' = "check" /\ stopping' = FALSE   \* a mutant of Quit

(* The select on quitCh that follows a wake-up and each requestWorker      *)
Quit == /\ manager' = IF stopping THEN "off" ELSE "check"
        /\ stopping' = FALSE

WakeUp ==
  /\ manager = "woken"
  /\ Quit
  /\ UNCHANGED <<chainTip, filters, made, queue, batch, at, tip, out, reported, skipped, errorVars>>

(* peek: requestWorker starts from the StartHeight of the first request.   *)
StartWorker ==
  /\ manager = "peek"
  /\ at' = Head(queue).start
  /\ manager' = "tip"
  /\ UNCHANGED <<chainTip, filters, made, queue, stopping, batch, tip, out, reported, skipped, errorVars>>

(* ChainTip, before the loop and at the end of each turn                   *)
ReadTip ==
  /\ manager = "tip" /\ chainTip > 0
  /\ tip' = chainTip
  /\ manager' = "scan"
  /\ UNCHANGED <<chainTip, filters, made, queue, stopping, batch, at, out, reported, skipped, errorVars>>

(* The chain tip, the hash of block at, its filter or the block cannot be  *)
(* had: requestWorker returns the error and its batch is dropped.  It does *)
(* so, too, while there is no chain tip yet.                               *)
WorkerFails ==
  /\ \/ manager = "tip" /\ chainTip = 0 /\ UNCHANGED errors
     \/ manager \in {"tip", "match"} /\ errors < MaxErrors /\ errors' = errors + 1
  /\ dropped' = dropped \cup {batch[i].id : i \in 1..Len(batch)}
  /\ batch' = <<>>
  /\ Quit
  /\ UNCHANGED <<chainTip, filters, made, queue, at, tip, out, reported, skipped>>

StartsLater(x, h) == x.start >= h   \* a mutant of StartsAt

StartsAt(x, h) == x.start = h

(* dequeueAtHeight(nextHeight), whose result joins the batch               *)
DequeueAtHeight ==
  LET selected == {x \in Scan : StartsAt(x, at)} IN
  /\ manager = "scan" /\ at <= tip
  /\ batch' = batch \o Select(queue, selected)
  /\ queue' = Select(queue, Scan \ selected)
  /\ manager' = "match"
  /\ UNCHANGED <<chainTip, filters, made, stopping, at, tip, out, reported, skipped, errorVars>>

(* On to the next height, against the chain tip read again                 *)
Advance == at' = at + 1 /\ manager' = "tip"

MatchingIn(b) == {i \in 1..Len(b) : hits[b[i].id][at] > 0}

(* The filter is not stored (ErrFilterNotFound), or matches and the block  *)
(* service does not have the block (ErrorBlockNotFound): block at is       *)
(* passed over with the whole batch.                                       *)
SkipBlock ==
  /\ manager = "match"
  /\ skipped' = skipped \cup {<<batch[i].id, at>> : i \in MatchingIn(batch)}
  /\ Advance
  /\ UNCHANGED <<chainTip, filters, made, queue, stopping, tip, batch, out, reported, errorVars>>

(* a mutant of Unmatched: every request of the batch is taken out          *)
UnmatchedNone(b) == <<>>

(* extractBlockMatches: remainRequests, and the requests of the reports    *)
Unmatched(b) == Select(b, {x \in Scan : hits[x.id][at] = 0})
Matches(b) == Repeat(b, [x \in Scan |-> hits[x.id][at]])

ScanBlock ==
  /\ manager = "match" /\ at \in filters
  /\ batch' = Unmatched(batch)
  /\ out' = Matches(batch)
  /\ IF MatchingIn(batch) = {} THEN Advance ELSE manager' = "emit" /\ UNCHANGED at
  /\ UNCHANGED <<chainTip, filters, made, queue, stopping, tip, reported, skipped, errorVars>>

(* a mutant of Emitted: the first report ends the block                    *)
EmittedOnce == out' = Tail(out) /\ Advance

(* After a report the next one is sent, after the last the scan goes on.   *)
Emitted == /\ out' = Tail(out)
           /\ IF Len(out) > 1 THEN manager' = "emit" /\ UNCHANGED at ELSE Advance

(* reportsChan <- report, received by the caller of Start                  *)
SendReport ==
  LET r == Head(out).id IN
  /\ manager = "emit"
  /\ reported' = [reported EXCEPT ![r][at] = @ + 1]
  /\ IF r \in Persistent THEN manager' = "rewatch" /\ UNCHANGED <<at, out>> ELSE Emitted
  /\ UNCHANGED <<chainTip, filters, made, queue, stopping, tip, batch, skipped, errorVars>>

(* mutants of NextStart: the block is scanned again, the next one is not   *)
NextStartSame == at
NextStartSkipping == at + 2

(* report.BlockHeight + 1                                                  *)
NextStart == at + 1

(* The persistent request of a report is queued again, once per report.    *)
Rewatch ==
  /\ manager = "rewatch"
  /\ queue' = Enqueue(queue, [id |-> Head(out).id, start |-> NextStart])
  /\ Emitted
  /\ UNCHANGED <<chainTip, filters, made, stopping, tip, batch, reported, skipped, errorVars>>

(* Beyond the tip the requests that are left are queued again, one by one, *)
(* each with the StartHeight it came with.                                 *)
Requeue ==
  /\ manager = "scan" /\ at > tip /\ batch # <<>>
  /\ queue' = Enqueue(queue, Head(batch))
  /\ batch' = Tail(batch)
  /\ UNCHANGED <<chainTip, filters, made, stopping, manager, at, tip, out, reported, skipped, errorVars>>

WorkerReturns ==
  /\ manager = "scan" /\ at > tip /\ batch = <<>>
  /\ Quit
  /\ UNCHANGED <<chainTip, filters, made, queue, batch, at, tip, out, reported, skipped, errorVars>>

Manager ==
  \/ CheckQueue
  \/ Wait
  \/ WakeUp
  \/ StartWorker
  \/ ReadTip
  \/ WorkerFails
  \/ DequeueAtHeight
  \/ SkipBlock
  \/ ScanBlock
  \/ SendReport
  \/ Rewatch
  \/ Requeue
  \/ WorkerReturns

Next ==
  \/ ExtendChain
  \/ \E h \in 1..MaxHeight : PutFilter(h)
  \/ \E r \in Request : Watch(r)
  \/ Stop
  \/ Manager

(* The goroutine runs whenever it can; nothing is assumed of its clients,  *)
(* of the chain or of the filters.                                         *)
Spec == Init /\ [][Next]_vars /\ WF_vars(Manager)

-----------------------------------------------------------------------------
(* Properties                                                              *)

(* Every variable has its type; the manager holds requests or reports only *)
(* where its code does.                                                    *)
TypeOK ==
  /\ chainTip \in 0..MaxHeight /\ filters \subseteq 1..chainTip
  /\ made \in SUBSET Request
  /\ queue \in Seq(Scan) /\ batch \in Seq(Scan) /\ out \in Seq(Scan)
  /\ stopping \in BOOLEAN
  /\ manager \in ManagerState
  /\ at \in 0..(MaxHeight + 1) /\ tip \in 0..chainTip
  /\ reported \in [Request -> [0..MaxHeight -> Nat]]
  /\ skipped \in SUBSET (Request \X (0..MaxHeight))
  /\ errors \in 0..MaxErrors /\ dropped \in SUBSET made
  /\ (out # <<>>) <=> manager \in {"emit", "rewatch"}
  /\ batch # <<>> => manager \in {"tip", "scan", "match", "emit", "rewatch"}
  /\ manager = "peek" => queue # <<>>

InQueue(r) == \E i \in 1..Len(queue) : queue[i].id = r
InBatch(r) == \E i \in 1..Len(batch) : batch[i].id = r
InOut(r) == \E i \in 1..Len(out) : out[i].id = r

(* No request is lost between the queue, the batch, the reports and the    *)
(* queue again: a persistent one is always somewhere, another one until    *)
(* its report was sent (dequeueAtHeight, extractBlockMatches, the requeue  *)
(* of requestWorker).  Only an error takes one away, with its batch.       *)
NeverForgotten ==
  \A r \in made :
    \/ InQueue(r) \/ InBatch(r) \/ InOut(r) \/ r \in dropped
    \/ r \notin Persistent /\ \E h \in 0..MaxHeight : reported[r][h] > 0

Covered(r, h) == hits[r][h] > 0 => reported[r][h] > 0 \/ <<r, h>> \in skipped

(* The watch of a request has passed no matching block without reporting   *)
(* it, unless its filter or the block could not be had at the time: what   *)
(* lies before the start of a queued request and before the height of the  *)
(* scan is covered, however often requests were queued again.              *)
NoMatchMissed ==
  /\ \A i \in 1..Len(queue) : \A h \in firstBlock[queue[i].id]..(queue[i].start - 1) :
       Covered(queue[i].id, h)
  /\ \A i \in 1..Len(batch) : \A h \in firstBlock[batch[i].id]..(at - 1) :
       Covered(batch[i].id, h)

(* What Watches speaks of: the watches are the requests in the queue and   *)
(* in the batch and the one about to be queued again; of the block being   *)
(* scanned the reports in out are due.                                     *)
Count(q, x) == Cardinality({i \in 1..Len(q) : q[i] = x})
WatchesNow ==
  [x \in Scan |-> Count(queue, x) + Count(batch, x) +
     IF manager = "rewatch" /\ x = [id |-> Head(out).id, start |-> at + 1] THEN 1 ELSE 0]
DueNow ==
  [x \in Scan |-> [h \in 0..MaxHeight |->
     IF h = at THEN Count(IF manager = "rewatch" THEN Tail(out) ELSE out, x) ELSE 0]]

Promise == INSTANCE Watches WITH watches <- WatchesNow, due <- DueNow

(* The scanner keeps the promise of Watches: no turn of the queue, of the  *)
(* batch or of the requeue makes a watch, ends one without its reports, or *)
(* moves one to another height; only an error loses watches.               *)
PromiseKept == Promise!Spec

(* Although blocks are scanned again and again, with requests that come    *)
(* and go, a block is reported no more often than the matches so far       *)
(* account for: once, for a request with at most one match per block.  A   *)
(* request that is not persistent is reported for one block only.          *)
NoExtraReports == Promise!Accounted /\ Promise!OneBlock

(* A request that waits in the queue for a block that is there             *)
Waiting(r) ==
  chainTip > 0 /\ \E i \in 1..Len(queue) : queue[i].id = r /\ queue[i].start <= chainTip

Stopped == stopping \/ manager = "off"

(* A waiting request is scanned, unless the manager sleeps or the first    *)
(* request of the queue is for a block that is not there yet: those are    *)
(* the only two ways in which a request is left lying (requestsManager).   *)
QueueServed ==
  \A r \in Request :
    Waiting(r) ~> \/ InBatch(r) \/ Stopped
                  \/ manager = "wait"
                  \/ queue # <<>> /\ Head(queue).start > chainTip

(* "requestsManager is responsible to resolve the requests that are        *)
(* waiting for in the queue": a waiting request is scanned (scanner.go).   *)
WaitingIsServed == \A r \in Request : Waiting(r) ~> (InBatch(r) \/ Stopped)

(* "Stop the scanner": after Stop the goroutine ends, in the middle of any *)
(* scan or error, unless it sleeps: Stop wakes nobody (scanner.go:102).    *)
StopEnds == stopping ~> (manager \in {"off", "wait"})

=============================================================================
