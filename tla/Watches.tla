------------------------------- MODULE Watches -------------------------------
(***************************************************************************)
(* What pkg/scanner promises to whoever calls Watch, without the queue,    *)
(* the batch and the goroutine that work it: a request is a watch that has *)
(* come to some height; a block at or above it that matches ends the watch *)
(* and is reported, once for each transaction that matches, and a          *)
(* persistent request goes on from the next block, once for each report.   *)
(*                                                                         *)
(* What it does not promise: that every matching block is reported (its    *)
(* filter may come too late), nor that an error leaves a watch alone.      *)
(***************************************************************************)
EXTENDS Naturals

CONSTANTS
  Request,     \* the requests clients make
  Persistent,  \* those made with WithPersistentWatch
  firstBlock,  \* firstBlock[r]: the StartHeight r is made with
  MaxHeight,   \* bound: the height the chain grows to
  hits         \* hits[r][h]: how many transactions of block h match r

Block == 0..MaxHeight
Height == 0..(MaxHeight + 1)

(* What the constants must be; ScannerAssumption says so of the scanner's. *)
Parameters ==
  /\ MaxHeight \in Nat
  /\ Persistent \subseteq Request
  /\ firstBlock \in [Request -> Height]
  /\ hits \in [Request -> [Block -> Nat]]

(* A watch of r that has come to a height                                  *)
WatchOf == [id : Request, start : Height]

VARIABLES
  made,     \* the requests passed to Watch by a client
  watches,  \* watches[x]: how many watches there are like x
  due,      \* due[x][h]: the reports of block h still to send for x
  reported  \* reported[r][h]: the reports sent for r and block h

vars == <<made, watches, due, reported>>

Init ==
  /\ made = {}
  /\ watches = [x \in WatchOf |-> 0]
  /\ due = [x \in WatchOf |-> [h \in Block |-> 0]]
  /\ reported = [r \in Request |-> [h \in Block |-> 0]]

Watch(r) ==
  /\ r \notin made
  /\ made' = made \cup {r}
  /\ watches' = [watches EXCEPT ![[id |-> r, start |-> firstBlock[r]]] = @ + 1]
  /\ UNCHANGED <<due, reported>>

NothingDue == \A x \in WatchOf : \A h \in Block : due[x][h] = 0

(* Block h is looked at for some of the watches that have come to it; it   *)
(* ends those that match.                                                  *)
Match(h) ==
  /\ NothingDue
  /\ watches' \in [WatchOf -> Nat]
  /\ \A x \in WatchOf :
       /\ watches'[x] <= watches[x]
       /\ watches'[x] < watches[x] => x.start <= h /\ hits[x.id][h] > 0
  /\ due' = [x \in WatchOf |->
               [due[x] EXCEPT ![h] = hits[x.id][h] * (watches[x] - watches'[x])]]
  /\ UNCHANGED <<made, reported>>

(* A report is sent; a persistent request goes on behind its block.        *)
Report(x, h) ==
  /\ due[x][h] > 0
  /\ due' = [due EXCEPT ![x][h] = @ - 1]
  /\ reported' = [reported EXCEPT ![x.id][h] = @ + 1]
  /\ watches' = IF x.id \in Persistent
                THEN [watches EXCEPT ![[id |-> x.id, start |-> h + 1]] = @ + 1]
                ELSE watches
  /\ UNCHANGED made

(* An error takes watches away.                                            *)
Lose ==
  /\ NothingDue
  /\ watches' \in [WatchOf -> Nat]
  /\ \A x \in WatchOf : watches'[x] <= watches[x]
  /\ UNCHANGED <<made, due, reported>>

Next ==
  \/ \E r \in Request : Watch(r)
  \/ \E h \in Block : Match(h)
  \/ \E x \in WatchOf, h \in Block : Report(x, h)
  \/ Lose

Spec == Init /\ [][Next]_vars

-----------------------------------------------------------------------------
(* What follows from the promise.                                          *)

(* What a watch of r that has come to s can be at block h: each report of  *)
(* a persistent request makes a watch of it, so that n matches in a block  *)
(* make n watches of one.                                                  *)
Growth(r, s) ==
  LET f[h \in Block] ==
        (IF h = 0 THEN 1 ELSE f[h - 1]) * (IF h >= s /\ hits[r][h] > 0 THEN hits[r][h] ELSE 1)
  IN f

(* Although blocks are looked at again and again, for watches that come    *)
(* and go, a block is reported no more often than the matches from the     *)
(* StartHeight of its request up to it account for.                        *)
Accounted ==
  \A r \in Request : \A h \in Block : reported[r][h] <= Growth(r, firstBlock[r])[h]

(* Nothing below the StartHeight a request was made with is reported.      *)
NotBeforeStart ==
  \A r \in Request : \A h \in Block : reported[r][h] > 0 => h >= firstBlock[r]

(* A request that is not persistent is reported for one block only.        *)
OneBlock ==
  \A r \in Request \ Persistent : \A g, h \in Block :
    reported[r][g] > 0 /\ reported[r][h] > 0 => g = h

(* A request no block has two matches for is reported at most once for     *)
(* each block, however often blocks are scanned again.                     *)
OncePerBlock ==
  \A r \in Request :
    (\A h \in Block : hits[r][h] <= 1) => \A h \in Block : reported[r][h] <= 1

=============================================================================
