---------------------------- MODULE WatchesProofs ----------------------------
(***************************************************************************)
(* What follows from the promise of pkg/scanner for any requests, blocks   *)
(* and heights, in two arguments.                                          *)
(*                                                                         *)
(* The first follows the one watch of a request: it is queued, or its      *)
(* reports are due, never both, and what has been reported lies below it.  *)
(* It holds for the requests that cannot multiply: those that are not      *)
(* persistent, and those no block has two matches for.                     *)
(*                                                                         *)
(* The second holds for all.  For each block a request has a budget, its   *)
(* Growth up to there.  Every watch and every report due is worth what it  *)
(* can still come to at that block, and no step adds to the sum of what    *)
(* was reported and what the rest is worth.                                *)
(***************************************************************************)
EXTENDS Watches, TLAPS, WellFoundedInduction

Types ==
  /\ made \subseteq Request
  /\ watches \in [WatchOf -> Nat]
  /\ due \in [WatchOf -> [Block -> Nat]]
  /\ reported \in [Request -> [Block -> Nat]]

(* Nothing is watched or reported for a request that was not made.         *)
OnlyMade ==
  /\ \A x \in WatchOf : x.id \notin made =>
       watches[x] = 0 /\ \A h \in Block : due[x][h] = 0
  /\ \A r \in Request : r \notin made => \A h \in Block : reported[r][h] = 0

(* A watch never lies below the StartHeight of its request.                *)
FromStart ==
  /\ \A x \in WatchOf : watches[x] > 0 => x.start >= firstBlock[x.id]
  /\ \A x \in WatchOf : \A h \in Block :
       due[x][h] > 0 => firstBlock[x.id] <= x.start /\ x.start <= h
  /\ NotBeforeStart

Single(r) == \A h \in Block : hits[r][h] <= 1
Steady(r) == r \notin Persistent \/ Single(r)

(* A request that cannot multiply has one watch, or reports due.           *)
OneWatch ==
  /\ \A x \in WatchOf : Steady(x.id) => watches[x] <= 1
  /\ \A x, y \in WatchOf : Steady(x.id) /\ x.id = y.id /\ watches[x] > 0 =>
       /\ watches[y] > 0 => x = y
       /\ \A h \in Block : due[y][h] = 0
  /\ \A x, y \in WatchOf : \A g, h \in Block :
       Steady(x.id) /\ x.id = y.id /\ due[x][g] > 0 /\ due[y][h] > 0 => x = y /\ g = h

(* One that is not persistent has reports of the block that ended it.      *)
Ended ==
  /\ \A x \in WatchOf : \A h \in Block :
       x.id \notin Persistent /\ watches[x] > 0 => reported[x.id][h] = 0
  /\ \A x \in WatchOf : \A g, h \in Block :
       x.id \notin Persistent /\ due[x][g] > 0 /\ reported[x.id][h] > 0 => g = h
  /\ OneBlock

(* What was reported of one without two matches lies below its watch.      *)
Below ==
  /\ \A x \in WatchOf : \A h \in Block :
       Single(x.id) /\ watches[x] > 0 /\ reported[x.id][h] > 0 => h < x.start
  /\ \A x \in WatchOf : \A g, h \in Block :
       Single(x.id) /\ due[x][g] > 0 => due[x][g] = 1 /\ (reported[x.id][h] > 0 => h < g)
  /\ OncePerBlock

IInv == Types /\ OnlyMade /\ FromStart /\ OneWatch /\ Ended /\ Below

-----------------------------------------------------------------------------

(* Nothing is watched and nothing reported at first.                       *)
LEMMA InitInv == ASSUME Parameters PROVE Init => IInv
BY DEF Parameters, Init, IInv, Types, OnlyMade, FromStart, NotBeforeStart, OneWatch, Ended, OneBlock,
       Below, OncePerBlock, Block, Height, WatchOf

(* A request is made.                                                      *)
LEMMA WatchStep ==
  ASSUME Parameters, IInv, NEW r \in Request, Watch(r) PROVE IInv'
<1> DEFINE new == [id |-> r, start |-> firstBlock[r]]
<1>1. /\ new \in WatchOf /\ new.id = r /\ new.start = firstBlock[r] /\ new.start \in Nat
      /\ r \notin made /\ made' = made \cup {r}
      /\ due' = due /\ reported' = reported
      /\ watches' = [watches EXCEPT ![new] = @ + 1]
  BY DEF Watch, WatchOf, Parameters, Height
<1> HIDE DEF new
<1>2. /\ watches[new] = 0 /\ watches' \in [WatchOf -> Nat] /\ watches'[new] = 1
      /\ \A x \in WatchOf : x # new => watches'[x] = watches[x]
      /\ \A x \in WatchOf : x.id = r => watches[x] = 0 /\ \A h \in Block : due[x][h] = 0
      /\ \A h \in Block : reported[r][h] = 0
  BY <1>1 DEF IInv, Types, OnlyMade
<1>3. Types'
  BY <1>1, <1>2 DEF IInv, Types
<1>4. OnlyMade'
  BY <1>1, <1>2 DEF IInv, OnlyMade
<1>5. FromStart'
  BY <1>1, <1>2 DEF IInv, FromStart, NotBeforeStart
<1>6. OneWatch'
  <2>1. ASSUME NEW x \in WatchOf, Steady(x.id) PROVE watches'[x] <= 1
    BY <1>2, <2>1 DEF IInv, OneWatch
  <2>2. ASSUME NEW x \in WatchOf, NEW y \in WatchOf, Steady(x.id), x.id = y.id, watches'[x] > 0
        PROVE  (watches'[y] > 0 => x = y) /\ \A h \in Block : due[y][h] = 0
    <3>1. CASE x.id = r
      <4>1. x = new /\ y.id = r
        BY <1>2, <2>2, <3>1
      <4> QED BY <1>2, <4>1
    <3>2. CASE x.id # r
      BY <1>1, <1>2, <2>2, <3>2 DEF IInv, OneWatch
    <3> QED BY <3>1, <3>2
  <2> QED BY <1>1, <2>1, <2>2 DEF IInv, OneWatch, Steady, Single
<1>7. Ended'
  BY <1>1, <1>2 DEF IInv, Ended, OneBlock
<1>8. Below'
  BY <1>1, <1>2 DEF IInv, Below, OncePerBlock, Single
<1> QED BY <1>3, <1>4, <1>5, <1>6, <1>7, <1>8 DEF IInv

(* What Match and Lose make of the watches, and Match of the reports.      *)
LEMMA Product ==
  ASSUME NEW a \in Nat, NEW b \in Nat
  PROVE  /\ a * b \in Nat
         /\ b = 0 => a * b = 0
         /\ b = 1 => a * b = a
OBVIOUS

(* A block is matched against the requests that watch it.                  *)
LEMMA MatchStep ==
  ASSUME Parameters, IInv, NEW b \in Block, Match(b) PROVE IInv'
<1>1. /\ watches \in [WatchOf -> Nat] /\ watches' \in [WatchOf -> Nat]
      /\ due \in [WatchOf -> [Block -> Nat]]
      /\ b \in Nat /\ made' = made /\ reported' = reported
      /\ \A x \in WatchOf : \A h \in Block : due[x][h] = 0
      /\ \A x \in WatchOf : x.id \in Request /\ x.start \in Nat
  <2>1. b \in Nat /\ \A x \in WatchOf : x.id \in Request /\ x.start \in Nat
    BY DEF Block, Parameters, WatchOf, Height
  <2>2. watches' \in [WatchOf -> Nat] /\ UNCHANGED <<made, reported>>
    BY DEF Match
  <2> QED BY <2>1, <2>2 DEF Match, NothingDue, IInv, Types
<1>2. ASSUME NEW x \in WatchOf
      PROVE  /\ watches'[x] \in Nat /\ watches[x] \in Nat /\ watches'[x] <= watches[x]
             /\ hits[x.id][b] \in Nat
             /\ watches'[x] < watches[x] => x.start <= b
  BY <1>1 DEF Match, Parameters, WatchOf
<1>d. \A x \in WatchOf :
        due'[x] = [due[x] EXCEPT ![b] = hits[x.id][b] * (watches[x] - watches'[x])]
  BY DEF Match
<1>3. ASSUME NEW x \in WatchOf
      PROVE  /\ due'[x] \in [Block -> Nat]
             /\ \A h \in Block : h # b => due'[x][h] = 0
             /\ watches'[x] = watches[x] => due'[x][b] = 0
             /\ watches'[x] = 0 /\ watches[x] = 1 => due'[x][b] = hits[x.id][b]
  <2> DEFINE ended == watches[x] - watches'[x]
             n == hits[x.id][b] * ended
  <2>1. ended \in Nat /\ (watches'[x] = watches[x] => ended = 0)
        /\ (watches'[x] = 0 /\ watches[x] = 1 => ended = 1)
    BY <1>2
  <2>2. hits[x.id][b] \in Nat /\ due'[x] = [due[x] EXCEPT ![b] = n] /\ due[x] \in [Block -> Nat]
    BY <1>1, <1>2, <1>d
  <2> HIDE DEF ended
  <2>3. n \in Nat /\ (ended = 0 => n = 0) /\ (ended = 1 => n = hits[x.id][b])
    BY <2>1, <2>2, Product
  <2> HIDE DEF n
  <2> QED BY <1>1, <2>1, <2>2, <2>3
<1>4. due' \in [WatchOf -> [Block -> Nat]]
  <2>1. DOMAIN due' = WatchOf /\ due' = [x \in WatchOf |-> due'[x]]
    BY DEF Match
  <2> QED BY <1>3, <2>1
<1>5. ASSUME NEW x \in WatchOf, NEW h \in Block, due'[x][h] > 0
      PROVE  h = b /\ watches'[x] < watches[x] /\ x.start <= b
  BY <1>2, <1>3, <1>5
<1>6. ASSUME NEW x \in WatchOf, Steady(x.id), NEW h \in Block, due'[x][h] > 0
      PROVE  watches[x] = 1 /\ watches'[x] = 0 /\ due'[x][h] = hits[x.id][b]
  <2>1. h = b /\ watches'[x] < watches[x] /\ watches[x] <= 1
    BY <1>5, <1>6 DEF IInv, OneWatch
  <2> QED BY <1>2, <1>3, <2>1
<1>7. Types'
  BY <1>1, <1>4 DEF IInv, Types
<1>8. OnlyMade'
  <2>1. ASSUME NEW x \in WatchOf, x.id \notin made
        PROVE  watches'[x] = 0 /\ \A h \in Block : due'[x][h] = 0
    <3>1. watches[x] = 0 /\ watches'[x] = 0
      BY <1>2, <2>1 DEF IInv, OnlyMade
    <3> QED BY <1>3, <3>1
  <2> QED BY <1>1, <2>1 DEF IInv, OnlyMade
<1>9. FromStart'
  <2>1. ASSUME NEW x \in WatchOf, watches'[x] > 0 PROVE x.start >= firstBlock[x.id]
    BY <1>2, <2>1 DEF IInv, FromStart
  <2>2. ASSUME NEW x \in WatchOf, NEW h \in Block, due'[x][h] > 0
        PROVE  firstBlock[x.id] <= x.start /\ x.start <= h
    <3>1. watches[x] > 0 /\ x.start <= h
      BY <1>2, <1>5, <2>2
    <3> QED BY <1>1, <3>1 DEF IInv, FromStart, Parameters, Height
  <2> QED BY <1>1, <2>1, <2>2 DEF IInv, FromStart, NotBeforeStart
<1>10. OneWatch'
  <2>1. ASSUME NEW x \in WatchOf, Steady(x.id) PROVE watches'[x] <= 1
    BY <1>2, <2>1 DEF IInv, OneWatch
  <2>2. ASSUME NEW x \in WatchOf, NEW y \in WatchOf, Steady(x.id), x.id = y.id, watches'[x] > 0
        PROVE  (watches'[y] > 0 => x = y) /\ \A h \in Block : due'[y][h] = 0
    <3>1. watches[x] > 0 /\ (watches'[y] > 0 => watches[y] > 0)
      BY <1>2, <2>2
    <3>2. watches[y] > 0 => x = y
      BY <2>2, <3>1 DEF IInv, OneWatch
    <3>3. ASSUME NEW h \in Block, due'[y][h] > 0 PROVE FALSE
      <4>1. watches[y] = 1 /\ watches'[y] = 0
        BY <1>6, <2>2, <3>3
      <4> QED BY <2>2, <3>2, <4>1
    <3>4. \A h \in Block : due'[y][h] \in Nat
      BY <1>3
    <3> QED BY <3>1, <3>2, <3>3, <3>4
  <2>3. ASSUME NEW x \in WatchOf, NEW y \in WatchOf, NEW g \in Block, NEW h \in Block,
               Steady(x.id), x.id = y.id, due'[x][g] > 0, due'[y][h] > 0
        PROVE  x = y /\ g = h
    <3>1. watches[x] = 1 /\ watches[y] = 1 /\ g = b /\ h = b
      BY <1>5, <1>6, <2>3
    <3> QED BY <2>3, <3>1 DEF IInv, OneWatch
  <2> QED BY <2>1, <2>2, <2>3 DEF OneWatch, Steady, Single
<1>11. Ended'
  <2>1. ASSUME NEW x \in WatchOf, NEW h \in Block, x.id \notin Persistent, watches[x] > 0
        PROVE  reported[x.id][h] = 0
    BY <2>1 DEF IInv, Ended
  <2>2. ASSUME NEW x \in WatchOf, NEW g \in Block, due'[x][g] > 0 PROVE watches[x] > 0
    BY <1>2, <1>5, <2>2
  <2>3. ASSUME NEW x \in WatchOf, watches'[x] > 0 PROVE watches[x] > 0
    BY <1>2, <2>3
  <2> QED BY <1>1, <2>1, <2>2, <2>3 DEF IInv, Ended, OneBlock
<1>12. Below'
  <2>1. ASSUME NEW x \in WatchOf, NEW h \in Block, Single(x.id), watches[x] > 0, reported[x.id][h] > 0
        PROVE  h < x.start
    BY <2>1 DEF IInv, Below
  <2>2. ASSUME NEW x \in WatchOf, NEW g \in Block, Single(x.id), due'[x][g] > 0
        PROVE  watches[x] > 0 /\ x.start <= g /\ due'[x][g] = 1
    <3>1. g = b /\ x.start <= b /\ watches[x] = 1 /\ due'[x][g] = hits[x.id][b]
      BY <1>5, <1>6, <2>2 DEF Steady
    <3>2. hits[x.id][b] <= 1 /\ hits[x.id][b] \in Nat /\ due'[x][g] > 0
      BY <1>2, <2>2 DEF Single
    <3> QED BY <3>1, <3>2
  <2>3. ASSUME NEW x \in WatchOf, watches'[x] > 0 PROVE watches[x] > 0
    BY <1>2, <2>3
  <2>4. ASSUME NEW x \in WatchOf, NEW g \in Block, NEW h \in Block,
               Single(x.id), due'[x][g] > 0, reported[x.id][h] > 0
        PROVE  h < g
    <3>1. h < x.start /\ x.start <= g
      BY <2>1, <2>2, <2>4
    <3> QED BY <1>1, <3>1 DEF Block, Parameters
  <2> QED BY <1>1, <2>1, <2>2, <2>3, <2>4 DEF IInv, Below, OncePerBlock, Single
<1> QED BY <1>7, <1>8, <1>9, <1>10, <1>11, <1>12 DEF IInv

(* Requests are lost to an error.                                          *)
LEMMA LoseStep == ASSUME Parameters, IInv, Lose PROVE IInv'
<1>1. /\ made' = made /\ due' = due /\ reported' = reported /\ watches' \in [WatchOf -> Nat]
      /\ \A x \in WatchOf : watches'[x] <= watches[x] /\ watches[x] \in Nat /\ watches'[x] \in Nat
  BY DEF Lose, IInv, Types
<1>2. \A x \in WatchOf : (watches'[x] > 0 => watches[x] > 0) /\ (watches[x] = 0 => watches'[x] = 0)
  BY <1>1
<1>3. Types' /\ OnlyMade' /\ FromStart'
  BY <1>1, <1>2 DEF IInv, Types, OnlyMade, FromStart, NotBeforeStart
<1>4. OneWatch'
  <2>1. \A x \in WatchOf : Steady(x.id) => watches'[x] <= 1
    BY <1>1 DEF IInv, OneWatch
  <2> QED BY <1>1, <1>2, <2>1 DEF IInv, OneWatch, Steady, Single
<1>5. Ended' /\ Below'
  BY <1>1, <1>2 DEF IInv, Ended, OneBlock, Below, OncePerBlock, Single
<1> QED BY <1>3, <1>4, <1>5 DEF IInv

(* A match is reported.                                                    *)
LEMMA ReportStep ==
  ASSUME Parameters, IInv, NEW x \in WatchOf, NEW b \in Block, Report(x, b) PROVE IInv'
<1> DEFINE r == x.id
           next == [id |-> r, start |-> b + 1]
<1>1. /\ next \in WatchOf /\ next.id = r /\ next.start = b + 1 /\ b \in Nat /\ b + 1 \in Nat
      /\ r \in Request /\ x.start \in Nat
  BY DEF WatchOf, Block, Height, Parameters
<1>2. /\ made' = made /\ due[x][b] > 0
      /\ due' = [due EXCEPT ![x][b] = @ - 1]
      /\ reported' = [reported EXCEPT ![r][b] = @ + 1]
      /\ watches' = IF r \in Persistent THEN [watches EXCEPT ![next] = @ + 1] ELSE watches
  BY DEF Report
<1> HIDE DEF next
<1>3. /\ watches \in [WatchOf -> Nat] /\ due \in [WatchOf -> [Block -> Nat]]
      /\ reported \in [Request -> [Block -> Nat]]
      /\ \A y \in WatchOf : y.id \in Request /\ y.start \in Nat
      /\ \A h \in Block : h \in Nat
  <2>1. \A h \in Block : h \in Nat
    BY DEF Block, Parameters
  <2> QED BY <2>1 DEF IInv, Types, WatchOf, Height, Parameters
<1>4. /\ \A y \in WatchOf : \A h \in Block :
           due'[y][h] = IF y = x /\ h = b THEN due[x][b] - 1 ELSE due[y][h]
      /\ due[x][b] - 1 \in Nat
      /\ due' \in [WatchOf -> [Block -> Nat]]
  BY <1>2, <1>3
<1>5. /\ \A q \in Request : \A h \in Block :
           reported'[q][h] = IF q = r /\ h = b THEN reported[r][b] + 1 ELSE reported[q][h]
      /\ reported' \in [Request -> [Block -> Nat]]
  BY <1>1, <1>2, <1>3
<1>6. /\ watches' \in [WatchOf -> Nat]
      /\ \A y \in WatchOf :
           watches'[y] = IF r \in Persistent /\ y = next THEN watches[next] + 1 ELSE watches[y]
  BY <1>1, <1>2, <1>3
<1>7. \A y \in WatchOf : \A h \in Block : due'[y][h] > 0 => due[y][h] > 0
  BY <1>2, <1>3, <1>4
<1>8. r \in made /\ firstBlock[r] <= x.start /\ x.start <= b /\ firstBlock[r] \in Nat
  BY <1>1, <1>2 DEF IInv, OnlyMade, FromStart, Parameters, Height
<1>9. Types'
  BY <1>2, <1>4, <1>5, <1>6 DEF IInv, Types
<1>10. OnlyMade'
  BY <1>1, <1>2, <1>4, <1>5, <1>6, <1>8 DEF IInv, OnlyMade
<1>11. FromStart'
  <2>1. b >= firstBlock[r] /\ b + 1 >= firstBlock[r]
    BY <1>1, <1>8
  <2>2. NotBeforeStart'
    BY <1>5, <2>1 DEF IInv, FromStart, NotBeforeStart
  <2>3. ASSUME NEW y \in WatchOf, watches'[y] > 0 PROVE y.start >= firstBlock[y.id]
    BY <1>1, <1>6, <2>1, <2>3 DEF IInv, FromStart
  <2>4. \A y \in WatchOf : \A h \in Block :
          due'[y][h] > 0 => firstBlock[y.id] <= y.start /\ y.start <= h
    BY <1>7 DEF IInv, FromStart
  <2> QED BY <2>2, <2>3, <2>4 DEF FromStart
<1>12. Steady(r) => /\ \A y \in WatchOf : y.id = r => watches[y] = 0
                    /\ \A y \in WatchOf : \A h \in Block :
                         y.id = r /\ due[y][h] > 0 => y = x /\ h = b
  <2> SUFFICES ASSUME Steady(r) PROVE /\ \A y \in WatchOf : y.id = r => watches[y] = 0
                    /\ \A y \in WatchOf : \A h \in Block :
                         y.id = r /\ due[y][h] > 0 => y = x /\ h = b
    OBVIOUS
  <2>1. ASSUME NEW y \in WatchOf, y.id = r, watches[y] > 0 PROVE FALSE
    <3>1. due[x][b] = 0
      BY <2>1 DEF IInv, OneWatch
    <3> QED BY <1>2, <3>1
  <2>2. \A y \in WatchOf : watches[y] \in Nat
    BY <1>3
  <2> QED BY <1>2, <2>1, <2>2 DEF IInv, OneWatch
<1>13. Steady(r) /\ r \in Persistent =>
         \A y \in WatchOf : \A h \in Block : y.id = r => due'[y][h] = 0
  <2> SUFFICES ASSUME Steady(r), r \in Persistent, NEW y \in WatchOf, NEW h \in Block, y.id = r
               PROVE  due'[y][h] = 0
    OBVIOUS
  <2>1. due[x][b] = 1
    BY <1>2 DEF Steady, IInv, Below
  <2>2. due[y][h] \in Nat
    BY <1>3
  <2> QED BY <1>4, <1>12, <2>1, <2>2
<1>14. OneWatch'
  <2>1. ASSUME NEW y \in WatchOf, Steady(y.id) PROVE watches'[y] <= 1
    <3>1. CASE y = next
      BY <1>1, <1>6, <1>12, <2>1, <3>1
    <3>2. CASE y # next
      BY <1>6, <2>1, <3>2 DEF IInv, OneWatch
    <3> QED BY <3>1, <3>2
  <2>2. ASSUME NEW y \in WatchOf, NEW z \in WatchOf, Steady(y.id), y.id = z.id, watches'[y] > 0
        PROVE  (watches'[z] > 0 => y = z) /\ \A h \in Block : due'[z][h] = 0
    <3>1. CASE y.id = r
      <4>1. watches[y] = 0 /\ watches[z] = 0
        BY <1>12, <2>2, <3>1
      <4>2. r \in Persistent /\ y = next
        BY <1>6, <2>2, <4>1
      <4>3. watches'[z] > 0 => z = next
        BY <1>6, <4>1
      <4>4. \A h \in Block : due'[z][h] = 0
        BY <1>13, <2>2, <3>1, <4>2
      <4> QED BY <4>2, <4>3, <4>4
    <3>2. CASE y.id # r
      <4>1. watches'[y] = watches[y] /\ watches'[z] = watches[z]
        BY <1>1, <1>6, <2>2, <3>2
      <4>2. \A h \in Block : due'[z][h] = due[z][h]
        BY <1>4, <2>2, <3>2
      <4> QED BY <2>2, <4>1, <4>2 DEF IInv, OneWatch
    <3> QED BY <3>1, <3>2
  <2>3. \A y, z \in WatchOf : \A g, h \in Block :
          Steady(y.id) /\ y.id = z.id /\ due'[y][g] > 0 /\ due'[z][h] > 0 => y = z /\ g = h
    BY <1>7 DEF IInv, OneWatch
  <2> QED BY <2>1, <2>2, <2>3 DEF OneWatch, Steady, Single
<1>15. Ended'
  <2>1. ASSUME r \notin Persistent, NEW h \in Block, reported'[r][h] > 0 PROVE h = b
    <3>1. CASE h # b
      <4>1. reported[r][h] > 0
        BY <1>1, <1>5, <2>1, <3>1
      <4> QED BY <1>2, <2>1, <4>1 DEF IInv, Ended
    <3> QED BY <3>1
  <2>2. ASSUME NEW y \in WatchOf, y.id \notin Persistent, watches'[y] > 0, NEW h \in Block
        PROVE  reported'[y.id][h] = 0
    <3>1. watches[y] > 0
      BY <1>1, <1>6, <2>2
    <3>2. y.id # r
      BY <1>12, <2>2, <3>1 DEF Steady
    <3> QED BY <1>3, <1>5, <2>2, <3>1, <3>2 DEF IInv, Ended
  <2>3. ASSUME NEW y \in WatchOf, NEW g \in Block, NEW h \in Block,
               y.id \notin Persistent, due'[y][g] > 0, reported'[y.id][h] > 0
        PROVE  g = h
    <3>1. due[y][g] > 0
      BY <1>7, <2>3
    <3>2. CASE y.id = r
      BY <1>12, <2>1, <2>3, <3>1, <3>2 DEF Steady
    <3>3. CASE y.id # r
      BY <1>3, <1>5, <2>3, <3>1, <3>3 DEF IInv, Ended
    <3> QED BY <3>2, <3>3
  <2>4. OneBlock'
    <3> SUFFICES ASSUME NEW q \in Request \ Persistent, NEW g \in Block, NEW h \in Block,
                        reported'[q][g] > 0, reported'[q][h] > 0
                 PROVE  g = h
      BY DEF OneBlock
    <3>1. CASE q = r
      BY <2>1, <3>1
    <3>2. CASE q # r
      BY <1>5, <3>2 DEF IInv, Ended, OneBlock
    <3> QED BY <3>1, <3>2
  <2> QED BY <2>2, <2>3, <2>4 DEF Ended
<1>16. Below'
  <2>1. Single(r) => /\ due[x][b] = 1
                     /\ \A h \in Block : reported[r][h] > 0 => h < b
    BY <1>2 DEF IInv, Below
  <2>2. Single(r) => reported[r][b] = 0
    BY <1>1, <1>3, <2>1
  <2>3. ASSUME NEW y \in WatchOf, NEW h \in Block, Single(y.id), watches'[y] > 0,
               reported'[y.id][h] > 0
        PROVE  h < y.start
    <3>1. CASE y.id = r
      <4>1. watches[y] = 0
        BY <1>12, <2>3, <3>1 DEF Steady
      <4>2. y = next
        BY <1>6, <2>3, <4>1
      <4>3. h = b \/ reported[r][h] > 0
        BY <1>1, <1>5, <2>3, <3>1
      <4>4. h <= b
        BY <1>1, <1>3, <2>1, <2>3, <3>1, <4>3
      <4> QED BY <1>1, <1>3, <4>2, <4>4
    <3>2. CASE y.id # r
      BY <1>1, <1>3, <1>5, <1>6, <2>3, <3>2 DEF IInv, Below
    <3> QED BY <3>1, <3>2
  <2>4. ASSUME NEW y \in WatchOf, NEW g \in Block, NEW h \in Block, Single(y.id), due'[y][g] > 0
        PROVE  due'[y][g] = 1 /\ (reported'[y.id][h] > 0 => h < g)
    <3>1. due[y][g] > 0
      BY <1>7, <2>4
    <3>2. CASE y.id = r
      <4>1. y = x /\ g = b
        BY <1>12, <2>4, <3>1, <3>2 DEF Steady
      <4> QED BY <1>4, <2>1, <2>4, <3>2, <4>1
    <3>3. CASE y.id # r
      BY <1>3, <1>4, <1>5, <2>4, <3>1, <3>3 DEF IInv, Below
    <3> QED BY <3>2, <3>3
  <2>5. OncePerBlock'
    <3> SUFFICES ASSUME NEW q \in Request, Single(q), NEW h \in Block PROVE reported'[q][h] <= 1
      BY DEF OncePerBlock, Single
    <3>1. CASE q = r /\ h = b
      BY <1>1, <1>5, <2>2, <3>1
    <3>2. CASE ~(q = r /\ h = b)
      BY <1>5, <3>2 DEF IInv, Below, OncePerBlock, Single
    <3> QED BY <3>1, <3>2
  <2> QED BY <2>3, <2>4, <2>5 DEF Below, Single
<1> QED BY <1>9, <1>10, <1>11, <1>14, <1>15, <1>16 DEF IInv

(* No step breaks the invariant.                                           *)
LEMMA NextStep == ASSUME Parameters PROVE IInv /\ [Next]_vars => IInv'
<1> SUFFICES ASSUME IInv, [Next]_vars PROVE IInv'
  OBVIOUS
<1>1. CASE UNCHANGED vars
  BY <1>1 DEF vars, IInv, Types, OnlyMade, FromStart, NotBeforeStart, OneWatch, Ended, OneBlock,
     Below, OncePerBlock
<1>2. CASE Next
  BY <1>2, WatchStep, MatchStep, ReportStep, LoseStep DEF Next
<1> QED BY <1>1, <1>2

(* So the invariant always holds.                                          *)
LEMMA Invariant == ASSUME Parameters PROVE Spec => []IInv
<1>1. Init => IInv
  BY InitInv
<1>2. IInv /\ [Next]_vars => IInv'
  BY NextStep
<1> QED BY <1>1, <1>2, PTL DEF Spec

-----------------------------------------------------------------------------
(* Induction over numbers                                                  *)

(* What holds of 0 and of the next number holds of all.                    *)
LEMMA Induction ==
  ASSUME NEW S, 0 \in S, \A k \in Nat : k \in S => k + 1 \in S
  PROVE  Nat \subseteq S
<1> DEFINE T == Nat \ S
           R == OpToRel(<, Nat)
<1>1. IsWellFoundedOn(R, Nat)
  BY NatLessThanWellFounded
<1>2. \A x, y \in Nat : y < x => <<y, x>> \in R
  BY DEF OpToRel
<1>3. SUFFICES ASSUME T # {} PROVE FALSE
  OBVIOUS
<1> HIDE DEF R
<1>4. PICK m \in T : \A k \in T : ~(<<k, m>> \in R)
  <2>1. T \subseteq Nat
    OBVIOUS
  <2> HIDE DEF T
  <2> QED BY <1>1, <1>3, <2>1, WFMin
<1>5. m \in Nat /\ m # 0 /\ m - 1 \in Nat /\ m - 1 < m
  OBVIOUS
<1>6. m - 1 \in S
  BY <1>2, <1>4, <1>5
<1> QED BY <1>4, <1>5, <1>6

(* f starts from a and goes on by steps, up to n.                          *)
Follows(f, n, a, step) == f[0] = a /\ \A i \in 1..n : f[i] = step[<<i, f[i - 1]>>]

(* There is such a function.                                               *)
LEMMA Recursion ==
  ASSUME NEW n \in Nat, NEW a \in Nat, NEW step \in [Nat \X Nat -> Nat]
  PROVE  \E f \in [0..n -> Nat] : Follows(f, n, a, step)
<1> DEFINE K == {k \in Nat : \E f \in [0..k -> Nat] : Follows(f, k, a, step)}
<1>1. 0 \in K
  <2> DEFINE f == [i \in 0..0 |-> a]
  <2>1. f \in [0..0 -> Nat] /\ Follows(f, 0, a, step)
    BY DEF Follows
  <2> QED BY <2>1
<1>2. ASSUME NEW k \in Nat, k \in K PROVE k + 1 \in K
  <2>1. PICK f \in [0..k -> Nat] : Follows(f, k, a, step)
    BY <1>2
  <2> DEFINE b == step[<<k + 1, f[k]>>]
             g == [i \in 0..(k + 1) |-> IF i = k + 1 THEN b ELSE f[i]]
  <2>2. f[k] \in Nat /\ k + 1 \in Nat
    OBVIOUS
  <2>3. b \in Nat
    BY <2>2
  <2>4. g \in [0..(k + 1) -> Nat]
    <3> HIDE DEF b
    <3> QED BY <2>3
  <2>5. g[0] = a
    BY <2>1 DEF Follows
  <2>6. ASSUME NEW i \in 1..(k + 1) PROVE g[i] = step[<<i, g[i - 1]>>]
    <3>1. i - 1 \in 0..k /\ i \in Nat /\ i \in 0..(k + 1) /\ i - 1 \in 0..(k + 1) /\ i - 1 # k + 1
      OBVIOUS
    <3>2. g[i - 1] = f[i - 1]
      BY <3>1
    <3>3. CASE i = k + 1
      <4>1. i - 1 = k /\ g[i] = b
        BY <3>1, <3>3
      <4> QED BY <3>2, <3>3, <4>1
    <3>4. CASE i # k + 1
      <4>1. i \in 1..k /\ g[i] = f[i]
        BY <3>1, <3>4
      <4> QED BY <2>1, <3>2, <4>1 DEF Follows
    <3> QED BY <3>3, <3>4
  <2> HIDE DEF g
  <2>7. Follows(g, k + 1, a, step)
    BY <2>5, <2>6 DEF Follows
  <2> QED BY <2>4, <2>7
<1>3. n \in K
  <2> HIDE DEF K
  <2> QED BY <1>1, <1>2, Induction
<1> QED BY <1>3

-----------------------------------------------------------------------------
(* Sums                                                                    *)

Sum(f, n) == LET sum[i \in 0..n] == IF i = 0 THEN f[0] ELSE sum[i - 1] + f[i] IN sum[n]

(* A sum is what its last term adds to the sum of the others.              *)
LEMMA SumOf ==
  ASSUME NEW n \in Nat, NEW f \in [0..n -> Nat]
  PROVE  \E s \in [0..n -> Nat] :
           /\ s[0] = f[0] /\ Sum(f, n) = s[n]
           /\ \A i \in 0..n : i + 1 \in 0..n => s[i + 1] = s[i] + f[i + 1]
<1> DEFINE step == [p \in Nat \X Nat |-> IF p[1] \in 0..n THEN p[2] + f[p[1]] ELSE 0]
           Def(s) == s = [i \in 0..n |-> IF i = 0 THEN f[0] ELSE s[i - 1] + f[i]]
<1>1. step \in [Nat \X Nat -> Nat] /\ f[0] \in Nat
  OBVIOUS
<1>2. \A i \in 1..n : \A m \in Nat : step[<<i, m>>] = m + f[i]
  OBVIOUS
<1> HIDE DEF step
<1>3. PICK s \in [0..n -> Nat] : Follows(s, n, f[0], step)
  BY <1>1, Recursion
<1>4. s[0] = f[0] /\ \A i \in 1..n : s[i] = s[i - 1] + f[i]
  <2>1. \A i \in 1..n : s[i - 1] \in Nat
    OBVIOUS
  <2> QED BY <1>2, <1>3, <2>1 DEF Follows
<1>5. Def(s)
  <2>1. \A i \in 0..n : i # 0 => i \in 1..n
    OBVIOUS
  <2>2. \A i \in 0..n : s[i] = IF i = 0 THEN f[0] ELSE s[i - 1] + f[i]
    BY <1>4, <2>1
  <2> QED BY <2>2
<1> DEFINE c == CHOOSE t : Def(t)
<1>6. Def(c)
  BY <1>5
<1>7. Sum(f, n) = c[n]
  BY DEF Sum
<1>8. \A i \in 0..n : c[i] = s[i]
  <2> DEFINE L == {i \in Nat : i \in 0..n => c[i] = s[i]}
  <2>0. \A i \in 0..n : c[i] = IF i = 0 THEN f[0] ELSE c[i - 1] + f[i]
    <3> HIDE DEF c
    <3> QED BY <1>6
  <2> HIDE DEF c, Def
  <2>1. 0 \in L
    BY <1>4, <2>0
  <2>2. ASSUME NEW i \in Nat, i \in L PROVE i + 1 \in L
    <3> SUFFICES ASSUME i + 1 \in 0..n PROVE c[i + 1] = s[i + 1]
      OBVIOUS
    <3>1. i \in 0..n /\ i + 1 \in 1..n /\ (i + 1) - 1 = i /\ i + 1 # 0
      OBVIOUS
    <3>2. c[i] = s[i]
      BY <2>2, <3>1
    <3> QED BY <1>4, <2>0, <3>1, <3>2
  <2>3. Nat \subseteq L
    <3> HIDE DEF L
    <3> QED BY <2>1, <2>2, Induction
  <2> QED BY <2>3
<1> HIDE DEF c
<1>9. Sum(f, n) = s[n]
  <2>1. n \in 0..n
    OBVIOUS
  <2> QED BY <1>7, <1>8, <2>1
<1>10. ASSUME NEW i \in 0..n, i + 1 \in 0..n PROVE s[i + 1] = s[i] + f[i + 1]
  <2>1. i + 1 \in 1..n /\ (i + 1) - 1 = i
    BY <1>10
  <2>2. s[i + 1] = s[(i + 1) - 1] + f[i + 1]
    BY <1>4, <2>1
  <2> QED BY <2>1, <2>2
<1> QED BY <1>4, <1>9, <1>10

(* A sum of less, one by one, is less.                                     *)
LEMMA SumLeq ==
  ASSUME NEW n \in Nat, NEW f \in [0..n -> Nat], NEW g \in [0..n -> Nat],
         \A i \in 0..n : f[i] <= g[i]
  PROVE  Sum(f, n) \in Nat /\ Sum(f, n) <= Sum(g, n)
<1>1. PICK s \in [0..n -> Nat] :
        /\ s[0] = f[0] /\ Sum(f, n) = s[n]
        /\ \A i \in 0..n : i + 1 \in 0..n => s[i + 1] = s[i] + f[i + 1]
  BY SumOf
<1>2. PICK t \in [0..n -> Nat] :
        /\ t[0] = g[0] /\ Sum(g, n) = t[n]
        /\ \A i \in 0..n : i + 1 \in 0..n => t[i + 1] = t[i] + g[i + 1]
  BY SumOf
<1> DEFINE K == {k \in Nat : k \in 0..n => s[k] <= t[k]}
<1>3. 0 \in K
  BY <1>1, <1>2
<1>4. ASSUME NEW k \in Nat, k \in K PROVE k + 1 \in K
  <2> SUFFICES ASSUME k + 1 \in 0..n PROVE s[k + 1] <= t[k + 1]
    OBVIOUS
  <2>1. k \in 0..n /\ k + 1 \in 0..n
    OBVIOUS
  <2>2. s[k] <= t[k] /\ f[k + 1] <= g[k + 1]
    BY <1>4, <2>1
  <2>3. s[k] \in Nat /\ t[k] \in Nat /\ f[k + 1] \in Nat /\ g[k + 1] \in Nat
    BY <2>1
  <2>4. s[k + 1] = s[k] + f[k + 1] /\ t[k + 1] = t[k] + g[k + 1]
    <3>1. s[k + 1] = s[k] + f[k + 1]
      BY <1>1, <2>1
    <3>2. t[k + 1] = t[k] + g[k + 1]
      BY <1>2, <2>1
    <3> QED BY <3>1, <3>2
  <2>5. \A a, b, c, d \in Nat : a <= b /\ c <= d => a + c <= b + d
    OBVIOUS
  <2>6. s[k] + f[k + 1] <= t[k] + g[k + 1]
    BY <2>2, <2>3, <2>5
  <2> QED BY <2>4, <2>6
<1>5. n \in K
  <2> HIDE DEF K
  <2> QED BY <1>3, <1>4, Induction
<1>6. n \in 0..n
  OBVIOUS
<1> QED BY <1>1, <1>2, <1>5, <1>6

(* A sum of nothing is nothing.                                            *)
LEMMA SumZero ==
  ASSUME NEW n \in Nat, NEW f \in [0..n -> Nat], \A i \in 0..n : f[i] = 0
  PROVE  Sum(f, n) = 0
<1>1. PICK s \in [0..n -> Nat] :
        /\ s[0] = f[0] /\ Sum(f, n) = s[n]
        /\ \A i \in 0..n : i + 1 \in 0..n => s[i + 1] = s[i] + f[i + 1]
  BY SumOf
<1> DEFINE K == {k \in Nat : k \in 0..n => s[k] = 0}
<1>2. 0 \in K
  BY <1>1
<1>3. ASSUME NEW k \in Nat, k \in K PROVE k + 1 \in K
  <2> SUFFICES ASSUME k + 1 \in 0..n PROVE s[k + 1] = 0
    OBVIOUS
  <2>1. k \in 0..n /\ k + 1 \in 0..n
    OBVIOUS
  <2>2. s[k] = 0 /\ f[k + 1] = 0
    BY <1>3, <2>1
  <2>3. s[k + 1] = s[k] + f[k + 1]
    BY <1>1, <2>1
  <2> QED BY <2>2, <2>3
<1>4. n \in K
  <2> HIDE DEF K
  <2> QED BY <1>2, <1>3, Induction
<1>5. n \in 0..n
  OBVIOUS
<1> QED BY <1>1, <1>4, <1>5

(* Sums that differ in one term differ as the term does.                   *)
LEMMA SumDiffers ==
  ASSUME NEW n \in Nat, NEW f \in [0..n -> Nat], NEW g \in [0..n -> Nat], NEW j \in 0..n,
         \A i \in 0..n : i # j => f[i] = g[i]
  PROVE  /\ Sum(f, n) \in Nat /\ Sum(g, n) \in Nat
         /\ Sum(f, n) + g[j] = Sum(g, n) + f[j]
<1>1. PICK s \in [0..n -> Nat] :
        /\ s[0] = f[0] /\ Sum(f, n) = s[n]
        /\ \A i \in 0..n : i + 1 \in 0..n => s[i + 1] = s[i] + f[i + 1]
  BY SumOf
<1>2. PICK t \in [0..n -> Nat] :
        /\ t[0] = g[0] /\ Sum(g, n) = t[n]
        /\ \A i \in 0..n : i + 1 \in 0..n => t[i + 1] = t[i] + g[i + 1]
  BY SumOf
<1> DEFINE Holds(k) == IF k < j THEN s[k] = t[k] ELSE s[k] + g[j] = t[k] + f[j]
           K == {k \in Nat : k \in 0..n => Holds(k)}
<1>3. f[j] \in Nat /\ g[j] \in Nat /\ j \in Nat
  OBVIOUS
<1>4. 0 \in K
  <2>1. 0 \in 0..n
    OBVIOUS
  <2>2. CASE j = 0
    BY <1>1, <1>2, <1>3, <2>2
  <2>3. CASE j # 0
    BY <1>1, <1>2, <1>3, <2>1, <2>3
  <2> QED BY <2>2, <2>3
<1>5. ASSUME NEW k \in Nat, k \in K PROVE k + 1 \in K
  <2> SUFFICES ASSUME k + 1 \in 0..n PROVE Holds(k + 1)
    OBVIOUS
  <2>1. k \in 0..n /\ k + 1 \in 0..n
    OBVIOUS
  <2>2. Holds(k) /\ (k + 1 # j => f[k + 1] = g[k + 1])
    BY <1>5, <2>1
  <2>3. s[k] \in Nat /\ t[k] \in Nat /\ f[k + 1] \in Nat /\ g[k + 1] \in Nat
    BY <2>1
  <2>4. s[k + 1] = s[k] + f[k + 1] /\ t[k + 1] = t[k] + g[k + 1]
    <3>1. s[k + 1] = s[k] + f[k + 1]
      BY <1>1, <2>1
    <3>2. t[k + 1] = t[k] + g[k + 1]
      BY <1>2, <2>1
    <3> QED BY <3>1, <3>2
  <2>5. CASE k + 1 < j
    BY <1>3, <2>2, <2>3, <2>4, <2>5
  <2>6. CASE k + 1 = j
    <3> DEFINE a == s[k]
               u == f[k + 1]
               v == g[k + 1]
    <3>1. a \in Nat /\ u \in Nat /\ v \in Nat /\ t[k] = a
      BY <1>3, <2>2, <2>3, <2>6
    <3> HIDE DEF a, u, v
    <3>2. (a + u) + v = (a + v) + u
      BY <3>1
    <3>3. ~(k + 1 < j) /\ f[j] = u /\ g[j] = v
      BY <1>3, <2>6 DEF u, v
    <3> QED BY <2>4, <3>1, <3>2, <3>3 DEF a, u, v
  <2>7. CASE k + 1 > j
    <3>1. ~(k < j) /\ ~(k + 1 < j) /\ k + 1 # j
      BY <1>3, <2>7
    <3>2. s[k] + g[j] = t[k] + f[j] /\ f[k + 1] = g[k + 1]
      BY <2>2, <3>1
    <3>3. (s[k] + f[k + 1]) + g[j] = (t[k] + g[k + 1]) + f[j]
      <4> DEFINE a == s[k]
                 b == t[k]
                 x == f[k + 1]
                 u == f[j]
                 v == g[j]
      <4>1. /\ a \in Nat /\ b \in Nat /\ x \in Nat /\ u \in Nat /\ v \in Nat
            /\ a + v = b + u /\ g[k + 1] = x
        BY <1>3, <2>3, <3>2
      <4> HIDE DEF a, b, x, u, v
      <4>2. (a + x) + v = (b + x) + u
        BY <4>1
      <4> QED BY <4>1, <4>2 DEF a, b, x, u, v
    <3> QED BY <2>4, <3>1, <3>3
  <2> QED BY <1>3, <2>5, <2>6, <2>7
<1>6. n \in K
  <2> HIDE DEF K
  <2> QED BY <1>4, <1>5, Induction
<1>7. Holds(n) /\ ~(n < j) /\ s[n] \in Nat /\ t[n] \in Nat
  BY <1>6
<1> QED BY <1>1, <1>2, <1>7

-----------------------------------------------------------------------------
(* Growth                                                                  *)

(* What block h makes of one watch of r made at s or before                *)
Factor(r, s, h) == IF h >= s /\ hits[r][h] > 0 THEN hits[r][h] ELSE 1

(* Growth is the product of the factors of the blocks so far.              *)
LEMMA GrowthOf ==
  ASSUME Parameters, NEW r \in Request, NEW s \in Height
  PROVE  /\ Growth(r, s) \in [Block -> Nat]
         /\ Growth(r, s)[0] = Factor(r, s, 0)
         /\ \A h \in 1..MaxHeight : Growth(r, s)[h] = Growth(r, s)[h - 1] * Factor(r, s, h)
         /\ \A h \in Block : Factor(r, s, h) \in Nat \ {0}
<1> DEFINE F(h) == Factor(r, s, h)
           step == [p \in Nat \X Nat |-> IF p[1] \in Block THEN p[2] * F(p[1]) ELSE 0]
           Def(f) == f = [h \in Block |-> (IF h = 0 THEN 1 ELSE f[h - 1]) * F(h)]
           c == CHOOSE f : Def(f)
<1>0. Growth(r, s) = c
  BY DEF Growth, Factor
<1>1. /\ MaxHeight \in Nat /\ Block = 0..MaxHeight /\ s \in Nat
      /\ \A h \in Block : hits[r][h] \in Nat /\ F(h) \in Nat \ {0}
      /\ 0 \in Block
  BY DEF Parameters, Block, Height, Factor
<1> HIDE DEF F
<1>2. step \in [Nat \X Nat -> Nat]
  <2>1. ASSUME NEW p \in Nat \X Nat PROVE (IF p[1] \in Block THEN p[2] * F(p[1]) ELSE 0) \in Nat
    <3>1. p[2] \in Nat
      OBVIOUS
    <3>2. CASE p[1] \in Block
      <4>1. F(p[1]) \in Nat
        BY <1>1, <3>2
      <4> QED BY <3>1, <3>2, <4>1
    <3> QED BY <3>2
  <2> QED BY <2>1
<1>3. \A h \in Block : \A m \in Nat : step[<<h, m>>] = m * F(h)
  BY <1>1 DEF Block
<1> HIDE DEF step
<1>4. PICK a : a = F(0)
  OBVIOUS
<1>5. PICK f \in [0..MaxHeight -> Nat] : Follows(f, MaxHeight, a, step)
  <2>1. a \in Nat
    BY <1>1, <1>4
  <2> QED BY <1>1, <1>2, <2>1, Recursion
<1>6. f[0] = F(0) /\ \A h \in 1..MaxHeight : f[h] = f[h - 1] * F(h)
  <2>1. ASSUME NEW h \in 1..MaxHeight PROVE f[h] = f[h - 1] * F(h)
    <3>1. h \in Block /\ h - 1 \in 0..MaxHeight
      BY <1>1
    <3>2. f[h - 1] \in Nat
      BY <3>1
    <3> QED BY <1>3, <1>5, <3>1, <3>2 DEF Follows
  <2> QED BY <1>4, <1>5, <2>1 DEF Follows
<1>7. Def(f)
  <2>1. ASSUME NEW h \in Block PROVE f[h] = (IF h = 0 THEN 1 ELSE f[h - 1]) * F(h)
    <3>1. CASE h = 0
      <4>1. F(h) \in Nat
        BY <1>1
      <4>2. 1 * F(h) = F(h)
        BY <4>1
      <4> QED BY <1>6, <3>1, <4>2
    <3>2. CASE h # 0
      <4>1. h \in 1..MaxHeight
        BY <1>1, <3>2
      <4> QED BY <1>6, <3>2, <4>1
    <3> QED BY <3>1, <3>2
  <2> QED BY <1>1, <2>1
<1>8. Def(c)
  BY <1>7
<1>9. \A h \in Block : c[h] = (IF h = 0 THEN 1 ELSE c[h - 1]) * F(h)
  <2> HIDE DEF c
  <2> QED BY <1>8
<1>10. c = [h \in Block |-> c[h]]
  <2> HIDE DEF c
  <2> QED BY <1>8
<1> HIDE DEF c, Def
<1>11. c[0] = F(0)
  <2>1. F(0) \in Nat
    BY <1>1
  <2>2. 1 * F(0) = F(0)
    BY <2>1
  <2> QED BY <1>1, <1>9, <2>2
<1>12. \A h \in 1..MaxHeight : c[h] = c[h - 1] * F(h)
  <2>1. \A h \in 1..MaxHeight : h \in Block /\ h # 0
    BY <1>1
  <2> QED BY <1>9, <2>1
<1>13. \A h \in Block : c[h] \in Nat
  <2> DEFINE K == {h \in Nat : h \in Block => c[h] \in Nat}
  <2>1. 0 \in K
    BY <1>1, <1>11
  <2>2. ASSUME NEW h \in Nat, h \in K PROVE h + 1 \in K
    <3> SUFFICES ASSUME h + 1 \in Block PROVE c[h + 1] \in Nat
      OBVIOUS
    <3>1. h \in Block /\ h + 1 \in 1..MaxHeight /\ (h + 1) - 1 = h
      BY <1>1
    <3>2. c[h] \in Nat /\ F(h + 1) \in Nat
      BY <1>1, <2>2, <3>1
    <3>3. c[h + 1] = c[h] * F(h + 1)
      BY <1>12, <3>1
    <3> QED BY <3>2, <3>3
  <2>3. Nat \subseteq K
    <3> HIDE DEF K
    <3> QED BY <2>1, <2>2, Induction
  <2> QED BY <1>1, <2>3
<1>14. c \in [Block -> Nat]
  BY <1>10, <1>13
<1> QED BY <1>0, <1>1, <1>11, <1>12, <1>14 DEF F

(* Growth is at least one, and one before the start.                       *)
LEMMA GrowthBelow ==
  ASSUME Parameters, NEW r \in Request, NEW s \in Height
  PROVE  \A h \in Block : /\ Growth(r, s)[h] \in Nat \ {0}
                          /\ h < s => Growth(r, s)[h] = 1
<1> DEFINE G(h) == Growth(r, s)[h]
           F(h) == Factor(r, s, h)
           K == {h \in Nat : h \in Block => G(h) \in Nat \ {0} /\ (h < s => G(h) = 1)}
<1>1. /\ \A h \in Block : G(h) \in Nat /\ F(h) \in Nat \ {0} /\ (h < s => F(h) = 1)
      /\ G(0) = F(0) /\ \A h \in 1..MaxHeight : G(h) = G(h - 1) * F(h)
      /\ Block = 0..MaxHeight /\ MaxHeight \in Nat /\ s \in Nat
  <2>1. \A h \in Block : h < s => F(h) = 1
    BY DEF Factor, Block, Height, Parameters
  <2>2. /\ Growth(r, s) \in [Block -> Nat] /\ G(0) = F(0)
        /\ \A h \in 1..MaxHeight : G(h) = G(h - 1) * F(h)
        /\ \A h \in Block : F(h) \in Nat \ {0}
    BY GrowthOf
  <2>3. Block = 0..MaxHeight /\ MaxHeight \in Nat /\ s \in Nat
    BY DEF Block, Height, Parameters
  <2>4. \A h \in Block : G(h) \in Nat
    BY <2>2
  <2> QED BY <2>1, <2>2, <2>3, <2>4
<1> HIDE DEF G, F
<1>2. 0 \in K
  BY <1>1
<1>3. ASSUME NEW h \in Nat, h \in K PROVE h + 1 \in K
  <2> SUFFICES ASSUME h + 1 \in Block PROVE G(h + 1) \in Nat \ {0} /\ (h + 1 < s => G(h + 1) = 1)
    OBVIOUS
  <2>1. h \in Block /\ h + 1 \in 1..MaxHeight /\ (h + 1) - 1 = h
    BY <1>1
  <2>2. G(h) \in Nat \ {0} /\ F(h + 1) \in Nat \ {0} /\ (h + 1 < s => G(h) = 1 /\ F(h + 1) = 1)
    BY <1>1, <1>3, <2>1
  <2>3. G(h + 1) = G(h) * F(h + 1)
    BY <1>1, <2>1
  <2>4. \A a, b \in Nat \ {0} : a * b \in Nat \ {0} /\ (a = 1 /\ b = 1 => a * b = 1)
    OBVIOUS
  <2> QED BY <2>2, <2>3, <2>4
<1>4. Nat \subseteq K
  <2> HIDE DEF K
  <2> QED BY <1>2, <1>3, Induction
<1> QED BY <1>1, <1>4 DEF G

(* A matching block makes its matches of a watch, at least, and each goes  *)
(* on behind it.                                                           *)
LEMMA GrowthAt ==
  ASSUME Parameters, NEW r \in Request, NEW s \in Height, NEW b \in Block, s <= b, hits[r][b] > 0
  PROVE  \A h \in Block : h >= b => Growth(r, s)[h] >= hits[r][b] * Growth(r, b + 1)[h]
<1> DEFINE G(h) == Growth(r, s)[h]
           A(h) == Growth(r, b + 1)[h]
           F(h) == Factor(r, s, h)
           n == hits[r][b]
           K == {h \in Nat : h \in Block /\ h >= b => G(h) >= n * A(h)}
<1>1. /\ Block = 0..MaxHeight /\ MaxHeight \in Nat /\ s \in Nat /\ b \in Nat /\ b + 1 \in Height
      /\ n \in Nat
  BY DEF Block, Height, Parameters
<1>2. /\ \A h \in Block : h > b => F(h) = Factor(r, b + 1, h)
      /\ F(b) = n
  BY <1>1 DEF Factor
<1>3. /\ G(0) = F(0) /\ \A h \in 1..MaxHeight : G(h) = G(h - 1) * F(h)
      /\ \A h \in Block : F(h) \in Nat \ {0}
  BY GrowthOf
<1>4. \A h \in 1..MaxHeight : A(h) = A(h - 1) * Factor(r, b + 1, h)
  BY <1>1, GrowthOf
<1>5. \A h \in Block : G(h) \in Nat \ {0}
  BY GrowthBelow
<1>6. \A h \in Block : A(h) \in Nat \ {0} /\ (h < b + 1 => A(h) = 1)
  BY <1>1, GrowthBelow
<1> HIDE DEF G, A, F, n
<1>7. \A i, j \in Nat \ {0} : i * j >= j
  OBVIOUS
<1>8. 0 \in K
  <2> SUFFICES ASSUME 0 >= b PROVE G(0) >= n * A(0)
    OBVIOUS
  <2>1. b = 0 /\ A(0) = 1 /\ G(0) = n
    BY <1>1, <1>2, <1>3, <1>6
  <2> QED BY <1>1, <2>1
<1>9. ASSUME NEW h \in Nat, h \in K PROVE h + 1 \in K
  <2> SUFFICES ASSUME h + 1 \in Block, h + 1 >= b PROVE G(h + 1) >= n * A(h + 1)
    OBVIOUS
  <2>1. h \in Block /\ h + 1 \in 1..MaxHeight /\ (h + 1) - 1 = h
    BY <1>1
  <2>2. /\ G(h) \in Nat \ {0} /\ A(h) \in Nat \ {0} /\ F(h + 1) \in Nat \ {0}
        /\ G(h + 1) = G(h) * F(h + 1)
    BY <1>3, <1>5, <1>6, <2>1
  <2>3. CASE h + 1 = b
    <3>1. A(h + 1) = 1 /\ F(h + 1) = n
      BY <1>1, <1>2, <1>6, <2>3
    <3>2. G(h) * F(h + 1) >= F(h + 1)
      BY <1>7, <2>2
    <3> QED BY <1>1, <2>2, <3>1, <3>2
  <2>4. CASE h + 1 > b
    <3>1. G(h) >= n * A(h) /\ A(h + 1) = A(h) * F(h + 1)
      BY <1>1, <1>2, <1>4, <1>9, <2>1, <2>4
    <3>2. \A i, j, k, l \in Nat : i >= j * k => i * l >= j * (k * l)
      <4> SUFFICES ASSUME NEW i \in Nat, NEW j \in Nat, NEW k \in Nat, NEW l \in Nat, i >= j * k
                   PROVE  i * l >= j * (k * l)
        OBVIOUS
      <4>1. j * k \in Nat /\ i * l >= (j * k) * l
        OBVIOUS
      <4> QED BY <4>1
    <3> QED BY <1>1, <2>2, <3>1, <3>2
  <2> QED BY <1>1, <2>3, <2>4
<1>10. Nat \subseteq K
  <2> HIDE DEF K
  <2> QED BY <1>8, <1>9, Induction
<1> QED BY <1>1, <1>10 DEF G, A, n

-----------------------------------------------------------------------------
(* What is owed to a request                                               *)

At(r, s) == [id |-> r, start |-> s]

(* What a watch at s, or a report due of block b, can be at block h        *)
Yield(r, s, h) == IF s <= h THEN Growth(r, s)[h] ELSE 0
After(r, b, h) == IF b <= h THEN Growth(r, b + 1)[h] ELSE 0

Dues(d, r, s, h) == [b \in 0..MaxHeight |-> d[At(r, s)][b] * After(r, b, h)]
Owed(w, d, r, h) ==
  [s \in 0..(MaxHeight + 1) |-> w[At(r, s)] * Yield(r, s, h) + Sum(Dues(d, r, s, h), MaxHeight)]

(* What was reported of a block and what the watches and the reports due   *)
(* can still be there is no more than Accounted allows.                    *)
Budget(r, h) ==
  reported[r][h] + Sum(Owed(watches, due, r, h), MaxHeight + 1) <= Growth(r, firstBlock[r])[h]
Budgets == \A r \in Request : \A h \in Block : Budget(r, h)

(* All of these are numbers.                                               *)
LEMMA OwedType ==
  ASSUME Parameters, NEW w \in [WatchOf -> Nat], NEW d \in [WatchOf -> [Block -> Nat]],
         NEW r \in Request, NEW h \in Block
  PROVE  /\ \A s \in Height : /\ At(r, s) \in WatchOf /\ Yield(r, s, h) \in Nat
                              /\ Dues(d, r, s, h) \in [0..MaxHeight -> Nat]
                              /\ Sum(Dues(d, r, s, h), MaxHeight) \in Nat
         /\ \A b \in Block : b + 1 \in Height /\ After(r, b, h) \in Nat
         /\ Owed(w, d, r, h) \in [0..(MaxHeight + 1) -> Nat]
         /\ Sum(Owed(w, d, r, h), MaxHeight + 1) \in Nat
<1>1. /\ MaxHeight \in Nat /\ MaxHeight + 1 \in Nat
      /\ Block = 0..MaxHeight /\ Height = 0..(MaxHeight + 1)
      /\ \A b \in Block : b + 1 \in Height
  BY DEF Parameters, Block, Height
<1>2. \A s \in Height : At(r, s) \in WatchOf
  BY DEF At, WatchOf
<1>3. \A s \in Height : \A g \in Block : Growth(r, s)[g] \in Nat
  BY GrowthBelow
<1>4. \A s \in Height : Yield(r, s, h) \in Nat
  BY <1>3 DEF Yield
<1>5. \A b \in Block : After(r, b, h) \in Nat
  BY <1>1, <1>3 DEF After
<1>6. ASSUME NEW s \in Height PROVE Dues(d, r, s, h) \in [0..MaxHeight -> Nat]
  <2>1. ASSUME NEW b \in 0..MaxHeight PROVE d[At(r, s)][b] * After(r, b, h) \in Nat
    <3>1. d[At(r, s)][b] \in Nat /\ After(r, b, h) \in Nat
      BY <1>1, <1>2, <1>5
    <3> QED BY <3>1
  <2> QED BY <2>1 DEF Dues
<1>7. \A s \in Height : Sum(Dues(d, r, s, h), MaxHeight) \in Nat
  <2> TAKE s \in Height
  <2> DEFINE f == Dues(d, r, s, h)
  <2>1. f \in [0..MaxHeight -> Nat]
    BY <1>6
  <2> HIDE DEF f
  <2>2. \A i \in 0..MaxHeight : f[i] <= f[i]
    BY <2>1
  <2> QED BY <1>1, <2>1, <2>2, SumLeq DEF f
<1>8. Owed(w, d, r, h) \in [0..(MaxHeight + 1) -> Nat]
  <2>1. ASSUME NEW s \in 0..(MaxHeight + 1)
        PROVE  w[At(r, s)] * Yield(r, s, h) + Sum(Dues(d, r, s, h), MaxHeight) \in Nat
    <3>1. /\ w[At(r, s)] \in Nat /\ Yield(r, s, h) \in Nat
          /\ Sum(Dues(d, r, s, h), MaxHeight) \in Nat
      BY <1>1, <1>2, <1>4, <1>7
    <3>2. w[At(r, s)] * Yield(r, s, h) \in Nat
      BY <3>1, Product
    <3> QED BY <3>1, <3>2
  <2> QED BY <2>1 DEF Owed
<1>9. Sum(Owed(w, d, r, h), MaxHeight + 1) \in Nat
  <2> DEFINE f == Owed(w, d, r, h)
             n == MaxHeight + 1
  <2>1. f \in [0..n -> Nat] /\ n \in Nat
    BY <1>1, <1>8
  <2> HIDE DEF f, n
  <2>2. \A i \in 0..n : f[i] <= f[i]
    BY <2>1
  <2> QED BY <2>1, <2>2, SumLeq DEF f, n
<1> QED BY <1>1, <1>2, <1>4, <1>5, <1>6, <1>7, <1>8, <1>9

(* Nothing is owed for nothing.                                            *)
LEMMA DuesZero ==
  ASSUME Parameters, NEW d \in [WatchOf -> [Block -> Nat]], NEW r \in Request, NEW s \in Height,
         NEW h \in Block, \A b \in Block : d[At(r, s)][b] = 0
  PROVE  Sum(Dues(d, r, s, h), MaxHeight) = 0 /\ \A b \in Block : Dues(d, r, s, h)[b] = 0
<1> DEFINE f == Dues(d, r, s, h)
<1>1. MaxHeight \in Nat /\ Block = 0..MaxHeight
  BY DEF Parameters, Block
<1>2. PICK w \in [WatchOf -> Nat] : w = [x \in WatchOf |-> 0]
  <2>1. [x \in WatchOf |-> 0] \in [WatchOf -> Nat]
    OBVIOUS
  <2> QED BY <2>1
<1>3. f \in [0..MaxHeight -> Nat] /\ \A b \in Block : After(r, b, h) \in Nat
  BY OwedType
<1>4. \A b \in Block : f[b] = 0
  <2> TAKE b \in Block
  <2>1. f[b] = 0 * After(r, b, h) /\ After(r, b, h) \in Nat
    BY <1>1, <1>3 DEF Dues
  <2> HIDE DEF f
  <2> QED BY <2>1
<1> HIDE DEF f
<1> QED BY <1>1, <1>3, <1>4, SumZero DEF f

(* A request that is made owes what its first watch can yield.             *)
LEMMA BudgetWatch ==
  ASSUME Parameters, IInv, Budgets, NEW q \in Request, Watch(q) PROVE Budgets'
<1> SUFFICES ASSUME NEW r \in Request, NEW h \in Block PROVE Budget(r, h)'
  BY DEF Budgets
<1> DEFINE new == [id |-> q, start |-> firstBlock[q]]
           f == Owed(watches, due, r, h)
           g == Owed(watches', due', r, h)
           n == MaxHeight + 1
           j == firstBlock[q]
<1>0. n \in Nat /\ j \in 0..n /\ Height = 0..n /\ MaxHeight \in Nat
  BY DEF Parameters, Height
<1>1. /\ watches \in [WatchOf -> Nat] /\ watches' \in [WatchOf -> Nat]
      /\ due \in [WatchOf -> [Block -> Nat]] /\ due' = due /\ reported' = reported
      /\ watches' = [watches EXCEPT ![new] = @ + 1] /\ q \notin made /\ new \in WatchOf
  <2>1. new \in WatchOf
    BY <1>0 DEF WatchOf
  <2>2. watches \in [WatchOf -> Nat] /\ due \in [WatchOf -> [Block -> Nat]]
    BY DEF IInv, Types
  <2>3. /\ due' = due /\ reported' = reported /\ q \notin made
        /\ watches' = [watches EXCEPT ![new] = @ + 1]
    BY DEF Watch
  <2> HIDE DEF new
  <2> QED BY <2>1, <2>2, <2>3
<1>2. /\ f \in [0..n -> Nat] /\ g \in [0..n -> Nat]
      /\ \A s \in 0..n : /\ At(r, s) \in WatchOf /\ Yield(r, s, h) \in Nat
                         /\ Sum(Dues(due, r, s, h), MaxHeight) \in Nat
  BY <1>0, <1>1, OwedType
<1>3. /\ \A s \in 0..n :
           f[s] = watches[At(r, s)] * Yield(r, s, h) + Sum(Dues(due, r, s, h), MaxHeight)
      /\ \A s \in 0..n :
           g[s] = watches'[At(r, s)] * Yield(r, s, h) + Sum(Dues(due, r, s, h), MaxHeight)
  BY <1>0, <1>1 DEF Owed
<1>4. reported[r][h] + Sum(f, n) <= Growth(r, firstBlock[r])[h]
  BY DEF Budgets, Budget
<1>5. SUFFICES reported[r][h] + Sum(g, n) <= Growth(r, firstBlock[r])[h]
  BY <1>1 DEF Budget
<1> HIDE DEF f, g, n, new
<1>6. CASE r # q
  <2>1. \A s \in 0..n : At(r, s) # new
    BY <1>6 DEF At, new
  <2>2. ASSUME NEW s \in 0..n PROVE f[s] = g[s]
    <3>1. watches'[At(r, s)] = watches[At(r, s)]
      BY <1>1, <1>2, <2>1
    <3> QED BY <1>3, <3>1
  <2>3. f = g
    <3>1. f \in [0..n -> Nat] /\ g \in [0..n -> Nat]
      BY <1>2
    <3> QED BY <1>0, <2>2, <3>1
  <2> QED BY <1>4, <2>3
<1>7. CASE r = q
  <2>0. \A s \in 0..n : At(r, s).id = r
    BY DEF At
  <2>1. /\ reported[r][h] = 0
        /\ \A s \in 0..n : watches[At(r, s)] = 0 /\ \A b \in Block : due[At(r, s)][b] = 0
    <3>1. /\ \A x \in WatchOf : x.id \notin made =>
               watches[x] = 0 /\ \A b \in Block : due[x][b] = 0
          /\ reported[r][h] = 0
      BY <1>1, <1>7 DEF IInv, OnlyMade
    <3>2. ASSUME NEW s \in 0..n
          PROVE  watches[At(r, s)] = 0 /\ \A b \in Block : due[At(r, s)][b] = 0
      <4>1. At(r, s) \in WatchOf /\ At(r, s).id \notin made
        BY <1>1, <1>2, <1>7, <2>0
      <4> QED BY <3>1, <4>1
    <3> QED BY <3>1, <3>2
  <2>2. \A s \in 0..n : Sum(Dues(due, r, s, h), MaxHeight) = 0
    <3> TAKE s \in 0..n
    <3>1. s \in Height /\ \A b \in Block : due[At(r, s)][b] = 0
      BY <1>0, <2>1
    <3> QED BY <1>1, <3>1, DuesZero
  <2>3. \A s \in 0..n : f[s] = 0
    <3> TAKE s \in 0..n
    <3>1. f[s] = 0 * Yield(r, s, h) + 0 /\ Yield(r, s, h) \in Nat
      BY <1>2, <1>3, <2>1, <2>2
    <3> QED BY <3>1
  <2>4. \A s \in 0..n : s # j => g[s] = 0
    <3> TAKE s \in 0..n
    <3> SUFFICES ASSUME s # j PROVE g[s] = 0
      OBVIOUS
    <3>1. At(r, s) # new
      BY DEF At, new
    <3>2. g[s] = f[s]
      <4>1. watches'[At(r, s)] = watches[At(r, s)]
        BY <1>1, <1>2, <3>1
      <4> QED BY <1>3, <4>1
    <3> QED BY <2>3, <3>2
  <2>5. g[j] = Yield(r, j, h)
    <3>1. At(r, j) = new
      BY <1>7 DEF At, new
    <3>2. watches'[At(r, j)] = 1
      <4>1. watches[new] = 0
        BY <1>0, <2>1, <3>1
      <4> QED BY <1>1, <3>1, <4>1
    <3>3. g[j] = 1 * Yield(r, j, h) + 0 /\ Yield(r, j, h) \in Nat
      BY <1>0, <1>2, <1>3, <2>2, <3>2
    <3> QED BY <3>3
  <2>6. Sum(f, n) = 0
    <3>1. f \in [0..n -> Nat]
      BY <1>2
    <3> QED BY <1>0, <2>3, <3>1, SumZero
  <2>7. Sum(g, n) \in Nat /\ Sum(f, n) + g[j] = Sum(g, n) + f[j]
    <3>1. f \in [0..n -> Nat] /\ g \in [0..n -> Nat]
      BY <1>2
    <3>2. \A s \in 0..n : s # j => f[s] = g[s]
      BY <2>3, <2>4
    <3> QED BY <1>0, <3>1, <3>2, SumDiffers
  <2>8. Sum(g, n) = Yield(r, j, h)
    BY <1>0, <1>2, <2>3, <2>5, <2>6, <2>7
  <2>9. Growth(r, j)[h] \in Nat
    BY <1>0, GrowthBelow
  <2> QED BY <1>7, <2>1, <2>8, <2>9 DEF Yield
<1> QED BY <1>6, <1>7

(* Watches that are fewer owe less.                                        *)
LEMMA BudgetLose ==
  ASSUME Parameters, IInv, Budgets, Lose PROVE Budgets'
<1> SUFFICES ASSUME NEW r \in Request, NEW h \in Block PROVE Budget(r, h)'
  BY DEF Budgets
<1> DEFINE f == Owed(watches, due, r, h)
           g == Owed(watches', due', r, h)
           n == MaxHeight + 1
<1>0. n \in Nat /\ Height = 0..n
  BY DEF Parameters, Height
<1>1. /\ watches \in [WatchOf -> Nat] /\ watches' \in [WatchOf -> Nat]
      /\ due \in [WatchOf -> [Block -> Nat]] /\ due' = due /\ reported' = reported
      /\ \A x \in WatchOf : watches'[x] <= watches[x]
  BY DEF IInv, Types, Lose
<1>2. /\ f \in [0..n -> Nat] /\ g \in [0..n -> Nat] /\ Sum(f, n) \in Nat /\ Sum(g, n) \in Nat
      /\ \A s \in 0..n : /\ At(r, s) \in WatchOf /\ Yield(r, s, h) \in Nat
                         /\ Sum(Dues(due, r, s, h), MaxHeight) \in Nat
  BY <1>0, <1>1, OwedType
<1>3. ASSUME NEW s \in 0..n PROVE g[s] <= f[s]
  <2> DEFINE a == watches[At(r, s)]
             b == watches'[At(r, s)]
             y == Yield(r, s, h)
             d == Sum(Dues(due, r, s, h), MaxHeight)
  <2>1. f[s] = a * y + d /\ g[s] = b * y + d
    BY <1>0, <1>1 DEF Owed
  <2>2. a \in Nat /\ b \in Nat /\ b <= a /\ y \in Nat /\ d \in Nat
    BY <1>1, <1>2
  <2> HIDE DEF a, b, y, d, f, g
  <2>3. b * y <= a * y /\ a * y \in Nat /\ b * y \in Nat
    BY <2>2
  <2> QED BY <2>1, <2>2, <2>3
<1>4. reported[r][h] + Sum(f, n) <= Growth(r, firstBlock[r])[h]
  BY DEF Budgets, Budget
<1>5. reported[r][h] \in Nat /\ Growth(r, firstBlock[r])[h] \in Nat
  BY GrowthBelow DEF IInv, Types, Parameters
<1>6. Budget(r, h)' <=> reported[r][h] + Sum(g, n) <= Growth(r, firstBlock[r])[h]
  BY <1>1 DEF Budget
<1> HIDE DEF f, g, n
<1>7. Sum(g, n) <= Sum(f, n)
  BY <1>0, <1>2, <1>3, SumLeq
<1> QED BY <1>2, <1>4, <1>5, <1>6, <1>7

(* A block that is matched makes the reports it owes, and no more.         *)
LEMMA BudgetMatch ==
  ASSUME Parameters, IInv, Budgets, NEW b \in Block, Match(b) PROVE Budgets'
<1> SUFFICES ASSUME NEW r \in Request, NEW h \in Block PROVE Budget(r, h)'
  BY DEF Budgets
<1> DEFINE f == Owed(watches, due, r, h)
           g == Owed(watches', due', r, h)
           n == MaxHeight + 1
<1>0. n \in Nat /\ Height = 0..n /\ Block = 0..MaxHeight /\ MaxHeight \in Nat
  BY DEF Parameters, Height, Block
<1>1. /\ watches \in [WatchOf -> Nat] /\ watches' \in [WatchOf -> Nat]
      /\ due \in [WatchOf -> [Block -> Nat]] /\ due' \in [WatchOf -> [Block -> Nat]]
      /\ reported' = reported
      /\ \A x \in WatchOf : \A c \in Block : due[x][c] = 0
      /\ \A x \in WatchOf :
           /\ watches'[x] <= watches[x]
           /\ watches'[x] < watches[x] => x.start <= b /\ hits[x.id][b] > 0
           /\ due'[x] = [due[x] EXCEPT ![b] = hits[x.id][b] * (watches[x] - watches'[x])]
  <2>1. Types /\ Types'
    BY MatchStep DEF IInv
  <2> QED BY <2>1 DEF Types, Match, NothingDue
<1>2. /\ f \in [0..n -> Nat] /\ g \in [0..n -> Nat] /\ Sum(f, n) \in Nat /\ Sum(g, n) \in Nat
      /\ \A s \in 0..n : /\ At(r, s) \in WatchOf /\ Yield(r, s, h) \in Nat
                         /\ Dues(due, r, s, h) \in [0..MaxHeight -> Nat]
                         /\ Dues(due', r, s, h) \in [0..MaxHeight -> Nat]
  BY <1>0, <1>1, OwedType
<1>3. ASSUME NEW s \in 0..n PROVE g[s] <= f[s]
  <2> DEFINE x == At(r, s)
             k == watches[x] - watches'[x]
             m == hits[r][b]
             y == Yield(r, s, h)
             a == After(r, b, h)
             d == Dues(due, r, s, h)
             e == Dues(due', r, s, h)
  <2>1. x \in WatchOf /\ x.id = r /\ x.start = s
    BY <1>2 DEF At
  <2>2. /\ watches[x] \in Nat /\ watches'[x] \in Nat /\ k \in Nat
        /\ k > 0 => s <= b /\ m > 0
    BY <1>1, <2>1
  <2>3. m \in Nat /\ y \in Nat /\ a \in Nat
    <3>1. m \in Nat
      BY DEF Parameters
    <3>2. y \in Nat
      BY <1>2
    <3>3. a \in Nat
      BY <1>1, OwedType
    <3> QED BY <3>1, <3>2, <3>3
  <2>4. k > 0 => y >= m * a
    <3> SUFFICES ASSUME k > 0 PROVE y >= m * a
      OBVIOUS
    <3>1. CASE b <= h
      <4>1. s \in Height /\ s <= b /\ m > 0 /\ s <= h
        BY <1>0, <2>2, <3>1
      <4>2. Growth(r, s)[h] >= m * Growth(r, b + 1)[h]
        BY <3>1, <4>1, GrowthAt
      <4> QED BY <3>1, <4>1, <4>2 DEF Yield, After
    <3>2. CASE ~(b <= h)
      <4>1. a = 0
        BY <3>2 DEF After
      <4>2. m * a = 0
        BY <2>3, <4>1
      <4> QED BY <2>3, <4>2
    <3> QED BY <3>1, <3>2
  <2>5. Sum(d, MaxHeight) = 0 /\ \A c \in 0..MaxHeight : d[c] = 0
    <3>1. s \in Height /\ \A c \in Block : due[At(r, s)][c] = 0
      BY <1>0, <1>1, <2>1
    <3>2. /\ Sum(Dues(due, r, s, h), MaxHeight) = 0
          /\ \A c \in Block : Dues(due, r, s, h)[c] = 0
      BY <1>1, <3>1, DuesZero
    <3> QED BY <1>0, <3>2
  <2>6. e[b] = (m * k) * a
    BY <1>0, <1>1, <2>1 DEF Dues
  <2>7. \A c \in 0..MaxHeight : c # b => e[c] = 0
    <3> SUFFICES ASSUME NEW c \in 0..MaxHeight, c # b PROVE e[c] = 0
      OBVIOUS
    <3>1. due'[x][c] = 0
      BY <1>0, <1>1, <2>1
    <3>2. e[c] = due'[x][c] * After(r, c, h) /\ After(r, c, h) \in Nat
      BY <1>0, <1>1, OwedType DEF Dues
    <3> QED BY <3>1, <3>2
  <2>8. d \in [0..MaxHeight -> Nat] /\ e \in [0..MaxHeight -> Nat]
    BY <1>2
  <2>9. /\ f[s] = watches[x] * y + Sum(d, MaxHeight)
        /\ g[s] = watches'[x] * y + Sum(e, MaxHeight)
    <3>1. s \in 0..(MaxHeight + 1)
      OBVIOUS
    <3> QED BY <3>1 DEF Owed
  <2> HIDE DEF d, e, f, g, y, a, m
  <2>10. Sum(e, MaxHeight) \in Nat /\ Sum(d, MaxHeight) + e[b] = Sum(e, MaxHeight) + d[b]
    <3>1. b \in 0..MaxHeight /\ \A c \in 0..MaxHeight : c # b => d[c] = e[c]
      BY <1>0, <2>5, <2>7
    <3> QED BY <1>0, <2>8, <3>1, SumDiffers
  <2>11. Sum(e, MaxHeight) = (m * k) * a
    <3>1. e[b] \in Nat /\ d[b] = 0
      BY <1>0, <2>5, <2>8
    <3> QED BY <2>5, <2>6, <2>10, <3>1
  <2>12. f[s] = watches[x] * y
    <3>1. watches[x] * y \in Nat
      BY <2>2, <2>3
    <3> QED BY <2>5, <2>9, <3>1
  <2> DEFINE u == watches[x]
             v == watches'[x]
  <2>13. u \in Nat /\ v \in Nat /\ k = u - v /\ g[s] = v * y + (m * k) * a /\ f[s] = u * y
    BY <2>2, <2>9, <2>11, <2>12
  <2>14. k \in Nat /\ (k > 0 => y >= m * a)
    BY <2>2, <2>4
  <2> HIDE DEF u, v, k
  <2>15. (m * k) * a <= k * y
    BY <2>3, <2>14
  <2>16. v * y + k * y = u * y
    BY <2>3, <2>13, <2>14
  <2> QED BY <2>3, <2>13, <2>14, <2>15, <2>16
<1>4. reported[r][h] + Sum(f, n) <= Growth(r, firstBlock[r])[h]
  BY DEF Budgets, Budget
<1>5. reported[r][h] \in Nat /\ Growth(r, firstBlock[r])[h] \in Nat
  BY GrowthBelow DEF IInv, Types, Parameters
<1>6. Budget(r, h)' <=> reported[r][h] + Sum(g, n) <= Growth(r, firstBlock[r])[h]
  BY <1>1 DEF Budget
<1> HIDE DEF f, g, n
<1>7. Sum(g, n) <= Sum(f, n)
  BY <1>0, <1>2, <1>3, SumLeq
<1> QED BY <1>2, <1>4, <1>5, <1>6, <1>7

(* A report sent is one that was due, and the watch it makes is no more.   *)
LEMMA BudgetReport ==
  ASSUME Parameters, IInv, Budgets, NEW x \in WatchOf, NEW b \in Block, Report(x, b) PROVE Budgets'
<1> SUFFICES ASSUME NEW r \in Request, NEW h \in Block PROVE Budget(r, h)'
  BY DEF Budgets
<1> DEFINE f == Owed(watches, due, r, h)
           m == Owed(watches, due', r, h)
           g == Owed(watches', due', r, h)
           n == MaxHeight + 1
           next == [id |-> x.id, start |-> b + 1]
           t == x.start
           a == After(r, b, h)
           y == Yield(r, b + 1, h)
<1>0. n \in Nat /\ Height = 0..n /\ Block = 0..MaxHeight /\ MaxHeight \in Nat
  BY DEF Parameters, Height, Block
<1>1. /\ watches \in [WatchOf -> Nat] /\ watches' \in [WatchOf -> Nat]
      /\ due \in [WatchOf -> [Block -> Nat]] /\ due' \in [WatchOf -> [Block -> Nat]]
      /\ reported \in [Request -> [Block -> Nat]]
      /\ due[x][b] > 0
      /\ due' = [due EXCEPT ![x][b] = @ - 1]
      /\ reported' = [reported EXCEPT ![x.id][b] = @ + 1]
      /\ watches' = IF x.id \in Persistent THEN [watches EXCEPT ![next] = @ + 1] ELSE watches
  <2>1. Types /\ Types'
    BY ReportStep DEF IInv
  <2> QED BY <2>1 DEF Types, Report
<1>2. /\ x = At(x.id, t) /\ x.id \in Request /\ t \in 0..n /\ b + 1 \in 0..n
      /\ next = At(x.id, b + 1) /\ next \in WatchOf
      /\ \A s \in 0..n : At(r, s) \in WatchOf /\ At(r, s).id = r /\ At(r, s).start = s
  BY <1>0 DEF At, WatchOf
<1>3. /\ f \in [0..n -> Nat] /\ m \in [0..n -> Nat] /\ g \in [0..n -> Nat]
      /\ Sum(f, n) \in Nat /\ Sum(m, n) \in Nat /\ Sum(g, n) \in Nat
  BY <1>0, <1>1, OwedType
<1>4. /\ a \in Nat /\ \A s \in 0..n : Yield(r, s, h) \in Nat
      /\ \A s \in 0..n : /\ Dues(due, r, s, h) \in [0..MaxHeight -> Nat]
                         /\ Dues(due', r, s, h) \in [0..MaxHeight -> Nat]
  BY <1>0, <1>1, OwedType
<1>5. /\ \A s \in 0..n :
           f[s] = watches[At(r, s)] * Yield(r, s, h) + Sum(Dues(due, r, s, h), MaxHeight)
      /\ \A s \in 0..n :
           m[s] = watches[At(r, s)] * Yield(r, s, h) + Sum(Dues(due', r, s, h), MaxHeight)
      /\ \A s \in 0..n :
           g[s] = watches'[At(r, s)] * Yield(r, s, h) + Sum(Dues(due', r, s, h), MaxHeight)
  BY DEF Owed
<1>6. reported[r][h] + Sum(f, n) <= Growth(r, firstBlock[r])[h]
  BY DEF Budgets, Budget
<1>7. reported[r][h] \in Nat /\ Growth(r, firstBlock[r])[h] \in Nat
  BY GrowthBelow DEF IInv, Types, Parameters
<1>8. Budget(r, h)' <=> reported'[r][h] + Sum(g, n) <= Growth(r, firstBlock[r])[h]
  BY DEF Budget
<1>9. reported'[r][h] = IF r = x.id /\ h = b THEN reported[r][h] + 1 ELSE reported[r][h]
  BY <1>1, <1>2
<1>10. y = (IF h = b THEN 0 ELSE a) /\ (h = b => a = 1)
  <2>1. h \in Nat /\ b \in Nat /\ b + 1 \in Height
    BY <1>0
  <2>2. h = b => Growth(r, b + 1)[h] = 1
    BY <2>1, GrowthBelow
  <2> QED BY <2>1, <2>2 DEF Yield, After
<1> HIDE DEF f, g, m, n, next, t, a, y
<1>11. CASE r # x.id
  <2>1. ASSUME NEW s \in 0..n PROVE f[s] = g[s]
    <3>1. At(r, s) # x /\ At(r, s) # next /\ At(r, s) \in WatchOf
      BY <1>2, <1>11 DEF At, next
    <3>2. watches'[At(r, s)] = watches[At(r, s)] /\ due'[At(r, s)] = due[At(r, s)]
      BY <1>1, <3>1
    <3>3. Dues(due', r, s, h) = Dues(due, r, s, h)
      BY <3>2 DEF Dues
    <3> QED BY <1>5, <3>2, <3>3
  <2>2. f = g
    BY <1>0, <1>3, <2>1
  <2> QED BY <1>6, <1>8, <1>9, <1>11, <2>2
<1>12. CASE r = x.id
  <2>1. /\ \A s \in 0..n : s # t => m[s] = f[s]
        /\ f[t] = m[t] + a
    <3>1. ASSUME NEW s \in 0..n, s # t PROVE m[s] = f[s]
      <4>1. due'[At(r, s)] = due[At(r, s)]
        BY <1>1, <1>2, <3>1 DEF t
      <4>2. Dues(due', r, s, h) = Dues(due, r, s, h)
        BY <4>1 DEF Dues
      <4> QED BY <1>5, <4>2
    <3>2. f[t] = m[t] + a
      <4> DEFINE d == Dues(due, r, t, h)
                 e == Dues(due', r, t, h)
      <4>1. d \in [0..MaxHeight -> Nat] /\ e \in [0..MaxHeight -> Nat]
        BY <1>2, <1>4
      <4>2. x = At(r, t) /\ due[x][b] \in Nat /\ due'[x][b] = due[x][b] - 1
            /\ \A c \in Block : c # b => due'[x][c] = due[x][c]
        BY <1>1, <1>2, <1>12
      <4>3. d[b] = due[x][b] * a /\ e[b] = due'[x][b] * a
        BY <1>0, <4>2 DEF Dues, a
      <4>4. \A c \in 0..MaxHeight : c # b => d[c] = e[c]
        BY <1>0, <4>2 DEF Dues
      <4>5. d[b] = e[b] + a
        <5>1. \A i, j \in Nat : i > 0 => i * j = (i - 1) * j + j
          OBVIOUS
        <5> QED BY <1>1, <1>4, <4>2, <4>3, <5>1
      <4> HIDE DEF d, e
      <4>6. /\ Sum(d, MaxHeight) \in Nat /\ Sum(e, MaxHeight) \in Nat
            /\ Sum(d, MaxHeight) + e[b] = Sum(e, MaxHeight) + d[b]
        BY <1>0, <4>1, <4>4, SumDiffers
      <4>7. e[b] \in Nat /\ d[b] \in Nat
        BY <1>0, <4>1
      <4>8. Sum(d, MaxHeight) = Sum(e, MaxHeight) + a
        BY <1>4, <4>5, <4>6, <4>7
      <4> DEFINE w == watches[At(r, t)] * Yield(r, t, h)
      <4>9. w \in Nat
        BY <1>1, <1>2, <1>4, Product
      <4>10. f[t] = w + Sum(d, MaxHeight) /\ m[t] = w + Sum(e, MaxHeight)
        BY <1>2, <1>5 DEF d, e
      <4> HIDE DEF w
      <4> QED BY <1>4, <4>6, <4>8, <4>9, <4>10
    <3> QED BY <3>1, <3>2
  <2>2. Sum(f, n) = Sum(m, n) + a
    <3>1. Sum(f, n) + m[t] = Sum(m, n) + f[t]
      <4>1. t \in 0..n /\ \A s \in 0..n : s # t => f[s] = m[s]
        BY <1>2, <2>1
      <4>2. f \in [0..n -> Nat] /\ m \in [0..n -> Nat]
        BY <1>3
      <4>3. n \in Nat
        BY <1>0
      <4> QED BY <4>1, <4>2, <4>3, SumDiffers
    <3>2. m[t] \in Nat /\ f[t] \in Nat
      BY <1>2, <1>3
    <3> DEFINE i == f[t]
               k == m[t]
               u == Sum(f, n)
               v == Sum(m, n)
    <3>3. /\ i \in Nat /\ k \in Nat /\ u \in Nat /\ v \in Nat /\ a \in Nat
          /\ u + k = v + i /\ i = k + a
      BY <1>3, <1>4, <2>1, <3>1, <3>2
    <3> HIDE DEF i, k, u, v
    <3>4. u = v + a
      BY <3>3
    <3> QED BY <3>4 DEF u, v
  <2>3. Sum(g, n) <= Sum(m, n) + y
    <3> DEFINE j == b + 1
    <3>1. ASSUME NEW s \in 0..n, s # j PROVE g[s] = m[s]
      <4>1. At(r, s) # next
        BY <1>2, <3>1 DEF next
      <4>2. watches'[At(r, s)] = watches[At(r, s)]
        BY <1>1, <1>2, <4>1
      <4> QED BY <1>5, <4>2
    <3>2. g[j] = m[j] \/ g[j] = m[j] + y
      <4>1. j \in 0..n /\ At(r, j) = next
        BY <1>2, <1>12
      <4> DEFINE w == watches[At(r, j)]
                 v == watches'[At(r, j)]
                 d == Sum(Dues(due', r, j, h), MaxHeight)
      <4>2. w \in Nat /\ y \in Nat /\ d \in Nat
        BY <1>0, <1>1, <1>2, <1>4, <4>1, OwedType DEF y
      <4>3. v = w \/ v = w + 1
        BY <1>1, <1>2, <4>1
      <4>4. m[j] = w * y + d /\ g[j] = v * y + d
        BY <1>5, <4>1 DEF y
      <4> HIDE DEF w, v, d
      <4>5. (w + 1) * y = w * y + y /\ w * y \in Nat
        BY <4>2
      <4> QED BY <4>2, <4>3, <4>4, <4>5
    <3>3. j \in 0..n
      BY <1>2
    <3>4. m[j] \in Nat /\ g[j] \in Nat /\ y \in Nat
      BY <1>2, <1>3, <1>4 DEF y
    <3> HIDE DEF j
    <3>5. Sum(g, n) + m[j] = Sum(m, n) + g[j]
      <4>1. g \in [0..n -> Nat] /\ m \in [0..n -> Nat]
        BY <1>3
      <4>2. n \in Nat /\ \A s \in 0..n : s # j => g[s] = m[s]
        BY <1>0, <3>1
      <4> QED BY <3>3, <4>1, <4>2, SumDiffers
    <3> DEFINE i == g[j]
               k == m[j]
               u == Sum(g, n)
               v == Sum(m, n)
    <3>6. /\ i \in Nat /\ k \in Nat /\ u \in Nat /\ v \in Nat /\ y \in Nat
          /\ u + k = v + i /\ (i = k \/ i = k + y)
      BY <1>3, <3>2, <3>4, <3>5
    <3> HIDE DEF i, k, u, v
    <3>7. u <= v + y
      BY <3>6
    <3> QED BY <3>7 DEF u, v
  <2> DEFINE p == reported[r][h]
             u == Sum(f, n)
             v == Sum(g, n)
             k == Sum(m, n)
             w == Growth(r, firstBlock[r])[h]
  <2>4. /\ p \in Nat /\ u \in Nat /\ v \in Nat /\ k \in Nat /\ w \in Nat /\ a \in Nat
        /\ p + u <= w /\ u = k + a /\ v <= k + y
    BY <1>3, <1>4, <1>6, <1>7, <2>2, <2>3
  <2> HIDE DEF p, u, v, k, w
  <2>5. (IF h = b THEN p + 1 ELSE p) + v <= w
    BY <1>10, <2>4
  <2> QED BY <1>8, <1>9, <1>12, <2>5 DEF p, v, w
<1> QED BY <1>11, <1>12

(* Nothing is owed at first.                                               *)
LEMMA BudgetInit == ASSUME Parameters, Init PROVE Budgets
<1> SUFFICES ASSUME NEW r \in Request, NEW h \in Block PROVE Budget(r, h)
  BY DEF Budgets
<1> DEFINE f == Owed(watches, due, r, h)
           n == MaxHeight + 1
<1>0. n \in Nat /\ Height = 0..n
  BY DEF Parameters, Height
<1>1. Types
  BY InitInv DEF IInv
<1>2. /\ f \in [0..n -> Nat] /\ Sum(f, n) \in Nat
      /\ \A s \in 0..n : At(r, s) \in WatchOf /\ Yield(r, s, h) \in Nat
  BY <1>0, <1>1, OwedType DEF Types
<1>3. ASSUME NEW s \in 0..n PROVE f[s] = 0
  <2>1. watches[At(r, s)] = 0 /\ \A c \in Block : due[At(r, s)][c] = 0
    BY <1>2 DEF Init
  <2>2. Sum(Dues(due, r, s, h), MaxHeight) = 0
    BY <1>0, <1>1, <2>1, DuesZero DEF Types
  <2>3. f[s] = watches[At(r, s)] * Yield(r, s, h) + Sum(Dues(due, r, s, h), MaxHeight)
    BY DEF Owed
  <2>4. f[s] = 0 * Yield(r, s, h) + 0 /\ Yield(r, s, h) \in Nat
    BY <1>2, <2>1, <2>2, <2>3
  <2> QED BY <2>4
<1>4. reported[r][h] = 0 /\ Growth(r, firstBlock[r])[h] \in Nat
  BY GrowthBelow DEF Init, Parameters
<1>5. Budget(r, h) <=> reported[r][h] + Sum(f, n) <= Growth(r, firstBlock[r])[h]
  BY DEF Budget
<1> HIDE DEF f, n
<1>6. Sum(f, n) = 0
  BY <1>0, <1>2, <1>3, SumZero
<1> QED BY <1>4, <1>5, <1>6

(* No step spends more than there is.                                      *)
LEMMA BudgetNext == ASSUME Parameters PROVE IInv /\ Budgets /\ [Next]_vars => Budgets'
<1> SUFFICES ASSUME IInv, Budgets, [Next]_vars PROVE Budgets'
  OBVIOUS
<1>1. CASE UNCHANGED vars
  BY <1>1 DEF vars, Budgets, Budget
<1>2. CASE Next
  BY <1>2, BudgetWatch, BudgetMatch, BudgetReport, BudgetLose DEF Next
<1> QED BY <1>1, <1>2

-----------------------------------------------------------------------------
(* What follows from the promise                                           *)

(* No block below the StartHeight of a request is reported for it.         *)
THEOREM NeverBeforeStart == ASSUME Parameters PROVE Spec => []NotBeforeStart
<1>1. IInv => NotBeforeStart
  BY DEF IInv, FromStart
<1> QED BY <1>1, Invariant, PTL

(* A request that is not persistent is reported for one block, however     *)
(* many transactions of it match.                                          *)
THEOREM OneBlockOnly == ASSUME Parameters PROVE Spec => []OneBlock
<1>1. IInv => OneBlock
  BY DEF IInv, Ended
<1> QED BY <1>1, Invariant, PTL

(* A request without two matches in a block is reported once for a block,  *)
(* although requestWorker scans blocks again and queues requests again.    *)
THEOREM AtMostOnce == ASSUME Parameters PROVE Spec => []OncePerBlock
<1>1. IInv => OncePerBlock
  BY DEF IInv, Below
<1> QED BY <1>1, Invariant, PTL

(* However often a block is looked at, it is reported no more often than   *)
(* the matches so far account for.                                         *)
THEOREM AllAccounted == ASSUME Parameters PROVE Spec => []Accounted
<1>1. Init => Budgets
  BY BudgetInit
<1>2. IInv /\ Budgets /\ [Next]_vars => Budgets'
  BY BudgetNext
<1>3. IInv /\ Budgets => Accounted
  <2> SUFFICES ASSUME IInv, Budgets, NEW r \in Request, NEW h \in Block
               PROVE  reported[r][h] <= Growth(r, firstBlock[r])[h]
    BY DEF Accounted
  <2>1. reported[r][h] \in Nat /\ Growth(r, firstBlock[r])[h] \in Nat
    BY GrowthBelow DEF IInv, Types, Parameters
  <2>2. Sum(Owed(watches, due, r, h), MaxHeight + 1) \in Nat
    BY OwedType DEF IInv, Types
  <2> QED BY <2>1, <2>2 DEF Budgets, Budget
<1> QED BY <1>1, <1>2, <1>3, Invariant, PTL DEF Spec

=============================================================================
