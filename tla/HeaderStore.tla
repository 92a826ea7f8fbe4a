----------------------------- MODULE HeaderStore -----------------------------
(***************************************************************************)
(* repository.BlockHeaderRepository and its two implementations            *)
(* (storage/db/inmemory and storage/db/pg), as operators on the set of     *)
(* stored headers.                                                         *)
(*                                                                         *)
(* A header is an element of Block.  What the program reads of it is its   *)
(* Height field, height[b], and its PrevBlockHash field, prev[b]; its hash *)
(* is the element itself.  The headers in circulation form a tree over the *)
(* genesis block, which is never stored.                                   *)
(***************************************************************************)
EXTENDS Integers, FiniteSets

CONSTANTS
  Block,      \* the headers that exist on the network, genesis excluded
  Genesis,    \* the genesis block, the root of the tree
  height,     \* height[b]: the Height field of b
  prev,       \* prev[b]: the header PrevBlockHash names, Genesis at height 1
  Postgres    \* TRUE: the pg repository; FALSE: the in-memory one

(* Proof of work makes a header that does not extend its parent worthless: *)
(* the fields of the headers in circulation agree with the tree.           *)
ASSUME BlockTree ==
  /\ Genesis \notin Block
  /\ height \in [Block -> Nat \ {0}]
  /\ prev \in [Block -> Block \cup {Genesis}]
  /\ \A b \in Block :
       IF height[b] = 1 THEN prev[b] = Genesis
                        ELSE prev[b] \in Block /\ height[prev[b]] = height[b] - 1

ASSUME PostgresIsBoolean == Postgres \in BOOLEAN

-----------------------------------------------------------------------------

Heights(S) == {height[b] : b \in S}

At(S, h) == {b \in S : height[b] = h}

(* The height of ChainTip(); the callers take 0 when it returns            *)
(* ErrNoBlocksHeaders.                                                     *)
TipHeight(S) == IF S = {} THEN 0
                ELSE CHOOSE h \in Heights(S) : \A g \in Heights(S) : g <= h

(* What ChainTip() may return: the in-memory store iterates a map and      *)
(* keeps any header of the greatest height; in pg heights are UNIQUE.      *)
Tips(S) == At(S, TipHeight(S))

InsertNothing(S, b) == S   \* a mutant of Insert: the header is lost

(* WriteHeaders(b).  The pg table rejects a second header of a height      *)
(* (height is UNIQUE): the violation is logged and nil is returned.        *)
Insert(S, b) == IF Postgres /\ At(S, height[b]) # {} THEN S ELSE S \cup {b}

(* The n-th ancestor of b: n times PrevBlockHash.                          *)
Ancestor(b, n) ==
  LET up[k \in 0..n] == IF k = 0 THEN b ELSE prev[up[k - 1]] IN up[n]

(* HasAllAncestors(b): PrevBlockHash is followed down to height 1.         *)
HasAllAncestors(S, b) == \A n \in 0..(height[b] - 1) : Ancestor(b, n) \in S

(* The heights blockLocatorFromHash looks up from a tip of height t: steps *)
(* of one until the locator has more than ten entries, then steps that     *)
(* double at each entry.                                                   *)
Walked(t) == {h \in 1..t : t - h <= 10 \/ \E j \in 1..t : t - h = 8 + 2^j}

(* A height of the walk with no header: the in-memory store returns        *)
(* ErrBlockNotFound, pg dereferences a nil header.                         *)
LocatorFails(S) == \E h \in Walked(TipHeight(S)) : At(S, h) = {}

(* LatestBlockLocator(), as the set of hashes it may hold.  The tip is     *)
(* appended once as the tip and once by height, which may name two headers *)
(* where the in-memory store holds several.  The empty locator stands for  *)
(* the genesis hash the caller substitutes on ErrNoBlocksHeaders.          *)
Locators(S) ==
  LET tip == TipHeight(S)
      walked == {b \in S : height[b] \in Walked(tip)}
  IN {L \in SUBSET walked :
        \A h \in Walked(tip) :
          Cardinality(At(L, h)) \in (IF h = tip THEN {1, 2} ELSE {1})}

=============================================================================
