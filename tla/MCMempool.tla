------------------------------ MODULE MCMempool ------------------------------
(* Instances of Mempool for TLC.                                           *)
EXTENDS Mempool, TLC

CONSTANTS t1, t2, c1, c2

(* The same transaction is mined in two blocks, one of them with another.  *)
MCblock == (c1 :> {t1, t2}) @@ (c2 :> {t1})

=============================================================================
