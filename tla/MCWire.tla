------------------------------- MODULE MCWire -------------------------------
(* Messages of every kind, with counts on both sides of a byte. *)
EXTENDS Wire

Plain(command, n) == [command |-> command, n |-> n, type |-> 0]

MCMessage ==
  {Plain(c, 0) : c \in {"verack", "block", "other", "unknown"}} \cup
  {Plain("version", n) : n \in {0, 2}} \cup
  {Plain("inv", n) : n \in {1, 2}} \cup
  {Plain("getheaders", 1)} \cup
  {Plain("getcfilters", 0)} \cup
  {Plain("cfilter", 2)} \cup
  {[command |-> "cfilter", n |-> 1, type |-> 1]} \cup
  {Plain("headers", 30)}
=============================================================================
