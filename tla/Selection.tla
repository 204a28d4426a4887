------------------------------ MODULE Selection ------------------------------
(***************************************************************************)
(* Taking rows of a table: in the order of a key, as sort_values does, or  *)
(* those that a condition keeps, as dropna and WHERE do.                   *)
(***************************************************************************)
EXTENDS Integers, Sequences, FiniteSets

\* j is k or comes before it: by its key, then by its place.
Before(key, j, k) == key[j] < key[k] \/ (key[j] = key[k] /\ j <= k)

\* The members of K, numbered in this order.
Arranged(K, key) ==
  [n \in 1..Cardinality(K) |->
     CHOOSE k \in K : Cardinality({j \in K : Before(key, j, k)}) = n]

\* A function on 1..n, as the sequence that it is, so that TLC computes it once.
Held(f) == f \o <<>>

SortedBy(s, key) ==
  LET order == Arranged(DOMAIN s, Held(key)) IN Held([n \in DOMAIN s |-> s[order[n]]])

\* The members of a set of numbers, and the rows K of s, in their order.
Listed(K) ==
  [n \in 1..Cardinality(K) |-> CHOOSE k \in K : Cardinality({j \in K : j <= k}) = n]

Rows(s, K) == LET order == Listed(K) IN Held([n \in 1..Cardinality(K) |-> s[order[n]]])
=============================================================================
