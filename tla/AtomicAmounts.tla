---------------------------- MODULE AtomicAmounts ----------------------------
(***************************************************************************)
(* Sums of atomic amounts.                                                 *)
(*                                                                         *)
(* The ledger keeps every amount as a bigint in atomic units of an asset   *)
(* and adds amounts up with reduce() over records.  Here the records are   *)
(* the keys of a function f, and the total over a set S of keys is the     *)
(* number of atomic units those keys hold: the pairs <<k, u>> with u one   *)
(* of the f[k] units of k.  Stated this way a sum needs no recursion.      *)
(***************************************************************************)
EXTENDS Naturals, FiniteSets

\* The atomic units held by the keys of S.
Units(S, f) == UNION { {k} \X (1 .. f[k]) : k \in S }

\* The bigint sum of f[k] over the keys k of S.
AtomicTotal(S, f) == Cardinality(Units(S, f))
=============================================================================
