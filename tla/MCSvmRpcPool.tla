----------------------------- MODULE MCSvmRpcPool ------------------------------
(* Small instances of the SVM pool.                                        *)
EXTENDS SvmRpcPool, TLC

CONSTANTS a, b

TwoHosts == <<a, b>>
Interchangeable == Permutations(Readers)
===============================================================================
