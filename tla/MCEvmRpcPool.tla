----------------------------- MODULE MCEvmRpcPool ------------------------------
(* Small instances of the EVM pool.                                        *)
EXTENDS EvmRpcPool, TLC

CONSTANTS a, b, c

TwoHosts == <<a, b>>
Interchangeable == Permutations(Readers)
===============================================================================
