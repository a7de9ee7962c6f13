---------------------------- MODULE MCSharedStores ----------------------------
(* A small instance of the two shared stores.                              *)
EXTENDS SharedStores, TLC

Usdc      == [family |-> "eip155", name |-> "usdc", mixedCase |-> FALSE]
UsdcMixed == [family |-> "eip155", name |-> "usdc", mixedCase |-> TRUE]
OneAsset     == {Usdc}
TwoSpellings == {Usdc, UsdcMixed}

Base    == [family |-> "eip155", name |-> "base"]
Payee1M == [name |-> "payee1", mixedCase |-> TRUE]
Payee2  == [name |-> "payee2", mixedCase |-> FALSE]
NoNames == {}
OneNetwork == {Base}
TwoPayees  == {Payee1M, Payee2}
OneList    == {{Payee1M}}

CappedOrNot == {2, NoCap}
TotalLimits == [maxPerHour : {NoCap}, maxTotal : {1}]

\* Callers with every cap and no recipient, callers with a recipient and one cap,
\* and one that binds an id to other terms and whose own cap never lets it win.
SomeInputs ==
    { in \in ReserveInputs :
        \/ in.amount = 1 /\ in.fingerprint = "f" /\ in.payee = NoPayee
        \/ in.amount = 1 /\ in.fingerprint = "f" /\ in.maxPerHour = 2 /\ in.maxTotal = NoCap
        \/ /\ in.amount = 2 /\ in.fingerprint = "g"
           /\ in.maxPerHour = 1 /\ in.maxTotal = NoCap /\ in.payee = NoPayee }

Interchangeable == Permutations(Ids)
===============================================================================
