-------------------------- MODULE MCMemorySpendStore --------------------------
(* Small instances of the process-local ledger.                            *)
EXTENDS MemorySpendStore, TLC

\* Two spellings of one ERC-20 asset, and its canonical spelling alone.
Usdc      == [family |-> "eip155", name |-> "usdc", mixedCase |-> FALSE]
UsdcMixed == [family |-> "eip155", name |-> "usdc", mixedCase |-> TRUE]
OneAsset     == {Usdc}
TwoSpellings == {Usdc, UsdcMixed}

NoLimits    == {}
OneLimit    == {[maxPerHour |-> 2, maxTotal |-> NoCap]}
TotalLimits == [maxPerHour : {NoCap}, maxTotal : {1, 3}]
Uncapped   == {NoCap}
CappedOrNot == {3, NoCap}
NoNames    == {}

Interchangeable == Permutations(Ids)

\* operations/exposed-reconciliation.mdx:10-12: an exposed payment keeps
\* consuming the per-hour window until an operator resolves it.  Then what is
\* exposed, however old, and what is reserved would fit one hourly cap.
ExposedHoldsHourly ==
    \A sa \in Accounts :
        LET held  == ExposedKeys(reservations, sa) \cup ReservedKeys(reservations, sa, now)
            total == Total(held, reservations)
        IN  total = 0 \/ \E cap \in CallerHourCaps : total <= cap
===============================================================================
