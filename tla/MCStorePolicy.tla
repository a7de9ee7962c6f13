----------------------------- MODULE MCStorePolicy -----------------------------
(* The ledger under an operator, in two families of histories: caps and    *)
(* freezes between callers who pay nobody in particular, and pins between  *)
(* callers who name their payee.  Each step is one of StorePolicy.         *)
EXTENDS MCMemorySpendStore, StorePolicy

VARIABLE focus    \* the family of histories: "caps" or "payees"

Base    == [family |-> "eip155", name |-> "base"]
Solana  == [family |-> "solana", name |-> "mainnet"]
Payee1  == [name |-> "payee1", mixedCase |-> FALSE]
Payee1M == [name |-> "payee1", mixedCase |-> TRUE]
Payee2  == [name |-> "payee2", mixedCase |-> FALSE]

TwoNetworks == {Base, Solana}
SpeltRecipients == {Payee1, Payee1M, Payee2}
SpeltAllowlists == {{Payee1M}, {Payee2, Payee1}}

\* Cumulative caps, and an hourly one below what the callers pass.
LowHour == [maxPerHour |-> 0, maxTotal |-> NoCap]
LowLimits == TotalLimits \cup {LowHour}

CapInputs   == { in \in ReserveInputs :
                   in.payee = NoPayee /\ in.enforcement = "tofu" /\ in.maxPerHour = 3 }
PayeeInputs == { in \in ReserveInputs :
                   in.amount = 1 /\ in.maxPerHour = 1 /\ in.maxTotal = NoCap /\ in.assetId = Usdc }

PolicyInit == PaidInit /\ focus \in {"caps", "payees"}

CapHistory ==
    /\ focus = "caps"
    /\ \/ \E in \in CapInputs : Reserve(in)
       \/ \E ref \in Refs : Commit(ref) \/ Release(ref) \/ Expose(ref)
       \/ \E ref \in Refs, outcome \in {"committed", "released"} : ResolveExposed(ref, outcome)
       \/ \E scope \in GovernedScopes : Freeze(scope) \/ Unfreeze(scope)
       \/ \E scope \in Scopes, assetId \in AssetIds :
              ResetCumulative(scope, assetId) \/ \E l \in TotalLimits : SetBudgetLimits(scope, assetId, l)
       \/ Tick
    /\ UNCHANGED paidTo

PayeeHistory ==
    /\ focus = "payees"
    /\ \/ \E in \in PayeeInputs : Granted(in) \/ NotGranted(in)
       \/ \E ref \in Refs : (Expose(ref) \/ Commit(ref)) /\ UNCHANGED paidTo
       \/ \E scope \in Scopes :
              /\ \/ SetBudgetLimits(scope, Usdc, LowHour)
                 \/ \E network \in Networks, list \in Allowlists : SetRecipientPins(scope, network, list)
                 \/ \E flag \in BOOLEAN : \/ SetRecipientAssertionRequired(scope, flag)
                                          \/ SetTofuEnabled(scope, flag)
              /\ NewPinsNewHistory
       \/ Tick /\ UNCHANGED paidTo

PolicyNext == (CapHistory \/ PayeeHistory) /\ UNCHANGED focus

PolicySpec == PolicyInit /\ [][PolicyNext]_<<vars, focus, paidTo>>
===============================================================================
