------------------------------ MODULE StorePolicy ------------------------------
(***************************************************************************)
(* The process-local ledger with a history of whom each scope paid: the    *)
(* recipients it granted reservations for since the pins it grants them    *)
(* under were last set.  Every step is one of the ledger.                  *)
(***************************************************************************)
EXTENDS MemorySpendStore

VARIABLE
    paidTo    \* per scope and network, the recipients granted under its pins

PaidInit == Init /\ paidTo = [sn \in Scopes \X Networks |-> {}]

\* A payee is tracked from the moment its network has pins.
Tracked(in) ==
    in.payee # NoPayee /\ PinsAfter(in)[<<in.policyScope, in.payee.network>>].source # "none"

Granted(in) ==
    /\ ReserveGranted(in)
    /\ paidTo' = IF Tracked(in)
                 THEN [paidTo EXCEPT ![<<in.policyScope, in.payee.network>>] = @ \cup {Presented(in)}]
                 ELSE paidTo

NotGranted(in) ==
    /\ ReserveUnchanged(in) \/ ReserveMisconfigured(in) \/ ReserveOverBudget(in)
    /\ UNCHANGED paidTo

\* Other pins start another history.
NewPinsNewHistory ==
    paidTo' = [sn \in DOMAIN pins |-> IF pins'[sn] = pins[sn] THEN paidTo[sn] ELSE {}]

PaidNext ==
    \/ \E in \in ReserveInputs : Granted(in) \/ NotGranted(in)
    \/ \E ref \in Refs : (Commit(ref) \/ Release(ref) \/ Expose(ref)) /\ UNCHANGED paidTo
    \/ \E lead \in QueryLeads : Query(lead) /\ UNCHANGED paidTo
    \/ Tick /\ UNCHANGED paidTo
    \/ AdminPlane /\ NewPinsNewHistory

PaidSpec == PaidInit /\ [][PaidNext]_<<vars, paidTo>>

-------------------------------------------------------------------------------
(* Properties.                                                             *)

\* Every payment a scope authorises on a network goes to a recipient of the pins
\* in force, and a first-use pin never moves to a second recipient: concurrent
\* first uses, refused claims and address casing included.
PinnedPayees ==
    \A sn \in Scopes \X Networks : pins[sn].source # "none" =>
        paidTo[sn] \subseteq { CanonicalizeRecipient(sn[2], r) : r \in pins[sn].recipients }
===============================================================================
