------------------------------ MODULE SpendStore ------------------------------
(***************************************************************************)
(* What tx402 asks of any spend store: the contract of the interfaces      *)
(* SpendStore and SpendStoreAdmin of core/ledger.ts, as far as it concerns *)
(* the lifetime budget.                                                    *)
(*                                                                         *)
(* A record is reserved under a cumulative cap, exposed before it is       *)
(* transmitted, and committed or released once.  When records lapse or are *)
(* forgotten is left to the store, so every operation may also age the     *)
(* records it is not about; exposed ones never age.                        *)
(***************************************************************************)
EXTENDS AtomicAmounts, Integers

CONSTANTS
    Accounts,   \* pairs of a policy scope and an asset
    Ids,        \* reservation ids
    Caps,       \* cumulative caps reserve may be asked to respect
    NoCap       \* an absent cap

VARIABLES
    record,     \* [state, amount] per account and reservation id
    spent       \* lifetime committed, per account

storeVars == <<record, spent>>

Keys       == Accounts \X Ids
KeysOf(a)  == { k \in Keys : k[1] = a }
NoRecord   == [state |-> "absent", amount |-> 0]
Settled    == {"committed", "released", "expired"}
Held       == {"reserved", "exposed"}
Record     == [state : {"absent"} \cup Held \cup Settled, amount : Nat]

\* What an account holds of its budget beyond what it has spent.
HeldKeys(r, a) == { k \in KeysOf(a) : r[k].state \in Held }
HeldTotal(r, a) == AtomicTotal(HeldKeys(r, a), [k \in Keys |-> r[k].amount])

InitStore == /\ record = [k \in Keys |-> NoRecord]
             /\ spent = [a \in Accounts |-> 0]

\* A reservation may lapse, and what has lapsed or settled may be forgotten.
Aged(old, new) ==
    \/ new = old
    \/ old.state = "reserved" /\ new = [old EXCEPT !.state = "expired"]
    \/ old.state \in Settled \cup {"reserved"} /\ new = NoRecord

OthersAge(k) == /\ record' \in [Keys -> Record]
                /\ \A j \in Keys \ {k} : Aged(record[j], record'[j])

Granted(k) ==
    /\ record[k] = NoRecord
    /\ record'[k].state = "reserved"
    /\ OthersAge(k)
    /\ \E cap \in Caps : cap = NoCap \/ spent[k[1]] + HeldTotal(record', k[1]) <= cap
    /\ UNCHANGED spent

Fenced(k) ==
    /\ record[k].state = "reserved"
    /\ record'[k] = [record[k] EXCEPT !.state = "exposed"]
    /\ OthersAge(k)
    /\ UNCHANGED spent

Committed(k) ==
    /\ record[k].state \in Held
    /\ record'[k] = [record[k] EXCEPT !.state = "committed"]
    /\ OthersAge(k)
    /\ spent' = [spent EXCEPT ![k[1]] = @ + record[k].amount]

Released(k) ==
    /\ record[k].state \in Held
    /\ record'[k] = [record[k] EXCEPT !.state = "released"]
    /\ OthersAge(k)
    /\ UNCHANGED spent

\* Refusals, replays and reads change nothing but the age of records.
OnlyAged ==
    /\ record' \in [Keys -> Record]
    /\ \A k \in Keys : Aged(record[k], record'[k])
    /\ UNCHANGED spent

SpentReset(a) ==
    /\ spent' = [spent EXCEPT ![a] = 0]
    /\ UNCHANGED record

NextStore ==
    \/ \E k \in Keys : Granted(k) \/ Fenced(k) \/ Committed(k) \/ Released(k)
    \/ \E a \in Accounts : SpentReset(a)
    \/ OnlyAged

ContractSpec == InitStore /\ [][NextStore]_storeVars
===============================================================================
