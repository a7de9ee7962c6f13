----------------------------- MODULE SharedStores -----------------------------
(***************************************************************************)
(* The Redis and the Durable Object store under one history of calls.      *)
(*                                                                         *)
(* Both are offered as the same SpendStore, and the conformance suite of   *)
(* core/spend-store-contract.ts drives each through scripted calls.  Here  *)
(* every call is made to both, at the same backend time, in every order.   *)
(* A reply may be lost: the connection then delivers the call again.       *)
(***************************************************************************)
EXTENDS StoreCalls

CONSTANTS
    CallerInputs,    \* the reserve calls that are made
    GovernedScopes,  \* scopes the operator freezes, "*" among them
    MaxTime,         \* bound on the backend clock
    ResendWithin,    \* how long after it a call may be delivered again
    MaxDisturbances, \* bound on operator calls and lost replies in one history
    NoCall           \* nothing waits to be delivered again

ASSUME InputAssumption == CallerInputs \subseteq ReserveInputs

VARIABLES
    now, atomicGlobalFreeze,
    res, resIdx, cmt, cmtIdx, total, exposed, frozen, limits, pins, required, tofu,
    reservations, committed, counters, limitRows, frozenRows, pinRows, recipientPolicy,
    unanswered,      \* the call whose reply was lost, and when it was made
    disturbances     \* operator calls and lost replies so far

redisVars   == <<res, resIdx, cmt, cmtIdx, total, exposed, frozen, limits, pins, required, tofu>>
durableVars == <<reservations, committed, counters, limitRows, frozenRows, pinRows,
                 recipientPolicy>>
storeVars   == <<now, atomicGlobalFreeze, redisVars, durableVars>>
vars        == <<storeVars, unanswered, disturbances>>

R == INSTANCE RedisSpendStore WITH AliasIds <- {}
D == INSTANCE DurableSpendStore

Init == R!Init /\ D!Init /\ unanswered = NoCall /\ disturbances = 0

Disturb == disturbances < MaxDisturbances /\ disturbances' = disturbances + 1

-------------------------------------------------------------------------------
(* One call, made to both stores.                                          *)

SpendCalls ==
    [op : {"reserve"}, arg : CallerInputs]
      \cup [op : {"commit", "release", "expose"}, arg : Refs]
      \cup [op : {"resolveExposed"}, arg : Refs \X Outcomes \X Credentials]

Spend(c) ==
    \/ c.op = "reserve" /\ R!Reserve(c.arg) /\ D!Reserve(c.arg)
    \/ c.op = "commit" /\ R!Commit(c.arg) /\ D!Commit(c.arg)
    \/ c.op = "release" /\ R!Release(c.arg) /\ D!Release(c.arg)
    \/ c.op = "expose" /\ R!Expose(c.arg) /\ D!Expose(c.arg)
    \/ /\ c.op = "resolveExposed"
       /\ R!ResolveExposed(c.arg[1], c.arg[2], c.arg[3])
       /\ D!ResolveExposed(c.arg[1], c.arg[2], c.arg[3])

IdOf(c) == IF c.op = "resolveExposed" THEN c.arg[1].reservationId ELSE c.arg.reservationId

\* Ids are UUIDv7: nobody reserves anew under the id of a call still under way.
Call(c) ==
    /\ c.op = "reserve" /\ unanswered # NoCall => IdOf(c) # IdOf(unanswered.call)
    /\ Spend(c)
    /\ UNCHANGED <<unanswered, disturbances>>

Accepted(c) ==
    Ok = CASE c.op = "reserve"        -> R!ReserveAnswer(c.arg)
           [] c.op = "commit"         -> R!CommitAnswer(c.arg)
           [] c.op = "release"        -> R!ReleaseAnswer(c.arg)
           [] c.op = "expose"         -> R!ExposeAnswer(c.arg)
           [] c.op = "resolveExposed" -> R!ResolveAnswer(c.arg[1], c.arg[3])

\* The call was done and its reply lost.  (A refused call changed nothing.)
CallUnanswered(c) ==
    /\ Disturb
    /\ unanswered = NoCall
    /\ Accepted(c)
    /\ Spend(c)
    /\ unanswered' = [call |-> c, at |-> now]

\* ioredis sends an unfulfilled command again when it has reconnected.
Resend ==
    /\ unanswered # NoCall
    /\ now <= unanswered.at + ResendWithin
    /\ Spend(unanswered.call)
    /\ unanswered' = NoCall
    /\ UNCHANGED disturbances

Query(sa) ==
    /\ R!GetBudgetState(sa)
    /\ D!GetBudgetState(sa)
    /\ UNCHANGED <<unanswered, disturbances>>

Administer(cred) ==
    \/ \E scope \in GovernedScopes :
           \/ R!Freeze(scope, cred) /\ D!Freeze(scope, cred)
           \/ R!Unfreeze(scope, cred) /\ D!Unfreeze(scope, cred)
    \/ \E scope \in Scopes, assetId \in AssetIds :
           \/ \E l \in AdminLimits : /\ R!SetBudgetLimits(scope, assetId, l, cred)
                                     /\ D!SetBudgetLimits(scope, assetId, l, cred)
           \/ /\ R!ResetCumulative(scope, assetId, cred)
              /\ D!ResetCumulative(scope, assetId, cred)
    \/ \E scope \in Scopes, network \in Networks, list \in Allowlists :
           /\ R!SetRecipientPins(scope, network, list, cred)
           /\ D!SetRecipientPins(scope, network, list, cred)
    \/ \E scope \in Scopes, on \in BOOLEAN :
           /\ Networks # {}
           /\ \/ /\ R!SetRecipientAssertionRequired(scope, on, cred)
                 /\ D!SetRecipientAssertionRequired(scope, on, cred)
              \/ R!SetTofuEnabled(scope, on, cred) /\ D!SetTofuEnabled(scope, on, cred)

Tick ==
    /\ now < MaxTime
    /\ now' = now + 1
    /\ UNCHANGED <<atomicGlobalFreeze, redisVars, durableVars, unanswered, disturbances>>

Next ==
    \/ \E c \in SpendCalls : Call(c) \/ CallUnanswered(c)
    \/ Resend
    \/ \E sa \in Accounts : Query(sa)
    \/ \E cred \in Credentials :
           /\ Administer(cred)
           /\ IF cred = "admin" THEN Disturb ELSE UNCHANGED disturbances
           /\ UNCHANGED unanswered
    \/ Tick

Spec == Init /\ [][Next]_vars

-------------------------------------------------------------------------------
(* Properties.                                                             *)

\* Both stores keep their types and keys.
TypeOK == R!TypeOK /\ D!TypeOK

\* The two stores cannot be told apart: in every state either can reach, every
\* call that could come next is answered the same by both, with the same typed
\* error and reason, and so is every read.
SameAnswers ==
    /\ \A in \in CallerInputs : R!ReserveAnswer(in) = D!ReserveAnswer(in)
    /\ \A ref \in Refs :
           /\ R!CommitAnswer(ref) = D!CommitAnswer(ref)
           /\ R!ReleaseAnswer(ref) = D!ReleaseAnswer(ref)
           /\ R!ExposeAnswer(ref) = D!ExposeAnswer(ref)
           /\ \A cred \in Credentials : R!ResolveAnswer(ref, cred) = D!ResolveAnswer(ref, cred)
    /\ \A sa \in Accounts :
           /\ R!BudgetState(sa) = D!BudgetState(sa)
           /\ R!ListExposed(sa) = D!ListExposed(sa)
           /\ \A cred \in Credentials : R!GetBudgetLimits(sa, cred) = D!GetBudgetLimits(sa, cred)
    /\ \A scope \in Scopes :
           /\ R!FrozenFor(scope) = D!IsFrozen(scope)
           /\ R!GetRecipientPolicy(scope) = D!GetRecipientPolicy(scope)
           /\ \A network \in Networks :
                  R!GetRecipientPins(scope, network) = D!GetRecipientPins(scope, network)

\* A call that was done and is delivered again, late and after other calls,
\* moves no money: both counters and every entry stay, and no record that was
\* exposed, settled or expired in between is revived.
ResendMovesNoMoney ==
    [][Resend => /\ UNCHANGED <<total, exposed, cmt>>
                 /\ \A k \in Keys : R!StateNow(k) # "absent" =>
                        R!StateNow(k)' \in {R!StateNow(k), "absent"}]_vars

\* In Redis the hashes, their indices and the counters agree.
LedgerConsistent == R!LedgerConsistent

\* An administered cumulative cap binds callers that pass none: what an account
\* has spent, exposed and reserved grows only up to the cap in force.
ConsumedRecords(sa) ==
    { k \in KeysOf(sa) : res[k].state = "exposed" \/ R!StateNow(k) = "reserved" }
Consumed(sa) == total[sa] + AtomicTotal(ConsumedRecords(sa), [k \in Keys |-> res[k].amount])

AdministeredCapBinds ==
    [][\A sa \in Accounts : Consumed(sa)' > Consumed(sa) =>
           limits[sa].maxTotal = NoCap \/ Consumed(sa)' <= limits[sa].maxTotal]_vars

\* Each store keeps the contract of a spend store: SameAnswers carries what is
\* checked of Redis over to the Durable Object.
RedisImplementsContract == R!ImplementsContract
===============================================================================
