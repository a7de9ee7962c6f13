--------------------------- MODULE MemorySpendStore ---------------------------
(***************************************************************************)
(* The process-local spend ledger of tx402, core/ledger.ts:                *)
(* class MemorySpendStore, data plane and admin plane on one object.       *)
(*                                                                         *)
(* A payment is reserved, then exposed just before its signature is sent,  *)
(* then committed or released.  A reservation that is neither exposed nor  *)
(* settled expires; an exposed one never does.  Two caps bound spending    *)
(* per scope and asset: one over a rolling window, one over a lifetime.    *)
(*                                                                         *)
(* Every method runs in one event-loop turn, so each is one action here.   *)
(* All of them sweep the WHOLE ledger first (#maintain), with the time the *)
(* caller passes.  `now' is the caller's clock.                            *)
(***************************************************************************)
EXTENDS AtomicAmounts, Integers

CONSTANTS
    Scopes,            \* policy scopes: normalized merchant hosts
    AssetIds,          \* CAIP-19 ids as callers write them: [family, name, mixedCase]
    Ids,               \* reservation ids
    Fingerprints,      \* request fingerprints
    Amounts,           \* amounts a caller reserves
    CallerHourCaps,    \* maxPerHourAtomic values callers pass
    CallerTotalCaps,   \* maxTotalAtomic values callers pass; NoCap when absent
    AdminLimits,       \* what setBudgetLimits is called with: [maxPerHour, maxTotal]
    Networks,          \* CAIP-2 networks: [family, name]
    Recipients,        \* recipient addresses as written: [name, mixedCase]
    Allowlists,        \* recipient lists setRecipientPins is called with
    Enforcements,      \* callers' modes, among "off", "allowlist", "tofu"
    GovernedScopes,    \* scopes the operator freezes or sets recipient policy for
    TTL,               \* RESERVATION_TTL_MS
    Window,            \* ROLLING_WINDOW_MS
    ClockSteps,        \* how far the caller's clock may move at once
    MaxTime,           \* bound on the clock
    QueryLeads,        \* how far ahead of the clock a read may be dated
    NoCap,             \* an absent cap
    NoPayee            \* no recipient presented

ASSUME TimeAssumption  == TTL \in Nat \ {0} /\ Window \in Nat /\ TTL <= Window
ASSUME ClockAssumption == ClockSteps \subseteq Int /\ QueryLeads \subseteq Nat
ASSUME AmountAssumption == /\ Amounts \subseteq Nat \ {0}
                           /\ CallerHourCaps \subseteq Nat \ {0}
                           /\ CallerTotalCaps \subseteq (Nat \ {0}) \cup {NoCap}
ASSUME CapAssumption == /\ NoCap \notin Nat
                        /\ AdminLimits \subseteq [maxPerHour : Nat \cup {NoCap},
                                                  maxTotal   : Nat \cup {NoCap}]
ASSUME FiniteAssumption == /\ IsFiniteSet(Scopes) /\ IsFiniteSet(AssetIds)
                           /\ IsFiniteSet(Ids)
ASSUME AssetAssumption ==
    \A a \in AssetIds :
        a = [family |-> a.family, name |-> a.name, mixedCase |-> a.mixedCase]
ASSUME RecipientAssumption == Allowlists \subseteq SUBSET Recipients

VARIABLES
    now,               \* the caller's clock, nowEpochMs
    reservations,      \* #reservations
    entries,           \* #entries
    cumulative,        \* #cumulative: lifetime committed, per account
    exposedTotal,      \* #exposedTotal: unresolved exposed, per account
    frozen,            \* #frozen
    limits,            \* #limits: administered caps, per account
    pins,              \* #pins, per scope and network
    recipientPolicy    \* #recipientPolicy, per scope

ledger  == <<reservations, entries, cumulative, exposedTotal>>
admin   == <<frozen, limits, pins, recipientPolicy>>
vars    == <<now, ledger, admin>>

-------------------------------------------------------------------------------
(* Keys.  An eip155 address is compared in lower case, any other verbatim. *)

Lowercase(a) == [a EXCEPT !.mixedCase = FALSE]

\* Mutant of CanonicalizeAsset: the ledger is keyed by the id as it was written.
AssetVerbatim(a) == a

CanonicalizeAsset(a) == IF a.family = "eip155" THEN Lowercase(a) ELSE a

CanonicalizeRecipient(network, r) ==
    IF network.family = "eip155" THEN Lowercase(r) ELSE r

Assets   == { CanonicalizeAsset(a) : a \in AssetIds }
Accounts == Scopes \X Assets
Keys     == Accounts \X Ids

Refs        == [policyScope : Scopes, assetId : AssetIds, reservationId : Ids]
Account(x)  == <<x.policyScope, CanonicalizeAsset(x.assetId)>>
Key(x)      == <<Account(x), x.reservationId>>
KeysOf(sa)  == { k \in Keys : k[1] = sa }

-------------------------------------------------------------------------------
(* Records.  A key the map does not hold is mapped to an absent record.    *)

Terminal == {"committed", "released", "expired"}
States   == {"absent", "reserved", "exposed"} \cup Terminal

NoReservation == [state |-> "absent", fingerprint |-> "none", amount |-> 0,
                  createdAt |-> 0, expiresAt |-> 0]
NoEntry       == [amount |-> 0, committedAt |-> 0]

Reservation == [state : States, fingerprint : Fingerprints \cup {"none"},
                amount : Nat, createdAt : Int, expiresAt : Int]
Entry       == [amount : Nat, committedAt : Int]

Payees  == [network : Networks, recipient : Recipients] \cup {NoPayee}
NoPin   == [recipients |-> {}, source |-> "none"]
NoLimit == [maxPerHour |-> NoCap, maxTotal |-> NoCap]
AllScopes == "*"

Init ==
    /\ now = 0
    /\ reservations = [k \in Keys |-> NoReservation]
    /\ entries = [k \in Keys |-> NoEntry]
    /\ cumulative = [sa \in Accounts |-> 0]
    /\ exposedTotal = [sa \in Accounts |-> 0]
    /\ frozen = {}
    /\ limits = [sa \in Accounts |-> NoLimit]
    /\ pins = [sn \in Scopes \X Networks |-> NoPin]
    /\ recipientPolicy = [s \in Scopes |-> [tofuEnabled |-> FALSE,
                                            recipientAssertionRequired |-> FALSE]]

-------------------------------------------------------------------------------
(* #maintain(t): expire what outlived its TTL, forget what left the window.*)
(* An exposed record is neither expired nor forgotten.                     *)

\* Mutant of ExpireAt: the TTL applies to every live record.
ExpireLive(r, t) ==
    IF r.state \in {"reserved", "exposed"} /\ r.expiresAt <= t
    THEN [r EXCEPT !.state = "expired"] ELSE r

ExpireAt(r, t) ==
    IF r.state = "reserved" /\ r.expiresAt <= t
    THEN [r EXCEPT !.state = "expired"] ELSE r

StaleEntry(e, t) == e # NoEntry /\ e.committedAt < t - Window

\* Mutant of Forgettable: age alone decides, whatever the entry says.
ForgettableByAge(r, e, t) == r.state \in Terminal /\ r.createdAt < t - Window

Forgettable(r, e, t) ==
    /\ r.state \in Terminal
    /\ r.createdAt < t - Window
    /\ r.state = "committed" => e = NoEntry \/ StaleEntry(e, t)

MaintainedReservation(k, t) ==
    LET r == ExpireAt(reservations[k], t)
    IN  IF Forgettable(r, entries[k], t) THEN NoReservation ELSE r

MaintainedReservations(t) == [k \in Keys |-> MaintainedReservation(k, t)]

MaintainedEntries(t) ==
    [k \in Keys |-> IF StaleEntry(entries[k], t) THEN NoEntry ELSE entries[k]]

Maintain(t) ==
    /\ reservations' = MaintainedReservations(t)
    /\ entries' = MaintainedEntries(t)

-------------------------------------------------------------------------------
(* #matching: what an account has committed, reserved and exposed at t.    *)

\* The sum of the amounts the map f holds under the keys of S.
Total(S, f) == AtomicTotal(S, [k \in Keys |-> f[k].amount])

InWindow(at, t) == t - Window <= at /\ at <= t

CommittedKeys(r, e, sa, t) ==
    { k \in KeysOf(sa) : /\ r[k].state = "committed"
                         /\ e[k] # NoEntry
                         /\ InWindow(e[k].committedAt, t) }

ReservedKeys(r, sa, t) ==
    { k \in KeysOf(sa) : /\ r[k].state = "reserved"
                         /\ InWindow(r[k].createdAt, t)
                         /\ r[k].expiresAt > t }

ExposedRollingKeys(r, sa, t) ==
    { k \in KeysOf(sa) : r[k].state = "exposed" /\ InWindow(r[k].createdAt, t) }

\* Mutant of RollingConsumed: exposed money leaves the hourly sum at once.
RollingWithoutExposed(r, e, sa, t) ==
    Total(CommittedKeys(r, e, sa, t), e) + Total(ReservedKeys(r, sa, t), r)

RollingConsumed(r, e, sa, t) ==
    Total(CommittedKeys(r, e, sa, t), e)
      + Total(ReservedKeys(r, sa, t), r)
      + Total(ExposedRollingKeys(r, sa, t), r)

CumulativeConsumed(r, sa, t) ==
    cumulative[sa] + exposedTotal[sa] + Total(ReservedKeys(r, sa, t), r)

-------------------------------------------------------------------------------
(* reserve(in).  The checks run in the order of the code; each refusal     *)
(* says what it has already changed by the time it throws.                 *)

ReserveInputs ==
    [policyScope : Scopes, assetId : AssetIds, reservationId : Ids,
     fingerprint : Fingerprints, amount : Amounts,
     maxPerHour : CallerHourCaps, maxTotal : CallerTotalCaps,
     payee : Payees, enforcement : Enforcements]

\* Mutant of Known: an id whose record has settled may be bound again.
KnownLive(in) == reservations[Key(in)].state \in {"reserved", "exposed"}

\* Step 1: the id names a record already: replayed, or refused if it differs.
Known(in) == reservations[Key(in)] # NoReservation

\* Step 2: the scope, or every scope, is frozen.
FrozenFor(scope) == scope \in frozen \/ AllScopes \in frozen

\* Step 3: the recipient against the scope's administered or claimed pins.
Presented(in) == CanonicalizeRecipient(in.payee.network, in.payee.recipient)
PinOf(in)     == pins[<<in.policyScope, in.payee.network>>]
Expected(in)  == { CanonicalizeRecipient(in.payee.network, r) :
                     r \in PinOf(in).recipients }

\* Mutant of RecipientRefused: only an administered list is enforced.
RefusedByAllowlist(in) ==
    \/ /\ in.payee = NoPayee
       /\ recipientPolicy[in.policyScope].recipientAssertionRequired
    \/ /\ in.payee # NoPayee
       /\ PinOf(in).source = "admin-allowlist"
       /\ Presented(in) \notin Expected(in)

RecipientRefused(in) ==
    \/ /\ in.payee = NoPayee
       /\ recipientPolicy[in.policyScope].recipientAssertionRequired
    \/ /\ in.payee # NoPayee
       /\ PinOf(in).source # "none"
       /\ Presented(in) \notin Expected(in)

WantsClaim(in) == /\ in.payee # NoPayee
                  /\ PinOf(in).source = "none"
                  /\ in.enforcement = "tofu"

TofuUnprovisioned(in) ==
    WantsClaim(in) /\ ~recipientPolicy[in.policyScope].tofuEnabled

PinsAfter(in) ==
    IF WantsClaim(in)
    THEN [pins EXCEPT ![<<in.policyScope, in.payee.network>>] =
                         [recipients |-> {Presented(in)}, source |-> "tofu"]]
    ELSE pins

\* Step 4: a caller cap may not exceed the administered one.
Exceeds(caller, administered) ==
    caller # NoCap /\ administered # NoCap /\ caller > administered

CapsMisconfigured(in) ==
    \/ Exceeds(in.maxPerHour, limits[Account(in)].maxPerHour)
    \/ Exceeds(in.maxTotal, limits[Account(in)].maxTotal)

\* Mutant of EffectiveMaxTotal: only the caller's own cap is compared.
CallerMaxTotal(in) == in.maxTotal

EffectiveMaxTotal(in) ==
    IF in.maxTotal # NoCap THEN in.maxTotal ELSE limits[Account(in)].maxTotal

\* Steps 5 and 6: the two caps, over the swept ledger.
OverHour(in, r, e) ==
    RollingConsumed(r, e, Account(in), now) + in.amount > in.maxPerHour

\* Mutant of OverTotal: exposed money is in no term of the cumulative sum.
OverTotalUnexposed(in, r) ==
    /\ EffectiveMaxTotal(in) # NoCap
    /\ cumulative[Account(in)] + Total(ReservedKeys(r, Account(in), now), r) + in.amount
         > EffectiveMaxTotal(in)

OverTotal(in, r) ==
    /\ EffectiveMaxTotal(in) # NoCap
    /\ CumulativeConsumed(r, Account(in), now) + in.amount > EffectiveMaxTotal(in)

OverBudget(in, r, e) == OverHour(in, r, e) \/ OverTotal(in, r)

\* Mutant of Admitted: the freeze of every scope is not looked up.
AdmittedScopeOnly(in) == /\ ~Known(in)
                         /\ in.policyScope \notin frozen
                         /\ ~RecipientRefused(in)
                         /\ ~TofuUnprovisioned(in)

Admitted(in) == /\ ~Known(in)
                /\ ~FrozenFor(in.policyScope)
                /\ ~RecipientRefused(in)
                /\ ~TofuUnprovisioned(in)

ReserveUnchanged(in) == ~Admitted(in) /\ UNCHANGED vars

\* A TOFU claim made in step 3 outlives the refusals of steps 4 to 6.
ReserveMisconfigured(in) ==
    /\ Admitted(in)
    /\ CapsMisconfigured(in)
    /\ pins' = PinsAfter(in)
    /\ UNCHANGED <<now, ledger, frozen, limits, recipientPolicy>>

ReserveOverBudget(in) ==
    /\ Admitted(in)
    /\ ~CapsMisconfigured(in)
    /\ OverBudget(in, MaintainedReservations(now), MaintainedEntries(now))
    /\ pins' = PinsAfter(in)
    /\ Maintain(now)
    /\ UNCHANGED <<now, cumulative, exposedTotal, frozen, limits, recipientPolicy>>

NewReservation(in) ==
    [state |-> "reserved", fingerprint |-> in.fingerprint, amount |-> in.amount,
     createdAt |-> now, expiresAt |-> now + TTL]

ReserveGranted(in) ==
    /\ Admitted(in)
    /\ ~CapsMisconfigured(in)
    /\ ~OverBudget(in, MaintainedReservations(now), MaintainedEntries(now))
    /\ pins' = PinsAfter(in)
    /\ reservations' = [MaintainedReservations(now) EXCEPT ![Key(in)] = NewReservation(in)]
    /\ entries' = MaintainedEntries(now)
    /\ UNCHANGED <<now, cumulative, exposedTotal, frozen, limits, recipientPolicy>>

Reserve(in) == \/ ReserveUnchanged(in)
               \/ ReserveMisconfigured(in)
               \/ ReserveOverBudget(in)
               \/ ReserveGranted(in)

-------------------------------------------------------------------------------
(* commit, release, expose and resolveExposed on a reservation ref.        *)

StateNow(ref) == MaintainedReservations(now)[Key(ref)].state

AmountNow(ref) == MaintainedReservations(now)[Key(ref)].amount

\* The record moves to state s in the swept ledger.
MoveTo(ref, s) ==
    reservations' = [MaintainedReservations(now) EXCEPT ![Key(ref)].state = s]

AddExposed(ref, delta) ==
    exposedTotal' = [exposedTotal EXCEPT ![Account(ref)] = @ + delta]

\* A method that refuses, or replays a terminal record, has still swept.
SweepOnly == Maintain(now) /\ UNCHANGED <<now, cumulative, exposedTotal, admin>>

\* An entry answers a repeated commit at once, before the sweep.
CommitReplay(ref) == entries[Key(ref)] # NoEntry /\ UNCHANGED vars

CommitRefused(ref) ==
    /\ entries[Key(ref)] = NoEntry
    /\ StateNow(ref) \in {"absent", "released", "expired"}
    /\ SweepOnly

\* Mutant of CommitApplied: a reservation that lapsed still commits.
CommitLapsed(ref) ==
    /\ entries[Key(ref)] = NoEntry
    /\ StateNow(ref) \notin {"absent", "released"}
    /\ MoveTo(ref, "committed")
    /\ entries' = [MaintainedEntries(now) EXCEPT ![Key(ref)] =
                     [amount |-> AmountNow(ref), committedAt |-> now]]
    /\ cumulative' = [cumulative EXCEPT ![Account(ref)] = @ + AmountNow(ref)]
    /\ AddExposed(ref, IF StateNow(ref) = "exposed" THEN - AmountNow(ref) ELSE 0)
    /\ UNCHANGED <<now, admin>>

CommitApplied(ref) ==
    /\ entries[Key(ref)] = NoEntry
    /\ StateNow(ref) \notin {"absent", "released", "expired"}
    /\ MoveTo(ref, "committed")
    /\ entries' = [MaintainedEntries(now) EXCEPT ![Key(ref)] =
                     [amount |-> AmountNow(ref), committedAt |-> now]]
    /\ cumulative' = [cumulative EXCEPT ![Account(ref)] = @ + AmountNow(ref)]
    /\ AddExposed(ref, IF StateNow(ref) = "exposed" THEN - AmountNow(ref) ELSE 0)
    /\ UNCHANGED <<now, admin>>

Commit(ref) == CommitReplay(ref) \/ CommitRefused(ref) \/ CommitApplied(ref)

\* Mutant of ReleaseApplied: releasing an exposed record keeps it in the total.
ReleaseKeepsTotal(ref) ==
    /\ StateNow(ref) \in {"reserved", "exposed"}
    /\ MoveTo(ref, "released")
    /\ entries' = MaintainedEntries(now)
    /\ UNCHANGED <<now, cumulative, exposedTotal, admin>>

ReleaseApplied(ref) ==
    /\ StateNow(ref) \in {"reserved", "exposed"}
    /\ MoveTo(ref, "released")
    /\ entries' = MaintainedEntries(now)
    /\ AddExposed(ref, IF StateNow(ref) = "exposed" THEN - AmountNow(ref) ELSE 0)
    /\ UNCHANGED <<now, cumulative, admin>>

Release(ref) == \/ StateNow(ref) \notin {"reserved", "exposed"} /\ SweepOnly
                \/ ReleaseApplied(ref)

ExposeApplied(ref) ==
    /\ StateNow(ref) = "reserved"
    /\ MoveTo(ref, "exposed")
    /\ entries' = MaintainedEntries(now)
    /\ AddExposed(ref, AmountNow(ref))
    /\ UNCHANGED <<now, cumulative, admin>>

Expose(ref) == \/ StateNow(ref) # "reserved" /\ SweepOnly
               \/ ExposeApplied(ref)

ResolveExposed(ref, outcome) ==
    \/ StateNow(ref) # "exposed" /\ SweepOnly
    \/ StateNow(ref) = "exposed" /\ outcome = "committed" /\ Commit(ref)
    \/ StateNow(ref) = "exposed" /\ outcome = "released" /\ Release(ref)

-------------------------------------------------------------------------------
(* Reads.  getBudgetState and listExposed sweep with the query's time.     *)

Query(lead) ==
    /\ Maintain(now + lead)
    /\ UNCHANGED <<now, cumulative, exposedTotal, admin>>

-------------------------------------------------------------------------------
(* The admin plane.                                                        *)

Freeze(scope) ==
    /\ frozen' = frozen \cup {scope}
    /\ UNCHANGED <<now, ledger, limits, pins, recipientPolicy>>

Unfreeze(scope) ==
    /\ frozen' = frozen \ {scope}
    /\ UNCHANGED <<now, ledger, limits, pins, recipientPolicy>>

SetBudgetLimits(scope, assetId, l) ==
    /\ limits' = [limits EXCEPT ![<<scope, CanonicalizeAsset(assetId)>>] = l]
    /\ UNCHANGED <<now, ledger, frozen, pins, recipientPolicy>>

SetRecipientPins(scope, network, recipients) ==
    /\ pins' = [pins EXCEPT ![<<scope, network>>] =
                  [recipients |-> recipients, source |-> "admin-allowlist"]]
    /\ UNCHANGED <<now, ledger, frozen, limits, recipientPolicy>>

SetRecipientAssertionRequired(scope, required) ==
    /\ recipientPolicy' =
         [recipientPolicy EXCEPT ![scope].recipientAssertionRequired = required]
    /\ UNCHANGED <<now, ledger, frozen, limits, pins>>

SetTofuEnabled(scope, enabled) ==
    /\ recipientPolicy' = [recipientPolicy EXCEPT ![scope].tofuEnabled = enabled]
    /\ UNCHANGED <<now, ledger, frozen, limits, pins>>

ResetCumulative(scope, assetId) ==
    /\ cumulative' = [cumulative EXCEPT ![<<scope, CanonicalizeAsset(assetId)>>] = 0]
    /\ UNCHANGED <<now, reservations, entries, exposedTotal, admin>>

-------------------------------------------------------------------------------
Tick ==
    \E d \in ClockSteps :
        /\ now + d \in 0 .. MaxTime
        /\ now' = now + d
        /\ UNCHANGED <<ledger, admin>>

DataPlane ==
    \/ \E in \in ReserveInputs : Reserve(in)
    \/ \E ref \in Refs : Commit(ref) \/ Release(ref) \/ Expose(ref)
    \/ \E lead \in QueryLeads : Query(lead)

AdminPlane ==
    \/ \E ref \in Refs, outcome \in {"committed", "released"} :
           ResolveExposed(ref, outcome)
    \/ \E scope \in GovernedScopes : Freeze(scope) \/ Unfreeze(scope)
    \/ \E scope \in Scopes, assetId \in AssetIds :
           \/ \E l \in AdminLimits : SetBudgetLimits(scope, assetId, l)
           \/ ResetCumulative(scope, assetId)
    \/ \E scope \in Scopes \cap GovernedScopes :
           \/ \E network \in Networks, list \in Allowlists :
                  SetRecipientPins(scope, network, list)
           \/ \E flag \in BOOLEAN : \/ SetRecipientAssertionRequired(scope, flag)
                                    \/ SetTofuEnabled(scope, flag)

Next == Tick \/ DataPlane \/ AdminPlane

Spec == Init /\ [][Next]_vars

\* One process, one clock that never steps back, and no read dated ahead of it.
OneClock == ClockSteps \subseteq Nat /\ QueryLeads = {0}

-------------------------------------------------------------------------------
(* Properties.                                                             *)

\* Every map keeps its shape.
LedgerTypeOK ==
    /\ now \in Int
    /\ reservations \in [Keys -> Reservation]
    /\ entries \in [Keys -> Entry]
    /\ cumulative \in [Accounts -> Int]
    /\ exposedTotal \in [Accounts -> Int]

AdminTypeOK ==
    /\ frozen \subseteq Scopes \cup GovernedScopes
    /\ limits \in [Accounts -> [maxPerHour : Nat \cup {NoCap}, maxTotal : Nat \cup {NoCap}]]
    /\ pins \in [Scopes \X Networks -> [recipients : SUBSET (Recipients \cup
                    { Lowercase(r) : r \in Recipients }),
                    source : {"none", "admin-allowlist", "tofu"}]]
    /\ recipientPolicy \in [Scopes -> [tofuEnabled : BOOLEAN,
                                       recipientAssertionRequired : BOOLEAN]]

TypeOK == LedgerTypeOK /\ AdminTypeOK

ExposedKeys(r, sa) == { k \in KeysOf(sa) : r[k].state = "exposed" }

\* The lifetime exposed accumulator, moved by four methods and never rebuilt
\* from the records, is exactly what the exposed records add up to.
ExposedTotalExact ==
    \A sa \in Accounts :
        exposedTotal[sa] = Total(ExposedKeys(reservations, sa), reservations)

\* #reservations and #entries are pruned by different tests, yet a record is
\* committed exactly as long as its entry is there, and for the same amount:
\* no committed money drops out of the rolling hour because one map forgot it.
EntriesMatchRecords ==
    \A k \in Keys :
        /\ reservations[k].state = "committed" <=> entries[k] # NoEntry
        /\ entries[k] # NoEntry => entries[k].amount = reservations[k].amount

\* When every caller passes a cumulative cap, what an account has committed
\* (since the operator's last reset), has exposed and holds reserved never
\* exceeds the largest of them: no path from reserved to exposed to committed
\* drops an amount between two terms of the sum reserve compares.
CumulativeCeiling ==
    NoCap \notin CallerTotalCaps =>
        \A sa \in Accounts :
            \/ CumulativeConsumed(reservations, sa, now) = 0
            \/ \E cap \in CallerTotalCaps :
                   CumulativeConsumed(reservations, sa, now) <= cap

\* What was authorised within the last window and not given back.
AuthorisedKeys(r, sa, t) ==
    { k \in KeysOf(sa) :
        /\ r[k].createdAt >= t - Window
        /\ \/ r[k].state \in {"exposed", "committed"}
           \/ r[k].state = "reserved" /\ r[k].expiresAt > t }

\* Spending authorised within any one window stays under the hourly cap,
\* through every sweep, expiry, commit and reuse of an id in that window.
HourlyCeiling ==
    \A sa \in Accounts :
        LET total == Total(AuthorisedKeys(reservations, sa, now), reservations)
        IN  total = 0 \/ \E cap \in CallerHourCaps : total <= cap

\* Maybe-settled money is never swept away: an exposed record stays, whatever
\* the clock does, until a commit, a release or an operator settles it.
ExposedHeld ==
    [][\A k \in Keys : reservations[k].state = "exposed" =>
           reservations'[k].state \in {"exposed", "committed", "released"}]_vars

\* While a record is held its id stands for the same spend, and a settled one for
\* the same outcome: neither a replay, nor a late call of another kind, nor a sweep
\* in the same turn binds new terms to it, renews its lease or settles it again
\* differently.
ImmutableTerms ==
    [][\A k \in Keys :
           reservations[k] # NoReservation /\ reservations'[k] # NoReservation =>
               /\ reservations'[k].amount = reservations[k].amount
               /\ reservations'[k].fingerprint = reservations[k].fingerprint
               /\ reservations'[k].createdAt = reservations[k].createdAt
               /\ reservations'[k].expiresAt = reservations[k].expiresAt
               /\ reservations[k].state \in Terminal =>
                      reservations'[k].state = reservations[k].state]_vars

\* A lifetime counter grows only when an unsettled record becomes committed,
\* by that record's amount: however commit, release, expose and resolveExposed
\* are replayed, no payment is counted twice.
CommitCountsOnce ==
    [][\A sa \in Accounts : cumulative'[sa] > cumulative[sa] =>
           \E k \in KeysOf(sa) :
               /\ reservations[k].state \in {"reserved", "exposed"}
               /\ reservations'[k].state = "committed"
               /\ cumulative'[sa] = cumulative[sa] + reservations[k].amount]_vars

\* An administered cumulative cap binds callers that pass none: what an account
\* consumes grows only up to the cap in force, even one set below what was
\* already consumed.
AdministeredCapBinds ==
    [][\A sa \in Accounts :
           CumulativeConsumed(reservations, sa, now)' > CumulativeConsumed(reservations, sa, now)
               => \/ limits[sa].maxTotal = NoCap
                  \/ CumulativeConsumed(reservations, sa, now)' <= limits[sa].maxTotal]_vars

\* A freeze stops new spending: while a scope, or every scope, is frozen, nothing
\* an account consumes grows, also not by replaying an id; what was reserved
\* before may still be exposed, committed or released, which adds nothing.
FrozenNeverGrows ==
    [][\A sa \in Accounts : FrozenFor(sa[1]) =>
           CumulativeConsumed(reservations, sa, now)'
               <= CumulativeConsumed(reservations, sa, now)]_vars

\* Two spellings of one contract address share one ledger and one limit: a cap
\* the operator set under either spelling binds what callers consume under all
\* of them together.
SameContract(a, b) == a.family = "eip155" /\ b.family = "eip155" /\ a.name = b.name

Spelt(sa) ==
    { sb \in Accounts : sb = sa \/ (sb[1] = sa[1] /\ SameContract(sb[2], sa[2])) }

ConsumedAcross(sa) == AtomicTotal(Spelt(sa), [sb \in Accounts |->
                          CumulativeConsumed(reservations, sb, now)])

CapAcrossSpellings ==
    [][\A sa \in Accounts : ConsumedAcross(sa)' > ConsumedAcross(sa) =>
           \A sb \in Spelt(sa) : limits[sb].maxTotal # NoCap =>
               ConsumedAcross(sa)' <= limits[sb].maxTotal]_vars

-------------------------------------------------------------------------------
(* This ledger implements the contract of a spend store: what the contract *)
(* holds as records is #reservations, and what it holds spent #cumulative. *)

Contract == INSTANCE SpendStore
    WITH Caps   <- CallerTotalCaps,
         record <- [k \in Keys |-> [state |-> reservations[k].state,
                                    amount |-> reservations[k].amount]],
         spent  <- cumulative

\* Every call, replay, refusal, read and sweep is one step of the contract: a
\* grant respects its cumulative cap over all that is held, a settled record
\* settles once and for its amount, and nothing exposed lapses.
ImplementsContract == Contract!ContractSpec
===============================================================================
