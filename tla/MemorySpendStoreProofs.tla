------------------------ MODULE MemorySpendStoreProofs ------------------------
(***************************************************************************)
(* Theorems about the process-local ledger, for every number of scopes,    *)
(* assets and reservation ids, every amount and cap, every TTL no longer   *)
(* than the window, and no bound on the clock's course.                    *)
(***************************************************************************)
EXTENDS StorePolicy, AtomicAmountsProofs

-------------------------------------------------------------------------------
(* Finiteness and typing of keys.                                          *)

LEMMA KeysFinite == IsFiniteSet(Keys)
<1> DEFINE g == [a \in AssetIds |-> CanonicalizeAsset(a)]
<1>1. g \in Surjection(AssetIds, Assets)
  BY DEF Surjection, Assets
<1>2. IsFiniteSet(Assets)
  BY <1>1, FiniteAssumption, FS_Surjection
<1>3. IsFiniteSet(Accounts)
  BY <1>2, FiniteAssumption, FS_Product DEF Accounts
<1> QED BY <1>3, FiniteAssumption, FS_Product DEF Keys

LEMMA KeyTyped ==
  ASSUME NEW ref \in Refs
  PROVE  Key(ref) \in Keys /\ Account(ref) \in Accounts /\ Key(ref)[1] = Account(ref)
BY DEF Refs, Key, Account, Keys, Accounts, Assets

LEMMA InputTyped ==
  ASSUME NEW in \in ReserveInputs
  PROVE  /\ Key(in) \in Keys /\ Account(in) \in Accounts /\ Key(in)[1] = Account(in)
         /\ in.amount \in Nat \ {0} /\ in.fingerprint \in Fingerprints
         /\ in.maxPerHour \in CallerHourCaps /\ in.maxTotal \in CallerTotalCaps
         /\ in.policyScope \in Scopes /\ in.payee \in Payees
<1>1. in.policyScope \in Scopes /\ in.assetId \in AssetIds /\ in.reservationId \in Ids
  BY DEF ReserveInputs
<1>2. in.amount \in Amounts
  BY DEF ReserveInputs
<1>3. in.amount \in Nat \ {0}
  BY <1>2, AmountAssumption
<1> QED BY <1>1, <1>3 DEF ReserveInputs, Key, Account, Keys, Accounts, Assets

-------------------------------------------------------------------------------
(* What a step can do to the ledger, whatever method it is a turn of.      *)

Swept(t) == Maintain(t) /\ UNCHANGED <<now, cumulative, exposedTotal>>

Reset(sa) == /\ cumulative' = [cumulative EXCEPT ![sa] = 0]
             /\ UNCHANGED <<now, reservations, entries, exposedTotal>>

LEMMA StepCases ==
  ASSUME Next
  PROVE  \/ UNCHANGED <<now, ledger>>
         \/ \E lead \in QueryLeads : Swept(now + lead)
         \/ Swept(now)
         \/ \E in \in ReserveInputs : ReserveGranted(in)
         \/ \E ref \in Refs : \/ CommitApplied(ref)
                             \/ ReleaseApplied(ref)
                             \/ ExposeApplied(ref)
         \/ \E sa \in Accounts : Reset(sa)
         \/ Tick
<1>1. CASE Tick
  BY <1>1
<1>2. ASSUME NEW in \in ReserveInputs, Reserve(in)
      PROVE  \/ UNCHANGED <<now, ledger>> \/ Swept(now) \/ ReserveGranted(in)
  BY <1>2 DEF Reserve, ReserveUnchanged, ReserveMisconfigured, ReserveOverBudget,
              Swept, vars
<1>3. ASSUME NEW ref \in Refs, Commit(ref)
      PROVE  \/ UNCHANGED <<now, ledger>> \/ Swept(now) \/ CommitApplied(ref)
  BY <1>3 DEF Commit, CommitReplay, CommitRefused, SweepOnly, Swept, vars
<1>4. ASSUME NEW ref \in Refs, Release(ref)
      PROVE  Swept(now) \/ ReleaseApplied(ref)
  BY <1>4 DEF Release, SweepOnly, Swept
<1>5. ASSUME NEW ref \in Refs, Expose(ref)
      PROVE  Swept(now) \/ ExposeApplied(ref)
  BY <1>5 DEF Expose, SweepOnly, Swept
<1>6. CASE DataPlane
  <2>1. ASSUME NEW lead \in QueryLeads, Query(lead)
        PROVE  Swept(now + lead)
    BY <2>1 DEF Query, Swept
  <2> QED BY <1>2, <1>3, <1>4, <1>5, <1>6, <2>1 DEF DataPlane
<1>7. CASE AdminPlane
  <2>1. ASSUME NEW ref \in Refs, NEW outcome \in {"committed", "released"},
               ResolveExposed(ref, outcome)
        PROVE  \/ UNCHANGED <<now, ledger>> \/ Swept(now)
               \/ CommitApplied(ref) \/ ReleaseApplied(ref)
    BY <1>3, <1>4, <2>1 DEF ResolveExposed, SweepOnly, Swept
  <2>2. ASSUME NEW scope \in GovernedScopes, Freeze(scope) \/ Unfreeze(scope)
        PROVE  UNCHANGED <<now, ledger>>
    BY <2>2 DEF Freeze, Unfreeze
  <2>3. ASSUME NEW scope \in Scopes, NEW assetId \in AssetIds,
               \/ \E l \in AdminLimits : SetBudgetLimits(scope, assetId, l)
               \/ ResetCumulative(scope, assetId)
        PROVE  UNCHANGED <<now, ledger>> \/ \E sa \in Accounts : Reset(sa)
    <3>1. <<scope, CanonicalizeAsset(assetId)>> \in Accounts
      BY DEF Accounts, Assets
    <3> QED BY <2>3, <3>1 DEF SetBudgetLimits, ResetCumulative, Reset
  <2>4. ASSUME NEW scope \in Scopes \cap GovernedScopes,
               \/ \E network \in Networks, list \in Allowlists :
                      SetRecipientPins(scope, network, list)
               \/ \E flag \in BOOLEAN : \/ SetRecipientAssertionRequired(scope, flag)
                                        \/ SetTofuEnabled(scope, flag)
        PROVE  UNCHANGED <<now, ledger>>
    BY <2>4 DEF SetRecipientPins, SetRecipientAssertionRequired, SetTofuEnabled
  <2> QED BY <1>7, <2>1, <2>2, <2>3, <2>4 DEF AdminPlane
<1> QED BY <1>1, <1>6, <1>7 DEF Next

-------------------------------------------------------------------------------
(* Type correctness.                                                       *)

LEMMA AbsentTyped == NoReservation \in Reservation /\ NoEntry \in Entry
BY DEF NoReservation, NoEntry, Reservation, Entry, States

\* What the sweep makes of one record and of one entry.
LEMMA SweepRecordTyped ==
  ASSUME LedgerTypeOK, NEW t \in Int, NEW k \in Keys
  PROVE  MaintainedReservation(k, t) \in Reservation
<1>1. reservations[k] \in Reservation
  BY DEF LedgerTypeOK
<1>2. [reservations[k] EXCEPT !.state = "expired"] \in Reservation
  BY <1>1 DEF Reservation, States, Terminal
<1> QED BY <1>1, <1>2, AbsentTyped DEF MaintainedReservation, ExpireAt

LEMMA SweepTyped ==
  ASSUME LedgerTypeOK, NEW t \in Int
  PROVE  /\ MaintainedReservations(t) \in [Keys -> Reservation]
         /\ MaintainedEntries(t) \in [Keys -> Entry]
<1>1. MaintainedReservations(t) \in [Keys -> Reservation]
  BY SweepRecordTyped DEF MaintainedReservations
<1>2. ASSUME NEW k \in Keys
      PROVE  entries[k] \in Entry
  BY DEF LedgerTypeOK
<1> QED BY <1>1, <1>2, AbsentTyped DEF MaintainedEntries

LEMMA GrantTyped ==
  ASSUME LedgerTypeOK, NEW in \in ReserveInputs
  PROVE  NewReservation(in) \in Reservation
<1>1. now + TTL \in Int /\ now \in Int
  BY TimeAssumption DEF LedgerTypeOK
<1> QED BY <1>1, InputTyped DEF NewReservation, Reservation, States, LedgerTypeOK

\* The record a ref names, after the sweep.
LEMMA RefTyped ==
  ASSUME LedgerTypeOK, NEW ref \in Refs
  PROVE  /\ MaintainedReservations(now)[Key(ref)] \in Reservation
         /\ AmountNow(ref) \in Nat
         /\ StateNow(ref) \in States
<1>1. now \in Int
  BY DEF LedgerTypeOK
<1>2. MaintainedReservations(now)[Key(ref)] \in Reservation
  BY <1>1, SweepTyped, KeyTyped
<1> QED BY <1>2 DEF AmountNow, StateNow, Reservation

LEMMA MoveTyped ==
  ASSUME LedgerTypeOK, NEW ref \in Refs, NEW s \in States, MoveTo(ref, s)
  PROVE  reservations' \in [Keys -> Reservation]
<1>1. now \in Int
  BY DEF LedgerTypeOK
<1>2. [MaintainedReservations(now)[Key(ref)] EXCEPT !.state = s] \in Reservation
  BY RefTyped DEF Reservation
<1>3. MaintainedReservations(now) \in [Keys -> Reservation]
  BY <1>1, SweepTyped
<1> QED BY <1>2, <1>3 DEF MoveTo

LEMMA AddExposedTyped ==
  ASSUME LedgerTypeOK, NEW ref \in Refs, NEW d \in Int, AddExposed(ref, d)
  PROVE  exposedTotal' \in [Accounts -> Int]
<1>1. exposedTotal[Account(ref)] + d \in Int
  BY KeyTyped DEF LedgerTypeOK
<1> QED BY <1>1 DEF AddExposed, LedgerTypeOK

LEMMA LedgerTypeStep ==
  ASSUME LedgerTypeOK, Next
  PROVE  LedgerTypeOK'
<1>1. now \in Int
  BY DEF LedgerTypeOK
<1>2. CASE UNCHANGED <<now, ledger>>
  BY <1>2 DEF LedgerTypeOK, ledger
<1>3. ASSUME NEW lead \in QueryLeads, Swept(now + lead)
      PROVE  LedgerTypeOK'
  <2>1. now + lead \in Int
    BY <1>1, ClockAssumption
  <2> QED BY <1>3, <2>1, SweepTyped DEF Swept, Maintain, LedgerTypeOK
<1>4. CASE Swept(now)
  BY <1>1, <1>4, SweepTyped DEF Swept, Maintain, LedgerTypeOK
<1>5. ASSUME NEW in \in ReserveInputs, ReserveGranted(in)
      PROVE  LedgerTypeOK'
  BY <1>1, <1>5, SweepTyped, GrantTyped, InputTyped DEF ReserveGranted, LedgerTypeOK
<1>6. ASSUME NEW ref \in Refs, CommitApplied(ref)
      PROVE  LedgerTypeOK'
  <2>1. reservations' \in [Keys -> Reservation]
    BY <1>6, MoveTyped DEF CommitApplied, States, Terminal
  <2>2. exposedTotal' \in [Accounts -> Int]
    BY <1>6, AddExposedTyped, RefTyped DEF CommitApplied
  <2>3. cumulative' \in [Accounts -> Int]
    BY <1>6, KeyTyped, RefTyped DEF CommitApplied, LedgerTypeOK
  <2>4. [amount |-> AmountNow(ref), committedAt |-> now] \in Entry
    BY <1>1, RefTyped DEF Entry
  <2>5. entries' \in [Keys -> Entry]
    BY <1>1, <1>6, <2>4, SweepTyped DEF CommitApplied
  <2> QED BY <1>1, <1>6, <2>1, <2>2, <2>3, <2>5 DEF CommitApplied, LedgerTypeOK
<1>7. ASSUME NEW ref \in Refs, ReleaseApplied(ref)
      PROVE  LedgerTypeOK'
  <2>1. reservations' \in [Keys -> Reservation]
    BY <1>7, MoveTyped DEF ReleaseApplied, States, Terminal
  <2>2. exposedTotal' \in [Accounts -> Int]
    BY <1>7, AddExposedTyped, RefTyped DEF ReleaseApplied
  <2> QED BY <1>1, <1>7, <2>1, <2>2, SweepTyped DEF ReleaseApplied, LedgerTypeOK
<1>8. ASSUME NEW ref \in Refs, ExposeApplied(ref)
      PROVE  LedgerTypeOK'
  <2>1. reservations' \in [Keys -> Reservation]
    BY <1>8, MoveTyped DEF ExposeApplied, States
  <2>2. exposedTotal' \in [Accounts -> Int]
    BY <1>8, AddExposedTyped, RefTyped DEF ExposeApplied
  <2> QED BY <1>1, <1>8, <2>1, <2>2, SweepTyped DEF ExposeApplied, LedgerTypeOK
<1>9. ASSUME NEW sa \in Accounts, Reset(sa)
      PROVE  LedgerTypeOK'
  BY <1>9 DEF Reset, LedgerTypeOK
<1>10. CASE Tick
  BY <1>1, <1>10, ClockAssumption DEF Tick, LedgerTypeOK, ledger
<1> QED BY <1>2, <1>3, <1>4, <1>5, <1>6, <1>7, <1>8, <1>9, <1>10, StepCases

LEMMA PresentedTyped ==
  ASSUME NEW in \in ReserveInputs, in.payee # NoPayee
  PROVE  /\ in.payee.network \in Networks
         /\ Presented(in) \in Recipients \cup { Lowercase(r) : r \in Recipients }
<1>1. in.payee \in [network : Networks, recipient : Recipients]
  BY InputTyped DEF Payees
<1> QED BY <1>1 DEF Presented, CanonicalizeRecipient

LEMMA PinsAfterTyped ==
  ASSUME AdminTypeOK, NEW in \in ReserveInputs, pins' = PinsAfter(in),
         UNCHANGED <<frozen, limits, recipientPolicy>>
  PROVE  AdminTypeOK'
<1>1. CASE ~WantsClaim(in)
  BY <1>1 DEF PinsAfter, AdminTypeOK
<1>2. CASE WantsClaim(in)
  <2>1. in.payee # NoPayee
    BY <1>2 DEF WantsClaim
  <2>2. [recipients |-> {Presented(in)}, source |-> "tofu"] \in
          [recipients : SUBSET (Recipients \cup { Lowercase(r) : r \in Recipients }),
           source : {"none", "admin-allowlist", "tofu"}]
    BY <2>1, PresentedTyped
  <2> QED BY <1>2, <2>2 DEF PinsAfter, AdminTypeOK
<1> QED BY <1>1, <1>2

LEMMA AdminTypeStep ==
  ASSUME AdminTypeOK, Next
  PROVE  AdminTypeOK'
<1>1. CASE UNCHANGED admin
  BY <1>1 DEF AdminTypeOK, admin
<1>2. CASE Tick
  BY <1>1, <1>2 DEF Tick
<1>3. ASSUME NEW in \in ReserveInputs, Reserve(in)
      PROVE  AdminTypeOK'
  <2>1. CASE ReserveUnchanged(in)
    BY <1>1, <2>1 DEF ReserveUnchanged, vars
  <2>2. CASE ReserveMisconfigured(in)
    BY <2>2, PinsAfterTyped DEF ReserveMisconfigured
  <2>3. CASE ReserveOverBudget(in)
    BY <2>3, PinsAfterTyped DEF ReserveOverBudget
  <2>4. CASE ReserveGranted(in)
    BY <2>4, PinsAfterTyped DEF ReserveGranted
  <2> QED BY <1>3, <2>1, <2>2, <2>3, <2>4 DEF Reserve
<1>4. ASSUME NEW ref \in Refs, Commit(ref) \/ Release(ref) \/ Expose(ref)
      PROVE  UNCHANGED admin
  BY <1>4 DEF Commit, CommitReplay, CommitRefused, CommitApplied, Release, ReleaseApplied,
              Expose, ExposeApplied, SweepOnly, vars
<1>5. CASE DataPlane
  <2>1. ASSUME NEW lead \in QueryLeads, Query(lead)
        PROVE  UNCHANGED admin
    BY <2>1 DEF Query
  <2> QED BY <1>1, <1>3, <1>4, <1>5, <2>1 DEF DataPlane
<1>6. CASE AdminPlane
  <2>1. ASSUME NEW ref \in Refs, NEW outcome \in {"committed", "released"},
               ResolveExposed(ref, outcome)
        PROVE  UNCHANGED admin
    BY <1>4, <2>1 DEF ResolveExposed, SweepOnly
  <2>2. ASSUME NEW scope \in GovernedScopes, Freeze(scope) \/ Unfreeze(scope)
        PROVE  AdminTypeOK'
    BY <2>2 DEF Freeze, Unfreeze, AdminTypeOK
  <2>3. ASSUME NEW scope \in Scopes, NEW assetId \in AssetIds, NEW l \in AdminLimits,
               SetBudgetLimits(scope, assetId, l)
        PROVE  AdminTypeOK'
    BY <2>3, CapAssumption DEF SetBudgetLimits, AdminTypeOK
  <2>4. ASSUME NEW scope \in Scopes, NEW assetId \in AssetIds,
               ResetCumulative(scope, assetId)
        PROVE  UNCHANGED admin
    BY <2>4 DEF ResetCumulative
  <2>5. ASSUME NEW scope \in Scopes, NEW network \in Networks, NEW list \in Allowlists,
               SetRecipientPins(scope, network, list)
        PROVE  AdminTypeOK'
    BY <2>5, RecipientAssumption DEF SetRecipientPins, AdminTypeOK
  <2>6. ASSUME NEW scope \in Scopes, NEW flag \in BOOLEAN,
               SetRecipientAssertionRequired(scope, flag)
        PROVE  AdminTypeOK'
    BY <2>6 DEF SetRecipientAssertionRequired, AdminTypeOK
  <2>7. ASSUME NEW scope \in Scopes, NEW flag \in BOOLEAN, SetTofuEnabled(scope, flag)
        PROVE  AdminTypeOK'
    BY <2>7 DEF SetTofuEnabled, AdminTypeOK
  <2> QED BY <1>1, <1>6, <2>1, <2>2, <2>3, <2>4, <2>5, <2>6, <2>7 DEF AdminPlane
<1> QED BY <1>2, <1>5, <1>6 DEF Next

\* The ledger and the administered state keep their shape in every behaviour.
THEOREM TypeCorrect == Spec => []TypeOK
<1>1. Init => TypeOK
  <2>1. ASSUME Init
        PROVE  LedgerTypeOK
    BY <2>1, AbsentTyped DEF Init, LedgerTypeOK
  <2>2. ASSUME Init
        PROVE  AdminTypeOK
    BY <2>2 DEF Init, AdminTypeOK, NoLimit, NoPin
  <2> QED BY <2>1, <2>2 DEF TypeOK
<1>2. TypeOK /\ [Next]_vars => TypeOK'
  <2>1. ASSUME TypeOK, UNCHANGED vars
        PROVE  TypeOK'
    BY <2>1 DEF TypeOK, LedgerTypeOK, AdminTypeOK, vars, ledger, admin
  <2> QED BY <2>1, LedgerTypeStep, AdminTypeStep DEF TypeOK
<1> QED BY <1>1, <1>2, PTL DEF Spec

-------------------------------------------------------------------------------
(* Totals over keys.                                                       *)

LEMMA TotalType ==
  ASSUME NEW S \in SUBSET Keys, NEW f, \A k \in Keys : f[k].amount \in Nat
  PROVE  IsFiniteSet(S) /\ Total(S, f) \in Nat
<1>1. IsFiniteSet(S)
  BY KeysFinite, FS_Subset
<1> QED BY <1>1, AtomicTotalType DEF Total

LEMMA TotalAgree ==
  ASSUME NEW S \in SUBSET Keys, NEW f, NEW g, \A k \in S : f[k].amount = g[k].amount
  PROVE  Total(S, f) = Total(S, g)
BY AtomicTotalAgree DEF Total

LEMMA TotalAdd ==
  ASSUME NEW S \in SUBSET Keys, NEW k \in Keys, k \notin S,
         NEW f, \A j \in Keys : f[j].amount \in Nat
  PROVE  Total(S \cup {k}, f) = Total(S, f) + f[k].amount
<1>1. IsFiniteSet(S)
  BY TotalType
<1> QED BY <1>1, AtomicTotalAdd DEF Total

LEMMA TotalRemove ==
  ASSUME NEW S \in SUBSET Keys, NEW k \in S,
         NEW f, \A j \in Keys : f[j].amount \in Nat
  PROVE  Total(S \ {k}, f) = Total(S, f) - f[k].amount
<1>1. IsFiniteSet(S)
  BY TotalType
<1> QED BY <1>1, AtomicTotalRemove DEF Total

LEMMA TotalMonotone ==
  ASSUME NEW T \in SUBSET Keys, NEW S \in SUBSET T,
         NEW f, \A j \in Keys : f[j].amount \in Nat
  PROVE  Total(S, f) <= Total(T, f)
<1>1. IsFiniteSet(T)
  BY TotalType
<1> QED BY <1>1, AtomicTotalMonotone DEF Total

LEMMA TotalDisjoint ==
  ASSUME NEW S \in SUBSET Keys, NEW T \in SUBSET Keys, S \cap T = {},
         NEW f, \A j \in Keys : f[j].amount \in Nat
  PROVE  Total(S \cup T, f) = Total(S, f) + Total(T, f)
<1>1. IsFiniteSet(S) /\ IsFiniteSet(T)
  BY TotalType
<1> QED BY <1>1, AtomicTotalDisjoint DEF Total

LEMMA KeySetsTyped ==
  ASSUME NEW r, NEW e, NEW sa, NEW t
  PROVE  /\ ReservedKeys(r, sa, t) \in SUBSET Keys
         /\ ExposedRollingKeys(r, sa, t) \in SUBSET Keys
         /\ CommittedKeys(r, e, sa, t) \in SUBSET Keys
         /\ ExposedKeys(r, sa) \in SUBSET Keys
         /\ AuthorisedKeys(r, sa, t) \in SUBSET Keys
BY DEF ReservedKeys, ExposedRollingKeys, CommittedKeys, ExposedKeys, AuthorisedKeys, KeysOf

LEMMA AmountsTyped ==
  ASSUME NEW r \in [Keys -> Reservation]
  PROVE  \A k \in Keys : r[k].amount \in Nat
BY DEF Reservation

-------------------------------------------------------------------------------
(* The records and entries of one key agree, under one clock.              *)

RecordOK(r, e, t) ==
    /\ r.state = "absent" => r = NoReservation
    /\ r.state # "absent" => r.amount > 0 /\ r.createdAt <= t
    /\ r.state = "reserved" => r.expiresAt = r.createdAt + TTL
    /\ r.state = "committed" <=> e # NoEntry
    /\ e # NoEntry => /\ e.amount = r.amount
                      /\ r.createdAt <= e.committedAt
                      /\ e.committedAt <= t

WellFormed == \A k \in Keys : RecordOK(reservations[k], entries[k], now)

\* What the sweep does to a record, by the state it finds it in.
LEMMA SweepRecord ==
  ASSUME LedgerTypeOK, NEW t \in Int, NEW k \in Keys,
         NEW m, m = MaintainedReservations(t)[k],
         NEW r, r = reservations[k]
  PROVE  /\ m.state = "reserved" <=> r.state = "reserved" /\ r.expiresAt > t
         /\ m.state = "exposed" <=> r.state = "exposed"
         /\ m.state \in {"reserved", "exposed", "committed", "released"} => m = r
         /\ r.state = "committed" /\ r.createdAt >= t - Window => m = r
<1>1. m = MaintainedReservation(k, t)
  BY DEF MaintainedReservations
<1>2. r \in Reservation
  BY DEF LedgerTypeOK
<1>3. [r EXCEPT !.state = "expired"].state = "expired"
  BY <1>2 DEF Reservation
<1>4. r.expiresAt \in Int /\ r.createdAt \in Int /\ Window \in Int
  BY <1>2, TimeAssumption DEF Reservation
<1>5. CASE r.state = "reserved" /\ r.expiresAt <= t
  <2>1. m = NoReservation \/ m = [r EXCEPT !.state = "expired"]
    BY <1>1, <1>5 DEF MaintainedReservation, ExpireAt
  <2>2. m.state \in {"absent", "expired"}
    <3>1. NoReservation.state = "absent"
      BY DEF NoReservation
    <3>2. CASE m = NoReservation
      BY <3>1, <3>2
    <3>3. CASE m = [r EXCEPT !.state = "expired"]
      BY <1>3, <3>3, Zenon
    <3> QED BY <2>1, <3>2, <3>3
  <2>3. ~(r.expiresAt > t)
    BY <1>4, <1>5
  <2> QED BY <1>5, <2>2, <2>3
<1>6. CASE ~(r.state = "reserved" /\ r.expiresAt <= t)
  <2>1. ExpireAt(r, t) = r
    BY <1>6 DEF ExpireAt
  <2>2. m = IF Forgettable(r, entries[k], t) THEN NoReservation ELSE r
    BY <1>1, <2>1 DEF MaintainedReservation
  <2>3. Forgettable(r, entries[k], t) => r.state \in Terminal /\ r.createdAt < t - Window
    BY DEF Forgettable
  <2> QED BY <1>4, <1>6, <2>2, <2>3 DEF NoReservation, Terminal
<1> QED BY <1>5, <1>6

LEMMA SweepRecordOK ==
  ASSUME LedgerTypeOK, WellFormed, NEW k \in Keys
  PROVE  RecordOK(MaintainedReservations(now)[k], MaintainedEntries(now)[k], now)
<1> DEFINE r == reservations[k]
           e == entries[k]
           m == MaintainedReservations(now)[k]
           n == MaintainedEntries(now)[k]
<1>1. r \in Reservation /\ e \in Entry /\ now \in Int /\ Window \in Nat
  BY TimeAssumption DEF LedgerTypeOK
<1>2. RecordOK(r, e, now)
  BY DEF WellFormed
<1>3. m = IF Forgettable(ExpireAt(r, now), e, now) THEN NoReservation ELSE ExpireAt(r, now)
  BY DEF MaintainedReservations, MaintainedReservation
<1>4. n = IF StaleEntry(e, now) THEN NoEntry ELSE e
  BY DEF MaintainedEntries
<1>5. CASE r.state = "committed"
  <2>1. ExpireAt(r, now) = r
    BY <1>5 DEF ExpireAt
  <2>2. e # NoEntry /\ r.createdAt <= e.committedAt /\ r.createdAt \in Int
                   /\ e.committedAt \in Int
    BY <1>1, <1>2, <1>5 DEF RecordOK, Reservation, Entry
  <2>3. Forgettable(r, e, now) <=> StaleEntry(e, now)
    BY <1>1, <1>5, <2>2 DEF Forgettable, StaleEntry, Terminal
  <2>4. CASE StaleEntry(e, now)
    BY <1>3, <1>4, <2>1, <2>3, <2>4 DEF RecordOK, NoReservation
  <2>5. CASE ~StaleEntry(e, now)
    BY <1>2, <1>3, <1>4, <2>1, <2>3, <2>5
  <2> QED BY <2>4, <2>5
<1>6. CASE r.state # "committed"
  <2>1. e = NoEntry /\ n = NoEntry
    BY <1>2, <1>4, <1>6 DEF RecordOK
  <2>2. CASE m = r
    BY <1>2, <2>1, <2>2
  <2>3. CASE m = NoReservation
    BY <2>1, <2>3 DEF RecordOK, NoReservation
  <2>4. CASE m = [r EXCEPT !.state = "expired"] /\ r.state = "reserved"
    <3>1. m.state = "expired" /\ m.amount = r.amount /\ m.createdAt = r.createdAt
      BY <1>1, <2>4 DEF Reservation
    <3> QED BY <1>2, <2>1, <2>4, <3>1 DEF RecordOK
  <2> QED BY <1>3, <2>2, <2>3, <2>4 DEF ExpireAt
<1> QED BY <1>5, <1>6

\* A record that was right stays right as the clock advances.
LEMMA RecordOKLater ==
  ASSUME NEW r \in Reservation, NEW e \in Entry, NEW t \in Int, NEW u \in Int, t <= u,
         RecordOK(r, e, t)
  PROVE  RecordOK(r, e, u)
BY DEF RecordOK, Reservation, Entry

\* The record and entry a ref names, after the sweep, and its move to state s.
LEMMA MoveRecord ==
  ASSUME LedgerTypeOK, NEW ref \in Refs, NEW s \in States, MoveTo(ref, s)
  PROVE  /\ \A k \in Keys : k # Key(ref) =>
                reservations'[k] = MaintainedReservations(now)[k]
         /\ reservations'[Key(ref)].state = s
         /\ \A k \in Keys :
                /\ reservations'[k].amount = MaintainedReservations(now)[k].amount
                /\ reservations'[k].createdAt = MaintainedReservations(now)[k].createdAt
                /\ reservations'[k].expiresAt = MaintainedReservations(now)[k].expiresAt
<1>1. now \in Int
  BY DEF LedgerTypeOK
<1> DEFINE m == MaintainedReservations(now)
<1>2. m \in [Keys -> Reservation] /\ Key(ref) \in Keys
  BY <1>1, SweepTyped, KeyTyped
<1>3. reservations' = [m EXCEPT ![Key(ref)].state = s]
  BY DEF MoveTo
<1>4. reservations'[Key(ref)] = [m[Key(ref)] EXCEPT !.state = s]
  BY <1>2, <1>3
<1>5. \A k \in Keys : k # Key(ref) => reservations'[k] = m[k]
  BY <1>2, <1>3
<1>6. m[Key(ref)] \in Reservation
  BY <1>2
<1>7. /\ reservations'[Key(ref)].state = s
      /\ reservations'[Key(ref)].amount = m[Key(ref)].amount
      /\ reservations'[Key(ref)].createdAt = m[Key(ref)].createdAt
      /\ reservations'[Key(ref)].expiresAt = m[Key(ref)].expiresAt
  BY <1>4, <1>6 DEF Reservation
<1> QED BY <1>5, <1>7

LEMMA WellFormedStep ==
  ASSUME OneClock, TypeOK, WellFormed, Next
  PROVE  WellFormed'
<1> DEFINE m == MaintainedReservations(now)
           n == MaintainedEntries(now)
<1>1. LedgerTypeOK /\ LedgerTypeOK' /\ now \in Int
  BY LedgerTypeStep DEF TypeOK, LedgerTypeOK
<1>2. /\ m \in [Keys -> Reservation] /\ n \in [Keys -> Entry]
      /\ \A k \in Keys : RecordOK(m[k], n[k], now)
  BY <1>1, SweepTyped, SweepRecordOK
<1>3. CASE UNCHANGED <<now, ledger>>
  BY <1>3 DEF WellFormed, ledger
<1>4. CASE Swept(now)
  BY <1>2, <1>4 DEF Swept, Maintain, WellFormed
<1>5. ASSUME NEW lead \in QueryLeads, Swept(now + lead)
      PROVE  WellFormed'
  <2>1. now + lead = now
    BY <1>1 DEF OneClock
  <2> QED BY <1>4, <1>5, <2>1
<1>6. ASSUME NEW in \in ReserveInputs, ReserveGranted(in)
      PROVE  WellFormed'
  <2>1. Key(in) \in Keys /\ in.amount \in Nat \ {0}
    BY InputTyped
  <2>2. n[Key(in)] = NoEntry
    <3>1. reservations[Key(in)].state # "committed"
      BY <1>6 DEF ReserveGranted, Admitted, Known, NoReservation
    <3>2. entries[Key(in)] = NoEntry
      BY <2>1, <3>1 DEF WellFormed, RecordOK
    <3> QED BY <2>1, <3>2 DEF MaintainedEntries
  <2>3. RecordOK(NewReservation(in), NoEntry, now)
    BY <1>1, <2>1, TimeAssumption DEF RecordOK, NewReservation
  <2>4. /\ reservations' = [m EXCEPT ![Key(in)] = NewReservation(in)]
        /\ entries' = n /\ now' = now
    BY <1>6 DEF ReserveGranted
  <2>5. ASSUME NEW k \in Keys
        PROVE  RecordOK(reservations'[k], entries'[k], now')
    <3>1. CASE k = Key(in)
      BY <1>2, <2>1, <2>2, <2>3, <2>4, <3>1
    <3>2. CASE k # Key(in)
      BY <1>2, <2>4, <3>2
    <3> QED BY <3>1, <3>2
  <2> QED BY <2>5 DEF WellFormed
<1>7. ASSUME NEW ref \in Refs, CommitApplied(ref)
      PROVE  WellFormed'
  <2> DEFINE key == Key(ref)
  <2>1. /\ MoveTo(ref, "committed") /\ "committed" \in States
        /\ entries' = [n EXCEPT ![key] = [amount |-> AmountNow(ref), committedAt |-> now]]
        /\ now' = now /\ entries[key] = NoEntry /\ m[key].state # "absent"
    BY <1>7 DEF CommitApplied, States, Terminal, StateNow
  <2>2. key \in Keys /\ RecordOK(m[key], n[key], now) /\ AmountNow(ref) = m[key].amount
    BY <1>2, KeyTyped DEF AmountNow
  <2>3. entries'[key] = [amount |-> m[key].amount, committedAt |-> now]
    BY <1>2, <2>1, <2>2
  <2>4. m[key].amount > 0 /\ m[key].amount \in Nat /\ m[key].createdAt <= now
    BY <1>2, <2>1, <2>2 DEF RecordOK, Reservation
  <2>5. entries'[key] # NoEntry
    BY <2>3, <2>4 DEF NoEntry
  <2>6. ASSUME NEW k \in Keys
        PROVE  RecordOK(reservations'[k], entries'[k], now')
    <3>1. CASE k = key
      <4>1. /\ reservations'[key].state = "committed"
            /\ reservations'[key].amount = m[key].amount
            /\ reservations'[key].createdAt = m[key].createdAt
        BY <1>1, <2>1, <2>2, MoveRecord
      <4>2. entries'[key].amount = m[key].amount /\ entries'[key].committedAt = now
        BY <2>3
      <4> QED BY <1>1, <2>1, <2>4, <2>5, <3>1, <4>1, <4>2 DEF RecordOK
    <3>2. CASE k # key
      BY <1>1, <1>2, <2>1, <3>2, MoveRecord
    <3> QED BY <3>1, <3>2
  <2> QED BY <2>6 DEF WellFormed
<1>8. ASSUME NEW ref \in Refs, NEW s \in {"released", "exposed"}, MoveTo(ref, s),
             StateNow(ref) \in {"reserved", "exposed"}, entries' = n, now' = now
      PROVE  WellFormed'
  <2> DEFINE key == Key(ref)
  <2>1. key \in Keys /\ RecordOK(m[key], n[key], now) /\ s \in States
    BY <1>2, KeyTyped DEF States, Terminal
  <2>2. n[key] = NoEntry /\ m[key].amount > 0 /\ m[key].createdAt <= now
    BY <1>8, <2>1 DEF RecordOK, StateNow
  <2>3. ASSUME NEW k \in Keys
        PROVE  RecordOK(reservations'[k], entries'[k], now')
    <3>1. CASE k = key
      <4>1. /\ reservations'[key].state = s
            /\ reservations'[key].amount = m[key].amount
            /\ reservations'[key].createdAt = m[key].createdAt
        BY <1>1, <1>8, <2>1, MoveRecord
      <4> QED BY <1>8, <2>2, <3>1, <4>1 DEF RecordOK
    <3>2. CASE k # key
      BY <1>1, <1>2, <1>8, <2>1, <3>2, MoveRecord
    <3> QED BY <3>1, <3>2
  <2> QED BY <2>3 DEF WellFormed
<1>9. ASSUME NEW ref \in Refs, ReleaseApplied(ref) \/ ExposeApplied(ref)
      PROVE  WellFormed'
  BY <1>8, <1>9 DEF ReleaseApplied, ExposeApplied
<1>10. ASSUME NEW sa \in Accounts, Reset(sa)
       PROVE  WellFormed'
  BY <1>10 DEF Reset, WellFormed
<1>11. CASE Tick
  <2>1. now' \in Int /\ now <= now' /\ reservations' = reservations /\ entries' = entries
    BY <1>1, <1>11 DEF Tick, OneClock, ledger
  <2>2. ASSUME NEW k \in Keys
        PROVE  RecordOK(reservations[k], entries[k], now')
    <3>1. reservations[k] \in Reservation /\ entries[k] \in Entry
      BY <1>1 DEF LedgerTypeOK
    <3>2. RecordOK(reservations[k], entries[k], now)
      BY DEF WellFormed
    <3> QED BY <1>1, <2>1, <3>1, <3>2, RecordOKLater
  <2> QED BY <2>1, <2>2 DEF WellFormed
<1> QED BY <1>3, <1>4, <1>5, <1>6, <1>7, <1>9, <1>10, <1>11, StepCases

-------------------------------------------------------------------------------
(* The sums the caps compare, across a sweep and across a move.            *)

\* A sweep changes none of the sets the caps add up, nor their amounts.
LEMMA SweepTotals ==
  ASSUME LedgerTypeOK, NEW sa
  PROVE  LET m == MaintainedReservations(now)
         IN  /\ ReservedKeys(m, sa, now) = ReservedKeys(reservations, sa, now)
             /\ ExposedKeys(m, sa) = ExposedKeys(reservations, sa)
             /\ AuthorisedKeys(m, sa, now) = AuthorisedKeys(reservations, sa, now)
             /\ Total(ReservedKeys(m, sa, now), m)
                  = Total(ReservedKeys(reservations, sa, now), reservations)
             /\ Total(ExposedKeys(m, sa), m)
                  = Total(ExposedKeys(reservations, sa), reservations)
             /\ Total(AuthorisedKeys(m, sa, now), m)
                  = Total(AuthorisedKeys(reservations, sa, now), reservations)
<1> DEFINE m == MaintainedReservations(now)
<1>1. now \in Int
  BY DEF LedgerTypeOK
<1>2. ASSUME NEW k \in Keys
      PROVE  /\ m[k].state = "reserved" <=>
                   reservations[k].state = "reserved" /\ reservations[k].expiresAt > now
             /\ m[k].state = "exposed" <=> reservations[k].state = "exposed"
             /\ m[k].state \in {"reserved", "exposed", "committed"} => m[k] = reservations[k]
             /\ reservations[k].state = "committed" /\ reservations[k].createdAt >= now - Window
                  => m[k] = reservations[k]
  BY <1>1, SweepRecord
<1>3. ReservedKeys(m, sa, now) = ReservedKeys(reservations, sa, now)
  BY <1>2 DEF ReservedKeys, KeysOf
<1>4. ExposedKeys(m, sa) = ExposedKeys(reservations, sa)
  BY <1>2 DEF ExposedKeys, KeysOf
<1>5. AuthorisedKeys(m, sa, now) = AuthorisedKeys(reservations, sa, now)
  BY <1>2 DEF AuthorisedKeys, KeysOf
<1>6. /\ \A k \in ReservedKeys(m, sa, now) : m[k].amount = reservations[k].amount
      /\ \A k \in ExposedKeys(m, sa) : m[k].amount = reservations[k].amount
      /\ \A k \in AuthorisedKeys(m, sa, now) : m[k].amount = reservations[k].amount
  BY <1>2 DEF ReservedKeys, ExposedKeys, AuthorisedKeys, KeysOf
<1>7. /\ ReservedKeys(m, sa, now) \in SUBSET Keys
      /\ ExposedKeys(m, sa) \in SUBSET Keys
      /\ AuthorisedKeys(m, sa, now) \in SUBSET Keys
  BY KeySetsTyped
<1>8. /\ Total(ReservedKeys(m, sa, now), m) = Total(ReservedKeys(m, sa, now), reservations)
      /\ Total(ExposedKeys(m, sa), m) = Total(ExposedKeys(m, sa), reservations)
      /\ Total(AuthorisedKeys(m, sa, now), m) = Total(AuthorisedKeys(m, sa, now), reservations)
  BY <1>6, <1>7, TotalAgree
<1> QED BY <1>3, <1>4, <1>5, <1>8

\* A record that is reserved after the sweep is one the caps count.
LEMMA ReservedCounted ==
  ASSUME LedgerTypeOK, WellFormed, NEW ref \in Refs, StateNow(ref) = "reserved"
  PROVE  Key(ref) \in ReservedKeys(MaintainedReservations(now), Account(ref), now)
<1> DEFINE key == Key(ref)
           m == MaintainedReservations(now)
<1>1. key \in Keys /\ key[1] = Account(ref) /\ now \in Int
  BY KeyTyped DEF LedgerTypeOK
<1>2. m[key].state = "reserved"
  BY DEF StateNow
<1>3. m[key] = reservations[key] /\ reservations[key].expiresAt > now
  BY <1>1, <1>2, SweepRecord
<1>4. RecordOK(reservations[key], entries[key], now) /\ reservations[key] \in Reservation
  BY <1>1 DEF WellFormed, LedgerTypeOK
<1>5. /\ reservations[key].createdAt \in Int
      /\ reservations[key].createdAt <= now
      /\ reservations[key].expiresAt = reservations[key].createdAt + TTL
  BY <1>2, <1>3, <1>4 DEF RecordOK, Reservation
<1>6. InWindow(reservations[key].createdAt, now)
  BY <1>1, <1>3, <1>5, TimeAssumption DEF InWindow
<1> QED BY <1>1, <1>2, <1>3, <1>6 DEF ReservedKeys, KeysOf

\* A move of one record to state s moves it between the sums of its account.
LEMMA MoveTotals ==
  ASSUME LedgerTypeOK, NEW ref \in Refs, NEW s \in States \ {"reserved"}, MoveTo(ref, s),
         NEW sa
  PROVE  LET m == MaintainedReservations(now)
             key == Key(ref)
         IN  /\ ReservedKeys(reservations', sa, now) = ReservedKeys(m, sa, now) \ {key}
             /\ ExposedKeys(reservations', sa) =
                    IF s = "exposed" /\ sa = Account(ref) THEN ExposedKeys(m, sa) \cup {key}
                    ELSE ExposedKeys(m, sa) \ {key}
             /\ \A S \in SUBSET Keys : Total(S, reservations') = Total(S, m)
<1> DEFINE m == MaintainedReservations(now)
           key == Key(ref)
<1>1. /\ key \in Keys /\ key[1] = Account(ref)
      /\ \A k \in Keys : k # key => reservations'[k] = m[k]
      /\ reservations'[key].state = s
      /\ \A k \in Keys : reservations'[k].amount = m[k].amount
  BY KeyTyped, MoveRecord
<1>2. ReservedKeys(reservations', sa, now) = ReservedKeys(m, sa, now) \ {key}
  BY <1>1 DEF ReservedKeys, KeysOf
<1>3. ExposedKeys(reservations', sa) =
        IF s = "exposed" /\ sa = Account(ref) THEN ExposedKeys(m, sa) \cup {key}
        ELSE ExposedKeys(m, sa) \ {key}
  BY <1>1 DEF ExposedKeys, KeysOf
<1>4. \A S \in SUBSET Keys : Total(S, reservations') = Total(S, m)
  BY <1>1, TotalAgree
<1> QED BY <1>2, <1>3, <1>4

\* A sweep at any time, ahead of the clock included, leaves exposed records be.
LEMMA SweepExposed ==
  ASSUME LedgerTypeOK, NEW t \in Int, NEW sa
  PROVE  LET m == MaintainedReservations(t)
         IN  /\ ExposedKeys(m, sa) = ExposedKeys(reservations, sa)
             /\ Total(ExposedKeys(m, sa), m)
                  = Total(ExposedKeys(reservations, sa), reservations)
<1> DEFINE m == MaintainedReservations(t)
<1>1. ASSUME NEW k \in Keys
      PROVE  /\ m[k].state = "exposed" <=> reservations[k].state = "exposed"
             /\ m[k].state = "exposed" => m[k] = reservations[k]
  BY SweepRecord
<1>2. ExposedKeys(m, sa) = ExposedKeys(reservations, sa)
  BY <1>1 DEF ExposedKeys, KeysOf
<1>3. \A k \in ExposedKeys(m, sa) : m[k].amount = reservations[k].amount
  BY <1>1 DEF ExposedKeys, KeysOf
<1>4. ExposedKeys(m, sa) \in SUBSET Keys
  BY KeySetsTyped
<1>5. Total(ExposedKeys(m, sa), m) = Total(ExposedKeys(m, sa), reservations)
  BY <1>3, <1>4, TotalAgree
<1> QED BY <1>2, <1>5

\* A grant adds one record, to the reserved sum of its account and no other.
LEMMA GrantTotals ==
  ASSUME LedgerTypeOK, NEW in \in ReserveInputs, ReserveGranted(in), NEW sa
  PROVE  LET m == MaintainedReservations(now)
             key == Key(in)
         IN  /\ key \notin ReservedKeys(m, sa, now) /\ key \notin AuthorisedKeys(m, sa, now)
             /\ ReservedKeys(reservations', sa, now) =
                    IF sa = Account(in) THEN ReservedKeys(m, sa, now) \cup {key}
                    ELSE ReservedKeys(m, sa, now)
             /\ AuthorisedKeys(reservations', sa, now) =
                    IF sa = Account(in) THEN AuthorisedKeys(m, sa, now) \cup {key}
                    ELSE AuthorisedKeys(m, sa, now)
             /\ ExposedKeys(reservations', sa) = ExposedKeys(m, sa)
             /\ \A S \in SUBSET Keys : key \notin S => Total(S, reservations') = Total(S, m)
             /\ reservations'[key].amount = in.amount
             /\ key \notin ExposedKeys(m, sa)
<1> DEFINE m == MaintainedReservations(now)
           key == Key(in)
<1>1. /\ key \in Keys /\ key[1] = Account(in) /\ now \in Int
      /\ m \in [Keys -> Reservation]
  BY InputTyped, SweepTyped DEF LedgerTypeOK
<1>2. /\ reservations' = [m EXCEPT ![key] = NewReservation(in)]
      /\ reservations[key] = NoReservation
  BY DEF ReserveGranted, Admitted, Known
<1>3. /\ reservations'[key] = NewReservation(in)
      /\ \A k \in Keys : k # key => reservations'[k] = m[k]
  BY <1>1, <1>2
<1>4. /\ reservations'[key].state = "reserved" /\ reservations'[key].amount = in.amount
      /\ reservations'[key].createdAt = now /\ reservations'[key].expiresAt = now + TTL
  BY <1>3 DEF NewReservation
<1>5. reservations[key].state = "absent"
  BY <1>2 DEF NoReservation
<1>6. m[key].state \notin {"reserved", "exposed", "committed"}
  BY <1>1, <1>5, SweepRecord
<1>7. /\ InWindow(now, now) /\ now + TTL > now /\ now >= now - Window
  BY <1>1, TimeAssumption DEF InWindow
<1>8. /\ key \notin ReservedKeys(m, sa, now) /\ key \notin AuthorisedKeys(m, sa, now)
      /\ key \notin ExposedKeys(m, sa)
  BY <1>6 DEF ReservedKeys, AuthorisedKeys, ExposedKeys
<1>9. ReservedKeys(reservations', sa, now) =
        IF sa = Account(in) THEN ReservedKeys(m, sa, now) \cup {key}
        ELSE ReservedKeys(m, sa, now)
  BY <1>1, <1>3, <1>4, <1>6, <1>7 DEF ReservedKeys, KeysOf
<1>10. AuthorisedKeys(reservations', sa, now) =
        IF sa = Account(in) THEN AuthorisedKeys(m, sa, now) \cup {key}
        ELSE AuthorisedKeys(m, sa, now)
  BY <1>1, <1>3, <1>4, <1>6, <1>7 DEF AuthorisedKeys, KeysOf
<1>11. ExposedKeys(reservations', sa) = ExposedKeys(m, sa)
  BY <1>1, <1>3, <1>4, <1>6 DEF ExposedKeys, KeysOf
<1>12. ASSUME NEW S \in SUBSET Keys, key \notin S
       PROVE  Total(S, reservations') = Total(S, m)
  BY <1>3, <1>12, TotalAgree
<1> QED BY <1>4, <1>8, <1>9, <1>10, <1>11, <1>12

-------------------------------------------------------------------------------
(* The exposed accumulator, under any clock.                               *)

LEMMA ExposedTotalMove ==
  ASSUME LedgerTypeOK, ExposedTotalExact, NEW ref \in Refs,
         NEW s \in States \ {"reserved"}, MoveTo(ref, s),
         AddExposed(ref, IF s = "exposed" THEN AmountNow(ref)
                         ELSE IF StateNow(ref) = "exposed" THEN - AmountNow(ref) ELSE 0),
         s = "exposed" => StateNow(ref) # "exposed"
  PROVE  ExposedTotalExact'
<1> DEFINE m == MaintainedReservations(now)
           key == Key(ref)
<1>1. ASSUME NEW sa \in Accounts
      PROVE  exposedTotal'[sa] = Total(ExposedKeys(reservations', sa), reservations')
  <2> DEFINE X == ExposedKeys(m, sa)
  <2>1. /\ key \in Keys /\ key[1] = Account(ref) /\ Account(ref) \in Accounts /\ now \in Int
        /\ X \in SUBSET Keys /\ exposedTotal \in [Accounts -> Int]
        /\ AmountNow(ref) \in Nat /\ m[key].amount = AmountNow(ref)
        /\ \A k \in Keys : m[k].amount \in Nat
    BY KeyTyped, KeySetsTyped, RefTyped, SweepTyped, AmountsTyped DEF LedgerTypeOK, AmountNow
  <2>2. exposedTotal[sa] = Total(X, m) /\ Total(X, m) \in Nat
    BY <2>1, SweepExposed, TotalType DEF ExposedTotalExact
  <2>3. key \in X <=> StateNow(ref) = "exposed" /\ sa = Account(ref)
    BY <2>1 DEF StateNow, ExposedKeys, KeysOf
  <2>4. Total(ExposedKeys(reservations', sa), reservations')
          = Total(ExposedKeys(reservations', sa), m)
    BY MoveTotals, KeySetsTyped
  <2>5. CASE sa # Account(ref)
    <3>1. ExposedKeys(reservations', sa) = X
      BY <2>3, <2>5, MoveTotals
    <3>2. exposedTotal'[sa] = exposedTotal[sa]
      BY <2>1, <2>5 DEF AddExposed
    <3> QED BY <2>2, <2>4, <3>1, <3>2
  <2>6. CASE sa = Account(ref) /\ s = "exposed"
    <3>1. ExposedKeys(reservations', sa) = X \cup {key} /\ key \notin X
      BY <2>3, <2>6, MoveTotals
    <3>2. exposedTotal'[sa] = exposedTotal[sa] + AmountNow(ref)
      BY <2>1, <2>6 DEF AddExposed
    <3>3. Total(X \cup {key}, m) = Total(X, m) + m[key].amount
      BY <2>1, <3>1, TotalAdd
    <3> QED BY <2>1, <2>2, <2>4, <3>1, <3>2, <3>3
  <2>7. CASE sa = Account(ref) /\ s # "exposed" /\ StateNow(ref) = "exposed"
    <3>1. ExposedKeys(reservations', sa) = X \ {key} /\ key \in X
      BY <2>3, <2>7, MoveTotals
    <3>2. exposedTotal'[sa] = exposedTotal[sa] - AmountNow(ref)
      BY <2>1, <2>7 DEF AddExposed
    <3>3. Total(X \ {key}, m) = Total(X, m) - m[key].amount
      BY <2>1, <3>1, TotalRemove
    <3> QED BY <2>1, <2>2, <2>4, <3>1, <3>2, <3>3
  <2>8. CASE sa = Account(ref) /\ s # "exposed" /\ StateNow(ref) # "exposed"
    <3>1. ExposedKeys(reservations', sa) = X
      BY <2>3, <2>8, MoveTotals
    <3>2. exposedTotal'[sa] = exposedTotal[sa]
      BY <2>1, <2>8 DEF AddExposed
    <3> QED BY <2>2, <2>4, <3>1, <3>2
  <2> QED BY <2>5, <2>6, <2>7, <2>8
<1> QED BY <1>1 DEF ExposedTotalExact

LEMMA ExposedTotalStep ==
  ASSUME LedgerTypeOK, ExposedTotalExact, Next
  PROVE  ExposedTotalExact'
<1>1. now \in Int
  BY DEF LedgerTypeOK
<1>2. CASE UNCHANGED <<reservations, exposedTotal>>
  BY <1>2 DEF ExposedTotalExact
<1>3. ASSUME NEW t \in Int, Swept(t)
      PROVE  ExposedTotalExact'
  BY <1>3, SweepExposed DEF Swept, Maintain, ExposedTotalExact
<1>4. ASSUME NEW in \in ReserveInputs, ReserveGranted(in)
      PROVE  ExposedTotalExact'
  <2>1. ASSUME NEW sa \in Accounts
        PROVE  exposedTotal'[sa] = Total(ExposedKeys(reservations', sa), reservations')
    <3> DEFINE m == MaintainedReservations(now)
    <3>1. /\ ExposedKeys(reservations', sa) = ExposedKeys(m, sa)
          /\ Total(ExposedKeys(m, sa), reservations') = Total(ExposedKeys(m, sa), m)
      BY <1>4, GrantTotals, KeySetsTyped
    <3>2. exposedTotal[sa] = Total(ExposedKeys(m, sa), m)
      BY <1>1, SweepExposed DEF ExposedTotalExact
    <3> QED BY <1>4, <3>1, <3>2 DEF ReserveGranted
  <2> QED BY <2>1 DEF ExposedTotalExact
<1>5. ASSUME NEW ref \in Refs, CommitApplied(ref)
      PROVE  ExposedTotalExact'
  BY <1>5, ExposedTotalMove DEF CommitApplied, States, Terminal
<1>6. ASSUME NEW ref \in Refs, ReleaseApplied(ref)
      PROVE  ExposedTotalExact'
  BY <1>6, ExposedTotalMove DEF ReleaseApplied, States, Terminal
<1>7. ASSUME NEW ref \in Refs, ExposeApplied(ref)
      PROVE  ExposedTotalExact'
  BY <1>7, ExposedTotalMove DEF ExposeApplied, States, Terminal
<1>8. ASSUME NEW lead \in QueryLeads, Swept(now + lead)
      PROVE  ExposedTotalExact'
  <2>1. now + lead \in Int
    BY <1>1, ClockAssumption
  <2> QED BY <1>3, <1>8, <2>1
<1>9. ASSUME NEW sa \in Accounts, Reset(sa)
      PROVE  ExposedTotalExact'
  BY <1>2, <1>9 DEF Reset
<1>10. CASE Tick
  BY <1>2, <1>10 DEF Tick, ledger
<1>11. CASE UNCHANGED <<now, ledger>>
  BY <1>2, <1>11 DEF ledger
<1> QED BY <1>1, <1>3, <1>4, <1>5, <1>6, <1>7, <1>8, <1>9, <1>10, <1>11, StepCases

\* Nothing is reserved, exposed or authorised before the first call.
LEMMA InitTotals ==
  ASSUME Init, NEW sa
  PROVE  /\ ReservedKeys(reservations, sa, now) = {}
         /\ ExposedKeys(reservations, sa) = {}
         /\ AuthorisedKeys(reservations, sa, now) = {}
         /\ Total({}, reservations) = 0
<1>1. \A k \in Keys : reservations[k].state = "absent"
  BY DEF Init, NoReservation
<1> QED BY <1>1, AtomicTotalEmpty DEF ReservedKeys, ExposedKeys, AuthorisedKeys, KeysOf, Total

\* The exposed accumulator equals the exposed records, whatever the clock does
\* and however far ahead reads are dated: maybe-settled money is counted once.
THEOREM ExposedTotalIsExact == Spec => []ExposedTotalExact
<1>1. Init => ExposedTotalExact
  BY InitTotals DEF Init, ExposedTotalExact
<1>2. TypeOK /\ ExposedTotalExact /\ [Next]_vars => ExposedTotalExact'
  <2>1. ASSUME UNCHANGED vars, ExposedTotalExact
        PROVE  ExposedTotalExact'
    BY <2>1 DEF ExposedTotalExact, vars, ledger
  <2> QED BY <2>1, ExposedTotalStep DEF TypeOK
<1> QED BY <1>1, <1>2, TypeCorrect, PTL DEF Spec

-------------------------------------------------------------------------------
(* The inductive invariant: shape, agreement of the maps, and counters.    *)

CumulativeNat == \A sa \in Accounts : cumulative[sa] \in Nat

LedgerInv == TypeOK /\ WellFormed /\ ExposedTotalExact /\ CumulativeNat

LEMMA CumulativeNatStep ==
  ASSUME TypeOK, CumulativeNat, Next
  PROVE  CumulativeNat'
<1>1. LedgerTypeOK /\ now \in Int /\ cumulative \in [Accounts -> Int]
  BY DEF TypeOK, LedgerTypeOK
<1>2. CASE UNCHANGED cumulative
  BY <1>2 DEF CumulativeNat
<1>3. ASSUME NEW ref \in Refs, CommitApplied(ref)
      PROVE  CumulativeNat'
  <2>1. AmountNow(ref) \in Nat /\ Account(ref) \in Accounts
    BY <1>1, RefTyped, KeyTyped
  <2> QED BY <1>1, <1>3, <2>1 DEF CommitApplied, CumulativeNat
<1>4. ASSUME NEW sa \in Accounts, Reset(sa)
      PROVE  CumulativeNat'
  BY <1>1, <1>4 DEF Reset, CumulativeNat
<1> QED BY <1>2, <1>3, <1>4, StepCases DEF Swept, ReserveGranted, ReleaseApplied,
            ExposeApplied, Tick, ledger

LEMMA LedgerInvInit ==
  ASSUME Init
  PROVE  LedgerInv
<1>1. LedgerTypeOK
  BY AbsentTyped DEF Init, LedgerTypeOK
<1>2. AdminTypeOK
  BY DEF Init, AdminTypeOK, NoLimit, NoPin
<1>3. WellFormed
  BY DEF Init, WellFormed, RecordOK, NoReservation, NoEntry
<1>4. ExposedTotalExact
  BY InitTotals DEF Init, ExposedTotalExact
<1>5. CumulativeNat
  BY DEF Init, CumulativeNat
<1> QED BY <1>1, <1>2, <1>3, <1>4, <1>5 DEF LedgerInv, TypeOK

LEMMA LedgerInvStep ==
  ASSUME OneClock, LedgerInv, [Next]_vars
  PROVE  LedgerInv'
<1>1. CASE Next
  BY <1>1, LedgerTypeStep, AdminTypeStep, WellFormedStep, ExposedTotalStep, CumulativeNatStep
     DEF LedgerInv, TypeOK
<1>2. CASE UNCHANGED vars
  BY <1>2 DEF LedgerInv, TypeOK, LedgerTypeOK, AdminTypeOK, WellFormed, ExposedTotalExact,
              CumulativeNat, vars, ledger, admin
<1> QED BY <1>1, <1>2

LEMMA LedgerInvariant ==
  ASSUME OneClock
  PROVE  Spec => []LedgerInv
<1>1. Init => LedgerInv
  BY LedgerInvInit
<1>2. LedgerInv /\ [Next]_vars => LedgerInv'
  BY LedgerInvStep
<1> QED BY <1>1, <1>2, PTL DEF Spec

\* A record is committed exactly while its entry is held, for the same amount,
\* although the two maps are pruned by different tests.
THEOREM EntriesAlwaysMatch ==
  ASSUME OneClock
  PROVE  Spec => []EntriesMatchRecords
<1>1. LedgerInv => EntriesMatchRecords
  BY DEF LedgerInv, WellFormed, RecordOK, EntriesMatchRecords
<1> QED BY <1>1, LedgerInvariant, PTL

-------------------------------------------------------------------------------
(* What an account consumes of its cumulative cap.                         *)

Consumed(sa) == CumulativeConsumed(reservations, sa, now)
ConsumedNat  == \A sa \in Accounts : Consumed(sa) \in Nat

LEMMA ConsumedType ==
  ASSUME LedgerInv, NEW sa \in Accounts
  PROVE  /\ cumulative[sa] \in Nat /\ exposedTotal[sa] \in Nat
         /\ Total(ReservedKeys(reservations, sa, now), reservations) \in Nat
         /\ Consumed(sa) \in Nat
<1>1. reservations \in [Keys -> Reservation]
  BY DEF LedgerInv, TypeOK, LedgerTypeOK
<1>2. \A k \in Keys : reservations[k].amount \in Nat
  BY <1>1, AmountsTyped
<1>3. /\ Total(ReservedKeys(reservations, sa, now), reservations) \in Nat
      /\ Total(ExposedKeys(reservations, sa), reservations) \in Nat
  BY <1>2, KeySetsTyped, TotalType
<1>4. cumulative[sa] \in Nat /\ exposedTotal[sa] \in Nat
  BY <1>3 DEF LedgerInv, CumulativeNat, ExposedTotalExact
<1> QED BY <1>3, <1>4 DEF Consumed, CumulativeConsumed

\* Moving a record on never raises what its account consumes.
LEMMA ConsumedMove ==
  ASSUME LedgerInv, NEW ref \in Refs, NEW s \in States \ {"reserved"}, MoveTo(ref, s),
         StateNow(ref) \in {"reserved", "exposed"}, now' = now,
         s = "exposed" => StateNow(ref) = "reserved",
         AddExposed(ref, IF s = "exposed" THEN AmountNow(ref)
                         ELSE IF StateNow(ref) = "exposed" THEN - AmountNow(ref) ELSE 0),
         cumulative' = [cumulative EXCEPT ![Account(ref)] =
                          @ + (IF s = "committed" THEN AmountNow(ref) ELSE 0)],
         NEW sa \in Accounts
  PROVE  Consumed(sa)' <= Consumed(sa)
<1> DEFINE m == MaintainedReservations(now)
           key == Key(ref)
           a == AmountNow(ref)
           R == ReservedKeys(m, sa, now)
<1>1. LedgerTypeOK /\ WellFormed /\ now \in Int /\ cumulative \in [Accounts -> Int]
      /\ exposedTotal \in [Accounts -> Int]
  BY DEF LedgerInv, TypeOK, LedgerTypeOK
<1>2. /\ key \in Keys /\ key[1] = Account(ref) /\ Account(ref) \in Accounts
      /\ a \in Nat /\ m[key].amount = a /\ m \in [Keys -> Reservation]
      /\ R \in SUBSET Keys /\ \A k \in Keys : m[k].amount \in Nat
  BY <1>1, KeyTyped, KeySetsTyped, RefTyped, SweepTyped, AmountsTyped DEF AmountNow
<1>3. Total(R, m) = Total(ReservedKeys(reservations, sa, now), reservations)
  BY <1>1, SweepTotals
<1>4. Total(R, m) \in Nat
  BY <1>2, TotalType
<1>5. key \in R <=> StateNow(ref) = "reserved" /\ sa = Account(ref)
  BY <1>1, <1>2, ReservedCounted DEF StateNow, ReservedKeys, KeysOf
<1>6. Total(ReservedKeys(reservations', sa, now), reservations') = Total(R \ {key}, m)
  BY <1>1, <1>2, MoveTotals
<1>7. Total(R \ {key}, m) = IF key \in R THEN Total(R, m) - a ELSE Total(R, m)
  <2>1. CASE key \in R
    BY <1>2, <2>1, TotalRemove
  <2>2. CASE key \notin R
    <3>1. R \ {key} = R
      BY <2>2
    <3> QED BY <2>2, <3>1
  <2> QED BY <2>1, <2>2
<1>8. /\ cumulative'[sa] = IF sa = Account(ref) /\ s = "committed"
                           THEN cumulative[sa] + a ELSE cumulative[sa]
      /\ exposedTotal'[sa] = IF sa # Account(ref) THEN exposedTotal[sa]
                             ELSE IF s = "exposed" THEN exposedTotal[sa] + a
                             ELSE IF StateNow(ref) = "exposed" THEN exposedTotal[sa] - a
                             ELSE exposedTotal[sa]
  BY <1>1, <1>2 DEF AddExposed
<1>9. cumulative[sa] \in Nat /\ exposedTotal[sa] \in Nat
  BY ConsumedType
<1>10. /\ Consumed(sa) = cumulative[sa] + exposedTotal[sa] + Total(R, m)
       /\ Consumed(sa)' = cumulative'[sa] + exposedTotal'[sa] + Total(R \ {key}, m)
  BY <1>3, <1>6 DEF Consumed, CumulativeConsumed
<1>11. CASE sa # Account(ref)
  BY <1>4, <1>5, <1>7, <1>8, <1>9, <1>10, <1>11
<1>12. CASE sa = Account(ref) /\ StateNow(ref) = "reserved"
  BY <1>2, <1>4, <1>5, <1>7, <1>8, <1>9, <1>10, <1>12
<1>13. CASE sa = Account(ref) /\ StateNow(ref) = "exposed"
  BY <1>2, <1>4, <1>5, <1>7, <1>8, <1>9, <1>10, <1>13
<1> QED BY <1>11, <1>12, <1>13

\* The refs' methods, as moves of one record.
LEMMA AppliedMoves ==
  ASSUME LedgerInv, NEW ref \in Refs,
         CommitApplied(ref) \/ ReleaseApplied(ref) \/ ExposeApplied(ref)
  PROVE  \E s \in {"committed", "released", "exposed"} :
            /\ MoveTo(ref, s) /\ now' = now
            /\ StateNow(ref) \in {"reserved", "exposed"}
            /\ s = "exposed" => StateNow(ref) = "reserved"
            /\ AddExposed(ref, IF s = "exposed" THEN AmountNow(ref)
                               ELSE IF StateNow(ref) = "exposed" THEN - AmountNow(ref) ELSE 0)
            /\ cumulative' = [cumulative EXCEPT ![Account(ref)] =
                                @ + (IF s = "committed" THEN AmountNow(ref) ELSE 0)]
<1>1. LedgerTypeOK /\ WellFormed /\ now \in Int /\ cumulative \in [Accounts -> Int]
  BY DEF LedgerInv, TypeOK, LedgerTypeOK
<1>2. Account(ref) \in Accounts /\ Key(ref) \in Keys
  BY KeyTyped
<1>3. cumulative = [cumulative EXCEPT ![Account(ref)] = @ + 0]
  BY <1>1, <1>2
<1>4. CASE CommitApplied(ref)
  <2>1. entries[Key(ref)] = NoEntry
    BY <1>4 DEF CommitApplied
  <2>2. reservations[Key(ref)].state # "committed"
    BY <1>1, <1>2, <2>1 DEF WellFormed, RecordOK
  <2>3. StateNow(ref) # "committed"
    BY <1>1, <1>2, <2>2, SweepRecord DEF StateNow
  <2>4. StateNow(ref) \in {"reserved", "exposed"}
    BY <1>1, <1>4, <2>3, RefTyped DEF CommitApplied, States, Terminal
  <2> QED BY <1>4, <2>4 DEF CommitApplied
<1>5. CASE ReleaseApplied(ref)
  BY <1>3, <1>5 DEF ReleaseApplied
<1>6. CASE ExposeApplied(ref)
  BY <1>3, <1>6 DEF ExposeApplied
<1> QED BY <1>4, <1>5, <1>6

\* A grant raises what its account consumes by the granted amount, and no other's.
LEMMA GrantConsumes ==
  ASSUME LedgerInv, Next, NEW sa \in Accounts, NEW in \in ReserveInputs, ReserveGranted(in)
  PROVE  Consumed(sa)' = IF sa = Account(in) THEN Consumed(sa) + in.amount ELSE Consumed(sa)
<1> DEFINE m == MaintainedReservations(now)
<1>1. LedgerTypeOK /\ WellFormed /\ now \in Int /\ cumulative \in [Accounts -> Int]
      /\ reservations \in [Keys -> Reservation]
  BY DEF LedgerInv, TypeOK, LedgerTypeOK
<1>2. cumulative[sa] \in Nat /\ exposedTotal[sa] \in Nat /\ Consumed(sa) \in Nat
      /\ Total(ReservedKeys(reservations, sa, now), reservations) \in Nat
  BY ConsumedType
<1> DEFINE key == Key(in)
           R == ReservedKeys(m, sa, now)
<1>3. /\ R \in SUBSET Keys /\ key \in Keys /\ key \notin R
      /\ reservations' \in [Keys -> Reservation]
      /\ in.amount \in Nat
  BY <1>1, GrantTotals, InputTyped, KeySetsTyped, LedgerTypeStep DEF LedgerTypeOK
<1>4. Total(R, reservations') = Total(ReservedKeys(reservations, sa, now), reservations)
  BY <1>1, <1>3, GrantTotals, SweepTotals
<1>5. now' = now /\ cumulative' = cumulative /\ exposedTotal' = exposedTotal
  BY DEF ReserveGranted
<1>6. CASE sa # Account(in)
  <2>1. ReservedKeys(reservations', sa, now) = R
    BY <1>1, <1>6, GrantTotals
  <2> QED BY <1>2, <1>6, <1>4, <1>5, <2>1 DEF Consumed, CumulativeConsumed
<1>7. CASE sa = Account(in)
  <2>1. ReservedKeys(reservations', sa, now) = R \cup {key}
    BY <1>1, <1>7, GrantTotals
  <2>2. \A k \in Keys : reservations'[k].amount \in Nat
    BY <1>3, AmountsTyped
  <2>3. reservations'[key].amount = in.amount
    BY <1>1, GrantTotals
  <2>4. Total(R \cup {key}, reservations') = Total(R, reservations') + in.amount
    BY <1>3, <2>2, <2>3, TotalAdd
  <2> QED BY <1>2, <1>3, <1>4, <1>5, <1>7, <2>1, <2>4 DEF Consumed, CumulativeConsumed
<1> QED BY <1>6, <1>7

\* Only a grant raises what an account consumes, and by the granted amount.
LEMMA ConsumedStep ==
  ASSUME OneClock, LedgerInv, Next, NEW sa \in Accounts
  PROVE  \/ Consumed(sa)' <= Consumed(sa)
         \/ \E in \in ReserveInputs : /\ ReserveGranted(in) /\ sa = Account(in)
                                     /\ Consumed(sa)' = Consumed(sa) + in.amount
<1> DEFINE m == MaintainedReservations(now)
<1>1. LedgerTypeOK /\ WellFormed /\ now \in Int /\ cumulative \in [Accounts -> Int]
      /\ reservations \in [Keys -> Reservation]
  BY DEF LedgerInv, TypeOK, LedgerTypeOK
<1>2. cumulative[sa] \in Nat /\ exposedTotal[sa] \in Nat /\ Consumed(sa) \in Nat
      /\ Total(ReservedKeys(reservations, sa, now), reservations) \in Nat
  BY ConsumedType
<1>3. CASE UNCHANGED <<now, ledger>>
  BY <1>2, <1>3 DEF Consumed, CumulativeConsumed, ledger
<1>4. CASE Swept(now)
  BY <1>1, <1>2, <1>4, SweepTotals DEF Swept, Maintain, Consumed, CumulativeConsumed
<1>5. ASSUME NEW lead \in QueryLeads, Swept(now + lead)
      PROVE  Swept(now)
  <2>1. now + lead = now
    BY <1>1 DEF OneClock
  <2> QED BY <1>5, <2>1
<1>6. ASSUME NEW in \in ReserveInputs, ReserveGranted(in)
      PROVE  \/ Consumed(sa)' <= Consumed(sa)
             \/ sa = Account(in) /\ Consumed(sa)' = Consumed(sa) + in.amount
  BY <1>2, <1>6, GrantConsumes
<1>7. ASSUME NEW ref \in Refs,
             CommitApplied(ref) \/ ReleaseApplied(ref) \/ ExposeApplied(ref)
      PROVE  Consumed(sa)' <= Consumed(sa)
  <2>1. {"committed", "released", "exposed"} \subseteq States \ {"reserved"}
    BY DEF States, Terminal
  <2> QED BY <1>7, <2>1, AppliedMoves, ConsumedMove
<1>8. ASSUME NEW sb \in Accounts, Reset(sb)
      PROVE  Consumed(sa)' <= Consumed(sa)
  <2>1. cumulative'[sa] <= cumulative[sa] /\ cumulative'[sa] \in Nat
    BY <1>1, <1>2, <1>8 DEF Reset
  <2> QED BY <1>2, <1>8, <2>1 DEF Reset, Consumed, CumulativeConsumed
<1>9. CASE Tick
  <2>1. now' \in Int /\ now <= now' /\ UNCHANGED ledger
    BY <1>1, <1>9 DEF Tick, OneClock
  <2>2. ReservedKeys(reservations, sa, now') \in SUBSET ReservedKeys(reservations, sa, now)
    <3>1. ASSUME NEW k \in ReservedKeys(reservations, sa, now')
          PROVE  k \in ReservedKeys(reservations, sa, now)
      <4>1. k \in Keys /\ reservations[k] \in Reservation
            /\ RecordOK(reservations[k], entries[k], now)
        BY <1>1 DEF ReservedKeys, KeysOf, WellFormed
      <4>2. reservations[k].createdAt \in Int /\ reservations[k].expiresAt \in Int
            /\ reservations[k].state = "reserved" /\ reservations[k].createdAt <= now
        BY <4>1 DEF ReservedKeys, Reservation, RecordOK
      <4> QED BY <1>1, <2>1, <4>2, TimeAssumption DEF ReservedKeys, InWindow
    <3> QED BY <3>1
  <2>3. /\ ReservedKeys(reservations, sa, now) \in SUBSET Keys
        /\ \A k \in Keys : reservations[k].amount \in Nat
    BY <1>1, KeySetsTyped, AmountsTyped
  <2>4. Total(ReservedKeys(reservations, sa, now'), reservations)
          <= Total(ReservedKeys(reservations, sa, now), reservations)
    BY <2>2, <2>3, TotalMonotone
  <2>5. Total(ReservedKeys(reservations, sa, now'), reservations) \in Nat
    BY <2>2, <2>3, TotalType
  <2> QED BY <1>2, <2>1, <2>4, <2>5 DEF Consumed, CumulativeConsumed, ledger
<1> QED BY <1>3, <1>4, <1>5, <1>6, <1>7, <1>8, <1>9, StepCases

\* The cumulative cap a grant was checked against covers what it leads to.
LEMMA GrantWithinTotal ==
  ASSUME LedgerInv, NEW in \in ReserveInputs, ReserveGranted(in), EffectiveMaxTotal(in) # NoCap
  PROVE  Consumed(Account(in)) + in.amount <= EffectiveMaxTotal(in)
<1> DEFINE m == MaintainedReservations(now)
           C == CumulativeConsumed(m, Account(in), now)
<1>1. LedgerTypeOK /\ Account(in) \in Accounts /\ in.amount \in Nat
  BY InputTyped DEF LedgerInv, TypeOK
<1>2. C = Consumed(Account(in))
  BY <1>1, SweepTotals DEF Consumed, CumulativeConsumed
<1>3. ~(C + in.amount > EffectiveMaxTotal(in))
  BY DEF ReserveGranted, OverBudget, OverTotal
<1>4. EffectiveMaxTotal(in) \in Nat
  <2>1. in.maxTotal \in (Nat \ {0}) \cup {NoCap}
    BY InputTyped, AmountAssumption
  <2>2. limits[Account(in)].maxTotal \in Nat \cup {NoCap}
    BY <1>1 DEF LedgerInv, TypeOK, AdminTypeOK
  <2> QED BY <2>1, <2>2 DEF EffectiveMaxTotal
<1>5. Consumed(Account(in)) \in Nat
  BY <1>1, ConsumedType
<1> QED BY <1>1, <1>2, <1>3, <1>4, <1>5

\* When every caller passes a cumulative cap, no account ever consumes more than
\* the largest of them, over any number of payments, resets and operators' moves.
THEOREM CumulativeCeilingHolds ==
  ASSUME OneClock
  PROVE  Spec => []CumulativeCeiling
<1>1. Init => CumulativeCeiling
  <2>1. ASSUME Init, NEW sa \in Accounts
        PROVE  CumulativeConsumed(reservations, sa, now) = 0
    <3>1. cumulative[sa] = 0 /\ exposedTotal[sa] = 0
      BY <2>1 DEF Init
    <3>2. Total(ReservedKeys(reservations, sa, now), reservations) = 0
      BY <2>1, InitTotals
    <3> QED BY <3>1, <3>2 DEF CumulativeConsumed
  <2> QED BY <2>1 DEF CumulativeCeiling
<1>2. LedgerInv => ConsumedNat
  BY ConsumedType DEF ConsumedNat
<1>3. LedgerInv /\ ConsumedNat /\ ConsumedNat' /\ CumulativeCeiling /\ [Next]_vars
        => CumulativeCeiling'
  <2> SUFFICES ASSUME LedgerInv, ConsumedNat, ConsumedNat', CumulativeCeiling, [Next]_vars,
                      NoCap \notin CallerTotalCaps, NEW sa \in Accounts
               PROVE  \/ Consumed(sa)' = 0
                      \/ \E cap \in CallerTotalCaps : Consumed(sa)' <= cap
    BY DEF CumulativeCeiling, Consumed
  <2>1. CallerTotalCaps \subseteq Nat
    BY AmountAssumption
  <2>2. Consumed(sa) \in Nat /\ Consumed(sa)' \in Nat
    BY DEF ConsumedNat
  <2>3. Consumed(sa) = 0 \/ \E cap \in CallerTotalCaps : Consumed(sa) <= cap
    BY DEF CumulativeCeiling, Consumed
  <2>4. CASE Consumed(sa)' <= Consumed(sa)
    BY <2>1, <2>2, <2>3, <2>4
  <2>5. ASSUME NEW in \in ReserveInputs, ReserveGranted(in), sa = Account(in),
               Consumed(sa)' = Consumed(sa) + in.amount
        PROVE  \E cap \in CallerTotalCaps : Consumed(sa)' <= cap
    <3>1. in.maxTotal \in CallerTotalCaps /\ EffectiveMaxTotal(in) = in.maxTotal
      BY InputTyped DEF EffectiveMaxTotal
    <3> QED BY <2>5, <3>1, GrantWithinTotal
  <2>6. CASE UNCHANGED vars
    <3>1. Consumed(sa)' = Consumed(sa)
      BY <2>6 DEF Consumed, CumulativeConsumed, vars, ledger
    <3> QED BY <2>3, <3>1
  <2> QED BY <2>4, <2>5, <2>6, ConsumedStep
<1> QED BY <1>1, <1>2, <1>3, LedgerInvariant, PTL DEF Spec

\* An administered cumulative cap binds callers that pass none: what an account
\* consumes grows only up to the cap in force.
THEOREM AdministeredCapAlwaysBinds ==
  ASSUME OneClock
  PROVE  Spec => AdministeredCapBinds
<1>1. LedgerInv => ConsumedNat
  BY ConsumedType DEF ConsumedNat
<1> DEFINE Binds == \A sa \in Accounts :
             CumulativeConsumed(reservations, sa, now)'
                 > CumulativeConsumed(reservations, sa, now)
               => \/ limits[sa].maxTotal = NoCap
                  \/ CumulativeConsumed(reservations, sa, now)' <= limits[sa].maxTotal
<1>2. LedgerInv /\ ConsumedNat /\ ConsumedNat' /\ [Next]_vars => [Binds]_vars
  <2> SUFFICES ASSUME LedgerInv, ConsumedNat, ConsumedNat', Next, NEW sa \in Accounts,
                      Consumed(sa)' > Consumed(sa), limits[sa].maxTotal # NoCap
               PROVE  Consumed(sa)' <= limits[sa].maxTotal
    BY DEF Consumed
  <2>1. Consumed(sa) \in Nat /\ Consumed(sa)' \in Nat
    BY DEF ConsumedNat
  <2>2. PICK in \in ReserveInputs : /\ ReserveGranted(in) /\ sa = Account(in)
                                   /\ Consumed(sa)' = Consumed(sa) + in.amount
    BY <2>1, ConsumedStep
  <2>3. EffectiveMaxTotal(in) # NoCap
    BY <2>2 DEF EffectiveMaxTotal
  <2>4. Consumed(sa)' <= EffectiveMaxTotal(in)
    BY <2>2, <2>3, GrantWithinTotal
  <2>5. limits[sa].maxTotal \in Nat
    BY DEF LedgerInv, TypeOK, AdminTypeOK
  <2>6. in.maxTotal # NoCap => in.maxTotal \in Nat /\ in.maxTotal <= limits[sa].maxTotal
    <3>1. in.maxTotal \in (Nat \ {0}) \cup {NoCap}
      BY InputTyped, AmountAssumption
    <3>2. ~Exceeds(in.maxTotal, limits[sa].maxTotal)
      BY <2>2 DEF ReserveGranted, CapsMisconfigured
    <3> QED BY <2>5, <3>1, <3>2 DEF Exceeds
  <2> QED BY <2>1, <2>2, <2>4, <2>5, <2>6 DEF EffectiveMaxTotal
<1>3. AdministeredCapBinds <=> [][Binds]_vars
  BY DEF AdministeredCapBinds
<1> HIDE DEF Binds
<1> QED BY <1>1, <1>2, <1>3, LedgerInvariant, PTL DEF Spec

\* While a scope, or every scope, is frozen, nothing its accounts consume grows.
THEOREM FreezeAlwaysHolds ==
  ASSUME OneClock
  PROVE  Spec => FrozenNeverGrows
<1>1. LedgerInv => ConsumedNat
  BY ConsumedType DEF ConsumedNat
<1> DEFINE Held == \A sa \in Accounts : FrozenFor(sa[1]) =>
             CumulativeConsumed(reservations, sa, now)'
                 <= CumulativeConsumed(reservations, sa, now)
<1>2. LedgerInv /\ ConsumedNat /\ ConsumedNat' /\ [Next]_vars => [Held]_vars
  <2> SUFFICES ASSUME LedgerInv, Next, NEW sa \in Accounts, FrozenFor(sa[1])
               PROVE  Consumed(sa)' <= Consumed(sa)
    BY DEF Consumed
  <2>1. ASSUME NEW in \in ReserveInputs, ReserveGranted(in), sa = Account(in)
        PROVE  FALSE
    <3>1. sa[1] = in.policyScope
      BY <2>1 DEF Account
    <3> QED BY <2>1, <3>1 DEF ReserveGranted, Admitted
  <2> QED BY <2>1, ConsumedStep
<1>3. FrozenNeverGrows <=> [][Held]_vars
  BY DEF FrozenNeverGrows
<1> HIDE DEF Held
<1> QED BY <1>1, <1>2, <1>3, LedgerInvariant, PTL DEF Spec

-------------------------------------------------------------------------------
(* What an account authorised within the window.                           *)

Authorised(sa) == Total(AuthorisedKeys(reservations, sa, now), reservations)
AuthorisedNat  == \A sa \in Accounts : Authorised(sa) \in Nat

LEMMA AuthorisedType ==
  ASSUME LedgerInv
  PROVE  AuthorisedNat
<1>1. reservations \in [Keys -> Reservation]
  BY DEF LedgerInv, TypeOK, LedgerTypeOK
<1>2. \A k \in Keys : reservations[k].amount \in Nat
  BY <1>1, AmountsTyped
<1> QED BY <1>2, KeySetsTyped, TotalType DEF Authorised, AuthorisedNat

\* The hourly cap a grant was checked against covers everything authorised in
\* the window: each such record is in one of the three terms reserve adds up.
LEMMA GrantWithinHour ==
  ASSUME LedgerInv, NEW in \in ReserveInputs, ReserveGranted(in)
  PROVE  Authorised(Account(in)) + in.amount <= in.maxPerHour
<1> DEFINE m == MaintainedReservations(now)
           n == MaintainedEntries(now)
           sa == Account(in)
           A == AuthorisedKeys(m, sa, now)
           C == CommittedKeys(m, n, sa, now)
           R == ReservedKeys(m, sa, now)
           X == ExposedRollingKeys(m, sa, now)
<1>1. /\ LedgerTypeOK /\ WellFormed /\ now \in Int /\ in.amount \in Nat
      /\ in.maxPerHour \in Nat /\ m \in [Keys -> Reservation]
      /\ \A k \in Keys : RecordOK(m[k], n[k], now) /\ n[k] \in Entry
  BY InputTyped, AmountAssumption, SweepTyped, SweepRecordOK
     DEF LedgerInv, TypeOK, LedgerTypeOK
<1>2. /\ A \in SUBSET Keys /\ C \in SUBSET Keys /\ R \in SUBSET Keys /\ X \in SUBSET Keys
      /\ \A k \in Keys : m[k].amount \in Nat
  BY <1>1, KeySetsTyped, AmountsTyped
<1>3. A \subseteq (C \cup R) \cup X
  <2>1. ASSUME NEW k \in A
        PROVE  k \in (C \cup R) \cup X
    <3>1. /\ k \in KeysOf(sa) /\ k \in Keys /\ m[k] \in Reservation
          /\ RecordOK(m[k], n[k], now) /\ m[k].createdAt >= now - Window /\ n[k] \in Entry
      BY <1>1 DEF AuthorisedKeys, KeysOf
    <3>2. /\ m[k].createdAt \in Int /\ m[k].createdAt <= now
          /\ n[k] # NoEntry => /\ n[k].committedAt \in Int /\ n[k].committedAt <= now
                               /\ m[k].createdAt <= n[k].committedAt
          /\ m[k].state = "committed" => n[k] # NoEntry
      BY <2>1, <3>1 DEF RecordOK, Reservation, Entry, AuthorisedKeys
    <3>3. InWindow(m[k].createdAt, now)
      BY <3>1, <3>2 DEF InWindow
    <3>4. CASE m[k].state = "exposed"
      BY <3>1, <3>3, <3>4 DEF ExposedRollingKeys
    <3>5. CASE m[k].state = "reserved" /\ m[k].expiresAt > now
      BY <3>1, <3>3, <3>5 DEF ReservedKeys
    <3>6. CASE m[k].state = "committed"
      <4>1. InWindow(n[k].committedAt, now)
        BY <1>1, <3>1, <3>2, <3>6, TimeAssumption DEF InWindow
      <4> QED BY <3>1, <3>2, <3>6, <4>1 DEF CommittedKeys
    <3> QED BY <2>1, <3>4, <3>5, <3>6 DEF AuthorisedKeys
  <2> QED BY <2>1
<1>4. C \cap R = {} /\ (C \cup R) \cap X = {}
  BY DEF CommittedKeys, ReservedKeys, ExposedRollingKeys
<1>5. Total((C \cup R) \cup X, m) = Total(C, m) + Total(R, m) + Total(X, m)
  <2>1. Total(C \cup R, m) = Total(C, m) + Total(R, m)
    BY <1>2, <1>4, TotalDisjoint
  <2>2. C \cup R \in SUBSET Keys
    BY <1>2
  <2>3. Total((C \cup R) \cup X, m) = Total(C \cup R, m) + Total(X, m)
    BY <1>2, <1>4, <2>2, TotalDisjoint
  <2> QED BY <2>1, <2>3
<1>6. Total(C, m) = Total(C, n)
  <2>1. \A k \in C : m[k].amount = n[k].amount
    BY <1>1, <1>2 DEF CommittedKeys, RecordOK
  <2> QED BY <1>2, <2>1, TotalAgree
<1>7. Total(A, m) <= Total((C \cup R) \cup X, m)
  <2>1. (C \cup R) \cup X \in SUBSET Keys
    BY <1>2
  <2> QED BY <1>2, <1>3, <2>1, TotalMonotone
<1>8. ~(Total(C, n) + Total(R, m) + Total(X, m) + in.amount > in.maxPerHour)
  BY DEF ReserveGranted, OverBudget, OverHour, RollingConsumed
<1>9. /\ Total(A, m) \in Nat /\ Total(C, m) \in Nat /\ Total(R, m) \in Nat
      /\ Total(X, m) \in Nat
  BY <1>2, TotalType
<1>10. Authorised(sa) = Total(A, m)
  BY <1>1, SweepTotals DEF Authorised
<1> QED BY <1>1, <1>5, <1>6, <1>7, <1>8, <1>9, <1>10

\* Only a grant raises what an account has authorised within the window.
LEMMA AuthorisedStep ==
  ASSUME OneClock, LedgerInv, Next, NEW sa \in Accounts
  PROVE  \/ Authorised(sa)' <= Authorised(sa)
         \/ \E in \in ReserveInputs : /\ ReserveGranted(in) /\ sa = Account(in)
                                     /\ Authorised(sa)' = Authorised(sa) + in.amount
<1> DEFINE m == MaintainedReservations(now)
           A == AuthorisedKeys(m, sa, now)
<1>1. /\ LedgerTypeOK /\ WellFormed /\ now \in Int /\ reservations \in [Keys -> Reservation]
      /\ m \in [Keys -> Reservation] /\ \A k \in Keys : m[k].amount \in Nat
      /\ A \in SUBSET Keys
  BY SweepTyped, AmountsTyped, KeySetsTyped DEF LedgerInv, TypeOK, LedgerTypeOK
<1>2. Authorised(sa) \in Nat /\ Authorised(sa) = Total(A, m)
  BY <1>1, AuthorisedType, SweepTotals DEF Authorised, AuthorisedNat
<1>3. CASE UNCHANGED <<now, reservations>>
  BY <1>2, <1>3 DEF Authorised
<1>4. CASE Swept(now)
  BY <1>2, <1>4 DEF Swept, Maintain, Authorised
<1>5. ASSUME NEW lead \in QueryLeads, Swept(now + lead)
      PROVE  Swept(now)
  <2>1. now + lead = now
    BY <1>1 DEF OneClock
  <2> QED BY <1>5, <2>1
<1>6. ASSUME NEW in \in ReserveInputs, ReserveGranted(in)
      PROVE  \/ Authorised(sa)' <= Authorised(sa)
             \/ sa = Account(in) /\ Authorised(sa)' = Authorised(sa) + in.amount
  <2> DEFINE key == Key(in)
  <2>1. /\ key \in Keys /\ key \notin A /\ now' = now /\ in.amount \in Nat
        /\ reservations' \in [Keys -> Reservation]
    BY <1>1, <1>6, GrantTotals, InputTyped, LedgerTypeStep DEF ReserveGranted, LedgerTypeOK
  <2>2. Total(A, reservations') = Total(A, m)
    BY <1>1, <1>6, <2>1, GrantTotals
  <2>3. CASE sa # Account(in)
    <3>1. AuthorisedKeys(reservations', sa, now) = A
      BY <1>1, <1>6, <2>3, GrantTotals
    <3> QED BY <1>2, <2>1, <2>2, <3>1 DEF Authorised
  <2>4. CASE sa = Account(in)
    <3>1. AuthorisedKeys(reservations', sa, now) = A \cup {key}
      BY <1>1, <1>6, <2>4, GrantTotals
    <3>2. \A k \in Keys : reservations'[k].amount \in Nat
      BY <2>1, AmountsTyped
    <3>3. reservations'[key].amount = in.amount
      BY <1>1, <1>6, GrantTotals
    <3>4. Total(A \cup {key}, reservations') = Total(A, reservations') + in.amount
      BY <1>1, <2>1, <3>2, <3>3, TotalAdd
    <3> QED BY <1>2, <2>1, <2>2, <2>4, <3>1, <3>4 DEF Authorised
  <2> QED BY <2>3, <2>4
<1>7. ASSUME NEW ref \in Refs,
             CommitApplied(ref) \/ ReleaseApplied(ref) \/ ExposeApplied(ref)
      PROVE  Authorised(sa)' <= Authorised(sa)
  <2> DEFINE B == AuthorisedKeys(reservations', sa, now)
  <2>1. PICK s \in {"committed", "released", "exposed"} :
           /\ MoveTo(ref, s) /\ now' = now /\ StateNow(ref) \in {"reserved", "exposed"}
    BY <1>7, AppliedMoves
  <2>2. s \in States \ {"reserved"}
    BY DEF States, Terminal
  <2>3. Key(ref) \in Keys
    BY KeyTyped
  <2>4. B \subseteq A
    <3>1. ASSUME NEW k \in B
          PROVE  k \in A
      <4>1. k \in Keys /\ k \in KeysOf(sa)
        BY DEF AuthorisedKeys, KeysOf
      <4>2. CASE k # Key(ref)
        BY <1>1, <2>1, <2>2, <4>1, <4>2, MoveRecord DEF AuthorisedKeys
      <4>3. CASE k = Key(ref)
        <5>1. /\ reservations'[k].createdAt = m[k].createdAt
              /\ m[k].state \in {"reserved", "exposed"}
          BY <1>1, <2>1, <2>2, <4>1, <4>3, MoveRecord DEF StateNow
        <5>2. m[k].state = "reserved" => m[k].expiresAt > now
          BY <1>1, <4>1, SweepRecord
        <5> QED BY <4>1, <5>1, <5>2 DEF AuthorisedKeys
      <4> QED BY <4>2, <4>3
    <3> QED BY <3>1
  <2>5. Total(B, reservations') = Total(B, m)
    BY <1>1, <2>1, <2>2, MoveTotals, KeySetsTyped
  <2>6. Total(B, m) <= Total(A, m)
    BY <1>1, <2>4, TotalMonotone
  <2> QED BY <1>2, <2>1, <2>5, <2>6 DEF Authorised
<1>8. CASE Tick
  <2>1. now' \in Int /\ now <= now' /\ reservations' = reservations
    BY <1>1, <1>8 DEF Tick, OneClock, ledger
  <2>2. AuthorisedKeys(reservations, sa, now') \in SUBSET AuthorisedKeys(reservations, sa, now)
    <3>1. ASSUME NEW k \in AuthorisedKeys(reservations, sa, now')
          PROVE  k \in AuthorisedKeys(reservations, sa, now)
      <4>1. k \in Keys /\ reservations[k].createdAt \in Int /\ reservations[k].expiresAt \in Int
        BY <1>1 DEF AuthorisedKeys, KeysOf, Reservation
      <4> QED BY <1>1, <2>1, <4>1, TimeAssumption DEF AuthorisedKeys
    <3> QED BY <3>1
  <2>3. AuthorisedKeys(reservations, sa, now) \in SUBSET Keys
    BY KeySetsTyped
  <2>4. Total(AuthorisedKeys(reservations, sa, now'), reservations)
          <= Total(AuthorisedKeys(reservations, sa, now), reservations)
    BY <1>1, <2>2, <2>3, AmountsTyped, TotalMonotone
  <2> QED BY <2>1, <2>4 DEF Authorised
<1> QED BY <1>3, <1>4, <1>5, <1>6, <1>7, <1>8, StepCases DEF Reset, ledger

\* What an account authorises within any one window stays under the largest
\* hourly cap of its callers, whatever is swept, settled or reused meanwhile.
THEOREM HourlyCeilingHolds ==
  ASSUME OneClock
  PROVE  Spec => []HourlyCeiling
<1>1. Init => HourlyCeiling
  BY InitTotals DEF HourlyCeiling
<1>2. LedgerInv => AuthorisedNat
  BY AuthorisedType
<1>3. LedgerInv /\ AuthorisedNat /\ AuthorisedNat' /\ HourlyCeiling /\ [Next]_vars
        => HourlyCeiling'
  <2> SUFFICES ASSUME LedgerInv, AuthorisedNat, AuthorisedNat', HourlyCeiling, [Next]_vars,
                      NEW sa \in Accounts
               PROVE  \/ Authorised(sa)' = 0
                      \/ \E cap \in CallerHourCaps : Authorised(sa)' <= cap
    BY DEF HourlyCeiling, Authorised
  <2>1. CallerHourCaps \subseteq Nat
    BY AmountAssumption
  <2>2. Authorised(sa) \in Nat /\ Authorised(sa)' \in Nat
    BY DEF AuthorisedNat
  <2>3. Authorised(sa) = 0 \/ \E cap \in CallerHourCaps : Authorised(sa) <= cap
    BY DEF HourlyCeiling, Authorised
  <2>4. CASE Authorised(sa)' <= Authorised(sa)
    BY <2>1, <2>2, <2>3, <2>4
  <2>5. ASSUME NEW in \in ReserveInputs, ReserveGranted(in), sa = Account(in),
               Authorised(sa)' = Authorised(sa) + in.amount
        PROVE  \E cap \in CallerHourCaps : Authorised(sa)' <= cap
    BY <2>5, InputTyped, GrantWithinHour
  <2>6. CASE UNCHANGED vars
    <3>1. Authorised(sa)' = Authorised(sa)
      BY <2>6 DEF Authorised, vars, ledger
    <3> QED BY <2>3, <3>1
  <2> QED BY <2>4, <2>5, <2>6, AuthorisedStep
<1> QED BY <1>1, <1>2, <1>3, LedgerInvariant, PTL DEF Spec

-------------------------------------------------------------------------------
(* What a step may never do to a record.                                   *)

\* An exposed record is never swept away: no clock, no read dated ahead and no
\* administration takes it anywhere but to committed or released.
THEOREM ExposedAlwaysHeld == Spec => ExposedHeld
<1> DEFINE Held == \A k \in Keys : reservations[k].state = "exposed" =>
             reservations'[k].state \in {"exposed", "committed", "released"}
<1>1. TypeOK /\ [Next]_vars => [Held]_vars
  <2> SUFFICES ASSUME TypeOK, Next, NEW k \in Keys, reservations[k].state = "exposed"
               PROVE  reservations'[k].state \in {"exposed", "committed", "released"}
    OBVIOUS
  <2>1. LedgerTypeOK /\ now \in Int
    BY DEF TypeOK, LedgerTypeOK
  <2>2. \A t \in Int : MaintainedReservations(t)[k].state = "exposed"
    BY <2>1, SweepRecord
  <2>3. CASE UNCHANGED reservations
    BY <2>3
  <2>4. ASSUME NEW lead \in QueryLeads \cup {0}, Swept(now + lead)
        PROVE  reservations'[k].state = "exposed"
    <3>1. now + lead \in Int
      BY <2>1, ClockAssumption
    <3> QED BY <2>2, <2>4, <3>1 DEF Swept, Maintain
  <2>5. CASE Swept(now)
    BY <2>1, <2>2, <2>5 DEF Swept, Maintain
  <2>6. ASSUME NEW in \in ReserveInputs, ReserveGranted(in)
        PROVE  reservations'[k].state = "exposed"
    <3>1. k # Key(in)
      BY <2>6 DEF ReserveGranted, Admitted, Known, NoReservation
    <3>2. reservations'[k] = MaintainedReservations(now)[k]
      BY <2>1, <2>6, <3>1, SweepTyped DEF ReserveGranted
    <3> QED BY <2>1, <2>2, <3>2
  <2>7. ASSUME NEW ref \in Refs, NEW s \in {"committed", "released", "exposed"},
               MoveTo(ref, s)
        PROVE  reservations'[k].state \in {"exposed", "committed", "released"}
    <3>1. s \in States
      BY DEF States, Terminal
    <3> QED BY <2>1, <2>2, <2>7, <3>1, MoveRecord
  <2> QED BY <2>3, <2>4, <2>5, <2>6, <2>7, StepCases DEF CommitApplied, ReleaseApplied,
              ExposeApplied, Reset, Tick, ledger
<1>2. ExposedHeld <=> [][Held]_vars
  BY DEF ExposedHeld
<1> HIDE DEF Held
<1> QED BY <1>1, <1>2, TypeCorrect, PTL DEF Spec

\* The lifetime counter of an account grows only by the amount of one record that
\* this very step commits, and that had neither been committed nor given back.
THEOREM EveryCommitCountsOnce ==
  ASSUME OneClock
  PROVE  Spec => CommitCountsOnce
<1> DEFINE Once == \A sa \in Accounts : cumulative'[sa] > cumulative[sa] =>
             \E k \in KeysOf(sa) :
                 /\ reservations[k].state \in {"reserved", "exposed"}
                 /\ reservations'[k].state = "committed"
                 /\ cumulative'[sa] = cumulative[sa] + reservations[k].amount
<1>1. LedgerInv /\ [Next]_vars => [Once]_vars
  <2> SUFFICES ASSUME LedgerInv, Next, NEW sa \in Accounts, cumulative'[sa] > cumulative[sa]
               PROVE  \E k \in KeysOf(sa) :
                         /\ reservations[k].state \in {"reserved", "exposed"}
                         /\ reservations'[k].state = "committed"
                         /\ cumulative'[sa] = cumulative[sa] + reservations[k].amount
    OBVIOUS
  <2>1. /\ LedgerTypeOK /\ now \in Int /\ cumulative \in [Accounts -> Int]
        /\ cumulative[sa] \in Nat
    BY DEF LedgerInv, TypeOK, LedgerTypeOK, CumulativeNat
  <2>2. cumulative' # cumulative
    BY <2>1
  <2>3. ASSUME NEW sb \in Accounts, Reset(sb)
        PROVE  FALSE
    <3>1. cumulative'[sa] = 0 \/ cumulative'[sa] = cumulative[sa]
      BY <2>1, <2>3 DEF Reset
    <3> QED BY <2>1, <3>1
  <2>4. PICK ref \in Refs : CommitApplied(ref)
    BY <2>2, <2>3, StepCases DEF Swept, ReserveGranted, ReleaseApplied, ExposeApplied,
       Tick, ledger
  <2> DEFINE k == Key(ref)
             m == MaintainedReservations(now)
  <2>5. /\ k \in Keys /\ k[1] = Account(ref) /\ Account(ref) \in Accounts
        /\ AmountNow(ref) \in Nat
    BY <2>1, KeyTyped, RefTyped
  <2>6. sa = Account(ref) /\ cumulative'[sa] = cumulative[sa] + AmountNow(ref)
    BY <2>1, <2>4, <2>5 DEF CommitApplied
  <2>7. StateNow(ref) \in {"reserved", "exposed"}
    BY <2>4, AppliedMoves
  <2>8. m[k] = reservations[k]
    BY <2>1, <2>5, <2>7, SweepRecord DEF StateNow
  <2>9. "committed" \in States /\ MoveTo(ref, "committed")
    BY <2>4 DEF CommitApplied, States, Terminal
  <2>10. reservations'[k].state = "committed"
    BY <2>1, <2>9, MoveRecord
  <2> QED BY <2>5, <2>6, <2>7, <2>8, <2>10 DEF KeysOf, StateNow, AmountNow
<1>2. CommitCountsOnce <=> [][Once]_vars
  BY DEF CommitCountsOnce
<1> HIDE DEF Once
<1> QED BY <1>1, <1>2, LedgerInvariant, PTL DEF Spec

\* What the sweep makes of a record: it stays, lapses, or is forgotten.
LEMMA SweepAges ==
  ASSUME NEW t, NEW k \in Keys,
         NEW m, m = MaintainedReservations(t)[k],
         NEW r, r = reservations[k]
  PROVE  \/ m = r
         \/ r.state = "reserved" /\ m = [r EXCEPT !.state = "expired"]
         \/ r.state \in Terminal \cup {"reserved"} /\ m = NoReservation
<1>1. m = IF Forgettable(ExpireAt(r, t), entries[k], t) THEN NoReservation ELSE ExpireAt(r, t)
  BY DEF MaintainedReservations, MaintainedReservation
<1>2. \/ ExpireAt(r, t) = r
      \/ r.state = "reserved" /\ ExpireAt(r, t) = [r EXCEPT !.state = "expired"]
  BY DEF ExpireAt
<1>3. Forgettable(r, entries[k], t) => r.state \in Terminal
  BY DEF Forgettable
<1> QED BY <1>1, <1>2, <1>3

SameTerms(r, s) == /\ s.amount = r.amount
                   /\ s.fingerprint = r.fingerprint
                   /\ s.createdAt = r.createdAt
                   /\ s.expiresAt = r.expiresAt
                   /\ r.state \in Terminal => s.state = r.state

LEMMA SweepKeepsTerms ==
  ASSUME LedgerTypeOK, NEW t, NEW k \in Keys,
         MaintainedReservations(t)[k] # NoReservation
  PROVE  SameTerms(reservations[k], MaintainedReservations(t)[k])
<1> DEFINE r == reservations[k]
           m == MaintainedReservations(t)[k]
<1>1. r \in Reservation
  BY DEF LedgerTypeOK
<1>2. CASE m = r
  BY <1>2 DEF SameTerms
<1>3. CASE r.state = "reserved" /\ m = [r EXCEPT !.state = "expired"]
  <2>1. r.state = "reserved" => SameTerms(r, [r EXCEPT !.state = "expired"])
    BY <1>1 DEF SameTerms, Reservation, Terminal
  <2> QED BY <1>3, <2>1, Zenon
<1>4. m = r \/ (r.state = "reserved" /\ m = [r EXCEPT !.state = "expired"])
  BY SweepAges
<1> QED BY <1>2, <1>3, <1>4

\* While a record is held its id stands for the same spend and a settled record for
\* the same outcome: no sweep, move, replay or reuse in one turn changes its amount,
\* its fingerprint, its dates or, once it is settled, its state, whatever the clock
\* does.
THEOREM TermsNeverChange == Spec => ImmutableTerms
<1> DEFINE Same == \A k \in Keys :
             reservations[k] # NoReservation /\ reservations'[k] # NoReservation =>
               /\ reservations'[k].amount = reservations[k].amount
               /\ reservations'[k].fingerprint = reservations[k].fingerprint
               /\ reservations'[k].createdAt = reservations[k].createdAt
               /\ reservations'[k].expiresAt = reservations[k].expiresAt
               /\ reservations[k].state \in Terminal =>
                      reservations'[k].state = reservations[k].state
<1>1. TypeOK /\ [Next]_vars => [Same]_vars
  <2> SUFFICES ASSUME TypeOK, Next, NEW k \in Keys,
                      reservations[k] # NoReservation, reservations'[k] # NoReservation
               PROVE  SameTerms(reservations[k], reservations'[k])
    BY DEF SameTerms
  <2>1. LedgerTypeOK /\ now \in Int
    BY DEF TypeOK, LedgerTypeOK
  <2>2. ASSUME NEW t, reservations'[k] = MaintainedReservations(t)[k]
        PROVE  SameTerms(reservations[k], reservations'[k])
    BY <2>1, <2>2, SweepKeepsTerms
  <2>3. CASE UNCHANGED reservations
    BY <2>3 DEF SameTerms
  <2>4. ASSUME NEW t, Swept(t)
        PROVE  SameTerms(reservations[k], reservations'[k])
    BY <2>2, <2>4 DEF Swept, Maintain
  <2>5. ASSUME NEW in \in ReserveInputs, ReserveGranted(in)
        PROVE  SameTerms(reservations[k], reservations'[k])
    <3>1. k # Key(in)
      BY <2>5 DEF ReserveGranted, Admitted, Known
    <3>2. reservations'[k] = MaintainedReservations(now)[k]
      BY <2>1, <2>5, <3>1, SweepTyped DEF ReserveGranted
    <3> QED BY <2>2, <3>2
  <2>6. ASSUME NEW ref \in Refs, NEW s \in States, MoveTo(ref, s),
               \/ StateNow(ref) \in {"reserved", "exposed"}
               \/ StateNow(ref) = "committed" /\ s = "committed"
        PROVE  SameTerms(reservations[k], reservations'[k])
    <3> DEFINE m == MaintainedReservations(now)[k]
    <3>1. CASE k # Key(ref)
      BY <2>1, <2>2, <2>6, <3>1, MoveRecord
    <3>2. CASE k = Key(ref)
      <4>1. m # NoReservation
        BY <2>6, <3>2 DEF StateNow, NoReservation
      <4>2. SameTerms(reservations[k], m)
        BY <2>1, <4>1, SweepKeepsTerms
      <4>3. m \in Reservation /\ MaintainedReservations(now) \in [Keys -> Reservation]
        BY <2>1, SweepTyped
      <4>4. reservations'[k] = [m EXCEPT !.state = s]
        BY <2>6, <3>2, <4>3 DEF MoveTo
      <4>5. m.state \in {"reserved", "exposed"} \/ (m.state = "committed" /\ s = "committed")
        BY <2>6, <3>2 DEF StateNow
      <4>6. SameTerms(m, [m EXCEPT !.state = s])
        BY <4>3, <4>5 DEF SameTerms, Reservation, Terminal
      <4> QED BY <4>2, <4>4, <4>6 DEF SameTerms
    <3> QED BY <3>1, <3>2
  <2>7. ASSUME NEW ref \in Refs,
               CommitApplied(ref) \/ ReleaseApplied(ref) \/ ExposeApplied(ref)
        PROVE  \E s \in States :
                   /\ MoveTo(ref, s)
                   /\ \/ StateNow(ref) \in {"reserved", "exposed"}
                      \/ StateNow(ref) = "committed" /\ s = "committed"
    <3>1. StateNow(ref) \in States
      <4>1. MaintainedReservations(now)[Key(ref)] \in Reservation
        BY <2>1, SweepTyped, KeyTyped
      <4> QED BY <4>1 DEF StateNow, Reservation
    <3>2. CASE CommitApplied(ref)
      BY <3>1, <3>2 DEF CommitApplied, States, Terminal
    <3>3. CASE ReleaseApplied(ref) \/ ExposeApplied(ref)
      BY <3>3 DEF ReleaseApplied, ExposeApplied, States, Terminal
    <3> QED BY <2>7, <3>2, <3>3
  <2> QED BY <2>3, <2>4, <2>5, <2>6, <2>7, StepCases DEF Reset, Tick, ledger
<1>2. ImmutableTerms <=> [][Same]_vars
  BY DEF ImmutableTerms
<1> HIDE DEF Same
<1> QED BY <1>1, <1>2, TypeCorrect, PTL DEF Spec
-------------------------------------------------------------------------------
(* The contract of a spend store.                                          *)

\* The record the contract sees.
Shadow == [k \in Keys |-> [state |-> reservations[k].state, amount |-> reservations[k].amount]]

ShadowSet == [Keys -> [state : States, amount : Nat]]

Ages(k) == Contract!Aged(Shadow[k], Shadow'[k])

LEMMA ContractNames ==
  /\ Contract!Keys = Keys
  /\ \A a : Contract!KeysOf(a) = KeysOf(a)
  /\ Contract!NoRecord = [state |-> "absent", amount |-> 0]
  /\ [Contract!Keys -> Contract!Record] = ShadowSet
  /\ Contract!Held = {"reserved", "exposed"}
  /\ Contract!Settled = Terminal
<1>1. Contract!Keys = Keys
  BY DEF Contract!Keys, Keys
<1>2. \A a : Contract!KeysOf(a) = KeysOf(a)
  BY <1>1 DEF Contract!KeysOf, KeysOf
<1>3. Contract!Record = [state : States, amount : Nat]
  BY DEF Contract!Record, Contract!Held, Contract!Settled, States, Terminal
<1> QED BY <1>1, <1>2, <1>3 DEF ShadowSet, Contract!NoRecord, Contract!Held,
           Contract!Settled, Terminal

LEMMA ContractTotals ==
  ASSUME NEW S, NEW f
  PROVE  Contract!AtomicTotal(S, f) = AtomicTotal(S, f)
<1>1. Contract!Units(S, f) = Units(S, f)
  BY DEF Contract!Units, Units
<1>2. \A T : Contract!Cardinality(T) = Cardinality(T)
  BY DEF Contract!Cardinality, Cardinality
<1> QED BY <1>1, <1>2 DEF Contract!AtomicTotal, AtomicTotal

\* The contract's view has the shape of a store's records.
LEMMA ShadowTyped ==
  ASSUME LedgerTypeOK
  PROVE  /\ Shadow \in ShadowSet
         /\ \A k \in Keys : /\ Shadow[k].state = reservations[k].state
                            /\ Shadow[k].amount = reservations[k].amount
<1>1. \A k \in Keys : reservations[k].state \in States /\ reservations[k].amount \in Nat
  BY DEF LedgerTypeOK, Reservation
<1> QED BY <1>1 DEF Shadow, ShadowSet

LEMMA SweptAges ==
  ASSUME LedgerTypeOK, NEW t, NEW k \in Keys,
         reservations'[k] = MaintainedReservations(t)[k]
  PROVE  Ages(k)
<1> DEFINE r == reservations[k]
           m == MaintainedReservations(t)[k]
<1>1. r \in Reservation
  BY DEF LedgerTypeOK
<1>2. /\ Shadow[k] = [state |-> r.state, amount |-> r.amount]
      /\ Shadow'[k] = [state |-> m.state, amount |-> m.amount]
  BY DEF Shadow
<1>3. CASE m = r
  BY <1>2, <1>3 DEF Ages, Contract!Aged
<1>4. CASE r.state = "reserved" /\ m = [r EXCEPT !.state = "expired"]
  <2>1. m.state = "expired" /\ m.amount = r.amount
    BY <1>1, <1>4 DEF Reservation
  <2>2. Shadow[k].state = "reserved" /\ Shadow'[k] = [Shadow[k] EXCEPT !.state = "expired"]
    BY <1>2, <1>4, <2>1
  <2> QED BY <2>2 DEF Ages, Contract!Aged
<1>5. CASE r.state \in Terminal \cup {"reserved"} /\ m = NoReservation
  <2>1. Shadow'[k] = [state |-> "absent", amount |-> 0]
    BY <1>2, <1>5 DEF NoReservation
  <2>2. Shadow[k].state \in Terminal \cup {"reserved"}
    BY <1>2, <1>5
  <2> QED BY <2>1, <2>2, ContractNames DEF Ages, Contract!Aged
<1> QED BY <1>3, <1>4, <1>5, SweepAges

\* A move of one record in the swept ledger, as the contract sees it.
LEMMA ShadowMove ==
  ASSUME LedgerTypeOK, NEW ref \in Refs, NEW s \in States, MoveTo(ref, s),
         StateNow(ref) \in {"reserved", "exposed"}
  PROVE  /\ \A k \in Keys \ {Key(ref)} : Ages(k)
         /\ Shadow[Key(ref)].state = StateNow(ref)
         /\ Shadow[Key(ref)].amount = AmountNow(ref)
         /\ Shadow'[Key(ref)] = [Shadow[Key(ref)] EXCEPT !.state = s]
<1> DEFINE key == Key(ref)
           m == MaintainedReservations(now)
<1>1. key \in Keys /\ now \in Int
  BY KeyTyped DEF LedgerTypeOK
<1>2. ASSUME NEW k \in Keys \ {key}
      PROVE  Ages(k)
  BY <1>2, MoveRecord, SweptAges
<1>3. m[key] = reservations[key]
  BY <1>1, SweepRecord DEF StateNow
<1>4. reservations'[key].state = s /\ reservations'[key].amount = m[key].amount
  BY <1>1, MoveRecord
<1>5. /\ Shadow[key] = [state |-> StateNow(ref), amount |-> AmountNow(ref)]
      /\ Shadow'[key] = [state |-> s, amount |-> AmountNow(ref)]
  BY <1>1, <1>3, <1>4 DEF Shadow, StateNow, AmountNow
<1> QED BY <1>2, <1>5

\* What is held after a grant is what the caps count.
LEMMA HeldIsConsumed ==
  ASSUME LedgerInv', NEW sa \in Accounts,
         \A k \in Keys : reservations'[k].state = "reserved" => reservations'[k].expiresAt > now'
  PROVE  cumulative'[sa] + Contract!HeldTotal(Shadow', sa) = Consumed(sa)'
<1> DEFINE r == reservations'
           R == ReservedKeys(r, sa, now')
           E == ExposedKeys(r, sa)
           H == { k \in KeysOf(sa) : r[k].state \in {"reserved", "exposed"} }
<1>1. /\ r \in [Keys -> Reservation] /\ now' \in Int
      /\ \A k \in Keys : r[k].amount \in Nat
      /\ \A k \in Keys : RecordOK(r[k], entries'[k], now')
      /\ exposedTotal'[sa] = Total(E, r)
      /\ cumulative'[sa] \in Nat
  BY DEF LedgerInv, TypeOK, LedgerTypeOK, WellFormed, Reservation, ExposedTotalExact,
         CumulativeNat, ExposedKeys
<1>2. H = R \cup E
  <2>1. ASSUME NEW k \in KeysOf(sa), r[k].state = "reserved"
        PROVE  InWindow(r[k].createdAt, now') /\ r[k].expiresAt > now'
    <3>1. k \in Keys
      BY DEF KeysOf
    <3>2. /\ r[k].expiresAt > now' /\ r[k].expiresAt = r[k].createdAt + TTL
          /\ r[k].createdAt <= now' /\ r[k].createdAt \in Int
      BY <1>1, <2>1, <3>1 DEF RecordOK, Reservation
    <3> QED BY <1>1, <3>2, TimeAssumption DEF InWindow
  <2> QED BY <2>1 DEF ReservedKeys, ExposedKeys
<1>3. R \in SUBSET Keys /\ E \in SUBSET Keys /\ R \cap E = {}
  BY KeySetsTyped DEF ReservedKeys, ExposedKeys
<1>4. Total(H, r) = Total(R, r) + Total(E, r)
  BY <1>1, <1>2, <1>3, TotalDisjoint
<1>5. Total(R, r) \in Nat /\ Total(E, r) \in Nat
  BY <1>1, <1>3, TotalType
<1>6. \A k \in Keys : Shadow'[k].state = r[k].state /\ Shadow'[k].amount = r[k].amount
  BY DEF Shadow
<1>7. Contract!HeldKeys(Shadow', sa) = H
  <2>1. Contract!HeldKeys(Shadow', sa)
          = { k \in KeysOf(sa) : Shadow'[k].state \in {"reserved", "exposed"} }
    BY ContractNames DEF Contract!HeldKeys
  <2>2. KeysOf(sa) \subseteq Keys
    BY DEF KeysOf
  <2> QED BY <1>6, <2>1, <2>2
<1>8. [k \in Contract!Keys |-> Shadow'[k].amount] = [k \in Keys |-> r[k].amount]
  BY <1>6, ContractNames
<1>9. Contract!HeldTotal(Shadow', sa) = Total(H, r)
  BY <1>7, <1>8, ContractTotals DEF Contract!HeldTotal, Total
<1> QED BY <1>1, <1>4, <1>5, <1>9 DEF Consumed, CumulativeConsumed

LEMMA ShadowNext ==
  ASSUME LedgerTypeOK'
  PROVE  Shadow' \in [Contract!Keys -> Contract!Record]
<1>1. \A k \in Keys : reservations'[k].state \in States /\ reservations'[k].amount \in Nat
  BY DEF LedgerTypeOK, Reservation
<1>2. Shadow' = [k \in Keys |-> [state |-> reservations'[k].state,
                                 amount |-> reservations'[k].amount]]
  BY DEF Shadow
<1>3. Shadow' \in ShadowSet
  BY <1>1, <1>2 DEF ShadowSet
<1> QED BY <1>3, ContractNames

LEMMA ContractAges ==
  ASSUME LedgerTypeOK', \A k \in Keys : Ages(k), UNCHANGED cumulative
  PROVE  Contract!NextStore
<1>1. Contract!OnlyAged
  BY ShadowNext, ContractNames DEF Contract!OnlyAged, Ages, Shadow
<1> QED BY <1>1 DEF Contract!NextStore

LEMMA OthersAge ==
  ASSUME LedgerTypeOK', NEW k \in Keys, \A j \in Keys \ {k} : Ages(j)
  PROVE  Contract!OthersAge(k) /\ k \in Contract!Keys
BY ShadowNext, ContractNames DEF Contract!OthersAge, Ages, Shadow

\* A record moved on, committed or released is an operation of the contract.
LEMMA MoveKeepsContract ==
  ASSUME LedgerInv, LedgerTypeOK', NEW ref \in Refs,
         CommitApplied(ref) \/ ReleaseApplied(ref) \/ ExposeApplied(ref)
  PROVE  Contract!NextStore
<1> DEFINE key == Key(ref)
<1>1. LedgerTypeOK /\ cumulative \in [Accounts -> Int]
  BY DEF LedgerInv, TypeOK, LedgerTypeOK
<1>2. key \in Keys /\ key[1] = Account(ref) /\ Account(ref) \in Accounts
  BY KeyTyped
<1>3. PICK s \in {"committed", "released", "exposed"} :
            /\ MoveTo(ref, s) /\ StateNow(ref) \in {"reserved", "exposed"}
            /\ s = "exposed" => StateNow(ref) = "reserved"
            /\ cumulative' = [cumulative EXCEPT ![Account(ref)] =
                                @ + (IF s = "committed" THEN AmountNow(ref) ELSE 0)]
  BY AppliedMoves
<1>4. s \in States
  BY DEF States, Terminal
<1>5. /\ \A k \in Keys \ {key} : Ages(k)
      /\ Shadow[key].state = StateNow(ref) /\ Shadow[key].amount = AmountNow(ref)
      /\ Shadow'[key] = [Shadow[key] EXCEPT !.state = s]
  BY <1>1, <1>3, <1>4, ShadowMove
<1>6. Contract!OthersAge(key) /\ key \in Contract!Keys
  BY <1>2, <1>5, OthersAge
<1>7. CASE s = "committed"
  <2>1. Contract!Committed(key)
    BY <1>2, <1>3, <1>5, <1>6, <1>7, ContractNames DEF Contract!Committed, Shadow
  <2> QED BY <1>6, <2>1 DEF Contract!NextStore
<1>8. CASE s # "committed"
  <2>1. cumulative' = cumulative
    BY <1>1, <1>2, <1>3, <1>8
  <2>2. Contract!Fenced(key) \/ Contract!Released(key)
    BY <1>3, <1>5, <1>6, <1>8, <2>1, ContractNames
       DEF Contract!Fenced, Contract!Released, Shadow
  <2> QED BY <1>6, <2>2 DEF Contract!NextStore
<1> QED BY <1>7, <1>8

\* A grant fits under its caller's cap over all that is held.
LEMMA GrantKeepsContract ==
  ASSUME OneClock, LedgerInv, LedgerInv', Next, NEW in \in ReserveInputs, ReserveGranted(in)
  PROVE  Contract!NextStore
<1> DEFINE key == Key(in)
           sa == Account(in)
           m == MaintainedReservations(now)
<1>1. /\ LedgerTypeOK /\ LedgerTypeOK' /\ now \in Int /\ now' = now
      /\ UNCHANGED cumulative
  BY DEF LedgerInv, TypeOK, LedgerTypeOK, ReserveGranted
<1>2. /\ key \in Keys /\ key[1] = sa /\ sa \in Accounts /\ in.amount \in Nat
      /\ in.maxTotal \in CallerTotalCaps
  BY InputTyped
<1>3. m \in [Keys -> Reservation]
  BY <1>1, SweepTyped
<1>4. /\ reservations'[key] = NewReservation(in)
      /\ \A k \in Keys \ {key} : reservations'[k] = m[k]
      /\ reservations[key] = NoReservation
  BY <1>2, <1>3 DEF ReserveGranted, Admitted, Known
<1>5. \A k \in Keys \ {key} : Ages(k)
  BY <1>1, <1>4, SweptAges
<1>6. /\ Shadow[key] = [state |-> "absent", amount |-> 0]
      /\ Shadow'[key].state = "reserved"
  BY <1>2, <1>4 DEF Shadow, NoReservation, NewReservation
<1>7. ASSUME NEW k \in Keys, reservations'[k].state = "reserved"
      PROVE  reservations'[k].expiresAt > now'
  <2>1. CASE k = key
    BY <1>1, <1>4, <2>1, TimeAssumption DEF NewReservation
  <2>2. CASE k # key
    BY <1>1, <1>4, <1>7, <2>2, SweepRecord
  <2> QED BY <2>1, <2>2
<1>8. cumulative[sa] + Contract!HeldTotal(Shadow', sa) = Consumed(sa)'
  BY <1>1, <1>2, <1>7, HeldIsConsumed
<1>9. Consumed(sa)' = Consumed(sa) + in.amount
  BY <1>2, GrantConsumes
<1>10. in.maxTotal = NoCap
       \/ cumulative[sa] + Contract!HeldTotal(Shadow', sa) <= in.maxTotal
  <2> SUFFICES ASSUME in.maxTotal # NoCap
               PROVE  Consumed(sa)' <= in.maxTotal
    BY <1>8
  <2>1. EffectiveMaxTotal(in) = in.maxTotal
    BY DEF EffectiveMaxTotal
  <2>2. Consumed(sa) + in.amount <= in.maxTotal
    BY <2>1, GrantWithinTotal
  <2>3. in.maxTotal \in Nat
    BY <1>2, AmountAssumption
  <2> QED BY <1>2, <1>9, <2>2, <2>3
<1>11. Contract!OthersAge(key) /\ key \in Contract!Keys
  BY <1>1, <1>2, <1>5, OthersAge
<1>12. Contract!Granted(key)
  BY <1>1, <1>2, <1>6, <1>10, <1>11, ContractNames DEF Contract!Granted, Shadow
<1> QED BY <1>11, <1>12 DEF Contract!NextStore

LEMMA NextKeepsContract ==
  ASSUME OneClock, LedgerInv, LedgerInv', Next
  PROVE  Contract!NextStore \/ UNCHANGED <<Shadow, cumulative>>
<1>1. LedgerTypeOK /\ LedgerTypeOK' /\ now \in Int
  BY DEF LedgerInv, TypeOK, LedgerTypeOK
<1>2. ASSUME NEW t, Swept(t)
      PROVE  Contract!NextStore
  <2>1. \A k \in Keys : Ages(k)
    BY <1>1, <1>2, SweptAges DEF Swept, Maintain
  <2> QED BY <1>1, <1>2, <2>1, ContractAges DEF Swept
<1>3. CASE UNCHANGED <<reservations, cumulative>>
  BY <1>3 DEF Shadow
<1>4. ASSUME NEW sa \in Accounts, Reset(sa)
      PROVE  Contract!NextStore
  <2>1. Contract!SpentReset(sa)
    BY <1>4 DEF Reset, Contract!SpentReset
  <2> QED BY <2>1 DEF Contract!NextStore
<1> QED BY <1>2, <1>3, <1>4, MoveKeepsContract, GrantKeepsContract, <1>1, StepCases
        DEF Tick, ledger

\* The process-local ledger keeps the contract of SpendStore: a grant fits under
\* its cumulative cap over all that is held, a record settles once and for its
\* amount, and nothing exposed lapses.
THEOREM LedgerKeepsContract ==
  ASSUME OneClock
  PROVE  Spec => ImplementsContract
<1>1. Init => Contract!InitStore
  BY ContractNames DEF Init, Contract!InitStore, NoReservation
<1>2. ASSUME LedgerInv, LedgerInv', [Next]_vars
      PROVE  [Contract!NextStore]_(Contract!storeVars)
  <2>1. CASE UNCHANGED vars
    BY <2>1 DEF vars, ledger, Contract!storeVars
  <2> QED BY <1>2, <2>1, NextKeepsContract DEF Contract!storeVars, Shadow
<1> QED BY <1>1, <1>2, LedgerInvariant, PTL
        DEF Spec, ImplementsContract, Contract!ContractSpec

-------------------------------------------------------------------------------
(* Spellings of one contract address.                                      *)

\* An asset the ledger is keyed by has no other spelling among them.
LEMMA SpeltOnce ==
  ASSUME NEW sa \in Accounts
  PROVE  Spelt(sa) = {sa}
<1>1. ASSUME NEW sb \in Accounts, sb[1] = sa[1], SameContract(sb[2], sa[2])
      PROVE  sb = sa
  <2>1. PICK a \in AssetIds, b \in AssetIds :
               sa[2] = CanonicalizeAsset(a) /\ sb[2] = CanonicalizeAsset(b)
    BY DEF Accounts, Assets
  <2>2. /\ a = [family |-> a.family, name |-> a.name, mixedCase |-> a.mixedCase]
        /\ b = [family |-> b.family, name |-> b.name, mixedCase |-> b.mixedCase]
    BY AssetAssumption
  <2>3. a.family = sa[2].family /\ b.family = sb[2].family
    BY <2>1, <2>2 DEF CanonicalizeAsset, Lowercase
  <2>4. /\ sa[2] = [family |-> a.family, name |-> a.name, mixedCase |-> FALSE]
        /\ sb[2] = [family |-> b.family, name |-> b.name, mixedCase |-> FALSE]
    BY <1>1, <2>1, <2>2, <2>3 DEF CanonicalizeAsset, Lowercase, SameContract
  <2>5. sa[2].name = a.name /\ sb[2].name = b.name
    BY <2>4
  <2>6. a.family = b.family /\ a.name = b.name
    BY <1>1, <2>3, <2>5 DEF SameContract
  <2>7. sa[2] = sb[2]
    BY <2>4, <2>6
  <2>8. sa = <<sa[1], sa[2]>> /\ sb = <<sb[1], sb[2]>>
    BY DEF Accounts
  <2> QED BY <1>1, <2>7, <2>8
<1> QED BY <1>1 DEF Spelt

\* A cap set under one spelling of a contract address binds what is consumed
\* under all its spellings together.
THEOREM OneCapForAllSpellings ==
  ASSUME OneClock
  PROVE  Spec => CapAcrossSpellings
<1>1. LedgerInv => ConsumedNat
  BY ConsumedType DEF ConsumedNat
<1> DEFINE Binds == \A sa \in Accounts :
             CumulativeConsumed(reservations, sa, now)'
                 > CumulativeConsumed(reservations, sa, now)
               => \/ limits[sa].maxTotal = NoCap
                  \/ CumulativeConsumed(reservations, sa, now)' <= limits[sa].maxTotal
           Across == \A sa \in Accounts : ConsumedAcross(sa)' > ConsumedAcross(sa) =>
             \A sb \in Spelt(sa) : limits[sb].maxTotal # NoCap =>
               ConsumedAcross(sa)' <= limits[sb].maxTotal
<1>2. ConsumedNat /\ ConsumedNat' /\ [Binds]_vars => [Across]_vars
  <2> SUFFICES ASSUME ConsumedNat, ConsumedNat', Binds, NEW sa \in Accounts
               PROVE  ConsumedAcross(sa)' > ConsumedAcross(sa) =>
                        \A sb \in Spelt(sa) : limits[sb].maxTotal # NoCap =>
                            ConsumedAcross(sa)' <= limits[sb].maxTotal
    OBVIOUS
  <2>1. Spelt(sa) = {sa}
    BY SpeltOnce
  <2>2. ConsumedAcross(sa) = Consumed(sa)
    <3> DEFINE f == [sb \in Accounts |-> CumulativeConsumed(reservations, sb, now)]
    <3>1. f[sa] = Consumed(sa) /\ f[sa] \in Nat
      BY DEF Consumed, ConsumedNat
    <3> HIDE DEF f
    <3>2. AtomicTotal({sa}, f) = f[sa]
      BY <3>1, AtomicTotalSingle
    <3> QED BY <2>1, <3>1, <3>2 DEF ConsumedAcross, f
  <2>3. ConsumedAcross(sa)' = Consumed(sa)'
    <3> DEFINE f == [sb \in Accounts |-> CumulativeConsumed(reservations, sb, now)']
    <3>1. f[sa] = Consumed(sa)' /\ f[sa] \in Nat
      BY DEF Consumed, ConsumedNat
    <3>2. Spelt(sa)' = Spelt(sa)
      BY DEF Spelt
    <3>3. ConsumedAcross(sa)' = AtomicTotal(Spelt(sa), f)
      BY <3>2 DEF ConsumedAcross
    <3> HIDE DEF f
    <3>4. AtomicTotal({sa}, f) = f[sa]
      BY <3>1, AtomicTotalSingle
    <3> QED BY <2>1, <3>1, <3>3, <3>4
  <2> QED BY <2>1, <2>2, <2>3 DEF Consumed
<1>3. AdministeredCapBinds <=> [][Binds]_vars
  BY DEF AdministeredCapBinds
<1>4. CapAcrossSpellings <=> [][Across]_vars
  BY DEF CapAcrossSpellings
<1> HIDE DEF Binds, Across
<1> QED BY <1>1, <1>2, <1>3, <1>4, AdministeredCapAlwaysBinds, LedgerInvariant, PTL DEF Spec

-------------------------------------------------------------------------------
(* Whom a scope pays.                                                      *)

\* What pins allow, in the form the ledger compares.
Allowed(sn) == { CanonicalizeRecipient(sn[2], r) : r \in pins[sn].recipients }

\* Nothing is tracked before there are pins, and what is tracked stands in them.
PaidInv ==
    /\ DOMAIN paidTo = Scopes \X Networks
    /\ \A sn \in Scopes \X Networks :
           paidTo[sn] \subseteq (IF pins[sn].source = "none" THEN {} ELSE Allowed(sn))

LEMMA CanonicalOnce ==
  ASSUME NEW network, NEW r
  PROVE  CanonicalizeRecipient(network, CanonicalizeRecipient(network, r))
           = CanonicalizeRecipient(network, r)
<1>1. Lowercase(Lowercase(r)) = Lowercase(r)
  BY DEF Lowercase
<1> QED BY <1>1 DEF CanonicalizeRecipient

\* A claim is made where there were no pins, and allows the payee alone.
LEMMA ClaimStep ==
  ASSUME AdminTypeOK, NEW in \in ReserveInputs, WantsClaim(in), pins' = PinsAfter(in)
  PROVE  LET sn == <<in.policyScope, in.payee.network>>
         IN  /\ sn \in Scopes \X Networks /\ pins[sn].source = "none"
             /\ pins'[sn].source = "tofu"
             /\ Presented(in) \in Allowed(sn)'
             /\ \A so \in Scopes \X Networks : so # sn => pins'[so] = pins[so]
<1> DEFINE sn == <<in.policyScope, in.payee.network>>
<1>1. sn \in Scopes \X Networks
  BY PresentedTyped, InputTyped DEF WantsClaim
<1>2. pins[sn].source = "none"
  BY DEF WantsClaim, PinOf
<1>3. pins' = [pins EXCEPT ![sn] = [recipients |-> {Presented(in)}, source |-> "tofu"]]
  BY DEF PinsAfter
<1>4. sn[2] = in.payee.network
  OBVIOUS
<1> HIDE DEF sn
<1>5. /\ pins'[sn] = [recipients |-> {Presented(in)}, source |-> "tofu"]
      /\ \A so \in Scopes \X Networks : so # sn => pins'[so] = pins[so]
  BY <1>1, <1>3 DEF AdminTypeOK
<1>6. CanonicalizeRecipient(in.payee.network, Presented(in)) = Presented(in)
  BY CanonicalOnce DEF Presented
<1>7. Presented(in) \in { CanonicalizeRecipient(sn[2], r) : r \in pins'[sn].recipients }
  BY <1>4, <1>5, <1>6
<1> QED BY <1>1, <1>2, <1>5, <1>7 DEF Allowed, sn

\* A refused claim pays nobody; a granted one pays whom it claimed for.
LEMMA ClaimPaid ==
  ASSUME PaidInv, AdminTypeOK, NEW in \in ReserveInputs, WantsClaim(in), pins' = PinsAfter(in),
         \/ UNCHANGED paidTo
         \/ paidTo' = [paidTo EXCEPT ![<<in.policyScope, in.payee.network>>] =
                           @ \cup {Presented(in)}]
  PROVE  PaidInv'
<1> DEFINE sn == <<in.policyScope, in.payee.network>>
<1>1. /\ sn \in Scopes \X Networks /\ pins[sn].source = "none"
      /\ pins'[sn].source = "tofu" /\ Presented(in) \in Allowed(sn)'
      /\ \A so \in Scopes \X Networks : so # sn => pins'[so] = pins[so]
  BY ClaimStep
<1>2. UNCHANGED paidTo \/ paidTo' = [paidTo EXCEPT ![sn] = @ \cup {Presented(in)}]
  OBVIOUS
<1> HIDE DEF sn
<1>3. DOMAIN paidTo' = Scopes \X Networks /\ paidTo'[sn] \subseteq {Presented(in)}
      /\ \A so \in Scopes \X Networks : so # sn => paidTo'[so] = paidTo[so]
  BY <1>1, <1>2 DEF PaidInv
<1>4. paidTo'[sn] \subseteq { CanonicalizeRecipient(sn[2], r) : r \in pins'[sn].recipients }
  BY <1>1, <1>3 DEF Allowed
<1> QED BY <1>1, <1>3, <1>4 DEF PaidInv, Allowed

LEMMA GrantPaid ==
  ASSUME PaidInv, AdminTypeOK, NEW in \in ReserveInputs, Granted(in)
  PROVE  PaidInv'
<1> DEFINE sn == <<in.policyScope, in.payee.network>>
<1>1. pins' = PinsAfter(in) /\ ~RecipientRefused(in)
  BY DEF Granted, ReserveGranted, Admitted
<1>2. CASE WantsClaim(in)
  BY <1>1, <1>2, ClaimPaid DEF Granted
<1>3. CASE ~WantsClaim(in) /\ ~Tracked(in)
  BY <1>1, <1>3 DEF Granted, PinsAfter, PaidInv, Allowed
<1>4. CASE ~WantsClaim(in) /\ Tracked(in)
  <2>1. pins' = pins /\ in.payee # NoPayee /\ pins[sn].source # "none"
        /\ paidTo' = [paidTo EXCEPT ![sn] = @ \cup {Presented(in)}]
    BY <1>1, <1>4 DEF Granted, Tracked, PinsAfter
  <2>2. Presented(in) \in Allowed(sn)
    BY <1>1, <2>1 DEF RecipientRefused, PinOf, Expected, Allowed
  <2>3. sn \in Scopes \X Networks
    BY <2>1, PresentedTyped, InputTyped
  <2> HIDE DEF sn
  <2>4. \A so \in Scopes \X Networks :
            paidTo'[so] \subseteq paidTo[so] \cup (IF so = sn THEN {Presented(in)} ELSE {})
    BY <2>1, <2>3 DEF PaidInv
  <2>5. \A so : Allowed(so)' = Allowed(so)
    BY <2>1 DEF Allowed
  <2> QED BY <2>1, <2>2, <2>4, <2>5 DEF PaidInv
<1> QED BY <1>2, <1>3, <1>4

LEMMA NotGrantedPaid ==
  ASSUME PaidInv, AdminTypeOK, NEW in \in ReserveInputs, NotGranted(in)
  PROVE  PaidInv'
<1>1. CASE pins' = pins
  BY <1>1 DEF NotGranted, PaidInv, Allowed
<1>2. CASE pins' # pins
  <2>1. pins' = PinsAfter(in) /\ WantsClaim(in)
    BY <1>2 DEF NotGranted, ReserveUnchanged, ReserveMisconfigured, ReserveOverBudget,
                vars, admin, PinsAfter
  <2> QED BY <2>1, ClaimPaid DEF NotGranted
<1> QED BY <1>1, <1>2

LEMMA GovernedPaid ==
  ASSUME PaidInv, AdminTypeOK, NewPinsNewHistory
  PROVE  PaidInv'
<1>1. DOMAIN pins = Scopes \X Networks
  BY DEF AdminTypeOK
<1>2. ASSUME NEW sn \in Scopes \X Networks
      PROVE  paidTo'[sn] \subseteq
                 (IF pins'[sn].source = "none" THEN {}
                  ELSE { CanonicalizeRecipient(sn[2], r) : r \in pins'[sn].recipients })
  <2>1. CASE pins'[sn] = pins[sn]
    BY <1>1, <2>1 DEF PaidInv, NewPinsNewHistory, Allowed
  <2>2. CASE pins'[sn] # pins[sn]
    BY <1>1, <2>2 DEF NewPinsNewHistory
  <2> QED BY <2>1, <2>2
<1> QED BY <1>1, <1>2 DEF PaidInv, NewPinsNewHistory, Allowed

\* Every payment a scope authorises goes to a recipient of the pins in force, and
\* a pin of first use never moves to a second recipient.
THEOREM PinnedPayeesOnly == PaidSpec => []PinnedPayees
<1>1. PaidInit => AdminTypeOK /\ PaidInv
  BY DEF PaidInit, Init, AdminTypeOK, NoLimit, NoPin, PaidInv
<1>2. AdminTypeOK /\ PaidInv /\ [PaidNext]_<<vars, paidTo>> => AdminTypeOK' /\ PaidInv'
  <2> SUFFICES ASSUME AdminTypeOK, PaidInv, [PaidNext]_<<vars, paidTo>>
               PROVE  AdminTypeOK' /\ PaidInv'
    OBVIOUS
  <2>1. CASE UNCHANGED <<vars, paidTo>>
    BY <2>1 DEF vars, admin, AdminTypeOK, PaidInv, Allowed
  <2>2. PaidNext => Next
    BY DEF PaidNext, Granted, NotGranted, Next, DataPlane, Reserve
  <2>3. ASSUME NEW in \in ReserveInputs, Granted(in) \/ NotGranted(in)
        PROVE  PaidInv'
    BY <2>3, GrantPaid, NotGrantedPaid
  <2>4. ASSUME pins' = pins, UNCHANGED paidTo
        PROVE  PaidInv'
    BY <2>4 DEF PaidInv, Allowed
  <2>5. ASSUME NEW ref \in Refs, Commit(ref) \/ Release(ref) \/ Expose(ref)
        PROVE  pins' = pins
    BY <2>5 DEF Commit, CommitReplay, CommitRefused, CommitApplied, Release, ReleaseApplied,
                Expose, ExposeApplied, SweepOnly, vars, admin
  <2>6. ASSUME NEW lead, Query(lead)
        PROVE  pins' = pins
    BY <2>6 DEF Query, admin
  <2>7. Tick => pins' = pins
    BY DEF Tick, admin
  <2>8. CASE PaidNext
    BY <2>2, <2>3, <2>4, <2>5, <2>6, <2>7, <2>8, AdminTypeStep, GovernedPaid DEF PaidNext
  <2> QED BY <2>1, <2>8
<1>3. PaidInv => PinnedPayees
  BY DEF PaidInv, PinnedPayees, Allowed
<1> QED BY <1>1, <1>2, <1>3, PTL DEF PaidSpec
===============================================================================
