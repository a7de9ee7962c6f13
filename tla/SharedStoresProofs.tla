-------------------------- MODULE SharedStoresProofs --------------------------
(***************************************************************************)
(* Theorems about the Redis and the Durable Object store under one history *)
(* of calls: any scopes, assets, ids and amounts, any number of operator   *)
(* calls, and calls delivered again after a lost reply.  What is proved of *)
(* Redis first holds of both: in the end they are shown to answer alike.   *)
(***************************************************************************)
EXTENDS SharedStores, AtomicAmountsProofs

-------------------------------------------------------------------------------
(* Records as a script sees them.                                          *)

NoHash  == [state |-> "absent", fingerprint |-> "none", amount |-> 0,
            created |-> 0, expires |-> 0]
NoEntry == [amount |-> 0, at |-> 0]

States    == {"absent", "reserved", "exposed", "committed", "released", "expired"}
Hash      == [state : States, fingerprint : Fingerprints \cup {"none"},
              amount : Nat, created : Int, expires : Int]
Entry     == [amount : Nat, at : Int]

\* The state of a record once its expiry has been looked at.
State(k) == IF res[k].state = "reserved" /\ res[k].expires <= now THEN "expired"
                                                                  ELSE res[k].state

\* The record with that state written back.
Refreshed(k) == [res[k] EXCEPT !.state = State(k)]

-------------------------------------------------------------------------------
(* What each call does to the ledger in Redis.                             *)

ledger == <<now, res, resIdx, cmt, cmtIdx, total, exposed>>

\* Some records are written back with the expiry they have.
Refreshes ==
    /\ \E S \in SUBSET Keys : res' = [k \in Keys |-> IF k \in S THEN Refreshed(k) ELSE res[k]]
    /\ UNCHANGED <<now, resIdx, cmt, cmtIdx, total, exposed>>

Grants(in) ==
    LET k == Key(in) IN
    /\ k \in Keys /\ res[k] = NoHash /\ in \in ReserveInputs
    /\ R!CapsRefusal(in) = Ok /\ R!BudgetRefusal(in) = Ok
    /\ \E S \in SUBSET Keys :
           res' = [[j \in Keys |-> IF j \in S THEN Refreshed(j) ELSE res[j]] EXCEPT ![k] =
                      [state |-> "reserved", fingerprint |-> in.fingerprint,
                       amount |-> in.amount, created |-> now, expires |-> now + TTL]]
    /\ resIdx' = [resIdx EXCEPT ![k[1]] = @ \cup {k[2]}]
    /\ UNCHANGED <<now, cmt, cmtIdx, total, exposed, limits>>

\* No record moves.
Unmoved == UNCHANGED ledger \/ Refreshes

HeldNow == {"reserved", "exposed"}

\* One record moves to state s, the exposed counter with it.
Settles(k, s) ==
    /\ k \in Keys /\ State(k) \in {"reserved", "exposed"}
    /\ res' = [res EXCEPT ![k].state = s]
    /\ exposed' = [exposed EXCEPT ![k[1]] =
                      @ + IF res[k].state = "exposed" THEN - res[k].amount ELSE 0]
    /\ UNCHANGED <<now, resIdx>>

Commits(k) ==
    /\ Settles(k, "committed")
    /\ cmt' = [cmt EXCEPT ![k] = [amount |-> res[k].amount, at |-> now]]
    /\ cmtIdx' = [cmtIdx EXCEPT ![k[1]] = @ \cup {k[2]}]
    /\ total' = [total EXCEPT ![k[1]] = @ + res[k].amount]

Releases(k) == Settles(k, "released") /\ UNCHANGED <<cmt, cmtIdx, total>>

Exposes(k) ==
    /\ k \in Keys /\ State(k) = "reserved"
    /\ res' = [res EXCEPT ![k].state = "exposed"]
    /\ exposed' = [exposed EXCEPT ![k[1]] = @ + res[k].amount]
    /\ UNCHANGED <<now, resIdx, cmt, cmtIdx, total>>

\* The snapshot deletes what is old and settled, of one account.
OldCommits(sa) == { k \in KeysOf(sa) : k[2] \in cmtIdx[sa] /\ cmt[k].at < now - Window }
OldRecords(sa) == { k \in KeysOf(sa) : /\ k[2] \in resIdx[sa]
                                       /\ State(k) \in {"released", "expired"}
                                       /\ res[k].created < now - Window }
Old(sa) == OldCommits(sa) \cup OldRecords(sa)

Snapshots(sa) ==
    /\ sa \in Accounts
    /\ res' = [k \in Keys |-> IF k \in Old(sa) THEN NoHash
                              ELSE IF k \in KeysOf(sa) THEN Refreshed(k) ELSE res[k]]
    /\ resIdx' = [resIdx EXCEPT ![sa] = @ \ { k[2] : k \in Old(sa) }]
    /\ cmt' = [k \in Keys |-> IF k \in OldCommits(sa) THEN NoEntry ELSE cmt[k]]
    /\ cmtIdx' = [cmtIdx EXCEPT ![sa] = @ \ { k[2] : k \in OldCommits(sa) }]
    /\ UNCHANGED <<now, total, exposed>>

Resets(sa) ==
    /\ sa \in Accounts
    /\ total' = [total EXCEPT ![sa] = 0]
    /\ UNCHANGED <<now, res, resIdx, cmt, cmtIdx, exposed>>

Ticks == now' = now + 1 /\ UNCHANGED <<res, resIdx, cmt, cmtIdx, total, exposed>>

LedgerStep ==
    \/ UNCHANGED ledger
    \/ Refreshes \/ Ticks
    \/ \E in \in CallerInputs : Grants(in)
    \/ \E k \in Keys : Commits(k) \/ Releases(k) \/ Exposes(k)
    \/ \E sa \in Accounts : Snapshots(sa) \/ Resets(sa)

-------------------------------------------------------------------------------
(* The instance and its names.                                             *)

LEMMA SameNames ==
  /\ R!Accounts = Accounts /\ R!Keys = Keys /\ R!NoHash = NoHash /\ R!NoEntry = NoEntry
  /\ \A sa : R!KeysOf(sa) = KeysOf(sa)
  /\ \A x : R!Account(x) = Account(x) /\ R!Key(x) = Key(x)
  /\ \A k : R!StateNow(k) = State(k)
  /\ \A x : ~R!Aliased(x)
<1>1. R!Accounts = Accounts
  BY DEF R!Accounts, R!Assets, R!CanonicalizeAsset, R!Lowercase, Accounts, Assets,
         CanonicalizeAsset, Lowercase
<1>2. R!Keys = Keys
  BY <1>1 DEF R!Keys, Keys
<1>3. \A sa : R!KeysOf(sa) = KeysOf(sa)
  BY <1>2 DEF R!KeysOf, KeysOf
<1>4. \A x : R!Account(x) = Account(x)
  BY DEF R!Account, R!CanonicalizeAsset, R!Lowercase, Account, CanonicalizeAsset, Lowercase
<1>5. \A x : R!Key(x) = Key(x)
  BY <1>4 DEF R!Key, Key
<1>6. \A k : R!StateNow(k) = State(k)
  BY DEF R!StateNow, R!Lapsed, State
<1>7. \A x : ~R!Aliased(x)
  BY DEF R!Aliased
<1>8. R!NoHash = NoHash /\ R!NoEntry = NoEntry
  BY DEF R!NoHash, R!NoEntry, NoHash, NoEntry
<1> QED BY <1>1, <1>2, <1>3, <1>4, <1>5, <1>6, <1>7, <1>8

LEMMA KeysTyped ==
  /\ \A x \in ReserveInputs : Key(x) \in Keys /\ Account(x) = Key(x)[1]
                              /\ x.reservationId = Key(x)[2] /\ Account(x) \in Accounts
  /\ \A x \in Refs : Key(x) \in Keys
  /\ \A k \in Keys : k[1] \in Accounts /\ k[2] \in Ids /\ k = <<k[1], k[2]>>
  /\ \A sa : \A k \in KeysOf(sa) : k \in Keys /\ k[1] = sa
BY DEF ReserveInputs, Refs, Key, Account, Keys, Accounts, Assets, KeysOf

LEMMA ExpireIs ==
  ASSUME NEW S
  PROVE  R!Expire(S) = [k \in Keys |-> IF k \in S THEN Refreshed(k) ELSE res[k]]
BY SameNames DEF R!Expire, Refreshed

LEMMA ReserveMoves ==
  ASSUME NEW in \in CallerInputs, R!Reserve(in)
  PROVE  UNCHANGED ledger \/ Refreshes \/ Grants(in)
<1>0. in \in ReserveInputs /\ Key(in) \in Keys
  BY InputAssumption, KeysTyped
<1>1. CASE R!ReserveRefused(in)
  BY <1>1 DEF R!ReserveRefused, R!vars, R!env, R!records, R!counters, R!policy, ledger
<1>2. CASE R!ReserveMisconfigured(in)
  BY <1>2 DEF R!ReserveMisconfigured, R!env, R!records, R!counters, ledger
<1>3. CASE R!ReserveOverBudget(in)
  <2>1. R!ResInRange(R!Account(in)) \subseteq Keys
    BY SameNames, KeysTyped DEF R!ResInRange
  <2> QED BY <1>3, <2>1, ExpireIs DEF R!ReserveOverBudget, R!env, R!counters, Refreshes
<1>4. CASE R!ReserveGranted(in)
  <2>1. R!ResInRange(R!Account(in)) \subseteq Keys
    BY SameNames, KeysTyped DEF R!ResInRange
  <2>2. res[Key(in)] = NoHash
    BY <1>4, SameNames DEF R!ReserveGranted, R!PastRecipient, R!Known
  <2>3. R!NewHash(in) = [state |-> "reserved", fingerprint |-> in.fingerprint,
                         amount |-> in.amount, created |-> now, expires |-> now + TTL]
    BY DEF R!NewHash
  <2>4. R!Account(in) = Key(in)[1] /\ in.reservationId = Key(in)[2] /\ R!Key(in) = Key(in)
    BY <1>0, SameNames, KeysTyped
  <2>5. res' = [[j \in Keys |-> IF j \in R!ResInRange(R!Account(in)) THEN Refreshed(j)
                                                                    ELSE res[j]]
                  EXCEPT ![Key(in)] =
                     [state |-> "reserved", fingerprint |-> in.fingerprint,
                      amount |-> in.amount, created |-> now, expires |-> now + TTL]]
    BY <1>4, <2>3, <2>4, ExpireIs DEF R!ReserveGranted
  <2>6. resIdx' = [resIdx EXCEPT ![Key(in)[1]] = @ \cup {Key(in)[2]}]
    BY <1>4, <2>4 DEF R!ReserveGranted
  <2>7. R!CapsRefusal(in) = Ok /\ R!BudgetRefusal(in) = Ok
    BY <1>4 DEF R!ReserveGranted, R!Ok, Ok
  <2>8. UNCHANGED <<now, cmt, cmtIdx, total, exposed, limits>>
    BY <1>4 DEF R!ReserveGranted, R!env, R!counters
  <2> QED BY <1>0, <2>1, <2>2, <2>5, <2>6, <2>7, <2>8 DEF Grants
<1> QED BY <1>1, <1>2, <1>3, <1>4 DEF R!Reserve

LEMMA SettlingMoves ==
  ASSUME NEW k \in Keys
  PROVE  /\ R!ExpireOnly(k) => Refreshes
         /\ R!Holds(k) /\ R!SettleCommitted(k) => Commits(k)
         /\ R!Holds(k) /\ R!SettleReleased(k) => Releases(k)
<1>1. ASSUME R!ExpireOnly(k) PROVE Refreshes
  BY <1>1, ExpireIs DEF R!ExpireOnly, R!env, R!counters, Refreshes
<1>2. ASSUME R!Holds(k), R!SettleCommitted(k) PROVE Commits(k)
  BY <1>2, SameNames DEF R!Holds, R!SettleCommitted, R!MoveTo, R!AddExposed, R!env,
     Commits, Settles
<1>3. ASSUME R!Holds(k), R!SettleReleased(k) PROVE Releases(k)
  BY <1>3, SameNames DEF R!Holds, R!SettleReleased, R!MoveTo, R!AddExposed, R!env,
     Releases, Settles
<1> QED BY <1>1, <1>2, <1>3

\* A settling call moves the record it names, or nothing but expiries.
LEMMA RefMoves ==
  ASSUME NEW ref \in Refs, NEW outcome, NEW cred
  PROVE  LET k == Key(ref) IN
         /\ R!Commit(ref) => IF State(k) \in HeldNow /\ cmt[k] = NoEntry THEN Commits(k)
                                                                          ELSE Unmoved
         /\ R!Release(ref) => IF State(k) \in HeldNow THEN Releases(k) ELSE Unmoved
         /\ R!Expose(ref) => IF State(k) = "reserved" THEN Exposes(k) ELSE Unmoved
         /\ R!ResolveExposed(ref, outcome, cred) =>
                IF R!ResolveAnswer(ref, cred) = R!Ok THEN Commits(k) \/ Releases(k) ELSE Unmoved
<1> DEFINE k == Key(ref)
<1>1. k \in Keys /\ R!Key(ref) = k /\ R!StateNow(k) = State(k) /\ ~R!Aliased(ref)
  BY KeysTyped, SameNames
<1>2. R!NoHash = NoHash /\ R!NoEntry = NoEntry
  BY SameNames
<1>3. R!Holds(k) <=> State(k) \in HeldNow
  BY <1>1 DEF R!Holds, HeldNow
<1>4. State(k) \in HeldNow => res[k] # NoHash
  BY DEF State, HeldNow, NoHash
<1>5. /\ R!vars' = R!vars => Unmoved
      /\ R!ExpireOnly(k) => Unmoved
  BY <1>1, SettlingMoves DEF R!vars, R!env, R!records, R!counters, R!policy, ledger, Unmoved
<1>6. ASSUME R!Commit(ref)
      PROVE  IF State(k) \in HeldNow /\ cmt[k] = NoEntry THEN Commits(k) ELSE Unmoved
  BY <1>1, <1>2, <1>3, <1>4, <1>5, <1>6, SettlingMoves DEF R!Commit
<1>7. ASSUME R!Release(ref)
      PROVE  IF State(k) \in HeldNow THEN Releases(k) ELSE Unmoved
  BY <1>1, <1>2, <1>3, <1>4, <1>5, <1>7, SettlingMoves DEF R!Release
<1>8. ASSUME R!Expose(ref)
      PROVE  IF State(k) = "reserved" THEN Exposes(k) ELSE Unmoved
  <2>1. State(k) = "reserved" => res[k] # NoHash
    BY <1>4 DEF HeldNow
  <2>2. CASE State(k) # "reserved"
    BY <1>1, <1>2, <1>5, <1>8, <2>2 DEF R!Expose
  <2>3. CASE State(k) = "reserved"
    <3>1. /\ R!MoveTo(k, "exposed") /\ R!AddExposed(k, res[k].amount)
          /\ UNCHANGED <<R!env, resIdx, cmt, cmtIdx, total, R!policy>>
      BY <1>1, <1>2, <1>8, <2>1, <2>3 DEF R!Expose
    <3>2. Exposes(k)
      BY <1>1, <2>3, <3>1 DEF R!MoveTo, R!AddExposed, R!env, Exposes
    <3> QED BY <2>3, <3>2
  <2> QED BY <2>2, <2>3
<1>9. ASSUME R!ResolveExposed(ref, outcome, cred)
      PROVE  IF R!ResolveAnswer(ref, cred) = R!Ok THEN Commits(k) \/ Releases(k) ELSE Unmoved
  <2>1. R!ResolveAnswer(ref, cred) = R!Ok => R!Holds(k)
    BY <1>1 DEF R!ResolveAnswer, R!IfAdmin, R!AdminDenied, R!Refusal, R!NotFound, R!Lifecycle,
                R!Ok, R!AliasRefusal, R!Holds, State
  <2> QED BY <1>1, <1>5, <1>9, <2>1, SettlingMoves DEF R!ResolveExposed
<1> QED BY <1>6, <1>7, <1>8, <1>9

LEMMA SnapshotMoves ==
  ASSUME NEW sa \in Accounts, R!GetBudgetState(sa)
  PROVE  Snapshots(sa)
<1>1. R!StaleCommits(sa) = OldCommits(sa)
  BY SameNames DEF R!StaleCommits, R!Cutoff, OldCommits
<1>2. R!StaleRecords(sa) = OldRecords(sa)
  BY SameNames DEF R!StaleRecords, R!Cutoff, OldRecords
<1>3. \A k \in Keys : R!Expire({k})[k] = Refreshed(k)
  BY ExpireIs
<1>4. /\ res' = [k \in Keys |-> IF k \in Old(sa) THEN NoHash
                                ELSE IF k \in KeysOf(sa) THEN Refreshed(k) ELSE res[k]]
      /\ cmt' = [k \in Keys |-> IF k \in OldCommits(sa) THEN NoEntry ELSE cmt[k]]
  BY <1>1, <1>2, <1>3, SameNames DEF R!GetBudgetState, Old
<1>5. /\ resIdx' = [resIdx EXCEPT ![sa] = @ \ { k[2] : k \in Old(sa) }]
      /\ cmtIdx' = [cmtIdx EXCEPT ![sa] = @ \ { k[2] : k \in OldCommits(sa) }]
      /\ UNCHANGED <<now, total, exposed>>
  BY <1>1, <1>2 DEF R!GetBudgetState, R!IdsOf, R!env, R!counters, Old
<1> QED BY <1>4, <1>5 DEF Snapshots

LEMMA AdministerMoves ==
  ASSUME NEW cred, Administer(cred)
  PROVE  UNCHANGED ledger \/ \E sa \in Accounts : Resets(sa)
<1>1. ASSUME NEW scope \in Scopes, NEW assetId \in AssetIds, R!ResetCumulative(scope, assetId, cred)
      PROVE  UNCHANGED ledger \/ \E sa \in Accounts : Resets(sa)
  <2>1. R!CanonicalizeAsset(assetId) = CanonicalizeAsset(assetId)
    BY DEF R!CanonicalizeAsset, R!Lowercase, CanonicalizeAsset, Lowercase
  <2>2. <<scope, CanonicalizeAsset(assetId)>> \in Accounts
    BY DEF Accounts, Assets
  <2> QED BY <1>1, <2>1, <2>2 DEF R!ResetCumulative, R!env, R!records, ledger, Resets
<1>2. ASSUME \/ \E scope : R!Freeze(scope, cred) \/ R!Unfreeze(scope, cred)
             \/ \E scope, assetId, l : R!SetBudgetLimits(scope, assetId, l, cred)
             \/ \E scope, network, list : R!SetRecipientPins(scope, network, list, cred)
             \/ \E scope, on : \/ R!SetRecipientAssertionRequired(scope, on, cred)
                               \/ R!SetTofuEnabled(scope, on, cred)
      PROVE  UNCHANGED ledger
  BY <1>2 DEF R!Freeze, R!Unfreeze, R!SetBudgetLimits, R!SetRecipientPins,
     R!SetRecipientAssertionRequired, R!SetTofuEnabled, R!env, R!records, R!counters, ledger
<1> QED BY <1>1, <1>2 DEF Administer

\* The record a call is about.
Subject(c) == IF c.op = "resolveExposed" THEN Key(c.arg[1]) ELSE Key(c.arg)

LEMMA SpendMoves ==
  ASSUME NEW c \in SpendCalls, Spend(c)
  PROVE  /\ Subject(c) \in Keys
         /\ \/ Unmoved
            \/ c.op = "reserve" /\ c.arg \in CallerInputs /\ Grants(c.arg)
            \/ c.op \in {"commit", "resolveExposed"} /\ Commits(Subject(c))
            \/ c.op \in {"release", "resolveExposed"} /\ Releases(Subject(c))
            \/ c.op = "expose" /\ Exposes(Subject(c))
<1>1. CASE c.op = "reserve"
  <2>1. c.arg \in CallerInputs /\ R!Reserve(c.arg)
    BY <1>1 DEF SpendCalls, Spend
  <2> QED BY <1>1, <2>1, ReserveMoves, InputAssumption, KeysTyped DEF Unmoved, Subject
<1>2. CASE c.op \in {"commit", "release", "expose"}
  <2>1. c.arg \in Refs
    BY <1>2 DEF SpendCalls
  <2>2. /\ c.op = "commit" => R!Commit(c.arg)
        /\ c.op = "release" => R!Release(c.arg)
        /\ c.op = "expose" => R!Expose(c.arg)
    BY <1>2 DEF Spend
  <2> QED BY <1>2, <2>1, <2>2, RefMoves, KeysTyped DEF Subject
<1>3. CASE c.op = "resolveExposed"
  <2>1. c.arg[1] \in Refs /\ R!ResolveExposed(c.arg[1], c.arg[2], c.arg[3])
    BY <1>3 DEF SpendCalls, Spend
  <2> QED BY <1>3, <2>1, RefMoves, KeysTyped DEF Subject
<1> QED BY <1>1, <1>2, <1>3 DEF SpendCalls

\* Every call, query, administration and tick is one of the steps above.
LEMMA LedgerSteps ==
  ASSUME [Next]_vars, unanswered # NoCall => unanswered.call \in SpendCalls
  PROVE  LedgerStep
<1>0. ASSUME NEW c \in SpendCalls, Spend(c)
      PROVE  LedgerStep
  BY <1>0, SpendMoves DEF LedgerStep, Unmoved
<1>1. ASSUME NEW c \in SpendCalls, Call(c) \/ CallUnanswered(c)
      PROVE  LedgerStep
  BY <1>0, <1>1 DEF Call, CallUnanswered
<1>2. CASE Resend
  BY <1>0, <1>2 DEF Resend
<1>3. ASSUME NEW sa \in Accounts, Query(sa)
      PROVE  LedgerStep
  BY <1>3, SnapshotMoves DEF Query, LedgerStep
<1>4. ASSUME NEW cred \in Credentials, Administer(cred)
      PROVE  LedgerStep
  BY <1>4, AdministerMoves DEF LedgerStep
<1>5. CASE Tick
  BY <1>5 DEF Tick, redisVars, Ticks, LedgerStep
<1>6. CASE UNCHANGED vars
  BY <1>6 DEF vars, storeVars, redisVars, LedgerStep, ledger
<1> QED BY <1>1, <1>2, <1>3, <1>4, <1>5, <1>6 DEF Next

-------------------------------------------------------------------------------
(* The inductive invariant.                                                *)

LedgerTyped ==
    /\ now \in Nat
    /\ res \in [Keys -> Hash]
    /\ resIdx \in [Accounts -> SUBSET Ids]
    /\ cmt \in [Keys -> Entry]
    /\ cmtIdx \in [Accounts -> SUBSET Ids]
    /\ total \in [Accounts -> Nat]
    /\ exposed \in [Accounts -> Int]

\* A record carries a positive amount and the times of its reservation.
Dated ==
    \A k \in Keys : \/ res[k] = NoHash
                    \/ /\ res[k].state # "absent" /\ res[k].amount > 0
                       /\ 0 <= res[k].created /\ res[k].created <= now
                       /\ res[k].expires = res[k].created + TTL

Agreeing ==
    \A k \in Keys :
        /\ k[2] \in resIdx[k[1]] <=> res[k] # NoHash
        /\ k[2] \in cmtIdx[k[1]] <=> cmt[k] # NoEntry
        /\ res[k].state = "committed" <=> cmt[k] # NoEntry
        /\ cmt[k] # NoEntry => cmt[k].amount = res[k].amount

Prices          == [k \in Keys |-> res[k].amount]
ExposedKeys(sa) == { k \in KeysOf(sa) : res[k].state = "exposed" }
ExposedAdds     == \A sa \in Accounts : exposed[sa] = AtomicTotal(ExposedKeys(sa), Prices)

LedgerInv == LedgerTyped /\ Dated /\ Agreeing /\ ExposedAdds

LEMMA Typing ==
  ASSUME LedgerTyped
  PROVE  /\ TTL \in Nat /\ TTL > 0 /\ Window \in Nat /\ TTL <= Window
         /\ \A k \in Keys : /\ res[k] \in Hash /\ cmt[k] \in Entry
                            /\ State(k) \in States /\ Refreshed(k) \in Hash
                            /\ res[k].amount \in Nat
         /\ NoHash \in Hash /\ NoEntry \in Entry
         /\ \A in \in ReserveInputs : in.amount \in Nat /\ in.amount > 0
                                      /\ in.fingerprint \in Fingerprints
<1>1. TTL \in Nat /\ TTL > 0 /\ Window \in Nat /\ TTL <= Window
  BY TimeAssumption
<1>2. \A k \in Keys : res[k] \in Hash /\ cmt[k] \in Entry
  BY DEF LedgerTyped
<1>3. \A h \in Hash : /\ h.state \in States /\ h.amount \in Nat
                      /\ \A s \in States : [h EXCEPT !.state = s] \in Hash
  BY DEF Hash
<1>4. \A k \in Keys : State(k) \in States
  BY <1>2, <1>3 DEF State, States
<1>5. NoHash \in Hash /\ NoEntry \in Entry
  BY DEF NoHash, NoEntry, Hash, Entry, States
<1>6. \A in \in ReserveInputs : in.amount \in Amounts /\ in.fingerprint \in Fingerprints
  BY DEF ReserveInputs
<1>7. \A n \in Amounts : n \in Nat /\ n > 0
  BY AmountAssumption
<1> QED BY <1>1, <1>2, <1>3, <1>4, <1>5, <1>6, <1>7 DEF Refreshed

LEMMA TypedStep ==
  ASSUME LedgerTyped, LedgerStep
  PROVE  LedgerTyped'
<1> USE DEF LedgerTyped
<1>1. CASE UNCHANGED ledger
  BY <1>1 DEF ledger
<1>2. CASE Refreshes
  BY <1>2, Typing DEF Refreshes
<1>3. CASE Ticks
  BY <1>3 DEF Ticks
<1>4. ASSUME NEW in \in CallerInputs, Grants(in)
      PROVE  LedgerTyped'
  <2>1. in \in ReserveInputs /\ Key(in) \in Keys
    BY <1>4 DEF Grants
  <2>2. Key(in)[1] \in Accounts /\ Key(in)[2] \in Ids
    BY <2>1, KeysTyped
  <2>3. [state |-> "reserved", fingerprint |-> in.fingerprint, amount |-> in.amount,
         created |-> now, expires |-> now + TTL] \in Hash
    BY <2>1, Typing DEF Hash, States
  <2>4. res' \in [Keys -> Hash]
    BY <1>4, <2>1, <2>3, Typing DEF Grants
  <2> QED BY <1>4, <2>2, <2>4 DEF Grants
<1>5. ASSUME NEW k \in Keys, Commits(k) \/ Releases(k) \/ Exposes(k)
      PROVE  LedgerTyped'
  <2>1. k[1] \in Accounts /\ k[2] \in Ids
    BY KeysTyped
  <2>2. \A s \in States : [res[k] EXCEPT !.state = s] \in Hash
    BY DEF Hash
  <2>3. res' \in [Keys -> Hash]
    <3>1. \A s \in States : [res EXCEPT ![k].state = s] \in [Keys -> Hash]
      BY <2>2
    <3>2. \E s \in States : res' = [res EXCEPT ![k].state = s]
      BY <1>5 DEF Commits, Releases, Exposes, Settles, States
    <3> QED BY <3>1, <3>2
  <2>4. exposed' \in [Accounts -> Int]
    <3>1. \A d \in Int : [exposed EXCEPT ![k[1]] = @ + d] \in [Accounts -> Int]
      BY <2>1
    <3>2. res[k].amount \in Int /\ - res[k].amount \in Int
      BY Typing
    <3>3. \E d \in Int : exposed' = [exposed EXCEPT ![k[1]] = @ + d]
      BY <1>5, <3>2 DEF Commits, Releases, Exposes, Settles
    <3> QED BY <3>1, <3>3
  <2>5. /\ cmt' \in [Keys -> Entry]
        /\ cmtIdx' \in [Accounts -> SUBSET Ids]
        /\ total' \in [Accounts -> Nat]
    <3>1. UNCHANGED <<cmt, cmtIdx, total>> \/ Commits(k)
      BY <1>5 DEF Releases, Exposes
    <3>2. [amount |-> res[k].amount, at |-> now] \in Entry
      BY Typing DEF Entry
    <3>3. Commits(k) => cmt' \in [Keys -> Entry]
      BY <3>2 DEF Commits
    <3>4. Commits(k) => cmtIdx' \in [Accounts -> SUBSET Ids]
      BY <2>1 DEF Commits
    <3>5. res[k].amount \in Nat /\ (Commits(k) => total' \in [Accounts -> Nat])
      BY <2>1, Typing DEF Commits
    <3> QED BY <3>1, <3>3, <3>4, <3>5
  <2> QED BY <1>5, <2>3, <2>4, <2>5 DEF Commits, Releases, Exposes, Settles
<1>6. ASSUME NEW sa \in Accounts, Snapshots(sa) \/ Resets(sa)
      PROVE  LedgerTyped'
  BY <1>6, Typing DEF Snapshots, Resets
<1> QED BY <1>1, <1>2, <1>3, <1>4, <1>5, <1>6 DEF LedgerStep

\* A positive amount and a past date are left by every step.
LEMMA DatedStep ==
  ASSUME LedgerTyped, Dated, LedgerStep
  PROVE  Dated'
<1> USE DEF Dated
<1>0. /\ now \in Nat /\ TTL \in Nat
      /\ \A k \in Keys : /\ res[k].created \in Int /\ res[k].amount \in Nat
                         /\ State(k) # "absent" \/ res[k] = NoHash
                         /\ res[k] = NoHash => Refreshed(k) = NoHash
                         /\ Refreshed(k).state = State(k)
                         /\ Refreshed(k).amount = res[k].amount
                         /\ Refreshed(k).created = res[k].created
                         /\ Refreshed(k).expires = res[k].expires
  BY Typing DEF LedgerTyped, State, Refreshed, NoHash, Hash
<1>1. CASE UNCHANGED ledger
  BY <1>1 DEF ledger, NoHash
<1>2. CASE Refreshes
  BY <1>0, <1>2 DEF Refreshes, NoHash
<1>3. CASE Ticks
  BY <1>0, <1>3 DEF Ticks, NoHash
<1>4. ASSUME NEW in \in CallerInputs, Grants(in)
      PROVE  Dated'
  <2>1. in \in ReserveInputs /\ Key(in) \in Keys /\ now' = now
    BY <1>4 DEF Grants
  <2>2. ASSUME NEW j \in Keys, j # Key(in)
        PROVE  res'[j] = res[j] \/ res'[j] = Refreshed(j)
    BY <1>4, <2>1, <2>2 DEF Grants
  <2>3. /\ res'[Key(in)].state = "reserved" /\ res'[Key(in)].amount = in.amount
        /\ res'[Key(in)].created = now /\ res'[Key(in)].expires = now + TTL
    BY <1>4, <2>1 DEF Grants
  <2>4. in.amount > 0
    BY <2>1, Typing
  <2> QED BY <1>0, <2>1, <2>2, <2>3, <2>4 DEF NoHash
<1>5. ASSUME NEW k \in Keys, Commits(k) \/ Releases(k) \/ Exposes(k)
      PROVE  Dated'
  <2>1. now' = now /\ State(k) # "absent" /\ res[k] # NoHash
    BY <1>5 DEF Commits, Releases, Exposes, Settles, State, NoHash
  <2>2. \A j \in Keys : j # k => res'[j] = res[j]
    BY <1>5 DEF Commits, Releases, Exposes, Settles, LedgerTyped
  <2>3. \E s \in States \ {"absent"} : res'[k] = [res[k] EXCEPT !.state = s]
    BY <1>5 DEF Commits, Releases, Exposes, Settles, LedgerTyped, States
  <2>4. /\ res'[k].state # "absent" /\ res'[k].amount = res[k].amount
        /\ res'[k].created = res[k].created /\ res'[k].expires = res[k].expires
    BY <2>3, Typing DEF Hash
  <2> QED BY <1>0, <2>1, <2>2, <2>4 DEF NoHash
<1>6. ASSUME NEW sa \in Accounts, Snapshots(sa) \/ Resets(sa)
      PROVE  Dated'
  <2>1. now' = now
        /\ \A j \in Keys : res'[j] \in {res[j], Refreshed(j), NoHash}
    BY <1>6 DEF Snapshots, Resets
  <2> QED BY <1>0, <2>1 DEF NoHash
<1> QED BY <1>1, <1>2, <1>3, <1>4, <1>5, <1>6 DEF LedgerStep

\* Hashes, entries and indices are written and deleted together.
LEMMA AgreeingStep ==
  ASSUME LedgerTyped, Dated, Agreeing, LedgerStep
  PROVE  Agreeing'
<1> USE DEF Agreeing
<1>0. \A k \in Keys : /\ res[k].state = "committed" <=> Refreshed(k).state = "committed"
                      /\ res[k] = NoHash <=> Refreshed(k) = NoHash
                      /\ Refreshed(k).amount = res[k].amount
                      /\ k[1] \in Accounts /\ k[2] \in Ids /\ k = <<k[1], k[2]>>
                      /\ res[k] = NoHash => cmt[k] = NoEntry
  BY Typing, KeysTyped DEF State, Refreshed, NoHash, Hash, Dated
<1>1. CASE UNCHANGED ledger
  BY <1>1 DEF ledger, NoHash, NoEntry
<1>2. CASE Refreshes
  <2>1. \A k \in Keys : res'[k] \in {res[k], Refreshed(k)}
    BY <1>2 DEF Refreshes
  <2> QED BY <1>0, <1>2, <2>1 DEF Refreshes, NoHash, NoEntry
<1>3. CASE Ticks
  BY <1>3 DEF Ticks, NoHash, NoEntry
<1>4. ASSUME NEW in \in CallerInputs, Grants(in)
      PROVE  Agreeing'
  <2>1. in \in ReserveInputs /\ Key(in) \in Keys /\ res[Key(in)] = NoHash
    BY <1>4 DEF Grants
  <2>2. ASSUME NEW j \in Keys, j # Key(in)
        PROVE  res'[j] = res[j] \/ res'[j] = Refreshed(j)
    BY <1>4, <2>1, <2>2 DEF Grants
  <2>3. res'[Key(in)].state = "reserved"
    BY <1>4, <2>1 DEF Grants
  <2>4. \A j \in Keys : j[2] \in resIdx'[j[1]] <=> j = Key(in) \/ j[2] \in resIdx[j[1]]
    BY <1>0, <1>4, <2>1 DEF Grants, LedgerTyped
  <2>5. cmt' = cmt /\ cmtIdx' = cmtIdx
    BY <1>4 DEF Grants
  <2> QED BY <1>0, <2>1, <2>2, <2>3, <2>4, <2>5 DEF NoHash, NoEntry
<1>5. ASSUME NEW k \in Keys, Commits(k) \/ Releases(k) \/ Exposes(k)
      PROVE  Agreeing'
  <2>1. res[k].state \in {"reserved", "exposed"} /\ res[k] # NoHash /\ cmt[k] = NoEntry
    BY <1>5 DEF Commits, Releases, Exposes, Settles, State, NoHash
  <2>2. \A j \in Keys : j # k => res'[j] = res[j]
    BY <1>5 DEF Commits, Releases, Exposes, Settles, LedgerTyped
  <2>3. PICK s \in {"committed", "released", "exposed"} :
            res'[k] = [res[k] EXCEPT !.state = s] /\ (s = "committed" <=> Commits(k))
    BY <1>5 DEF Commits, Releases, Exposes, Settles, LedgerTyped, Hash
  <2>4. /\ res'[k].state = s /\ res'[k].amount = res[k].amount
        /\ res'[k] # NoHash
    BY <2>3, Typing DEF Hash, NoHash
  <2>5. resIdx' = resIdx
    BY <1>5 DEF Commits, Releases, Exposes, Settles
  <2>6. CASE Commits(k)
    <3>1. cmt'[k] = [amount |-> res[k].amount, at |-> now]
          /\ \A j \in Keys : j # k => cmt'[j] = cmt[j]
      BY <2>6 DEF Commits, LedgerTyped
    <3>2. \A j \in Keys : j[2] \in cmtIdx'[j[1]] <=> j = k \/ j[2] \in cmtIdx[j[1]]
      BY <1>0, <2>6 DEF Commits, LedgerTyped
    <3>3. cmt'[k] # NoEntry /\ cmt'[k].amount = res[k].amount
      BY <2>1, <3>1 DEF NoEntry, Dated
    <3>4. s = "committed" /\ (k[2] \in resIdx[k[1]])
      BY <2>1, <2>3, <2>6
    <3>5. ASSUME NEW j \in Keys, j # k
          PROVE  /\ res'[j] = res[j] /\ cmt'[j] = cmt[j]
                 /\ j[2] \in cmtIdx'[j[1]] <=> j[2] \in cmtIdx[j[1]]
      BY <2>2, <3>1, <3>2, <3>5
    <3>6. k[2] \in cmtIdx'[k[1]]
      BY <3>2
    <3> QED BY <2>4, <2>5, <3>3, <3>4, <3>5, <3>6 DEF NoHash, NoEntry
  <2>7. CASE ~Commits(k)
    <3>1. cmt' = cmt /\ cmtIdx' = cmtIdx /\ s # "committed"
      BY <1>5, <2>3, <2>7 DEF Releases, Exposes
    <3>2. ASSUME NEW j \in Keys
          PROVE  /\ j[2] \in resIdx'[j[1]] <=> res'[j] # NoHash
                 /\ res'[j].state = "committed" <=> cmt[j] # NoEntry
                 /\ cmt[j] # NoEntry => cmt[j].amount = res'[j].amount
      <4>1. CASE j = k
        BY <2>1, <2>4, <2>5, <3>1, <4>1
      <4>2. CASE j # k
        BY <2>2, <2>5, <4>2
      <4> QED BY <4>1, <4>2
    <3> QED BY <3>1, <3>2 DEF NoHash, NoEntry
  <2> QED BY <2>6, <2>7
<1>6. ASSUME NEW sa \in Accounts, Resets(sa)
      PROVE  Agreeing'
  BY <1>6 DEF Resets, NoHash, NoEntry
<1>7. ASSUME NEW sa \in Accounts, Snapshots(sa)
      PROVE  Agreeing'
  <2>1. ASSUME NEW j \in Keys
        PROVE  /\ j[2] \in resIdx'[j[1]] <=> j[2] \in resIdx[j[1]] /\ j \notin Old(sa)
               /\ j[2] \in cmtIdx'[j[1]] <=> j[2] \in cmtIdx[j[1]] /\ j \notin OldCommits(sa)
    <3>1. \A i \in Old(sa) : i \in Keys /\ i[1] = sa
      BY KeysTyped DEF Old, OldCommits, OldRecords
    <3>2. OldCommits(sa) \subseteq Old(sa)
      BY DEF Old
    <3>3. j[1] # sa => resIdx'[j[1]] = resIdx[j[1]] /\ cmtIdx'[j[1]] = cmtIdx[j[1]]
      BY <1>0, <1>7 DEF Snapshots, LedgerTyped
    <3>4. /\ resIdx'[sa] = resIdx[sa] \ { k[2] : k \in Old(sa) }
          /\ cmtIdx'[sa] = cmtIdx[sa] \ { k[2] : k \in OldCommits(sa) }
      BY <1>7 DEF Snapshots, LedgerTyped
    <3>5. j[1] = sa => (j[2] \in { k[2] : k \in Old(sa) } <=> j \in Old(sa))
      BY <1>0, <3>1
    <3>6. j[1] = sa => (j[2] \in { k[2] : k \in OldCommits(sa) } <=> j \in OldCommits(sa))
      BY <1>0, <3>1, <3>2
    <3> QED BY <3>1, <3>2, <3>3, <3>4, <3>5, <3>6
  <2>2. \A j \in Keys : /\ j \in Old(sa) => res'[j] = NoHash
                        /\ j \notin Old(sa) => res'[j] \in {res[j], Refreshed(j)}
                        /\ j \in OldCommits(sa) => cmt'[j] = NoEntry
                        /\ j \notin OldCommits(sa) => cmt'[j] = cmt[j]
                        /\ j \in OldCommits(sa) => j \in Old(sa)
    BY <1>7 DEF Snapshots, Old
  <2>3. \A j \in Keys : /\ j \in OldCommits(sa) => cmt[j] # NoEntry
                        /\ j \in Old(sa) /\ j \notin OldCommits(sa) => cmt[j] = NoEntry
    BY <1>0, KeysTyped DEF OldCommits, OldRecords, Old, State
  <2> QED BY <1>0, <2>1, <2>2, <2>3 DEF NoHash, NoEntry
<1> QED BY <1>1, <1>2, <1>3, <1>4, <1>5, <1>6, <1>7 DEF LedgerStep

-------------------------------------------------------------------------------
(* What a step does to each record, seen with its expiry.                  *)

Stays(k)     == State(k)' = State(k) /\ res'[k].amount = res[k].amount
Lapses(k)    == /\ State(k) = "reserved" /\ State(k)' = "expired"
                /\ res'[k].amount = res[k].amount
Forgotten(k) == State(k) \in {"committed", "released", "expired"} /\ res'[k] = NoHash
Ages(k)      == Stays(k) \/ Lapses(k) \/ Forgotten(k)

\* The record of k moves to state s, and every other stays.
MovesTo(k, s) == /\ State(k)' = s /\ res'[k].amount = res[k].amount
                 /\ \A j \in Keys : j # k => Stays(j)

LEMMA StateFacts ==
  ASSUME LedgerTyped, Dated
  PROVE  \A k \in Keys : /\ State(k) = "exposed" <=> res[k].state = "exposed"
                         /\ State(k) = "committed" <=> res[k].state = "committed"
                         /\ State(k) = "absent" <=> res[k] = NoHash
                         /\ State(k) \in States /\ res[k].amount \in Nat
BY Typing DEF State, NoHash, Dated

LEMMA AgeMoves ==
  ASSUME LedgerTyped, Dated, Agreeing,
         \/ UNCHANGED ledger \/ Refreshes \/ Ticks
         \/ \E sa \in Accounts : Snapshots(sa) \/ Resets(sa)
  PROVE  \A k \in Keys : Ages(k)
<1> SUFFICES ASSUME NEW k \in Keys
             PROVE  Ages(k)
  OBVIOUS
<1> USE DEF Ages, Stays
<1>0. /\ res[k] \in Hash /\ now \in Nat
      /\ Refreshed(k) = [res[k] EXCEPT !.state = State(k)]
  BY Typing DEF LedgerTyped, Refreshed
<1>1. ASSUME now' = now, res'[k] \in {res[k], Refreshed(k)}
      PROVE  Stays(k)
  BY <1>0, <1>1 DEF State, Hash, States
<1>2. CASE UNCHANGED ledger \/ Refreshes
  BY <1>1, <1>2 DEF ledger, Refreshes
<1>3. CASE Ticks
  BY <1>0, <1>3 DEF Ticks, State, Lapses, Hash
<1>4. ASSUME NEW sa \in Accounts, Resets(sa)
      PROVE  Ages(k)
  BY <1>1, <1>4 DEF Resets
<1>5. ASSUME NEW sa \in Accounts, Snapshots(sa)
      PROVE  Ages(k)
  <2>1. CASE k \in OldRecords(sa)
    BY <1>5, <2>1 DEF Snapshots, Old, OldRecords, Forgotten
  <2>2. CASE k \in OldCommits(sa)
    <3>1. res[k].state = "committed"
      BY <2>2, KeysTyped DEF OldCommits, Agreeing
    <3> QED BY <1>5, <2>2, <3>1 DEF Snapshots, Old, State, Forgotten
  <2>3. CASE k \notin Old(sa)
    BY <1>1, <1>5, <2>3 DEF Snapshots
  <2> QED BY <2>1, <2>2, <2>3 DEF Old
<1> QED BY <1>2, <1>3, <1>4, <1>5

LEMMA GrantMoves ==
  ASSUME LedgerTyped, Dated, NEW in \in CallerInputs, Grants(in)
  PROVE  /\ Key(in) \in Keys /\ res[Key(in)] = NoHash /\ State(Key(in)) = "absent"
         /\ State(Key(in))' = "reserved" /\ res'[Key(in)].amount = in.amount
         /\ \A j \in Keys : j # Key(in) => Stays(j)
<1>1. in \in ReserveInputs /\ Key(in) \in Keys /\ res[Key(in)] = NoHash /\ now' = now
  BY DEF Grants
<1>2. /\ res'[Key(in)].state = "reserved" /\ res'[Key(in)].amount = in.amount
      /\ res'[Key(in)].expires = now + TTL
  BY <1>1 DEF Grants
<1>3. State(Key(in))' = "reserved"
  BY <1>1, <1>2, Typing DEF State, LedgerTyped
<1>4. ASSUME NEW j \in Keys, j # Key(in)
      PROVE  Stays(j)
  <2>1. res'[j] = res[j] \/ res'[j] = Refreshed(j)
    BY <1>1, <1>4 DEF Grants
  <2>2. res[j] \in Hash
    BY DEF LedgerTyped
  <2> QED BY <1>1, <2>1, <2>2 DEF Stays, State, Refreshed, Hash
<1> QED BY <1>1, <1>2, <1>3, <1>4 DEF State, NoHash

LEMMA SettleMoves ==
  ASSUME LedgerTyped, NEW k \in Keys
  PROVE  /\ Commits(k) => MovesTo(k, "committed")
         /\ Releases(k) => MovesTo(k, "released")
         /\ Exposes(k) => MovesTo(k, "exposed")
<1>1. ASSUME NEW s \in {"committed", "released", "exposed"},
             now' = now, res' = [res EXCEPT ![k].state = s]
      PROVE  MovesTo(k, s)
  <2>1. res'[k] = [res[k] EXCEPT !.state = s] /\ \A j \in Keys : j # k => res'[j] = res[j]
    BY <1>1 DEF LedgerTyped
  <2>2. res[k] \in Hash
    BY DEF LedgerTyped
  <2> QED BY <1>1, <2>1, <2>2 DEF MovesTo, Stays, State, Hash
<1> QED BY <1>1 DEF Commits, Releases, Exposes, Settles

-------------------------------------------------------------------------------
(* Sums over the records.                                                  *)

LEMMA KeysFinite ==
  /\ IsFiniteSet(Keys)
  /\ \A sa : IsFiniteSet(KeysOf(sa))
<1> DEFINE canonical == [a \in AssetIds |-> CanonicalizeAsset(a)]
<1>1. canonical \in Surjection(AssetIds, Assets)
  <2>1. canonical \in [AssetIds -> Assets]
    BY DEF Assets
  <2>2. \A b \in Assets : \E a \in AssetIds : canonical[a] = b
    BY DEF Assets
  <2> QED BY <2>1, <2>2 DEF Surjection
<1>2. IsFiniteSet(Assets)
  BY <1>1, FiniteAssumption, FS_Surjection
<1>3. IsFiniteSet(Accounts)
  BY <1>2, FiniteAssumption, FS_Product DEF Accounts
<1>4. IsFiniteSet(Keys)
  BY <1>3, FiniteAssumption, FS_Product DEF Keys
<1> QED BY <1>4, FS_Subset DEF KeysOf

\* Keys whose amounts a step leaves add up to what they did.
LEMMA SumStays ==
  ASSUME NEW S \in SUBSET Keys, \A k \in S : res'[k].amount = res[k].amount
  PROVE  AtomicTotal(S, Prices') = AtomicTotal(S, Prices)
<1>1. \A k \in S : Prices'[k] = Prices[k]
  BY DEF Prices
<1>2. Prices' = [k \in Keys |-> res'[k].amount]
  BY DEF Prices
<1> QED BY <1>1, AtomicTotalAgree

LEMMA PricesTyped ==
  ASSUME LedgerTyped
  PROVE  \A k \in Keys : Prices[k] = res[k].amount /\ Prices[k] \in Nat
BY Typing DEF Prices

LEMMA ExposedAddsStep ==
  ASSUME LedgerInv, LedgerStep
  PROVE  ExposedAdds'
<1> USE DEF LedgerInv
<1>0. ASSUME NEW sa \in Accounts
      PROVE  /\ ExposedKeys(sa) \subseteq Keys /\ IsFiniteSet(ExposedKeys(sa))
             /\ \A k \in ExposedKeys(sa) : Prices[k] \in Nat
             /\ AtomicTotal(ExposedKeys(sa), Prices) \in Nat
             /\ exposed[sa] = AtomicTotal(ExposedKeys(sa), Prices)
  <2>1. ExposedKeys(sa) \subseteq KeysOf(sa) /\ KeysOf(sa) \subseteq Keys
    BY KeysTyped DEF ExposedKeys
  <2>2. IsFiniteSet(ExposedKeys(sa))
    BY <2>1, KeysFinite, FS_Subset
  <2>3. \A k \in ExposedKeys(sa) : Prices[k] \in Nat
    BY <2>1, PricesTyped
  <2> QED BY <2>1, <2>2, <2>3, AtomicTotalType DEF ExposedAdds
<1>1. LedgerTyped' /\ Dated'
  BY TypedStep, DatedStep
<1>2. ASSUME NEW sa \in Accounts
      PROVE  ExposedKeys(sa)' = { k \in KeysOf(sa) : State(k)' = "exposed" }
  <2>1. \A k \in Keys : State(k)' = "exposed" <=> res'[k].state = "exposed"
    BY <1>1, StateFacts DEF State
  <2> QED BY <2>1, KeysTyped DEF ExposedKeys
<1>3. ASSUME \A k \in Keys : State(k)' = "exposed" <=> State(k) = "exposed",
             \A k \in Keys : State(k) = "exposed" => res'[k].amount = res[k].amount,
             exposed' = exposed
      PROVE  ExposedAdds'
  <2> SUFFICES ASSUME NEW sa \in Accounts
               PROVE  exposed'[sa] = AtomicTotal(ExposedKeys(sa)', Prices')
    BY DEF ExposedAdds
  <2>1. ExposedKeys(sa)' = ExposedKeys(sa)
    BY <1>2, <1>3, StateFacts, KeysTyped DEF ExposedKeys
  <2>2. \A k \in ExposedKeys(sa) : res'[k].amount = res[k].amount
    BY <1>0, <1>3, StateFacts DEF ExposedKeys
  <2> QED BY <1>0, <1>3, <2>1, <2>2, SumStays
<1>4. CASE \/ UNCHANGED ledger \/ Refreshes \/ Ticks
           \/ \E sa \in Accounts : Snapshots(sa) \/ Resets(sa)
  <2>1. exposed' = exposed
    BY <1>4 DEF ledger, Refreshes, Ticks, Snapshots, Resets
  <2>2. \A k \in Keys : Ages(k)
    BY <1>4, AgeMoves
  <2>3. \A k \in Keys : res'[k] = NoHash => State(k)' = "absent"
    BY DEF State, NoHash
  <2> QED BY <1>3, <2>1, <2>2, <2>3 DEF Ages, Stays, Lapses, Forgotten
<1>5. ASSUME NEW in \in CallerInputs, Grants(in)
      PROVE  ExposedAdds'
  <2>1. exposed' = exposed
    BY <1>5 DEF Grants
  <2> QED BY <1>3, <1>5, <2>1, GrantMoves DEF Stays
<1>6. ASSUME NEW k \in Keys, NEW s \in {"committed", "released"}, Settles(k, s),
             MovesTo(k, s)
      PROVE  ExposedAdds'
  <2>1. k[1] \in Accounts /\ k \in KeysOf(k[1]) /\ res[k].amount \in Nat
    BY KeysTyped, Typing DEF KeysOf
  <2>2. CASE res[k].state # "exposed"
    <3>1. exposed' = exposed
      BY <1>6, <2>1, <2>2 DEF Settles, LedgerTyped
    <3> QED BY <1>3, <1>6, <2>2, <3>1, StateFacts DEF MovesTo, Stays
  <2>3. CASE res[k].state = "exposed"
    <3> SUFFICES ASSUME NEW sa \in Accounts
                 PROVE  exposed'[sa] = AtomicTotal(ExposedKeys(sa)', Prices')
      BY DEF ExposedAdds
    <3>1. ExposedKeys(sa)' = ExposedKeys(sa) \ {k}
      BY <1>2, <1>6, StateFacts, KeysTyped DEF MovesTo, Stays, ExposedKeys
    <3>2. AtomicTotal(ExposedKeys(sa)', Prices') = AtomicTotal(ExposedKeys(sa) \ {k}, Prices)
      <4>1. \A j \in ExposedKeys(sa) \ {k} : res'[j].amount = res[j].amount
        BY <1>0, <1>6 DEF MovesTo, Stays
      <4> QED BY <1>0, <3>1, <4>1, SumStays
    <3>3. CASE sa = k[1]
      <4>1. k \in ExposedKeys(sa)
        BY <2>1, <2>3, <3>3 DEF ExposedKeys
      <4>2. AtomicTotal(ExposedKeys(sa) \ {k}, Prices)
              = AtomicTotal(ExposedKeys(sa), Prices) - Prices[k]
        BY <1>0, <4>1, AtomicTotalRemove
      <4>3. exposed'[sa] = exposed[sa] - res[k].amount
        BY <1>6, <2>1, <2>3, <3>3 DEF Settles, LedgerTyped
      <4> QED BY <1>0, <2>1, <3>2, <4>2, <4>3, PricesTyped
    <3>4. CASE sa # k[1]
      <4>1. ExposedKeys(sa) \ {k} = ExposedKeys(sa)
        BY <3>4, KeysTyped DEF ExposedKeys
      <4>2. exposed'[sa] = exposed[sa]
        BY <1>6, <2>1, <3>4 DEF Settles, LedgerTyped
      <4> QED BY <1>0, <3>2, <4>1, <4>2
    <3> QED BY <3>3, <3>4
  <2> QED BY <2>2, <2>3
<1>7. ASSUME NEW k \in Keys, Exposes(k), MovesTo(k, "exposed")
      PROVE  ExposedAdds'
  <2>1. k[1] \in Accounts /\ k \in KeysOf(k[1]) /\ res[k].amount \in Nat
    BY KeysTyped, Typing DEF KeysOf
  <2>2. State(k) = "reserved" /\ res[k].state # "exposed"
    BY <1>7, StateFacts DEF Exposes
  <2> SUFFICES ASSUME NEW sa \in Accounts
               PROVE  exposed'[sa] = AtomicTotal(ExposedKeys(sa)', Prices')
    BY DEF ExposedAdds
  <2>3. \A j \in ExposedKeys(sa) : j # k /\ res'[j].amount = res[j].amount
    BY <1>0, <1>7, <2>2 DEF MovesTo, Stays, ExposedKeys
  <2>4. CASE sa = k[1]
    <3>1. ExposedKeys(sa)' = ExposedKeys(sa) \cup {k}
      BY <1>2, <1>7, <2>1, <2>4, StateFacts, KeysTyped DEF MovesTo, Stays, ExposedKeys
    <3>2. AtomicTotal(ExposedKeys(sa) \cup {k}, Prices')
            = AtomicTotal(ExposedKeys(sa) \cup {k}, Prices)
      <4>1. \A j \in ExposedKeys(sa) \cup {k} : res'[j].amount = res[j].amount
        BY <1>7, <2>3 DEF MovesTo
      <4>2. ExposedKeys(sa) \cup {k} \in SUBSET Keys
        BY <1>0
      <4> QED BY <4>1, <4>2, SumStays
    <3>3. AtomicTotal(ExposedKeys(sa) \cup {k}, Prices)
            = AtomicTotal(ExposedKeys(sa), Prices) + Prices[k]
      <4>1. IsFiniteSet(ExposedKeys(sa)) /\ k \notin ExposedKeys(sa)
        BY <1>0, <2>3
      <4>2. \A j \in ExposedKeys(sa) \cup {k} : Prices[j] \in Nat
        BY <1>0, PricesTyped
      <4> QED BY <4>1, <4>2, AtomicTotalAdd
    <3>4. exposed'[sa] = exposed[sa] + res[k].amount
      BY <1>7, <2>1, <2>4 DEF Exposes, LedgerTyped
    <3> QED BY <1>0, <3>1, <3>2, <3>3, <3>4, PricesTyped
  <2>5. CASE sa # k[1]
    <3>1. ExposedKeys(sa)' = ExposedKeys(sa)
      BY <1>2, <1>7, <2>5, StateFacts, KeysTyped DEF MovesTo, Stays, ExposedKeys
    <3>2. exposed'[sa] = exposed[sa]
      BY <1>7, <2>1, <2>5 DEF Exposes, LedgerTyped
    <3> QED BY <1>0, <2>3, <3>1, <3>2, SumStays
  <2> QED BY <2>4, <2>5
<1>8. ASSUME NEW k \in Keys, Commits(k) \/ Releases(k) \/ Exposes(k)
      PROVE  ExposedAdds'
  <2>1. CASE Commits(k)
    BY <1>6, <2>1, SettleMoves DEF Commits
  <2>2. CASE Releases(k)
    BY <1>6, <2>2, SettleMoves DEF Releases
  <2>3. CASE Exposes(k)
    BY <1>7, <2>3, SettleMoves
  <2> QED BY <1>8, <2>1, <2>2, <2>3
<1> QED BY <1>4, <1>5, <1>8 DEF LedgerStep

-------------------------------------------------------------------------------
(* The ledger agrees with itself.                                          *)

CallTyped == unanswered # NoCall => unanswered.call \in SpendCalls

LEMMA CallTypedStep ==
  ASSUME CallTyped, [Next]_vars
  PROVE  CallTyped'
<1>1. CASE UNCHANGED unanswered
  BY <1>1 DEF CallTyped
<1>2. ASSUME NEW c \in SpendCalls, CallUnanswered(c)
      PROVE  CallTyped'
  BY <1>2 DEF CallUnanswered, CallTyped
<1>3. CASE Resend
  BY <1>3 DEF Resend, CallTyped
<1> QED BY <1>1, <1>2, <1>3 DEF Next, Call, Query, Tick, vars

LEMMA LedgerInvInit ==
  ASSUME Init
  PROVE  LedgerInv /\ CallTyped
<1>1. /\ now = 0 /\ unanswered = NoCall
      /\ res = [k \in Keys |-> NoHash] /\ cmt = [k \in Keys |-> NoEntry]
      /\ resIdx = [sa \in Accounts |-> {}] /\ cmtIdx = [sa \in Accounts |-> {}]
      /\ total = [sa \in Accounts |-> 0] /\ exposed = [sa \in Accounts |-> 0]
  BY SameNames DEF Init, R!Init
<1>2. NoHash \in Hash /\ NoEntry \in Entry
  BY DEF NoHash, NoEntry, Hash, Entry, States
<1>3. LedgerTyped
  BY <1>1, <1>2 DEF LedgerTyped
<1>4. Dated
  BY <1>1 DEF Dated
<1>5. Agreeing
  BY <1>1, KeysTyped DEF Agreeing, NoHash, NoEntry
<1>6. ExposedAdds
  <2>1. \A sa \in Accounts : ExposedKeys(sa) = {}
    BY <1>1, KeysTyped DEF ExposedKeys, NoHash
  <2> QED BY <1>1, <2>1, AtomicTotalEmpty DEF ExposedAdds
<1> QED BY <1>1, <1>3, <1>4, <1>5, <1>6 DEF LedgerInv, CallTyped

LEMMA LedgerInvStep ==
  ASSUME LedgerInv, CallTyped, [Next]_vars
  PROVE  LedgerInv' /\ CallTyped'
<1>1. LedgerStep
  BY LedgerSteps DEF CallTyped
<1>2. LedgerTyped' /\ Dated' /\ Agreeing' /\ ExposedAdds'
  BY <1>1, TypedStep, DatedStep, AgreeingStep, ExposedAddsStep DEF LedgerInv
<1> QED BY <1>2, CallTypedStep DEF LedgerInv

LEMMA LedgerInvariant == Spec => [](LedgerInv /\ CallTyped)
BY LedgerInvInit, LedgerInvStep, PTL DEF Spec

\* The instance adds up as this module does.
LEMMA SameTotal ==
  ASSUME NEW S, NEW f
  PROVE  /\ R!AtomicTotal(S, f) = AtomicTotal(S, f)
         /\ R!Sum(S, f) = AtomicTotal(S, [k \in Keys |-> f[k].amount])
<1>1. R!Units(S, f) = Units(S, f)
  BY DEF R!Units, Units
<1>2. \A T : R!Cardinality(T) = Cardinality(T)
  BY DEF R!Cardinality, Cardinality
<1>3. \A g : R!Units(S, g) = Units(S, g)
  BY DEF R!Units, Units
<1>4. \A g : R!AtomicTotal(S, g) = AtomicTotal(S, g)
  BY <1>2, <1>3 DEF R!AtomicTotal, AtomicTotal
<1> QED BY <1>4, SameNames DEF R!Sum

\* In Redis no record is out of its index, where no cap would count it, a record
\* is committed exactly while its entry is there, and the exposed counter is
\* what the exposed records add up to, whatever the calls and resends.
THEOREM RedisLedgerConsistent == Spec => []LedgerConsistent
<1>1. LedgerInv => LedgerConsistent
  <2> SUFFICES ASSUME LedgerInv
               PROVE  R!IndexesAgree /\ R!ExposedExact
    BY DEF LedgerConsistent, R!LedgerConsistent
  <2>1. R!IndexesAgree
    BY SameNames DEF LedgerInv, Agreeing, R!IndexesAgree
  <2>2. R!ExposedExact
    BY SameNames, SameTotal DEF LedgerInv, ExposedAdds, ExposedKeys, Prices, R!ExposedExact
  <2> QED BY <2>1, <2>2
<1> QED BY <1>1, LedgerInvariant, PTL

-------------------------------------------------------------------------------
(* What an account has consumed of its cumulative cap.                     *)

LEMMA ConsumedIs ==
  ASSUME LedgerTyped, NEW sa \in Accounts
  PROVE  /\ ConsumedRecords(sa) = { k \in KeysOf(sa) : State(k) \in HeldNow }
         /\ ConsumedRecords(sa) \in SUBSET Keys /\ IsFiniteSet(ConsumedRecords(sa))
         /\ \A k \in ConsumedRecords(sa) : Prices[k] \in Nat
         /\ AtomicTotal(ConsumedRecords(sa), Prices) \in Nat
         /\ Consumed(sa) = total[sa] + AtomicTotal(ConsumedRecords(sa), Prices)
         /\ total[sa] \in Nat
<1>1. ConsumedRecords(sa) = { k \in KeysOf(sa) : State(k) \in HeldNow }
  BY SameNames DEF ConsumedRecords, HeldNow, State
<1>2. ConsumedRecords(sa) \subseteq KeysOf(sa) /\ KeysOf(sa) \subseteq Keys
  BY KeysTyped DEF ConsumedRecords
<1>3. IsFiniteSet(ConsumedRecords(sa))
  BY <1>2, KeysFinite, FS_Subset
<1>4. \A k \in ConsumedRecords(sa) : Prices[k] \in Nat
  BY <1>2, PricesTyped
<1>5. Consumed(sa) = total[sa] + AtomicTotal(ConsumedRecords(sa), Prices)
  BY DEF Consumed, Prices
<1>6. total[sa] \in Nat
  BY DEF LedgerTyped
<1> QED BY <1>1, <1>2, <1>3, <1>4, <1>5, <1>6, AtomicTotalType

LEMMA ConsumedIsNext ==
  ASSUME LedgerTyped', NEW sa \in Accounts
  PROVE  /\ ConsumedRecords(sa)' = { k \in KeysOf(sa) : State(k)' \in HeldNow }
         /\ Consumed(sa)' = total'[sa] + AtomicTotal(ConsumedRecords(sa)', Prices')
         /\ total'[sa] \in Nat /\ Consumed(sa)' \in Nat
<1>1. ConsumedRecords(sa)' = { k \in KeysOf(sa) : State(k)' \in HeldNow }
  <2>1. \A k \in Keys : R!StateNow(k)' = State(k)'
    BY SameNames DEF R!StateNow, R!Lapsed, State
  <2> QED BY <2>1, KeysTyped DEF ConsumedRecords, HeldNow, State
<1>2. Consumed(sa)' = total'[sa] + AtomicTotal(ConsumedRecords(sa)', Prices')
  BY DEF Consumed, Prices
<1>3. total'[sa] \in Nat
  BY DEF LedgerTyped
<1>4. AtomicTotal(ConsumedRecords(sa)', Prices') \in Nat
  <2>1. \A k \in Keys : Prices'[k] \in Nat
    BY DEF LedgerTyped, Hash, Prices
  <2>2. ConsumedRecords(sa)' \subseteq KeysOf(sa) /\ IsFiniteSet(ConsumedRecords(sa)')
    BY <1>1, KeysFinite, FS_Subset
  <2>3. \A k \in ConsumedRecords(sa)' : Prices'[k] \in Nat
    BY <2>1, <2>2, KeysTyped
  <2> QED BY <2>2, <2>3, AtomicTotalType
<1> QED BY <1>1, <1>2, <1>3, <1>4

\* No step but a grant consumes more.
LEMMA ConsumedShrinks ==
  ASSUME LedgerTyped, LedgerTyped', NEW sa \in Accounts,
         total'[sa] <= total[sa],
         \A k \in Keys : State(k)' \in HeldNow =>
             State(k) \in HeldNow /\ res'[k].amount = res[k].amount
  PROVE  Consumed(sa)' <= Consumed(sa)
<1>1. ConsumedRecords(sa)' \subseteq ConsumedRecords(sa)
  BY ConsumedIs, ConsumedIsNext, KeysTyped
<1>2. \A k \in ConsumedRecords(sa)' : res'[k].amount = res[k].amount
  BY ConsumedIsNext, KeysTyped
<1>3. AtomicTotal(ConsumedRecords(sa)', Prices') = AtomicTotal(ConsumedRecords(sa)', Prices)
  BY <1>1, <1>2, ConsumedIs, SumStays
<1>4. AtomicTotal(ConsumedRecords(sa)', Prices) <= AtomicTotal(ConsumedRecords(sa), Prices)
  BY <1>1, ConsumedIs, AtomicTotalMonotone
<1>5. AtomicTotal(ConsumedRecords(sa)', Prices) \in Nat
  <2>1. IsFiniteSet(ConsumedRecords(sa)')
    BY <1>1, ConsumedIs, FS_Subset
  <2>2. \A k \in ConsumedRecords(sa)' : Prices[k] \in Nat
    BY <1>1, ConsumedIs
  <2> QED BY <2>1, <2>2, AtomicTotalType
<1> QED BY <1>3, <1>4, <1>5, ConsumedIs, ConsumedIsNext

LEMMA CommitConsumes ==
  ASSUME LedgerTyped, LedgerTyped', NEW k \in Keys, Commits(k), NEW sa \in Accounts
  PROVE  Consumed(sa)' = Consumed(sa)
<1>1. MovesTo(k, "committed") /\ State(k) \in HeldNow
  BY SettleMoves DEF Commits, Settles, HeldNow
<1>2. k[1] \in Accounts /\ k \in KeysOf(k[1]) /\ res[k].amount \in Nat
  BY KeysTyped, Typing DEF KeysOf
<1>3. ConsumedRecords(sa)' = ConsumedRecords(sa) \ {k}
  BY <1>1, ConsumedIs, ConsumedIsNext, KeysTyped DEF MovesTo, Stays, HeldNow
<1>4. AtomicTotal(ConsumedRecords(sa)', Prices') = AtomicTotal(ConsumedRecords(sa) \ {k}, Prices)
  <2>1. \A j \in ConsumedRecords(sa) \ {k} : res'[j].amount = res[j].amount
    BY <1>1, ConsumedIs DEF MovesTo, Stays
  <2> QED BY <1>3, <2>1, ConsumedIs, SumStays
<1>5. CASE sa = k[1]
  <2>1. k \in ConsumedRecords(sa)
    BY <1>1, <1>2, <1>5, ConsumedIs
  <2>2. AtomicTotal(ConsumedRecords(sa) \ {k}, Prices)
          = AtomicTotal(ConsumedRecords(sa), Prices) - Prices[k]
    BY <2>1, ConsumedIs, AtomicTotalRemove
  <2>3. total'[sa] = total[sa] + res[k].amount
    BY <1>2, <1>5 DEF Commits, LedgerTyped
  <2> QED BY <1>2, <1>4, <2>2, <2>3, ConsumedIs, ConsumedIsNext, PricesTyped
<1>6. CASE sa # k[1]
  <2>1. ConsumedRecords(sa) \ {k} = ConsumedRecords(sa)
    BY <1>6, ConsumedIs, KeysTyped
  <2>2. total'[sa] = total[sa]
    BY <1>2, <1>6 DEF Commits, LedgerTyped
  <2> QED BY <1>4, <2>1, <2>2, ConsumedIs, ConsumedIsNext
<1> QED BY <1>5, <1>6

LEMMA GrantConsumes ==
  ASSUME LedgerTyped, LedgerTyped', Dated, NEW in \in CallerInputs, Grants(in),
         NEW sa \in Accounts
  PROVE  Consumed(sa)' = Consumed(sa) + IF sa = Account(in) THEN in.amount ELSE 0
<1> DEFINE k == Key(in)
<1>1. /\ k \in Keys /\ State(k) = "absent" /\ State(k)' = "reserved"
      /\ res'[k].amount = in.amount /\ \A j \in Keys : j # k => Stays(j)
      /\ in.amount \in Nat /\ k[1] = Account(in) /\ Account(in) \in Accounts
  BY GrantMoves, KeysTyped, Typing DEF Grants
<1>2. total' = total /\ k \notin ConsumedRecords(sa)
  BY <1>1, ConsumedIs DEF Grants, HeldNow
<1>3. \A j \in ConsumedRecords(sa) : res'[j].amount = res[j].amount
  BY <1>1, <1>2, ConsumedIs DEF Stays
<1>4. CASE sa = Account(in)
  <2>1. ConsumedRecords(sa)' = ConsumedRecords(sa) \cup {k}
    <3>1. k \in KeysOf(sa)
      BY <1>1, <1>4 DEF KeysOf
    <3> QED BY <1>1, <3>1, ConsumedIs, ConsumedIsNext, KeysTyped DEF Stays, HeldNow
  <2>2. \A j \in Keys : Prices'[j] = res'[j].amount
    BY DEF Prices
  <2>3. \A j \in ConsumedRecords(sa) \cup {k} : Prices'[j] \in Nat
    BY <1>1, <1>3, <2>2, ConsumedIs, PricesTyped
  <2>4. AtomicTotal(ConsumedRecords(sa) \cup {k}, Prices')
          = AtomicTotal(ConsumedRecords(sa), Prices') + Prices'[k]
    BY <1>2, <2>3, ConsumedIs, AtomicTotalAdd
  <2>5. AtomicTotal(ConsumedRecords(sa), Prices') = AtomicTotal(ConsumedRecords(sa), Prices)
    BY <1>3, ConsumedIs, SumStays
  <2>6. Prices'[k] = in.amount
    BY <1>1, <2>2
  <2>7. Consumed(sa)' = total'[sa] + AtomicTotal(ConsumedRecords(sa) \cup {k}, Prices')
    BY <2>1, ConsumedIsNext
  <2>8. /\ total'[sa] = total[sa] /\ total[sa] \in Nat
        /\ AtomicTotal(ConsumedRecords(sa), Prices) \in Nat
        /\ Consumed(sa) = total[sa] + AtomicTotal(ConsumedRecords(sa), Prices)
    BY <1>2, ConsumedIs
  <2>9. \A a, b, c \in Nat : a + (b + c) = (a + b) + c
    OBVIOUS
  <2> QED BY <1>1, <1>4, <2>4, <2>5, <2>6, <2>7, <2>8, <2>9
<1>5. CASE sa # Account(in)
  <2>1. ConsumedRecords(sa)' = ConsumedRecords(sa)
    <3>1. \A j \in KeysOf(sa) : j \in Keys /\ j # k
      BY <1>1, <1>5, KeysTyped
    <3>2. \A j \in KeysOf(sa) : State(j)' \in HeldNow <=> State(j) \in HeldNow
      BY <1>1, <3>1 DEF Stays
    <3> QED BY <3>2, ConsumedIs, ConsumedIsNext
  <2>2. AtomicTotal(ConsumedRecords(sa)', Prices') = AtomicTotal(ConsumedRecords(sa), Prices)
    BY <1>3, <2>1, ConsumedIs, SumStays
  <2> QED BY <1>2, <1>5, <2>2, ConsumedIs, ConsumedIsNext
<1> QED BY <1>4, <1>5

\* The sums a script reads from its counter and its index are all that is
\* consumed: a live record was made within the window.
LEMMA ReadsConsumed ==
  ASSUME LedgerInv, NEW sa \in Accounts
  PROVE  total[sa] + exposed[sa] + R!Reserved(sa) = Consumed(sa)
<1> USE DEF LedgerInv
<1> DEFINE Live == { k \in KeysOf(sa) : State(k) = "reserved" }
<1>1. { k \in R!ResInRange(sa) : R!StateNow(k) = "reserved" } = Live
  <2>1. R!ResInRange(sa) = { k \in KeysOf(sa) : /\ k[2] \in resIdx[sa]
                                                /\ now - Window <= res[k].created
                                                /\ res[k].created <= now }
    BY SameNames DEF R!ResInRange, R!Cutoff
  <2>2. ASSUME NEW k \in Live
        PROVE  k \in R!ResInRange(sa)
    <3>1. k \in Keys /\ k[1] = sa /\ k \in KeysOf(sa)
      BY KeysTyped
    <3>2. res[k].state = "reserved" /\ now < res[k].expires /\ res[k] # NoHash
      BY <3>1, Typing DEF State, LedgerTyped, Hash, NoHash
    <3>3. k[2] \in resIdx[sa]
      BY <3>1, <3>2 DEF Agreeing
    <3>4. /\ res[k].created <= now /\ res[k].expires = res[k].created + TTL
          /\ res[k].created \in Int /\ now \in Int /\ TTL \in Int /\ Window \in Int /\ TTL <= Window
      BY <3>1, <3>2, Typing DEF Dated, LedgerTyped, Hash
    <3>5. now - Window <= res[k].created
      BY <3>2, <3>4
    <3> QED BY <2>1, <3>1, <3>3, <3>4, <3>5
  <2>3. { k \in R!ResInRange(sa) : R!StateNow(k) = "reserved" }
          = { k \in R!ResInRange(sa) : State(k) = "reserved" }
    BY SameNames, Zenon
  <2>4. \A k \in R!ResInRange(sa) : k \in KeysOf(sa)
    BY <2>1
  <2>5. \A k \in Live : k \in KeysOf(sa) /\ State(k) = "reserved"
    OBVIOUS
  <2>6. { k \in R!ResInRange(sa) : State(k) = "reserved" } = Live
    BY <2>2, <2>4, <2>5
  <2> QED BY <2>3, <2>6
<1>2. R!Reserved(sa) = AtomicTotal(Live, Prices)
  BY <1>1, SameTotal DEF R!Reserved, Prices
<1>3. ConsumedRecords(sa) = Live \cup ExposedKeys(sa)
  BY ConsumedIs, StateFacts, KeysTyped DEF ExposedKeys, HeldNow
<1>4. Live \cap ExposedKeys(sa) = {}
  BY StateFacts, KeysTyped DEF ExposedKeys
<1>5. /\ IsFiniteSet(Live) /\ IsFiniteSet(ExposedKeys(sa))
      /\ \A k \in Live \cup ExposedKeys(sa) : Prices[k] \in Nat
  <2>1. IsFiniteSet(Live) /\ IsFiniteSet(ExposedKeys(sa))
    BY <1>3, ConsumedIs, FS_Subset
  <2> QED BY <1>3, <2>1, ConsumedIs
<1>6. AtomicTotal(Live \cup ExposedKeys(sa), Prices)
        = AtomicTotal(Live, Prices) + AtomicTotal(ExposedKeys(sa), Prices)
  BY <1>4, <1>5, AtomicTotalDisjoint
<1>7. AtomicTotal(Live, Prices) \in Nat /\ AtomicTotal(ExposedKeys(sa), Prices) \in Nat
  BY <1>5, AtomicTotalType
<1>8. exposed[sa] = AtomicTotal(ExposedKeys(sa), Prices)
  BY DEF ExposedAdds
<1>9. total[sa] \in Nat /\ Consumed(sa) = total[sa] + AtomicTotal(ConsumedRecords(sa), Prices)
  BY ConsumedIs
<1> QED BY <1>2, <1>3, <1>6, <1>7, <1>8, <1>9

-------------------------------------------------------------------------------
(* The administered cap.                                                   *)

Limits      == [maxPerHour : Nat \cup {NoCap}, maxTotal : Nat \cup {NoCap}]
LimitsTyped == limits \in [Accounts -> Limits]

\* Only the operator moves a cap.
LEMMA SpendKeepsLimits ==
  ASSUME NEW c \in SpendCalls, Spend(c)
  PROVE  limits' = limits
<1>1. ASSUME NEW in, R!Reserve(in)
      PROVE  limits' = limits
  BY <1>1 DEF R!Reserve, R!ReserveRefused, R!ReserveMisconfigured, R!ReserveOverBudget,
     R!ReserveGranted, R!vars, R!policy
<1>2. ASSUME NEW k, R!ExpireOnly(k) \/ R!SettleCommitted(k) \/ R!SettleReleased(k)
      PROVE  limits' = limits
  BY <1>2 DEF R!ExpireOnly, R!SettleCommitted, R!SettleReleased, R!policy
<1>3. ASSUME NEW ref, R!Commit(ref) \/ R!Release(ref) \/ R!Expose(ref)
      PROVE  limits' = limits
  BY <1>2, <1>3 DEF R!Commit, R!Release, R!Expose, R!vars, R!policy
<1>4. ASSUME NEW ref, NEW outcome, NEW cred, R!ResolveExposed(ref, outcome, cred)
      PROVE  limits' = limits
  BY <1>2, <1>4 DEF R!ResolveExposed, R!vars, R!policy
<1> QED BY <1>1, <1>3, <1>4 DEF Spend

LEMMA LimitsTypedStep ==
  ASSUME LimitsTyped, CallTyped, [Next]_vars
  PROVE  LimitsTyped'
<1> USE DEF LimitsTyped
<1>1. ASSUME NEW c \in SpendCalls, Call(c) \/ CallUnanswered(c)
      PROVE  limits' = limits
  BY <1>1, SpendKeepsLimits DEF Call, CallUnanswered
<1>2. CASE Resend
  BY <1>2, SpendKeepsLimits DEF Resend, CallTyped
<1>3. ASSUME NEW sa, Query(sa)
      PROVE  limits' = limits
  BY <1>3 DEF Query, R!GetBudgetState, R!policy
<1>4. ASSUME NEW cred, Administer(cred)
      PROVE  LimitsTyped'
  <2>1. ASSUME NEW scope \in Scopes, NEW assetId \in AssetIds, NEW l \in AdminLimits,
               R!SetBudgetLimits(scope, assetId, l, cred)
        PROVE  LimitsTyped'
    <3>1. l \in Limits
      BY CapAssumption DEF Limits
    <3>2. limits' = limits \/ \E sa : limits' = [limits EXCEPT ![sa] = l]
      BY <2>1 DEF R!SetBudgetLimits
    <3> QED BY <3>1, <3>2
  <2>2. ASSUME \/ \E scope : R!Freeze(scope, cred) \/ R!Unfreeze(scope, cred)
               \/ \E scope, assetId : R!ResetCumulative(scope, assetId, cred)
               \/ \E scope, network, list : R!SetRecipientPins(scope, network, list, cred)
               \/ \E scope, on : \/ R!SetRecipientAssertionRequired(scope, on, cred)
                                 \/ R!SetTofuEnabled(scope, on, cred)
        PROVE  limits' = limits
    BY <2>2 DEF R!Freeze, R!Unfreeze, R!ResetCumulative, R!SetRecipientPins,
       R!SetRecipientAssertionRequired, R!SetTofuEnabled, R!policy
  <2> QED BY <1>4, <2>1, <2>2 DEF Administer
<1>5. CASE Tick \/ UNCHANGED vars
  BY <1>5 DEF Tick, vars, storeVars, redisVars
<1> QED BY <1>1, <1>2, <1>3, <1>4, <1>5 DEF Next

LEMMA LimitsInvariant == Spec => []LimitsTyped
<1>1. Init => LimitsTyped
  <2>1. ASSUME Init
        PROVE  limits = [sa \in Accounts |-> [maxPerHour |-> NoCap, maxTotal |-> NoCap]]
    BY <2>1, SameNames DEF Init, R!Init, R!NoLimit
  <2> QED BY <2>1 DEF LimitsTyped, Limits
<1> QED BY <1>1, LimitsTypedStep, LedgerInvariant, PTL DEF Spec

\* A grant fits under the caller's cumulative cap, and under the administered
\* one when there is one.
LEMMA GrantFits ==
  ASSUME LedgerInv, LimitsTyped, NEW in \in CallerInputs, Grants(in)
  PROVE  /\ \/ in.maxTotal = NoCap
            \/ Consumed(Account(in)) + in.amount <= in.maxTotal
         /\ \/ limits[Account(in)].maxTotal = NoCap
            \/ Consumed(Account(in)) + in.amount <= limits[Account(in)].maxTotal
<1> DEFINE sa == Account(in)
           administered == limits[sa].maxTotal
           consumed == Consumed(sa) + in.amount
<1>1. in \in ReserveInputs /\ sa \in Accounts /\ R!Account(in) = sa
  BY KeysTyped, SameNames DEF Grants
<1>2. /\ in.maxTotal \in CallerTotalCaps /\ CallerTotalCaps \subseteq Nat \cup {NoCap}
      /\ administered \in Nat \cup {NoCap} /\ NoCap \notin Nat
  BY <1>1, AmountAssumption, CapAssumption DEF ReserveInputs, LimitsTyped, Limits
<1>3. consumed \in Nat
  BY <1>1, ConsumedIs, Typing DEF LedgerInv
<1>4. in.maxTotal # NoCap /\ administered # NoCap => ~(in.maxTotal > administered)
  BY <1>1 DEF Grants, R!CapsRefusal, R!Above, R!Refusal, Ok
<1>5. R!EffectiveTotal(in) = IF in.maxTotal # NoCap THEN in.maxTotal ELSE administered
  BY <1>1 DEF R!EffectiveTotal
<1>6. total[sa] + exposed[sa] + R!Reserved(sa) + in.amount = consumed
  BY <1>1, ReadsConsumed
<1>7. R!EffectiveTotal(in) # NoCap => ~(consumed > R!EffectiveTotal(in))
  <2>1. R!BudgetRefusal(in) = Ok
    BY DEF Grants
  <2> DEFINE hourly == R!Committed(sa) + R!Reserved(sa) + R!ExposedRolling(sa) + in.amount
                         > in.maxPerHour
             over   == /\ R!EffectiveTotal(in) # NoCap
                       /\ consumed > R!EffectiveTotal(in)
  <2>2. R!BudgetRefusal(in) = IF hourly THEN R!Refusal("budget", "per-hour")
                              ELSE IF over THEN R!Refusal("budget", "cumulative")
                              ELSE R!Ok
    BY <1>1, <1>6 DEF R!BudgetRefusal
  <2>3. \A reason : R!Refusal("budget", reason) # Ok
    BY DEF R!Refusal, Ok
  <2> HIDE DEF hourly, over
  <2>4. ~over
    BY <2>1, <2>2, <2>3
  <2> QED BY <2>4 DEF over
<1> HIDE DEF consumed, administered
<1>8. \A a, b \in Nat : ~(a > b) => a <= b
  OBVIOUS
<1>9. in.maxTotal # NoCap => consumed <= in.maxTotal
  BY <1>2, <1>3, <1>5, <1>7, <1>8
<1>10. CASE in.maxTotal = NoCap
  <2>1. administered # NoCap => consumed <= administered
    BY <1>2, <1>3, <1>5, <1>7, <1>8, <1>10
  <2> QED BY <1>10, <2>1 DEF consumed, administered
<1>11. CASE in.maxTotal # NoCap
  <2>1. administered # NoCap => in.maxTotal <= administered
    BY <1>2, <1>4, <1>8, <1>11
  <2>2. \A a, b, c \in Nat : a <= b /\ b <= c => a <= c
    OBVIOUS
  <2>3. administered # NoCap => consumed <= administered
    BY <1>2, <1>3, <1>9, <1>11, <2>1, <2>2
  <2> QED BY <1>9, <2>3 DEF consumed, administered
<1> QED BY <1>10, <1>11

LEMMA ConsumedSteps ==
  ASSUME LedgerInv, LedgerStep, NEW sa \in Accounts
  PROVE  /\ Consumed(sa) \in Nat /\ Consumed(sa)' \in Nat
         /\ \/ Consumed(sa)' <= Consumed(sa)
            \/ \E in \in CallerInputs : Grants(in) /\ sa = Account(in)
                                        /\ Consumed(sa)' = Consumed(sa) + in.amount
<1> USE DEF LedgerInv
<1>0. LedgerTyped'
  BY TypedStep
<1>1. Consumed(sa) \in Nat /\ Consumed(sa)' \in Nat /\ total[sa] \in Nat
  BY <1>0, ConsumedIs, ConsumedIsNext
<1>2. CASE \/ UNCHANGED ledger \/ Refreshes \/ Ticks
           \/ \E a \in Accounts : Snapshots(a) \/ Resets(a)
  <2>1. \A k \in Keys : Ages(k)
    BY <1>2, AgeMoves
  <2>2. total'[sa] = total[sa] \/ total'[sa] = 0
    BY <1>2 DEF ledger, Refreshes, Ticks, Snapshots, Resets, LedgerTyped
  <2>3. \A k \in Keys : res'[k] = NoHash => State(k)' = "absent"
    BY DEF State, NoHash
  <2>4. Consumed(sa)' <= Consumed(sa)
    BY <1>0, <1>1, <2>1, <2>2, <2>3, ConsumedShrinks DEF Ages, Stays, Lapses, Forgotten, HeldNow
  <2> QED BY <1>1, <2>4
<1>3. ASSUME NEW in \in CallerInputs, Grants(in)
      PROVE  \/ Consumed(sa)' <= Consumed(sa)
             \/ sa = Account(in) /\ Consumed(sa)' = Consumed(sa) + in.amount
  BY <1>0, <1>1, <1>3, GrantConsumes
<1>4. ASSUME NEW k \in Keys, Commits(k)
      PROVE  Consumed(sa)' <= Consumed(sa)
  BY <1>0, <1>1, <1>4, CommitConsumes
<1>5. ASSUME NEW k \in Keys, Releases(k) \/ Exposes(k)
      PROVE  Consumed(sa)' <= Consumed(sa)
  <2>1. State(k) \in HeldNow /\ total' = total
    BY <1>5 DEF Releases, Exposes, Settles, HeldNow
  <2>2. MovesTo(k, "released") \/ MovesTo(k, "exposed")
    BY <1>5, SettleMoves
  <2> QED BY <1>0, <1>1, <2>1, <2>2, ConsumedShrinks DEF MovesTo, Stays
<1> QED BY <1>1, <1>2, <1>3, <1>4, <1>5 DEF LedgerStep

\* However calls, resends and the operator interleave, what an account has spent,
\* exposed and reserved in Redis grows only up to the administered cap in force,
\* callers that pass no cap included.
THEOREM RedisAdministeredCap == Spec => AdministeredCapBinds
<1>1. ASSUME LedgerInv, CallTyped, LimitsTyped, [Next]_vars, NEW sa \in Accounts,
             Consumed(sa)' > Consumed(sa)
      PROVE  limits[sa].maxTotal = NoCap \/ Consumed(sa)' <= limits[sa].maxTotal
  <2>1. LedgerStep
    BY <1>1, LedgerSteps DEF CallTyped
  <2>2. Consumed(sa) \in Nat /\ Consumed(sa)' \in Nat /\ ~(Consumed(sa)' <= Consumed(sa))
    BY <1>1, <2>1, ConsumedSteps
  <2>3. PICK in \in CallerInputs : Grants(in) /\ sa = Account(in)
                                   /\ Consumed(sa)' = Consumed(sa) + in.amount
    BY <1>1, <2>1, <2>2, ConsumedSteps
  <2> QED BY <1>1, <2>3, GrantFits
<1>2. LedgerInv /\ CallTyped /\ LimitsTyped /\ [Next]_vars
        => [\A sa \in Accounts : Consumed(sa)' > Consumed(sa) =>
                limits[sa].maxTotal = NoCap \/ Consumed(sa)' <= limits[sa].maxTotal]_vars
  BY <1>1
<1> QED BY <1>2, LedgerInvariant, LimitsInvariant, PTL DEF Spec, AdministeredCapBinds

-------------------------------------------------------------------------------
(* The contract of a spend store.                                          *)

\* The record the contract sees.
AbstractRecord == [k \in Keys |-> [state |-> State(k), amount |-> res[k].amount]]

Agings(old, new) ==
    \/ new = old
    \/ old.state = "reserved" /\ new = [old EXCEPT !.state = "expired"]
    \/ old.state \in {"reserved", "committed", "released", "expired"}
       /\ new = [state |-> "absent", amount |-> 0]

AbstractSet == [Keys -> [state : States, amount : Nat]]

OthersAged(k) == AbstractRecord' \in AbstractSet
                 /\ \A j \in Keys \ {k} : Agings(AbstractRecord[j], AbstractRecord'[j])

\* The names of the nested instance.
LEMMA ContractNames ==
  /\ R!Contract!Keys = Keys
  /\ \A a : R!Contract!KeysOf(a) = KeysOf(a)
  /\ R!Contract!NoRecord = [state |-> "absent", amount |-> 0]
  /\ [R!Contract!Keys -> R!Contract!Record] = AbstractSet
  /\ \A old, new : R!Contract!Aged(old, new) <=> Agings(old, new)
<1>1. R!Contract!Keys = Keys
  BY SameNames DEF R!Contract!Keys, Keys
<1>2. \A a : R!Contract!KeysOf(a) = KeysOf(a)
  BY <1>1 DEF R!Contract!KeysOf, KeysOf
<1>3. R!Contract!NoRecord = [state |-> "absent", amount |-> 0]
  BY DEF R!Contract!NoRecord
<1>4. R!Contract!Record = [state : States, amount : Nat]
  BY DEF R!Contract!Record, R!Contract!Held, R!Contract!Settled, States
<1>5. \A old, new : R!Contract!Aged(old, new) <=> Agings(old, new)
  BY <1>3 DEF R!Contract!Aged, R!Contract!Settled, Agings
<1> QED BY <1>1, <1>2, <1>3, <1>4, <1>5 DEF AbstractSet

LEMMA InstanceRecord ==
  /\ [k \in R!Keys |-> [state |-> R!StateNow(k), amount |-> res[k].amount]] = AbstractRecord
  /\ [k \in R!Keys |-> [state |-> R!StateNow(k), amount |-> res[k].amount]]' = AbstractRecord'
<1>1. R!Keys = Keys /\ \A k : R!StateNow(k) = State(k)
  BY SameNames
<1>2. R!Keys' = Keys
  BY <1>1
<1>3. \A k \in Keys : R!StateNow(k)' = State(k)'
  BY DEF R!StateNow, R!Lapsed, State
<1> QED BY <1>1, <1>2, <1>3 DEF AbstractRecord

LEMMA OthersAgeIs ==
  ASSUME NEW k
  PROVE  R!Contract!OthersAge(k) <=> OthersAged(k)
BY ContractNames, InstanceRecord DEF R!Contract!OthersAge, OthersAged

\* Each move of one record is an operation of the contract.
LEMMA ContractMoves ==
  ASSUME NEW k \in Keys, OthersAged(k)
  PROVE  /\ /\ AbstractRecord[k].state = "reserved"
            /\ AbstractRecord'[k] = [AbstractRecord[k] EXCEPT !.state = "exposed"]
            /\ total' = total
            => R!Contract!NextStore
         /\ /\ AbstractRecord[k].state \in HeldNow
            /\ AbstractRecord'[k] = [AbstractRecord[k] EXCEPT !.state = "released"]
            /\ total' = total
            => R!Contract!NextStore
         /\ /\ AbstractRecord[k].state \in HeldNow
            /\ AbstractRecord'[k] = [AbstractRecord[k] EXCEPT !.state = "committed"]
            /\ total' = [total EXCEPT ![k[1]] = @ + AbstractRecord[k].amount]
            => R!Contract!NextStore
<1>1. R!Contract!OthersAge(k) /\ k \in R!Contract!Keys
  BY OthersAgeIs, ContractNames
<1>2. ASSUME AbstractRecord[k].state = "reserved", total' = total,
             AbstractRecord'[k] = [AbstractRecord[k] EXCEPT !.state = "exposed"]
      PROVE  R!Contract!Fenced(k)
  BY <1>1, <1>2, InstanceRecord DEF R!Contract!Fenced
<1>3. ASSUME AbstractRecord[k].state \in HeldNow, total' = total,
             AbstractRecord'[k] = [AbstractRecord[k] EXCEPT !.state = "released"]
      PROVE  R!Contract!Released(k)
  BY <1>1, <1>3, InstanceRecord DEF R!Contract!Released, R!Contract!Held, HeldNow
<1>4. ASSUME AbstractRecord[k].state \in HeldNow,
             AbstractRecord'[k] = [AbstractRecord[k] EXCEPT !.state = "committed"],
             total' = [total EXCEPT ![k[1]] = @ + AbstractRecord[k].amount]
      PROVE  R!Contract!Committed(k)
  BY <1>1, <1>4, InstanceRecord DEF R!Contract!Committed, R!Contract!Held, HeldNow
<1> QED BY <1>1, <1>2, <1>3, <1>4 DEF R!Contract!NextStore

LEMMA ContractAges ==
  ASSUME AbstractRecord' \in AbstractSet, total' = total,
         \A k \in Keys : Agings(AbstractRecord[k], AbstractRecord'[k])
  PROVE  R!Contract!NextStore
<1>1. R!Contract!OnlyAged
  BY ContractNames, InstanceRecord DEF R!Contract!OnlyAged
<1> QED BY <1>1 DEF R!Contract!NextStore

LEMMA ContractResets ==
  ASSUME AbstractRecord' = AbstractRecord, NEW sa \in Accounts,
         total' = [total EXCEPT ![sa] = 0]
  PROVE  R!Contract!NextStore
<1>1. R!Contract!SpentReset(sa)
  BY InstanceRecord DEF R!Contract!SpentReset
<1> QED BY <1>1, SameNames DEF R!Contract!NextStore

LEMMA ContractHeld ==
  ASSUME LedgerTyped', NEW sa \in Accounts
  PROVE  R!Contract!HeldTotal(AbstractRecord', sa)
            = AtomicTotal(ConsumedRecords(sa)', Prices')
<1>1. \A k \in Keys : /\ AbstractRecord'[k].state = State(k)'
                      /\ AbstractRecord'[k].amount = Prices'[k]
  BY DEF AbstractRecord, Prices
<1>2. R!Contract!HeldKeys(AbstractRecord', sa) = ConsumedRecords(sa)'
  <2>1. R!Contract!HeldKeys(AbstractRecord', sa)
          = { k \in KeysOf(sa) : AbstractRecord'[k].state \in HeldNow }
    BY ContractNames DEF R!Contract!HeldKeys, R!Contract!Held, HeldNow
  <2>2. \A k \in KeysOf(sa) : AbstractRecord'[k].state = State(k)'
    BY <1>1, KeysTyped
  <2> QED BY <2>1, <2>2, ConsumedIsNext
<1>3. [k \in R!Contract!Keys |-> AbstractRecord'[k].amount] = Prices'
  BY <1>1, ContractNames DEF Prices
<1>4. \A S, f : R!Contract!AtomicTotal(S, f) = AtomicTotal(S, f)
  <2>1. \A S, f : R!Contract!Units(S, f) = Units(S, f)
    BY DEF R!Contract!Units, Units
  <2>2. \A T : R!Contract!Cardinality(T) = Cardinality(T)
    BY DEF R!Contract!Cardinality, Cardinality
  <2> QED BY <2>1, <2>2 DEF R!Contract!AtomicTotal, AtomicTotal
<1> QED BY <1>2, <1>3, <1>4 DEF R!Contract!HeldTotal

\* The record of k, before and after a step.
LEMMA AbstractAt ==
  ASSUME LedgerInv, LedgerStep
  PROVE  /\ AbstractRecord' \in AbstractSet
         /\ \A k \in Keys : /\ AbstractRecord[k] = [state |-> State(k), amount |-> res[k].amount]
                            /\ AbstractRecord'[k] = [state |-> State(k)', amount |-> res'[k].amount]
         /\ \A k \in Keys : Ages(k) => Agings(AbstractRecord[k], AbstractRecord'[k])
<1>1. LedgerTyped'
  BY TypedStep DEF LedgerInv
<1>2. \A k \in Keys : State(k)' \in States /\ res'[k].amount \in Nat
  <2>1. \A k \in Keys : res'[k] \in Hash
    BY <1>1 DEF LedgerTyped
  <2> QED BY <2>1 DEF Hash, State, States
<1>3. AbstractRecord' = [k \in Keys |-> [state |-> State(k)', amount |-> res'[k].amount]]
  BY DEF AbstractRecord
<1>4. \A k \in Keys : AbstractRecord[k] = [state |-> State(k), amount |-> res[k].amount]
  BY DEF AbstractRecord
<1>5. AbstractRecord' \in AbstractSet
  BY <1>2, <1>3 DEF AbstractSet
<1>6. ASSUME NEW k \in Keys, Ages(k)
      PROVE  Agings(AbstractRecord[k], AbstractRecord'[k])
  <2>1. AbstractRecord'[k] = [state |-> State(k)', amount |-> res'[k].amount]
    BY <1>3
  <2>2. CASE Stays(k)
    BY <1>4, <2>1, <2>2 DEF Stays, Agings
  <2>3. CASE Lapses(k)
    <3>1. [[state |-> State(k), amount |-> res[k].amount] EXCEPT !.state = "expired"]
            = [state |-> "expired", amount |-> res[k].amount]
      OBVIOUS
    <3>2. AbstractRecord[k].state = State(k)
      BY DEF AbstractRecord
    <3>3. AbstractRecord'[k] = [AbstractRecord[k] EXCEPT !.state = "expired"]
      BY <1>4, <2>1, <2>3, <3>1 DEF Lapses
    <3> QED BY <2>3, <3>2, <3>3 DEF Lapses, Agings
  <2>4. CASE Forgotten(k)
    <3>1. State(k)' = "absent" /\ res'[k].amount = 0
      BY <2>4 DEF Forgotten, State, NoHash
    <3>2. AbstractRecord'[k] = [state |-> "absent", amount |-> 0]
      BY <2>1, <3>1
    <3>3. AbstractRecord[k].state = State(k)
      BY DEF AbstractRecord
    <3> QED BY <2>4, <3>2, <3>3 DEF Forgotten, Agings
  <2> QED BY <1>6, <2>2, <2>3, <2>4 DEF Ages
<1> QED BY <1>3, <1>4, <1>5, <1>6

LEMMA LedgerStepKeepsContract ==
  ASSUME LedgerInv, LimitsTyped, LedgerStep
  PROVE  R!Contract!NextStore \/ UNCHANGED <<AbstractRecord, total>>
<1> USE DEF LedgerInv
<1>1. CASE \/ UNCHANGED ledger \/ Refreshes \/ Ticks
           \/ \E sa \in Accounts : Snapshots(sa)
  <2>1. \A k \in Keys : Ages(k)
    BY <1>1, AgeMoves
  <2>2. total' = total
    BY <1>1 DEF ledger, Refreshes, Ticks, Snapshots
  <2> QED BY <2>1, <2>2, AbstractAt, ContractAges
<1>2. ASSUME NEW sa \in Accounts, Resets(sa)
      PROVE  R!Contract!NextStore
  <2>1. AbstractRecord' = AbstractRecord
    BY <1>2 DEF Resets, AbstractRecord, State
  <2> QED BY <1>2, <2>1, ContractResets DEF Resets
<1>3. ASSUME NEW k \in Keys, NEW s, MovesTo(k, s)
      PROVE  /\ OthersAged(k) /\ AbstractRecord[k].state = State(k)
             /\ AbstractRecord[k].amount = res[k].amount
             /\ AbstractRecord'[k] = [AbstractRecord[k] EXCEPT !.state = s]
  <2>1. \A j \in Keys : j # k => Ages(j)
    BY <1>3 DEF MovesTo, Ages
  <2>2. OthersAged(k)
    BY <2>1, AbstractAt DEF OthersAged
  <2>3. /\ AbstractRecord[k] = [state |-> State(k), amount |-> res[k].amount]
        /\ AbstractRecord'[k] = [state |-> s, amount |-> res[k].amount]
    BY <1>3, AbstractAt DEF MovesTo
  <2>4. [[state |-> State(k), amount |-> res[k].amount] EXCEPT !.state = s]
          = [state |-> s, amount |-> res[k].amount]
    OBVIOUS
  <2>5. AbstractRecord'[k] = [AbstractRecord[k] EXCEPT !.state = s]
    BY <2>3, <2>4
  <2> QED BY <2>2, <2>3, <2>5
<1>4. ASSUME NEW k \in Keys, Commits(k) \/ Releases(k) \/ Exposes(k)
      PROVE  R!Contract!NextStore
  <2>1. CASE Commits(k)
    <3>1. State(k) \in HeldNow /\ total' = [total EXCEPT ![k[1]] = @ + res[k].amount]
      BY <2>1 DEF Commits, Settles, HeldNow
    <3> QED BY <1>3, <2>1, <3>1, SettleMoves, ContractMoves
  <2>2. CASE Releases(k)
    <3>1. State(k) \in HeldNow /\ total' = total
      BY <2>2 DEF Releases, Settles, HeldNow
    <3> QED BY <1>3, <2>2, <3>1, SettleMoves, ContractMoves
  <2>3. CASE Exposes(k)
    <3>1. State(k) = "reserved" /\ total' = total
      BY <2>3 DEF Exposes
    <3> QED BY <1>3, <2>3, <3>1, SettleMoves, ContractMoves
  <2> QED BY <1>4, <2>1, <2>2, <2>3
<1>5. ASSUME NEW in \in CallerInputs, Grants(in)
      PROVE  R!Contract!NextStore
  <2> DEFINE k == Key(in)
             sa == Account(in)
  <2>1. /\ in \in ReserveInputs /\ k \in Keys /\ k[1] = sa /\ sa \in Accounts
        /\ total' = total /\ in.maxTotal \in CallerTotalCaps
    BY <1>5, KeysTyped DEF Grants, ReserveInputs
  <2>2. /\ State(k) = "absent" /\ res[k] = NoHash /\ State(k)' = "reserved"
        /\ \A j \in Keys : j # k => Ages(j)
    BY <1>5, GrantMoves DEF Ages
  <2>3. /\ AbstractRecord[k] = [state |-> "absent", amount |-> 0]
        /\ AbstractRecord'[k].state = "reserved"
    <3>1. /\ AbstractRecord[k] = [state |-> State(k), amount |-> res[k].amount]
          /\ AbstractRecord'[k] = [state |-> State(k)', amount |-> res'[k].amount]
      BY <2>1, AbstractAt
    <3>2. res[k].amount = 0
      BY <2>2 DEF NoHash
    <3> QED BY <2>2, <3>1, <3>2
  <2>4. R!Contract!OthersAge(k) /\ k \in R!Contract!Keys
    BY <2>1, <2>2, AbstractAt, OthersAgeIs, ContractNames DEF OthersAged
  <2>5. LedgerTyped'
    BY TypedStep
  <2>6. total[sa] + R!Contract!HeldTotal(AbstractRecord', sa) = Consumed(sa)'
    BY <2>1, <2>5, ContractHeld, ConsumedIsNext
  <2>7. Consumed(sa)' = Consumed(sa) + in.amount
    BY <1>5, <2>1, <2>5, GrantConsumes
  <2>8. in.maxTotal = NoCap
        \/ total[k[1]] + R!Contract!HeldTotal(AbstractRecord', k[1]) <= in.maxTotal
    BY <1>5, <2>1, <2>6, <2>7, GrantFits
  <2>9. R!Contract!Granted(k)
    BY <2>1, <2>3, <2>4, <2>8, ContractNames, InstanceRecord DEF R!Contract!Granted
  <2> QED BY <2>4, <2>9 DEF R!Contract!NextStore
<1> QED BY <1>1, <1>2, <1>4, <1>5 DEF LedgerStep

\* Redis keeps the contract of SpendStore under calls, resends and the operator:
\* a grant fits under its cumulative cap over all that is held, a record settles
\* once and for its amount, and nothing exposed lapses.
THEOREM RedisKeepsContract == Spec => RedisImplementsContract
<1>1. Init => R!Contract!InitStore
  <2>1. ASSUME Init
        PROVE  /\ AbstractRecord = [k \in Keys |-> [state |-> "absent", amount |-> 0]]
               /\ total = [sa \in Accounts |-> 0]
    BY <2>1, SameNames DEF Init, R!Init, AbstractRecord, State, NoHash
  <2> QED BY <2>1, ContractNames, InstanceRecord, SameNames DEF R!Contract!InitStore
<1>2. ASSUME LedgerInv, CallTyped, LimitsTyped, [Next]_vars
      PROVE  [R!Contract!NextStore]_(R!Contract!storeVars)
  <2>1. LedgerStep
    BY <1>2, LedgerSteps DEF CallTyped
  <2>2. R!Contract!NextStore \/ UNCHANGED <<AbstractRecord, total>>
    BY <1>2, <2>1, LedgerStepKeepsContract
  <2> QED BY <2>2, InstanceRecord DEF R!Contract!storeVars
<1> QED BY <1>1, <1>2, LedgerInvariant, LimitsInvariant, PTL
        DEF Spec, RedisImplementsContract, R!ImplementsContract, R!Contract!ContractSpec

-------------------------------------------------------------------------------
(* A call that is delivered again.                                         *)

\* The states a call leaves its record in, and which no later call but a grant
\* takes it out of.
After(c) == CASE c.op = "reserve" -> States
              [] c.op = "commit"  -> {"committed", "absent"}
              [] c.op = "expose"  -> States \ {"reserved"}
              [] OTHER            -> States \ HeldNow

Done == unanswered # NoCall => State(Subject(unanswered.call)) \in After(unanswered.call)

LEMMA AfterIs ==
  ASSUME NEW c \in SpendCalls
  PROVE  /\ c.op = "reserve" => After(c) = States
         /\ c.op = "commit" => After(c) = {"committed", "absent"}
         /\ c.op = "expose" => After(c) = States \ {"reserved"}
         /\ c.op \in {"release", "resolveExposed"} => After(c) = States \ HeldNow
         /\ c.op \in {"reserve", "commit", "release", "expose", "resolveExposed"}
         /\ Subject(c)[2] = IdOf(c)
<1>1. c.op \in {"reserve", "commit", "release", "expose", "resolveExposed"}
  BY DEF SpendCalls
<1>2. Subject(c)[2] = IdOf(c)
  BY DEF Subject, IdOf, Key
<1> QED BY <1>1, <1>2 DEF After

\* An accepted call leaves its record as it should.
LEMMA AcceptedIsDone ==
  ASSUME LedgerInv, NEW c \in SpendCalls, Accepted(c), Spend(c)
  PROVE  State(Subject(c))' \in After(c)
<1> USE DEF LedgerInv
<1> DEFINE k == Subject(c)
<1>1. k \in Keys
  BY SpendMoves
<1>2. LedgerStep
  BY SpendMoves DEF LedgerStep, Unmoved
<1>3. LedgerTyped' /\ Dated'
  BY <1>2, TypedStep, DatedStep
<1>4. State(k)' \in States
  <2>1. res'[k] \in Hash
    BY <1>1, <1>3 DEF LedgerTyped
  <2> QED BY <2>1 DEF State, Hash, States
<1>5. Unmoved => State(k)' = State(k)
  <2>1. ASSUME Unmoved
        PROVE  now' = now /\ (res'[k] = res[k] \/ res'[k] = Refreshed(k))
    BY <1>1, <2>1 DEF Unmoved, ledger, Refreshes
  <2>2. res[k] \in Hash
    BY <1>1 DEF LedgerTyped
  <2> QED BY <2>1, <2>2 DEF State, Refreshed, Hash
<1>6. /\ Commits(k) => State(k)' = "committed"
      /\ Releases(k) => State(k)' = "released"
      /\ Exposes(k) => State(k)' = "exposed"
  BY <1>1, SettleMoves DEF MovesTo
<1>7. CASE c.op = "reserve"
  BY <1>4, <1>7, AfterIs
<1>8. CASE c.op = "commit"
  <2>1. c.arg \in Refs /\ R!Commit(c.arg) /\ k = Key(c.arg) /\ R!CommitAnswer(c.arg) = Ok
    BY <1>8 DEF SpendCalls, Spend, Subject, Accepted
  <2>2. /\ cmt[k] # NoEntry \/ res[k] # NoHash
        /\ cmt[k] # NoEntry \/ State(k) \notin {"released", "expired"}
    BY <2>1, SameNames DEF R!CommitAnswer, R!NotFound, R!Lifecycle, R!Refusal, Ok
  <2>3. cmt[k] # NoEntry <=> State(k) = "committed"
    BY <1>1, StateFacts DEF Agreeing
  <2>4. State(k) \in {"committed", "reserved", "exposed"}
    BY <1>1, <2>2, <2>3, StateFacts DEF States
  <2>5. IF State(k) \in HeldNow /\ cmt[k] = NoEntry THEN Commits(k) ELSE Unmoved
    BY <2>1, RefMoves
  <2>6. State(k)' = "committed"
    BY <1>5, <1>6, <2>3, <2>4, <2>5 DEF HeldNow
  <2> QED BY <1>8, <2>6, AfterIs
<1>9. CASE c.op = "release"
  <2>1. c.arg \in Refs /\ R!Release(c.arg) /\ k = Key(c.arg)
    BY <1>9 DEF SpendCalls, Spend, Subject
  <2>2. IF State(k) \in HeldNow THEN Releases(k) ELSE Unmoved
    BY <2>1, RefMoves
  <2>3. State(k)' \notin HeldNow
    BY <1>5, <1>6, <2>2 DEF HeldNow
  <2> QED BY <1>4, <1>9, <2>3, AfterIs
<1>10. CASE c.op = "expose"
  <2>1. c.arg \in Refs /\ R!Expose(c.arg) /\ k = Key(c.arg)
    BY <1>10 DEF SpendCalls, Spend, Subject
  <2>2. IF State(k) = "reserved" THEN Exposes(k) ELSE Unmoved
    BY <2>1, RefMoves
  <2>3. State(k)' # "reserved"
    BY <1>5, <1>6, <2>2
  <2> QED BY <1>4, <1>10, <2>3, AfterIs
<1>11. CASE c.op = "resolveExposed"
  <2>1. /\ c.arg[1] \in Refs /\ R!ResolveExposed(c.arg[1], c.arg[2], c.arg[3])
        /\ k = Key(c.arg[1]) /\ R!ResolveAnswer(c.arg[1], c.arg[3]) = Ok
    BY <1>11 DEF SpendCalls, Spend, Subject, Accepted
  <2>2. R!Ok = Ok
    BY DEF R!Ok, Ok
  <2>3. Commits(k) \/ Releases(k)
    BY <2>1, <2>2, RefMoves
  <2>4. State(k)' \notin HeldNow
    BY <1>6, <2>3 DEF HeldNow
  <2> QED BY <1>4, <1>11, <2>4, AfterIs
<1> QED BY <1>7, <1>8, <1>9, <1>10, <1>11, AfterIs

LEMMA SubjectTyped ==
  ASSUME NEW c \in SpendCalls
  PROVE  Subject(c) \in Keys
<1>1. CASE c.op = "resolveExposed"
  BY <1>1, KeysTyped DEF SpendCalls, Subject
<1>2. CASE c.op # "resolveExposed"
  <2>1. c.arg \in ReserveInputs \/ c.arg \in Refs
    BY <1>2, InputAssumption DEF SpendCalls
  <2> QED BY <1>2, <2>1, KeysTyped DEF Subject
<1> QED BY <1>1, <1>2

\* What a call left is left by every step, unless its id is reserved anew.
LEMMA AfterIsStable ==
  ASSUME LedgerInv, NEW c \in SpendCalls, State(Subject(c)) \in After(c),
         \/ Ages(Subject(c))
         \/ \E k \in Keys : Commits(k) \/ Releases(k) \/ Exposes(k)
         \/ \E in \in CallerInputs : Grants(in) /\ Key(in) # Subject(c)
  PROVE  State(Subject(c))' \in After(c)
<1> USE DEF LedgerInv
<1> DEFINE k == Subject(c)
<1>1. k \in Keys
  BY SubjectTyped
<1>2. \/ Ages(k)
      \/ State(k) \in HeldNow /\ State(k)' \in {"committed", "released"}
      \/ State(k) = "reserved" /\ State(k)' = "exposed"
  <2>1. ASSUME NEW j \in Keys, Commits(j)
        PROVE  Ages(k) \/ (State(k) \in HeldNow /\ State(k)' = "committed")
    BY <1>1, <2>1, SettleMoves DEF Commits, Settles, MovesTo, Ages, HeldNow
  <2>2. ASSUME NEW j \in Keys, Releases(j)
        PROVE  Ages(k) \/ (State(k) \in HeldNow /\ State(k)' = "released")
    BY <1>1, <2>2, SettleMoves DEF Releases, Settles, MovesTo, Ages, HeldNow
  <2>3. ASSUME NEW j \in Keys, Exposes(j)
        PROVE  Ages(k) \/ (State(k) = "reserved" /\ State(k)' = "exposed")
    BY <1>1, <2>3, SettleMoves DEF Exposes, MovesTo, Ages
  <2>4. ASSUME NEW in \in CallerInputs, Grants(in), Key(in) # k
        PROVE  Ages(k)
    BY <1>1, <2>4, GrantMoves DEF Ages
  <2> QED BY <2>1, <2>2, <2>3, <2>4
<1>3. Ages(k) => \/ State(k)' = State(k)
                 \/ State(k) = "reserved" /\ State(k)' = "expired"
                 \/ State(k) \in {"committed", "released", "expired"} /\ State(k)' = "absent"
  <2>1. Forgotten(k) => State(k)' = "absent"
    BY DEF Forgotten, State, NoHash
  <2> QED BY <2>1 DEF Ages, Stays, Lapses, Forgotten
<1>4. State(k) \in States
  BY <1>1, StateFacts
<1> HIDE DEF k
<1>5. CASE c.op = "reserve"
  BY <1>2, <1>3, <1>4, <1>5, AfterIs DEF HeldNow, States, k
<1>6. CASE c.op = "commit"
  BY <1>2, <1>3, <1>6, AfterIs DEF HeldNow, k
<1>7. CASE c.op = "expose"
  BY <1>2, <1>3, <1>4, <1>7, AfterIs DEF HeldNow, States, k
<1>8. CASE c.op \in {"release", "resolveExposed"}
  BY <1>2, <1>3, <1>4, <1>8, AfterIs DEF HeldNow, States, k
<1> QED BY <1>5, <1>6, <1>7, <1>8, AfterIs DEF k

LEMMA DoneStep ==
  ASSUME LedgerInv, CallTyped, Done, [Next]_vars
  PROVE  Done'
<1>a. ASSUME UNCHANGED unanswered,
             \A c \in SpendCalls : c = unanswered.call /\ State(Subject(c)) \in After(c)
                                     => State(Subject(c))' \in After(c)
      PROVE  Done'
  <2> SUFFICES ASSUME unanswered # NoCall, NEW c, c = unanswered.call
               PROVE  State(Subject(c))' \in After(c)
    BY <1>a DEF Done, State
  <2> QED BY <1>a DEF Done, CallTyped
<1>0. ASSUME UNCHANGED unanswered,
             \/ UNCHANGED ledger \/ Refreshes \/ Ticks
             \/ \E sa \in Accounts : Snapshots(sa) \/ Resets(sa)
      PROVE  Done'
  <2>1. \A k \in Keys : Ages(k)
    BY <1>0, AgeMoves DEF LedgerInv
  <2> QED BY <1>a, <1>0, <2>1, SubjectTyped, AfterIsStable
<1>1. ASSUME NEW d \in SpendCalls, Call(d)
      PROVE  Done'
  <2>1. Spend(d) /\ unanswered' = unanswered
    BY <1>1 DEF Call
  <2>2. CASE Unmoved
    BY <1>0, <2>1, <2>2 DEF Unmoved
  <2>3. CASE \E k \in Keys : Commits(k) \/ Releases(k) \/ Exposes(k)
    BY <1>a, <2>1, <2>3, AfterIsStable
  <2>4. CASE d.op = "reserve" /\ d.arg \in CallerInputs /\ Grants(d.arg)
    <3>1. unanswered # NoCall => Key(d.arg)[2] # IdOf(unanswered.call)
      <4>1. unanswered # NoCall => IdOf(d) # IdOf(unanswered.call)
        BY <1>1, <2>4 DEF Call
      <4>2. Key(d.arg)[2] = IdOf(d)
        BY <2>4 DEF Key, IdOf
      <4> QED BY <4>1, <4>2
    <3>2. CASE unanswered = NoCall
      BY <2>1, <3>2 DEF Done
    <3>3. CASE unanswered # NoCall
      <4>1. ASSUME NEW c \in SpendCalls, c = unanswered.call, State(Subject(c)) \in After(c)
            PROVE  State(Subject(c))' \in After(c)
        BY <2>4, <3>1, <3>3, <4>1, AfterIs, AfterIsStable
      <4> QED BY <1>a, <2>1, <4>1
    <3> QED BY <3>2, <3>3
  <2> QED BY <2>1, <2>2, <2>3, <2>4, SpendMoves
<1>2. ASSUME NEW d \in SpendCalls, CallUnanswered(d)
      PROVE  Done'
  <2>1. State(Subject(d))' \in After(d)
    BY <1>2, AcceptedIsDone DEF CallUnanswered
  <2>2. unanswered'.call = d
    BY <1>2 DEF CallUnanswered
  <2> QED BY <2>1, <2>2 DEF Done
<1>3. CASE Resend
  BY <1>3 DEF Resend, Done
<1>4. ASSUME NEW sa \in Accounts, Query(sa)
      PROVE  Done'
  BY <1>0, <1>4, SnapshotMoves DEF Query
<1>5. ASSUME NEW cred \in Credentials, Administer(cred), UNCHANGED unanswered
      PROVE  Done'
  BY <1>0, <1>5, AdministerMoves
<1>6. CASE Tick
  BY <1>0, <1>6 DEF Tick, redisVars, Ticks
<1>7. CASE UNCHANGED vars
  BY <1>0, <1>7 DEF vars, storeVars, redisVars, ledger
<1> QED BY <1>1, <1>2, <1>3, <1>4, <1>5, <1>6, <1>7 DEF Next

LEMMA DoneInvariant == Spec => []Done
<1>1. Init => Done
  BY DEF Init, Done
<1> QED BY <1>1, DoneStep, LedgerInvariant, PTL DEF Spec

\* A call that was done and is delivered again, however late and after whatever
\* other calls, moves neither counter nor any entry, and revives no record.
THEOREM RedisResendMovesNoMoney == Spec => ResendMovesNoMoney
<1>1. ASSUME LedgerInv, CallTyped, Done, Resend
      PROVE  /\ UNCHANGED <<total, exposed, cmt>>
             /\ \A k \in Keys : State(k) # "absent" => State(k)' \in {State(k), "absent"}
  <2> DEFINE c == unanswered.call
  <2>1. c \in SpendCalls /\ Spend(c) /\ State(Subject(c)) \in After(c)
    BY <1>1 DEF Resend, CallTyped, Done
  <2>2. CASE Unmoved
    <3>1. UNCHANGED <<total, exposed, cmt>>
      BY <2>2 DEF Unmoved, ledger, Refreshes
    <3>2. \A k \in Keys : Ages(k) /\ now' = now
      BY <1>1, <2>2, AgeMoves DEF LedgerInv, Unmoved, ledger, Refreshes
    <3>3. ASSUME NEW k \in Keys
          PROVE  State(k)' = State(k)
      <4>1. res'[k] = res[k] \/ res'[k] = Refreshed(k)
        BY <2>2 DEF Unmoved, ledger, Refreshes
      <4>2. res[k] \in Hash
        BY <1>1 DEF LedgerInv, LedgerTyped
      <4> QED BY <3>2, <4>1, <4>2 DEF State, Refreshed, Hash
    <3> QED BY <3>1, <3>3
  <2>3. CASE c.op = "reserve" /\ c.arg \in CallerInputs /\ Grants(c.arg)
    <3>1. UNCHANGED <<total, exposed, cmt>>
      BY <2>3 DEF Grants
    <3>2. \A k \in Keys : State(k) # "absent" => State(k)' = State(k)
      BY <1>1, <2>3, GrantMoves DEF LedgerInv, Stays
    <3> QED BY <3>1, <3>2
  <2>4. CASE \/ c.op \in {"commit", "resolveExposed"} /\ Commits(Subject(c))
             \/ c.op \in {"release", "resolveExposed"} /\ Releases(Subject(c))
             \/ c.op = "expose" /\ Exposes(Subject(c))
    <3>1. State(Subject(c)) \in HeldNow /\ (c.op = "expose" => State(Subject(c)) = "reserved")
      BY <2>4 DEF Commits, Releases, Exposes, Settles, HeldNow
    <3> QED BY <2>1, <2>4, <3>1, AfterIs DEF HeldNow
  <2> QED BY <2>1, <2>2, <2>3, <2>4, SpendMoves
<1>2. \A k \in Keys : R!StateNow(k) = State(k) /\ R!StateNow(k)' = State(k)'
  BY SameNames DEF R!StateNow, R!Lapsed, State
<1>3. LedgerInv /\ CallTyped /\ Done /\ [Next]_vars
        => [Resend => /\ UNCHANGED <<total, exposed, cmt>>
                      /\ \A k \in Keys : R!StateNow(k) # "absent" =>
                             R!StateNow(k)' \in {R!StateNow(k), "absent"}]_vars
  BY <1>1, <1>2
<1> QED BY <1>3, LedgerInvariant, DoneInvariant, PTL DEF Spec, ResendMovesNoMoney

-------------------------------------------------------------------------------
(* The Durable Object store answers as Redis does.  Every table is coupled *)
(* with the keys of Redis that stand for it; coupled stores answer alike,  *)
(* and a call made to both keeps them coupled.                             *)

Row(k, h) == [account |-> k[1], id |-> k[2], fingerprint |-> h.fingerprint,
              amount |-> h.amount, created |-> h.created, expires |-> h.expires,
              state |-> h.state]

EntryRow(k, h, e) == [account |-> k[1], id |-> k[2], fingerprint |-> h.fingerprint,
                      amount |-> e.amount, committed |-> e.at]

Present == { k \in Keys : res[k] # NoHash }
Entered == { k \in Keys : cmt[k] # NoEntry }

RowsMatch    == reservations = { Row(k, res[k]) : k \in Present }
EntriesMatch == committed = { EntryRow(k, res[k], cmt[k]) : k \in Entered }

CountersMatch ==
    /\ \A c \in counters : /\ c.account \in Accounts
                           /\ c.total = total[c.account] /\ c.exposed = exposed[c.account]
    /\ \A sa \in Accounts : \/ \E c \in counters : c.account = sa
                            \/ total[sa] = 0 /\ exposed[sa] = 0

LimitsMatch ==
    /\ \A l \in limitRows : /\ l.account \in Accounts
                            /\ l.maxPerHour = limits[l.account].maxPerHour
                            /\ l.maxTotal = limits[l.account].maxTotal
    /\ \A sa \in Accounts : \/ \E l \in limitRows : l.account = sa
                            \/ limits[sa] = NoLimit

FrozenMatch ==
    /\ frozenRows = { D!FrozenRow(scope) : scope \in frozen }
    /\ AllScopes \in frozen => atomicGlobalFreeze

NoPin         == [recipients |-> {}, source |-> "none"]
PinRow(sn, p) == [scope |-> sn[1], network |-> sn[2], recipients |-> p.recipients,
                  source |-> p.source]
PinsMatch     == pinRows = { PinRow(sn, pins[sn]) : sn \in { x \in Scopes \X Networks :
                                                                pins[x] # NoPin } }

FlagsMatch ==
    /\ \A p \in recipientPolicy : /\ p.scope \in Scopes
                                  /\ p.tofuEnabled = (p.scope \in tofu)
                                  /\ p.assertionRequired = (p.scope \in required)
    /\ \A scope \in Scopes : \/ \E p \in recipientPolicy : p.scope = scope
                             \/ scope \notin tofu /\ scope \notin required

PinsTyped == pins = [sn \in Scopes \X Networks |-> pins[sn]]

-------------------------------------------------------------------------------
(* Sums over rows are sums over keys.                                      *)

LEMMA ImageTotal ==
  ASSUME NEW S, IsFiniteSet(S), NEW F, NEW f, NEW g,
         \A x, y \in S : F[x] = F[y] => x = y,
         \A x \in S : f[x] \in Nat /\ g[F[x]] = f[x]
  PROVE  AtomicTotal({ F[x] : x \in S }, g) = AtomicTotal(S, f)
<1> DEFINE T == { F[x] : x \in S }
           pair == [u \in Units(S, f) |-> <<F[u[1]], u[2]>>]
<1>1. pair \in Bijection(Units(S, f), Units(T, g))
  <2>1. \A u \in Units(S, f) : u[1] \in S /\ u[2] \in 1 .. f[u[1]] /\ u = <<u[1], u[2]>>
    BY DEF Units
  <2>2. \A v \in Units(T, g) : \E x \in S : \E n \in 1 .. f[x] : v = <<F[x], n>>
    BY DEF Units
  <2>3. pair \in [Units(S, f) -> Units(T, g)]
    BY <2>1 DEF Units
  <2>4. \A u, v \in Units(S, f) : pair[u] = pair[v] => u = v
    BY <2>1
  <2>5. \A v \in Units(T, g) : \E u \in Units(S, f) : pair[u] = v
    <3> TAKE v \in Units(T, g)
    <3>0. PICK x \in S : \E n \in 1 .. f[x] : v = <<F[x], n>>
      BY <2>2
    <3>1. PICK n \in 1 .. f[x] : v = <<F[x], n>>
      BY <3>0
    <3>2. <<x, n>> \in Units(S, f)
      BY DEF Units
    <3>3. pair[<<x, n>>] = v
      BY <3>1, <3>2
    <3> QED BY <3>2, <3>3
  <2> QED BY <2>3, <2>4, <2>5 DEF Bijection, Injection, Surjection, IsInjective
<1>2. IsFiniteSet(Units(S, f))
  BY AtomicTotalType
<1> QED BY <1>1, <1>2, FS_Bijection DEF AtomicTotal, ExistsBijection

\* The Durable Object adds up as this module does.
LEMMA DurableSum ==
  ASSUME NEW rows
  PROVE  D!Sum(rows) = AtomicTotal(rows, [r \in rows |-> r.amount])
<1>1. \A S, f : D!Units(S, f) = Units(S, f)
  BY DEF D!Units, Units
<1>2. \A T : D!Cardinality(T) = Cardinality(T)
  BY DEF D!Cardinality, Cardinality
<1> QED BY <1>1, <1>2 DEF D!Sum, D!AtomicTotal, AtomicTotal

\* Rows of a set of keys add up to what the keys do.
LEMMA RowsTotal ==
  ASSUME NEW S \in SUBSET Keys, NEW F, NEW f,
         \A k \in S : F[k].account = k[1] /\ F[k].id = k[2] /\ F[k].amount = f[k] /\ f[k] \in Nat
  PROVE  D!Sum({ F[k] : k \in S }) = AtomicTotal(S, f)
<1>1. IsFiniteSet(S)
  BY KeysFinite, FS_Subset
<1>2. \A x, y \in S : F[x] = F[y] => x = y
  BY KeysTyped
<1> DEFINE T == { F[k] : k \in S }
           g == [r \in T |-> r.amount]
<1>3. \A x \in S : f[x] \in Nat /\ g[F[x]] = f[x]
  OBVIOUS
<1>4. D!Sum(T) = AtomicTotal(T, g)
  BY DurableSum
<1> HIDE DEF g
<1>5. AtomicTotal({ F[k] : k \in S }, g) = AtomicTotal(S, f)
  BY <1>1, <1>2, <1>3, ImageTotal
<1> QED BY <1>4, <1>5

-------------------------------------------------------------------------------
(* Coupled stores read the same.                                           *)

\* The protocol's names are the same in both instances.
LEMMA DurableNames ==
  /\ \A x : D!Account(x) = Account(x)
  /\ \A a : D!CanonicalizeAsset(a) = CanonicalizeAsset(a)
            /\ R!CanonicalizeAsset(a) = CanonicalizeAsset(a)
  /\ \A network, r : /\ D!CanonicalizeRecipient(network, r) = CanonicalizeRecipient(network, r)
                     /\ R!CanonicalizeRecipient(network, r) = CanonicalizeRecipient(network, r)
  /\ D!AllScopes = AllScopes /\ R!AllScopes = AllScopes
  /\ D!NoLimit = NoLimit /\ R!NoLimit = NoLimit
<1>1. \A a : D!CanonicalizeAsset(a) = CanonicalizeAsset(a)
            /\ R!CanonicalizeAsset(a) = CanonicalizeAsset(a)
  BY DEF D!CanonicalizeAsset, R!CanonicalizeAsset, CanonicalizeAsset, D!Lowercase, R!Lowercase,
         Lowercase
<1>2. \A network, r : /\ D!CanonicalizeRecipient(network, r) = CanonicalizeRecipient(network, r)
                      /\ R!CanonicalizeRecipient(network, r) = CanonicalizeRecipient(network, r)
  BY DEF D!CanonicalizeRecipient, R!CanonicalizeRecipient, CanonicalizeRecipient, D!Lowercase,
         R!Lowercase, Lowercase
<1>3. \A x : D!Account(x) = Account(x)
  BY <1>1 DEF D!Account, Account
<1> QED BY <1>1, <1>2, <1>3 DEF D!AllScopes, R!AllScopes, AllScopes, D!NoLimit, R!NoLimit, NoLimit

\* So are the answers.
LEMMA AnswerNames ==
  /\ D!Ok = Ok /\ R!Ok = Ok
  /\ D!NotFound = NotFound /\ R!NotFound = NotFound
  /\ D!AdminDenied = AdminDenied /\ R!AdminDenied = AdminDenied
  /\ \A reason : D!Lifecycle(reason) = Lifecycle(reason) /\ R!Lifecycle(reason) = Lifecycle(reason)
  /\ \A kind, reason : /\ D!Refusal(kind, reason) = Refusal(kind, reason)
                       /\ R!Refusal(kind, reason) = Refusal(kind, reason)
BY DEF D!Ok, R!Ok, Ok, D!NotFound, R!NotFound, NotFound, D!AdminDenied, R!AdminDenied, AdminDenied,
       D!Lifecycle, R!Lifecycle, Lifecycle, D!Refusal, R!Refusal, Refusal

\* What a key and its row say of each other.
LEMMA RowReads ==
  ASSUME LedgerTyped, NEW k \in Keys
  PROVE  LET r == Row(k, res[k]) IN
         /\ r.account = k[1] /\ r.id = k[2] /\ r.amount = res[k].amount
         /\ r.fingerprint = res[k].fingerprint /\ r.created = res[k].created
         /\ r.state = res[k].state /\ r.expires = res[k].expires
         /\ D!StateNow(r) = State(k)
         /\ D!Swept(r) = Row(k, Refreshed(k))
         /\ D!Live(r) <=> State(k) \in HeldNow
         /\ D!HeldExposed(r) = IF res[k].state = "exposed" THEN res[k].amount ELSE 0
         /\ \A s : [r EXCEPT !.state = s] = Row(k, [res[k] EXCEPT !.state = s])
<1> DEFINE r == Row(k, res[k])
<1>1. /\ r.account = k[1] /\ r.id = k[2] /\ r.amount = res[k].amount
      /\ r.fingerprint = res[k].fingerprint /\ r.created = res[k].created
      /\ r.state = res[k].state /\ r.expires = res[k].expires
  BY DEF Row
<1>2. D!StateNow(r) = State(k)
  BY <1>1 DEF D!StateNow, D!ExpiredAt, State
<1>3. res[k] \in Hash
  BY Typing
<1>4. \A s : [r EXCEPT !.state = s] = Row(k, [res[k] EXCEPT !.state = s])
  BY <1>3 DEF Row, Hash
<1>5. D!Swept(r) = Row(k, Refreshed(k))
  BY <1>2, <1>4 DEF D!Swept, Refreshed
<1> HIDE DEF r
<1> QED BY <1>1, <1>2, <1>4, <1>5 DEF D!Live, D!HeldExposed, HeldNow, r

LEMMA RowOfIs ==
  ASSUME RowsMatch, NEW x, Key(x) \in Keys
  PROVE  D!RowOf(x) = IF res[Key(x)] = NoHash THEN {} ELSE {Row(Key(x), res[Key(x)])}
<1>1. \A k \in Keys : /\ Row(k, res[k]).account = k[1] /\ Row(k, res[k]).id = k[2]
                      /\ k = <<k[1], k[2]>>
  BY KeysTyped DEF Row
<1>2. Key(x) = <<Account(x), x.reservationId>>
  BY DEF Key
<1>3. D!RowOf(x) = { r \in reservations : r.account = Account(x) /\ r.id = x.reservationId }
  BY DurableNames DEF D!RowOf
<1> QED BY <1>1, <1>2, <1>3 DEF RowsMatch, Present

LEMMA EntryOfIs ==
  ASSUME EntriesMatch, NEW x, Key(x) \in Keys
  PROVE  D!EntryOf(x) = IF cmt[Key(x)] = NoEntry THEN {}
                        ELSE {EntryRow(Key(x), res[Key(x)], cmt[Key(x)])}
<1>1. \A k \in Keys : /\ EntryRow(k, res[k], cmt[k]).account = k[1]
                      /\ EntryRow(k, res[k], cmt[k]).id = k[2]
                      /\ k = <<k[1], k[2]>>
  BY KeysTyped DEF EntryRow
<1>2. Key(x) = <<Account(x), x.reservationId>>
  BY DEF Key
<1>3. D!EntryOf(x) = { c \in committed : c.account = Account(x) /\ c.id = x.reservationId }
  BY DurableNames DEF D!EntryOf
<1> QED BY <1>1, <1>2, <1>3 DEF EntriesMatch, Entered

LEMMA CountersAre ==
  ASSUME CountersMatch, NEW sa \in Accounts
  PROVE  D!Counters(sa) = [total |-> total[sa], exposed |-> exposed[sa]]
BY DEF CountersMatch, D!Counters, D!NoCounters

LEMMA LimitsAre ==
  ASSUME LimitsMatch, LimitsTyped, NEW sa \in Accounts
  PROVE  D!LimitsOf(sa) = limits[sa]
<1>1. limits[sa] = [maxPerHour |-> limits[sa].maxPerHour, maxTotal |-> limits[sa].maxTotal]
  BY DEF LimitsTyped, Limits
<1> QED BY <1>1, DurableNames DEF LimitsMatch, D!LimitsOf

LEMMA FlagsAre ==
  ASSUME FlagsMatch, NEW scope \in Scopes
  PROVE  D!FlagsOf(scope) = [tofuEnabled |-> scope \in tofu,
                             assertionRequired |-> scope \in required]
<1>1. CASE \E p \in recipientPolicy : p.scope = scope
  <2> DEFINE row == CHOOSE p \in recipientPolicy : p.scope = scope
  <2>1. row \in recipientPolicy /\ row.scope = scope
    BY <1>1
  <2>2. row.tofuEnabled = (scope \in tofu) /\ row.assertionRequired = (scope \in required)
    BY <2>1 DEF FlagsMatch
  <2> QED BY <1>1, <2>2 DEF D!FlagsOf
<1>2. CASE ~\E p \in recipientPolicy : p.scope = scope
  <2>1. (scope \in tofu) = FALSE /\ (scope \in required) = FALSE
    BY <1>2 DEF FlagsMatch
  <2> QED BY <1>2, <2>1 DEF D!FlagsOf, D!NoFlags
<1> QED BY <1>1, <1>2

LEMMA FrozenAre ==
  ASSUME FrozenMatch, NEW scope
  PROVE  /\ D!FrozenIn(scope, scope) <=> scope \in frozen
         /\ D!FrozenIn(scope, AllScopes) <=> atomicGlobalFreeze /\ AllScopes \in frozen
BY DEF FrozenMatch, D!FrozenIn, D!FrozenRow, D!Locate

LEMMA PinsAre ==
  ASSUME PinsMatch, NEW scope \in Scopes, NEW network \in Networks
  PROVE  LET p == pins[<<scope, network>>] IN
         { x \in pinRows : x.scope = scope /\ x.network = network }
             = IF p = NoPin THEN {} ELSE {PinRow(<<scope, network>>, p)}
BY DEF PinsMatch, PinRow

\* The records of an account the hourly window counts, in either store.
LEMMA RecentRows ==
  ASSUME LedgerInv, RowsMatch, EntriesMatch, NEW sa \in Accounts
  PROVE  /\ R!ResInRange(sa) \in SUBSET Keys /\ R!CmtInRange(sa) \in SUBSET Keys
         /\ R!ResInRange(sa) = { k \in Present : /\ k[1] = sa /\ now - Window <= res[k].created
                                                 /\ res[k].created <= now }
         /\ D!Recent(sa) = { Row(k, res[k]) : k \in R!ResInRange(sa) }
         /\ { c \in committed : c.account = sa /\ D!Cutoff <= c.committed /\ c.committed <= now }
              = { EntryRow(k, res[k], cmt[k]) : k \in R!CmtInRange(sa) }
<1> USE DEF LedgerInv
<1>1. /\ R!KeysOf(sa) = { k \in Keys : k[1] = sa }
      /\ R!Cutoff = now - Window /\ D!Cutoff = now - Window
  BY SameNames DEF KeysOf, R!Cutoff, D!Cutoff
<1>2. \A k \in Keys : /\ k[2] \in resIdx[k[1]] <=> k \in Present
                      /\ k[2] \in cmtIdx[k[1]] <=> k \in Entered
  BY DEF Agreeing, Present, Entered
<1>3. R!ResInRange(sa) = { k \in Present : /\ k[1] = sa /\ now - Window <= res[k].created
                                           /\ res[k].created <= now }
  BY <1>1, <1>2 DEF R!ResInRange, Present
<1>4. R!CmtInRange(sa) = { k \in Entered : /\ k[1] = sa /\ now - Window <= cmt[k].at
                                           /\ cmt[k].at <= now }
  BY <1>1, <1>2 DEF R!CmtInRange, Entered
<1>5. \A k \in Keys : /\ Row(k, res[k]).account = k[1]
                      /\ Row(k, res[k]).created = res[k].created
                      /\ EntryRow(k, res[k], cmt[k]).account = k[1]
                      /\ EntryRow(k, res[k], cmt[k]).committed = cmt[k].at
  BY DEF Row, EntryRow
<1>6. D!Recent(sa) = { Row(k, res[k]) : k \in R!ResInRange(sa) }
  BY <1>1, <1>3, <1>5 DEF D!Recent, RowsMatch, Present
<1>7. { c \in committed : c.account = sa /\ D!Cutoff <= c.committed /\ c.committed <= now }
        = { EntryRow(k, res[k], cmt[k]) : k \in R!CmtInRange(sa) }
  BY <1>1, <1>4, <1>5 DEF EntriesMatch, Entered
<1> QED BY <1>3, <1>4, <1>6, <1>7 DEF Present, Entered

LEMMA SameSums ==
  ASSUME LedgerInv, RowsMatch, EntriesMatch, NEW sa \in Accounts
  PROVE  /\ D!Committed(sa) = R!Committed(sa)
         /\ D!Reserved(sa) = R!Reserved(sa)
         /\ D!ExposedRolling(sa) = R!ExposedRolling(sa)
<1> DEFINE row == [k \in Keys |-> Row(k, res[k])]
           entry == [k \in Keys |-> EntryRow(k, res[k], cmt[k])]
           counted == [k \in Keys |-> cmt[k].amount]
           live == { k \in R!ResInRange(sa) : R!StateNow(k) = "reserved" }
           owed == { k \in R!ResInRange(sa) : res[k].state = "exposed" }
<1>1. /\ R!ResInRange(sa) \in SUBSET Keys /\ R!CmtInRange(sa) \in SUBSET Keys
      /\ live \in SUBSET Keys /\ owed \in SUBSET Keys
  BY RecentRows
<1>2. \A k \in Keys : /\ row[k].account = k[1] /\ row[k].id = k[2]
                      /\ row[k].amount = Prices[k] /\ Prices[k] \in Nat
                      /\ D!StateNow(row[k]) = R!StateNow(k) /\ row[k].state = res[k].state
  BY RowReads, PricesTyped, SameNames DEF LedgerInv
<1>3. \A k \in Keys : /\ entry[k].account = k[1] /\ entry[k].id = k[2]
                      /\ entry[k].amount = counted[k] /\ counted[k] \in Nat
  BY Typing DEF EntryRow, Entry, LedgerInv
<1>4. \A k \in Keys : row[k] = Row(k, res[k]) /\ entry[k] = EntryRow(k, res[k], cmt[k])
  OBVIOUS
<1> HIDE DEF row, entry
<1>5. /\ D!Recent(sa) = { row[k] : k \in R!ResInRange(sa) }
      /\ { c \in committed : c.account = sa /\ D!Cutoff <= c.committed /\ c.committed <= now }
           = { entry[k] : k \in R!CmtInRange(sa) }
  BY <1>1, <1>4, RecentRows
<1>6. /\ { r \in D!Recent(sa) : D!StateNow(r) = "reserved" } = { row[k] : k \in live }
      /\ { r \in D!Recent(sa) : r.state = "exposed" } = { row[k] : k \in owed }
  BY <1>1, <1>2, <1>5
<1> HIDE DEF counted, live, owed
<1>7. D!Sum({ entry[k] : k \in R!CmtInRange(sa) }) = AtomicTotal(R!CmtInRange(sa), counted)
  BY <1>1, <1>3, RowsTotal
<1>8. D!Sum({ row[k] : k \in live }) = AtomicTotal(live, Prices)
  <2>1. \A k \in live : /\ row[k].account = k[1] /\ row[k].id = k[2]
                        /\ row[k].amount = Prices[k] /\ Prices[k] \in Nat
    BY <1>1, <1>2
  <2> QED BY <1>1, <2>1, RowsTotal
<1>9. D!Sum({ row[k] : k \in owed }) = AtomicTotal(owed, Prices)
  <2>1. \A k \in owed : /\ row[k].account = k[1] /\ row[k].id = k[2]
                        /\ row[k].amount = Prices[k] /\ Prices[k] \in Nat
    BY <1>1, <1>2
  <2> QED BY <1>1, <2>1, RowsTotal
<1>10. /\ D!Committed(sa) = AtomicTotal(R!CmtInRange(sa), counted)
       /\ D!Reserved(sa) = AtomicTotal(live, Prices)
       /\ D!ExposedRolling(sa) = AtomicTotal(owed, Prices)
  BY <1>5, <1>6, <1>7, <1>8, <1>9 DEF D!Committed, D!Reserved, D!ExposedRolling
<1>11. /\ R!Committed(sa) = AtomicTotal(R!CmtInRange(sa), counted)
       /\ R!Reserved(sa) = AtomicTotal(live, Prices)
       /\ R!ExposedRolling(sa) = AtomicTotal(owed, Prices)
  BY SameTotal DEF R!Committed, R!Reserved, R!ExposedRolling, Prices, counted, live, owed
<1> QED BY <1>10, <1>11

-------------------------------------------------------------------------------
(* Coupled stores answer alike.                                            *)

Coupled == /\ RowsMatch /\ EntriesMatch /\ CountersMatch /\ LimitsMatch
           /\ FrozenMatch /\ PinsMatch /\ FlagsMatch

\* A key and a refusal's answer, as both instances name them.
LEMMA InputNames ==
  ASSUME NEW in \in ReserveInputs
  PROVE  /\ Key(in) \in Keys /\ Account(in) \in Accounts
         /\ R!Key(in) = Key(in) /\ R!Account(in) = Account(in) /\ D!Account(in) = Account(in)
         /\ in.policyScope \in Scopes
         /\ in.payee # NoPayee => in.payee.network \in Networks
BY KeysTyped, SameNames, DurableNames DEF ReserveInputs, Payees

LEMMA SamePins ==
  ASSUME PinsMatch, NEW in \in ReserveInputs, in.payee # NoPayee
  PROVE  LET p == R!PinOf(in) IN
         /\ p = pins[<<in.policyScope, in.payee.network>>]
         /\ D!PinsFor(in) = IF p = NoPin THEN {}
                            ELSE {PinRow(<<in.policyScope, in.payee.network>>, p)}
         /\ R!Presented(in) = D!Presented(in)
         /\ \A q \in D!PinsFor(in) : /\ q.source = p.source
                                     /\ D!Listed(q) = R!Expected(in)
<1>1. in.policyScope \in Scopes /\ in.payee.network \in Networks
  BY InputNames
<1>2. R!PinOf(in) = pins[<<in.policyScope, in.payee.network>>]
  BY DEF R!PinOf
<1>3. D!PinsFor(in) = IF R!PinOf(in) = NoPin THEN {}
                      ELSE {PinRow(<<in.policyScope, in.payee.network>>, R!PinOf(in))}
  BY <1>1, <1>2, PinsAre DEF D!PinsFor
<1>4. R!Presented(in) = D!Presented(in)
  BY DurableNames DEF R!Presented, D!Presented
<1>5. ASSUME NEW q \in D!PinsFor(in)
      PROVE  q.source = R!PinOf(in).source /\ D!Listed(q) = R!Expected(in)
  <2>1. /\ q.source = R!PinOf(in).source /\ q.recipients = R!PinOf(in).recipients
        /\ q.network = in.payee.network
    BY <1>3 DEF PinRow
  <2> QED BY <2>1, DurableNames DEF D!Listed, R!Expected
<1> QED BY <1>2, <1>3, <1>4, <1>5

LEMMA SameRecipientAnswer ==
  ASSUME Coupled, NEW in \in ReserveInputs
  PROVE  /\ D!RecipientAnswer(in) = R!RecipientRefusal(in)
         /\ D!ClaimsPin(in) <=> R!WantsClaim(in)
<1>1. /\ D!FlagsOf(in.policyScope).assertionRequired = (in.policyScope \in required)
      /\ D!FlagsOf(in.policyScope).tofuEnabled = (in.policyScope \in tofu)
  BY InputNames, FlagsAre DEF Coupled
<1>2. R!NoPin = NoPin
  BY DEF R!NoPin, NoPin
<1>3. CASE in.payee = NoPayee
  BY <1>1, <1>3 DEF D!RecipientAnswer, R!RecipientRefusal, D!ClaimsPin, R!WantsClaim, R!Ok, D!Ok,
                    Ok, R!Refusal, D!Refusal, Refusal
<1>4. CASE in.payee # NoPayee
  <2> DEFINE p == R!PinOf(in)
  <2>1. /\ D!PinsFor(in) = {} <=> p = NoPin
        /\ R!Presented(in) = D!Presented(in)
        /\ \A q \in D!PinsFor(in) : q.source = p.source /\ D!Listed(q) = R!Expected(in)
    BY <1>4, SamePins DEF Coupled
  <2>2. D!ClaimsPin(in) <=> R!WantsClaim(in)
    BY <1>2, <1>4, <2>1 DEF D!ClaimsPin, R!WantsClaim
  <2>3. CASE p = NoPin
    BY <1>1, <1>2, <1>4, <2>1, <2>2, <2>3
       DEF D!RecipientAnswer, R!RecipientRefusal, R!Ok, D!Ok, Ok, R!Refusal, D!Refusal, Refusal
  <2>4. CASE p # NoPin
    <3>1. PICK q : q \in D!PinsFor(in)
      BY <2>1, <2>4
    <3>2. ~R!WantsClaim(in) /\ ~D!ClaimsPin(in)
      BY <1>2, <2>2, <2>4 DEF R!WantsClaim
    <3> QED BY <1>2, <1>4, <2>1, <2>4, <3>1, <3>2, AnswerNames
               DEF D!RecipientAnswer, R!RecipientRefusal
  <2> QED BY <2>2, <2>3, <2>4
<1> QED BY <1>3, <1>4

LEMMA SameBudgetAnswer ==
  ASSUME LedgerInv, LimitsTyped, Coupled, NEW in \in ReserveInputs
  PROVE  D!BudgetAnswer(in) = IF R!CapsRefusal(in) # R!Ok THEN R!CapsRefusal(in)
                                                          ELSE R!BudgetRefusal(in)
<1> DEFINE sa == Account(in)
<1>1. sa \in Accounts /\ R!Account(in) = sa /\ D!Account(in) = sa
  BY InputNames
<1>2. /\ D!Committed(sa) = R!Committed(sa) /\ D!Reserved(sa) = R!Reserved(sa)
      /\ D!ExposedRolling(sa) = R!ExposedRolling(sa)
  BY <1>1, SameSums DEF Coupled
<1>3. /\ D!Counters(sa).total = total[sa] /\ D!Counters(sa).exposed = exposed[sa]
      /\ D!LimitsOf(sa) = limits[sa]
  BY <1>1, CountersAre, LimitsAre DEF Coupled
<1>4. D!TotalCap(in) = R!EffectiveTotal(in)
  BY <1>1, <1>3 DEF D!TotalCap, R!EffectiveTotal
<1>5. \A a, b : D!Exceeds(a, b) <=> R!Above(a, b)
  BY DEF D!Exceeds, R!Above
<1>6. Refusal("config", "cap-exceeds-administered") # Ok
  BY DEF Refusal, Ok
<1> QED BY <1>1, <1>2, <1>3, <1>4, <1>5, <1>6 DEF D!BudgetAnswer, R!CapsRefusal,
           R!BudgetRefusal, R!Ok, D!Ok, Ok, R!Refusal, D!Refusal, Refusal

LEMMA SameReserveAnswer ==
  ASSUME LedgerInv, LimitsTyped, Coupled, NEW in \in ReserveInputs
  PROVE  /\ R!ReserveAnswer(in) = D!ReserveAnswer(in)
         /\ D!Considered(in) <=> R!PastRecipient(in)
<1>1. Key(in) \in Keys /\ R!Key(in) = Key(in) /\ ~R!Aliased(in) /\ R!NoHash = NoHash
  BY InputNames, SameNames
<1>2. D!RowOf(in) = IF res[Key(in)] = NoHash THEN {} ELSE {Row(Key(in), res[Key(in)])}
  BY <1>1, RowOfIs DEF Coupled
<1>3. /\ D!RowOf(in) = {} <=> ~R!Known(in)
      /\ R!Known(in) => D!ReplayAnswer(in) = IF R!SameTerms(in) THEN Ok
                                             ELSE Refusal("idreuse", "terms-differ")
  <2>1. R!Known(in) <=> res[Key(in)] # NoHash
    BY <1>1 DEF R!Known
  <2>2. /\ Row(Key(in), res[Key(in)]).fingerprint = res[Key(in)].fingerprint
        /\ Row(Key(in), res[Key(in)]).amount = res[Key(in)].amount
    BY DEF Row
  <2>3. R!Known(in) => ((\E r \in D!RowOf(in) : r.fingerprint = in.fingerprint /\ r.amount = in.amount)
                           <=> R!SameTerms(in))
    BY <1>1, <1>2, <2>1, <2>2 DEF R!SameTerms
  <2>4. R!Known(in) => D!ReplayAnswer(in) = IF R!SameTerms(in) THEN Ok
                                             ELSE Refusal("idreuse", "terms-differ")
    BY <2>3, AnswerNames DEF D!ReplayAnswer
  <2> QED BY <1>2, <2>1, <2>4
<1>4. /\ D!FrozenIn(in.policyScope, in.policyScope) <=> in.policyScope \in frozen
      /\ D!FrozenIn(in.policyScope, AllScopes) <=> atomicGlobalFreeze /\ AllScopes \in frozen
      /\ D!AllScopes = AllScopes /\ R!AllScopes = AllScopes
  BY FrozenAre, DurableNames DEF Coupled
<1>5. \A scope : Refusal("frozen", scope) # Ok
  BY DEF Refusal, Ok
<1>6. /\ D!IsFrozen(in.policyScope) <=> R!FrozenRefusal(in) # Ok
      /\ R!FrozenRefusal(in) # Ok =>
             R!FrozenRefusal(in) = IF in.policyScope \in frozen THEN Refusal("frozen", in.policyScope)
                                                                ELSE Refusal("frozen", AllScopes)
  BY <1>4, <1>5 DEF D!IsFrozen, R!FrozenRefusal, R!Ok, D!Ok, Ok, R!Refusal, D!Refusal, Refusal
<1>7. D!RecipientAnswer(in) = R!RecipientRefusal(in)
  BY SameRecipientAnswer
<1>8. D!Considered(in) <=> R!PastRecipient(in)
  BY <1>1, <1>3, <1>6, <1>7 DEF D!Considered, R!PastRecipient, R!Ok, D!Ok, Ok, R!Refusal, D!Refusal,
                                Refusal
<1>9. D!BudgetAnswer(in) = IF R!CapsRefusal(in) # Ok THEN R!CapsRefusal(in) ELSE R!BudgetRefusal(in)
  BY SameBudgetAnswer, AnswerNames
<1>10. R!ReserveAnswer(in) = D!ReserveAnswer(in)
  <2>1. CASE R!Known(in)
    BY <1>1, <1>3, <2>1 DEF R!ReserveAnswer, D!ReserveAnswer, R!Ok, D!Ok, Ok, R!Refusal, D!Refusal,
                            Refusal
  <2>2. CASE ~R!Known(in) /\ R!FrozenRefusal(in) # Ok
    <3>1. D!RowOf(in) = {} /\ ~R!Aliased(in) /\ D!IsFrozen(in.policyScope)
      BY <1>1, <1>3, <1>6, <2>2
    <3>2. R!ReserveAnswer(in) = R!FrozenRefusal(in)
      BY <2>2, <3>1 DEF R!ReserveAnswer, R!Ok, D!Ok, Ok, R!Refusal, D!Refusal, Refusal
    <3>3. D!ReserveAnswer(in) = IF in.policyScope \in frozen THEN Refusal("frozen", in.policyScope)
                                                             ELSE Refusal("frozen", AllScopes)
      BY <1>4, <3>1 DEF D!ReserveAnswer, D!IsFrozen, R!Ok, D!Ok, Ok, R!Refusal, D!Refusal, Refusal
    <3> QED BY <1>6, <2>2, <3>2, <3>3
  <2>3. CASE ~R!Known(in) /\ R!FrozenRefusal(in) = Ok
    <3>1. D!RowOf(in) = {} /\ ~R!Aliased(in) /\ ~D!IsFrozen(in.policyScope)
      BY <1>1, <1>3, <1>6, <2>3
    <3>2. R!ReserveAnswer(in) = IF R!RecipientRefusal(in) # Ok THEN R!RecipientRefusal(in)
                                ELSE IF R!CapsRefusal(in) # Ok THEN R!CapsRefusal(in)
                                ELSE R!BudgetRefusal(in)
      BY <2>3, <3>1 DEF R!ReserveAnswer, R!Ok, D!Ok, Ok, R!Refusal, D!Refusal, Refusal
    <3>3. D!ReserveAnswer(in) = IF R!RecipientRefusal(in) # Ok THEN R!RecipientRefusal(in)
                                ELSE D!BudgetAnswer(in)
      BY <1>4, <1>7, <3>1 DEF D!ReserveAnswer, D!IsFrozen, R!Ok, D!Ok, Ok, R!Refusal, D!Refusal,
                              Refusal
    <3> QED BY <1>9, <3>2, <3>3
  <2> QED BY <2>1, <2>2, <2>3
<1> QED BY <1>8, <1>10

LEMMA SameRefAnswers ==
  ASSUME LedgerInv, Coupled, NEW ref \in Refs
  PROVE  /\ R!CommitAnswer(ref) = D!CommitAnswer(ref)
         /\ R!ReleaseAnswer(ref) = D!ReleaseAnswer(ref)
         /\ R!ExposeAnswer(ref) = D!ExposeAnswer(ref)
         /\ \A cred : R!ResolveAnswer(ref, cred) = D!ResolveAnswer(ref, cred)
<1> DEFINE k == Key(ref)
           r == Row(k, res[k])
<1>1. /\ k \in Keys /\ R!Key(ref) = k /\ ~R!Aliased(ref)
      /\ R!NoHash = NoHash /\ R!NoEntry = NoEntry /\ R!StateNow(k) = State(k)
  BY KeysTyped, SameNames
<1>2. D!RowOf(ref) = IF res[k] = NoHash THEN {} ELSE {r}
  BY <1>1, RowOfIs DEF Coupled
<1>3. D!EntryOf(ref) = {} <=> cmt[k] = NoEntry
  BY <1>1, EntryOfIs DEF Coupled
<1>4. /\ D!StateNow(r) = State(k) /\ r.state = res[k].state
      /\ D!Live(r) <=> State(k) \in HeldNow
  BY <1>1, RowReads DEF LedgerInv
<1> HIDE DEF k, r
<1>5. /\ \A s : (\E x \in D!RowOf(ref) : D!StateNow(x) = s) <=> res[k] # NoHash /\ State(k) = s
      /\ \A s : (\E x \in D!RowOf(ref) : x.state = s) <=> res[k] # NoHash /\ res[k].state = s
      /\ (\E x \in D!RowOf(ref) : D!Live(x)) <=> res[k] # NoHash /\ State(k) \in HeldNow
      /\ D!RowOf(ref) = {} <=> res[k] = NoHash
  BY <1>2, <1>4
<1>6. R!CommitAnswer(ref) = D!CommitAnswer(ref)
  BY <1>1, <1>3, <1>5, AnswerNames DEF R!CommitAnswer, D!CommitAnswer
<1>7. R!ReleaseAnswer(ref) = D!ReleaseAnswer(ref)
  BY <1>1, <1>5, AnswerNames DEF R!ReleaseAnswer, D!ReleaseAnswer
<1>8. R!Holds(k) <=> State(k) \in HeldNow
  BY <1>1 DEF R!Holds, HeldNow
<1>9. R!ExposeAnswer(ref) = D!ExposeAnswer(ref)
  BY <1>1, <1>5, <1>8, AnswerNames DEF R!ExposeAnswer, D!ExposeAnswer
<1>10. ASSUME NEW cred
       PROVE  R!ResolveAnswer(ref, cred) = D!ResolveAnswer(ref, cred)
  BY <1>1, <1>5, AnswerNames DEF R!ResolveAnswer, D!ResolveAnswer, R!IfAdmin, D!VerifyAdmin
<1> QED BY <1>6, <1>7, <1>9, <1>10

\* The records the snapshot leaves, in either store.
LEMMA KeptRows ==
  ASSUME LedgerInv, Coupled, NEW sa \in Accounts
  PROVE  /\ R!StaleCommits(sa) = OldCommits(sa) /\ R!StaleRecords(sa) = OldRecords(sa)
         /\ OldCommits(sa) \in SUBSET Entered /\ Old(sa) \in SUBSET Present
         /\ \A k \in Old(sa) : k[1] = sa
         /\ D!StaleEntries(sa) = { EntryRow(k, res[k], cmt[k]) : k \in OldCommits(sa) }
         /\ D!GoneRows(sa) = { Row(k, res[k]) : k \in Old(sa) }
<1> USE DEF LedgerInv
<1>1. R!StaleCommits(sa) = OldCommits(sa) /\ R!StaleRecords(sa) = OldRecords(sa)
  BY SameNames DEF R!StaleCommits, R!StaleRecords, R!Cutoff, OldCommits, OldRecords
<1>2. \A k \in Keys : /\ k[2] \in resIdx[k[1]] <=> res[k] # NoHash
                      /\ k[2] \in cmtIdx[k[1]] <=> cmt[k] # NoEntry
                      /\ cmt[k] # NoEntry => res[k] # NoHash
  BY DEF Agreeing, NoHash
<1>3. /\ OldCommits(sa) = { k \in Entered : k[1] = sa /\ cmt[k].at < now - Window }
      /\ OldRecords(sa) = { k \in Present : /\ k[1] = sa /\ State(k) \in {"released", "expired"}
                                            /\ res[k].created < now - Window }
      /\ Entered \subseteq Present /\ Present \subseteq Keys
  BY <1>2 DEF OldCommits, OldRecords, Entered, Present, KeysOf
<1>4. \A k \in Keys : /\ Row(k, res[k]).account = k[1] /\ Row(k, res[k]).id = k[2]
                      /\ Row(k, res[k]).created = res[k].created
                      /\ D!StateNow(Row(k, res[k])) = State(k)
                      /\ EntryRow(k, res[k], cmt[k]).account = k[1]
                      /\ EntryRow(k, res[k], cmt[k]).id = k[2]
                      /\ EntryRow(k, res[k], cmt[k]).committed = cmt[k].at
                      /\ k = <<k[1], k[2]>>
  BY RowReads, KeysTyped DEF EntryRow
<1>5. D!Cutoff = now - Window
  BY DEF D!Cutoff
<1>6. D!StaleEntries(sa) = { EntryRow(k, res[k], cmt[k]) : k \in OldCommits(sa) }
  <2>1. committed = { EntryRow(k, res[k], cmt[k]) : k \in Entered }
    BY DEF Coupled, EntriesMatch
  <2> QED BY <1>3, <1>4, <1>5, <2>1 DEF D!StaleEntries
<1>7. D!GoneRows(sa) = { Row(k, res[k]) : k \in Old(sa) }
  <2>1. reservations = { Row(k, res[k]) : k \in Present }
    BY DEF Coupled, RowsMatch
  <2>2. \A k \in Present : k[1] = sa =>
            ((\E c \in D!StaleEntries(sa) : c.id = Row(k, res[k]).id) <=> k \in OldCommits(sa))
    BY <1>3, <1>4, <1>6
  <2>3. \A k \in Present : /\ Row(k, res[k]).account = sa
                           /\ \/ \E c \in D!StaleEntries(sa) : c.id = Row(k, res[k]).id
                              \/ /\ D!StateNow(Row(k, res[k])) \in {"released", "expired"}
                                 /\ Row(k, res[k]).created < D!Cutoff
                           <=> k \in Old(sa)
    BY <1>3, <1>4, <1>5, <2>2 DEF Old
  <2>4. Old(sa) \subseteq Present
    BY <1>3 DEF Old
  <2> HIDE DEF Old
  <2> QED BY <2>1, <2>3, <2>4 DEF D!GoneRows
<1> QED BY <1>1, <1>3, <1>6, <1>7 DEF Old

LEMMA SameReads ==
  ASSUME LedgerInv, LimitsTyped, Coupled, NEW sa \in Accounts
  PROVE  /\ R!BudgetState(sa) = D!BudgetState(sa)
         /\ R!ListExposed(sa) = D!ListExposed(sa)
         /\ \A cred : R!GetBudgetLimits(sa, cred) = D!GetBudgetLimits(sa, cred)
<1> USE DEF LedgerInv
<1>1. /\ D!Committed(sa) = R!Committed(sa) /\ D!Reserved(sa) = R!Reserved(sa)
      /\ D!ExposedRolling(sa) = R!ExposedRolling(sa)
      /\ D!Counters(sa).total = total[sa] /\ D!Counters(sa).exposed = exposed[sa]
      /\ D!LimitsOf(sa) = limits[sa]
  BY SameSums, CountersAre, LimitsAre DEF Coupled
<1>2. sa[1] \in Scopes
  BY DEF Accounts
<1>3. D!IsFrozen(sa[1]) = R!FrozenFor(sa[1])
  BY FrozenAre, DurableNames DEF Coupled, D!IsFrozen, R!FrozenFor
<1>4. \A cap, consumed : D!AvailStr(cap, consumed) = R!Available(cap, consumed)
  BY DEF D!AvailStr, R!Available
<1>5. reservations = { Row(k, res[k]) : k \in Present }
  BY DEF Coupled, RowsMatch
<1>6. \A k \in Present : /\ k \in Keys /\ Row(k, res[k]).account = k[1] /\ Row(k, res[k]).id = k[2]
                         /\ Row(k, res[k]).state = res[k].state
                         /\ Row(k, res[k]).amount = res[k].amount
                         /\ Row(k, res[k]).created = res[k].created
                         /\ D!StateNow(Row(k, res[k])) = R!StateNow(k)
  BY RowReads, SameNames DEF Present
<1>7. R!KeysOf(sa) = { k \in Keys : k[1] = sa } /\ R!NoHash = NoHash
  BY SameNames DEF KeysOf
<1> DEFINE kept == { k \in Present : k[1] = sa /\ k \notin Old(sa) }
<1>8. { j \in R!KeysOf(sa) \ (R!StaleCommits(sa) \cup R!StaleRecords(sa)) : res[j] # R!NoHash } = kept
  BY <1>7, KeptRows DEF Old, Present
<1>9. { x \in reservations \ D!GoneRows(sa) : x.account = sa } = { Row(k, res[k]) : k \in kept }
  <2>1. D!GoneRows(sa) = { Row(k, res[k]) : k \in Old(sa) } /\ Old(sa) \subseteq Present
    BY KeptRows
  <2>2. \A j, k \in Present : Row(j, res[j]) = Row(k, res[k]) => j = k
    BY <1>6, KeysTyped
  <2> QED BY <1>5, <1>6, <2>1, <2>2
<1>10. { <<k[2], R!StateNow(k), res[k].amount, res[k].created>> : k \in kept }
         = { <<r.id, D!StateNow(r), r.amount, r.created>> : r \in { Row(k, res[k]) : k \in kept } }
  BY <1>6
<1>11. R!BudgetState(sa) = D!BudgetState(sa)
  <2> HIDE DEF kept
  <2> QED BY <1>1, <1>3, <1>4, <1>8, <1>9, <1>10 DEF R!BudgetState, D!BudgetState
<1>12. R!ListExposed(sa) = D!ListExposed(sa)
  <2> DEFINE owing == { k \in Present : k[1] = sa /\ res[k].state = "exposed" }
  <2>1. { j \in R!KeysOf(sa) : j[2] \in resIdx[sa] /\ res[j].state = "exposed" } = owing
    <3>1. \A k \in Keys : k[2] \in resIdx[k[1]] <=> res[k] # NoHash
      BY DEF Agreeing
    <3> QED BY <1>7, <3>1 DEF Present
  <2>2. { x \in reservations : x.account = sa /\ x.state = "exposed" }
          = { Row(k, res[k]) : k \in owing }
    BY <1>5, <1>6
  <2>3. { k[2] : k \in owing } = { r.id : r \in { Row(k, res[k]) : k \in owing } }
    BY <1>6
  <2> HIDE DEF owing
  <2> QED BY <2>1, <2>2, <2>3 DEF R!ListExposed, D!ListExposed
<1>13. \A cred : R!GetBudgetLimits(sa, cred) = D!GetBudgetLimits(sa, cred)
  BY <1>1, AnswerNames DEF R!GetBudgetLimits, D!GetBudgetLimits
<1> QED BY <1>11, <1>12, <1>13

\* Coupled stores cannot be told apart by any call.
LEMMA CoupledAnswer ==
  ASSUME LedgerInv, LimitsTyped, Coupled
  PROVE  SameAnswers
<1>1. \A in \in CallerInputs : R!ReserveAnswer(in) = D!ReserveAnswer(in)
  BY SameReserveAnswer, InputAssumption
<1>2. ASSUME NEW scope \in Scopes
      PROVE  /\ R!FrozenFor(scope) = D!IsFrozen(scope)
             /\ R!GetRecipientPolicy(scope) = D!GetRecipientPolicy(scope)
             /\ \A network \in Networks :
                    R!GetRecipientPins(scope, network) = D!GetRecipientPins(scope, network)
  <2>1. R!FrozenFor(scope) = D!IsFrozen(scope)
    BY FrozenAre, DurableNames DEF Coupled, D!IsFrozen, R!FrozenFor
  <2>2. R!GetRecipientPolicy(scope) = D!GetRecipientPolicy(scope)
    <3>1. /\ D!FlagsOf(scope).tofuEnabled = (scope \in tofu)
          /\ D!FlagsOf(scope).assertionRequired = (scope \in required)
      BY FlagsAre DEF Coupled
    <3> QED BY <3>1 DEF R!GetRecipientPolicy, D!GetRecipientPolicy
  <2>3. ASSUME NEW network \in Networks
        PROVE  R!GetRecipientPins(scope, network) = D!GetRecipientPins(scope, network)
    <3> DEFINE p == pins[<<scope, network>>]
               rows == { x \in pinRows : x.scope = scope /\ x.network = network }
    <3>1. rows = IF p = NoPin THEN {} ELSE {PinRow(<<scope, network>>, p)}
      BY PinsAre DEF Coupled
    <3>2. PinRow(<<scope, network>>, p).recipients = p.recipients /\ NoPin.recipients = {}
      BY DEF PinRow, NoPin
    <3>3. UNION { x.recipients : x \in rows } = p.recipients
      <4> HIDE DEF p, rows
      <4>1. CASE p = NoPin
        BY <3>1, <3>2, <4>1
      <4>2. CASE p # NoPin
        BY <3>1, <3>2, <4>2
      <4> QED BY <4>1, <4>2
    <3> QED BY <3>3 DEF R!GetRecipientPins, D!GetRecipientPins
  <2> QED BY <2>1, <2>2, <2>3
<1> QED BY <1>1, <1>2, SameRefAnswers, SameReads DEF SameAnswers

-------------------------------------------------------------------------------
(* A call made to both keeps them coupled.                                 *)

LEMMA RowsMove ==
  ASSUME RowsMatch, NEW S \in SUBSET Keys,
         \A k \in Keys : k \notin S => res'[k] = res[k],
         reservations' = { r \in reservations : <<r.account, r.id>> \notin S }
                           \cup { Row(k, res'[k]) : k \in { j \in S : res'[j] # NoHash } }
  PROVE  RowsMatch'
<1>1. \A k \in Keys : \A h : Row(k, h).account = k[1] /\ Row(k, h).id = k[2] /\ k = <<k[1], k[2]>>
  BY KeysTyped DEF Row
<1>2. { r \in reservations : <<r.account, r.id>> \notin S }
        = { Row(k, res'[k]) : k \in { j \in Keys : j \notin S /\ res'[j] # NoHash } }
  BY <1>1 DEF RowsMatch, Present
<1>3. reservations' = { Row(k, res'[k]) : k \in { j \in Keys : res'[j] # NoHash } }
  BY <1>2
<1> QED BY <1>3 DEF RowsMatch, Present

LEMMA EntriesMove ==
  ASSUME EntriesMatch, NEW S \in SUBSET Keys,
         \A k \in Entered : k \notin S => res'[k].fingerprint = res[k].fingerprint,
         \A k \in Keys : k \notin S => cmt'[k] = cmt[k],
         committed' = { c \in committed : <<c.account, c.id>> \notin S }
                        \cup { EntryRow(k, res'[k], cmt'[k]) : k \in { j \in S : cmt'[j] # NoEntry } }
  PROVE  EntriesMatch'
<1>1. \A k \in Keys : \A h, e : /\ EntryRow(k, h, e).account = k[1] /\ EntryRow(k, h, e).id = k[2]
                                /\ k = <<k[1], k[2]>>
  BY KeysTyped DEF EntryRow
<1>2. \A k \in Entered : k \notin S => EntryRow(k, res[k], cmt[k]) = EntryRow(k, res'[k], cmt'[k])
  BY DEF EntryRow, Entered
<1>3. { c \in committed : <<c.account, c.id>> \notin S }
        = { EntryRow(k, res'[k], cmt'[k]) : k \in { j \in Keys : j \notin S /\ cmt'[j] # NoEntry } }
  <2>1. { c \in committed : <<c.account, c.id>> \notin S }
          = { EntryRow(k, res[k], cmt[k]) : k \in { j \in Entered : j \notin S } }
    BY <1>1 DEF EntriesMatch, Entered
  <2>2. { j \in Entered : j \notin S } = { j \in Keys : j \notin S /\ cmt'[j] # NoEntry }
    BY DEF Entered
  <2> QED BY <1>2, <2>1, <2>2
<1>4. committed' = { EntryRow(k, res'[k], cmt'[k]) : k \in { j \in Keys : cmt'[j] # NoEntry } }
  BY <1>3
<1> QED BY <1>4 DEF EntriesMatch, Entered

\* What no call of the entries' keys touches.
LEMMA EntriesStay ==
  ASSUME EntriesMatch, UNCHANGED <<cmt, committed>>,
         \A k \in Entered : res'[k].fingerprint = res[k].fingerprint
  PROVE  EntriesMatch'
<1>1. \A k \in Entered : EntryRow(k, res[k], cmt[k]) = EntryRow(k, res'[k], cmt'[k])
  BY DEF EntryRow
<1>2. Entered' = Entered
  BY DEF Entered
<1> QED BY <1>1, <1>2 DEF EntriesMatch

LEMMA CountersMove ==
  ASSUME CountersMatch, NEW sa \in Accounts, NEW spend, NEW owe, D!AddToCounters(sa, spend, owe),
         total'[sa] = total[sa] + spend, exposed'[sa] = exposed[sa] + owe,
         \A x \in Accounts : x # sa => total'[x] = total[x] /\ exposed'[x] = exposed[x]
  PROVE  CountersMatch'
<1>1. D!Counters(sa).total = total[sa] /\ D!Counters(sa).exposed = exposed[sa]
  BY CountersAre
<1>2. counters' = { c \in counters : c.account # sa }
                    \cup {[account |-> sa, total |-> total'[sa], exposed |-> exposed'[sa]]}
  BY <1>1 DEF D!AddToCounters
<1> DEFINE row == [account |-> sa, total |-> total'[sa], exposed |-> exposed'[sa]]
<1>3. row.account = sa /\ row.total = total'[sa] /\ row.exposed = exposed'[sa]
  OBVIOUS
<1>4. counters' = { c \in counters : c.account # sa } \cup {row}
  BY <1>2
<1> HIDE DEF row
<1>5. ASSUME NEW c \in counters'
      PROVE  /\ c.account \in Accounts
             /\ c.total = total'[c.account] /\ c.exposed = exposed'[c.account]
  BY <1>3, <1>4, <1>5 DEF CountersMatch
<1>6. ASSUME NEW x \in Accounts
      PROVE  \/ \E c \in counters' : c.account = x
             \/ total'[x] = 0 /\ exposed'[x] = 0
  <2>1. CASE x = sa
    BY <1>3, <1>4, <2>1
  <2>2. CASE x # sa
    <3>1. total'[x] = total[x] /\ exposed'[x] = exposed[x]
      BY <2>2
    <3> QED BY <1>4, <2>2, <3>1 DEF CountersMatch
  <2> QED BY <2>1, <2>2
<1> QED BY <1>5, <1>6 DEF CountersMatch

\* UPDATE of the rows of some keys replaces what their records are.
LEMMA RowsLeft ==
  ASSUME RowsMatch, NEW S \in SUBSET Keys
  PROVE  reservations \ { Row(k, res[k]) : k \in { j \in S : res[j] # NoHash } }
           = { r \in reservations : <<r.account, r.id>> \notin S }
BY KeysTyped DEF RowsMatch, Present, Row

LEMMA RowsSwept ==
  ASSUME LedgerTyped, NEW S \in SUBSET Present
  PROVE  D!Update({ Row(k, res[k]) : k \in S }, D!Swept)
           = (reservations \ { Row(k, res[k]) : k \in S }) \cup { Row(k, Refreshed(k)) : k \in S }
<1>1. \A k \in S : D!Swept(Row(k, res[k])) = Row(k, Refreshed(k))
  BY RowReads DEF Present
<1> QED BY <1>1 DEF D!Update

LEMMA RowMoved ==
  ASSUME LedgerTyped, NEW k \in Keys, NEW s
  PROVE  D!Moved(Row(k, res[k]), s)
           = (reservations \ {Row(k, res[k])}) \cup {Row(k, [res[k] EXCEPT !.state = s])}
<1>1. [Row(k, res[k]) EXCEPT !.state = s] = Row(k, [res[k] EXCEPT !.state = s])
  BY RowReads
<1> QED BY <1>1 DEF D!Moved, D!Update

\* One record moves to a state that is not "absent".
LEMMA RecordMoves ==
  ASSUME LedgerTyped, RowsMatch, NEW k \in Present, NEW s \in States \ {"absent"},
         res' = [res EXCEPT ![k].state = s],
         reservations' = D!Moved(Row(k, res[k]), s)
  PROVE  RowsMatch' /\ \A j \in Keys : res'[j].fingerprint = res[j].fingerprint
<1>1. k \in Keys /\ res[k] # NoHash /\ res[k] \in Hash
  BY Typing DEF Present
<1>2. /\ res'[k] = [res[k] EXCEPT !.state = s]
      /\ \A j \in Keys : j # k => res'[j] = res[j]
  BY <1>1 DEF LedgerTyped
<1>3. res'[k].state = s /\ res'[k].fingerprint = res[k].fingerprint /\ res'[k] # NoHash
  BY <1>1, <1>2 DEF Hash, NoHash
<1>4. reservations' = (reservations \ {Row(k, res[k])}) \cup {Row(k, res'[k])}
  BY <1>1, <1>2, RowMoved
<1>5. reservations \ {Row(k, res[k])} = { r \in reservations : <<r.account, r.id>> \notin {k} }
  <2>1. { Row(j, res[j]) : j \in { i \in {k} : res[i] # NoHash } } = {Row(k, res[k])}
    BY <1>1
  <2> QED BY <1>1, <2>1, RowsLeft
<1>6. { Row(j, res'[j]) : j \in { i \in {k} : res'[i] # NoHash } } = {Row(k, res'[k])}
  BY <1>3
<1>7. RowsMatch'
  <2>1. {k} \in SUBSET Keys /\ \A j \in Keys : j \notin {k} => res'[j] = res[j]
    BY <1>1, <1>2
  <2>2. reservations' = { r \in reservations : <<r.account, r.id>> \notin {k} }
           \cup { Row(j, res'[j]) : j \in { i \in {k} : res'[i] # NoHash } }
    BY <1>4, <1>5, <1>6
  <2> QED BY <2>1, <2>2, RowsMove
<1> QED BY <1>2, <1>3, <1>7

LEMMA SettleCoupled ==
  ASSUME LedgerInv, Coupled, NEW k \in Present, res[k].state \in {"reserved", "exposed"},
         NEW outcome \in Outcomes, D!SettleRow(Row(k, res[k]), outcome),
         IF outcome = "committed" THEN R!SettleCommitted(k) ELSE R!SettleReleased(k)
  PROVE  RowsMatch' /\ EntriesMatch' /\ CountersMatch'
<1> USE DEF LedgerInv, Coupled
<1> DEFINE row == Row(k, res[k])
           held == IF res[k].state = "exposed" THEN - res[k].amount ELSE 0
<1>1. /\ k \in Keys /\ k[1] \in Accounts /\ k[2] \in Ids /\ k = <<k[1], k[2]>>
      /\ res[k] \in Hash /\ res[k].amount \in Nat
      /\ outcome \in {"committed", "released"}
  BY KeysTyped, Typing DEF Present, Outcomes
<1>2. /\ row.account = k[1] /\ row.id = k[2] /\ row.amount = res[k].amount
      /\ row.fingerprint = res[k].fingerprint /\ row.state = res[k].state
      /\ D!HeldExposed(row) = IF res[k].state = "exposed" THEN res[k].amount ELSE 0
  BY <1>1, RowReads
<1> HIDE DEF row
<1>3. reservations' = D!Moved(row, outcome) /\ res' = [res EXCEPT ![k].state = outcome]
  BY <1>1 DEF D!SettleRow, R!SettleCommitted, R!SettleReleased, R!MoveTo, row
<1>4. RowsMatch' /\ \A j \in Keys : res'[j].fingerprint = res[j].fingerprint
  BY <1>1, <1>3, RecordMoves DEF States, row
<1>5. exposed' = [exposed EXCEPT ![k[1]] = @ + held]
  BY <1>1 DEF R!SettleCommitted, R!SettleReleased, R!AddExposed
<1>6. /\ exposed'[k[1]] = exposed[k[1]] + held
      /\ \A x \in Accounts : x # k[1] => exposed'[x] = exposed[x]
      /\ exposed[k[1]] \in Int /\ total[k[1]] \in Nat
  BY <1>1, <1>5 DEF LedgerTyped
<1>7. CASE outcome = "committed"
  <2>1. /\ cmt' = [cmt EXCEPT ![k] = [amount |-> res[k].amount, at |-> now]]
        /\ total' = [total EXCEPT ![k[1]] = @ + res[k].amount]
    BY <1>7 DEF R!SettleCommitted
  <2>2. /\ committed' = committed \cup {[account |-> k[1], id |-> k[2],
                                         fingerprint |-> res[k].fingerprint,
                                         amount |-> res[k].amount, committed |-> now]}
        /\ D!AddToCounters(k[1], res[k].amount, - D!HeldExposed(row))
    BY <1>2, <1>7 DEF D!SettleRow, D!InsertEntry, row
  <2>3. EntriesMatch'
    <3>1. cmt[k] = NoEntry
      BY <1>1 DEF Agreeing
    <3>2. /\ cmt'[k] = [amount |-> res[k].amount, at |-> now]
          /\ \A j \in Keys : j # k => cmt'[j] = cmt[j]
      BY <1>1, <2>1 DEF LedgerTyped
    <3>3. cmt'[k] # NoEntry
      <4>1. res[k].amount # 0
        BY <1>1 DEF Dated, Present
      <4> QED BY <3>2, <4>1 DEF NoEntry
    <3>4. EntryRow(k, res'[k], cmt'[k]) = [account |-> k[1], id |-> k[2],
                                           fingerprint |-> res[k].fingerprint,
                                           amount |-> res[k].amount, committed |-> now]
      BY <1>1, <1>4, <3>2 DEF EntryRow
    <3>5. { c \in committed : <<c.account, c.id>> \notin {k} } = committed
      <4>1. \A j \in Entered : \A h, e : <<EntryRow(j, h, e).account, EntryRow(j, h, e).id>> = j
        BY KeysTyped DEF EntryRow, Entered
      <4> QED BY <3>1, <4>1 DEF EntriesMatch, Entered
    <3>6. { EntryRow(j, res'[j], cmt'[j]) : j \in { i \in {k} : cmt'[i] # NoEntry } }
            = {EntryRow(k, res'[k], cmt'[k])}
      BY <3>3
    <3>7. committed' = { c \in committed : <<c.account, c.id>> \notin {k} }
             \cup { EntryRow(j, res'[j], cmt'[j]) : j \in { i \in {k} : cmt'[i] # NoEntry } }
      BY <2>2, <3>4, <3>5, <3>6
    <3>8. \A j \in Entered : j \in Keys
      BY DEF Entered
    <3>9. /\ \A j \in Entered : j \notin {k} => res'[j].fingerprint = res[j].fingerprint
          /\ \A j \in Keys : j \notin {k} => cmt'[j] = cmt[j]
          /\ {k} \in SUBSET Keys
      BY <1>1, <1>4, <3>2, <3>8
    <3> QED BY <3>7, <3>9, EntriesMove
  <2>4. CountersMatch'
    <3>1. /\ total'[k[1]] = total[k[1]] + res[k].amount
          /\ \A x \in Accounts : x # k[1] => total'[x] = total[x]
      BY <1>1, <2>1 DEF LedgerTyped
    <3>2. exposed'[k[1]] = exposed[k[1]] + (- D!HeldExposed(row))
      BY <1>1, <1>2, <1>6
    <3> QED BY <1>1, <1>6, <2>2, <3>1, <3>2, CountersMove
  <2> QED BY <1>4, <2>3, <2>4
<1>8. CASE outcome = "released"
  <2>1. UNCHANGED <<cmt, total>>
    BY <1>8 DEF R!SettleReleased
  <2>2. UNCHANGED committed
    BY <1>8 DEF D!SettleRow
  <2>3. EntriesMatch'
    <3>1. \A j \in Entered : j \in Keys
      BY DEF Entered
    <3> QED BY <1>4, <2>1, <2>2, <3>1, EntriesStay
  <2>4. CountersMatch'
    <3>1. CASE res[k].state = "exposed"
      <4>1. D!AddToCounters(k[1], 0, - res[k].amount)
        BY <1>2, <1>8, <3>1 DEF D!SettleRow, row
      <4> QED BY <1>1, <1>6, <2>1, <3>1, <4>1, CountersMove
    <3>2. CASE res[k].state # "exposed"
      <4>1. UNCHANGED counters
        BY <1>2, <1>8, <3>2 DEF D!SettleRow, row
      <4>2. \A x \in Accounts : exposed'[x] = exposed[x]
        BY <1>6, <3>2
      <4> QED BY <2>1, <4>1, <4>2 DEF CountersMatch
    <3> QED BY <3>1, <3>2
  <2> QED BY <1>4, <2>3, <2>4
<1> QED BY <1>1, <1>7, <1>8

\* Some records, the same in both, are written back with the expiry they have.
LEMMA SweepCoupled ==
  ASSUME LedgerTyped, Dated, RowsMatch, NEW S \in SUBSET Present,
         res' = [k \in Keys |-> IF k \in S THEN Refreshed(k) ELSE res[k]],
         reservations' = D!Update({ Row(k, res[k]) : k \in S }, D!Swept)
  PROVE  RowsMatch' /\ \A k \in Keys : res'[k].fingerprint = res[k].fingerprint
<1>1. S \in SUBSET Keys /\ \A k \in S : res[k] # NoHash
  BY DEF Present
<1>2. \A k \in Keys : /\ k \notin S => res'[k] = res[k]
                      /\ k \in S => res'[k] = Refreshed(k)
  OBVIOUS
<1>3. \A k \in Keys : Refreshed(k).fingerprint = res[k].fingerprint
  BY Typing DEF Refreshed, Hash
<1>4. \A k \in S : Refreshed(k) # NoHash
  <2>1. \A k \in S : res[k].amount > 0 /\ Refreshed(k).amount = res[k].amount
    BY <1>1, Typing DEF Dated, Refreshed, Hash
  <2> QED BY <2>1 DEF NoHash
<1>5. reservations' = { r \in reservations : <<r.account, r.id>> \notin S }
                        \cup { Row(k, res'[k]) : k \in { j \in S : res'[j] # NoHash } }
  <2>1. reservations' = (reservations \ { Row(k, res[k]) : k \in S })
                           \cup { Row(k, Refreshed(k)) : k \in S }
    BY RowsSwept
  <2>2. { Row(k, res[k]) : k \in S } = { Row(k, res[k]) : k \in { j \in S : res[j] # NoHash } }
    BY <1>1
  <2>3. { Row(k, Refreshed(k)) : k \in S } = { Row(k, res'[k]) : k \in { j \in S : res'[j] # NoHash } }
    BY <1>1, <1>2, <1>4
  <2>4. reservations \ { Row(k, res[k]) : k \in { j \in S : res[j] # NoHash } }
          = { r \in reservations : <<r.account, r.id>> \notin S }
    BY <1>1, RowsLeft
  <2> QED BY <2>1, <2>2, <2>3, <2>4
<1>6. RowsMatch'
  BY <1>1, <1>2, <1>5, RowsMove
<1> QED BY <1>1, <1>2, <1>3, <1>6

LEMMA SweepOne ==
  ASSUME LedgerInv, Coupled, NEW k \in Present, R!ExpireOnly(k), D!SweepRow(Row(k, res[k]))
  PROVE  RowsMatch' /\ EntriesMatch' /\ CountersMatch'
<1> USE DEF LedgerInv, Coupled
<1>1. /\ res' = [j \in Keys |-> IF j \in {k} THEN Refreshed(j) ELSE res[j]]
      /\ UNCHANGED <<cmt, total, exposed>>
  BY ExpireIs DEF R!ExpireOnly, R!counters
<1>2. /\ reservations' = D!Update({Row(k, res[k])}, D!Swept)
      /\ UNCHANGED <<committed, counters>>
  BY DEF D!SweepRow
<1>3. {Row(k, res[k])} = { Row(j, res[j]) : j \in {k} }
  OBVIOUS
<1>4. RowsMatch' /\ \A j \in Keys : res'[j].fingerprint = res[j].fingerprint
  BY <1>1, <1>2, <1>3, SweepCoupled
<1>5. EntriesMatch'
  BY <1>1, <1>2, <1>4, EntriesStay DEF Entered
<1>6. CountersMatch'
  BY <1>1, <1>2 DEF CountersMatch
<1> QED BY <1>4, <1>5, <1>6

LedgerStays == UNCHANGED <<res, cmt, total, exposed, reservations, committed, counters>>
PolicyStays == UNCHANGED <<limits, frozen, pins, required, tofu, atomicGlobalFreeze,
                           limitRows, frozenRows, pinRows, recipientPolicy>>

LEMMA StaysCoupled ==
  /\ LedgerStays /\ Coupled => RowsMatch' /\ EntriesMatch' /\ CountersMatch'
  /\ PolicyStays /\ Coupled => LimitsMatch' /\ FrozenMatch' /\ PinsMatch' /\ FlagsMatch'
<1>1. ASSUME LedgerStays, Coupled
      PROVE  RowsMatch' /\ EntriesMatch' /\ CountersMatch'
  BY <1>1 DEF LedgerStays, Coupled, RowsMatch, EntriesMatch, CountersMatch, Present, Entered
<1>2. ASSUME PolicyStays, Coupled
      PROVE  LimitsMatch' /\ FrozenMatch' /\ PinsMatch' /\ FlagsMatch'
  <2>1. LimitsMatch'
    BY <1>2 DEF PolicyStays, Coupled, LimitsMatch
  <2>2. FrozenMatch'
    BY <1>2 DEF PolicyStays, Coupled, FrozenMatch, D!FrozenRow, D!Locate
  <2>3. PinsMatch'
    BY <1>2 DEF PolicyStays, Coupled, PinsMatch
  <2>4. FlagsMatch'
    BY <1>2 DEF PolicyStays, Coupled, FlagsMatch
  <2> QED BY <2>1, <2>2, <2>3, <2>4
<1> QED BY <1>1, <1>2

LEMMA ExposeCoupled ==
  ASSUME LedgerInv, Coupled, NEW k \in Present,
         R!MoveTo(k, "exposed"), R!AddExposed(k, res[k].amount), UNCHANGED <<cmt, total>>,
         reservations' = D!Moved(Row(k, res[k]), "exposed"),
         D!AddToCounters(k[1], 0, res[k].amount), UNCHANGED committed
  PROVE  RowsMatch' /\ EntriesMatch' /\ CountersMatch'
<1> USE DEF LedgerInv, Coupled
<1>1. k \in Keys /\ k[1] \in Accounts /\ res[k].amount \in Nat
  BY KeysTyped, Typing DEF Present
<1>2. RowsMatch' /\ \A j \in Keys : res'[j].fingerprint = res[j].fingerprint
  BY RecordMoves DEF R!MoveTo, States
<1>3. EntriesMatch'
  BY <1>2, EntriesStay DEF Entered
<1>4. /\ exposed'[k[1]] = exposed[k[1]] + res[k].amount
      /\ \A x \in Accounts : x # k[1] => exposed'[x] = exposed[x]
      /\ total'[k[1]] = total[k[1]] + 0
  BY <1>1 DEF R!AddExposed, LedgerTyped
<1>5. CountersMatch'
  BY <1>1, <1>4, CountersMove
<1> QED BY <1>2, <1>3, <1>5

\* The calls on one record.
LEMMA RefCoupled ==
  ASSUME LedgerInv, Coupled, NEW ref \in Refs, NEW outcome \in Outcomes, NEW cred,
         \/ R!Commit(ref) /\ D!Commit(ref)
         \/ R!Release(ref) /\ D!Release(ref)
         \/ R!Expose(ref) /\ D!Expose(ref)
         \/ R!ResolveExposed(ref, outcome, cred) /\ D!ResolveExposed(ref, outcome, cred)
  PROVE  RowsMatch' /\ EntriesMatch' /\ CountersMatch' /\ PolicyStays
<1> DEFINE k == Key(ref)
           row == Row(k, res[k])
<1>1. /\ k \in Keys /\ R!Key(ref) = k /\ ~R!Aliased(ref) /\ R!StateNow(k) = State(k)
      /\ R!NoHash = NoHash /\ R!NoEntry = NoEntry /\ k[1] \in Accounts
  BY KeysTyped, SameNames
<1>2. /\ D!RowOf(ref) = IF res[k] = NoHash THEN {} ELSE {row}
      /\ D!EntryOf(ref) = {} <=> cmt[k] = NoEntry
  BY <1>1, RowOfIs, EntryOfIs DEF Coupled
<1>3. /\ D!StateNow(row) = State(k) /\ row.state = res[k].state
      /\ D!Live(row) <=> State(k) \in HeldNow
      /\ row.account = k[1] /\ row.amount = res[k].amount
  BY <1>1, RowReads DEF LedgerInv
<1>4. /\ R!Holds(k) <=> State(k) \in HeldNow
      /\ State(k) \in HeldNow => res[k].state \in {"reserved", "exposed"} /\ res[k] # NoHash
      /\ res[k] # NoHash <=> k \in Present
      /\ cmt[k] # NoEntry => res[k] # NoHash
  BY <1>1 DEF R!Holds, HeldNow, State, NoHash, Present, LedgerInv, Agreeing
<1> HIDE DEF k, row
<1>5. ASSUME UNCHANGED R!vars, UNCHANGED D!vars
      PROVE  RowsMatch' /\ EntriesMatch' /\ CountersMatch' /\ PolicyStays
  <2>1. LedgerStays /\ PolicyStays
    BY <1>5 DEF R!vars, R!env, R!records, R!counters, R!policy, D!vars, D!env, D!ledger,
                D!policy, LedgerStays, PolicyStays
  <2> QED BY <2>1, StaysCoupled
<1>6. ASSUME k \in Present, R!ExpireOnly(k), D!SweepRow(row)
      PROVE  RowsMatch' /\ EntriesMatch' /\ CountersMatch' /\ PolicyStays
  <2>1. PolicyStays
    BY <1>6 DEF R!ExpireOnly, D!SweepRow, R!env, R!policy, D!env, D!policy, PolicyStays
  <2> QED BY <1>6, <2>1, SweepOne DEF row
<1>7. ASSUME k \in Present, res[k].state \in {"reserved", "exposed"}, NEW o \in Outcomes,
             D!SettleRow(row, o), IF o = "committed" THEN R!SettleCommitted(k) ELSE R!SettleReleased(k)
      PROVE  RowsMatch' /\ EntriesMatch' /\ CountersMatch' /\ PolicyStays
  <2>1. PolicyStays
    BY <1>7 DEF R!SettleCommitted, R!SettleReleased, D!SettleRow, R!env, R!policy, D!env, D!policy,
                PolicyStays
  <2> QED BY <1>7, <2>1, SettleCoupled DEF row
<1>8. CASE R!Commit(ref) /\ D!Commit(ref)
  <2>1. CASE cmt[k] # NoEntry \/ res[k] = NoHash
    BY <1>1, <1>2, <1>4, <1>5, <1>8, <2>1 DEF R!Commit, D!Commit
  <2>2. CASE cmt[k] = NoEntry /\ res[k] # NoHash /\ State(k) \notin HeldNow
    BY <1>1, <1>2, <1>3, <1>4, <1>6, <1>8, <2>2 DEF R!Commit, D!Commit
  <2>3. CASE cmt[k] = NoEntry /\ res[k] # NoHash /\ State(k) \in HeldNow
    <3>1. R!SettleCommitted(k) /\ D!SettleRow(row, "committed")
      BY <1>1, <1>2, <1>3, <1>4, <1>8, <2>3 DEF R!Commit, D!Commit
    <3> QED BY <1>4, <1>7, <2>3, <3>1 DEF Outcomes
  <2> QED BY <2>1, <2>2, <2>3
<1>9. CASE R!Release(ref) /\ D!Release(ref)
  <2>1. CASE res[k] = NoHash
    BY <1>1, <1>2, <1>4, <1>5, <1>9, <2>1 DEF R!Release, D!Release
  <2>2. CASE res[k] # NoHash /\ State(k) \notin HeldNow
    BY <1>1, <1>2, <1>3, <1>4, <1>6, <1>9, <2>2 DEF R!Release, D!Release
  <2>3. CASE res[k] # NoHash /\ State(k) \in HeldNow
    <3>1. R!SettleReleased(k) /\ D!SettleRow(row, "released")
      BY <1>1, <1>2, <1>3, <1>4, <1>9, <2>3 DEF R!Release, D!Release
    <3> QED BY <1>4, <1>7, <2>3, <3>1 DEF Outcomes
  <2> QED BY <2>1, <2>2, <2>3
<1>10. CASE R!Expose(ref) /\ D!Expose(ref)
  <2>1. CASE res[k] = NoHash
    <3>1. State(k) # "reserved"
      BY <2>1 DEF State, NoHash
    <3> QED BY <1>1, <1>2, <1>5, <1>10, <2>1, <3>1 DEF R!Expose, D!Expose
  <2>2. CASE res[k] # NoHash /\ State(k) # "reserved"
    BY <1>1, <1>2, <1>3, <1>4, <1>6, <1>10, <2>2 DEF R!Expose, D!Expose
  <2>3. CASE res[k] # NoHash /\ State(k) = "reserved"
    <3>1. /\ R!MoveTo(k, "exposed") /\ R!AddExposed(k, res[k].amount)
          /\ UNCHANGED <<R!env, resIdx, cmt, cmtIdx, total, R!policy>>
      BY <1>1, <2>3, <1>10 DEF R!Expose
    <3>2. /\ reservations' = D!Moved(row, "exposed") /\ D!AddToCounters(row.account, 0, row.amount)
          /\ UNCHANGED <<D!env, committed, D!policy>>
      BY <1>2, <1>3, <2>3, <1>10 DEF D!Expose
    <3>3. PolicyStays
      BY <3>1, <3>2 DEF R!env, R!policy, D!env, D!policy, PolicyStays
    <3> QED BY <1>3, <1>4, <2>3, <3>1, <3>2, <3>3, ExposeCoupled DEF row
  <2> QED BY <2>1, <2>2, <2>3
<1>11. CASE R!ResolveExposed(ref, outcome, cred) /\ D!ResolveExposed(ref, outcome, cred)
  <2>0. R!ResolveAnswer(ref, cred) = D!ResolveAnswer(ref, cred) /\ R!Ok = D!Ok
    BY SameRefAnswers, AnswerNames
  <2>1. CASE R!ResolveAnswer(ref, cred) # R!Ok
    BY <1>5, <1>11, <2>0, <2>1 DEF R!ResolveExposed, D!ResolveExposed
  <2>2. CASE R!ResolveAnswer(ref, cred) = R!Ok
    <3>1. IF outcome = "committed" THEN R!SettleCommitted(k) ELSE R!SettleReleased(k)
      BY <1>1, <1>11, <2>2 DEF R!ResolveExposed, Outcomes
    <3>2. res[k] # NoHash /\ res[k].state = "exposed"
      BY <1>1, <2>2 DEF R!ResolveAnswer, R!IfAdmin, R!AdminDenied, R!NotFound, R!Lifecycle,
                        R!Refusal, R!Ok
    <3>3. D!SettleRow(row, outcome)
      BY <1>2, <1>11, <2>0, <2>2, <3>2 DEF D!ResolveExposed
    <3> QED BY <1>4, <1>7, <3>1, <3>2, <3>3
  <2> QED BY <2>1, <2>2
<1> QED BY <1>8, <1>9, <1>10, <1>11

LEMMA SnapshotCoupled ==
  ASSUME LedgerInv, Coupled, NEW sa \in Accounts, R!GetBudgetState(sa), D!GetBudgetState(sa)
  PROVE  RowsMatch' /\ EntriesMatch' /\ CountersMatch' /\ PolicyStays
<1> USE DEF LedgerInv, Coupled
<1> DEFINE mine == { k \in Keys : k[1] = sa }
           held == { k \in Present : k[1] = sa }
<1>1. Snapshots(sa) /\ PolicyStays
  BY SnapshotMoves DEF R!GetBudgetState, D!GetBudgetState, R!env, R!policy, D!env, D!policy,
                       PolicyStays
<1>2. /\ Old(sa) \in SUBSET Present /\ OldCommits(sa) \in SUBSET Entered
      /\ OldCommits(sa) \subseteq Old(sa) /\ KeysOf(sa) = mine
      /\ \A k \in Old(sa) : k[1] = sa
      /\ D!GoneRows(sa) = { Row(k, res[k]) : k \in Old(sa) }
      /\ D!StaleEntries(sa) = { EntryRow(k, res[k], cmt[k]) : k \in OldCommits(sa) }
  BY KeptRows DEF Old, KeysOf
<1>3. \A k \in Keys : /\ k \in Old(sa) => res'[k] = NoHash
                      /\ k \in held /\ k \notin Old(sa) => res'[k] = Refreshed(k)
                      /\ k \notin held /\ k \notin Old(sa) => res'[k] = res[k]
                      /\ res[k] # NoHash => Refreshed(k) # NoHash
                      /\ Refreshed(k).fingerprint = res[k].fingerprint
  <2>1. \A k \in Keys : /\ res[k] # NoHash => Refreshed(k) # NoHash
                        /\ Refreshed(k).fingerprint = res[k].fingerprint
    <3>1. \A k \in Keys : /\ Refreshed(k).fingerprint = res[k].fingerprint
                          /\ Refreshed(k).amount = res[k].amount
      BY Typing DEF Refreshed, Hash
    <3> QED BY <3>1 DEF Dated, NoHash
  <2>2. \A k \in Keys : res[k] = NoHash => Refreshed(k) = NoHash
    BY DEF Refreshed, State, NoHash
  <2> QED BY <1>1, <1>2, <2>1, <2>2 DEF Snapshots, Present
<1>4. RowsMatch'
  <2>1. { x \in reservations : x.account = sa } = { Row(k, res[k]) : k \in held }
    BY DEF RowsMatch, Row, Present
  <2>2. D!Update({ x \in reservations : x.account = sa }, D!Swept)
          = (reservations \ { Row(k, res[k]) : k \in held }) \cup { Row(k, Refreshed(k)) : k \in held }
    BY <2>1, RowsSwept DEF Present
  <2>3. \A k \in Keys : \A h : /\ Row(k, h).account = k[1] /\ Row(k, h).id = k[2]
                               /\ k = <<k[1], k[2]>>
    BY KeysTyped DEF Row
  <2>4. reservations \ { Row(k, res[k]) : k \in held }
          = { r \in reservations : <<r.account, r.id>> \notin mine }
    <3>1. { Row(k, res[k]) : k \in held } = { Row(k, res[k]) : k \in { j \in mine : res[j] # NoHash } }
      BY DEF Present
    <3> QED BY <3>1, RowsLeft
  <2>5. \A k \in Keys : \A h : (\E g \in D!GoneRows(sa) : g.account = Row(k, h).account
                                                         /\ g.id = Row(k, h).id)
                               <=> k \in Old(sa)
    BY <1>2, <2>3 DEF Present
  <2>6. { r \in { Row(k, Refreshed(k)) : k \in held } :
             ~\E g \in D!GoneRows(sa) : g.account = r.account /\ g.id = r.id }
          = { Row(k, res'[k]) : k \in { j \in mine : res'[j] # NoHash } }
    <3>1. { r \in { Row(k, Refreshed(k)) : k \in held } :
               ~\E g \in D!GoneRows(sa) : g.account = r.account /\ g.id = r.id }
            = { Row(k, Refreshed(k)) : k \in held \ Old(sa) }
      BY <2>5 DEF Present
    <3>2. { j \in mine : res'[j] # NoHash } = held \ Old(sa)
      BY <1>2, <1>3 DEF Present
    <3>3. \A k \in held \ Old(sa) : res'[k] = Refreshed(k)
      BY <1>3 DEF Present
    <3> HIDE DEF held, mine
    <3> QED BY <3>1, <3>2, <3>3
  <2>7. \A r \in { x \in reservations : <<x.account, x.id>> \notin mine } :
            ~\E g \in D!GoneRows(sa) : g.account = r.account /\ g.id = r.id
    <3>1. \A g \in D!GoneRows(sa) : <<g.account, g.id>> \in mine
      BY <1>2, <2>3 DEF Present
    <3> HIDE DEF mine
    <3> QED BY <3>1
  <2>8. reservations' = { r \in reservations : <<r.account, r.id>> \notin mine }
                          \cup { Row(k, res'[k]) : k \in { j \in mine : res'[j] # NoHash } }
    <3>1. reservations' = { r \in D!Update({ x \in reservations : x.account = sa }, D!Swept) :
                              ~\E g \in D!GoneRows(sa) : g.account = r.account /\ g.id = r.id }
      BY DEF D!GetBudgetState
    <3> HIDE DEF held, mine
    <3> QED BY <2>2, <2>4, <2>6, <2>7, <3>1
  <2>9. mine \in SUBSET Keys /\ \A k \in Keys : k \notin mine => res'[k] = res[k]
    BY <1>2, <1>3 DEF Present
  <2> HIDE DEF mine
  <2> QED BY <2>8, <2>9, RowsMove
<1>5. EntriesMatch'
  <2> DEFINE S == OldCommits(sa)
  <2>1. /\ cmt' = [k \in Keys |-> IF k \in S THEN NoEntry ELSE cmt[k]]
        /\ committed' = committed \ D!StaleEntries(sa)
    BY <1>1 DEF Snapshots, D!GetBudgetState
  <2>2. S \in SUBSET Keys
    BY <1>2 DEF Entered
  <2>3. \A k \in Entered : k \notin S => res'[k].fingerprint = res[k].fingerprint
    <3>1. ASSUME NEW k \in Entered, k \notin S
          PROVE  k \notin Old(sa)
      <4>1. k \in Keys /\ cmt[k] # NoEntry /\ res[k].state = "committed"
        BY <3>1 DEF Entered, Agreeing
      <4> QED BY <3>1, <4>1 DEF Old, OldRecords, State
    <3>2. ASSUME NEW k \in Entered, k \notin S
          PROVE  res'[k].fingerprint = res[k].fingerprint
      BY <1>3, <3>1, <3>2 DEF Entered
    <3> QED BY <3>2
  <2>4. \A k \in Keys : /\ k \notin S => cmt'[k] = cmt[k]
                        /\ k \in S => cmt'[k] = NoEntry
    BY <2>1
  <2>5. committed \ D!StaleEntries(sa) = { c \in committed : <<c.account, c.id>> \notin S }
    <3>1. \A k \in Keys : \A h, e : <<EntryRow(k, h, e).account, EntryRow(k, h, e).id>> = k
      BY KeysTyped DEF EntryRow
    <3> HIDE DEF S
    <3>2. \A k \in Entered : EntryRow(k, res[k], cmt[k]) \in D!StaleEntries(sa) <=> k \in S
      BY <1>2, <2>2, <3>1 DEF Entered, S
    <3> QED BY <2>2, <3>1, <3>2 DEF EntriesMatch, Entered
  <2>6. { EntryRow(k, res'[k], cmt'[k]) : k \in { j \in S : cmt'[j] # NoEntry } } = {}
    BY <2>2, <2>4
  <2> HIDE DEF S
  <2>7. committed' = { c \in committed : <<c.account, c.id>> \notin S }
                       \cup { EntryRow(k, res'[k], cmt'[k]) : k \in { j \in S : cmt'[j] # NoEntry } }
    BY <2>1, <2>5, <2>6
  <2> QED BY <2>2, <2>3, <2>4, <2>7, EntriesMove
<1>6. CountersMatch'
  BY DEF CountersMatch, R!GetBudgetState, D!GetBudgetState, R!counters
<1> QED BY <1>1, <1>4, <1>5, <1>6

\* One scope and network gets a new list, in both.
LEMMA PinsMove ==
  ASSUME PinsMatch, PinsTyped, NEW sn \in Scopes \X Networks, NEW p, p # NoPin,
         pins' = [pins EXCEPT ![sn] = p],
         pinRows' = { x \in pinRows : <<x.scope, x.network>> # sn } \cup {PinRow(sn, p)}
  PROVE  PinsMatch' /\ PinsTyped'
<1> DEFINE All == Scopes \X Networks
<1>1. /\ pins'[sn] = p /\ \A x \in All : x # sn => pins'[x] = pins[x]
      /\ pins' = [x \in All |-> pins'[x]]
  BY DEF PinsTyped
<1>2. \A x \in All : \A q : <<PinRow(x, q).scope, PinRow(x, q).network>> = x
  BY DEF PinRow
<1>3. { x \in pinRows : <<x.scope, x.network>> # sn }
        = { PinRow(x, pins[x]) : x \in { y \in All : pins[y] # NoPin /\ y # sn } }
  <2> HIDE DEF All
  <2>1. pinRows = { PinRow(x, pins[x]) : x \in { y \in All : pins[y] # NoPin } }
    BY DEF PinsMatch, All
  <2> QED BY <1>2, <2>1
<1> HIDE DEF All
<1>4. pinRows' = { PinRow(x, pins'[x]) : x \in { y \in All : pins'[y] # NoPin } }
  <2>1. { y \in All : pins'[y] # NoPin } = { y \in All : pins[y] # NoPin /\ y # sn } \cup {sn}
    BY <1>1 DEF All
  <2>2. \A y \in { z \in All : pins[z] # NoPin /\ z # sn } : PinRow(y, pins[y]) = PinRow(y, pins'[y])
    BY <1>1
  <2> QED BY <1>1, <1>3, <2>1, <2>2
<1>5. PinsMatch'
  BY <1>4 DEF PinsMatch, All
<1> QED BY <1>1, <1>5 DEF PinsTyped, All

LEMMA ClaimCoupled ==
  ASSUME Coupled, PinsTyped, NEW in \in ReserveInputs, pins' = R!ClaimedPins(in), D!Claim(in)
  PROVE  PinsMatch' /\ PinsTyped'
<1>1. D!ClaimsPin(in) <=> R!WantsClaim(in)
  BY SameRecipientAnswer
<1>2. CASE ~R!WantsClaim(in)
  BY <1>1, <1>2 DEF Coupled, PinsMatch, PinsTyped, R!ClaimedPins, D!Claim
<1>3. CASE R!WantsClaim(in)
  <2> DEFINE sn == <<in.policyScope, in.payee.network>>
             p == [recipients |-> {R!Presented(in)}, source |-> "tofu"]
  <2>1. in.payee # NoPayee /\ sn \in Scopes \X Networks
    BY <1>3, InputNames DEF R!WantsClaim
  <2>2. /\ R!Presented(in) = D!Presented(in) /\ D!PinsFor(in) = {}
    BY <1>1, <1>3, <2>1, SamePins DEF Coupled, D!ClaimsPin
  <2>3. p # NoPin
    BY DEF NoPin
  <2>4. pins' = [pins EXCEPT ![sn] = p]
    BY <1>3 DEF R!ClaimedPins
  <2>5. pinRows' = pinRows \cup {PinRow(sn, p)}
    BY <1>1, <1>3, <2>2 DEF D!Claim, PinRow
  <2>6. { x \in pinRows : <<x.scope, x.network>> # sn } = pinRows
    BY <2>2 DEF D!PinsFor
  <2>7. pinRows' = { x \in pinRows : <<x.scope, x.network>> # sn } \cup {PinRow(sn, p)}
    BY <2>5, <2>6
  <2> HIDE DEF sn, p
  <2> QED BY <2>1, <2>3, <2>4, <2>7, PinsMove DEF Coupled
<1> QED BY <1>2, <1>3

\* A record is written anew under a free key, and what the window counts swept.
LEMMA GrantCoupled ==
  ASSUME LedgerInv, Coupled, NEW in \in ReserveInputs, res[Key(in)] = NoHash,
         res' = [R!Expire(R!ResInRange(Account(in))) EXCEPT ![Key(in)] = R!NewHash(in)],
         reservations' = D!Update(D!Recent(Account(in)), D!Swept) \cup {D!Inserted(in)}
  PROVE  RowsMatch' /\ \A k \in Entered : res'[k].fingerprint = res[k].fingerprint
<1> USE DEF LedgerInv, Coupled
<1> DEFINE k == Key(in)
           S == R!ResInRange(Account(in))
<1>1. /\ k \in Keys /\ Account(in) \in Accounts /\ k = <<Account(in), in.reservationId>>
      /\ D!Account(in) = Account(in) /\ k[1] = Account(in) /\ k[2] = in.reservationId
  BY InputNames, DurableNames, KeysTyped DEF Key
<1>2. S \in SUBSET Present /\ D!Recent(Account(in)) = { Row(j, res[j]) : j \in S }
  BY <1>1, RecentRows
<1>3. /\ res' = [[j \in Keys |-> IF j \in S THEN Refreshed(j) ELSE res[j]] EXCEPT ![k] = R!NewHash(in)]
      /\ R!NewHash(in) = [state |-> "reserved", fingerprint |-> in.fingerprint,
                          amount |-> in.amount, created |-> now, expires |-> now + TTL]
  BY ExpireIs DEF R!NewHash
<1>4. D!Inserted(in) = Row(k, R!NewHash(in))
  BY <1>1, <1>3 DEF D!Inserted, Row
<1>5. k \notin S /\ S \subseteq Keys
  BY <1>2 DEF Present
<1> HIDE DEF k, S
<1>6. /\ res'[k] = R!NewHash(in)
      /\ \A j \in S : res'[j] = Refreshed(j)
      /\ \A j \in Keys : j # k /\ j \notin S => res'[j] = res[j]
  BY <1>1, <1>3, <1>5
<1>7. R!NewHash(in) # NoHash
  BY <1>3 DEF NoHash
<1>8. \A j \in Keys : /\ Refreshed(j).fingerprint = res[j].fingerprint
                      /\ res[j] # NoHash => Refreshed(j) # NoHash
  <2>1. \A j \in Keys : /\ Refreshed(j).fingerprint = res[j].fingerprint
                        /\ Refreshed(j).amount = res[j].amount
    BY Typing DEF Refreshed, Hash
  <2> QED BY <2>1 DEF Dated, NoHash
<1>9. reservations' = { r \in reservations : <<r.account, r.id>> \notin S \cup {k} }
         \cup { Row(j, res'[j]) : j \in { i \in S \cup {k} : res'[i] # NoHash } }
  <2>1. reservations' = ((reservations \ { Row(j, res[j]) : j \in S })
                           \cup { Row(j, Refreshed(j)) : j \in S }) \cup {Row(k, R!NewHash(in))}
    BY <1>2, <1>4, RowsSwept DEF k
  <2>2. { Row(j, res[j]) : j \in S } = { Row(j, res[j]) : j \in { i \in S \cup {k} : res[i] # NoHash } }
    <3>1. S = { i \in S \cup {k} : res[i] # NoHash }
      BY <1>2 DEF Present, k
    <3> QED BY <3>1
  <2>3. reservations \ { Row(j, res[j]) : j \in { i \in S \cup {k} : res[i] # NoHash } }
          = { r \in reservations : <<r.account, r.id>> \notin S \cup {k} }
    <3>1. S \cup {k} \in SUBSET Keys
      BY <1>1, <1>5
    <3> QED BY <3>1, RowsLeft
  <2>4. { Row(j, res'[j]) : j \in { i \in S \cup {k} : res'[i] # NoHash } }
          = { Row(j, Refreshed(j)) : j \in S } \cup {Row(k, R!NewHash(in))}
    <3>1. { i \in S \cup {k} : res'[i] # NoHash } = S \cup {k}
      BY <1>2, <1>6, <1>7, <1>8 DEF Present
    <3> QED BY <1>6, <3>1
  <2> QED BY <2>1, <2>2, <2>3, <2>4
<1>10. RowsMatch'
  <2>1. S \cup {k} \in SUBSET Keys /\ \A j \in Keys : j \notin S \cup {k} => res'[j] = res[j]
    BY <1>1, <1>5, <1>6
  <2> QED BY <1>9, <2>1, RowsMove
<1>11. k \notin Entered
  BY <1>1 DEF Entered, Agreeing, NoHash, k
<1> QED BY <1>6, <1>8, <1>10, <1>11 DEF Entered

LEMMA ReserveCoupled ==
  ASSUME LedgerInv, LimitsTyped, Coupled, PinsTyped, NEW in \in ReserveInputs,
         R!Reserve(in), D!Reserve(in)
  PROVE  Coupled' /\ PinsTyped'
<1> USE DEF LedgerInv
<1>1. /\ D!Considered(in) <=> R!PastRecipient(in)
      /\ D!BudgetAnswer(in) = IF R!CapsRefusal(in) # R!Ok THEN R!CapsRefusal(in)
                                                          ELSE R!BudgetRefusal(in)
      /\ Account(in) \in Accounts /\ R!Account(in) = Account(in) /\ D!Account(in) = Account(in)
      /\ R!Key(in) = Key(in) /\ Key(in) \in Keys /\ R!NoHash = NoHash
  BY SameReserveAnswer, SameBudgetAnswer, InputNames, SameNames
<1>2. CASE ~R!PastRecipient(in)
  <2>1. UNCHANGED D!vars
    BY <1>1, <1>2 DEF D!Reserve
  <2>2. UNCHANGED R!vars
    BY <1>2 DEF R!Reserve, R!ReserveRefused, R!ReserveMisconfigured, R!ReserveOverBudget,
                R!ReserveGranted
  <2>3. LedgerStays /\ PolicyStays
    BY <2>1, <2>2 DEF R!vars, R!env, R!records, R!counters, R!policy, D!vars, D!env, D!ledger,
                      D!policy, LedgerStays, PolicyStays
  <2> QED BY <2>3, StaysCoupled DEF Coupled, PinsTyped, PolicyStays
<1>3. CASE R!PastRecipient(in)
  <2>1. /\ D!Claim(in)
        /\ reservations' =
             CASE D!BudgetAnswer(in).kind = "config" -> reservations
               [] D!BudgetAnswer(in).kind = "budget" -> D!Update(D!Recent(Account(in)), D!Swept)
               [] OTHER -> D!Update(D!Recent(Account(in)), D!Swept) \cup {D!Inserted(in)}
        /\ UNCHANGED <<D!env, committed, counters, limitRows, frozenRows, recipientPolicy>>
    BY <1>1, <1>3 DEF D!Reserve
  <2>2. /\ pins' = R!ClaimedPins(in)
        /\ UNCHANGED <<R!env, cmt, cmtIdx, R!counters, frozen, limits, required, tofu>>
    BY <1>3 DEF R!Reserve, R!ReserveRefused, R!ReserveMisconfigured, R!ReserveOverBudget,
                R!ReserveGranted, R!records
  <2>3. PinsMatch' /\ PinsTyped'
    BY <2>1, <2>2, ClaimCoupled
  <2>4. LimitsMatch' /\ FrozenMatch' /\ FlagsMatch' /\ CountersMatch'
    <3>1. LimitsMatch' /\ CountersMatch'
      BY <2>1, <2>2 DEF Coupled, LimitsMatch, CountersMatch, R!counters
    <3>2. FrozenMatch'
      BY <2>1, <2>2 DEF Coupled, FrozenMatch, D!FrozenRow, D!Locate, R!env
    <3>3. FlagsMatch'
      BY <2>1, <2>2 DEF Coupled, FlagsMatch
    <3> QED BY <3>1, <3>2, <3>3
  <2>5. RowsMatch' /\ \A k \in Entered : res'[k].fingerprint = res[k].fingerprint
    <3>1. CASE R!CapsRefusal(in) # R!Ok
      <4>1. D!BudgetAnswer(in).kind = "config"
        BY <1>1, <3>1 DEF R!CapsRefusal, R!Refusal
      <4>2. reservations' = reservations
        BY <2>1, <4>1
      <4>3. res' = res
        BY <1>3, <3>1 DEF R!Reserve, R!ReserveRefused, R!ReserveMisconfigured,
                          R!ReserveOverBudget, R!ReserveGranted, R!records
      <4> QED BY <4>2, <4>3 DEF Coupled, RowsMatch, Present
    <3>2. CASE R!CapsRefusal(in) = R!Ok /\ R!BudgetRefusal(in) # R!Ok
      <4> DEFINE S == R!ResInRange(Account(in))
      <4>1. D!BudgetAnswer(in).kind = "budget"
        BY <1>1, <3>2 DEF R!BudgetRefusal, R!Refusal
      <4>2. reservations' = D!Update(D!Recent(Account(in)), D!Swept)
        BY <2>1, <4>1
      <4>3. res' = R!Expire(S)
        BY <1>1, <1>3, <3>2 DEF R!Reserve, R!ReserveRefused, R!ReserveMisconfigured,
                          R!ReserveOverBudget, R!ReserveGranted
      <4>4. S \in SUBSET Present /\ D!Recent(Account(in)) = { Row(k, res[k]) : k \in S }
        BY <1>1, RecentRows DEF Coupled
      <4> HIDE DEF S
      <4>5. res' = [k \in Keys |-> IF k \in S THEN Refreshed(k) ELSE res[k]]
        BY <4>3, ExpireIs
      <4> QED BY <4>2, <4>4, <4>5, SweepCoupled DEF Coupled, Entered
    <3>3. CASE R!CapsRefusal(in) = R!Ok /\ R!BudgetRefusal(in) = R!Ok
      <4>1. D!BudgetAnswer(in).kind = "ok"
        BY <1>1, <3>3 DEF R!Ok
      <4>2. reservations' = D!Update(D!Recent(Account(in)), D!Swept) \cup {D!Inserted(in)}
        BY <2>1, <4>1
      <4>3. res' = [R!Expire(R!ResInRange(Account(in))) EXCEPT ![Key(in)] = R!NewHash(in)]
        BY <1>1, <1>3, <3>3 DEF R!Reserve, R!ReserveRefused, R!ReserveMisconfigured,
                          R!ReserveOverBudget, R!ReserveGranted
      <4>4. res[Key(in)] = NoHash
        BY <1>1, <1>3 DEF R!PastRecipient, R!Known
      <4> QED BY <4>2, <4>3, <4>4, GrantCoupled
    <3> QED BY <3>1, <3>2, <3>3
  <2>6. EntriesMatch'
    BY <2>1, <2>2, <2>5, EntriesStay DEF Coupled
  <2> QED BY <2>3, <2>4, <2>5, <2>6 DEF Coupled
<1> QED BY <1>2, <1>3

LEMMA SpendCoupled ==
  ASSUME LedgerInv, LimitsTyped, Coupled, PinsTyped, NEW c \in SpendCalls, Spend(c)
  PROVE  Coupled' /\ PinsTyped'
<1>1. CASE c.op = "reserve"
  <2>1. c.arg \in CallerInputs /\ R!Reserve(c.arg) /\ D!Reserve(c.arg)
    BY <1>1 DEF SpendCalls, Spend
  <2> QED BY <2>1, ReserveCoupled, InputAssumption
<1>2. ASSUME RowsMatch' /\ EntriesMatch' /\ CountersMatch' /\ PolicyStays
      PROVE  Coupled' /\ PinsTyped'
  BY <1>2, StaysCoupled DEF Coupled, PinsTyped, PolicyStays
<1>3. CASE c.op \in {"commit", "release", "expose"}
  <2>1. /\ c.arg \in Refs
        /\ \/ R!Commit(c.arg) /\ D!Commit(c.arg)
           \/ R!Release(c.arg) /\ D!Release(c.arg)
           \/ R!Expose(c.arg) /\ D!Expose(c.arg)
    BY <1>3 DEF SpendCalls, Spend
  <2>2. "committed" \in Outcomes
    BY DEF Outcomes
  <2> QED BY <1>2, <2>1, <2>2, RefCoupled
<1>4. CASE c.op = "resolveExposed"
  <2>1. /\ c.arg[1] \in Refs /\ c.arg[2] \in Outcomes
        /\ R!ResolveExposed(c.arg[1], c.arg[2], c.arg[3])
        /\ D!ResolveExposed(c.arg[1], c.arg[2], c.arg[3])
    BY <1>4 DEF SpendCalls, Spend
  <2> QED BY <1>2, <2>1, RefCoupled
<1> QED BY <1>1, <1>3, <1>4 DEF SpendCalls

LEMMA FreezeCoupled ==
  ASSUME FrozenMatch, NEW scope, NEW cred,
         \/ R!Freeze(scope, cred) /\ D!Freeze(scope, cred)
         \/ R!Unfreeze(scope, cred) /\ D!Unfreeze(scope, cred)
  PROVE  FrozenMatch'
<1>1. UNCHANGED atomicGlobalFreeze
  BY DEF R!Freeze, R!Unfreeze, R!env
<1>2. \A s : D!FrozenRow(s)' = D!FrozenRow(s)
  BY <1>1 DEF D!FrozenRow, D!Locate
<1>3. \A s, t : D!FrozenRow(s) = D!FrozenRow(t) => s = t
  BY DEF D!FrozenRow
<1>4. /\ R!FreezeAnswer(scope, cred) = D!FreezeAnswer(scope, cred)
      /\ R!FreezeAnswer(scope, cred) = R!Ok =>
             cred = "admin" /\ (scope = AllScopes => atomicGlobalFreeze)
      /\ R!Ok = D!Ok
  <2>1. \A reason : Refusal("config", reason) # Ok
    BY DEF Refusal, Ok
  <2>2. AdminDenied # Ok
    BY <2>1 DEF AdminDenied
  <2> QED BY <2>1, <2>2, AnswerNames, DurableNames DEF R!FreezeAnswer, D!FreezeAnswer, R!IfAdmin,
              D!VerifyAdmin
<1>5. frozenRows' = { D!FrozenRow(s) : s \in frozen' } /\ (AllScopes \in frozen' => atomicGlobalFreeze)
  <2>1. CASE R!Freeze(scope, cred) /\ D!Freeze(scope, cred)
    BY <1>4, <2>1 DEF FrozenMatch, R!Freeze, D!Freeze
  <2>2. CASE R!Unfreeze(scope, cred) /\ D!Unfreeze(scope, cred)
    BY <1>3, <2>2 DEF FrozenMatch, R!Unfreeze, D!Unfreeze
  <2> QED BY <2>1, <2>2
<1> QED BY <1>1, <1>2, <1>5 DEF FrozenMatch

LEMMA LimitsCoupled ==
  ASSUME LimitsTyped, LimitsMatch, NEW scope \in Scopes, NEW assetId \in AssetIds,
         NEW l \in AdminLimits, NEW cred,
         R!SetBudgetLimits(scope, assetId, l, cred), D!SetBudgetLimits(scope, assetId, l, cred)
  PROVE  LimitsMatch'
<1> DEFINE sa == <<scope, CanonicalizeAsset(assetId)>>
<1>1. /\ sa \in Accounts /\ D!NoLimit = NoLimit
      /\ <<scope, R!CanonicalizeAsset(assetId)>> = sa
      /\ <<scope, D!CanonicalizeAsset(assetId)>> = sa
  BY DurableNames DEF Accounts, Assets
<1>2. CASE cred # "admin"
  BY <1>2 DEF R!SetBudgetLimits, D!SetBudgetLimits, LimitsMatch
<1>3. CASE cred = "admin"
  <2> HIDE DEF sa
  <2> DEFINE row == [account |-> sa, maxPerHour |-> l.maxPerHour, maxTotal |-> l.maxTotal]
  <2>1. limits' = [limits EXCEPT ![sa] = l]
    BY <1>1, <1>3 DEF R!SetBudgetLimits
  <2>2. limitRows' = { x \in limitRows : x.account # sa } \cup IF l = NoLimit THEN {} ELSE {row}
    BY <1>1, <1>3 DEF D!SetBudgetLimits
  <2>3. limits'[sa] = l /\ \A x \in Accounts : x # sa => limits'[x] = limits[x]
    BY <1>1, <2>1 DEF LimitsTyped
  <2>4. row.account = sa /\ row.maxPerHour = l.maxPerHour /\ row.maxTotal = l.maxTotal
    OBVIOUS
  <2> HIDE DEF row
  <2>5. ASSUME NEW x \in limitRows'
        PROVE  /\ x.account \in Accounts
               /\ x.maxPerHour = limits'[x.account].maxPerHour
               /\ x.maxTotal = limits'[x.account].maxTotal
    BY <1>1, <2>2, <2>3, <2>4, <2>5 DEF LimitsMatch
  <2>6. ASSUME NEW y \in Accounts
        PROVE  (\E x \in limitRows' : x.account = y) \/ limits'[y] = NoLimit
    <3>1. CASE y = sa
      BY <2>2, <2>3, <2>4, <3>1
    <3>2. CASE y # sa
      BY <2>2, <2>3, <3>2 DEF LimitsMatch
    <3> QED BY <3>1, <3>2
  <2> QED BY <2>5, <2>6 DEF LimitsMatch
<1> QED BY <1>2, <1>3

LEMMA ResetCoupled ==
  ASSUME LedgerInv, Coupled, NEW scope \in Scopes, NEW assetId \in AssetIds, NEW cred,
         R!ResetCumulative(scope, assetId, cred), D!ResetCumulative(scope, assetId, cred)
  PROVE  RowsMatch' /\ EntriesMatch' /\ CountersMatch' /\ PolicyStays
<1> USE DEF LedgerInv, Coupled
<1> DEFINE sa == <<scope, CanonicalizeAsset(assetId)>>
<1>1. /\ sa \in Accounts
      /\ <<scope, R!CanonicalizeAsset(assetId)>> = sa
      /\ <<scope, D!CanonicalizeAsset(assetId)>> = sa
  BY DurableNames DEF Accounts, Assets
<1>2. /\ UNCHANGED <<res, cmt, exposed, reservations, committed>> /\ PolicyStays
  BY DEF R!ResetCumulative, D!ResetCumulative, R!env, R!records, R!policy, D!env, D!policy,
         PolicyStays
<1>3. RowsMatch' /\ EntriesMatch'
  BY <1>2 DEF RowsMatch, EntriesMatch, Present, Entered
<1>4. CountersMatch'
  <2>1. CASE cred # "admin"
    BY <1>2, <2>1 DEF R!ResetCumulative, D!ResetCumulative, CountersMatch
  <2>2. CASE cred = "admin"
    <3> HIDE DEF sa
    <3>1. total' = [total EXCEPT ![sa] = 0]
      BY <1>1, <2>2 DEF R!ResetCumulative
    <3>2. D!AddToCounters(sa, - D!Counters(sa).total, 0)
      BY <1>1, <2>2 DEF D!ResetCumulative
    <3>3. D!Counters(sa).total = total[sa]
      BY <1>1, CountersAre
    <3>4. /\ total'[sa] = total[sa] + (- total[sa])
          /\ \A x \in Accounts : x # sa => total'[x] = total[x]
          /\ exposed'[sa] = exposed[sa] + 0
      BY <1>1, <1>2, <3>1 DEF LedgerTyped
    <3> QED BY <1>1, <1>2, <3>2, <3>3, <3>4, CountersMove
  <2> QED BY <2>1, <2>2
<1> QED BY <1>2, <1>3, <1>4

LEMMA AllowlistCoupled ==
  ASSUME PinsMatch, PinsTyped, NEW scope \in Scopes, NEW network \in Networks, NEW list, NEW cred,
         R!SetRecipientPins(scope, network, list, cred),
         D!SetRecipientPins(scope, network, list, cred)
  PROVE  PinsMatch' /\ PinsTyped'
<1> DEFINE sn == <<scope, network>>
           p == [recipients |-> list, source |-> "admin-allowlist"]
<1>1. CASE cred # "admin"
  BY <1>1 DEF R!SetRecipientPins, D!SetRecipientPins, PinsMatch, PinsTyped
<1>2. CASE cred = "admin"
  <2>1. pins' = [pins EXCEPT ![sn] = p]
    BY <1>2 DEF R!SetRecipientPins
  <2>2. pinRows' = { x \in pinRows : x.scope # scope \/ x.network # network } \cup {PinRow(sn, p)}
    BY <1>2 DEF D!SetRecipientPins, PinRow
  <2>3. { x \in pinRows : x.scope # scope \/ x.network # network }
          = { x \in pinRows : <<x.scope, x.network>> # sn }
    OBVIOUS
  <2>4. p # NoPin /\ sn \in Scopes \X Networks
    BY DEF NoPin
  <2>5. pinRows' = { x \in pinRows : <<x.scope, x.network>> # sn } \cup {PinRow(sn, p)}
    BY <2>2, <2>3
  <2> HIDE DEF sn, p
  <2> QED BY <2>1, <2>4, <2>5, PinsMove
<1> QED BY <1>1, <1>2

LEMMA FlagsCoupled ==
  ASSUME FlagsMatch, NEW scope \in Scopes, NEW on \in BOOLEAN, NEW cred,
         \/ /\ R!SetRecipientAssertionRequired(scope, on, cred)
            /\ D!SetRecipientAssertionRequired(scope, on, cred)
         \/ R!SetTofuEnabled(scope, on, cred) /\ D!SetTofuEnabled(scope, on, cred)
  PROVE  FlagsMatch'
<1>1. CASE cred # "admin"
  BY <1>1 DEF R!SetRecipientAssertionRequired, D!SetRecipientAssertionRequired,
              R!SetTofuEnabled, D!SetTofuEnabled, D!SetFlags, FlagsMatch
<1>2. CASE cred = "admin"
  <2> DEFINE row == [scope |-> scope, tofuEnabled |-> scope \in tofu',
                     assertionRequired |-> scope \in required']
  <2>1. D!FlagsOf(scope) = [tofuEnabled |-> scope \in tofu, assertionRequired |-> scope \in required]
    BY FlagsAre
  <2>2. /\ \A s : s # scope => (s \in tofu' <=> s \in tofu) /\ (s \in required' <=> s \in required)
        /\ recipientPolicy' = { p \in recipientPolicy : p.scope # scope } \cup {row}
    <3>1. CASE /\ R!SetRecipientAssertionRequired(scope, on, cred)
               /\ D!SetRecipientAssertionRequired(scope, on, cred)
      <4>1. required' = R!SetFlag(required, scope, on) /\ tofu' = tofu
        BY <1>2, <3>1 DEF R!SetRecipientAssertionRequired
      <4>2. (scope \in required') = on
        BY <4>1 DEF R!SetFlag
      <4>3. [D!FlagsOf(scope) EXCEPT !.assertionRequired = on]
              = [tofuEnabled |-> scope \in tofu', assertionRequired |-> scope \in required']
        BY <2>1, <4>1, <4>2
      <4>4. recipientPolicy' = { p \in recipientPolicy : p.scope # scope } \cup {row}
        BY <1>2, <3>1, <4>3 DEF D!SetRecipientAssertionRequired, D!SetFlags
      <4> QED BY <4>1, <4>4 DEF R!SetFlag
    <3>2. CASE R!SetTofuEnabled(scope, on, cred) /\ D!SetTofuEnabled(scope, on, cred)
      <4>1. tofu' = R!SetFlag(tofu, scope, on) /\ required' = required
        BY <1>2, <3>2 DEF R!SetTofuEnabled
      <4>2. (scope \in tofu') = on
        BY <4>1 DEF R!SetFlag
      <4>3. [D!FlagsOf(scope) EXCEPT !.tofuEnabled = on]
              = [tofuEnabled |-> scope \in tofu', assertionRequired |-> scope \in required']
        BY <2>1, <4>1, <4>2
      <4>4. recipientPolicy' = { p \in recipientPolicy : p.scope # scope } \cup {row}
        BY <1>2, <3>2, <4>3 DEF D!SetTofuEnabled, D!SetFlags
      <4> QED BY <4>1, <4>4 DEF R!SetFlag
    <3> QED BY <3>1, <3>2
  <2>3. /\ row.scope = scope /\ row.tofuEnabled = (scope \in tofu')
        /\ row.assertionRequired = (scope \in required')
    OBVIOUS
  <2> HIDE DEF row
  <2>4. ASSUME NEW p \in recipientPolicy'
        PROVE  /\ p.scope \in Scopes /\ p.tofuEnabled = (p.scope \in tofu')
               /\ p.assertionRequired = (p.scope \in required')
    <3>1. CASE p = row
      BY <2>3, <3>1
    <3>2. CASE p # row
      <4>1. p \in recipientPolicy /\ p.scope # scope
        BY <2>2, <3>2
      <4>2. /\ p.scope \in Scopes /\ p.tofuEnabled = (p.scope \in tofu)
            /\ p.assertionRequired = (p.scope \in required)
        BY <4>1 DEF FlagsMatch
      <4>3. /\ p.scope \in tofu' <=> p.scope \in tofu
            /\ p.scope \in required' <=> p.scope \in required
        BY <2>2, <4>1
      <4> QED BY <4>2, <4>3
    <3> QED BY <3>1, <3>2
  <2>5. ASSUME NEW s \in Scopes
        PROVE  \/ \E p \in recipientPolicy' : p.scope = s
               \/ s \notin tofu' /\ s \notin required'
    <3>1. CASE s = scope
      BY <2>2, <2>3, <3>1
    <3>2. CASE s # scope
      BY <2>2, <3>2 DEF FlagsMatch
    <3> QED BY <3>1, <3>2
  <2> QED BY <2>4, <2>5 DEF FlagsMatch
<1> QED BY <1>1, <1>2

-------------------------------------------------------------------------------
(* The history of calls keeps them coupled.                                *)

LEMMA AdministerCoupled ==
  ASSUME LedgerInv, LimitsTyped, Coupled, PinsTyped, NEW cred, Administer(cred)
  PROVE  Coupled' /\ PinsTyped'
<1> USE DEF Coupled
<1>0. ASSUME LedgerStays
      PROVE  RowsMatch' /\ EntriesMatch' /\ CountersMatch'
  BY <1>0, StaysCoupled
<1> DEFINE LimitsStay == UNCHANGED <<limits, limitRows>>
           FrozenStays == UNCHANGED <<frozen, frozenRows, atomicGlobalFreeze>>
           PinsStay == UNCHANGED <<pins, pinRows>>
           FlagsStay == UNCHANGED <<required, tofu, recipientPolicy>>
<1>l. LimitsStay => LimitsMatch'
  BY DEF LimitsMatch
<1>f. FrozenStays => FrozenMatch'
  BY DEF FrozenMatch, D!FrozenRow, D!Locate
<1>p. ASSUME PinsStay
      PROVE  PinsMatch' /\ PinsTyped'
  <2>1. PinsMatch'
    BY <1>p DEF PinsMatch
  <2>2. PinsTyped'
    BY <1>p DEF PinsTyped
  <2> QED BY <2>1, <2>2
<1>g. FlagsStay => FlagsMatch'
  BY DEF FlagsMatch
<1>1. ASSUME NEW scope \in GovernedScopes,
             \/ R!Freeze(scope, cred) /\ D!Freeze(scope, cred)
             \/ R!Unfreeze(scope, cred) /\ D!Unfreeze(scope, cred)
      PROVE  Coupled' /\ PinsTyped'
  <2>1. LedgerStays /\ LimitsStay /\ PinsStay /\ FlagsStay
    BY <1>1 DEF R!Freeze, R!Unfreeze, D!Freeze, D!Unfreeze, R!env, R!records, R!counters,
                D!env, D!ledger, LedgerStays
  <2>2. FrozenMatch'
    BY <1>1, FreezeCoupled
  <2> QED BY <1>0, <1>l, <1>p, <1>g, <2>1, <2>2
<1>2. ASSUME NEW scope \in Scopes, NEW assetId \in AssetIds, NEW l \in AdminLimits,
             R!SetBudgetLimits(scope, assetId, l, cred), D!SetBudgetLimits(scope, assetId, l, cred)
      PROVE  Coupled' /\ PinsTyped'
  <2>1. LedgerStays /\ FrozenStays /\ PinsStay /\ FlagsStay
    BY <1>2 DEF R!SetBudgetLimits, D!SetBudgetLimits, R!env, R!records, R!counters, D!env, D!ledger,
                LedgerStays
  <2>2. LimitsMatch'
    BY <1>2, LimitsCoupled
  <2> QED BY <1>0, <1>f, <1>p, <1>g, <2>1, <2>2
<1>3. ASSUME NEW scope \in Scopes, NEW assetId \in AssetIds,
             R!ResetCumulative(scope, assetId, cred), D!ResetCumulative(scope, assetId, cred)
      PROVE  Coupled' /\ PinsTyped'
  <2>1. RowsMatch' /\ EntriesMatch' /\ CountersMatch' /\ PolicyStays
    BY <1>3, ResetCoupled
  <2> QED BY <1>p, <2>1, StaysCoupled DEF PolicyStays
<1>4. ASSUME NEW scope \in Scopes, NEW network \in Networks, NEW list \in Allowlists,
             R!SetRecipientPins(scope, network, list, cred),
             D!SetRecipientPins(scope, network, list, cred)
      PROVE  Coupled' /\ PinsTyped'
  <2>1. LedgerStays /\ LimitsStay /\ FrozenStays /\ FlagsStay
    BY <1>4 DEF R!SetRecipientPins, D!SetRecipientPins, R!env, R!records, R!counters, D!env,
                D!ledger, LedgerStays
  <2>2. PinsMatch' /\ PinsTyped'
    BY <1>4, AllowlistCoupled
  <2> QED BY <1>0, <1>l, <1>f, <1>g, <2>1, <2>2
<1>5. ASSUME NEW scope \in Scopes, NEW on \in BOOLEAN,
             \/ /\ R!SetRecipientAssertionRequired(scope, on, cred)
                /\ D!SetRecipientAssertionRequired(scope, on, cred)
             \/ R!SetTofuEnabled(scope, on, cred) /\ D!SetTofuEnabled(scope, on, cred)
      PROVE  Coupled' /\ PinsTyped'
  <2>1. LedgerStays /\ LimitsStay /\ FrozenStays /\ PinsStay
    BY <1>5 DEF R!SetRecipientAssertionRequired, D!SetRecipientAssertionRequired, R!SetTofuEnabled,
                D!SetTofuEnabled, D!SetFlags, R!env, R!records, R!counters, D!env, D!ledger,
                LedgerStays
  <2>2. FlagsMatch'
    BY <1>5, FlagsCoupled
  <2> QED BY <1>0, <1>l, <1>f, <1>p, <2>1, <2>2
<1> HIDE DEF Coupled
<1> QED BY <1>1, <1>2, <1>3, <1>4, <1>5 DEF Administer

LEMMA CoupledStep ==
  ASSUME LedgerInv, CallTyped, LimitsTyped, Coupled, PinsTyped, [Next]_vars
  PROVE  Coupled' /\ PinsTyped'
<1>1. ASSUME LedgerStays, PolicyStays
      PROVE  Coupled' /\ PinsTyped'
  BY <1>1, StaysCoupled DEF Coupled, PinsTyped, PolicyStays
<1>2. ASSUME NEW c \in SpendCalls, Call(c) \/ CallUnanswered(c)
      PROVE  Coupled' /\ PinsTyped'
  BY <1>2, SpendCoupled DEF Call, CallUnanswered
<1>3. CASE Resend
  BY <1>3, SpendCoupled DEF Resend, CallTyped
<1>4. ASSUME NEW sa \in Accounts, Query(sa)
      PROVE  Coupled' /\ PinsTyped'
  <2>1. RowsMatch' /\ EntriesMatch' /\ CountersMatch' /\ PolicyStays
    BY <1>4, SnapshotCoupled DEF Query
  <2> QED BY <2>1, StaysCoupled DEF Coupled, PinsTyped, PolicyStays
<1>5. ASSUME NEW cred \in Credentials, Administer(cred)
      PROVE  Coupled' /\ PinsTyped'
  BY <1>5, AdministerCoupled
<1>6. CASE Tick \/ UNCHANGED vars
  BY <1>1, <1>6 DEF Tick, vars, storeVars, redisVars, durableVars, LedgerStays, PolicyStays
<1> QED BY <1>2, <1>3, <1>4, <1>5, <1>6 DEF Next

LEMMA CoupledInit ==
  ASSUME Init
  PROVE  Coupled /\ PinsTyped
<1>1. /\ res = [k \in Keys |-> NoHash] /\ cmt = [k \in Keys |-> NoEntry]
      /\ total = [sa \in Accounts |-> 0] /\ exposed = [sa \in Accounts |-> 0]
      /\ limits = [sa \in Accounts |-> NoLimit]
      /\ pins = [sn \in Scopes \X Networks |-> NoPin]
      /\ frozen = {} /\ required = {} /\ tofu = {}
  BY SameNames, DurableNames DEF Init, R!Init, R!NoPin, NoPin
<1>2. /\ reservations = {} /\ committed = {} /\ counters = {} /\ limitRows = {}
      /\ frozenRows = {} /\ pinRows = {} /\ recipientPolicy = {}
  BY DEF Init, D!Init
<1>3. RowsMatch /\ EntriesMatch
  <2>1. Present = {} /\ Entered = {}
    BY <1>1 DEF Present, Entered
  <2> QED BY <1>2, <2>1 DEF RowsMatch, EntriesMatch
<1>4. CountersMatch /\ LimitsMatch
  BY <1>1, <1>2 DEF CountersMatch, LimitsMatch
<1>5. FrozenMatch /\ FlagsMatch
  BY <1>1, <1>2 DEF FrozenMatch, FlagsMatch
<1>6. PinsMatch /\ PinsTyped
  <2>1. \A sn \in Scopes \X Networks : pins[sn] = NoPin
    BY <1>1
  <2> QED BY <1>1, <1>2, <2>1 DEF PinsMatch, PinsTyped
<1> QED BY <1>3, <1>4, <1>5, <1>6 DEF Coupled

LEMMA StoresStayCoupled == Spec => [](Coupled /\ PinsTyped)
BY CoupledInit, CoupledStep, LedgerInvariant, LimitsInvariant, PTL DEF Spec

\* In every state the two stores can be brought to, by the same calls at the
\* same times, whichever replies are lost, they answer every call and every
\* read alike: the keys of Redis and the tables of the Durable Object are two
\* writings of one ledger.
THEOREM StoresAnswerAlike == Spec => []SameAnswers
<1>1. LedgerInv /\ LimitsTyped /\ Coupled => SameAnswers
  BY CoupledAnswer
<1> QED BY <1>1, LedgerInvariant, LimitsInvariant, StoresStayCoupled, PTL
===============================================================================
