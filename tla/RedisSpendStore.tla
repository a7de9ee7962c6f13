---------------------------- MODULE RedisSpendStore ----------------------------
(***************************************************************************)
(* The spend store on Redis: the server-side scripts of redis/lua.ts and   *)
(* the adapter of redis/store.ts that runs them.                           *)
(*                                                                         *)
(* Every spend transition is one script, so each is one action here.  It   *)
(* reads the backend's TIME (`now') and expires lazily: a script expires   *)
(* the records it meets and only the snapshot deletes.  A record is a hash *)
(* and an entry of an index that must agree with it.  What a call answers  *)
(* is an operator of the state it meets.                                   *)
(***************************************************************************)
EXTENDS StoreCalls

CONSTANT AliasIds     \* reservation ids that spell an index or counter key

VARIABLES
    now,                  \* redis.call('TIME')
    atomicGlobalFreeze,   \* capabilities: single instance, or Cluster
    res,                  \* the reservation hashes
    resIdx,               \* per account, the ids in the reservation index
    cmt,                  \* the committed-entry hashes
    cmtIdx,               \* per account, the ids in the committed index
    total,                \* per account, lifetime committed
    exposed,              \* per account, unresolved exposed
    frozen,               \* the frozen keys; "*" is the global one
    limits,               \* administered caps, per account
    pins,                 \* pinned recipients, per scope and network
    required,             \* scopes whose recipient-required key is set
    tofu                  \* scopes whose tofu-enabled key is set

records  == <<res, resIdx, cmt, cmtIdx>>
counters == <<total, exposed>>
policy   == <<frozen, limits, pins, required, tofu>>
env      == <<now, atomicGlobalFreeze>>
vars     == <<env, records, counters, policy>>

NoHash  == [state |-> "absent", fingerprint |-> "none", amount |-> 0,
            created |-> 0, expires |-> 0]
NoEntry == [amount |-> 0, at |-> 0]
NoPin   == [recipients |-> {}, source |-> "none"]

States == {"absent", "reserved", "exposed", "committed", "released", "expired"}

Init ==
    /\ now = 0
    /\ atomicGlobalFreeze \in BOOLEAN
    /\ res = [k \in Keys |-> NoHash]
    /\ resIdx = [sa \in Accounts |-> {}]
    /\ cmt = [k \in Keys |-> NoEntry]
    /\ cmtIdx = [sa \in Accounts |-> {}]
    /\ total = [sa \in Accounts |-> 0]
    /\ exposed = [sa \in Accounts |-> 0]
    /\ frozen = {}
    /\ limits = [sa \in Accounts |-> NoLimit]
    /\ pins = [sn \in Scopes \X Networks |-> NoPin]
    /\ required = {}
    /\ tofu = {}

-------------------------------------------------------------------------------
(* Indices, expiry and sums.                                               *)

Cutoff == now - Window

\* ZRANGEBYSCORE over the reservation index: created within the window.
ResInRange(sa) ==
    { k \in KeysOf(sa) : k[2] \in resIdx[sa] /\ Cutoff <= res[k].created /\ res[k].created <= now }

CmtInRange(sa) ==
    { k \in KeysOf(sa) : k[2] \in cmtIdx[sa] /\ Cutoff <= cmt[k].at /\ cmt[k].at <= now }

\* Mutant of Lapsed: an exposed record lapses as a reserved one does.
LapsedLive(k) == res[k].state \in {"reserved", "exposed"} /\ res[k].expires <= now

Lapsed(k) == res[k].state = "reserved" /\ res[k].expires <= now

\* The state a script works with, and writes back, after its expiry check.
StateNow(k) == IF Lapsed(k) THEN "expired" ELSE res[k].state

Expire(S) == [k \in Keys |-> IF k \in S THEN [res[k] EXCEPT !.state = StateNow(k)] ELSE res[k]]

Sum(S, f) == AtomicTotal(S, [k \in Keys |-> f[k].amount])

Committed(sa)      == Sum(CmtInRange(sa), cmt)
Reserved(sa)       == Sum({ k \in ResInRange(sa) : StateNow(k) = "reserved" }, res)
ExposedRolling(sa) == Sum({ k \in ResInRange(sa) : res[k].state = "exposed" }, res)

-------------------------------------------------------------------------------
(* RESERVE.  The refusals in the order of the script.                      *)

Known(in)     == res[Key(in)] # NoHash
SameTerms(in) == /\ res[Key(in)].fingerprint = in.fingerprint
                 /\ res[Key(in)].amount = in.amount

FrozenRefusal(in) ==
    IF in.policyScope \in frozen THEN Refusal("frozen", in.policyScope)
    ELSE IF atomicGlobalFreeze /\ AllScopes \in frozen THEN Refusal("frozen", AllScopes)
    ELSE Ok

PinOf(in)     == pins[<<in.policyScope, in.payee.network>>]
Presented(in) == CanonicalizeRecipient(in.payee.network, in.payee.recipient)
Expected(in)  == { CanonicalizeRecipient(in.payee.network, r) : r \in PinOf(in).recipients }

WantsClaim(in) == /\ in.payee # NoPayee
                  /\ PinOf(in) = NoPin
                  /\ in.enforcement = "tofu"

RecipientRefusal(in) ==
    CASE in.payee = NoPayee /\ in.policyScope \in required ->
             Refusal("recipient", "assertion-required")
      [] in.payee # NoPayee /\ PinOf(in) # NoPin /\ Presented(in) \notin Expected(in) ->
             Refusal("recipient", IF PinOf(in).source = "tofu" THEN "pin-mismatch"
                                                               ELSE "not-allowlisted")
      [] WantsClaim(in) /\ in.policyScope \notin tofu ->
             Refusal("config", "recipient-tofu-not-provisioned")
      [] OTHER -> Ok

\* A first use is claimed in the same script that checked for it.
ClaimedPins(in) ==
    IF WantsClaim(in)
    THEN [pins EXCEPT ![<<in.policyScope, in.payee.network>>] =
                         [recipients |-> {Presented(in)}, source |-> "tofu"]]
    ELSE pins

Above(caller, administered) ==
    caller # NoCap /\ administered # NoCap /\ caller > administered

CapsRefusal(in) ==
    IF \/ Above(in.maxPerHour, limits[Account(in)].maxPerHour)
       \/ Above(in.maxTotal, limits[Account(in)].maxTotal)
    THEN Refusal("config", "cap-exceeds-administered")
    ELSE Ok

EffectiveTotal(in) ==
    IF in.maxTotal # NoCap THEN in.maxTotal ELSE limits[Account(in)].maxTotal

\* Mutant of BudgetRefusal: exposed money is in no term of the cumulative sum.
BudgetUnexposed(in) ==
    LET sa == Account(in) IN
    IF Committed(sa) + Reserved(sa) + ExposedRolling(sa) + in.amount > in.maxPerHour
    THEN Refusal("budget", "per-hour")
    ELSE IF /\ EffectiveTotal(in) # NoCap
            /\ total[sa] + Reserved(sa) + in.amount > EffectiveTotal(in)
    THEN Refusal("budget", "cumulative")
    ELSE Ok

BudgetRefusal(in) ==
    LET sa == Account(in) IN
    IF Committed(sa) + Reserved(sa) + ExposedRolling(sa) + in.amount > in.maxPerHour
    THEN Refusal("budget", "per-hour")
    ELSE IF /\ EffectiveTotal(in) # NoCap
            /\ total[sa] + exposed[sa] + Reserved(sa) + in.amount > EffectiveTotal(in)
    THEN Refusal("budget", "cumulative")
    ELSE Ok

\* The adapter refuses an id that would alias an index or counter key.
Aliased(ref) == ref.reservationId \in AliasIds
AliasRefusal == Refusal("config", "reservation-id-aliases-index")

ReserveAnswer(in) ==
    IF Aliased(in)                     THEN AliasRefusal
    ELSE IF Known(in) /\ SameTerms(in) THEN Ok
    ELSE IF Known(in)                  THEN Refusal("idreuse", "terms-differ")
    ELSE IF FrozenRefusal(in) # Ok     THEN FrozenRefusal(in)
    ELSE IF RecipientRefusal(in) # Ok  THEN RecipientRefusal(in)
    ELSE IF CapsRefusal(in) # Ok       THEN CapsRefusal(in)
    ELSE BudgetRefusal(in)

\* The script got past step 3: a claim it made there outlives later refusals.
PastRecipient(in) ==
    ~Aliased(in) /\ ~Known(in) /\ FrozenRefusal(in) = Ok /\ RecipientRefusal(in) = Ok

NewHash(in) == [state |-> "reserved", fingerprint |-> in.fingerprint, amount |-> in.amount,
                created |-> now, expires |-> now + TTL]

ReserveRefused(in) ==
    /\ ~PastRecipient(in)
    /\ UNCHANGED vars

ReserveMisconfigured(in) ==
    /\ PastRecipient(in) /\ CapsRefusal(in) # Ok
    /\ pins' = ClaimedPins(in)
    /\ UNCHANGED <<env, records, counters, frozen, limits, required, tofu>>

ReserveOverBudget(in) ==
    /\ PastRecipient(in) /\ CapsRefusal(in) = Ok /\ BudgetRefusal(in) # Ok
    /\ pins' = ClaimedPins(in)
    /\ res' = Expire(ResInRange(Account(in)))
    /\ UNCHANGED <<env, resIdx, cmt, cmtIdx, counters, frozen, limits, required, tofu>>

ReserveGranted(in) ==
    /\ PastRecipient(in) /\ CapsRefusal(in) = Ok /\ BudgetRefusal(in) = Ok
    /\ pins' = ClaimedPins(in)
    /\ res' = [Expire(ResInRange(Account(in))) EXCEPT ![Key(in)] = NewHash(in)]
    /\ resIdx' = [resIdx EXCEPT ![Account(in)] = @ \cup {in.reservationId}]
    /\ UNCHANGED <<env, cmt, cmtIdx, counters, frozen, limits, required, tofu>>

Reserve(in) == \/ ReserveRefused(in)
               \/ ReserveMisconfigured(in)
               \/ ReserveOverBudget(in)
               \/ ReserveGranted(in)

-------------------------------------------------------------------------------
(* COMMIT, RELEASE and EXPOSE on one record, which they expire first.      *)

Holds(k) == StateNow(k) \in {"reserved", "exposed"}

\* The record moves to state s; nothing else is touched.
MoveTo(k, s) == res' = [res EXCEPT ![k].state = s]

AddExposed(k, delta) == exposed' = [exposed EXCEPT ![k[1]] = @ + delta]

CommitAnswer(ref) ==
    LET k == Key(ref) IN
    IF Aliased(ref)                    THEN AliasRefusal
    ELSE IF cmt[k] # NoEntry           THEN Ok
    ELSE IF res[k] = NoHash            THEN NotFound
    ELSE IF StateNow(k) = "released"   THEN Lifecycle("released-cannot-commit")
    ELSE IF StateNow(k) = "expired"    THEN Lifecycle("expired-cannot-commit")
    ELSE Ok

\* The committed entry, its index, the record and both counters, in one script.
SettleCommitted(k) ==
    /\ MoveTo(k, "committed")
    /\ cmt' = [cmt EXCEPT ![k] = [amount |-> res[k].amount, at |-> now]]
    /\ cmtIdx' = [cmtIdx EXCEPT ![k[1]] = @ \cup {k[2]}]
    /\ total' = [total EXCEPT ![k[1]] = @ + res[k].amount]
    /\ AddExposed(k, IF res[k].state = "exposed" THEN - res[k].amount ELSE 0)
    /\ UNCHANGED <<env, resIdx, policy>>

SettleReleased(k) ==
    /\ MoveTo(k, "released")
    /\ AddExposed(k, IF res[k].state = "exposed" THEN - res[k].amount ELSE 0)
    /\ UNCHANGED <<env, resIdx, cmt, cmtIdx, total, policy>>

\* A script that refuses or replays has still written back an expiry.
ExpireOnly(k) ==
    /\ res' = Expire({k})
    /\ UNCHANGED <<env, resIdx, cmt, cmtIdx, counters, policy>>

\* Mutant of Commit: a record that has its entry is counted again.
CommitTwice(ref) ==
    LET k == Key(ref) IN
    \/ (Aliased(ref) \/ res[k] = NoHash) /\ UNCHANGED vars
    \/ ~Aliased(ref) /\ res[k] # NoHash /\ StateNow(k) \in {"released", "expired"} /\ ExpireOnly(k)
    \/ ~Aliased(ref) /\ StateNow(k) \in {"reserved", "exposed", "committed"} /\ SettleCommitted(k)

Commit(ref) ==
    LET k == Key(ref) IN
    \/ (Aliased(ref) \/ cmt[k] # NoEntry \/ res[k] = NoHash) /\ UNCHANGED vars
    \/ ~Aliased(ref) /\ cmt[k] = NoEntry /\ res[k] # NoHash /\ ~Holds(k) /\ ExpireOnly(k)
    \/ ~Aliased(ref) /\ cmt[k] = NoEntry /\ Holds(k) /\ SettleCommitted(k)

ReleaseAnswer(ref) ==
    IF Aliased(ref)                THEN AliasRefusal
    ELSE IF res[Key(ref)] = NoHash THEN NotFound
    ELSE Ok

Release(ref) ==
    LET k == Key(ref) IN
    \/ (Aliased(ref) \/ res[k] = NoHash) /\ UNCHANGED vars
    \/ ~Aliased(ref) /\ res[k] # NoHash /\ ~Holds(k) /\ ExpireOnly(k)
    \/ ~Aliased(ref) /\ Holds(k) /\ SettleReleased(k)

ExposeAnswer(ref) ==
    LET k == Key(ref) IN
    IF Aliased(ref)         THEN AliasRefusal
    ELSE IF res[k] = NoHash THEN NotFound
    ELSE IF Holds(k)        THEN Ok
    ELSE Lifecycle("reservation-already-terminal")

Expose(ref) ==
    LET k == Key(ref) IN
    \/ (Aliased(ref) \/ res[k] = NoHash) /\ UNCHANGED vars
    \/ ~Aliased(ref) /\ res[k] # NoHash /\ StateNow(k) # "reserved" /\ ExpireOnly(k)
    \/ /\ ~Aliased(ref) /\ StateNow(k) = "reserved"
       /\ MoveTo(k, "exposed")
       /\ AddExposed(k, res[k].amount)
       /\ UNCHANGED <<env, resIdx, cmt, cmtIdx, total, policy>>

-------------------------------------------------------------------------------
(* SNAPSHOT and LIST_EXPOSED.                                              *)

\* Committed records are deleted with their entry when it leaves the window.
StaleCommits(sa) == { k \in KeysOf(sa) : k[2] \in cmtIdx[sa] /\ cmt[k].at < Cutoff }

\* Mutant of StaleRecords: an old record is deleted whatever its state.
StaleWhateverState(sa) ==
    { k \in KeysOf(sa) : k[2] \in resIdx[sa] /\ res[k].created < Cutoff }

StaleRecords(sa) ==
    { k \in KeysOf(sa) : /\ k[2] \in resIdx[sa]
                         /\ StateNow(k) \in {"released", "expired"}
                         /\ res[k].created < Cutoff }

IdsOf(S) == { k[2] : k \in S }

GetBudgetState(sa) ==
    LET gone == StaleCommits(sa) \cup StaleRecords(sa) IN
    /\ res' = [k \in Keys |-> IF k \in gone THEN NoHash
                              ELSE IF k \in KeysOf(sa) THEN Expire({k})[k] ELSE res[k]]
    /\ resIdx' = [resIdx EXCEPT ![sa] = @ \ IdsOf(gone)]
    /\ cmt' = [k \in Keys |-> IF k \in StaleCommits(sa) THEN NoEntry ELSE cmt[k]]
    /\ cmtIdx' = [cmtIdx EXCEPT ![sa] = @ \ IdsOf(StaleCommits(sa))]
    /\ UNCHANGED <<env, counters, policy>>

FrozenFor(scope) == scope \in frozen \/ (atomicGlobalFreeze /\ AllScopes \in frozen)

Available(cap, consumed) ==
    IF cap = NoCap THEN NoCap ELSE IF cap < consumed THEN 0 ELSE cap - consumed

\* What the snapshot reports of an account.
BudgetState(sa) ==
    LET consumed == total[sa] + exposed[sa] + Reserved(sa)
        kept     == KeysOf(sa) \ (StaleCommits(sa) \cup StaleRecords(sa))
    IN  [committed    |-> Committed(sa),
         reserved     |-> Reserved(sa),
         exposed      |-> exposed[sa],
         cumulative   |-> total[sa],
         consumed     |-> consumed,
         frozen       |-> FrozenFor(sa[1]),
         availHour    |-> Available(limits[sa].maxPerHour,
                                    Committed(sa) + Reserved(sa) + ExposedRolling(sa)),
         availTotal   |-> Available(limits[sa].maxTotal, consumed),
         reservations |-> { <<k[2], StateNow(k), res[k].amount, res[k].created>> :
                              k \in { j \in kept : res[j] # NoHash } }]

ListExposed(sa) ==
    { k[2] : k \in { j \in KeysOf(sa) : j[2] \in resIdx[sa] /\ res[j].state = "exposed" } }

GetRecipientPins(scope, network) == pins[<<scope, network>>].recipients

GetRecipientPolicy(scope) ==
    [tofuEnabled |-> scope \in tofu, recipientAssertionRequired |-> scope \in required]

-------------------------------------------------------------------------------
(* The admin plane.  A store built from a data credential refuses it all.  *)

IfAdmin(cred, answer) == IF cred = "admin" THEN answer ELSE AdminDenied

FreezeAnswer(scope, cred) ==
    IfAdmin(cred, IF scope = AllScopes /\ ~atomicGlobalFreeze
                  THEN Refusal("config", "global-freeze-unsupported") ELSE Ok)

Freeze(scope, cred) ==
    /\ frozen' = IF FreezeAnswer(scope, cred) = Ok THEN frozen \cup {scope} ELSE frozen
    /\ UNCHANGED <<env, records, counters, limits, pins, required, tofu>>

Unfreeze(scope, cred) ==
    /\ frozen' = IF cred = "admin" THEN frozen \ {scope} ELSE frozen
    /\ UNCHANGED <<env, records, counters, limits, pins, required, tofu>>

SetRecipientPins(scope, network, recipients, cred) ==
    /\ pins' = IF cred = "admin"
               THEN [pins EXCEPT ![<<scope, network>>] =
                        [recipients |-> recipients, source |-> "admin-allowlist"]]
               ELSE pins
    /\ UNCHANGED <<env, records, counters, frozen, limits, required, tofu>>

\* One script: the whole old cap or the whole new one, an absent field removed.
SetBudgetLimits(scope, assetId, l, cred) ==
    /\ limits' = IF cred = "admin"
                 THEN [limits EXCEPT ![<<scope, CanonicalizeAsset(assetId)>>] = l]
                 ELSE limits
    /\ UNCHANGED <<env, records, counters, frozen, pins, required, tofu>>

GetBudgetLimits(sa, cred) == IF cred = "admin" THEN limits[sa] ELSE AdminDenied

SetFlag(set, scope, on) == IF on THEN set \cup {scope} ELSE set \ {scope}

SetRecipientAssertionRequired(scope, on, cred) ==
    /\ required' = IF cred = "admin" THEN SetFlag(required, scope, on) ELSE required
    /\ UNCHANGED <<env, records, counters, frozen, limits, pins, tofu>>

SetTofuEnabled(scope, on, cred) ==
    /\ tofu' = IF cred = "admin" THEN SetFlag(tofu, scope, on) ELSE tofu
    /\ UNCHANGED <<env, records, counters, frozen, limits, pins, required>>

ResolveAnswer(ref, cred) ==
    LET k == Key(ref) IN
    IfAdmin(cred, IF Aliased(ref)                   THEN AliasRefusal
                  ELSE IF res[k] = NoHash           THEN NotFound
                  ELSE IF res[k].state = "reserved" THEN Lifecycle("reservation-not-exposed")
                  ELSE IF res[k].state = "exposed"  THEN Ok
                  ELSE Lifecycle("reservation-already-terminal"))

\* The only script that does not look at the TTL.
ResolveExposed(ref, outcome, cred) ==
    \/ ResolveAnswer(ref, cred) # Ok /\ UNCHANGED vars
    \/ ResolveAnswer(ref, cred) = Ok /\ outcome = "committed" /\ SettleCommitted(Key(ref))
    \/ ResolveAnswer(ref, cred) = Ok /\ outcome = "released" /\ SettleReleased(Key(ref))

ResetCumulative(scope, assetId, cred) ==
    /\ total' = IF cred = "admin"
                THEN [total EXCEPT ![<<scope, CanonicalizeAsset(assetId)>>] = 0] ELSE total
    /\ UNCHANGED <<env, records, exposed, policy>>

\* What the adapter throws for a refusal of a script or of its own.
MapRefusal(answer) ==
    CASE answer.kind = "ok"        -> "none"
      [] answer.kind = "idreuse"   -> "Error"
      [] answer.kind = "frozen"    -> "SpendScopeFrozenError"
      [] answer.kind = "recipient" -> "RecipientUnpinnedError"
      [] answer.kind = "budget"    -> "BudgetExceededError"
      [] answer.kind = "config"    -> "ConfigurationError"

-------------------------------------------------------------------------------
(* Properties.                                                             *)

\* Every key keeps its type.
TypeOK ==
    /\ res \in [Keys -> [state : States, fingerprint : Fingerprints \cup {"none"},
                          amount : Nat, created : Int, expires : Int]]
    /\ resIdx \in [Accounts -> SUBSET Ids]
    /\ cmt \in [Keys -> [amount : Nat, at : Int]]
    /\ cmtIdx \in [Accounts -> SUBSET Ids]
    /\ total \in [Accounts -> Int]
    /\ exposed \in [Accounts -> Int]
    /\ frozen \subseteq Scopes \cup {AllScopes}
    /\ limits \in [Accounts -> [maxPerHour : Nat \cup {NoCap}, maxTotal : Nat \cup {NoCap}]]
    /\ required \subseteq Scopes /\ tofu \subseteq Scopes

\* The index and the hash of a record, the index and the hash of a committed
\* entry, and the record and its entry are written by different commands, and
\* deleted by two loops of the snapshot: no id is in an index without its hash,
\* no record is out of its index, where no cap would count it, and a record is
\* committed exactly while its entry is there, for the same amount.
IndexesAgree ==
    \A k \in Keys :
        /\ k[2] \in resIdx[k[1]] <=> res[k] # NoHash
        /\ k[2] \in cmtIdx[k[1]] <=> cmt[k] # NoEntry
        /\ res[k].state = "committed" <=> cmt[k] # NoEntry
        /\ cmt[k] # NoEntry => cmt[k].amount = res[k].amount

\* The exposed counter, a decimal string that three scripts add to and subtract
\* from, is what the exposed records add up to, so bigSub never meets a smaller
\* minuend.
ExposedExact ==
    \A sa \in Accounts :
        exposed[sa] = Sum({ k \in KeysOf(sa) : res[k].state = "exposed" }, res)

LedgerConsistent == IndexesAgree /\ ExposedExact

Contract == INSTANCE SpendStore
    WITH Caps   <- CallerTotalCaps,
         record <- [k \in Keys |-> [state |-> StateNow(k), amount |-> res[k].amount]],
         spent  <- total

\* The Redis store keeps the contract of a spend store: a grant respects its
\* cumulative cap over all that is held, a record settles once and for its
\* amount, and nothing exposed lapses.
ImplementsContract == Contract!ContractSpec
===============================================================================
