--------------------------- MODULE DurableSpendStore ---------------------------
(***************************************************************************)
(* The spend store on Cloudflare Durable Objects: the SQLite-backed object *)
(* of durable-object/spend-store-do.ts and its adapter store.ts.           *)
(*                                                                         *)
(* A table is the set of its rows.  Every call is one transactionSync, so  *)
(* one action; it works with the object's own clock and, like the Redis    *)
(* scripts, expires the rows it meets.  One object serves one scope, or a  *)
(* single coordinator serves them all: only then is there a global freeze. *)
(***************************************************************************)
EXTENDS StoreCalls

VARIABLES
    now,                 \* Date.now() inside the object
    atomicGlobalFreeze,  \* the single-coordinator topology
    reservations,        \* rows [account, id, fingerprint, amount, created, expires, state]
    committed,           \* rows [account, id, fingerprint, amount, committed]
    counters,            \* rows [account, total, exposed]
    limitRows,           \* rows [account, maxPerHour, maxTotal]
    frozenRows,          \* rows [object, scope]
    pinRows,             \* rows [scope, network, recipients, source]
    recipientPolicy      \* rows [scope, tofuEnabled, assertionRequired]

ledger == <<reservations, committed, counters>>
policy == <<limitRows, frozenRows, pinRows, recipientPolicy>>
env    == <<now, atomicGlobalFreeze>>
vars   == <<env, ledger, policy>>

Init ==
    /\ now = 0
    /\ atomicGlobalFreeze \in BOOLEAN
    /\ reservations = {} /\ committed = {} /\ counters = {}
    /\ limitRows = {} /\ frozenRows = {} /\ pinRows = {} /\ recipientPolicy = {}

\* The object the adapter's locate sends a scope to.
Locate(scope) == IF atomicGlobalFreeze THEN "coordinator" ELSE scope

-------------------------------------------------------------------------------
(* Rows.                                                                   *)

\* The row a reservation ref names, as a set of at most one.
RowOf(ref)   == { r \in reservations : r.account = Account(ref) /\ r.id = ref.reservationId }
EntryOf(ref) == { c \in committed : c.account = Account(ref) /\ c.id = ref.reservationId }

\* Mutant of ExpiredAt: a row that expires this very moment is still live.
ExpiredAfter(r) == r.state = "reserved" /\ r.expires < now

ExpiredAt(r)  == r.state = "reserved" /\ r.expires <= now
StateNow(r)   == IF ExpiredAt(r) THEN "expired" ELSE r.state
Swept(r)      == [r EXCEPT !.state = StateNow(r)]

\* UPDATE reservations: the rows of S, replaced by their images under Op.
Update(S, Op(_)) == (reservations \ S) \cup { Op(r) : r \in S }

Sum(rows)  == AtomicTotal(rows, [r \in rows |-> r.amount])
Cutoff     == now - Window
Recent(sa) == { r \in reservations :
                  r.account = sa /\ Cutoff <= r.created /\ r.created <= now }

Committed(sa)      == Sum({ c \in committed :
                            c.account = sa /\ Cutoff <= c.committed /\ c.committed <= now })
Reserved(sa)       == Sum({ r \in Recent(sa) : StateNow(r) = "reserved" })
ExposedRolling(sa) == Sum({ r \in Recent(sa) : r.state = "exposed" })

NoCounters   == [total |-> 0, exposed |-> 0]
Counters(sa) == IF \E c \in counters : c.account = sa
                THEN LET row == CHOOSE c \in counters : c.account = sa
                     IN  [total |-> row.total, exposed |-> row.exposed]
                ELSE NoCounters

\* INSERT ... ON CONFLICT DO UPDATE of one account's counters.
AddToCounters(sa, dTotal, dExposed) ==
    counters' = { c \in counters : c.account # sa }
                  \cup {[account |-> sa, total |-> Counters(sa).total + dTotal,
                         exposed |-> Counters(sa).exposed + dExposed]}

LimitsOf(sa) == IF \E l \in limitRows : l.account = sa
                THEN LET row == CHOOSE l \in limitRows : l.account = sa
                     IN  [maxPerHour |-> row.maxPerHour, maxTotal |-> row.maxTotal]
                ELSE NoLimit

NoFlags       == [tofuEnabled |-> FALSE, assertionRequired |-> FALSE]
FlagsOf(scope) == IF \E p \in recipientPolicy : p.scope = scope
                  THEN LET row == CHOOSE p \in recipientPolicy : p.scope = scope
                       IN  [tofuEnabled |-> row.tofuEnabled,
                            assertionRequired |-> row.assertionRequired]
                  ELSE NoFlags

-------------------------------------------------------------------------------
(* reserve.                                                                *)

FrozenIn(scope, name) == [object |-> Locate(scope), scope |-> name] \in frozenRows
IsFrozen(scope)       == FrozenIn(scope, scope) \/ FrozenIn(scope, AllScopes)

PinsFor(in)   == { p \in pinRows : p.scope = in.policyScope /\ p.network = in.payee.network }
Presented(in) == CanonicalizeRecipient(in.payee.network, in.payee.recipient)
Listed(p)     == { CanonicalizeRecipient(p.network, r) : r \in p.recipients }

ClaimsPin(in) == in.payee # NoPayee /\ PinsFor(in) = {} /\ in.enforcement = "tofu"

RecipientAnswer(in) ==
    IF in.payee = NoPayee
    THEN IF FlagsOf(in.policyScope).assertionRequired
         THEN Refusal("recipient", "assertion-required") ELSE Ok
    ELSE IF \E p \in PinsFor(in) : p.source = "tofu" /\ Presented(in) \notin Listed(p)
    THEN Refusal("recipient", "pin-mismatch")
    ELSE IF \E p \in PinsFor(in) : Presented(in) \notin Listed(p)
    THEN Refusal("recipient", "not-allowlisted")
    ELSE IF ClaimsPin(in) /\ ~FlagsOf(in.policyScope).tofuEnabled
    THEN Refusal("config", "recipient-tofu-not-provisioned")
    ELSE Ok

TotalCap(in) == IF in.maxTotal # NoCap THEN in.maxTotal ELSE LimitsOf(Account(in)).maxTotal

Exceeds(caller, cap) == caller # NoCap /\ cap # NoCap /\ caller > cap

BudgetAnswer(in) ==
    LET sa    == Account(in)
        held  == Counters(sa).total + Counters(sa).exposed + Reserved(sa)
    IN
    IF \/ Exceeds(in.maxPerHour, LimitsOf(sa).maxPerHour)
       \/ Exceeds(in.maxTotal, LimitsOf(sa).maxTotal)
    THEN Refusal("config", "cap-exceeds-administered")
    ELSE IF Committed(sa) + Reserved(sa) + ExposedRolling(sa) + in.amount > in.maxPerHour
    THEN Refusal("budget", "per-hour")
    ELSE IF TotalCap(in) # NoCap /\ held + in.amount > TotalCap(in)
    THEN Refusal("budget", "cumulative")
    ELSE Ok

ReplayAnswer(in) ==
    IF \E r \in RowOf(in) : r.fingerprint = in.fingerprint /\ r.amount = in.amount
    THEN Ok ELSE Refusal("idreuse", "terms-differ")

ReserveAnswer(in) ==
    IF RowOf(in) # {}                                THEN ReplayAnswer(in)
    ELSE IF FrozenIn(in.policyScope, in.policyScope) THEN Refusal("frozen", in.policyScope)
    ELSE IF FrozenIn(in.policyScope, AllScopes)      THEN Refusal("frozen", AllScopes)
    ELSE IF RecipientAnswer(in) # Ok                 THEN RecipientAnswer(in)
    ELSE BudgetAnswer(in)

\* Steps 1 to 3 passed: nothing before them is written.
Considered(in) == RowOf(in) = {} /\ ~IsFrozen(in.policyScope) /\ RecipientAnswer(in) = Ok

\* A refusal of step 4 to 6 is a value, not an exception: the transaction
\* commits, and with it a claimed pin.
Claim(in) ==
    pinRows' = IF ClaimsPin(in)
               THEN pinRows \cup {[scope |-> in.policyScope, network |-> in.payee.network,
                                   recipients |-> {Presented(in)}, source |-> "tofu"]}
               ELSE pinRows

Inserted(in) == [account |-> Account(in), id |-> in.reservationId,
                 fingerprint |-> in.fingerprint, amount |-> in.amount,
                 created |-> now, expires |-> now + TTL, state |-> "reserved"]

Reserve(in) ==
    \/ ~Considered(in) /\ UNCHANGED vars
    \/ /\ Considered(in)
       /\ Claim(in)
       /\ reservations' =
            CASE BudgetAnswer(in).kind = "config" -> reservations
              [] BudgetAnswer(in).kind = "budget" -> Update(Recent(Account(in)), Swept)
              [] OTHER -> Update(Recent(Account(in)), Swept) \cup {Inserted(in)}
       /\ UNCHANGED <<env, committed, counters, limitRows, frozenRows, recipientPolicy>>

-------------------------------------------------------------------------------
(* commit, release, expose.                                                *)

Live(r) == StateNow(r) \in {"reserved", "exposed"}

\* The row moves to state s; what it held of the exposed counter is given back.
Moved(r, s)    == Update({r}, LAMBDA x : [x EXCEPT !.state = s])
HeldExposed(r) == IF r.state = "exposed" THEN r.amount ELSE 0

InsertEntry(r) ==
    committed' = committed \cup {[account |-> r.account, id |-> r.id,
                                  fingerprint |-> r.fingerprint, amount |-> r.amount,
                                  committed |-> now]}

SettleRow(r, outcome) ==
    /\ reservations' = Moved(r, outcome)
    /\ IF outcome = "committed"
       THEN InsertEntry(r) /\ AddToCounters(r.account, r.amount, - HeldExposed(r))
       ELSE /\ UNCHANGED committed
            /\ IF r.state = "exposed" THEN AddToCounters(r.account, 0, - r.amount)
                                      ELSE UNCHANGED counters
    /\ UNCHANGED <<env, policy>>

SweepRow(r) ==
    /\ reservations' = Update({r}, Swept)
    /\ UNCHANGED <<env, committed, counters, policy>>

CommitAnswer(ref) ==
    IF EntryOf(ref) # {}    THEN Ok
    ELSE IF RowOf(ref) = {} THEN NotFound
    ELSE IF \E r \in RowOf(ref) : StateNow(r) = "released"
                            THEN Lifecycle("released-cannot-commit")
    ELSE IF \E r \in RowOf(ref) : StateNow(r) = "expired"
                            THEN Lifecycle("expired-cannot-commit")
    ELSE Ok

Commit(ref) ==
    \/ (EntryOf(ref) # {} \/ RowOf(ref) = {}) /\ UNCHANGED vars
    \/ /\ EntryOf(ref) = {}
       /\ \E r \in RowOf(ref) : IF Live(r) THEN SettleRow(r, "committed") ELSE SweepRow(r)

ReleaseAnswer(ref) == IF RowOf(ref) = {} THEN NotFound ELSE Ok

Release(ref) ==
    \/ RowOf(ref) = {} /\ UNCHANGED vars
    \/ \E r \in RowOf(ref) : IF Live(r) THEN SettleRow(r, "released") ELSE SweepRow(r)

ExposeAnswer(ref) ==
    IF RowOf(ref) = {}                       THEN NotFound
    ELSE IF \E r \in RowOf(ref) : Live(r)    THEN Ok
    ELSE Lifecycle("reservation-already-terminal")

Expose(ref) ==
    \/ RowOf(ref) = {} /\ UNCHANGED vars
    \/ \E r \in RowOf(ref) : StateNow(r) # "reserved" /\ SweepRow(r)
    \/ \E r \in RowOf(ref) :
           /\ StateNow(r) = "reserved"
           /\ reservations' = Moved(r, "exposed")
           /\ AddToCounters(r.account, 0, r.amount)
           /\ UNCHANGED <<env, committed, policy>>

-------------------------------------------------------------------------------
(* Reads.                                                                  *)

StaleEntries(sa) == { c \in committed : c.account = sa /\ c.committed < Cutoff }

GoneRows(sa) ==
    { r \in reservations : /\ r.account = sa
                           /\ \/ \E c \in StaleEntries(sa) : c.id = r.id
                              \/ StateNow(r) \in {"released", "expired"} /\ r.created < Cutoff }

GetBudgetState(sa) ==
    /\ reservations' = { r \in Update({ x \in reservations : x.account = sa }, Swept) :
                           ~\E g \in GoneRows(sa) : g.account = r.account /\ g.id = r.id }
    /\ committed' = committed \ StaleEntries(sa)
    /\ UNCHANGED <<env, counters, policy>>

AvailStr(cap, consumed) ==
    IF cap = NoCap THEN NoCap ELSE IF cap < consumed THEN 0 ELSE cap - consumed

BudgetState(sa) ==
    LET consumed == Counters(sa).total + Counters(sa).exposed + Reserved(sa)
    IN  [committed    |-> Committed(sa),
         reserved     |-> Reserved(sa),
         exposed      |-> Counters(sa).exposed,
         cumulative   |-> Counters(sa).total,
         consumed     |-> consumed,
         frozen       |-> IsFrozen(sa[1]),
         availHour    |-> AvailStr(LimitsOf(sa).maxPerHour,
                                   Committed(sa) + Reserved(sa) + ExposedRolling(sa)),
         availTotal   |-> AvailStr(LimitsOf(sa).maxTotal, consumed),
         reservations |-> { <<r.id, StateNow(r), r.amount, r.created>> :
                              r \in { x \in reservations \ GoneRows(sa) : x.account = sa } }]

ListExposed(sa) ==
    { r.id : r \in { x \in reservations : x.account = sa /\ x.state = "exposed" } }

GetRecipientPins(scope, network) ==
    UNION { p.recipients : p \in { x \in pinRows : x.scope = scope /\ x.network = network } }

GetRecipientPolicy(scope) ==
    [tofuEnabled                |-> FlagsOf(scope).tofuEnabled,
     recipientAssertionRequired |-> FlagsOf(scope).assertionRequired]

-------------------------------------------------------------------------------
(* The admin plane: the object itself verifies the admin token.            *)

VerifyAdmin(cred, answer) == IF cred = "admin" THEN answer ELSE AdminDenied

\* Mutant of FreezeAnswer: a "*" is accepted where no object sees it.
FreezeAnyTopology(scope, cred) == VerifyAdmin(cred, Ok)

FreezeAnswer(scope, cred) ==
    VerifyAdmin(cred, IF scope = AllScopes /\ ~atomicGlobalFreeze
                      THEN Refusal("config", "global-freeze-unsupported") ELSE Ok)

FrozenRow(scope) == [object |-> Locate(scope), scope |-> scope]

Freeze(scope, cred) ==
    /\ frozenRows' = IF FreezeAnswer(scope, cred) = Ok
                     THEN frozenRows \cup {FrozenRow(scope)} ELSE frozenRows
    /\ UNCHANGED <<env, ledger, limitRows, pinRows, recipientPolicy>>

Unfreeze(scope, cred) ==
    /\ frozenRows' = IF cred = "admin" THEN frozenRows \ {FrozenRow(scope)} ELSE frozenRows
    /\ UNCHANGED <<env, ledger, limitRows, pinRows, recipientPolicy>>

SetRecipientPins(scope, network, recipients, cred) ==
    /\ pinRows' = IF cred = "admin"
                  THEN { p \in pinRows : p.scope # scope \/ p.network # network }
                         \cup {[scope |-> scope, network |-> network,
                                recipients |-> recipients, source |-> "admin-allowlist"]}
                  ELSE pinRows
    /\ UNCHANGED <<env, ledger, limitRows, frozenRows, recipientPolicy>>

\* DELETE and a conditional INSERT, in one transaction.
SetBudgetLimits(scope, assetId, l, cred) ==
    LET sa     == <<scope, CanonicalizeAsset(assetId)>>
        others == { x \in limitRows : x.account # sa }
    IN
    /\ limitRows' = IF cred # "admin"    THEN limitRows
                    ELSE IF l = NoLimit THEN others
                    ELSE others \cup {[account |-> sa, maxPerHour |-> l.maxPerHour,
                                       maxTotal |-> l.maxTotal]}
    /\ UNCHANGED <<env, ledger, frozenRows, pinRows, recipientPolicy>>

GetBudgetLimits(sa, cred) == IF cred = "admin" THEN LimitsOf(sa) ELSE AdminDenied

\* The upsert of one column leaves the other flag of the row as it was.
SetFlags(scope, flags, cred) ==
    /\ recipientPolicy' = IF cred = "admin"
                          THEN { p \in recipientPolicy : p.scope # scope }
                                 \cup {[scope |-> scope, tofuEnabled |-> flags.tofuEnabled,
                                        assertionRequired |-> flags.assertionRequired]}
                          ELSE recipientPolicy
    /\ UNCHANGED <<env, ledger, limitRows, frozenRows, pinRows>>

SetRecipientAssertionRequired(scope, on, cred) ==
    SetFlags(scope, [FlagsOf(scope) EXCEPT !.assertionRequired = on], cred)

SetTofuEnabled(scope, on, cred) ==
    SetFlags(scope, [FlagsOf(scope) EXCEPT !.tofuEnabled = on], cred)

ResolveAnswer(ref, cred) ==
    VerifyAdmin(cred,
        IF RowOf(ref) = {}                                 THEN NotFound
        ELSE IF \E r \in RowOf(ref) : r.state = "reserved" THEN Lifecycle("reservation-not-exposed")
        ELSE IF \E r \in RowOf(ref) : r.state = "exposed"  THEN Ok
        ELSE Lifecycle("reservation-already-terminal"))

ResolveExposed(ref, outcome, cred) ==
    \/ ResolveAnswer(ref, cred) # Ok /\ UNCHANGED vars
    \/ /\ ResolveAnswer(ref, cred) = Ok
       /\ \E r \in RowOf(ref) : SettleRow(r, outcome)

ResetCumulative(scope, assetId, cred) ==
    LET sa == <<scope, CanonicalizeAsset(assetId)>> IN
    /\ IF cred = "admin" THEN AddToCounters(sa, - Counters(sa).total, 0)
                         ELSE UNCHANGED counters
    /\ UNCHANGED <<env, reservations, committed, policy>>

\* What the adapter throws for a refusal of the object.
MapRefusal(answer) ==
    CASE answer.kind = "ok"        -> "none"
      [] answer.kind = "idreuse"   -> "Error"
      [] answer.kind = "frozen"    -> "SpendScopeFrozenError"
      [] answer.kind = "recipient" -> "RecipientUnpinnedError"
      [] answer.kind = "budget"    -> "BudgetExceededError"
      [] answer.kind = "config"    -> "ConfigurationError"

-------------------------------------------------------------------------------
(* Properties.                                                             *)

\* Every table keeps its columns, and no two rows their primary key.
KeyedBy(rows, Cols(_)) == \A x, y \in rows : Cols(x) = Cols(y) => x = y

TypeOK ==
    /\ \A r \in reservations : r.account \in Accounts /\ r.amount \in Nat
    /\ KeyedBy(reservations, LAMBDA r : <<r.account, r.id>>)
    /\ KeyedBy(committed, LAMBDA c : <<c.account, c.id>>)
    /\ KeyedBy(counters, LAMBDA c : c.account)
    /\ KeyedBy(limitRows, LAMBDA l : l.account)
    /\ KeyedBy(pinRows, LAMBDA p : <<p.scope, p.network>>)
    /\ KeyedBy(recipientPolicy, LAMBDA p : p.scope)
===============================================================================
