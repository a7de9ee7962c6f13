# tx402: a TLA+ model of its spend governance

tx402 is a buyer's SDK for x402: an agent calls `client.fetch(url)`, the merchant
answers 402 with a price, the SDK checks the price against a policy, plans a route,
reserves the amount in a *spend store*, signs an authorization, sends it, and settles
the reservation according to what came back. This directory models that path, the
four spend stores it may run on, the gateway and the command line around them,
checks the models with TLC on small instances, and proves with TLAPS, for every value of the
constants, nearly all of the safety properties that the runs check: of the memory ledger, Redis,
planning and signing, the paid request path, the command, the gateway and its verbs, and the two
RPC pools. Paths below are relative to `src/packages/tx402/src/` of the repository,
those of the guides to `src/docs/src/content/docs/`.

## 1. Inventory

| Component | State it keeps | Operations | Talks to |
|---|---|---|---|
| Spend ledger, `core/ledger.ts` (`MemorySpendStore`) | reservations, commit entries, lifetime committed and exposed counters, freezes, administered limits, pins and recipient policy | `reserve expose commit release resolveExposed`, reads that sweep, seven admin setters | client, operator |
| Store contract, `core/ledger.ts:159-281` | — | the interfaces `SpendStore`, `SpendStoreAdmin` | implemented by all four stores |
| Redis store, `redis/` | the ledger as hashes, two index sets and decimal strings, on the backend's clock | one Lua script per operation | fleets of clients |
| Durable Object store, `durable-object/` | the ledger as SQLite rows, one object per scope or one coordinator | one RPC per operation | fleets of clients |
| Gateway, `gateway/` | none; it holds two stores and two tokens | version, route, token, plane, body and schema gates; dispatch; the client that offers it as a store again | HTTP clients, a store |
| Payment client, `core/client.ts` | one program counter per `fetch` | policy, plan, reserve, sign, fence, transmit, dispose, re-challenge | everything below |
| Completion table, `core/completion.ts` | none (pure) | `classifyPaidAttempt` | the client |
| Policy engine, `core/policy.ts` | configuration | `evaluate`: advisory, before the store decides | client, store reads |
| Route planner, `core/routing.ts`; adapters, `evm/`, `solana/` | per pass: probes, shared balance lookups | probe, rank, choose, blame; sign | RPC pools, signers |
| Health index, `core/health.ts`; RPC pools | circuits and samples per endpoint | admit, record, open, evict | shared by all requests of a client |
| CLI, `cli/` | none; an exit code per run | `call`, and the operator verbs `freeze unfreeze budget pins rotate-recipient` | client, gateway or store |
| Manifest, `core/manifest.ts`, `core/canonical-json.ts` | none (a signed document) | verify, resolve a network name; what has a canonical form | client construction, policy |
| Protocol decoding, `core/protocol.ts` | none (pure) | `decodePaymentRequired`: header to offers | client |
| Errors, money, fingerprints, signer factories | — | printing, hashing, encoding | — |
| Python SDK, `src/packages/tx402-python` | as above | as above | a parity port |

**What is hard.** Calls of several requests interleave at every `await`; a store call
may take effect although its caller saw it fail, or be delivered again; the merchant
settles when it likes and its answer may be lost; processes die between two calls;
reservations lapse by a clock; operators freeze, lower caps, reset counters and resolve
exposures in between; re-challenges sign a second time; what the policy pass read is
stale when the store decides; a header, or a manifest, may say one thing to one reader and another
to the next; probes of one plan share lookups that fail; a script
acts on an exit code alone. `PROJECT.json` lists each hazard at its line.

**What makes each component right.** The ledger: its caps bound what is outstanding,
its counters equal what its records say, exposed money is never swept, a settlement
counts once, freezes and pins bind. The shared stores: they answer alike and keep the
same contract, whatever their layout. The client: whatever can still be settled is on the books,
what settles stays under the cap, a request pays once and tells its caller the truth
about money, and it ends. The planner: the route chosen and the blame given
depend on what was observed and not on which probe was first. The pools: a half-open
probe has a holder who gives it back, an endpoint on the wrong chain stays shut. The
gateway and the CLI: an answer, or an exit code, never says that something was done which
was not.

## 2. Modules

| Module | Models | Composes |
|---|---|---|
| `AtomicAmounts` | sums of amounts, without recursion, so that they can be proved about | |
| `SpendStore` | the abstract contract of a store, for the lifetime budget | |
| `MemorySpendStore` | every method of `MemorySpendStore` | implements `SpendStore` |
| `StorePolicy` | the same with a history of whom each scope paid | `MemorySpendStore` |
| `StoreCalls` | the calls, keys and refusals of a shared store | |
| `RedisSpendStore`, `DurableSpendStore` | every script and adapter call; every object operation and stub call | |
| `SharedStores` | both of them under one history of calls and one backend clock, with resent calls | both; implements `SpendStore` |
| `Gateway` | gates, dispatch and client over a network that loses, delays and mangles | `DurableSpendStore` |
| `OperatorCli` | the operator verbs through the gateway, beside agents and third parties | `Gateway` |
| `CanonicalJson`, `Manifest`, `Challenge` | JSON as it is written; the checks of a release manifest; the decoding of a PAYMENT-REQUIRED header; each extends the one before | |
| `PolicyEngine`, `RoutePlanner`, `PaymentAttempt` | the request from challenge to signature, each extending the one before | `Challenge`, a store's recipient and hourly step |
| `Completion` | the disposition table | |
| `PaymentClient` | the request from reservation to the caller's answer, with store, merchant, chain and operator | `Completion`; implements `SpendStore` |
| `CallCommand` | `tx402 call`, and a program over a shared store | implements `PaymentClient` |
| `HealthIndex` | every method of the health index, as operators | |
| `EvmRpcPool`, `SvmRpcPool` | concurrent reads through the two pools | `HealthIndex` |
| `MC*` | instances for TLC | |
| `*Proofs` | theorems and proofs, section 4 | |

### MemorySpendStore

A JavaScript method without an `await` is one event-loop turn, so each method is
one action. All of them first run `#maintain`, which sweeps the whole ledger with
the time the caller passes; the model does the same with `now`, or, for reads,
with `now + lead`. The maps `#reservations` and `#entries` are functions over all
keys, an absent record standing for a missing key. `reserve` is split by outcome:

- `ReserveUnchanged`: replay, id reuse, freeze, recipient refused, TOFU not
  provisioned. These leave before anything is changed (not even swept).
- `ReserveMisconfigured`: a caller cap above the administered one. A TOFU claim
  made just before **stays** (the code writes the pin at line 650, and throws at 436).
- `ReserveOverBudget`: the ledger has been swept, and a claim stays.
- `ReserveGranted`.

Amounts are naturals: the code uses `bigint`, so nothing overflows. An address is
`[family, name, mixedCase]`; `toLowerCase` clears `mixedCase` for `eip155` only.

### SpendStore, the contract

Records and a spent counter per account. An operation on one key may age any other
key (lapse it, or forget it), never an exposed one. `Granted` must leave spent plus
held under some cap asked for. The memory ledger (`record <- reservations`,
`spent <- cumulative`), the Redis store (whose records are read through their lazy
expiry, `StateNow`) and the store inside `PaymentClient` implement it.

### RedisSpendStore, DurableSpendStore, SharedStores

The two stores keep one ledger in two shapes. In Redis a record is a hash and a member
of an index set, counters are strings, and a script expires only the records it meets, so
a record may lie around reserved although its time is over; `StateNow` is what a script
makes of it, and only the snapshot deletes. In the Durable Object the same are rows
found by columns. What a call *answers* is an operator of the state it meets
(`ReserveAnswer`, `CommitAnswer`, ...), which is what `SameAnswers` compares.
`atomicGlobalFreeze` is the topology: a single Redis or one coordinator object, against a
Cluster or an object per scope; `frozenRows` records in which object a freeze row lies.
A store object built from a data credential refuses the admin plane.

`SharedStores` makes every call to both at the same time. `CallUnanswered` is a call
that was done and whose reply was lost; the connection delivers it again (`Resend`)
within `ResendWithin`, after other calls. No caller uses the id of a call still under way.

### Gateway, OperatorCli

A request is a call with the header and body it came in; the gates are one chain of
conditions in the order of the code, `NodeFront` has the gates Node puts before them. The client's call
is `sent`, `answered`, `settled`; a call whose connection broke may be delivered later
(`stray`), since the client sets no timeout and cannot know. `done` remembers whether the store
did what was asked. `OperatorCli` runs a verb as a sequence of such calls that starts
by fetching the capabilities, and ends it with an exit code.

### CanonicalJson, Manifest, Challenge

Pure. A JSON text is a tree: a function from places, which are sequences of positions, to what
stands there and the key it stands under. One key may stand in an object twice, which is what
`preflightJson` guards against: `Members` are all that stand under a key, `Member` what
`JSON.parse` keeps of them, the last. `PreflightJson` reports the first of the `Mistakes` in
the order the scanner meets them. A string, URL or
timestamp is the value it spells, or `Misshapen`, `BadStamp`. Validation is a chain of `Check`s of which the
first that fails is the answer, in the order of the code. A signature is the key it was made
with and the content it was made over; Ed25519 itself is assumed sound.

### PolicyEngine, RoutePlanner, PaymentAttempt

`client` is what the constructor built, which is refused unless the manifest is in force and
all names it is configured with resolve (`Constructible`); a challenge is the name of a reply
in `Replies`, and `Decoded` what the decoder makes of each.
Each store read of the policy pass is a step, since the pass awaits it; the store moves in
between (`OthersSpend`, other passes). `RoutePlanner` starts all probes together; an
adapter import and a signer's address are looked up once per client, a balance once per
pass, each joined by whoever asks while it is pending; when a shared lookup fails all its
waiters fail (`AllWaiting`) and the next asks anew. `Selects` runs when all are back, and reads
the health of the candidates' endpoints then (`LooksAtHealth`), the pools having moved meanwhile.
`PaymentAttempt` reserves the chosen offer, lets the scheme ask the signer up to `MaxAsks`
times, and counts where the two adapters count: EVM before the signer is awaited, Solana
after. Scores and latencies, which only break ties, are one value.

`SchemeReturns` takes the x402 scheme, a library, to return only after the signatures it asked for have
settled. The labels of errors are coarser than the code's where no property reads them: a probe that joins
another's address lookup is told what the first is told (the code hands the joiner the signer's own error,
`evm/signer.ts:93`), and a failed read of the budget is one of the store's outages (the code passes it on
unwrapped, `core/policy.ts:622`).

### PaymentClient, CallCommand

One program counter per request, at the `await`s of `attemptPayment`. A store call
is a message: the request puts it in `calls`, the store handles it in one step, and
the reply may be lost; `StoreFails` lets a call throw at any time, whether or not
the store will act on it. With `Resends` the driver may deliver a call again.
`Crashes` stops a request at any place and leaves its calls under way. `Obeys`
applies `ClassifyPaidAttempt` to what came back of the transmission.

Outside the code stand three actors, and these are assumptions:

- *The merchant tells the truth*: it declines (402, another 4xx, or an
  unsuccessful settlement beside a 2xx) only what it has not settled and then does
  not settle it, and reports success only after settling. It is otherwise free: it
  may settle and answer 500, a redirect, garbage or nothing. `classifyPaidAttempt`
  rests on this (`core/completion.ts:233-239`).
- *The chain* accepts an authorization until it runs out (at most 60 s).
- *The operator* (`OperatorWaits`) releases an exposure only once its authorization
  has run out.

`CallCommand` wraps it: `caller` is the command, whose ledger lives in its own process and
answers every call, or a program over a shared store that loses and resends. A run of the
command ends with an exit code and a settlement report, read back through the *first*
`budget.reserved` event and a snapshot of the ledger, as the code does. A script runs the command
again (`Again`) when the exit is in `Reruns`, or is 9 with no settlement.

The horizon of these two is shorter than the rolling window, so records are not
forgotten in them; forgetting is covered by the stores and by the contract.

### HealthIndex, EvmRpcPool, SvmRpcPool

The index is a `Map` in recency order: `of`, the entry of each host, and `older`, the hosts
used less recently than it, which is the order as a relation (`InOrder`). Operators are named after the methods. A pool's read is a
record of the locals of `readBalance`; the index is synchronous, so a step of a read is what
runs between two awaits: the outcome of a call is recorded *and* the loop goes on to the
next endpoint that admits it (`Proceed`). What the loop has left is the set `rest` of positions in
the manifest, taken from its least, which is their order in the code. `since` is the `nowEpochMs` the read was given,
which every method of the index sees instead of the present; the planner took it before it loaded the
adapter and asked for the address (`core/client.ts:945`), so it may be older than the start of the read. `probe` is a history
variable: the read was admitted half-open. In `SvmRpcPool` a call has two parts, headers
and body, because `raceRpcDeadline` covers the first only; `task` tells a balance read
from the choice of a URL before signing.

## 3. Runs

| Run | Shows |
|---|---|
| `store_accounting` | caps, counters and maps of the memory ledger agree through lapse, settlement, forgetting and reuse of three ids over two windows; it implements `SpendStore` |
| `store_policy` | an administered cap binds callers without one, also when lowered below consumption; a freeze stops growth; two spellings of an ERC-20 address share one cap; nobody is paid outside the pins in force |
| `shared_stores` | Redis and Durable Object answer every call alike in every state; indices, hashes and counters of Redis agree; a late second delivery moves no money; administered caps bind; Redis implements `SpendStore` |
| `gateway` | what the client is told of a call, and the exit code of a verb, is true; an acknowledged freeze holds until thawed, against late requests and third parties |
| `planning` | the best route is chosen whatever the order of probes; blame is true; one balance read per account; one payee per first-use scope; one signature, of what was reserved, of what the header says to every reader and of an asset the release lists; every pass ends |
| `client_money` | with an operator who waits: money settled on chain never exceeds the cap; all that may still settle is on the books; one payment per fetch; honest outcomes |
| `call_command` | a cautious script pays once over all its runs; reports are backed by the ledger; every run and request ends; resent calls, and an operator who does not wait, keep the store's contract |
| `evm_rpc_circuits` | a probe has a holder, is given back on every path, a failed one reopens and a good one closes for good; an open endpoint is taken up only as a last resort; the index forgets for age or room only |
| `svm_rpc_circuits` | probes and attempts through the nested loops, bodies stalling |
| `store_exposed_hourly`, `svm_rpc_stall`, `call_exit` | the findings below |

**Bounds.** *Ledger:* methods touch one key and sum over one account, and the caps bite
with two or three records: two that fit and one that does not. `TTL = 1` and `Window = 2`
keep lapse and forgetting apart, and `MaxTime` lets a record be made, lapse, be forgotten
and its id be used again. In `store_policy` a history is about caps or about payees,
which share no state but the freeze. *Shared stores:* two ids, one
account, caller inputs chosen so that each refusal of the script can occur;
`MaxDisturbances = 1` operator call or lost reply per history, which still leaves every
one of them in every state two ids can reach; `TTL = Window = 1`, the boundary at which
expiry and sweep meet. *Gateway:* one operator, one agent, one scope and `"*"`, one fault
per history, which is what leaves one request behind; its clock stands still, expiry being the matter of
`shared_stores`. *Planning:* two passes, one contended account with a cap of two units,
both chain families; 34 replies, one for each way a header fails to decode and for each refusal of
policy and adapters, and 14 manifests, one genuine and one for each problem; small `MaxBytes`, `MaxDepth` and
`MaxRequirements` in place of 64 KiB, 16 and 32; the second pass only contends, at the same merchant in one pairing of replies and at another's in
all (`Together`), and `p1` may ask its signer twice. `Scores = {0}`. *Client:* two
requests are what a race needs, two attempts what a re-challenge needs, and a cap of one price
what a contest needs; statuses have one representative per row of the table. *Command:* two
runs. *Pools:* the two providers the code takes (`MAX_PROVIDERS_PER_NETWORK`), two reads, and small
thresholds in the order of the real ones. `Lasts` stands for the deadlines: a read makes
at most four calls of 600 ms, far less than the 30 s of a window; what the adapter's import and the
signer's address took before is bounded with it, though no deadline holds them. On Solana the age has no bound. Symmetry
is used over ids, requests and readers, only where no liveness is checked. Runs whose
requests all end stop, so they do not check deadlock; the stores and the gateway do.

**Fairness.** `planning` assumes weak fairness of each pass's steps and of the shared
lookups: stores, imports, signers and pools settle or throw (the store drivers and the EVM pool
have deadlines; `signer.getAddress` has none and is assumed to return). `call_command` assumes it of
each run's own steps, of the command's own store, which is in the process, and of the
program's request. A request at an `await` always has a step because the call settles
or throws; one waiting for the merchant has one because `raceDeadline` rejects at the
deadline even if the transport ignores its abort signal (`core/client.ts:414`).
The *first* request and the body have no deadline in the command: their steps in `Run` stand for
a merchant that answers and ends its body. Nothing is assumed of a shared store, the merchant's settling
or the operator. `svm_rpc_stall` grants the Solana pool the deadlines it has.

### Findings

1. *An exposed payment leaves the hourly cap by age.* `operations/exposed-reconciliation.mdx:10-12`
   says it keeps consuming the per-hour window until it is resolved; the code counts
   it while its `createdAt` is in the window (`core/ledger.ts:543-553`). The cumulative cap
   holds it for ever, as documented. The other stores count alike.
2. *A Solana provider that stalls its body holds planning for ever*: the deadline covers
   the headers (`solana/rpc.ts:273-299`); `guides/lifecycle.mdx:148-150` says every deadline is
   enforced by racing the work.
3. *A committed payment can exit as a usage error.* `client.fetch` returns after the commit;
   `response.text()` may still reject (`cli/run.ts:534-535`), which is no error of the SDK, so exit 2,
   without the settlement. The comment at `cli/run.ts:563` says exits 8 and 9 are the failures where money is in play.

### Other behaviours met while modelling

No run reports these; they are choices or matters outside a property.

- *Operator.* `listExposed` also returns payments in flight and `resolveExposed` takes any of
  them. "No transfer on chain" is not final before the authorization has run out, and the
  guide does not ask the operator to wait: `OperatorWaits` is what a careful operator does. Without it
  two settlements can exceed the cap, so `client_money` and the theorems on money assume it. `call_command`
  does not: there the early release is taken, and resent calls with it, and the store keeps its contract.
- *Budget snapshot.* The one behind the diagnostics is refreshed after each request by a query that
  another request's may overtake (`core/client.ts:1689`); no decision reads it.
- *Clock.* With a wall clock set back between reserve and commit, an entry is swept
  before its record, and a repeated commit is counted again; the ledger states its one
  clock as an assumption (`core/ledger.ts:452`). No run sets a clock back. The theorems without `OneClock` hold
  for a clock that jumps: exposed money stays counted and held, and terms do not change.
- *Pools.* `recordSuccess` closes any open circuit (`core/health.ts:183-189`), also when a read
  admitted before it opened succeeds; every read proves the chain anew, so no balance of another chain is used. A circuit is looked at when an endpoint is
  taken up: the `eth_call` after a matching chain id (`evm/rpc.ts:180`) may go to one that another read has opened since,
  which `OpenNeedsLastResort` does not speak of.
- *Command.* With two attempts, the settlement is read through the first attempt's
  reservation (`cli/run.ts:336-352`), so a payment settled on the second is reported with
  `transaction: null`. `settlement: null` also goes with an exit 9 after a signature was
  transmitted and declined. `--timeout` covers the paid retry only.
- *Gateway.* An id reused under other terms is a plain `Error` in every store, so it travels as
  a 503 and comes back retryable. Node answers 401 where the Worker answers 426 or 400.
  `gateway-invalid-response` (exit 2) may hide a call that was done, which `ExitTellsTruth` exempts.
- *CLI over a raw Redis DSN.* `freeze`, `unfreeze` and `rotate-recipient` reach the
  connection without the adapter's classification (`redis/store.ts:823-859`), so an outage exits 2,
  where `guides/cli.mdx:421-424` has 7. `OperatorCli` models the verbs over the gateway.
- *Planning.* A `fatal` probe result is set and never read (`core/routing.ts:104-106`). The advisory
  hourly check ignores exposed money and the lifetime cap; the store's does not.

## 4. Proofs

All theorems hold for every value of the constants that satisfies the named assumptions of
the modules. Most of these are types. The others are what the code's constants or its deployment grant:
the TTL is no longer than the window (2 min and 1 h, `TimeAssumption`); no agent and no forged
request carries the admin token, which only the operator's environment holds
(`AdminAssumption`, `gateway/gateway.ts`); a circuit does not open on one failure after one success
(`ThresholdsAssumption`, 5 in a row or half of at least 10); the pool's bounds are numbers, of which the clock's is not 0 (`BoundsAssumption`); two reads end within one open window
(`DeadlinesAssumption`, 2.4 s of calls each against 30 s; it also takes the adapter's import and the first
`getAddress`, which come after the time of a read was taken, to be short).

| Module | Theorem | States | Rests on |
|---|---|---|---|
| `MemorySpendStoreProofs` | `TypeCorrect` | `[]TypeOK` (by this proof alone) | |
| | `ExposedTotalIsExact` | `[]ExposedTotalExact` | |
| | `ExposedAlwaysHeld` | `ExposedHeld` | |
| | `EntriesAlwaysMatch` | `[]EntriesMatchRecords` | `OneClock` |
| | `EveryCommitCountsOnce` | `CommitCountsOnce` | `OneClock` |
| | `CumulativeCeilingHolds` | `[]CumulativeCeiling` | `OneClock` |
| | `HourlyCeilingHolds` | `[]HourlyCeiling` | `OneClock` |
| | `AdministeredCapAlwaysBinds` | `AdministeredCapBinds` | `OneClock` |
| | `FreezeAlwaysHolds` | `FrozenNeverGrows` | `OneClock` |
| | `TermsNeverChange` | `ImmutableTerms`: amount, fingerprint, dates, and a settled state | |
| | `OneCapForAllSpellings` | `CapAcrossSpellings` | `OneClock` |
| | `LedgerKeepsContract` | `ImplementsContract` | `OneClock` |
| | `PinnedPayeesOnly` | `PaidSpec => []PinnedPayees` | |
| `CallCommandProofs` | `ClientTypeCorrect` | `[]TypeOK` of the paid request path | `OperatorWaits` |
| | `PayableAlwaysCovered` | `[]PayableIsCovered` | `OperatorWaits` |
| | `MoneyStaysWithinCap` | `[]MoneyWithinCap` | `OperatorWaits` |
| | `OneFetchPaysOnce` | `[]PaysOnce` | `OperatorWaits` |
| | `OutcomeAlwaysHonest` | `[]HonestOutcome` | `OperatorWaits` |
| | `CommandImplementsClient` | `CallSpec => Spec` | |
| | `CautiousScriptPaysOnce` | `[]RerunPaysOnce` | `OperatorWaits`, `CautiousScript` |
| | `SettlementAlwaysBacked` | `[]SettlementIsBacked` | `OperatorWaits` |
| | `ClientKeepsContract` | `Spec => KeepsContract` | |
| | `CommandKeepsContract` | `CallSpec => KeepsContract` | |
| `PaymentAttemptProofs` | `PaymentAttemptTyped` | the types of planning and signing | |
| | `BlameTrue` | `[]BlameIsTrue` | |
| | `OneRead` | `[]OneReadPerBalance` | |
| | `OnePayee` | `[]OnePayeePerScope` | |
| | `SignedOnce` | `[]SignedOnceAsReserved` | |
| | `BestRoute` | `BestRouteChosen` | |
| `SharedStoresProofs` | `RedisLedgerConsistent` | `[]LedgerConsistent` | |
| | `RedisAdministeredCap` | `AdministeredCapBinds` of Redis | |
| | `RedisKeepsContract` | `RedisImplementsContract` | |
| | `RedisResendMovesNoMoney` | `ResendMovesNoMoney` | |
| | `StoresAnswerAlike` | `[]SameAnswers` | |
| `OperatorCliProofs` | `AnswersAlwaysTellTruth` | `[]AnswersTellTruth` | |
| | `ExitAlwaysTellsTruth` | `ExitTellsTruth` | |
| | `HaltAlwaysHolds` | `[]HaltHolds` | |
| `EvmRpcPoolProofs` | `ProbeAlwaysHasHolder` | `[]ProbeHasHolder` | |
| | `OpenTakesLastResort` | `OpenNeedsLastResort` | |
| | `FailedProbeAlwaysReopens` | `FailedProbeReopens` | |
| | `AlwaysRecoversForGood` | `RecoversForGood` | |
| | `EvictsOnlyForCause` | `EvictsForCause` | |
| | `EvmPoolTypeCorrect` | `[]TypeOK` (by this proof alone) | |
| `SvmRpcPoolProofs` | `ProbeHeldThroughChoices` | `[]ProbeHasHolder` | |
| | `NeverAsksTwice` | `NeverAskedTwice` | |

A sum is the cardinality of the set of atomic units the records hold (`AtomicAmounts`),
so sums follow from the library's facts on finite sets and need no recursion;
`AtomicAmountsProofs` has the lemmas (disjoint union, monotony, changing one key).

**The ledger.** `OneClock` says that the caller's clock never steps back and that no
read is dated ahead of it: what `core/ledger.ts:452` calls "one process, one clock, no
skew". `EntriesMatchRecords` needs that an entry is never older than its record, or
the sweep would prune one without the other. The caps need that a record is never dated ahead of
the clock, so that every reserved record not yet lapsed is in the sum that `reserve`
compares, and that the exposed counter is exact. The sweep is handled once, by lemmas on
`Maintain`; each action is then a sweep followed by a change of one key. For the contract,
`Shadow` is the record as the contract sees it: a sweep only ages keys (`Ages`), and what the
contract holds of an account is what `reserve` summed (`HeldIsConsumed`), so that a grant fits. Spellings
share the cap since every key is written under the one spelling `normalizeAsset` makes (`SpeltOnce`).
For `PinnedPayees` the invariant keeps the history within the pins (`PaidInv`); it is inductive because
canonicalizing a recipient twice is canonicalizing it once, and because a grant presents only what the
pins *after* its own first-use claim allow.

**The paid request path.** None of the four properties is inductive. `ClientInv` adds:

- *control*: a re-challenge is obeyed only while attempts remain; only what was transmitted is
  waited for; the ids of attempts to come are fresh (`FreshAttempts`), so that a price never changes
  under a held record; a release or commit still under way, late or resent, finds its
  attempt over (`SettlingCallsAreLate`), so that it cannot undo a fence;
- *chain*: what was given up, by a release under way or an outcome "no", can no longer be settled
  (`GivenUpIsDead`); nothing is on the wire before its fence answered, and the answer still
  stands or the authorization has run out (`SilentUntilFenced`); what a request was told stays true
  (`AnswersStand`);
- *books*: spent is the total of the committed, and with what is held it fits the cap.

`GivenUpIsDead` is where the truthful merchant enters: by lemma `TableReleases` the table
releases only what the merchant declined. `PayableIsCovered` is where `OperatorWaits`
enters. `MoneyWithinCap` then follows since settled records are exposed or committed, `PaysOnce`
since all earlier attempts are dead.

**The command.** It takes no step but the client's, so `ClientInv` holds of it; `CallInv` adds that a run that
exited outside 0, 2, 8 and 9, or with 9 and no settlement, left nothing payable, and that a
run was started only after all before gave cause. `CautiousScript` says the script's list has none of
those four codes: 2 is among them because of finding 3. `CommandImplementsClient`
is about safety: the fairness of `FairCallSpec` is not part of it.

**Planning and signing.** `AttemptInv` is types and, of each pass: only supported offers are kept,
each is probed, and none is chosen before all are back (`RouteInv`); a balance was read if and only if a
probe got so far, and a probe says what its balance said (`ReadInv`), which gives `BlameInv`; the signer
is given only the terms reserved (`SignInv`). `SignedOnce` differs by family: with EVM the count is
raised before the signer is awaited, so a second request finds it; with Solana it is the number of
signatures, and only one may leave. That the header has one meaning is a fact of the
decoder: a text without a repeated key parses alike from the first and the last member. The first problem of
a check list is the least failing position (`MinIsLeast`, from the library's theorem on well-founded sets).

**The contract.** `ClientKeepsContract` maps the client's store to `SpendStore`: a grant fits under the cap because the sum
over the contract's keys is the sum over ids (`PairedTotal`, a bijection of units), every
other step moves one record along the contract's states, and setting a price is a stutter because
the attempt has no record yet. The control part of the invariant is inductive without
`OperatorWaits`, so the theorem needs no assumption on the operator.

**Redis.** First every script and command is shown to be one of a few steps on the ledger (`LedgerStep`): expiries
written back, one grant, one record moved with its counters, one account swept, one counter reset, a tick.
`LedgerInv` is inductive over these: records carry the times of their reservation (`Dated`), hashes, entries and
indices agree (`Agreeing`), the exposed counter is the sum of the exposed records. The caps need that what a script
sums over its index within the window is all that is live: a reservation that has not lapsed was made less than
`TTL <= Window` ago (`ReadsConsumed`). For a call delivered again, `Done` says where its record stands: a
commit's is committed or gone, and so on, stable under every step but a grant under the same id, which a
call still under way forbids.

**The Durable Object.** `Coupled` ties every table to the keys of Redis: a reservation is the row of a present
hash and an entry the row of a present entry hash, row for key; counters, caps, pins and flags are a row with the
values of their key, or no row where the key has its default; frozen rows are the frozen scopes, `"*"` among
them only under one coordinator (elsewhere the object could not see it). Sums over rows are sums over keys
(`RowsTotal`: the rows of different keys differ, so their units do not mix). Coupled stores answer alike
(`CoupledAnswer`) and a call made to both keeps them coupled (`CoupledStep`). It needs `LedgerInv`: Redis finds records
through an index and the Durable Object by column, which is the same only where hashes, indices and
entries agree; and Redis deletes a swept entry's record through the record's own key, the Durable Object through
the entry's id. So what the other four theorems say of Redis a caller sees of either store.

**The gateway and the verbs.** An answer on its way back only loses precision (`Honest`): what is lost or mangled
becomes an outage or an unreadable answer, never another verdict. For a verb, `VerbInv` says that the request under
way is the one its step calls for. `HaltHolds` needs more: a freeze the operator heard of is a row
that only a request with the admin token and the same scope removes (`Thaws`); the operator
sends none while it believes the scope frozen, and none is left behind on the wire for a scope in
`Kept` -- the scopes acknowledged, and the one being frozen by a verb that started with nothing stray. For `"*"`
the row counts only under one coordinator, which the verb's first request asks for.

**The pools.** Each method of the index is reduced to its effect on the entry of its host; of another host
it can only drop the entry, whose default is a closed circuit without a probe. So the recency order,
which decides what is dropped, plays no part in the first four theorems of the EVM pool and in those of the Solana pool. In `PoolInv`, a probe in flight is known to its circuit, or
the circuit has closed or opened again since (`ProbesKnown`): two reads end within one window, so such
a circuit is not half-open again before the probe is back, and a failure it sees while half-open is the probe's, which
opens it. `Recorded` is what the three outcomes have in common; `Between` is the state between the outcome a
read records and its next claim, in one step of the code. The Solana pool needs the probes only, and that what
its loop has left was never attempted (`Untried`). `EvictsForCause` is about the order: in `Bounded` it is a
strict linear order of the hosts tracked, no more than the cap. A host new to the index makes the excess
one at most, so one host is taken for it, the oldest, and only if that one is not idle; else the idle
ones, which the order puts first, have made the room (`EvictEffect`). The host that is recorded is the
youngest, so what is written over its entry is not written over one just dropped.

**Neither checked nor proved:** `TypeOK` of the Solana pool, which says what its state is.

**Only model-checked:** all liveness, which is beyond the prover; the three findings, which are counterexamples.

## 5. Not modelled

- The bytes of canonical JSON, base64, Ed25519, hashes, fingerprints, decimal money, RPC overrides:
  pure, sequential, covered by the conformance vectors.
- Encoding of typed data and Solana transactions; health scores and latencies.
- `requiredNetworks` of a manifest (`core/manifest.ts:355-362`), which no caller in the SDK passes, and the refusal of TOFU over
  a store without pins (`core/client.ts:1632-1647`): every modelled store has pins.
- Schemas of the gateway beyond well-formed or not; printing and `inspect` of the CLI;
  the operator verbs over a raw Redis or Durable Object.
- The conformance harness, the Python port, tools, examples.
- A Redis that loses acknowledged writes or fails over: a call is atomic and durable here.

## 6. Plan

1. `TypeOK` of the Solana pool as a theorem: the lemmas on entries are those of the EVM pool.
2. The operator verbs over a raw Redis.
