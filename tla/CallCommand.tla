------------------------------ MODULE CallCommand ------------------------------
(***************************************************************************)
(* `tx402 call' (cli/run.ts) around client.fetch (core/client.ts): what a  *)
(* script sees of a payment is an exit code and the settlement object of   *)
(* the JSON document.  The command keeps its ledger in its own process; a  *)
(* script may run it again after it exits.                                 *)
(*                                                                         *)
(* The same request path also runs here under a program that calls         *)
(* client.fetch over a shared store, whose calls are lost and resent.      *)
(***************************************************************************)
EXTENDS PaymentClient, Sequences

CONSTANTS
    Reruns  \* exit codes after which the script runs the command again

ASSUME RunsAssumption == Requests = 1 .. Cardinality(Requests) /\ Requests # {}

VARIABLES
    caller,    \* who calls client.fetch
    stage,     \* where each run of the command stands
    dryRun,    \* whether it was run with --dry-run
    announced, \* its budget.reserved events, in order: reservation ids
    exit,      \* the exit code of each run
    settlement \* the settlement object each run reported

shell    == <<stage, dryRun, announced, exit, settlement>>
callVars == <<vars, caller, shell>>

NoSettlement == [status |-> "null", transaction |-> "null"]

CallInit ==
    /\ Init
    /\ caller \in {"command", "program"}
    /\ stage = [q \in Requests |-> "idle"]
    /\ dryRun = [q \in Requests |-> FALSE]
    /\ announced = [q \in Requests |-> <<>>]
    /\ exit = [q \in Requests |-> -1]
    /\ settlement = [q \in Requests |-> NoSettlement]

-------------------------------------------------------------------------------
(* The exit.                                                               *)

\* Mutant of ExitCodes: what was transmitted without an answer is a transport error.
AmbiguousAsTransport(paid, transmitted) ==
    CASE paid = "unknown"            -> {7}
      [] paid = "yes"                -> {9}
      [] paid = "no" /\ transmitted  -> {9}
      [] paid = "no" /\ ~transmitted -> {2, 3, 4, 5, 6, 7}

\* The exit codes an error with this `paid' context is raised under, before
\* and after its signature left the process.
ExitCodes(paid, transmitted) ==
    CASE paid = "unknown"            -> {8}
      [] paid = "yes"                -> {9}
      [] paid = "no" /\ transmitted  -> {9}
      [] paid = "no" /\ ~transmitted -> {2, 3, 4, 5, 6, 7}

\* client.getBudgetState().entries: the snapshot taken when the request ended.
Entries(q) == { id \in Ids : id[1] = q /\ record[id] = "committed" }

\* Mutant of SettlementFor: the newest reservation is reported as it stands.
SettlementOfLast(q, status) ==
    IF announced[q] = <<>> THEN NoSettlement
    ELSE [status |-> "committed",
          transaction |-> announced[q][Len(announced[q])]]

\* Read from the first budget.reserved of the stream; the transaction is that of
\* the entry with its id.
SettlementFor(q, status) ==
    IF announced[q] = <<>> THEN NoSettlement
    ELSE [status |-> status,
          transaction |-> IF Head(announced[q]) \in Entries(q)
                          THEN Head(announced[q]) ELSE "null"]

Reports(q, code, report) ==
    /\ stage' = [stage EXCEPT ![q] = "exited"]
    /\ exit' = [exit EXCEPT ![q] = code]
    /\ settlement' = [settlement EXCEPT ![q] = report]
    /\ UNCHANGED <<caller, dryRun, announced>>

Exits(q, code) == Reports(q, code, NoSettlement)

-------------------------------------------------------------------------------
(* One run of the command.                                                 *)

GoesOn(q, from, to) ==
    /\ caller = "command" /\ stage[q] = from
    /\ stage' = [stage EXCEPT ![q] = to]

\* The script runs the command again when its exit code says nothing was paid:
\* a code of its list, or a resource failure that reports no settlement.
Again(q) ==
    /\ stage[q] = "exited"
    /\ \/ exit[q] \in Reruns
       \/ exit[q] = 9 /\ settlement[q].status = "null"

Starts(q) ==
    /\ GoesOn(q, "idle", "started")
    /\ q > 1 => Again(q - 1)
    /\ \E dry \in BOOLEAN : dryRun' = [dryRun EXCEPT ![q] = dry]
    /\ UNCHANGED <<vars, caller, announced, exit, settlement>>

\* The arguments, a malformed key, or the configuration of the client are refused.
UsageRefused(q) ==
    /\ caller = "command" /\ stage[q] = "started"
    /\ Exits(q, 2)
    /\ UNCHANGED vars

\* A family without a key, or whose package is missing, is just not offered.
ResolvesSigners(q) ==
    /\ GoesOn(q, "started", "asking")
    /\ UNCHANGED <<vars, caller, dryRun, announced, exit, settlement>>

\* A body that cannot be replayed, a reserved header, a domain the policy does
\* not allow, the transport; or a challenge that does not decode.
AskFails(q) ==
    /\ caller = "command" /\ stage[q] = "asking"
    /\ \E code \in {2, 3, 5, 7} : Exits(q, code)
    /\ UNCHANGED vars

\* Anything but a 402 is the answer.
AnsweredFree(q) ==
    /\ GoesOn(q, "asking", IF dryRun[q] THEN "planned" ELSE "body")
    /\ UNCHANGED <<vars, caller, dryRun, announced, exit, settlement>>

Challenged(q) ==
    /\ GoesOn(q, "asking", IF dryRun[q] THEN "planned" ELSE "paying")
    /\ UNCHANGED <<vars, caller, dryRun, announced, exit, settlement>>

\* client.plan: policy and routes, and what they may refuse; then the rendering.
DryRunEnds(q) ==
    /\ caller = "command" /\ stage[q] = "planned"
    /\ \E code \in {0, 2, 3, 4, 5, 7} : Exits(q, code)
    /\ UNCHANGED vars

\* budget.reserved is the event of a reservation that was granted.
Reserved(q) ==
    /\ ReserveReturns(q)
    /\ announced' = IF reply[q] = "ok"
                    THEN [announced EXCEPT ![q] = Append(@, Current(q))] ELSE announced
    /\ UNCHANGED <<caller, stage, dryRun, exit, settlement>>

Proceeds(q) ==
    /\ \/ PlanFails(q) \/ Plans(q) \/ SignFails(q) \/ Signs(q) \/ FenceFails(q) \/ Transmits(q)
       \/ TransmissionFails(q) \/ CommitReturns(q) \/ ReleaseReturns(q)
    /\ UNCHANGED <<caller, shell>>

Pays(q) == /\ caller = "command" /\ stage[q] = "paying"
           /\ Reserved(q) \/ Proceeds(q)

FetchReturns(q) ==
    /\ pc[q] = "done" /\ outcome[q] = "delivered"
    /\ GoesOn(q, "paying", "body")
    /\ UNCHANGED <<vars, caller, dryRun, announced, exit, settlement>>

FetchThrows(q) ==
    /\ caller = "command" /\ stage[q] = "paying"
    /\ pc[q] = "done" /\ outcome[q] # "delivered"
    /\ \E code \in ExitCodes(outcome[q], Current(q) \in onWire) :
          Reports(q, code,
                  CASE outcome[q] = "no"      -> NoSettlement
                    [] outcome[q] = "yes"     -> SettlementFor(q, "committed")
                    [] outcome[q] = "unknown" -> SettlementFor(q, "unknown"))
    /\ UNCHANGED vars

BodyReads(q) ==
    /\ caller = "command" /\ stage[q] = "body"
    /\ Reports(q, 0, SettlementFor(q, "committed"))
    /\ UNCHANGED vars

\* response.text() rejects: an error of no class of the SDK, so a usage exit.
BodyFails(q) ==
    /\ caller = "command" /\ stage[q] = "body"
    /\ Exits(q, 2)
    /\ UNCHANGED vars

Run(q) ==
    /\ pc[q] # "crashed"
    /\ \/ Starts(q) \/ UsageRefused(q) \/ ResolvesSigners(q)
       \/ AskFails(q) \/ AnsweredFree(q) \/ Challenged(q) \/ DryRunEnds(q)
       \/ Pays(q) \/ FetchReturns(q) \/ FetchThrows(q) \/ BodyReads(q) \/ BodyFails(q)

-------------------------------------------------------------------------------
(* What surrounds it.                                                      *)

\* The command's store is a MemorySpendStore of its own process: a call is
\* handled once and answered, and nobody else reaches the records.
OwnStore ==
    /\ caller = "command"
    /\ \E id \in Ids :
          \/ /\ StoreReserve(id) \/ StoreExpose(id) \/ StoreRelease(id) \/ StoreCommit(id)
             /\ calls' # calls /\ reply' # reply
          \/ Lapse(id) /\ pc[id[1]] # "crashed"
    /\ UNCHANGED <<caller, shell>>

\* The process is killed: there is no exit code, and the script stops.
Killed(q) ==
    /\ caller = "command" /\ stage[q] \notin {"idle", "exited"}
    /\ Crashes(q)
    /\ UNCHANGED <<caller, shell>>

Merchant ==
    /\ caller = "command"
    /\ \/ \E q \in Requests, result \in Results(Statuses) : Answers(q, result)
       \/ \E id \in Ids : Settles(id) \/ RunsOut(id)
    /\ UNCHANGED <<caller, shell>>

\* A program calls client.fetch once, over a store that others reach too.
Program ==
    /\ caller = "program"
    /\ ClientStep(1) \/ Crashes(1) \/ StoreStep \/ World
    /\ UNCHANGED <<caller, shell>>

CallNext == \/ \E q \in Requests : Run(q) \/ Killed(q)
            \/ OwnStore \/ Merchant \/ Program

CallSpec == CallInit /\ [][CallNext]_callVars

\* The event loop runs what is runnable; the store in the process answers; a
\* merchant answers the first request and ends its body, on which the command
\* sets no deadline.
FairCallSpec ==
    /\ CallSpec
    /\ \A q \in Requests : WF_callVars(Run(q))
    /\ WF_callVars(OwnStore)
    /\ WF_callVars(caller = "program" /\ ClientStep(1) /\ UNCHANGED <<caller, shell>>)

-------------------------------------------------------------------------------
(* Properties.                                                             *)

PaidFor(q) == { id \in settled : id[1] = q }

\* A script that runs the command again whenever its exit says that nothing was
\* paid pays at most once, over all runs, attempts and re-challenges.
RerunPaysOnce == caller = "command" => Cardinality(settled) <= 1

\* What is reported of the money is what the ledger holds: a transaction only of
\* a committed payment, `committed' and `unknown' only over one that is
\* committed or exposed.
SettlementIsBacked ==
    \A q \in Requests :
        LET told == settlement[q]
            states == { record[id] : id \in { i \in Ids : i[1] = q } }
        IN  /\ told.transaction # "null" => record[told.transaction] = "committed"
            /\ told.status = "committed" => "committed" \in states
            /\ told.status = "unknown"   => "exposed" \in states

\* run.ts: exit 8 and exit 9 are the two failures where money is in play.
MoneyShowsInExit ==
    \A q \in Requests :
        stage[q] = "exited" /\ exit[q] \notin {0, 8, 9} =>
            \A id \in Ids : id[1] = q => ~Payable(id)

\* Every run of the command ends, and so does every request of the program.
EveryCallEnds ==
    /\ caller = "program" => <>(pc[1] \in {"done", "crashed"})
    /\ \A q \in Requests :
          stage[q] = "started" ~> stage[q] = "exited" \/ pc[q] = "crashed"
===============================================================================
