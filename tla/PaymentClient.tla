----------------------------- MODULE PaymentClient -----------------------------
(***************************************************************************)
(* The paid request path of core/client.ts: executePayment and             *)
(* attemptPayment, for several requests that share one budget account of   *)
(* a spend store, a merchant that may settle what it was sent at any time, *)
(* and the operator who resolves what stays exposed.                       *)
(*                                                                         *)
(* Each attempt takes a reservation of its own, signs, fences (expose),    *)
(* transmits, and obeys the disposition table.  A store call is a message: *)
(* it may be handled late, its reply may be lost, and the client may see   *)
(* it fail although it takes effect.                                       *)
(***************************************************************************)
EXTENDS AtomicAmounts, Integers, Completion

CONSTANTS
    Requests,         \* calls of client.fetch that met a 402
    MaxPaidAttempts,  \* policy.maxPaidAttempts
    Amounts,          \* prices a challenge may ask
    Cap,              \* the cumulative cap in force for the account
    Statuses,         \* HTTP statuses a merchant answers with
    Resends,          \* TRUE: the store's driver may deliver a call again
    OperatorWaits     \* TRUE: an exposure is released only once its authorization is void

ASSUME AttemptAssumption == MaxPaidAttempts \in 1 .. 3
ASSUME PriceAssumption   == Amounts \subseteq Nat \ {0} /\ Cap \in Nat
ASSUME ChoiceAssumption  == Resends \in BOOLEAN /\ OperatorWaits \in BOOLEAN
ASSUME StatusAssumption  == Statuses \subseteq 200 .. 599
ASSUME RequestAssumption == IsFiniteSet(Requests)

\* A reservation id is fresh for every attempt of every request (uuidV7).
Ids == Requests \X (1 .. MaxPaidAttempts)

VARIABLES
    record,      \* the store: state per reservation id
    spent,       \* the store: lifetime committed
    calls,       \* store calls under way
    pc,          \* where each request stands
    attempt,     \* its signed attempt, counted from 1
    reply,       \* what its awaited store call came back with
    disposition, \* what the table said of its last transmission
    outcome,     \* what the caller was told of the money
    price,       \* the amount each attempt reserved and signed
    onWire,      \* reservations whose signature was transmitted
    settled,     \* those the merchant settled on chain
    renounced,   \* those it declined, and will not settle
    void         \* those whose authorization ran out

store  == <<record, spent>>
client == <<pc, attempt, reply, disposition, outcome, price>>
chain  == <<onWire, settled, renounced, void>>
vars   == <<store, calls, client, chain>>

Current(q) == <<q, attempt[q]>>

\* The store call awaited at each place of the request path.
Awaited == [reserving |-> "reserve", fencing |-> "expose",
            releasing |-> "release", committing |-> "commit"]
Waits   == DOMAIN Awaited
Places  == Waits \cup {"planning", "signing", "waiting", "done", "crashed"}

Init ==
    /\ record = [id \in Ids |-> "absent"]
    /\ spent = 0
    /\ calls = {}
    /\ pc = [q \in Requests |-> "planning"]
    /\ attempt = [q \in Requests |-> 1]
    /\ reply = [q \in Requests |-> "none"]
    /\ disposition = [q \in Requests |-> "none"]
    /\ outcome = [q \in Requests |-> "none"]
    /\ price = [id \in Ids |-> 0]
    /\ onWire = {}
    /\ settled = {}
    /\ renounced = {}
    /\ void = {}

-------------------------------------------------------------------------------
(* The store, one atom per call, as SpendStore promises.                   *)

HeldIds == { id \in Ids : record[id] \in {"reserved", "exposed"} }
Consumed == spent + AtomicTotal(HeldIds, price)

\* The call is handled; its reply reaches the request if that still waits for
\* it, unless the reply is lost.  A driver that resends may deliver it again.
Handles(op, id) ==
    /\ [op |-> op, id |-> id] \in calls
    /\ \/ calls' = calls \ {[op |-> op, id |-> id]}
       \/ Resends /\ UNCHANGED calls

Replies(op, id, answer) ==
    /\ UNCHANGED <<pc, attempt, disposition, outcome, price>>
    /\ \/ UNCHANGED reply
       \/ /\ pc[id[1]] \in Waits /\ Awaited[pc[id[1]]] = op
          /\ Current(id[1]) = id /\ reply[id[1]] = "none"
          /\ reply' = [reply EXCEPT ![id[1]] = answer]

Moves(id, state) == record' = [record EXCEPT ![id] = state]

\* A replay answers with the record it finds; a new one must fit under the cap.
StoreReserve(id) ==
    /\ Handles("reserve", id)
    /\ \/ /\ record[id] # "absent"
          /\ Replies("reserve", id, "ok")
          /\ UNCHANGED record
       \/ /\ record[id] = "absent"
          /\ Consumed + price[id] <= Cap
          /\ Moves(id, "reserved")
          /\ Replies("reserve", id, "ok")
       \/ /\ record[id] = "absent"    \* over a cap, frozen, or recipient not pinned
          /\ Replies("reserve", id, "refused")
          /\ UNCHANGED record
    /\ UNCHANGED <<spent, chain>>

StoreExpose(id) ==
    /\ Handles("expose", id)
    /\ \/ /\ record[id] \in {"reserved", "exposed"}
          /\ Moves(id, "exposed")
          /\ Replies("expose", id, "ok")
       \/ /\ record[id] \notin {"reserved", "exposed"}
          /\ Replies("expose", id, "refused")
          /\ UNCHANGED record
    /\ UNCHANGED <<spent, chain>>

StoreRelease(id) ==
    /\ Handles("release", id)
    /\ \/ record[id] \in {"reserved", "exposed"} /\ Moves(id, "released")
       \/ record[id] \notin {"reserved", "exposed"} /\ UNCHANGED record
    /\ Replies("release", id, IF record[id] = "absent" THEN "refused" ELSE "ok")
    /\ UNCHANGED <<spent, chain>>

\* Mutant of StoreCommit: a commit delivered again counts again.
StoreCommitAgain(id) ==
    /\ Handles("commit", id)
    /\ record[id] \in {"reserved", "exposed", "committed"}
    /\ Moves(id, "committed")
    /\ spent' = spent + price[id]
    /\ Replies("commit", id, "ok")
    /\ UNCHANGED chain

StoreCommit(id) ==
    /\ Handles("commit", id)
    /\ \/ /\ record[id] \in {"reserved", "exposed"}
          /\ Moves(id, "committed")
          /\ spent' = spent + price[id]
          /\ Replies("commit", id, "ok")
       \/ /\ record[id] \notin {"reserved", "exposed"}
          /\ Replies("commit", id, IF record[id] = "committed" THEN "ok" ELSE "refused")
          /\ UNCHANGED store
    /\ UNCHANGED chain

\* RESERVATION_TTL_MS has passed: only what was never fenced lapses.
Lapse(id) ==
    /\ record[id] = "reserved"
    /\ Moves(id, "expired")
    /\ UNCHANGED <<spent, calls, client, chain>>

StoreStep == \E id \in Ids : \/ StoreReserve(id) \/ StoreExpose(id)
                             \/ StoreRelease(id) \/ StoreCommit(id) \/ Lapse(id)

-------------------------------------------------------------------------------
(* One request.                                                            *)

Goes(q, place) == pc' = [pc EXCEPT ![q] = place]

\* The request sends a store call and waits for it.
Sends(q, place) ==
    /\ Goes(q, place)
    /\ calls' = calls \cup {[op |-> Awaited[place], id |-> Current(q)]}
    /\ reply' = [reply EXCEPT ![q] = "none"]

\* The caller is told whether money moved; a typed error without a `paid' says no.
Ends(q, paid) ==
    /\ Goes(q, "done")
    /\ outcome' = [outcome EXCEPT ![q] = paid]

\* The awaited call throws: an outage, whether or not the store will act on it.
StoreFails(q) ==
    /\ pc[q] \in Waits /\ reply[q] = "none"
    /\ reply' = [reply EXCEPT ![q] = "failed"]
    /\ UNCHANGED <<store, calls, pc, attempt, disposition, outcome, price, chain>>

\* Policy or route planning refuses the challenge.
PlanFails(q) ==
    /\ pc[q] = "planning"
    /\ Ends(q, "no")
    /\ UNCHANGED <<store, calls, attempt, reply, disposition, price, chain>>

Plans(q) ==
    /\ pc[q] = "planning"
    /\ \E a \in Amounts : price' = [price EXCEPT ![Current(q)] = a]
    /\ Sends(q, "reserving")
    /\ UNCHANGED <<store, attempt, disposition, outcome, chain>>

ReserveReturns(q) ==
    /\ pc[q] = "reserving" /\ reply[q] # "none"
    /\ \/ reply[q] = "ok" /\ Goes(q, "signing") /\ UNCHANGED outcome
       \/ reply[q] # "ok" /\ Ends(q, "no")
    /\ UNCHANGED <<store, calls, attempt, reply, disposition, price, chain>>

\* The signer, or building the paid request, fails: nothing was transmitted.
SignFails(q) ==
    /\ pc[q] = "signing"
    /\ Sends(q, "releasing")
    /\ disposition' = [disposition EXCEPT ![q] = "failed"]
    /\ UNCHANGED <<store, attempt, outcome, price, chain>>

Signs(q) ==
    /\ pc[q] = "signing"
    /\ Sends(q, "fencing")
    /\ UNCHANGED <<store, attempt, disposition, outcome, price, chain>>

FenceFails(q) ==
    /\ pc[q] = "fencing" /\ reply[q] \in {"refused", "failed"}
    /\ Sends(q, "releasing")
    /\ disposition' = [disposition EXCEPT ![q] = "failed"]
    /\ UNCHANGED <<store, attempt, outcome, price, chain>>

\* Mutant of Transmits: a fence write that failed does not stop the transmission.
TransmitsUnfenced(q) ==
    /\ pc[q] = "fencing" /\ reply[q] \in {"ok", "failed"}
    /\ Goes(q, "waiting")
    /\ onWire' = onWire \cup {Current(q)}
    /\ UNCHANGED <<store, calls, attempt, reply, disposition, outcome, price,
                   settled, renounced, void>>

Transmits(q) ==
    /\ pc[q] = "fencing" /\ reply[q] = "ok"
    /\ Goes(q, "waiting")
    /\ onWire' = onWire \cup {Current(q)}
    /\ UNCHANGED <<store, calls, attempt, reply, disposition, outcome, price,
                   settled, renounced, void>>

\* AmbiguousPaymentError or PaidRedirectBlockedError: the reservation stays exposed.
Unresolved(q) == Ends(q, "unknown")

\* The result of the transmission is classified, and the table obeyed.
Obeys(q, result) ==
    LET d == ClassifyPaidAttempt(attempt[q], MaxPaidAttempts, result)
    IN  /\ disposition' = [disposition EXCEPT ![q] = d]
        /\ \/ /\ d = "ambiguous"
              /\ Unresolved(q)
              /\ UNCHANGED <<calls, reply>>
           \/ /\ d \in {"commit", "paid-undelivered"}
              /\ Sends(q, "committing")
              /\ UNCHANGED outcome
           \/ /\ d \in {"failed", "rechallenge"}
              /\ Sends(q, "releasing")
              /\ UNCHANGED outcome
        /\ UNCHANGED <<store, attempt, price>>

\* Mutant of TransmissionFails: no deadline, only a merchant that settled hangs up.
TransmissionUntimed(q) ==
    /\ pc[q] = "waiting" /\ Current(q) \in settled
    /\ Obeys(q, [kind |-> "transport-failure", status |-> 0, settlement |-> "absent"])
    /\ UNCHANGED chain

\* The deadline of the paid retry, or the transport, ends the wait.
TransmissionFails(q) ==
    /\ pc[q] = "waiting"
    /\ Obeys(q, [kind |-> "transport-failure", status |-> 0, settlement |-> "absent"])
    /\ UNCHANGED chain

\* Mutant of CommitReturns: a commit that could not be recorded reads as unpaid.
CommitFailureUnpaid(q) ==
    /\ pc[q] = "committing" /\ reply[q] # "none"
    /\ Ends(q, IF reply[q] # "ok" THEN "no"
               ELSE IF disposition[q] = "commit" THEN "delivered" ELSE "yes")
    /\ UNCHANGED <<store, calls, attempt, reply, disposition, price, chain>>

CommitReturns(q) ==
    /\ pc[q] = "committing" /\ reply[q] # "none"
    /\ Ends(q, IF reply[q] = "ok" /\ disposition[q] = "commit" THEN "delivered" ELSE "yes")
    /\ UNCHANGED <<store, calls, attempt, reply, disposition, price, chain>>

\* releaseQuietly: whatever came of the release, the request goes on.
ReleaseReturns(q) ==
    /\ pc[q] = "releasing" /\ reply[q] # "none"
    /\ \/ Ends(q, "no") /\ UNCHANGED attempt   \* failed, or undecodable re-challenge
       \/ /\ disposition[q] = "rechallenge"
          /\ Goes(q, "planning")
          /\ attempt' = [attempt EXCEPT ![q] = @ + 1]
          /\ UNCHANGED outcome
    /\ UNCHANGED <<store, calls, reply, disposition, price, chain>>

\* What the request does by itself, once it may go on.
Turn(q) == \/ PlanFails(q) \/ Plans(q) \/ ReserveReturns(q)
           \/ SignFails(q) \/ Signs(q) \/ FenceFails(q) \/ Transmits(q)
           \/ TransmissionFails(q) \/ CommitReturns(q) \/ ReleaseReturns(q)

ClientStep(q) == Turn(q) \/ StoreFails(q)

\* The process dies; calls it had under way may still be handled.
Crashes(q) ==
    /\ pc[q] \notin {"done", "crashed"}
    /\ Goes(q, "crashed")
    /\ UNCHANGED <<store, calls, attempt, reply, disposition, outcome, price, chain>>

-------------------------------------------------------------------------------
(* The merchant, the chain and the operator.                               *)

\* The merchant states that it did not settle: it asks again, refuses the
\* request, or reports an unsuccessful settlement beside a success status.
Declines(result) ==
    /\ result.kind = "response"
    /\ \/ /\ result.status \in 400 .. 499
          /\ result.settlement \in {"absent", "unsuccessful"}
       \/ result.status \in 200 .. 299 /\ result.settlement = "unsuccessful"

\* A merchant tells the truth: it declines only what it has not settled and then
\* never settles it, and reports a success only after it.
Answers(q, result) ==
    /\ pc[q] = "waiting"
    /\ result.kind # "transport-failure"
    /\ Declines(result) => Current(q) \notin settled
    /\ result.settlement = "success" => Current(q) \in settled
    /\ renounced' = IF Declines(result) THEN renounced \cup {Current(q)} ELSE renounced
    /\ Obeys(q, result)
    /\ UNCHANGED <<onWire, settled, void>>

\* The merchant may settle what it was sent whenever its authorization is valid.
Settles(id) ==
    /\ id \in onWire \ (settled \cup renounced \cup void)
    /\ settled' = settled \cup {id}
    /\ UNCHANGED <<store, calls, client, onWire, renounced, void>>

\* MAX_AUTHORIZATION_SECONDS after signing, the chain takes it no more.
RunsOut(id) ==
    /\ record[id] = "exposed" /\ id \notin void
    /\ void' = void \cup {id}
    /\ UNCHANGED <<store, calls, client, onWire, settled, renounced>>

\* The operator looks the transfer up on chain and resolves the exposure.
ResolveCommitted(id) ==
    /\ record[id] = "exposed" /\ id \in settled
    /\ Moves(id, "committed")
    /\ spent' = spent + price[id]
    /\ UNCHANGED <<calls, client, chain>>

ResolveReleased(id) ==
    /\ record[id] = "exposed" /\ id \notin settled
    /\ OperatorWaits => id \in void
    /\ Moves(id, "released")
    /\ UNCHANGED <<spent, calls, client, chain>>

World == \/ \E q \in Requests, result \in Results(Statuses) : Answers(q, result)
         \/ \E id \in Ids : \/ Settles(id) \/ RunsOut(id)
                             \/ ResolveCommitted(id) \/ ResolveReleased(id)

Next == \/ \E q \in Requests : ClientStep(q) \/ Crashes(q)
        \/ StoreStep
        \/ World

Spec == Init /\ [][Next]_vars

-------------------------------------------------------------------------------
(* Properties.                                                             *)

TypeOK ==
    /\ record \in [Ids -> {"absent", "reserved", "exposed", "committed", "released",
                           "expired"}]
    /\ spent \in Nat
    /\ calls \subseteq [op : {"reserve", "expose", "release", "commit"}, id : Ids]
    /\ pc \in [Requests -> Places]
    /\ attempt \in [Requests -> 1 .. MaxPaidAttempts]
    /\ reply \in [Requests -> {"none", "ok", "refused", "failed"}]
    /\ disposition \in [Requests -> {"none", "ambiguous", "commit", "paid-undelivered",
                                     "failed", "rechallenge"}]
    /\ outcome \in [Requests -> {"none", "no", "yes", "unknown", "delivered"}]
    /\ price \in [Ids -> Amounts \cup {0}]
    /\ onWire \subseteq Ids /\ settled \subseteq onWire
    /\ renounced \subseteq onWire /\ void \subseteq Ids

\* The point of the whole design: whatever is lost, late, ambiguous or crashed,
\* what really settles on chain never exceeds the cumulative cap.
MoneyWithinCap == AtomicTotal(settled, price) <= Cap

\* The merchant has settled it, or still could.
Payable(id) == id \in settled \/ id \in onWire \ (renounced \cup void)

\* Every signature that has settled or still may is on the books as exposed or
\* committed: no failure path gives its budget back.
PayableIsCovered == \A id \in Ids : Payable(id) => record[id] \in {"exposed", "committed"}

\* One fetch pays at most once, re-challenges included.
PaysOnce == \A q \in Requests : Cardinality({ id \in settled : id[1] = q }) <= 1

\* A caller told that no money moved may retry: none of the signatures of that
\* request has settled, or ever will.  One told it was delivered finds it spent.
HonestOutcome ==
    \A q \in Requests :
        /\ outcome[q] = "no" => \A id \in Ids : id[1] = q => ~Payable(id)
        /\ outcome[q] = "delivered" => record[Current(q)] = "committed"

\* What the requests, resent calls and the operator do to the store keeps its contract.
Account  == "account"
Contract == INSTANCE SpendStore
    WITH Accounts <- {Account}, Caps <- {Cap}, NoCap <- -1,
         record <- [k \in {Account} \X Ids |->
                       [state |-> record[k[2]],
                        amount |-> IF record[k[2]] = "absent" THEN 0 ELSE price[k[2]]]],
         spent <- [a \in {Account} |-> spent]

KeepsContract == Contract!ContractSpec
===============================================================================
