--------------------------- MODULE CallCommandProofs ---------------------------
(***************************************************************************)
(* Theorems about the paid request path and about `tx402 call', for any    *)
(* number of requests, attempts and runs, any prices, statuses and cap,    *)
(* and a store driver that may deliver calls late or again.                *)
(*                                                                         *)
(* The first half is the client's: its inductive invariant, and what       *)
(* follows from it about money.  The command takes no step but the         *)
(* client's, so that invariant holds of it; what is added relates the      *)
(* exits a script acts on to it, and what both do to the store to the      *)
(* contract of a spend store.                                              *)
(***************************************************************************)
EXTENDS CallCommand, AtomicAmountsProofs

-------------------------------------------------------------------------------
(* The inductive invariant, in named parts.                                *)

\* Nothing has been done yet under a reservation id.
Fresh(id) ==
    /\ record[id] = "absent" /\ price[id] = 0 /\ id \notin onWire
    /\ \A c \in calls : c.id # id

\* The ids of attempts still to come are fresh, uuidV7 for each.
FreshAttempts ==
    \A id \in Ids :
        \/ id[2] > attempt[id[1]]
        \/ id[2] = attempt[id[1]] /\ pc[id[1]] = "planning"
        => Fresh(id)

\* The request will not transmit under this id any more.
Over(id) ==
    \/ id[2] < attempt[id[1]]
    \/ /\ id[2] = attempt[id[1]]
       /\ pc[id[1]] \in {"releasing", "committing", "done", "crashed"}

\* A release or commit under way, late or resent, finds the attempt over.
SettlingCallsAreLate == \A c \in calls : c.op \in {"release", "commit"} => Over(c.id)

\* What was given up is dead on chain: an earlier attempt, one whose release is
\* under way, and all that was reported as unpaid.
GivenUpIsDead ==
    /\ \A id \in Ids : id[2] < attempt[id[1]] => ~Payable(id)
    /\ \A q \in Requests : pc[q] = "releasing" \/ outcome[q] = "no" => ~Payable(Current(q))
    /\ \A c \in calls : c.op = "release" => ~Payable(c.id)

\* Nothing is on the wire before the fence has answered, and what the fence
\* answered still stands, unless the authorization has run out meanwhile.
SilentUntilFenced ==
    \A q \in Requests :
        /\ pc[q] \in {"planning", "reserving", "signing", "fencing"} => Current(q) \notin onWire
        /\ pc[q] = "fencing" /\ reply[q] = "ok" =>
               record[Current(q)] = "exposed" \/ Current(q) \in void

\* What a request was told of its reservation stays true.
AnswersStand ==
    \A q \in Requests :
        /\ pc[q] = "committing" /\ reply[q] = "ok" => record[Current(q)] = "committed"
        /\ outcome[q] = "delivered" => record[Current(q)] = "committed"
        /\ outcome[q] # "none" => pc[q] = "done"

\* A re-challenge is only obeyed while the policy permits another attempt.
RechallengesPermitted ==
    \A q \in Requests :
        pc[q] = "releasing" /\ disposition[q] = "rechallenge" => attempt[q] < MaxPaidAttempts

\* Only what was transmitted is waited for.
WaitsForTheWire == \A q \in Requests : pc[q] = "waiting" => Current(q) \in onWire

CommittedIds == { id \in Ids : record[id] = "committed" }

\* The books: spent is what was committed, and with what is held it fits the cap.
BooksBalance == spent = AtomicTotal(CommittedIds, price) /\ Consumed <= Cap

ControlInv == /\ TypeOK /\ RechallengesPermitted /\ WaitsForTheWire
              /\ FreshAttempts /\ SettlingCallsAreLate
ChainInv   == GivenUpIsDead /\ SilentUntilFenced /\ AnswersStand /\ PayableIsCovered
ClientInv  == ControlInv /\ ChainInv /\ BooksBalance

-------------------------------------------------------------------------------
(* Frames: what each actor leaves alone.                                   *)

\* The steps of one request by itself, a crash and an answered transmission
\* included.
RequestStep(q) ==
    \/ ClientStep(q) \/ Crashes(q)
    \/ \E result \in Results(Statuses) : Answers(q, result)

\* The steps that move a record.
RecordStep(id) ==
    \/ StoreReserve(id) \/ StoreExpose(id) \/ StoreRelease(id) \/ StoreCommit(id)
    \/ Lapse(id) \/ ResolveCommitted(id) \/ ResolveReleased(id)

LEMMA StepCases ==
  ASSUME Next
  PROVE  \/ \E q \in Requests : RequestStep(q)
         \/ \E id \in Ids : RecordStep(id) \/ Settles(id) \/ RunsOut(id)
BY DEF Next, World, StoreStep, RequestStep, RecordStep

LEMMA IdsTyped ==
  ASSUME NEW q \in Requests, NEW n \in 1 .. MaxPaidAttempts
  PROVE  <<q, n>> \in Ids
BY DEF Ids

LEMMA CurrentTyped ==
  ASSUME TypeOK, NEW q \in Requests
  PROVE  /\ Current(q) \in Ids /\ Current(q)[1] = q /\ Current(q)[2] = attempt[q]
         /\ attempt[q] \in 1 .. MaxPaidAttempts /\ attempt[q] \in Nat
<1>1. attempt[q] \in 1 .. MaxPaidAttempts
  BY DEF TypeOK
<1>2. MaxPaidAttempts \in Nat
  BY AttemptAssumption
<1> QED BY <1>1, <1>2, IdsTyped DEF Current

\* The table releases only what the merchant declined, and re-challenges only
\* while the policy permits.
LEMMA TableReleases ==
  ASSUME NEW n \in Nat, NEW result \in Results(Statuses),
         ClassifyPaidAttempt(n, MaxPaidAttempts, result) \in {"failed", "rechallenge"}
  PROVE  Declines(result)
<1>1. CASE result.kind # "response"
  BY <1>1 DEF ClassifyPaidAttempt
<1>2. CASE result.kind = "response"
  <2>1. result.status \in Statuses /\ result.settlement \in Evidence
    BY <1>2 DEF Results
  <2>2. result.status \in 200 .. 599
    BY <2>1, StatusAssumption
  <2> QED BY <1>2, <2>1, <2>2 DEF ClassifyPaidAttempt, Declines, Evidence, IsSuccessStatus
<1> QED BY <1>1, <1>2

LEMMA TableTyped ==
  ASSUME NEW n, NEW result
  PROVE  /\ ClassifyPaidAttempt(n, MaxPaidAttempts, result) \in
              {"ambiguous", "commit", "paid-undelivered", "failed", "rechallenge"}
         /\ ClassifyPaidAttempt(n, MaxPaidAttempts, result) = "rechallenge"
              => n < MaxPaidAttempts
BY DEF ClassifyPaidAttempt, Rechallenges

-------------------------------------------------------------------------------
(* Type correctness.                                                       *)

LEMMA RecordStepTyped ==
  ASSUME TypeOK, NEW id \in Ids, RecordStep(id)
  PROVE  TypeOK'
<1>1. /\ record' \in [Ids -> {"absent", "reserved", "exposed", "committed", "released",
                              "expired"}]
      /\ calls' \subseteq calls
      /\ UNCHANGED <<pc, attempt, disposition, outcome, price, chain>>
  BY DEF TypeOK, RecordStep, StoreReserve, StoreExpose, StoreRelease, StoreCommit, Lapse,
         ResolveCommitted, ResolveReleased, Handles, Replies, Moves, store, client, chain
<1>2. spent' \in Nat
  <2>1. price[id] \in Nat /\ spent \in Nat
    <3>1. price[id] \in Amounts \cup {0} /\ spent \in Nat
      BY DEF TypeOK
    <3>2. Amounts \subseteq Nat /\ 0 \in Nat
      BY PriceAssumption
    <3> QED BY <3>1, <3>2, Zenon
  <2>2. spent' \in {spent, spent + price[id]}
    BY DEF RecordStep, StoreReserve, StoreExpose, StoreRelease, StoreCommit, Lapse,
           ResolveCommitted, ResolveReleased, store
  <2> QED BY <2>1, <2>2
<1>3. \/ reply' = reply
      \/ \E answer \in {"ok", "refused"} : reply' = [reply EXCEPT ![id[1]] = answer]
  <2>1. ASSUME NEW op, NEW answer \in {"ok", "refused"}, Replies(op, id, answer)
        PROVE  \/ reply' = reply
               \/ \E a \in {"ok", "refused"} : reply' = [reply EXCEPT ![id[1]] = a]
    BY <2>1 DEF Replies
  <2>2. CASE StoreReserve(id)
    BY <2>1, <2>2 DEF StoreReserve
  <2>3. CASE StoreExpose(id)
    BY <2>1, <2>3 DEF StoreExpose
  <2>4. CASE StoreRelease(id)
    BY <2>1, <2>4 DEF StoreRelease
  <2>5. CASE StoreCommit(id)
    BY <2>1, <2>5 DEF StoreCommit
  <2>6. CASE Lapse(id) \/ ResolveCommitted(id) \/ ResolveReleased(id)
    BY <2>6 DEF Lapse, ResolveCommitted, ResolveReleased, client
  <2> QED BY <2>2, <2>3, <2>4, <2>5, <2>6 DEF RecordStep
<1>4. reply' \in [Requests -> {"none", "ok", "refused", "failed"}]
  BY <1>3 DEF TypeOK
<1> QED BY <1>1, <1>2, <1>4 DEF TypeOK, chain

\* A call sent is a call of a known kind, for an id of the request.
LEMMA SendsTyped ==
  ASSUME TypeOK, NEW q \in Requests, NEW place \in Waits, Sends(q, place)
  PROVE  /\ pc' \in [Requests -> Places]
         /\ calls' \subseteq [op : {"reserve", "expose", "release", "commit"}, id : Ids]
         /\ reply' \in [Requests -> {"none", "ok", "refused", "failed"}]
<1>1. Awaited[place] \in {"reserve", "expose", "release", "commit"} /\ place \in Places
  BY DEF Waits, Awaited, Places
<1> QED BY <1>1, CurrentTyped DEF TypeOK, Sends, Goes

LEMMA PlacesListed ==
  /\ Waits = {"reserving", "fencing", "releasing", "committing"}
  /\ Places = {"reserving", "fencing", "releasing", "committing",
               "planning", "signing", "waiting", "done", "crashed"}
BY DEF Waits, Awaited, Places

LEMMA ObeysTyped ==
  ASSUME TypeOK, NEW q \in Requests, NEW result, Obeys(q, result)
  PROVE  /\ pc' \in [Requests -> Places]
         /\ calls' \subseteq [op : {"reserve", "expose", "release", "commit"}, id : Ids]
         /\ reply' \in [Requests -> {"none", "ok", "refused", "failed"}]
         /\ outcome' \in [Requests -> {"none", "no", "yes", "unknown", "delivered"}]
         /\ disposition' \in [Requests -> {"none", "ambiguous", "commit",
                                           "paid-undelivered", "failed", "rechallenge"}]
<1>1. disposition' \in [Requests -> {"none", "ambiguous", "commit", "paid-undelivered",
                                     "failed", "rechallenge"}]
  BY TableTyped DEF Obeys, TypeOK
<1>2. CASE Unresolved(q) /\ UNCHANGED <<calls, reply>>
  BY <1>1, <1>2, PlacesListed DEF TypeOK, Unresolved, Ends, Goes
<1>3. CASE \E place \in {"committing", "releasing"} : Sends(q, place) /\ UNCHANGED outcome
  BY <1>1, <1>3, PlacesListed, SendsTyped DEF TypeOK
<1> QED BY <1>2, <1>3 DEF Obeys

LEMMA TurnTyped ==
  ASSUME TypeOK, RechallengesPermitted, WaitsForTheWire, NEW q \in Requests, RequestStep(q)
  PROVE  TypeOK'
<1>1. CASE PlanFails(q) \/ ReserveReturns(q) \/ CommitReturns(q) \/ Crashes(q)
  BY <1>1, PlacesListed DEF TypeOK, PlanFails, ReserveReturns, CommitReturns, Crashes, Ends,
                            Goes, store, chain
<1>2. CASE Plans(q)
  BY <1>2, PlacesListed, SendsTyped, CurrentTyped DEF TypeOK, Plans, store, chain
<1>3. CASE SignFails(q) \/ Signs(q) \/ FenceFails(q)
  BY <1>3, PlacesListed, SendsTyped DEF TypeOK, SignFails, Signs, FenceFails, store, chain
<1>4. CASE Transmits(q)
  BY <1>4, PlacesListed, CurrentTyped DEF TypeOK, Transmits, Goes, store
<1>5. CASE TransmissionFails(q)
  BY <1>5, ObeysTyped DEF TypeOK, TransmissionFails, Obeys, store, chain
<1>6. CASE ReleaseReturns(q)
  <2>1. CASE Ends(q, "no") /\ UNCHANGED attempt
    BY <1>6, <2>1, PlacesListed DEF TypeOK, ReleaseReturns, Ends, Goes, store, chain
  <2>2. CASE /\ disposition[q] = "rechallenge"
             /\ Goes(q, "planning")
             /\ attempt' = [attempt EXCEPT ![q] = @ + 1]
             /\ UNCHANGED outcome
    <3>1. attempt[q] + 1 \in 1 .. MaxPaidAttempts
      BY <1>6, <2>2, CurrentTyped, AttemptAssumption DEF RechallengesPermitted, ReleaseReturns
    <3> QED BY <1>6, <2>2, <3>1, PlacesListed DEF TypeOK, ReleaseReturns, Goes, store, chain
  <2> QED BY <1>6, <2>1, <2>2 DEF ReleaseReturns
<1>7. CASE StoreFails(q)
  BY <1>7 DEF TypeOK, StoreFails, store, chain
<1>8. ASSUME NEW result \in Results(Statuses), Answers(q, result)
      PROVE  TypeOK'
  <2>1. renounced' \subseteq renounced \cup {Current(q)} /\ Current(q) \in onWire
    BY <1>8 DEF Answers, WaitsForTheWire
  <2> QED BY <1>8, <2>1, ObeysTyped DEF TypeOK, Answers, Obeys, store
<1> QED BY <1>1, <1>2, <1>3, <1>4, <1>5, <1>6, <1>7, <1>8 DEF RequestStep, ClientStep, Turn

-------------------------------------------------------------------------------
(* Control: attempts, calls under way, and when a request may transmit.    *)

\* What a record step can do: it moves one record as the store answers, takes a
\* call away or leaves it, and answers a request that waits for that call.
LEMMA RecordStepFrame ==
  ASSUME TypeOK, NEW id \in Ids, RecordStep(id)
  PROVE  /\ UNCHANGED <<pc, attempt, disposition, outcome, price, chain>>
         /\ calls' \subseteq calls
         /\ \A j \in Ids \ {id} : record'[j] = record[j]
BY DEF TypeOK, RecordStep, StoreReserve, StoreExpose, StoreRelease, StoreCommit, Lapse,
       ResolveCommitted, ResolveReleased, Handles, Replies, Moves, store, client, chain

\* A handled call was under way.
LEMMA HandledCall ==
  ASSUME NEW id \in Ids
  PROVE  /\ StoreReserve(id) => [op |-> "reserve", id |-> id] \in calls
         /\ StoreExpose(id) => [op |-> "expose", id |-> id] \in calls
         /\ StoreRelease(id) => [op |-> "release", id |-> id] \in calls
         /\ StoreCommit(id) => [op |-> "commit", id |-> id] \in calls
BY DEF StoreReserve, StoreExpose, StoreRelease, StoreCommit, Handles

\* What a step of a request can do: to no other request, and to no record.
LEMMA RequestStepFrame ==
  ASSUME TypeOK, NEW q \in Requests, RequestStep(q)
  PROVE  /\ UNCHANGED <<record, spent, settled, void>>
         /\ \A r \in Requests \ {q} : /\ pc'[r] = pc[r] /\ attempt'[r] = attempt[r]
                                      /\ reply'[r] = reply[r] /\ outcome'[r] = outcome[r]
                                      /\ disposition'[r] = disposition[r]
         /\ \A id \in Ids \ {Current(q)} : price'[id] = price[id]
         /\ \A c \in calls' \ calls : c.id = Current(q)
         /\ calls \subseteq calls'
<1>1. CASE PlanFails(q) \/ ReserveReturns(q) \/ CommitReturns(q) \/ Crashes(q)
  BY <1>1 DEF TypeOK, PlanFails, ReserveReturns, CommitReturns, Crashes, Ends, Goes, store, chain
<1>2. CASE Plans(q) \/ SignFails(q) \/ Signs(q) \/ FenceFails(q)
  BY <1>2 DEF TypeOK, Plans, SignFails, Signs, FenceFails, Sends, Goes, store, chain
<1>3. CASE Transmits(q) \/ StoreFails(q)
  BY <1>3 DEF TypeOK, Transmits, StoreFails, Goes, store, chain
<1>4. CASE ReleaseReturns(q)
  BY <1>4 DEF TypeOK, ReleaseReturns, Ends, Goes, store, chain
<1>5. ASSUME NEW result, Obeys(q, result), UNCHANGED <<settled, void>>
      PROVE  /\ UNCHANGED <<record, spent, settled, void>>
             /\ \A r \in Requests \ {q} : /\ pc'[r] = pc[r] /\ attempt'[r] = attempt[r]
                                          /\ reply'[r] = reply[r] /\ outcome'[r] = outcome[r]
                                          /\ disposition'[r] = disposition[r]
             /\ \A id \in Ids \ {Current(q)} : price'[id] = price[id]
             /\ \A c \in calls' \ calls : c.id = Current(q)
             /\ calls \subseteq calls'
  BY <1>5 DEF TypeOK, Obeys, Unresolved, Ends, Sends, Goes, store
<1>6. CASE TransmissionFails(q)
  BY <1>5, <1>6 DEF TransmissionFails, chain
<1>7. ASSUME NEW result \in Results(Statuses), Answers(q, result)
      PROVE  Obeys(q, result) /\ UNCHANGED <<settled, void>>
  BY <1>7 DEF Answers
<1> QED BY <1>1, <1>2, <1>3, <1>4, <1>5, <1>6, <1>7 DEF RequestStep, ClientStep, Turn

\* Where a step of a request takes it.
Stays(q)  == /\ pc[q] \in Waits /\ pc'[q] = pc[q] /\ reply'[q] = "failed" /\ disposition'[q] = disposition[q]
             /\ UNCHANGED <<attempt, calls, price, onWire, renounced, outcome>>
Passes(q, from, to) ==
             /\ pc[q] \in from /\ pc'[q] = to
             /\ UNCHANGED <<attempt, calls, price>>
Sent(q, from, to) ==
             /\ pc[q] \in from /\ pc'[q] = to /\ reply'[q] = "none"
             /\ calls' = calls \cup {[op |-> Awaited[to], id |-> Current(q)]}
             /\ UNCHANGED <<attempt, onWire, outcome>>

Moved(q) ==
    \/ Stays(q)
    \/ Sent(q, {"planning"}, "reserving") /\ UNCHANGED renounced
    \/ Passes(q, {"reserving"}, "signing") /\ UNCHANGED <<onWire, renounced, outcome>>
    \/ Sent(q, {"signing"}, "fencing") /\ UNCHANGED <<price, renounced>>
    \/ /\ Sent(q, {"signing", "fencing"}, "releasing") /\ UNCHANGED <<price, renounced>>
       /\ disposition'[q] = "failed"
    \/ /\ Passes(q, {"fencing"}, "waiting") /\ UNCHANGED <<renounced, outcome>>
       /\ reply[q] = "ok" /\ onWire' = onWire \cup {Current(q)}
    \/ /\ Sent(q, {"waiting"}, "releasing") /\ UNCHANGED price
       /\ disposition'[q] = "rechallenge" => attempt[q] < MaxPaidAttempts
       /\ renounced' = renounced \cup {Current(q)} /\ Current(q) \notin settled
    \/ /\ Sent(q, {"waiting"}, "committing") /\ UNCHANGED price
       /\ renounced \subseteq renounced'
    \/ /\ pc[q] = "releasing" /\ pc'[q] = "planning"
       /\ disposition[q] = "rechallenge"
       /\ attempt' = [attempt EXCEPT ![q] = @ + 1]
       /\ UNCHANGED <<calls, price, onWire, renounced, outcome>>
    \/ /\ Passes(q, {"planning", "reserving", "releasing"}, "done")
       /\ outcome'[q] = "no"
       /\ UNCHANGED <<onWire, renounced>>
    \/ /\ Passes(q, {"committing"}, "done")
       /\ outcome'[q] \in {"yes", "delivered"} /\ (outcome'[q] = "delivered" => reply[q] = "ok")
       /\ UNCHANGED <<onWire, renounced>>
    \/ /\ Passes(q, {"waiting"}, "done") /\ outcome'[q] = "unknown"
       /\ UNCHANGED onWire /\ renounced \subseteq renounced'
    \/ /\ pc[q] # "done" /\ Passes(q, {pc[q]}, "crashed")
       /\ UNCHANGED <<onWire, renounced, outcome>>

LEMMA RequestStepMoves ==
  ASSUME TypeOK, NEW q \in Requests, RequestStep(q)
  PROVE  Moved(q)
<1> USE DEF Moved
<1>1. CASE PlanFails(q) \/ ReserveReturns(q)
  BY <1>1 DEF TypeOK, PlanFails, ReserveReturns, Ends, Goes, Passes, store, chain
<1>2. CASE Plans(q)
  BY <1>2 DEF TypeOK, Plans, Sends, Goes, Sent, store, chain
<1>3. CASE SignFails(q) \/ FenceFails(q)
  BY <1>3 DEF TypeOK, SignFails, FenceFails, Sends, Goes, Sent, store, chain
<1>4. CASE Signs(q)
  BY <1>4 DEF TypeOK, Signs, Sends, Goes, Sent, store, chain
<1>5. CASE Transmits(q)
  BY <1>5 DEF TypeOK, Transmits, Goes, Passes
<1>6. CASE StoreFails(q)
  BY <1>6 DEF TypeOK, StoreFails, Stays, chain
<1>7. CASE ReleaseReturns(q)
  BY <1>7 DEF TypeOK, ReleaseReturns, Ends, Goes, Passes, chain
<1>8. CASE CommitReturns(q)
  BY <1>8 DEF TypeOK, CommitReturns, Ends, Goes, Passes, chain
<1>9. CASE Crashes(q)
  BY <1>9 DEF TypeOK, Crashes, Goes, Passes, chain
<1>10. ASSUME NEW result \in Results(Statuses), Obeys(q, result), pc[q] = "waiting",
              renounced \subseteq renounced', UNCHANGED onWire,
              Declines(result) => /\ renounced' = renounced \cup {Current(q)}
                                  /\ Current(q) \notin settled
       PROVE  Moved(q)
  <2> DEFINE d == ClassifyPaidAttempt(attempt[q], MaxPaidAttempts, result)
  <2>1. d = "rechallenge" => attempt[q] < MaxPaidAttempts
    BY TableTyped
  <2>2. d \in {"failed", "rechallenge"} => Declines(result)
    BY TableReleases, CurrentTyped
  <2>3. disposition'[q] = d
    BY <1>10 DEF Obeys, TypeOK
  <2>4. CASE Unresolved(q) /\ UNCHANGED <<calls, reply>>
    BY <1>10, <2>4 DEF TypeOK, Obeys, Unresolved, Ends, Goes, Passes
  <2>5. CASE d \in {"commit", "paid-undelivered"} /\ Sends(q, "committing") /\ UNCHANGED outcome
    BY <1>10, <2>5 DEF TypeOK, Obeys, Sends, Goes, Sent
  <2>6. CASE d \in {"failed", "rechallenge"} /\ Sends(q, "releasing") /\ UNCHANGED outcome
    <3>1. Sent(q, {"waiting"}, "releasing") /\ UNCHANGED price
      BY <1>10, <2>6 DEF TypeOK, Obeys, Sends, Goes, Sent
    <3> QED BY <1>10, <2>1, <2>2, <2>3, <2>6, <3>1
  <2> QED BY <1>10, <2>4, <2>5, <2>6 DEF Obeys
<1>11. CASE TransmissionFails(q)
  <2> DEFINE result == [kind |-> "transport-failure", status |-> 0, settlement |-> "absent"]
  <2>1. result \in Results(Statuses) /\ ~Declines(result)
    BY DEF Results, Declines
  <2> QED BY <1>10, <1>11, <2>1 DEF TransmissionFails, chain
<1>12. ASSUME NEW result \in Results(Statuses), Answers(q, result)
       PROVE  Moved(q)
  BY <1>10, <1>12 DEF Answers
<1> QED BY <1>1, <1>2, <1>3, <1>4, <1>5, <1>6, <1>7, <1>8, <1>9, <1>11, <1>12
        DEF RequestStep, ClientStep, Turn

LEMMA ChainSteps ==
  ASSUME NEW id, Settles(id) \/ RunsOut(id)
  PROVE  /\ UNCHANGED <<store, calls, client, onWire, renounced>>
         /\ \/ UNCHANGED settled /\ void' = void \cup {id}
            \/ /\ UNCHANGED void /\ settled' = settled \cup {id}
               /\ id \in onWire \ (settled \cup renounced \cup void)
BY DEF Settles, RunsOut

LEMMA RechallengesPermittedStep ==
  ASSUME TypeOK, RechallengesPermitted, Next
  PROVE  RechallengesPermitted'
<1>1. ASSUME NEW q \in Requests, RequestStep(q)
      PROVE  RechallengesPermitted'
  <2>1. Moved(q)
    BY <1>1, RequestStepMoves
  <2>2. /\ pc' [q] = "releasing" /\ disposition'[q] = "rechallenge"
           => attempt'[q] < MaxPaidAttempts
    BY <2>1 DEF Moved, Stays, Sent, Passes, RechallengesPermitted
  <2> QED BY <1>1, <2>2, RequestStepFrame DEF RechallengesPermitted
<1>2. ASSUME NEW id \in Ids, RecordStep(id)
      PROVE  RechallengesPermitted'
  BY <1>2, RecordStepFrame DEF RechallengesPermitted
<1>3. ASSUME NEW id \in Ids, Settles(id) \/ RunsOut(id)
      PROVE  RechallengesPermitted'
  BY <1>3, ChainSteps DEF RechallengesPermitted, client
<1> QED BY <1>1, <1>2, <1>3, StepCases

LEMMA WaitsForTheWireStep ==
  ASSUME TypeOK, WaitsForTheWire, Next
  PROVE  WaitsForTheWire'
<1>1. ASSUME NEW q \in Requests, RequestStep(q)
      PROVE  WaitsForTheWire'
  <2>1. Moved(q)
    BY <1>1, RequestStepMoves
  <2>2. onWire \subseteq onWire'
    BY <2>1 DEF Moved, Stays, Sent, Passes
  <2>3. pc'[q] = "waiting" => Current(q)' \in onWire'
    BY <2>1, PlacesListed DEF Moved, Stays, Sent, Passes, Current, WaitsForTheWire
  <2> QED BY <1>1, <2>2, <2>3, RequestStepFrame DEF WaitsForTheWire, Current
<1>2. ASSUME NEW id \in Ids, RecordStep(id)
      PROVE  WaitsForTheWire'
  BY <1>2, RecordStepFrame DEF WaitsForTheWire, Current, chain
<1>3. ASSUME NEW id \in Ids, Settles(id) \/ RunsOut(id)
      PROVE  WaitsForTheWire'
  BY <1>3, ChainSteps DEF WaitsForTheWire, Current, client
<1> QED BY <1>1, <1>2, <1>3, StepCases

\* Only the attempt under way loses its freshness, when the request plans it.
LEMMA FreshAttemptsStep ==
  ASSUME TypeOK, FreshAttempts, Next
  PROVE  FreshAttempts'
<1>1. ASSUME NEW q \in Requests, RequestStep(q), NEW id \in Ids,
             \/ id[2] > attempt'[id[1]]
             \/ id[2] = attempt'[id[1]] /\ pc'[id[1]] = "planning"
      PROVE  Fresh(id)'
  <2>1. Moved(q)
    BY <1>1, RequestStepMoves
  <2>2. id[1] \in Requests /\ id[2] \in Nat /\ id = <<id[1], id[2]>>
    BY AttemptAssumption DEF Ids
  <2>3. id # Current(q)
    BY <1>1, <2>1, <2>2, CurrentTyped, PlacesListed
       DEF Moved, Stays, Sent, Passes, Current, TypeOK
  <2>4. Fresh(id)
    <3>1. CASE id[1] # q
      BY <1>1, <2>2, <3>1, RequestStepFrame DEF FreshAttempts
    <3>2. CASE id[1] = q
      BY <1>1, <2>1, <2>2, <3>2, CurrentTyped, PlacesListed
         DEF FreshAttempts, Moved, Stays, Sent, Passes, TypeOK
    <3> QED BY <3>1, <3>2
  <2>5. id \notin onWire'
    BY <2>1, <2>3, <2>4 DEF Moved, Stays, Sent, Passes, Fresh
  <2> QED BY <1>1, <2>3, <2>4, <2>5, RequestStepFrame DEF Fresh
<1>2. ASSUME NEW id \in Ids, RecordStep(id)
      PROVE  FreshAttempts'
  <2>1. record[id] = "absent" => record'[id] = "absent" \/ \E c \in calls : c.id = id
    <3>1. CASE StoreReserve(id) \/ StoreExpose(id) \/ StoreRelease(id) \/ StoreCommit(id)
      BY <3>1, HandledCall
    <3>2. CASE Lapse(id) \/ ResolveCommitted(id) \/ ResolveReleased(id)
      BY <3>2 DEF Lapse, ResolveCommitted, ResolveReleased
    <3> QED BY <1>2, <3>1, <3>2 DEF RecordStep
  <2> QED BY <1>2, <2>1, RecordStepFrame DEF FreshAttempts, Fresh, chain
<1>3. ASSUME NEW id \in Ids, Settles(id) \/ RunsOut(id)
      PROVE  FreshAttempts'
  BY <1>3, ChainSteps DEF FreshAttempts, Fresh, client, store
<1> QED BY <1>1, <1>2, <1>3, StepCases DEF FreshAttempts

\* An attempt that is over stays over.
LEMMA OverStays ==
  ASSUME TypeOK, Next, NEW id \in Ids, Over(id)
  PROVE  Over(id)'
<1>1. id[1] \in Requests /\ id[2] \in Nat
  BY AttemptAssumption DEF Ids
<1>2. ASSUME NEW q \in Requests, RequestStep(q)
      PROVE  Over(id)'
  <2>1. Moved(q)
    BY <1>2, RequestStepMoves
  <2>2. CASE id[1] = q
    BY <1>1, <2>1, <2>2, CurrentTyped DEF Over, Moved, Stays, Sent, Passes, TypeOK
  <2>3. CASE id[1] # q
    BY <1>1, <1>2, <2>3, RequestStepFrame DEF Over
  <2> QED BY <2>2, <2>3
<1>3. ASSUME NEW j \in Ids, RecordStep(j)
      PROVE  Over(id)'
  BY <1>3, RecordStepFrame DEF Over
<1>4. ASSUME NEW j \in Ids, Settles(j) \/ RunsOut(j)
      PROVE  Over(id)'
  BY <1>4, ChainSteps DEF Over, client
<1> QED BY <1>2, <1>3, <1>4, StepCases

LEMMA SettlingCallsStep ==
  ASSUME TypeOK, SettlingCallsAreLate, Next
  PROVE  SettlingCallsAreLate'
<1>1. ASSUME NEW c \in calls, c \in calls', c.op \in {"release", "commit"}
      PROVE  Over(c.id)'
  <2>1. c.id \in Ids
    BY DEF TypeOK
  <2> QED BY <1>1, <2>1, OverStays DEF SettlingCallsAreLate
<1>2. ASSUME NEW q \in Requests, RequestStep(q), NEW c \in calls' \ calls,
             c.op \in {"release", "commit"}
      PROVE  Over(c.id)'
  <2>1. Moved(q)
    BY <1>2, RequestStepMoves
  <2>2. c.id = Current(q) /\ Current(q)[1] = q /\ Current(q)[2] = attempt[q]
    BY <1>2, RequestStepFrame, CurrentTyped
  <2>3. attempt' = attempt /\ pc'[q] \in {"releasing", "committing"}
    BY <1>2, <2>1 DEF Moved, Stays, Sent, Passes, Awaited
  <2> QED BY <2>2, <2>3 DEF Over
<1>3. ASSUME NEW id \in Ids, RecordStep(id) \/ Settles(id) \/ RunsOut(id)
      PROVE  calls' \subseteq calls
  BY <1>3, RecordStepFrame, ChainSteps
<1> QED BY <1>1, <1>2, <1>3, StepCases DEF SettlingCallsAreLate

-------------------------------------------------------------------------------
(* The chain: what may still be paid, and what the books say of it.        *)

\* Only a request whose fence has answered makes a payment possible.
LEMMA PayableStep ==
  ASSUME TypeOK, Next, NEW id \in Ids, Payable(id)'
  PROVE  \/ Payable(id)
         \/ \E q \in Requests : /\ id = Current(q) /\ pc[q] = "fencing" /\ reply[q] = "ok"
                                /\ pc'[q] = "waiting" /\ attempt' = attempt
                                /\ UNCHANGED <<record, settled, void, calls>>
<1>1. ASSUME NEW q \in Requests, RequestStep(q), ~Payable(id)
      PROVE  /\ id = Current(q) /\ pc[q] = "fencing" /\ reply[q] = "ok"
             /\ pc'[q] = "waiting" /\ attempt' = attempt
             /\ UNCHANGED <<record, settled, void, calls>>
  <2>1. Moved(q)
    BY <1>1, RequestStepMoves
  <2>2. UNCHANGED <<record, settled, void>>
    BY <1>1, RequestStepFrame
  <2>3. renounced \subseteq renounced'
    BY <2>1, <1>1, RequestStepFrame DEF Moved, Stays, Sent, Passes
  <2> QED BY <1>1, <2>1, <2>2, <2>3 DEF Moved, Stays, Sent, Passes, Payable
<1>2. ASSUME NEW j \in Ids, RecordStep(j)
      PROVE  Payable(id)
  BY <1>2, RecordStepFrame DEF Payable, chain
<1>3. ASSUME NEW j \in Ids, Settles(j) \/ RunsOut(j)
      PROVE  Payable(id)
  BY <1>3, ChainSteps DEF Payable
<1> QED BY <1>1, <1>2, <1>3, StepCases

\* What is over and dead stays dead: nobody transmits it, nobody settles it.
LEMMA DeadStays ==
  ASSUME TypeOK, Next, NEW id \in Ids, Over(id), ~Payable(id)
  PROVE  ~Payable(id)'
<1> SUFFICES ASSUME Payable(id)' PROVE FALSE
  OBVIOUS
<1>1. PICK q \in Requests : id = Current(q) /\ pc[q] = "fencing"
  BY PayableStep
<1>2. id[1] = q /\ id[2] = attempt[q] /\ attempt[q] \in Nat
  BY <1>1, CurrentTyped
<1> QED BY <1>1, <1>2 DEF Over

\* A request that gives an attempt up, or ends unpaid, leaves it dead.
LEMMA EndsDead ==
  ASSUME ControlInv, ChainInv, NEW q \in Requests, RequestStep(q), NEW id, id = Current(q),
         \/ pc'[q] = "releasing"
         \/ outcome'[q] = "no"
         \/ attempt'[q] # attempt[q]
         \/ \E c \in calls' \ calls : c.op = "release"
  PROVE  ~Payable(id)'
<1>1. TypeOK /\ Moved(q)
  BY RequestStepMoves DEF ControlInv
<1>2. UNCHANGED <<settled, void>>
  BY <1>1, RequestStepFrame
<1>3. pc[q] \in {"planning", "reserving", "signing", "fencing"} => id \notin onWire \cup settled
  BY <1>1 DEF ChainInv, SilentUntilFenced, TypeOK
<1>4. /\ pc[q] = "releasing" \/ outcome[q] = "no" => ~Payable(id)
      /\ outcome[q] # "none" => pc[q] = "done"
  BY DEF ChainInv, GivenUpIsDead, AnswersStand
<1>5. ~Payable(id) /\ UNCHANGED <<onWire, renounced>> => ~Payable(id)'
  BY <1>2 DEF Payable
<1>6. CASE Stays(q)
  BY <1>4, <1>5, <1>6 DEF Stays
<1>7. CASE Sent(q, {"waiting"}, "releasing") /\ renounced' = renounced \cup {id}
           /\ id \notin settled
  BY <1>2, <1>7 DEF Payable, Sent
<1>8. CASE UNCHANGED <<onWire, renounced>> /\ pc[q] \in {"planning", "reserving", "signing",
                                                         "fencing", "releasing"}
  BY <1>2, <1>3, <1>4, <1>5, <1>8 DEF Payable
<1>9. CASE /\ pc'[q] \in {"waiting", "committing", "done", "crashed"} /\ UNCHANGED attempt
           /\ outcome'[q] # "no" /\ ~\E c \in calls' \ calls : c.op = "release"
  BY <1>9
<1>10. CASE pc[q] # "done" /\ Passes(q, {pc[q]}, "crashed")
            /\ UNCHANGED <<onWire, renounced, outcome>>
  BY <1>4, <1>10 DEF Passes
<1> QED BY <1>1, <1>4, <1>6, <1>7, <1>8, <1>9, <1>10
        DEF Moved, Sent, Passes, Awaited

LEMMA GivenUpIsDeadStep ==
  ASSUME ControlInv, ChainInv, Next
  PROVE  GivenUpIsDead'
<1> USE DEF ControlInv, ChainInv
<1>1. ASSUME NEW id \in Ids, id[2] < attempt'[id[1]]
      PROVE  ~Payable(id)'
  <2>1. id[1] \in Requests /\ id[2] \in Nat /\ id = <<id[1], id[2]>>
    BY AttemptAssumption DEF Ids
  <2>2. CASE id[2] < attempt[id[1]]
    BY <2>2, DeadStays DEF GivenUpIsDead, Over
  <2>3. CASE ~(id[2] < attempt[id[1]])
    <3>1. RequestStep(id[1])
      BY <1>1, <2>1, <2>3, StepCases, RequestStepFrame, RecordStepFrame, ChainSteps DEF client
    <3>2. Moved(id[1])
      BY <2>1, <3>1, RequestStepMoves
    <3>3. attempt'[id[1]] = attempt[id[1]] + 1
      BY <1>1, <2>1, <2>3, <3>2 DEF Moved, Stays, Sent, Passes, TypeOK
    <3>4. id = Current(id[1])
      <4>1. attempt[id[1]] \in Nat
        BY <2>1, CurrentTyped
      <4>2. id[2] = attempt[id[1]]
        BY <1>1, <2>1, <2>3, <3>3, <4>1
      <4> QED BY <2>1, <4>2 DEF Current
    <3> QED BY <2>1, <3>1, <3>3, <3>4, EndsDead, CurrentTyped
  <2> QED BY <2>2, <2>3
<1>2. ASSUME NEW q \in Requests, pc'[q] = "releasing" \/ outcome'[q] = "no"
      PROVE  ~Payable(Current(q))'
  <2>1. CASE RequestStep(q)
    <3>1. CASE attempt'[q] = attempt[q]
      BY <1>2, <2>1, <3>1, EndsDead DEF Current
    <3>2. CASE attempt'[q] # attempt[q]
      BY <1>2, <2>1, <3>2, RequestStepMoves DEF Moved, Stays, Sent, Passes, AnswersStand
    <3> QED BY <3>1, <3>2
  <2>2. CASE ~RequestStep(q)
    <3>1. pc'[q] = pc[q] /\ outcome'[q] = outcome[q] /\ attempt'[q] = attempt[q]
      BY <2>2, StepCases, RequestStepFrame, RecordStepFrame, ChainSteps DEF client
    <3>2. Over(Current(q)) /\ ~Payable(Current(q)) /\ Current(q) \in Ids
      BY <1>2, <3>1, CurrentTyped DEF GivenUpIsDead, AnswersStand, Over
    <3>3. Current(q)' = Current(q)
      BY <3>1 DEF Current
    <3> QED BY <3>2, <3>3, DeadStays
  <2> QED BY <2>1, <2>2
<1>3. ASSUME NEW c \in calls', c.op = "release"
      PROVE  ~Payable(c.id)'
  <2>1. CASE c \in calls
    <3>1. c.id \in Ids /\ Over(c.id) /\ ~Payable(c.id)
      BY <1>3, <2>1 DEF TypeOK, SettlingCallsAreLate, GivenUpIsDead
    <3> QED BY <3>1, DeadStays
  <2>2. CASE c \notin calls
    <3>1. PICK q \in Requests : RequestStep(q)
      BY <1>3, <2>2, StepCases, RecordStepFrame, ChainSteps
    <3>2. c.id = Current(q)
      BY <1>3, <2>2, <3>1, RequestStepFrame
    <3> QED BY <1>3, <2>2, <3>1, <3>2, EndsDead
  <2> QED BY <2>1, <2>2
<1> QED BY <1>1, <1>2, <1>3 DEF GivenUpIsDead

\* A record that is exposed moves only as its commit, its release or the operator
\* says, and one that is committed never.
LEMMA RecordMoves ==
  ASSUME TypeOK, OperatorWaits, Next, NEW id \in Ids
  PROVE  /\ record[id] = "committed" => record'[id] = "committed"
         /\ record[id] = "exposed" =>
              \/ record'[id] = "exposed"
              \/ record'[id] = "committed" /\ (id \in settled \/ \E c \in calls : c.id = id /\ c.op = "commit")
              \/ record'[id] = "released" /\ ~Payable(id) /\ id \in void
              \/ record'[id] = "released" /\ \E c \in calls : c.id = id /\ c.op = "release"
<1>1. ASSUME NEW j \in Ids, RecordStep(j), record'[id] # record[id]
      PROVE  j = id
  BY <1>1, RecordStepFrame
<1>2. CASE StoreReserve(id) \/ StoreExpose(id) \/ Lapse(id)
  BY <1>2 DEF StoreReserve, StoreExpose, Lapse, Moves, TypeOK
<1>3. CASE StoreRelease(id)
  BY <1>3, HandledCall DEF StoreRelease, Moves, TypeOK
<1>4. CASE StoreCommit(id)
  BY <1>4, HandledCall DEF StoreCommit, Moves, TypeOK, store
<1>5. CASE ResolveCommitted(id)
  BY <1>5 DEF ResolveCommitted, Moves, TypeOK
<1>6. CASE ResolveReleased(id)
  BY <1>6 DEF ResolveReleased, Moves, TypeOK, Payable
<1>7. CASE record'[id] = record[id]
  BY <1>7
<1> QED BY <1>1, <1>2, <1>3, <1>4, <1>5, <1>6, <1>7, StepCases, RequestStepFrame, ChainSteps
        DEF RecordStep, store

\* A request never answers itself with a success.
LEMMA ReplyMoves ==
  ASSUME TypeOK, NEW q \in Requests, RequestStep(q)
  PROVE  reply'[q] \in {"none", "failed", reply[q]}
<1>1. ASSUME NEW result, Obeys(q, result)
      PROVE  reply'[q] \in {"none", "failed", reply[q]}
  BY <1>1 DEF TypeOK, Obeys, Sends
<1>2. ASSUME NEW result \in Results(Statuses), Answers(q, result)
      PROVE  reply'[q] \in {"none", "failed", reply[q]}
  BY <1>1, <1>2 DEF Answers
<1>3. CASE TransmissionFails(q)
  BY <1>1, <1>3 DEF TransmissionFails
<1> QED BY <1>2, <1>3 DEF RequestStep, ClientStep, Turn, TypeOK, PlanFails, Plans, ReserveReturns,
           SignFails, Signs, FenceFails, Transmits, CommitReturns, ReleaseReturns, StoreFails,
           Crashes, Sends

\* What a store call answers "ok" to: the record is where the call wanted it.
LEMMA AnsweredOk ==
  ASSUME TypeOK, Next, NEW q \in Requests, reply'[q] = "ok", reply[q] # "ok"
  PROVE  /\ UNCHANGED <<pc, attempt, outcome, chain>>
         /\ pc[q] = "fencing" => record'[Current(q)] = "exposed"
         /\ pc[q] = "committing" => record'[Current(q)] = "committed"
<1>1. ASSUME NEW r \in Requests, RequestStep(r)
      PROVE  FALSE
  <2>1. reply'[r] \in {"none", "failed", reply[r]}
    BY <1>1, ReplyMoves
  <2> QED BY <1>1, <2>1, RequestStepFrame
<1>2. ASSUME NEW id, Settles(id) \/ RunsOut(id)
      PROVE  FALSE
  BY <1>2, ChainSteps DEF client
<1>3. ASSUME NEW id \in Ids, RecordStep(id)
      PROVE  /\ UNCHANGED <<pc, attempt, outcome, chain>>
             /\ pc[q] = "fencing" => record'[Current(q)] = "exposed"
             /\ pc[q] = "committing" => record'[Current(q)] = "committed"
  <2>1. UNCHANGED <<pc, attempt, outcome, chain>>
    BY <1>3, RecordStepFrame
  <2>2. ASSUME NEW op, NEW answer, Replies(op, id, answer)
        PROVE  id = Current(q) /\ Awaited[pc[q]] = op /\ answer = "ok"
    BY <2>2 DEF Replies, TypeOK
  <2>3. CASE StoreReserve(id)
    BY <2>2, <2>3, <2>1 DEF StoreReserve, Awaited
  <2>4. CASE StoreExpose(id)
    BY <2>2, <2>4, <2>1 DEF StoreExpose, Awaited, Moves, TypeOK
  <2>5. CASE StoreRelease(id)
    BY <2>2, <2>5, <2>1 DEF StoreRelease, Awaited
  <2>6. CASE StoreCommit(id)
    BY <2>2, <2>6, <2>1 DEF StoreCommit, Awaited, Moves, TypeOK, store
  <2>7. CASE Lapse(id) \/ ResolveCommitted(id) \/ ResolveReleased(id)
    BY <2>7, <2>1 DEF Lapse, ResolveCommitted, ResolveReleased, client
  <2> QED BY <1>3, <2>3, <2>4, <2>5, <2>6, <2>7, <2>1 DEF RecordStep
<1> QED BY <1>1, <1>2, <1>3, StepCases

LEMMA SilentUntilFencedStep ==
  ASSUME OperatorWaits, ControlInv, ChainInv, Next
  PROVE  SilentUntilFenced'
<1> USE DEF ControlInv, ChainInv
<1> SUFFICES ASSUME NEW q \in Requests
             PROVE  /\ pc'[q] \in {"planning", "reserving", "signing", "fencing"} =>
                          Current(q)' \notin onWire'
                    /\ pc'[q] = "fencing" /\ reply'[q] = "ok" =>
                          record'[Current(q)'] = "exposed" \/ Current(q)' \in void'
  BY DEF SilentUntilFenced, Current
<1>1. CASE RequestStep(q)
  <2>1. Moved(q)
    BY <1>1, RequestStepMoves
  <2>2. pc'[q] # "fencing" \/ reply'[q] # "ok"
    BY <2>1 DEF Moved, Stays, Sent, Passes
  <2>3. CASE pc'[q] = "planning"
    <3>1. CASE pc[q] = "releasing"
      <4>1. Current(q)' = <<q, attempt[q] + 1>> /\ onWire' = onWire
        BY <2>1, <2>3, <3>1 DEF Moved, Stays, Sent, Passes, Current, TypeOK
      <4>2. attempt[q] \in Nat /\ attempt[q] < MaxPaidAttempts /\ attempt[q] > 0
        BY <2>1, <2>3, <3>1, CurrentTyped
           DEF Moved, Stays, Sent, Passes, RechallengesPermitted
      <4>3. <<q, attempt[q] + 1>> \in Ids /\ attempt[q] + 1 > attempt[q]
        BY <4>2, AttemptAssumption DEF Ids
      <4> QED BY <2>2, <4>1, <4>3 DEF FreshAttempts, Fresh
    <3>2. CASE pc[q] # "releasing"
      BY <2>1, <2>2, <2>3, <3>2, PlacesListed DEF Moved, Stays, Sent, Passes
    <3> QED BY <3>1, <3>2
  <2>4. CASE pc'[q] \in {"reserving", "signing", "fencing"}
    <3>1. /\ pc[q] \in {"planning", "reserving", "signing", "fencing"}
          /\ UNCHANGED <<attempt, onWire>>
      BY <2>1, <2>4, PlacesListed DEF Moved, Stays, Sent, Passes
    <3> QED BY <2>2, <3>1 DEF SilentUntilFenced, Current
  <2> QED BY <2>2, <2>3, <2>4
<1>2. CASE ~RequestStep(q)
  <2>1. pc'[q] = pc[q] /\ attempt'[q] = attempt[q] /\ Current(q)' = Current(q)
    BY <1>2, StepCases, RequestStepFrame, RecordStepFrame, ChainSteps DEF client, Current
  <2>2. Current(q) \in onWire' => Current(q) \in onWire
    <3>1. ASSUME NEW r \in Requests \ {q}, RequestStep(r)
          PROVE  onWire' \subseteq onWire \cup {Current(r)} /\ Current(r) # Current(q)
      BY <3>1, RequestStepMoves, CurrentTyped DEF Moved, Stays, Sent, Passes
    <3> QED BY <1>2, <3>1, StepCases, RecordStepFrame, ChainSteps DEF chain
  <2>3. void \subseteq void'
    BY StepCases, RequestStepFrame, RecordStepFrame, ChainSteps DEF chain
  <2>4. ASSUME pc[q] = "fencing", reply[q] = "ok", record[Current(q)] = "exposed"
        PROVE  record'[Current(q)] = "exposed" \/ Current(q) \in void
    <3>1. Current(q) \notin settled /\ ~Over(Current(q)) /\ Current(q) \in Ids
      BY <2>4, CurrentTyped DEF SilentUntilFenced, TypeOK, Over
    <3>2. ~\E c \in calls : c.id = Current(q) /\ c.op \in {"release", "commit"}
      BY <3>1 DEF SettlingCallsAreLate
    <3> QED BY <2>4, <3>1, <3>2, RecordMoves
  <2>5. reply'[q] = "ok" /\ pc[q] = "fencing" /\ reply[q] # "ok" => record'[Current(q)] = "exposed"
    BY AnsweredOk
  <2> QED BY <2>1, <2>2, <2>3, <2>4, <2>5 DEF SilentUntilFenced
<1> QED BY <1>1, <1>2

LEMMA AnswersStandStep ==
  ASSUME OperatorWaits, ControlInv, ChainInv, Next
  PROVE  AnswersStand'
<1> USE DEF ControlInv, ChainInv
<1> SUFFICES ASSUME NEW q \in Requests
             PROVE  /\ pc'[q] = "committing" /\ reply'[q] = "ok" =>
                          record'[Current(q)'] = "committed"
                    /\ outcome'[q] = "delivered" => record'[Current(q)'] = "committed"
                    /\ outcome'[q] # "none" => pc'[q] = "done"
  BY DEF AnswersStand, Current
<1>1. record[Current(q)] = "committed" => record'[Current(q)] = "committed"
  BY RecordMoves, CurrentTyped
<1>2. CASE RequestStep(q)
  <2>1. Moved(q)
    BY <1>2, RequestStepMoves
  <2>2. CASE attempt' = attempt
    BY <1>1, <2>1, <2>2, PlacesListed DEF Moved, Stays, Sent, Passes, AnswersStand, Current
  <2>3. CASE attempt' # attempt
    BY <2>1, <2>3 DEF Moved, Stays, Sent, Passes, AnswersStand
  <2> QED BY <2>2, <2>3
<1>3. CASE ~RequestStep(q)
  <2>1. /\ pc'[q] = pc[q] /\ attempt'[q] = attempt[q] /\ outcome'[q] = outcome[q]
        /\ Current(q)' = Current(q)
    BY <1>3, StepCases, RequestStepFrame, RecordStepFrame, ChainSteps DEF client, Current
  <2> QED BY <1>1, <2>1, AnsweredOk DEF AnswersStand
<1> QED BY <1>2, <1>3

LEMMA PayableIsCoveredStep ==
  ASSUME OperatorWaits, ControlInv, ChainInv, Next
  PROVE  PayableIsCovered'
<1> USE DEF ControlInv, ChainInv
<1> SUFFICES ASSUME NEW id \in Ids, Payable(id)'
             PROVE  record'[id] \in {"exposed", "committed"}
  BY DEF PayableIsCovered
<1>1. CASE Payable(id)
  <2>1. record[id] \in {"exposed", "committed"}
    BY <1>1 DEF PayableIsCovered
  <2>2. ~\E c \in calls : c.id = id /\ c.op = "release"
    BY <1>1 DEF GivenUpIsDead
  <2> QED BY <1>1, <2>1, <2>2, RecordMoves
<1>2. ASSUME NEW q \in Requests, id = Current(q), pc[q] = "fencing", reply[q] = "ok",
             UNCHANGED <<record, settled, void>>
      PROVE  record'[id] \in {"exposed", "committed"}
  <2>1. id \notin settled
    BY <1>2 DEF SilentUntilFenced, TypeOK
  <2>2. id \notin void
    BY <1>2, <2>1 DEF Payable
  <2> QED BY <1>2, <2>2 DEF SilentUntilFenced
<1> QED BY <1>1, <1>2, PayableStep

-------------------------------------------------------------------------------
(* The books.                                                              *)

LEMMA IdsFinite ==
  /\ IsFiniteSet(Ids) /\ IsFiniteSet(HeldIds) /\ IsFiniteSet(CommittedIds)
<1>1. IsFiniteSet(1 .. MaxPaidAttempts)
  BY AttemptAssumption, FS_Interval
<1>2. IsFiniteSet(Ids)
  BY <1>1, RequestAssumption, FS_Product DEF Ids
<1>3. HeldIds \subseteq Ids /\ CommittedIds \subseteq Ids
  BY DEF HeldIds, CommittedIds
<1> QED BY <1>2, <1>3, FS_Subset

LEMMA PriceTyped ==
  ASSUME TypeOK
  PROVE  \A id \in Ids : price[id] \in Nat
<1>1. Amounts \subseteq Nat /\ 0 \in Nat
  BY PriceAssumption
<1>2. \A id \in Ids : price[id] \in Amounts \cup {0}
  BY DEF TypeOK
<1> QED BY <1>1, <1>2, Zenon

LEMMA TotalsTyped ==
  ASSUME TypeOK
  PROVE  /\ AtomicTotal(HeldIds, price) \in Nat /\ AtomicTotal(CommittedIds, price) \in Nat
         /\ spent \in Nat
<1>1. (\A id \in HeldIds : price[id] \in Nat) /\ (\A id \in CommittedIds : price[id] \in Nat)
  BY PriceTyped DEF HeldIds, CommittedIds
<1> QED BY <1>1, IdsFinite, AtomicTotalType DEF TypeOK

\* What a record step does to the books.
LEMMA RecordStepBooks ==
  ASSUME TypeOK, NEW id \in Ids, RecordStep(id)
  PROVE  \/ UNCHANGED <<record, spent>>
         \/ /\ record[id] = "absent" /\ record' = [record EXCEPT ![id] = "reserved"]
            /\ Consumed + price[id] <= Cap /\ spent' = spent
         \/ /\ record[id] \in {"reserved", "exposed"} /\ spent' = spent
            /\ record' = [record EXCEPT ![id] = "exposed"]
         \/ /\ record[id] \in {"reserved", "exposed"} /\ spent' = spent
            /\ \E s \in {"released", "expired"} : record' = [record EXCEPT ![id] = s]
         \/ /\ record[id] \in {"reserved", "exposed"} /\ spent' = spent + price[id]
            /\ record' = [record EXCEPT ![id] = "committed"]
<1>1. CASE StoreReserve(id)
  BY <1>1 DEF StoreReserve, Moves
<1>2. CASE StoreExpose(id) \/ StoreRelease(id)
  BY <1>2 DEF StoreExpose, StoreRelease, Moves
<1>3. CASE StoreCommit(id)
  BY <1>3 DEF StoreCommit, Moves, store
<1>4. CASE Lapse(id) \/ ResolveReleased(id) \/ ResolveCommitted(id)
  BY <1>4 DEF Lapse, ResolveReleased, ResolveCommitted, Moves
<1> QED BY <1>1, <1>2, <1>3, <1>4 DEF RecordStep

\* Prices are only set where nothing is held or committed.
LEMMA BooksAgree ==
  ASSUME TypeOK, UNCHANGED <<record, spent>>,
         \A id \in Ids : price'[id] = price[id] \/ record[id] = "absent"
  PROVE  BooksBalance <=> BooksBalance'
<1>1. HeldIds' = HeldIds /\ CommittedIds' = CommittedIds
  BY DEF HeldIds, CommittedIds
<1>2. \A id \in HeldIds \cup CommittedIds : price[id] = price'[id]
  BY DEF HeldIds, CommittedIds
<1>3. AtomicTotal(HeldIds, price) = AtomicTotal(HeldIds, price')
  BY <1>2, AtomicTotalAgree
<1>4. AtomicTotal(CommittedIds, price) = AtomicTotal(CommittedIds, price')
  BY <1>2, AtomicTotalAgree
<1> QED BY <1>1, <1>3, <1>4 DEF BooksBalance, Consumed

LEMMA BooksBalanceStep ==
  ASSUME ControlInv, BooksBalance, Next
  PROVE  BooksBalance'
<1> USE DEF ControlInv
<1> DEFINE held == AtomicTotal(HeldIds, price)
           committed == AtomicTotal(CommittedIds, price)
<1>0. /\ held \in Nat /\ committed \in Nat /\ spent \in Nat /\ Cap \in Nat
      /\ spent = committed /\ spent + held <= Cap
  BY TotalsTyped, PriceAssumption DEF BooksBalance, Consumed
<1>1. ASSUME NEW q \in Requests, RequestStep(q)
      PROVE  BooksBalance'
  <2>1. price'[Current(q)] = price[Current(q)] \/ record[Current(q)] = "absent"
    <3>1. pc[q] = "planning" => record[Current(q)] = "absent"
      BY CurrentTyped DEF FreshAttempts, Fresh
    <3> QED BY <1>1, <3>1, RequestStepMoves DEF Moved, Stays, Sent, Passes
  <2> QED BY <1>1, <2>1, RequestStepFrame, BooksAgree
<1>2. ASSUME NEW id \in Ids, RecordStep(id)
      PROVE  BooksBalance'
  <2>1. price' = price /\ price[id] \in Nat /\ \A j \in Ids : price[j] \in Nat
    BY <1>2, RecordStepFrame, PriceTyped
  <2>2. CASE UNCHANGED <<record, spent>>
    BY <2>1, <2>2, BooksAgree
  <2>3. CASE /\ record[id] = "absent" /\ record' = [record EXCEPT ![id] = "reserved"]
             /\ Consumed + price[id] <= Cap /\ spent' = spent
    <3>1. id \notin HeldIds /\ HeldIds' = HeldIds \cup {id} /\ CommittedIds' = CommittedIds
      BY <2>3 DEF HeldIds, CommittedIds, TypeOK
    <3>2. \A j \in HeldIds \cup {id} : price[j] \in Nat
      BY <2>1 DEF HeldIds
    <3>3. AtomicTotal(HeldIds \cup {id}, price) = held + price[id]
      BY <3>1, <3>2, IdsFinite, AtomicTotalAdd
    <3> QED BY <1>0, <2>1, <2>3, <3>1, <3>3 DEF BooksBalance, Consumed
  <2>4. CASE /\ record[id] \in {"reserved", "exposed"} /\ spent' = spent
             /\ record' = [record EXCEPT ![id] = "exposed"]
    <3>1. HeldIds' = HeldIds /\ CommittedIds' = CommittedIds
      BY <2>4 DEF HeldIds, CommittedIds, TypeOK
    <3> QED BY <2>1, <2>4, <3>1 DEF BooksBalance, Consumed
  <2>5. ASSUME record[id] \in {"reserved", "exposed"}
        PROVE  AtomicTotal(HeldIds \ {id}, price) = held - price[id]
    <3>1. id \in HeldIds /\ \A j \in HeldIds : price[j] \in Nat
      BY <2>1, <2>5 DEF HeldIds
    <3> QED BY <3>1, IdsFinite, AtomicTotalRemove
  <2>6. CASE /\ record[id] \in {"reserved", "exposed"} /\ spent' = spent
             /\ \E s \in {"released", "expired"} : record' = [record EXCEPT ![id] = s]
    <3>1. HeldIds' = HeldIds \ {id} /\ CommittedIds' = CommittedIds
      BY <2>6 DEF HeldIds, CommittedIds, TypeOK
    <3> QED BY <1>0, <2>1, <2>5, <2>6, <3>1 DEF BooksBalance, Consumed
  <2>7. CASE /\ record[id] \in {"reserved", "exposed"} /\ spent' = spent + price[id]
             /\ record' = [record EXCEPT ![id] = "committed"]
    <3>1. /\ HeldIds' = HeldIds \ {id} /\ CommittedIds' = CommittedIds \cup {id}
          /\ id \notin CommittedIds
      BY <2>7 DEF HeldIds, CommittedIds, TypeOK
    <3>2. \A j \in CommittedIds \cup {id} : price[j] \in Nat
      BY <2>1 DEF CommittedIds
    <3>3. AtomicTotal(CommittedIds \cup {id}, price) = committed + price[id]
      BY <3>1, <3>2, IdsFinite, AtomicTotalAdd
    <3> QED BY <1>0, <2>1, <2>5, <2>7, <3>1, <3>3 DEF BooksBalance, Consumed
  <2> QED BY <1>2, <2>2, <2>3, <2>4, <2>6, <2>7, RecordStepBooks
<1>3. ASSUME NEW id \in Ids, Settles(id) \/ RunsOut(id)
      PROVE  BooksBalance'
  BY <1>3, ChainSteps, BooksAgree DEF store, client
<1> QED BY <1>1, <1>2, <1>3, StepCases

-------------------------------------------------------------------------------
(* The theorems.                                                           *)

LEMMA ClientInvInit ==
  ASSUME Init
  PROVE  ClientInv
<1>1. TypeOK
  <2>1. 1 \in 1 .. MaxPaidAttempts
    BY AttemptAssumption
  <2> QED BY <2>1, PlacesListed DEF Init, TypeOK
<1>2. RechallengesPermitted /\ WaitsForTheWire /\ FreshAttempts /\ SettlingCallsAreLate
  BY DEF Init, RechallengesPermitted, WaitsForTheWire, FreshAttempts, Fresh,
         SettlingCallsAreLate
<1>3. SilentUntilFenced /\ AnswersStand /\ PayableIsCovered /\ GivenUpIsDead
  BY DEF Init, SilentUntilFenced, AnswersStand, PayableIsCovered, GivenUpIsDead, Payable
<1>4. BooksBalance
  <2>1. HeldIds = {} /\ CommittedIds = {}
    BY DEF Init, HeldIds, CommittedIds
  <2> QED BY <2>1, AtomicTotalEmpty, PriceAssumption DEF Init, BooksBalance, Consumed
<1> QED BY <1>1, <1>2, <1>3, <1>4 DEF ClientInv, ControlInv, ChainInv

LEMMA TypeStep ==
  ASSUME TypeOK, RechallengesPermitted, WaitsForTheWire, Next
  PROVE  TypeOK'
<1>1. ASSUME NEW id \in Ids, Settles(id) \/ RunsOut(id)
      PROVE  TypeOK'
  BY <1>1, ChainSteps DEF TypeOK, store, client
<1> QED BY <1>1, TurnTyped, RecordStepTyped, StepCases

LEMMA ClientInvStep ==
  ASSUME OperatorWaits, ClientInv, [Next]_vars
  PROVE  ClientInv'
<1>1. CASE Next
  <2>1. ControlInv'
    BY <1>1, TypeStep, RechallengesPermittedStep, WaitsForTheWireStep, FreshAttemptsStep,
       SettlingCallsStep DEF ClientInv, ControlInv
  <2>2. ChainInv'
    BY <1>1, GivenUpIsDeadStep, SilentUntilFencedStep, AnswersStandStep, PayableIsCoveredStep
       DEF ClientInv, ChainInv
  <2> QED BY <1>1, <2>1, <2>2, BooksBalanceStep DEF ClientInv
<1>2. CASE UNCHANGED vars
  BY <1>2 DEF ClientInv, ControlInv, ChainInv, TypeOK, RechallengesPermitted, WaitsForTheWire,
              FreshAttempts, Fresh, SettlingCallsAreLate, Over, GivenUpIsDead, Payable,
              SilentUntilFenced, AnswersStand, PayableIsCovered, BooksBalance, Consumed,
              HeldIds, CommittedIds, Current, vars, store, client, chain
<1> QED BY <1>1, <1>2

LEMMA ClientInvariant ==
  ASSUME OperatorWaits
  PROVE  Spec => []ClientInv
<1>1. Init => ClientInv
  BY ClientInvInit
<1>2. ClientInv /\ [Next]_vars => ClientInv'
  BY ClientInvStep
<1> QED BY <1>1, <1>2, PTL DEF Spec

\* Every variable keeps its type, however calls are lost, delayed or resent.
THEOREM ClientTypeCorrect ==
  ASSUME OperatorWaits
  PROVE  Spec => []TypeOK
<1>1. ClientInv => TypeOK
  BY DEF ClientInv, ControlInv
<1> QED BY <1>1, ClientInvariant, PTL

\* What has settled or still may is exposed or committed, for a budget is given
\* back only over a signature that is dead on chain.
THEOREM PayableAlwaysCovered ==
  ASSUME OperatorWaits
  PROVE  Spec => []PayableIsCovered
<1>1. ClientInv => PayableIsCovered
  BY DEF ClientInv, ChainInv
<1> QED BY <1>1, ClientInvariant, PTL

\* What really settles on chain never exceeds the cumulative cap: it is all on
\* the books, and the books fit the cap.
THEOREM MoneyStaysWithinCap ==
  ASSUME OperatorWaits
  PROVE  Spec => []MoneyWithinCap
<1>1. ASSUME ClientInv
      PROVE  MoneyWithinCap
  <2> USE <1>1 DEF ClientInv, ControlInv, ChainInv
  <2>1. settled \subseteq HeldIds \cup CommittedIds
    BY DEF PayableIsCovered, Payable, HeldIds, CommittedIds, TypeOK
  <2>2. /\ \A id \in HeldIds \cup CommittedIds : price[id] \in Nat
        /\ HeldIds \cap CommittedIds = {}
    BY PriceTyped DEF HeldIds, CommittedIds
  <2>3. IsFiniteSet(HeldIds \cup CommittedIds)
    BY IdsFinite, FS_Union
  <2>4. AtomicTotal(settled, price) <= AtomicTotal(HeldIds \cup CommittedIds, price)
    BY <2>1, <2>2, <2>3, AtomicTotalMonotone
  <2>5. AtomicTotal(HeldIds \cup CommittedIds, price)
          = AtomicTotal(HeldIds, price) + AtomicTotal(CommittedIds, price)
    BY <2>2, IdsFinite, AtomicTotalDisjoint
  <2>6. AtomicTotal(settled, price) \in Nat
    <3>1. IsFiniteSet(settled) /\ \A id \in settled : price[id] \in Nat
      BY <2>1, <2>2, <2>3, FS_Subset
    <3> QED BY <3>1, AtomicTotalType
  <2> QED BY <2>4, <2>5, <2>6, TotalsTyped, PriceAssumption
          DEF MoneyWithinCap, BooksBalance, Consumed
<1> QED BY <1>1, ClientInvariant, PTL

LEMMA PaysOnceInv ==
  ASSUME ClientInv, NEW q \in Requests
  PROVE  { id \in settled : id[1] = q } \subseteq {Current(q)}
<1> USE DEF ClientInv, ControlInv, ChainInv
<1> SUFFICES ASSUME NEW id \in settled, id[1] = q
             PROVE  id = Current(q)
  OBVIOUS
<1>1. id \in Ids /\ id \in onWire /\ Payable(id)
  BY DEF TypeOK, Payable
<1>2. id[2] \in Nat /\ attempt[q] \in Nat /\ id = <<q, id[2]>>
  BY <1>1, CurrentTyped, AttemptAssumption DEF Ids
<1>3. ~(id[2] < attempt[q]) /\ ~(id[2] > attempt[q])
  BY <1>1 DEF GivenUpIsDead, FreshAttempts, Fresh
<1> QED BY <1>2, <1>3 DEF Current

\* One fetch pays at most once: every attempt but the current one is dead.
THEOREM OneFetchPaysOnce ==
  ASSUME OperatorWaits
  PROVE  Spec => []PaysOnce
<1>1. ASSUME ClientInv
      PROVE  PaysOnce
  <2> SUFFICES ASSUME NEW q \in Requests
               PROVE  Cardinality({ id \in settled : id[1] = q }) <= 1
    BY DEF PaysOnce
  <2>1. IsFiniteSet({Current(q)}) /\ Cardinality({Current(q)}) = 1
    BY FS_Singleton
  <2> QED BY <1>1, <2>1, PaysOnceInv, FS_Subset
<1> QED BY <1>1, ClientInvariant, PTL

LEMMA HonestInv ==
  ASSUME ClientInv
  PROVE  HonestOutcome
<1> USE DEF ClientInv, ControlInv, ChainInv
<1>1. ASSUME NEW q \in Requests, outcome[q] = "no", NEW id \in Ids, id[1] = q
      PROVE  ~Payable(id)
  <2>1. id[2] \in Nat /\ attempt[q] \in Nat /\ id = <<q, id[2]>>
    BY <1>1, CurrentTyped, AttemptAssumption DEF Ids
  <2>2. CASE id[2] > attempt[q]
    BY <1>1, <2>2 DEF FreshAttempts, Fresh, Payable, TypeOK
  <2>3. CASE id[2] <= attempt[q]
    BY <1>1, <2>1, <2>3 DEF GivenUpIsDead, Current
  <2> QED BY <2>1, <2>2, <2>3
<1> QED BY <1>1 DEF HonestOutcome, AnswersStand

\* A caller told that no money moved may retry, and one told that it was
\* delivered finds it committed, at that moment and ever after.
THEOREM OutcomeAlwaysHonest ==
  ASSUME OperatorWaits
  PROVE  Spec => []HonestOutcome
BY HonestInv, ClientInvariant, PTL

-------------------------------------------------------------------------------
(* The command.                                                            *)

\* The script stops on success, on a usage error and wherever money may be in play.
CautiousScript == Reruns \cap {0, 2, 8, 9} = {}

Stages == {"idle", "started", "asking", "planned", "paying", "body", "exited"}

ShellTypeOK ==
    /\ caller \in {"command", "program"}
    /\ stage \in [Requests -> Stages]
    /\ announced \in [Requests -> Seq(Ids)]
    /\ exit \in [Requests -> {-1} \cup 0 .. 9]
    /\ settlement \in [Requests -> [status : {"null", "committed", "unknown"},
                                    transaction : {"null"} \cup Ids]]

Unpaid(q) == \A id \in Ids : id[1] = q => ~Payable(id)

\* Where a run of the command stands, its request stands with it.
StagesInStep ==
    \A q \in Requests :
        /\ stage[q] = "idle" => pc[q] = "planning"
        /\ stage[q] \in {"idle", "started", "asking", "planned"} =>
               pc[q] \in {"planning", "crashed"} /\ attempt[q] = 1 /\ announced[q] = <<>>
        /\ stage[q] = "body" =>
               /\ pc[q] \in {"planning", "done", "crashed"}
               /\ announced[q] = <<>> \/ outcome[q] = "delivered"
        /\ stage[q] = "exited" => pc[q] \in {"planning", "done"}

\* A request that ended has told its caller how.
DoneIsTold == \A q \in Requests : pc[q] = "done" => outcome[q] # "none"

\* A request that got past its reservation has announced it.
ReservationsAnnounced ==
    \A q \in Requests :
        \/ pc[q] \in {"signing", "fencing", "waiting", "releasing", "committing"}
        \/ attempt[q] > 1
        \/ outcome[q] \in {"yes", "unknown", "delivered"}
        => announced[q] # <<>>

\* An exit outside those where money may be in play leaves nothing payable.
ExitsTellUnpaid ==
    \A q \in Requests :
        /\ stage[q] = "exited"
        /\ exit[q] \notin {0, 2, 8, 9} \/ (exit[q] = 9 /\ settlement[q].status = "null")
        => Unpaid(q)

\* A run was started only after all before it gave cause to run again.
RunsInTurn == \A q, r \in Requests : r < q /\ stage[q] # "idle" => Again(r)

CommandInv == StagesInStep /\ ReservationsAnnounced /\ ExitsTellUnpaid /\ RunsInTurn

CallInv == /\ ClientInv /\ ShellTypeOK /\ DoneIsTold
           /\ caller = "command" => CommandInv

-------------------------------------------------------------------------------
(* The command and the program take no step but the client's.              *)

LEMMA CallStepsAreClientSteps ==
  ASSUME CallNext
  PROVE  Next \/ UNCHANGED vars
<1>1. 1 \in Requests
  <2>1. IsFiniteSet(Requests) /\ Requests # {}
    BY RequestAssumption, RunsAssumption
  <2>2. Cardinality(Requests) \in Nat /\ Cardinality(Requests) # 0
    BY <2>1, FS_CardinalityType, FS_EmptySet
  <2> QED BY <2>2, RunsAssumption
<1>2. ASSUME NEW q \in Requests, Run(q)
      PROVE  Next \/ UNCHANGED vars
  BY <1>2 DEF Run, Starts, UsageRefused, ResolvesSigners, AskFails, AnsweredFree, Challenged,
              DryRunEnds, Pays, Reserved, Proceeds, FetchReturns, FetchThrows, BodyReads,
              BodyFails, Next, ClientStep, Turn
<1>3. ASSUME NEW q \in Requests, Killed(q)
      PROVE  Next
  BY <1>3 DEF Killed, Next
<1>4. CASE OwnStore
  BY <1>4 DEF OwnStore, Next, StoreStep
<1>5. CASE Merchant
  BY <1>5 DEF Merchant, Next, World
<1>6. CASE Program
  BY <1>1, <1>6 DEF Program, Next
<1> QED BY <1>2, <1>3, <1>4, <1>5, <1>6 DEF CallNext

\* What the command does is what the client does: every behaviour of the command,
\* and of a program over a shared store, is one of the paid request path.
THEOREM CommandImplementsClient == CallSpec => Spec
<1>1. CallInit => Init
  BY DEF CallInit
<1>2. [CallNext]_callVars => [Next]_vars
  BY CallStepsAreClientSteps DEF callVars
<1> QED BY <1>1, <1>2, PTL DEF CallSpec, Spec

-------------------------------------------------------------------------------
(* What each step does to the shell around the client.                     *)

\* A step of the shell of one run, over an unchanged client.
ShellStep(q) ==
    \/ Starts(q) \/ UsageRefused(q) \/ ResolvesSigners(q) \/ AskFails(q) \/ AnsweredFree(q)
    \/ Challenged(q) \/ DryRunEnds(q) \/ FetchReturns(q) \/ FetchThrows(q) \/ BodyReads(q)
    \/ BodyFails(q)

\* A step of the client under the command, with what it announces.
PayStep(q) ==
    /\ stage[q] = "paying" /\ Turn(q)
    /\ UNCHANGED <<stage, exit, settlement>>
    /\ \/ UNCHANGED announced
       \/ announced' = [announced EXCEPT ![q] = Append(@, Current(q))]
    /\ pc[q] = "reserving" /\ pc'[q] = "signing" =>
           announced' = [announced EXCEPT ![q] = Append(@, Current(q))]

KillStep(q) == /\ Crashes(q) /\ stage[q] \notin {"idle", "exited"} /\ UNCHANGED shell

AnswerStep(q) == /\ \E result \in Results(Statuses) : Answers(q, result)
                 /\ UNCHANGED shell

\* The store of the process handles a call once and answers it, or lapses a record.
StoreTurn(id) ==
    \/ /\ StoreReserve(id) \/ StoreExpose(id) \/ StoreRelease(id) \/ StoreCommit(id)
       /\ calls' # calls /\ reply' # reply
    \/ Lapse(id)

LEMMA StoreTurnIsStep ==
  ASSUME NEW id \in Ids, StoreTurn(id)
  PROVE  RecordStep(id)
BY DEF StoreTurn, RecordStep

LEMMA CommandStepCases ==
  ASSUME TypeOK, CallNext, caller = "command"
  PROVE  /\ caller' = "command"
         /\ \/ \E q \in Requests : ShellStep(q) /\ UNCHANGED vars /\ pc[q] # "crashed"
            \/ \E q \in Requests : PayStep(q) \/ KillStep(q) \/ AnswerStep(q)
            \/ /\ \E id \in Ids : StoreTurn(id) \/ Settles(id) \/ RunsOut(id)
               /\ UNCHANGED shell
<1>1. ASSUME NEW q \in Requests, Pays(q)
      PROVE  PayStep(q) /\ caller' = "command"
  <2>1. CASE Reserved(q)
    <3>1. Turn(q)
      BY <2>1 DEF Reserved, Turn
    <3>2. pc'[q] = "signing" => reply[q] = "ok"
      BY <2>1 DEF Reserved, ReserveReturns, Ends, Goes, TypeOK
    <3> QED BY <1>1, <2>1, <3>1, <3>2 DEF Pays, Reserved, PayStep
  <2>2. CASE Proceeds(q)
    <3>1. Turn(q)
      BY <2>2 DEF Proceeds, Turn
    <3>2. ~(pc[q] = "reserving" /\ pc'[q] = "signing")
      BY <2>2 DEF Proceeds, PlanFails, Plans, SignFails, Signs, FenceFails, Transmits,
                  TransmissionFails, CommitReturns, ReleaseReturns
    <3> QED BY <1>1, <2>2, <3>1, <3>2 DEF Pays, Proceeds, PayStep, shell
  <2> QED BY <1>1, <2>1, <2>2 DEF Pays
<1>2. ASSUME NEW q \in Requests, Run(q)
      PROVE  /\ caller' = "command"
             /\ PayStep(q) \/ (ShellStep(q) /\ UNCHANGED vars /\ pc[q] # "crashed")
  BY <1>1, <1>2 DEF Run, ShellStep, Starts, UsageRefused, ResolvesSigners, AskFails, AnsweredFree,
                    Challenged, DryRunEnds, FetchReturns, FetchThrows, BodyReads, BodyFails,
                    Exits, Reports
<1>3. ASSUME NEW q \in Requests, Killed(q)
      PROVE  KillStep(q) /\ caller' = "command"
  BY <1>3 DEF Killed, KillStep
<1>4. CASE OwnStore
  BY <1>4 DEF OwnStore, StoreTurn
<1>5. CASE Merchant
  BY <1>5 DEF Merchant, AnswerStep
<1>6. CASE Program
  BY <1>6 DEF Program
<1> QED BY <1>2, <1>3, <1>4, <1>5, <1>6 DEF CallNext

\* What a step of the shell changes of its run, and of no other.
LEMMA ShellStepFrame ==
  ASSUME ShellTypeOK, NEW q \in Requests, ShellStep(q)
  PROVE  /\ UNCHANGED announced
         /\ \A r \in Requests \ {q} : /\ stage'[r] = stage[r] /\ exit'[r] = exit[r]
                                      /\ settlement'[r] = settlement[r]
         /\ stage[q] # "exited"
         /\ \/ /\ stage'[q] # "exited" /\ exit'[q] = exit[q] /\ settlement'[q] = settlement[q]
            \/ stage[q] # "idle" /\ stage'[q] = "exited"
         /\ stage[q] = "idle" => /\ stage'[q] = "started"
                                 /\ q > 1 => Again(q - 1)
BY DEF ShellTypeOK, Stages, ShellStep, Starts, UsageRefused, ResolvesSigners, AskFails,
       AnsweredFree, Challenged, DryRunEnds, FetchReturns, FetchThrows, BodyReads, BodyFails,
       GoesOn, Exits, Reports

LEMMA ReportTyped ==
  ASSUME ShellTypeOK, NEW q \in Requests, NEW status \in {"committed", "unknown"}
  PROVE  SettlementFor(q, status) \in [status : {"null", "committed", "unknown"},
                                       transaction : {"null"} \cup Ids]
BY DEF SettlementFor, NoSettlement, Entries

\* What an error of the client is reported as.
LEMMA FetchThrowsCases ==
  ASSUME TypeOK, DoneIsTold, NEW q \in Requests, FetchThrows(q)
  PROVE  \/ outcome[q] = "no" /\ \E code \in 2 .. 9 : Reports(q, code, NoSettlement)
         \/ outcome[q] = "yes" /\ Reports(q, 9, SettlementFor(q, "committed"))
         \/ outcome[q] = "unknown" /\ Reports(q, 8, SettlementFor(q, "unknown"))
<1>1. outcome[q] \in {"no", "yes", "unknown"}
  BY DEF FetchThrows, DoneIsTold, TypeOK
<1>2. CASE outcome[q] = "no"
  <2>1. ExitCodes("no", Current(q) \in onWire) \subseteq 2 .. 9
    BY DEF ExitCodes
  <2>2. PICK code \in ExitCodes("no", Current(q) \in onWire) : Reports(q, code, NoSettlement)
    BY <1>2 DEF FetchThrows
  <2> QED BY <1>2, <2>1, <2>2
<1>3. CASE outcome[q] = "yes"
  BY <1>3 DEF FetchThrows, ExitCodes
<1>4. CASE outcome[q] = "unknown"
  BY <1>4 DEF FetchThrows, ExitCodes
<1> QED BY <1>1, <1>2, <1>3, <1>4

LEMMA DoneIsToldStep ==
  ASSUME TypeOK, DoneIsTold, Next
  PROVE  DoneIsTold'
<1>1. ASSUME NEW q \in Requests, RequestStep(q)
      PROVE  DoneIsTold'
  <2>1. pc'[q] = "done" => outcome'[q] # "none"
    BY <1>1, RequestStepMoves, PlacesListed DEF Moved, Stays, Sent, Passes
  <2> QED BY <1>1, <2>1, RequestStepFrame DEF DoneIsTold
<1> QED BY <1>1, StepCases, RecordStepFrame, ChainSteps DEF DoneIsTold, client

LEMMA ShellTypeStep ==
  ASSUME TypeOK, DoneIsTold, ShellTypeOK, CallNext
  PROVE  ShellTypeOK'
<1>1. CASE caller = "program"
  BY <1>1 DEF CallNext, Run, Starts, UsageRefused, ResolvesSigners, AskFails, AnsweredFree,
              Challenged, DryRunEnds, Pays, FetchReturns, FetchThrows, BodyReads, BodyFails,
              GoesOn, Killed, OwnStore, Merchant, Program, ShellTypeOK, shell
<1>2. ASSUME NEW q \in Requests, NEW code \in 0 .. 9,
             NEW report \in [status : {"null", "committed", "unknown"},
                             transaction : {"null"} \cup Ids],
             Reports(q, code, report)
      PROVE  ShellTypeOK'
  BY <1>2 DEF Reports, ShellTypeOK, Stages
<1>3. NoSettlement \in [status : {"null", "committed", "unknown"},
                        transaction : {"null"} \cup Ids]
  BY DEF NoSettlement
<1>4. ASSUME NEW q \in Requests, ShellStep(q)
      PROVE  ShellTypeOK'
  <2>1. CASE Starts(q) \/ ResolvesSigners(q) \/ AnsweredFree(q) \/ Challenged(q) \/ FetchReturns(q)
    BY <2>1 DEF Starts, ResolvesSigners, AnsweredFree, Challenged, FetchReturns, GoesOn,
                ShellTypeOK, Stages
  <2>2. CASE UsageRefused(q) \/ AskFails(q) \/ DryRunEnds(q) \/ BodyFails(q)
    <3>1. PICK code \in {0, 2, 3, 4, 5, 7} : Reports(q, code, NoSettlement)
      BY <2>2 DEF UsageRefused, AskFails, DryRunEnds, BodyFails, Exits
    <3> QED BY <1>2, <1>3, <3>1
  <2>3. CASE BodyReads(q)
    BY <1>2, <2>3, ReportTyped DEF BodyReads
  <2>4. CASE FetchThrows(q)
    BY <1>2, <1>3, <2>4, ReportTyped, FetchThrowsCases
  <2> QED BY <1>4, <2>1, <2>2, <2>3, <2>4 DEF ShellStep
<1>5. ASSUME NEW q \in Requests, PayStep(q), caller' = caller
      PROVE  ShellTypeOK'
  <2>1. Append(announced[q], Current(q)) \in Seq(Ids)
    BY CurrentTyped DEF ShellTypeOK
  <2> QED BY <1>5, <2>1 DEF PayStep, ShellTypeOK
<1>6. CASE caller = "command"
  <2>1. ASSUME UNCHANGED shell, caller' = caller
        PROVE  ShellTypeOK'
    BY <2>1 DEF ShellTypeOK, shell
  <2> QED BY <1>4, <1>5, <1>6, <2>1, CommandStepCases DEF KillStep, AnswerStep
<1> QED BY <1>1, <1>6 DEF ShellTypeOK

-------------------------------------------------------------------------------
(* The command's own invariant.                                            *)

\* Only a run that is paying takes a step of the client that is not a crash.
LEMMA PayingRuns ==
  ASSUME TypeOK, StagesInStep, NEW q \in Requests, AnswerStep(q)
  PROVE  pc[q] = "waiting" /\ stage[q] \notin {"idle", "started", "asking", "planned", "body",
                                               "exited"}
BY DEF AnswerStep, Answers, StagesInStep

LEMMA StagesInStepStep ==
  ASSUME CallInv, caller = "command", CallNext
  PROVE  StagesInStep'
<1> USE DEF CallInv, ClientInv, ControlInv, CommandInv
<1>1. ASSUME NEW q \in Requests, ShellStep(q), UNCHANGED vars, pc[q] # "crashed"
      PROVE  StagesInStep'
  <2>1. CASE Starts(q) \/ ResolvesSigners(q) \/ AnsweredFree(q) \/ Challenged(q) \/ FetchReturns(q)
    BY <1>1, <2>1 DEF Starts, ResolvesSigners, AnsweredFree, Challenged, FetchReturns, GoesOn,
                ShellTypeOK, StagesInStep, vars, client
  <2>2. CASE UsageRefused(q) \/ AskFails(q) \/ DryRunEnds(q) \/ FetchThrows(q) \/ BodyReads(q)
             \/ BodyFails(q)
    <3>1. pc[q] \in {"planning", "done"}
      BY <1>1, <2>2 DEF UsageRefused, AskFails, DryRunEnds, FetchThrows, BodyReads, BodyFails,
                        StagesInStep
    <3>2. stage' = [stage EXCEPT ![q] = "exited"] /\ UNCHANGED announced
      BY <2>2 DEF UsageRefused, AskFails, DryRunEnds, FetchThrows, BodyReads, BodyFails, Exits,
                  Reports
    <3> QED BY <1>1, <3>1, <3>2 DEF StagesInStep, ShellTypeOK, vars, client
  <2> QED BY <1>1, <2>1, <2>2 DEF ShellStep
<1>2. ASSUME NEW q \in Requests, PayStep(q)
      PROVE  StagesInStep'
  <2>1. \A r \in Requests \ {q} : announced'[r] = announced[r]
    BY <1>2 DEF PayStep, ShellTypeOK
  <2>2. stage' = stage /\ stage[q] = "paying" /\ RequestStep(q)
    BY <1>2 DEF PayStep, RequestStep, ClientStep
  <2> QED BY <2>1, <2>2, RequestStepFrame DEF StagesInStep
<1>3. ASSUME NEW q \in Requests, KillStep(q)
      PROVE  StagesInStep'
  BY <1>3 DEF KillStep, Crashes, Goes, StagesInStep, shell, TypeOK
<1>4. ASSUME NEW q \in Requests, AnswerStep(q)
      PROVE  StagesInStep'
  <2>1. RequestStep(q) /\ UNCHANGED shell
    BY <1>4 DEF AnswerStep, RequestStep
  <2> QED BY <1>4, <2>1, PayingRuns, RequestStepFrame DEF StagesInStep, shell
<1>5. ASSUME NEW id \in Ids, StoreTurn(id) \/ Settles(id) \/ RunsOut(id), UNCHANGED shell
      PROVE  StagesInStep'
  BY <1>5, StoreTurnIsStep, RecordStepFrame, ChainSteps DEF StagesInStep, shell, client
<1> QED BY <1>1, <1>2, <1>3, <1>4, <1>5, CommandStepCases

LEMMA AnnouncedStep ==
  ASSUME CallInv, caller = "command", CallNext
  PROVE  ReservationsAnnounced'
<1> USE DEF CallInv, ClientInv, ControlInv, CommandInv
<1>1. ASSUME NEW q \in Requests, ShellStep(q), UNCHANGED vars
      PROVE  ReservationsAnnounced'
  BY <1>1, ShellStepFrame DEF ReservationsAnnounced, vars, client
<1>2. ASSUME NEW q \in Requests, RequestStep(q),
             \/ UNCHANGED announced
             \/ announced' = [announced EXCEPT ![q] = Append(@, Current(q))],
             pc[q] = "reserving" /\ pc'[q] = "signing" =>
                 announced' = [announced EXCEPT ![q] = Append(@, Current(q))]
      PROVE  ReservationsAnnounced'
  <2>1. ASSUME NEW s \in Seq(Ids)
        PROVE  Append(s, Current(q)) # <<>>
    <3>1. Len(Append(s, Current(q))) = Len(s) + 1 /\ Len(s) \in Nat
      BY CurrentTyped
    <3>2. Len(<<>>) = 0 /\ \A n \in Nat : n + 1 # 0
      OBVIOUS
    <3> QED BY <3>1, <3>2
  <2>2. announced[q] # <<>> => announced'[q] # <<>>
    BY <1>2, <2>1 DEF ShellTypeOK
  <2>3. pc[q] = "reserving" /\ pc'[q] = "signing" => announced'[q] # <<>>
    BY <1>2, <2>1 DEF ShellTypeOK
  <2>4. \A r \in Requests \ {q} : announced'[r] = announced[r]
    BY <1>2 DEF ShellTypeOK
  <2>5. Moved(q)
    BY <1>2, RequestStepMoves
  <2>6. attempt'[q] > 1 => attempt[q] > 1 \/ pc[q] = "releasing"
    BY <2>5 DEF Moved, Stays, Sent, Passes
  <2>7. outcome'[q] \in {"yes", "unknown", "delivered"} =>
            outcome'[q] = outcome[q] \/ pc[q] \in {"committing", "waiting"}
    BY <2>5 DEF Moved, Stays, Sent, Passes
  <2>8. pc'[q] \in {"signing", "fencing", "waiting", "releasing", "committing"} =>
            \/ pc[q] \in {"signing", "fencing", "waiting", "releasing", "committing"}
            \/ pc[q] = "reserving" /\ pc'[q] = "signing"
    BY <2>5, PlacesListed DEF Moved, Stays, Sent, Passes
  <2>9. \/ pc'[q] \in {"signing", "fencing", "waiting", "releasing", "committing"}
        \/ attempt'[q] > 1
        \/ outcome'[q] \in {"yes", "unknown", "delivered"}
        => announced'[q] # <<>>
    BY <2>2, <2>3, <2>6, <2>7, <2>8 DEF ReservationsAnnounced
  <2> QED BY <1>2, <2>4, <2>9, RequestStepFrame DEF ReservationsAnnounced
<1>3. ASSUME NEW q \in Requests, PayStep(q)
      PROVE  ReservationsAnnounced'
  BY <1>2, <1>3 DEF PayStep, RequestStep, ClientStep
<1>4. ASSUME NEW q \in Requests, KillStep(q) \/ AnswerStep(q)
      PROVE  ReservationsAnnounced'
  <2>1. RequestStep(q) /\ UNCHANGED announced
    BY <1>4 DEF KillStep, AnswerStep, RequestStep, shell
  <2>2. ~(pc[q] = "reserving" /\ pc'[q] = "signing")
    BY <1>4 DEF KillStep, AnswerStep, Answers, Crashes, Goes, TypeOK
  <2> QED BY <1>2, <2>1, <2>2
<1>5. ASSUME NEW id \in Ids, StoreTurn(id) \/ Settles(id) \/ RunsOut(id), UNCHANGED shell
      PROVE  ReservationsAnnounced'
  BY <1>5, StoreTurnIsStep, RecordStepFrame, ChainSteps DEF ReservationsAnnounced, shell, client
<1> QED BY <1>1, <1>3, <1>4, <1>5, CommandStepCases

\* A request that has not begun to pay, or has ended, pays nothing more.
LEMMA UnpaidStays ==
  ASSUME TypeOK, Next, NEW q \in Requests, pc[q] \in {"planning", "done"}, Unpaid(q)
  PROVE  Unpaid(q)'
<1> SUFFICES ASSUME NEW id \in Ids, id[1] = q, Payable(id)'
             PROVE  FALSE
  BY DEF Unpaid
<1>1. PICK r \in Requests : id = Current(r) /\ pc[r] = "fencing"
  BY PayableStep DEF Unpaid
<1>2. r = q
  BY <1>1, CurrentTyped
<1> QED BY <1>1, <1>2

\* A request that has not signed yet has nothing payable.
LEMMA UnsignedUnpaid ==
  ASSUME ClientInv, NEW q \in Requests, pc[q] = "planning", attempt[q] = 1
  PROVE  Unpaid(q)
<1> USE DEF ClientInv, ControlInv
<1> SUFFICES ASSUME NEW id \in Ids, id[1] = q
             PROVE  ~Payable(id)
  BY DEF Unpaid
<1>1. id[2] \in Nat /\ id[2] >= 1
  BY AttemptAssumption DEF Ids
<1> QED BY <1>1 DEF FreshAttempts, Fresh, Payable, TypeOK

LEMMA NoMoneyUnpaid ==
  ASSUME ClientInv, NEW q \in Requests, outcome[q] = "no"
  PROVE  Unpaid(q)
BY HonestInv DEF HonestOutcome, Unpaid

LEMMA ExitsTellUnpaidStep ==
  ASSUME CallInv, caller = "command", CallNext
  PROVE  ExitsTellUnpaid'
<1> USE DEF CallInv, ClientInv, ControlInv, CommandInv
<1> DEFINE Tells(q) == \/ exit[q] \notin {0, 2, 8, 9}
                       \/ exit[q] = 9 /\ settlement[q].status = "null"
<1> SUFFICES ASSUME NEW q \in Requests, stage'[q] = "exited", Tells(q)'
             PROVE  Unpaid(q)'
  BY DEF ExitsTellUnpaid
<1>1. CASE stage[q] = "exited"
  <2>1. exit'[q] = exit[q] /\ settlement'[q] = settlement[q]
    <3>1. ASSUME NEW r \in Requests, ShellStep(r)
          PROVE  exit'[q] = exit[q] /\ settlement'[q] = settlement[q]
      BY <1>1, <3>1, ShellStepFrame
    <3> QED BY <3>1, CommandStepCases DEF PayStep, KillStep, AnswerStep, shell
  <2>2. Unpaid(q) /\ pc[q] \in {"planning", "done"}
    BY <1>1, <2>1 DEF ExitsTellUnpaid, StagesInStep
  <2>3. CASE Next
    BY <2>2, <2>3, UnpaidStays
  <2>4. CASE UNCHANGED vars
    BY <2>2, <2>4 DEF Unpaid, Payable, vars, chain
  <2> QED BY <2>3, <2>4, CallStepsAreClientSteps
<1>2. CASE stage[q] # "exited"
  <2>1. ShellStep(q) /\ UNCHANGED vars /\ pc[q] # "crashed"
    <3>1. ASSUME NEW r \in Requests \ {q}, ShellStep(r)
          PROVE  FALSE
      BY <1>2, <3>1, ShellStepFrame
    <3> QED BY <1>2, <3>1, CommandStepCases DEF PayStep, KillStep, AnswerStep, shell
  <2>2. Unpaid(q)
    <3>1. CASE UsageRefused(q) \/ AskFails(q) \/ DryRunEnds(q)
      <4>1. pc[q] = "planning" /\ attempt[q] = 1
        BY <2>1, <3>1 DEF UsageRefused, AskFails, DryRunEnds, StagesInStep
      <4> QED BY <4>1, UnsignedUnpaid
    <3>2. CASE FetchThrows(q)
      <4>1. CASE outcome[q] = "no"
        BY <4>1, NoMoneyUnpaid
      <4>2. ASSUME outcome[q] = "yes", Reports(q, 9, SettlementFor(q, "committed"))
            PROVE  FALSE
        <5>1. announced[q] # <<>>
          BY <4>2 DEF ReservationsAnnounced
        <5>2. exit'[q] = 9 /\ settlement'[q].status = "committed"
          BY <4>2, <5>1 DEF Reports, SettlementFor, ShellTypeOK
        <5> QED BY <5>2
      <4>3. ASSUME outcome[q] = "unknown", Reports(q, 8, SettlementFor(q, "unknown"))
            PROVE  FALSE
        BY <4>3 DEF Reports, ShellTypeOK
      <4> QED BY <3>2, <4>1, <4>2, <4>3, FetchThrowsCases
    <3>3. CASE BodyReads(q) \/ BodyFails(q)
      BY <3>3 DEF BodyReads, BodyFails, Exits, Reports, ShellTypeOK
    <3>4. CASE Starts(q) \/ ResolvesSigners(q) \/ AnsweredFree(q) \/ Challenged(q)
               \/ FetchReturns(q)
      BY <3>4 DEF Starts, ResolvesSigners, AnsweredFree, Challenged, FetchReturns, GoesOn,
                  ShellTypeOK
    <3> QED BY <2>1, <3>1, <3>2, <3>3, <3>4 DEF ShellStep
  <2> QED BY <2>1, <2>2 DEF Unpaid, Payable, vars, chain
<1> QED BY <1>1, <1>2

LEMMA RunsInTurnStep ==
  ASSUME CallInv, caller = "command", CallNext
  PROVE  RunsInTurn'
<1> USE DEF CallInv, ClientInv, ControlInv, CommandInv
<1>1. ASSUME UNCHANGED <<stage, exit, settlement>>
      PROVE  RunsInTurn'
  BY <1>1 DEF RunsInTurn, Again
<1>2. ASSUME NEW p \in Requests, ShellStep(p), NEW q \in Requests, NEW r \in Requests,
             r < q, stage'[q] # "idle"
      PROVE  Again(r)'
  <2>1. Again(r)
    <3>1. CASE stage[q] # "idle"
      BY <1>2, <3>1 DEF RunsInTurn
    <3>2. CASE stage[q] = "idle"
      <4>1. p = q /\ (q > 1 => Again(q - 1))
        BY <1>2, <3>2, ShellStepFrame
      <4>2. q \in Int /\ r \in Int /\ r >= 1 /\ q - 1 \in Requests
        <5>1. IsFiniteSet(Requests)
          BY RequestAssumption
        <5>2. Cardinality(Requests) \in Nat
          BY <5>1, FS_CardinalityType
        <5> QED BY <1>2, <5>2, RunsAssumption
      <4>3. Again(q - 1) /\ stage[q - 1] # "idle"
        BY <1>2, <4>1, <4>2 DEF Again
      <4>4. r = q - 1 \/ r < q - 1
        BY <1>2, <4>2
      <4> QED BY <4>2, <4>3, <4>4 DEF RunsInTurn
    <3> QED BY <3>1, <3>2
  <2>2. r # p
    BY <1>2, <2>1, ShellStepFrame DEF Again
  <2> QED BY <1>2, <2>1, <2>2, ShellStepFrame DEF Again
<1> QED BY <1>1, <1>2, CommandStepCases DEF PayStep, KillStep, AnswerStep, shell, RunsInTurn

LEMMA CallInvInit ==
  ASSUME CallInit
  PROVE  CallInv
<1>1. ClientInv
  BY ClientInvInit DEF CallInit
<1>2. ShellTypeOK
  BY DEF CallInit, ShellTypeOK, Stages, NoSettlement
<1>3. DoneIsTold
  BY DEF CallInit, Init, DoneIsTold
<1>4. CommandInv
  BY DEF CallInit, Init, CommandInv, StagesInStep, ReservationsAnnounced, ExitsTellUnpaid,
         RunsInTurn
<1> QED BY <1>1, <1>2, <1>3, <1>4 DEF CallInv

LEMMA CallInvStep ==
  ASSUME OperatorWaits, CallInv, [CallNext]_callVars
  PROVE  CallInv'
<1>1. CASE CallNext
  <2>1. ClientInv' /\ DoneIsTold'
    <3>1. CASE Next
      BY <3>1, ClientInvStep, DoneIsToldStep DEF CallInv, ClientInv, ControlInv
    <3>2. CASE UNCHANGED vars
      BY <3>2, ClientInvStep DEF CallInv, DoneIsTold, vars, client
    <3> QED BY <1>1, <3>1, <3>2, CallStepsAreClientSteps
  <2>2. ShellTypeOK'
    BY <1>1, ShellTypeStep DEF CallInv, ClientInv, ControlInv
  <2>3. caller' = caller
    BY <1>1 DEF CallNext, Run, Starts, UsageRefused, ResolvesSigners, AskFails, AnsweredFree,
                Challenged, DryRunEnds, Pays, Reserved, Proceeds, FetchReturns, FetchThrows,
                BodyReads, BodyFails, Exits, Reports, Killed, OwnStore, Merchant, Program
  <2>4. caller = "command" => CommandInv'
    BY <1>1, StagesInStepStep, AnnouncedStep, ExitsTellUnpaidStep, RunsInTurnStep DEF CommandInv
  <2> QED BY <2>1, <2>2, <2>3, <2>4 DEF CallInv
<1>2. CASE UNCHANGED callVars
  <2>1. ClientInv'
    BY <1>2, ClientInvStep DEF CallInv, callVars
  <2> QED BY <1>2, <2>1 DEF CallInv, ShellTypeOK, DoneIsTold, CommandInv, StagesInStep,
          ReservationsAnnounced, ExitsTellUnpaid, Unpaid, Payable, RunsInTurn, Again,
          callVars, vars, client, chain, shell
<1> QED BY <1>1, <1>2

LEMMA CallInvariant ==
  ASSUME OperatorWaits
  PROVE  CallSpec => []CallInv
<1>1. CallInit => CallInv
  BY CallInvInit
<1>2. CallInv /\ [CallNext]_callVars => CallInv'
  BY CallInvStep
<1> QED BY <1>1, <1>2, PTL DEF CallSpec

\* A script that runs the command again whenever its exit says that nothing was
\* paid pays at most once, over all its runs and all their attempts.
THEOREM CautiousScriptPaysOnce ==
  ASSUME OperatorWaits, CautiousScript
  PROVE  CallSpec => []RerunPaysOnce
<1>1. ASSUME CallInv
      PROVE  RerunPaysOnce
  <2> USE <1>1 DEF CallInv, ClientInv, ControlInv, CommandInv
  <2> SUFFICES ASSUME caller = "command"
               PROVE  Cardinality(settled) <= 1
    BY DEF RerunPaysOnce
  <2>1. ASSUME NEW id \in settled
        PROVE  /\ id \in Ids /\ id[1] \in Requests /\ stage[id[1]] # "idle" /\ Payable(id)
    <3>1. id \in Ids /\ id \in onWire /\ id[1] \in Requests
      BY DEF TypeOK, Ids
    <3>2. ASSUME stage[id[1]] = "idle"
          PROVE  FALSE
      <4>1. pc[id[1]] = "planning" /\ attempt[id[1]] = 1
        BY <3>1, <3>2 DEF StagesInStep
      <4> QED BY <3>1, <4>1, UnsignedUnpaid DEF Unpaid, Payable
    <3> QED BY <3>1, <3>2 DEF Payable
  <2>2. ASSUME NEW i \in settled, NEW j \in settled, i[1] < j[1]
        PROVE  FALSE
    <3>1. Again(i[1])
      BY <2>1, <2>2 DEF RunsInTurn
    <3>2. Unpaid(i[1])
      BY <2>1, <3>1 DEF Again, ExitsTellUnpaid, CautiousScript
    <3> QED BY <2>1, <3>2 DEF Unpaid
  <2>3. ASSUME NEW i \in settled, NEW j \in settled
        PROVE  i[1] = j[1]
    <3> HIDE <1>1 DEF CallInv, ClientInv, ControlInv, CommandInv
    <3>1. Cardinality(Requests) \in Nat
      BY RequestAssumption, FS_CardinalityType
    <3>2. i[1] \in 1 .. Cardinality(Requests) /\ j[1] \in 1 .. Cardinality(Requests)
      BY <2>1, RunsAssumption, Zenon
    <3>3. i[1] \in Int /\ j[1] \in Int
      BY <3>1, <3>2
    <3>4. ~(i[1] < j[1]) /\ ~(j[1] < i[1])
      BY <2>2
    <3> QED BY <3>3, <3>4
  <2>4. CASE settled = {}
    BY <2>4, FS_EmptySet
  <2>5. ASSUME NEW i \in settled
        PROVE  Cardinality(settled) <= 1
    <3>1. settled \subseteq {Current(i[1])}
      BY <2>1, <2>3, PaysOnceInv
    <3>2. IsFiniteSet({Current(i[1])}) /\ Cardinality({Current(i[1])}) = 1
      BY FS_Singleton
    <3> QED BY <3>1, <3>2, FS_Subset
  <2> QED BY <2>4, <2>5
<1> QED BY <1>1, CallInvariant, PTL

-------------------------------------------------------------------------------
(* What the command reports of the money.                                  *)

\* A store in the process answers before anything else happens to the request: a
\* call under way is the one it waits for, or was left behind by a killed run.
OneCall ==
    \A c \in calls :
        /\ c.id = Current(c.id[1])
        /\ pc[c.id[1]] \in Waits \cup {"crashed"}
        /\ pc[c.id[1]] \in Waits => c.op = Awaited[pc[c.id[1]]] /\ reply[c.id[1]] = "none"

\* With no operator in reach, a fenced record stays exposed until it is settled.
KeptFor(q) ==
    /\ pc[q] = "waiting" => record[Current(q)] = "exposed"
    /\ pc[q] = "fencing" /\ reply[q] = "ok" => record[Current(q)] = "exposed"
    /\ pc[q] = "committing" =>
           \/ reply[q] = "none" /\ record[Current(q)] = "exposed"
           \/ reply[q] = "ok" /\ record[Current(q)] = "committed"
    /\ outcome[q] = "yes" => record[Current(q)] = "committed"
    /\ outcome[q] = "unknown" => record[Current(q)] = "exposed"

Kept == \A q \in Requests : KeptFor(q)

\* What was reported has its reason in the ledger.
ReportStands(q) ==
    /\ settlement[q].transaction # "null" => record[settlement[q].transaction] = "committed"
    /\ settlement[q].status = "committed" =>
           \E id \in Ids : id[1] = q /\ record[id] = "committed"
    /\ settlement[q].status = "unknown" => outcome[q] = "unknown"

ReportsStand == \A q \in Requests : ReportStands(q)

ReportInv ==
    /\ CallInv
    /\ caller = "command" => OneCall /\ Kept /\ ReportsStand
    /\ caller = "program" => \A q \in Requests : settlement[q] = NoSettlement

\* A request goes on by itself only when no call of it is under way.
LEMMA TurnIsAnswered ==
  ASSUME TypeOK, NEW q \in Requests, PayStep(q) \/ AnswerStep(q)
  PROVE  /\ RequestStep(q)
         /\ pc[q] \notin {"done", "crashed"}
         /\ pc[q] \in Waits => reply[q] # "none"
         /\ pc'[q] # pc[q] /\ pc'[q] # "crashed"
<1>1. ASSUME NEW result, Obeys(q, result), pc[q] = "waiting"
      PROVE  pc'[q] \in {"done", "releasing", "committing"}
  BY <1>1 DEF Obeys, Unresolved, Ends, Sends, Goes, TypeOK
<1>2. CASE AnswerStep(q)
  <2>1. PICK result \in Results(Statuses) : Answers(q, result)
    BY <1>2 DEF AnswerStep
  <2>2. pc[q] = "waiting" /\ Obeys(q, result)
    BY <2>1 DEF Answers
  <2> QED BY <1>1, <2>1, <2>2, PlacesListed DEF RequestStep
<1>3. CASE PayStep(q)
  <2>1. Turn(q) /\ RequestStep(q)
    BY <1>3 DEF PayStep, RequestStep, ClientStep
  <2>2. CASE TransmissionFails(q)
    BY <1>1, <2>1, <2>2, PlacesListed DEF TransmissionFails
  <2> QED BY <2>1, <2>2, PlacesListed
          DEF Turn, PlanFails, Plans, ReserveReturns, SignFails, Signs, FenceFails, Transmits,
              CommitReturns, ReleaseReturns, Ends, Sends, Goes, TypeOK
<1> QED BY <1>2, <1>3

\* A handled call was the one its request waits for, and answers it.
LEMMA StoreTurnAnswers ==
  ASSUME TypeOK, OneCall, NEW id \in Ids, StoreTurn(id), ~Lapse(id)
  PROVE  /\ id = Current(id[1]) /\ pc[id[1]] \in Waits /\ reply[id[1]] = "none"
         /\ \A c \in calls' : c \in calls /\ c.id[1] # id[1]
         /\ \A r \in Requests \ {id[1]} : reply'[r] = reply[r]
         /\ pc[id[1]] = "fencing" => StoreExpose(id)
         /\ pc[id[1]] = "committing" => StoreCommit(id)
<1> DEFINE Answered(op) ==
        /\ [op |-> op, id |-> id] \in calls
        /\ calls' = calls \ {[op |-> op, id |-> id]}
        /\ pc[id[1]] \in Waits /\ Awaited[pc[id[1]]] = op
        /\ \A r \in Requests \ {id[1]} : reply'[r] = reply[r]
<1>1. calls' # calls /\ reply' # reply
      /\ (StoreReserve(id) \/ StoreExpose(id) \/ StoreRelease(id) \/ StoreCommit(id))
  BY DEF StoreTurn
<1>2. ASSUME NEW op, NEW answer, Handles(op, id), Replies(op, id, answer)
      PROVE  Answered(op)
  BY <1>1, <1>2 DEF Handles, Replies, TypeOK
<1>3. \/ StoreReserve(id) /\ Answered("reserve")
      \/ StoreExpose(id) /\ Answered("expose")
      \/ StoreRelease(id) /\ Answered("release")
      \/ StoreCommit(id) /\ Answered("commit")
  <2>1. CASE StoreReserve(id)
    BY <1>2, <2>1 DEF StoreReserve
  <2>2. CASE StoreExpose(id)
    BY <1>2, <2>2 DEF StoreExpose
  <2>3. CASE StoreRelease(id)
    BY <1>2, <2>3 DEF StoreRelease
  <2>4. CASE StoreCommit(id)
    BY <1>2, <2>4 DEF StoreCommit
  <2> QED BY <1>1, <2>1, <2>2, <2>3, <2>4
<1>4. PICK op \in {"reserve", "expose", "release", "commit"} : Answered(op)
  BY <1>3
<1>5. id = Current(id[1]) /\ reply[id[1]] = "none"
  BY <1>4 DEF OneCall
<1>6. ASSUME NEW c \in calls, c.id[1] = id[1]
      PROVE  c \notin calls'
  <2>1. c.id = id /\ c.op = op
    BY <1>4, <1>5, <1>6 DEF OneCall
  <2>2. c = [op |-> op, id |-> id]
    BY <2>1 DEF TypeOK
  <2> QED BY <1>4, <2>2
<1>7. /\ pc[id[1]] = "fencing" => StoreExpose(id)
      /\ pc[id[1]] = "committing" => StoreCommit(id)
  BY <1>3, <1>4 DEF Awaited
<1> QED BY <1>4, <1>5, <1>6, <1>7

LEMMA LapseFrame ==
  ASSUME TypeOK, NEW id \in Ids, Lapse(id)
  PROVE  /\ UNCHANGED <<calls, reply>>
         /\ \A j \in Ids : record'[j] # record[j] => record[j] = "reserved"
BY DEF Lapse, Moves, client, TypeOK

LEMMA OneCallStep ==
  ASSUME ReportInv, caller = "command", CallNext
  PROVE  OneCall'
<1> USE DEF ReportInv, CallInv, ClientInv, ControlInv
<1>1. CASE UNCHANGED vars
  BY <1>1 DEF OneCall, Current, vars, client
<1>2. ASSUME NEW q \in Requests, PayStep(q) \/ AnswerStep(q)
      PROVE  OneCall'
  <2>1. \A c \in calls : c.id[1] # q
    BY <1>2, TurnIsAnswered DEF OneCall
  <2>2. Moved(q) /\ RequestStep(q) /\ pc'[q] # pc[q] /\ pc'[q] # "crashed"
    BY <1>2, TurnIsAnswered, RequestStepMoves
  <2>3. ASSUME NEW c \in calls' \ calls
        PROVE  /\ c.id = Current(q) /\ c.id[1] = q /\ attempt'[q] = attempt[q]
               /\ pc'[q] \in Waits /\ c.op = Awaited[pc'[q]] /\ reply'[q] = "none"
    BY <2>2, <2>3, CurrentTyped, PlacesListed DEF Moved, Stays, Sent, Passes
  <2>4. ASSUME NEW c \in calls
        PROVE  c.id[1] \in Requests \ {q}
    BY <2>1, <2>4 DEF TypeOK, Ids
  <2> QED BY <2>2, <2>3, <2>4, RequestStepFrame DEF OneCall, Current
<1>3. ASSUME NEW q \in Requests, KillStep(q)
      PROVE  OneCall'
  BY <1>3, PlacesListed DEF KillStep, Crashes, Goes, OneCall, Current, TypeOK
<1>4. ASSUME NEW id \in Ids, StoreTurn(id)
      PROVE  OneCall'
  <2>1. UNCHANGED <<pc, attempt>>
    BY <1>4, StoreTurnIsStep, RecordStepFrame
  <2>2. CASE Lapse(id)
    BY <2>1, <2>2, LapseFrame DEF OneCall, Current
  <2>3. CASE ~Lapse(id)
    <3>1. ASSUME NEW c \in calls'
          PROVE  c \in calls /\ c.id[1] \in Requests \ {id[1]}
      BY <1>4, <2>3, <3>1, StoreTurnAnswers DEF TypeOK, Ids
    <3> QED BY <1>4, <2>1, <2>3, <3>1, StoreTurnAnswers DEF OneCall, Current
  <2> QED BY <2>2, <2>3
<1>5. ASSUME NEW id \in Ids, Settles(id) \/ RunsOut(id)
      PROVE  OneCall'
  BY <1>5, ChainSteps DEF OneCall, Current, client
<1> QED BY <1>1, <1>2, <1>3, <1>4, <1>5, CommandStepCases

LEMMA KeptStep ==
  ASSUME ReportInv, caller = "command", CallNext
  PROVE  Kept'
<1> USE DEF ReportInv, CallInv, ClientInv, ControlInv, ChainInv
<1>1. CASE UNCHANGED vars
  BY <1>1 DEF Kept, KeptFor, Current, vars, client, store
<1>2. ASSUME NEW q \in Requests, PayStep(q) \/ AnswerStep(q)
      PROVE  Kept'
  <2>1. Moved(q) /\ RequestStep(q) /\ pc'[q] # pc[q] /\ pc[q] # "done"
        /\ (pc[q] \in Waits => reply[q] # "none")
    BY <1>2, TurnIsAnswered, RequestStepMoves
  <2>2. outcome[q] = "none"
    BY <2>1 DEF AnswersStand, TypeOK
  <2>3. UNCHANGED record /\ \A r \in Requests \ {q} : KeptFor(r)'
    BY <2>1, RequestStepFrame DEF Kept, KeptFor, Current
  <2>4. KeptFor(q)
    BY DEF Kept
  <2>5. attempt'[q] = attempt[q] => Current(q)' = Current(q)
    BY DEF Current
  <2>6. KeptFor(q)'
    BY <2>1, <2>2, <2>3, <2>4, <2>5, PlacesListed DEF KeptFor, Moved, Stays, Sent, Passes, TypeOK
  <2> QED BY <2>3, <2>6 DEF Kept
<1>3. ASSUME NEW q \in Requests, KillStep(q)
      PROVE  Kept'
  BY <1>3 DEF KillStep, Crashes, Goes, Kept, KeptFor, Current, TypeOK, store
<1>4. ASSUME NEW id \in Ids, StoreTurn(id), NEW q \in Requests
      PROVE  KeptFor(q)'
  <2>1. UNCHANGED <<pc, attempt, outcome>> /\ \A j \in Ids \ {id} : record'[j] = record[j]
    BY <1>4, StoreTurnIsStep, RecordStepFrame
  <2>2. KeptFor(q) /\ Current(q) \in Ids /\ Current(q)' = Current(q)
    BY <2>1, CurrentTyped DEF Kept, Current
  <2>3. CASE Lapse(id)
    BY <2>1, <2>2, <2>3, LapseFrame DEF KeptFor
  <2>4. CASE ~Lapse(id) /\ q # id[1]
    <3>1. Current(q) # id
      BY <2>4, CurrentTyped
    <3> QED BY <1>4, <2>1, <2>2, <2>4, <3>1, StoreTurnAnswers DEF KeptFor
  <2>5. CASE ~Lapse(id) /\ q = id[1]
    <3>1. pc[q] \in Waits /\ reply[q] = "none" /\ outcome[q] = "none" /\ id = Current(q)
      BY <1>4, <2>5, StoreTurnAnswers, PlacesListed DEF AnswersStand, TypeOK
    <3>2. CASE pc[q] = "fencing"
      <4>1. StoreExpose(id)
        BY <1>4, <2>5, <3>2, StoreTurnAnswers
      <4>2. reply'[q] = "ok" => record'[id] = "exposed"
        BY <3>1, <4>1 DEF StoreExpose, Replies, Moves, TypeOK
      <4> QED BY <2>1, <2>2, <3>1, <3>2, <4>2 DEF KeptFor
    <3>3. CASE pc[q] = "committing"
      <4>1. StoreCommit(id) /\ record[id] = "exposed"
        BY <1>4, <2>2, <2>5, <3>1, <3>3, StoreTurnAnswers DEF KeptFor
      <4>2. record'[id] = "committed" /\ Replies("commit", id, "ok")
        BY <4>1 DEF StoreCommit, Moves, TypeOK
      <4>3. reply' # reply
        BY <1>4, <2>5 DEF StoreTurn
      <4>4. reply'[q] = "ok"
        BY <2>5, <4>2, <4>3 DEF Replies, TypeOK
      <4> QED BY <2>1, <2>2, <3>1, <3>3, <4>2, <4>4 DEF KeptFor
    <3> QED BY <2>1, <2>2, <3>1, <3>2, <3>3, PlacesListed DEF KeptFor
  <2> QED BY <2>3, <2>4, <2>5
<1>5. ASSUME NEW id \in Ids, Settles(id) \/ RunsOut(id)
      PROVE  Kept'
  BY <1>5, ChainSteps DEF Kept, KeptFor, Current, client, store
<1> QED BY <1>1, <1>2, <1>3, <1>4, <1>5, CommandStepCases DEF Kept

\* The report of a run is made once, from the ledger as it stands.
LEMMA ReportMade ==
  ASSUME ReportInv, caller = "command", NEW q \in Requests, ShellStep(q), stage'[q] = "exited",
         UNCHANGED vars
  PROVE  ReportStands(q)'
<1> USE DEF ReportInv, CallInv, ClientInv, ControlInv, ChainInv, CommandInv
<1>1. ASSUME NEW code, Reports(q, code, NoSettlement)
      PROVE  ReportStands(q)'
  BY <1>1 DEF Reports, NoSettlement, ReportStands, ShellTypeOK
<1>2. ASSUME NEW code, NEW status \in {"committed", "unknown"},
             Reports(q, code, SettlementFor(q, status)),
             announced[q] # <<>> /\ status = "committed" => record[Current(q)] = "committed",
             status = "unknown" => outcome[q] = "unknown"
      PROVE  ReportStands(q)'
  <2>1. settlement'[q] = SettlementFor(q, status)
    BY <1>2 DEF Reports, ShellTypeOK
  <2>2. Current(q) \in Ids /\ Current(q)[1] = q
    BY CurrentTyped
  <2>3. CASE announced[q] = <<>>
    BY <2>1, <2>3 DEF SettlementFor, NoSettlement, ReportStands
  <2>4. CASE announced[q] # <<>>
    <3>1. /\ settlement'[q].status = status
          /\ settlement'[q].transaction # "null" =>
                 settlement'[q].transaction \in Entries(q)
      BY <2>1, <2>4 DEF SettlementFor
    <3>2. \A id \in Entries(q) : record[id] = "committed"
      BY DEF Entries
    <3> QED BY <1>2, <2>2, <2>4, <3>1, <3>2 DEF ReportStands, vars, store, client
  <2> QED BY <2>3, <2>4
<1>3. CASE UsageRefused(q) \/ AskFails(q) \/ DryRunEnds(q) \/ BodyFails(q)
  BY <1>1, <1>3 DEF UsageRefused, AskFails, DryRunEnds, BodyFails, Exits
<1>4. CASE FetchThrows(q)
  <2>1. outcome[q] = "yes" => record[Current(q)] = "committed"
    BY DEF Kept, KeptFor
  <2> QED BY <1>1, <1>2, <1>4, <2>1, FetchThrowsCases
<1>5. CASE BodyReads(q)
  <2>1. announced[q] # <<>> => record[Current(q)] = "committed"
    BY <1>5 DEF BodyReads, StagesInStep, AnswersStand
  <2> QED BY <1>2, <1>5, <2>1 DEF BodyReads
<1>6. CASE Starts(q) \/ ResolvesSigners(q) \/ AnsweredFree(q) \/ Challenged(q) \/ FetchReturns(q)
  BY <1>6 DEF Starts, ResolvesSigners, AnsweredFree, Challenged, FetchReturns, GoesOn,
              ShellTypeOK
<1> QED BY <1>3, <1>4, <1>5, <1>6 DEF ShellStep

\* A committed record stays committed, and what was told of a request stays told.
LEMMA ReportKept ==
  ASSUME OperatorWaits, ReportInv, caller = "command", CallNext,
         NEW q \in Requests, settlement'[q] = settlement[q]
  PROVE  ReportStands(q)'
<1> USE DEF ReportInv, CallInv, ClientInv, ControlInv, ChainInv, CommandInv
<1>1. ReportStands(q)
  BY DEF ReportsStand
<1>2. \A id \in Ids : record[id] = "committed" => record'[id] = "committed"
  BY CallStepsAreClientSteps, RecordMoves DEF vars, store
<1>3. outcome[q] = "unknown" => outcome'[q] = "unknown"
  <2>1. CASE UNCHANGED vars
    BY <2>1 DEF vars, client
  <2>2. ASSUME NEW r \in Requests, RequestStep(r), outcome[q] = "unknown"
        PROVE  outcome'[q] = "unknown"
    <3>1. CASE r = q
      <4>1. pc[q] = "done"
        BY <2>2 DEF AnswersStand
      <4> QED BY <2>2, <3>1, <4>1, RequestStepMoves, PlacesListed DEF Moved, Stays, Sent, Passes
    <3>2. CASE r # q
      BY <2>2, <3>2, RequestStepFrame
    <3> QED BY <3>1, <3>2
  <2>3. CASE Next
    BY <2>2, <2>3, StepCases, RecordStepFrame, ChainSteps DEF client
  <2> QED BY <2>1, <2>3, CallStepsAreClientSteps
<1>4. settlement[q].transaction \in {"null"} \cup Ids
  BY DEF ShellTypeOK
<1> QED BY <1>1, <1>2, <1>3, <1>4 DEF ReportStands

LEMMA ReportsStandStep ==
  ASSUME OperatorWaits, ReportInv, caller = "command", CallNext
  PROVE  ReportsStand'
<1> USE DEF ReportInv, CallInv, ClientInv, ControlInv
<1> SUFFICES ASSUME NEW q \in Requests
             PROVE  ReportStands(q)'
  BY DEF ReportsStand
<1>1. CASE settlement'[q] = settlement[q]
  BY <1>1, ReportKept
<1>2. CASE settlement'[q] # settlement[q]
  <2>1. PICK r \in Requests : ShellStep(r) /\ UNCHANGED vars
    BY <1>2, CommandStepCases DEF PayStep, KillStep, AnswerStep, shell
  <2>2. r = q /\ stage'[q] = "exited"
    BY <1>2, <2>1, ShellStepFrame
  <2> QED BY <2>1, <2>2, ReportMade
<1> QED BY <1>1, <1>2

LEMMA CallerStays ==
  ASSUME CallNext
  PROVE  /\ caller' = caller
         /\ caller = "program" => UNCHANGED shell
BY DEF CallNext, Run, Starts, UsageRefused, ResolvesSigners, AskFails, AnsweredFree,
       Challenged, DryRunEnds, Pays, Reserved, Proceeds, FetchReturns, FetchThrows,
       BodyReads, BodyFails, Exits, Reports, GoesOn, Killed, OwnStore, Merchant, Program

LEMMA ReportInvariant ==
  ASSUME OperatorWaits
  PROVE  CallSpec => []ReportInv
<1>1. CallInit => ReportInv
  BY CallInvInit DEF CallInit, Init, ReportInv, OneCall, Kept, KeptFor, ReportsStand, ReportStands,
                     NoSettlement
<1>2. ASSUME ReportInv, [CallNext]_callVars
      PROVE  ReportInv'
  <2>1. CASE CallNext
    <3>1. CallInv'
      BY <1>2, CallInvStep DEF ReportInv
    <3> QED BY <1>2, <2>1, <3>1, CallerStays, OneCallStep, KeptStep, ReportsStandStep
            DEF ReportInv, shell
  <2>2. CASE UNCHANGED callVars
    <3>1. CallInv'
      BY <1>2, CallInvStep DEF ReportInv
    <3> QED BY <1>2, <2>2, <3>1
            DEF ReportInv, OneCall, Kept, KeptFor, ReportsStand, ReportStands, Current,
                callVars, vars, store, client, shell
  <2> QED BY <1>2, <2>1, <2>2
<1> QED BY <1>1, <1>2, PTL DEF CallSpec

\* A transaction is reported only of a committed payment, and a payment as
\* committed or as unknown only over a record that is committed or exposed.
THEOREM SettlementAlwaysBacked ==
  ASSUME OperatorWaits
  PROVE  CallSpec => []SettlementIsBacked
<1>1. ASSUME ReportInv
      PROVE  SettlementIsBacked
  <2> USE <1>1 DEF ReportInv, CallInv, ClientInv, ControlInv
  <2>1. CASE caller = "program"
    BY <2>1 DEF SettlementIsBacked, NoSettlement
  <2>2. ASSUME caller = "command", NEW q \in Requests
        PROVE  LET told == settlement[q]
                   states == { record[id] : id \in { i \in Ids : i[1] = q } }
               IN  /\ told.transaction # "null" => record[told.transaction] = "committed"
                   /\ told.status = "committed" => "committed" \in states
                   /\ told.status = "unknown"   => "exposed" \in states
    <3>1. ReportStands(q) /\ KeptFor(q)
      BY <2>2 DEF ReportsStand, Kept
    <3>2. Current(q) \in Ids /\ Current(q)[1] = q
      BY CurrentTyped
    <3> QED BY <3>1, <3>2 DEF ReportStands, KeptFor
  <2> QED BY <2>1, <2>2 DEF SettlementIsBacked, ShellTypeOK
<1> QED BY <1>1, ReportInvariant, PTL

-------------------------------------------------------------------------------
(* The store as its clients use it keeps the contract of SpendStore, for   *)
(* any number of requests and attempts, and whatever is resent, under a    *)
(* program and under the command alike.                                    *)

\* The record and the balance the contract sees.
AbstractRecord ==
    [k \in {Account} \X Ids |->
        [state |-> record[k[2]], amount |-> IF record[k[2]] = "absent" THEN 0 ELSE price[k[2]]]]
AbstractSpent == [a \in {Account} |-> spent]

KeyOf(id) == <<Account, id>>

-------------------------------------------------------------------------------
(* Sums of the contract are sums over reservation ids.                     *)

\* Keys that pair an account with ids hold what the ids hold.
LEMMA PairedTotal ==
  ASSUME NEW S, IsFiniteSet(S), NEW f, NEW g,
         \A id \in S : f[id] \in Nat /\ g[KeyOf(id)] = f[id]
  PROVE  AtomicTotal({ KeyOf(id) : id \in S }, g) = AtomicTotal(S, f)
<1> DEFINE T == { KeyOf(id) : id \in S }
           pair == [u \in Units(S, f) |-> <<KeyOf(u[1]), u[2]>>]
<1>1. pair \in Bijection(Units(S, f), Units(T, g))
  <2>1. \A u \in Units(S, f) : u[1] \in S /\ u[2] \in 1 .. f[u[1]] /\ u = <<u[1], u[2]>>
    BY DEF Units
  <2>2. \A v \in Units(T, g) : \E id \in S : \E n \in 1 .. f[id] : v = <<KeyOf(id), n>>
    BY DEF Units
  <2>3. pair \in [Units(S, f) -> Units(T, g)]
    BY <2>1 DEF Units
  <2>4. \A u, v \in Units(S, f) : pair[u] = pair[v] => u = v
    BY <2>1 DEF KeyOf
  <2>5. \A v \in Units(T, g) : \E u \in Units(S, f) : pair[u] = v
    <3> TAKE v \in Units(T, g)
    <3>0. PICK id \in S : \E n \in 1 .. f[id] : v = <<KeyOf(id), n>>
      BY <2>2
    <3>1. PICK n \in 1 .. f[id] : v = <<KeyOf(id), n>>
      BY <3>0
    <3>2. <<id, n>> \in Units(S, f)
      BY DEF Units
    <3>3. pair[<<id, n>>] = v
      BY <3>1, <3>2
    <3> QED BY <3>2, <3>3
  <2> QED BY <2>3, <2>4, <2>5 DEF Bijection, Injection, Surjection, IsInjective
<1>2. IsFiniteSet(Units(S, f))
  BY AtomicTotalType
<1> QED BY <1>1, <1>2, FS_Bijection DEF AtomicTotal, ExistsBijection

\* The contract adds up as the client's module does.
LEMMA SameTotal ==
  ASSUME NEW S, NEW f
  PROVE  Contract!AtomicTotal(S, f) = AtomicTotal(S, f)
<1>1. Contract!Units(S, f) = Units(S, f)
  BY DEF Contract!Units, Units
<1>2. \A T : Contract!Cardinality(T) = Cardinality(T)
  BY DEF Contract!Cardinality, Cardinality
<1> QED BY <1>1, <1>2 DEF Contract!AtomicTotal, AtomicTotal

\* What the contract sees held once a reservation has been granted.
LEMMA GrantedTotal ==
  ASSUME TypeOK, NEW id \in Ids, record[id] = "absent",
         NEW r, r = [AbstractRecord EXCEPT ![KeyOf(id)] =
                        [state |-> "reserved", amount |-> price[id]]]
  PROVE  Contract!HeldTotal(r, Account) = AtomicTotal(HeldIds, price) + price[id]
<1> DEFINE S == HeldIds \cup {id}
           g == [k \in {Account} \X Ids |-> r[k].amount]
<1>1. /\ \A j \in Ids : KeyOf(j) \in {Account} \X Ids
      /\ \A j \in Ids : j # id => KeyOf(j) # KeyOf(id)
  BY DEF KeyOf
<1>2. r[KeyOf(id)] = [state |-> "reserved", amount |-> price[id]]
  BY <1>1 DEF AbstractRecord
<1>3. \A j \in Ids : j # id =>
          /\ r[KeyOf(j)].state = record[j]
          /\ record[j] # "absent" => r[KeyOf(j)].amount = price[j]
  BY <1>1 DEF AbstractRecord, KeyOf
<1>4. Contract!HeldKeys(r, Account) = { KeyOf(j) : j \in S }
  <2>1. \A k \in {Account} \X Ids : k = KeyOf(k[2]) /\ k[2] \in Ids
    BY DEF KeyOf
  <2>2. \A j \in Ids : r[KeyOf(j)].state \in {"reserved", "exposed"} <=> j \in S
    <3>1. \A j \in Ids : j \in S <=> j = id \/ record[j] \in {"reserved", "exposed"}
      BY DEF HeldIds
    <3>2. r[KeyOf(id)].state = "reserved"
      BY <1>2
    <3> QED BY <1>3, <3>1, <3>2, Zenon
  <2>3. Contract!HeldKeys(r, Account) =
            { k \in {Account} \X Ids : r[k].state \in {"reserved", "exposed"} }
    BY DEF Contract!HeldKeys, Contract!KeysOf, Contract!Keys, Contract!Held
  <2>4. S \subseteq Ids
    BY DEF HeldIds
  <2>5. ASSUME NEW k \in Contract!HeldKeys(r, Account)
        PROVE  k \in { KeyOf(j) : j \in S }
    <3>1. k \in {Account} \X Ids /\ r[k].state \in {"reserved", "exposed"}
      BY <2>3
    <3>2. k = KeyOf(k[2]) /\ k[2] \in Ids
      BY <2>1, <3>1
    <3>3. k[2] \in S
      BY <2>2, <3>1, <3>2
    <3> QED BY <3>2, <3>3
  <2>6. ASSUME NEW j \in S
        PROVE  KeyOf(j) \in Contract!HeldKeys(r, Account)
    <3>1. j \in Ids
      BY <2>4
    <3> QED BY <1>1, <2>2, <2>3, <3>1
  <2> QED BY <2>5, <2>6
<1>5. IsFiniteSet(HeldIds) /\ IsFiniteSet(S)
  BY IdsFinite, FS_AddElement
<1>6. \A j \in S : price[j] \in Nat /\ j \in Ids
  BY PriceTyped DEF HeldIds
<1>7. \A j \in S : g[KeyOf(j)] = price[j]
  <2>1. r[KeyOf(id)].amount = price[id]
    BY <1>2
  <2>2. \A j \in S : r[KeyOf(j)].amount = price[j]
    BY <1>3, <2>1 DEF HeldIds
  <2>3. \A j \in S : KeyOf(j) \in {Account} \X Ids
    BY <1>1 DEF HeldIds
  <2> QED BY <2>2, <2>3
<1>8. AtomicTotal({ KeyOf(j) : j \in S }, g) = AtomicTotal(S, price)
  BY <1>5, <1>6, <1>7, PairedTotal
<1>9. id \notin HeldIds
  BY DEF HeldIds
<1>10. AtomicTotal(S, price) = AtomicTotal(HeldIds, price) + price[id]
  BY <1>5, <1>6, <1>9, AtomicTotalAdd
<1>11. Contract!HeldTotal(r, Account) = AtomicTotal({ KeyOf(j) : j \in S }, g)
  BY <1>4, SameTotal DEF Contract!HeldTotal, Contract!Keys
<1> QED BY <1>8, <1>10, <1>11

-------------------------------------------------------------------------------
(* What a step does to the record and the balance.                         *)

LEMMA StoreMoves ==
  ASSUME TypeOK, NEW id \in Ids, RecordStep(id)
  PROVE  /\ price' = price
         /\ \/ UNCHANGED <<record, spent>>
            \/ /\ record[id] = "absent" /\ record' = [record EXCEPT ![id] = "reserved"]
               /\ Consumed + price[id] <= Cap /\ spent' = spent
            \/ /\ record[id] = "reserved" /\ spent' = spent
               /\ \E s \in {"exposed", "expired"} : record' = [record EXCEPT ![id] = s]
            \/ /\ record[id] \in {"reserved", "exposed"} /\ spent' = spent
               /\ record' = [record EXCEPT ![id] = "released"]
            \/ /\ record[id] \in {"reserved", "exposed"} /\ spent' = spent + price[id]
               /\ record' = [record EXCEPT ![id] = "committed"]
<1>1. CASE StoreReserve(id)
  BY <1>1 DEF StoreReserve, Moves, Replies
<1>2. CASE StoreExpose(id)
  BY <1>2 DEF StoreExpose, Moves, Replies, TypeOK
<1>3. CASE StoreRelease(id)
  BY <1>3 DEF StoreRelease, Moves, Replies
<1>4. CASE StoreCommit(id)
  BY <1>4 DEF StoreCommit, Moves, Replies, store
<1>5. CASE Lapse(id) \/ ResolveReleased(id) \/ ResolveCommitted(id)
  BY <1>5 DEF Lapse, ResolveReleased, ResolveCommitted, Moves, client
<1> QED BY <1>1, <1>2, <1>3, <1>4, <1>5 DEF RecordStep

\* One record moves, all others stay as they are.
LEMMA RecordMoved ==
  ASSUME TypeOK, NEW id \in Ids, price' = price,
         NEW s \in {"reserved", "exposed", "committed", "released", "expired"},
         record' = [record EXCEPT ![id] = s]
  PROVE  /\ KeyOf(id) \in Contract!Keys
         /\ AbstractRecord[KeyOf(id)] =
                [state |-> record[id], amount |-> IF record[id] = "absent" THEN 0 ELSE price[id]]
         /\ AbstractRecord'[KeyOf(id)] = [state |-> s, amount |-> price[id]]
         /\ AbstractRecord' \in [Contract!Keys -> Contract!Record]
         /\ \A j \in Contract!Keys \ {KeyOf(id)} : AbstractRecord[j] = AbstractRecord'[j]
         /\ AbstractRecord' = [AbstractRecord EXCEPT ![KeyOf(id)] =
                                   [state |-> s, amount |-> price[id]]]
<1>1. \A j \in Ids : price[j] \in Nat
  BY PriceTyped
<1>2. /\ record' \in [Ids -> {"absent", "reserved", "exposed", "committed", "released",
                              "expired"}]
      /\ record'[id] = s /\ \A j \in Ids : j # id => record'[j] = record[j]
  BY DEF TypeOK
<1>3. AbstractRecord' \in [Contract!Keys -> Contract!Record]
  BY <1>1, <1>2 DEF AbstractRecord, Contract!Keys, Contract!Record, Contract!Held,
                    Contract!Settled
<1>4. /\ KeyOf(id) \in Contract!Keys
      /\ AbstractRecord[KeyOf(id)] =
             [state |-> record[id], amount |-> IF record[id] = "absent" THEN 0 ELSE price[id]]
      /\ AbstractRecord'[KeyOf(id)] = [state |-> s, amount |-> price[id]]
  BY <1>2 DEF AbstractRecord, Contract!Keys, KeyOf
<1>5. \A j \in Contract!Keys \ {KeyOf(id)} : AbstractRecord[j] = AbstractRecord'[j]
  BY <1>2 DEF AbstractRecord, Contract!Keys, KeyOf
<1>6. AbstractRecord' = [AbstractRecord EXCEPT ![KeyOf(id)] =
                             [state |-> s, amount |-> price[id]]]
  <2>1. AbstractRecord = [j \in Contract!Keys |-> AbstractRecord[j]]
    BY DEF AbstractRecord, Contract!Keys
  <2>2. AbstractRecord' = [j \in Contract!Keys |-> AbstractRecord'[j]]
    BY <1>3
  <2> QED BY <1>4, <1>5, <2>1, <2>2
<1> QED BY <1>3, <1>4, <1>5, <1>6

-------------------------------------------------------------------------------
(* Every step of the store is a step of the contract.                      *)

\* The contract's next-state relation, over the record and balance it sees.
ContractStep == Contract!NextStore \/ UNCHANGED <<AbstractRecord, AbstractSpent>>

LEMMA FencedStep ==
  ASSUME NEW k \in Contract!Keys, AbstractRecord[k].state = "reserved",
         AbstractRecord'[k] = [AbstractRecord[k] EXCEPT !.state = "exposed"],
         Contract!OthersAge(k), AbstractSpent' = AbstractSpent
  PROVE  ContractStep
<1>1. Contract!Fenced(k)
  BY DEF Contract!Fenced, AbstractRecord, AbstractSpent
<1> QED BY <1>1 DEF ContractStep, Contract!NextStore

LEMMA ReleasedStep ==
  ASSUME NEW k \in Contract!Keys, AbstractRecord[k].state \in {"reserved", "exposed"},
         AbstractRecord'[k] = [AbstractRecord[k] EXCEPT !.state = "released"],
         Contract!OthersAge(k), AbstractSpent' = AbstractSpent
  PROVE  ContractStep
<1>1. Contract!Released(k)
  BY DEF Contract!Released, Contract!Held, AbstractRecord, AbstractSpent
<1> QED BY <1>1 DEF ContractStep, Contract!NextStore

LEMMA CommittedStep ==
  ASSUME NEW k \in Contract!Keys, AbstractRecord[k].state \in {"reserved", "exposed"},
         AbstractRecord'[k] = [AbstractRecord[k] EXCEPT !.state = "committed"],
         Contract!OthersAge(k),
         AbstractSpent' = [AbstractSpent EXCEPT ![k[1]] = @ + AbstractRecord[k].amount]
  PROVE  ContractStep
<1>1. Contract!Committed(k)
  BY DEF Contract!Committed, Contract!Held, AbstractRecord, AbstractSpent
<1> QED BY <1>1 DEF ContractStep, Contract!NextStore

LEMMA LapsedStep ==
  ASSUME NEW k \in Contract!Keys, AbstractRecord[k].state = "reserved",
         AbstractRecord'[k] = [AbstractRecord[k] EXCEPT !.state = "expired"],
         AbstractRecord' \in [Contract!Keys -> Contract!Record],
         \A j \in Contract!Keys \ {k} : AbstractRecord[j] = AbstractRecord'[j],
         AbstractSpent' = AbstractSpent
  PROVE  ContractStep
<1>1. \A j \in Contract!Keys :
          \/ AbstractRecord'[j] = AbstractRecord[j]
          \/ /\ AbstractRecord[j].state = "reserved"
             /\ AbstractRecord'[j] = [AbstractRecord[j] EXCEPT !.state = "expired"]
  OBVIOUS
<1>2. \A j \in Contract!Keys : Contract!Aged(AbstractRecord[j], AbstractRecord'[j])
  BY <1>1 DEF Contract!Aged
<1>3. Contract!OnlyAged
  BY <1>2 DEF Contract!OnlyAged, AbstractRecord, AbstractSpent
<1> QED BY <1>3 DEF ContractStep, Contract!NextStore

LEMMA RecordStepKeepsContract ==
  ASSUME TypeOK, NEW id \in Ids, RecordStep(id)
  PROVE  ContractStep
<1> DEFINE k == KeyOf(id)
<1>1. price' = price /\ spent \in Nat /\ k[1] = Account
  BY StoreMoves DEF TypeOK, KeyOf
<1>2. CASE UNCHANGED <<record, spent>>
  BY <1>1, <1>2 DEF ContractStep, AbstractRecord, AbstractSpent
<1>3. CASE /\ record[id] = "absent" /\ record' = [record EXCEPT ![id] = "reserved"]
           /\ Consumed + price[id] <= Cap /\ spent' = spent
  <2>1. /\ k \in Contract!Keys
        /\ AbstractRecord[k] = [state |-> "absent", amount |-> 0]
        /\ AbstractRecord'[k] = [state |-> "reserved", amount |-> price[id]]
        /\ AbstractRecord' \in [Contract!Keys -> Contract!Record]
        /\ \A j \in Contract!Keys \ {k} : AbstractRecord[j] = AbstractRecord'[j]
        /\ AbstractRecord' = [AbstractRecord EXCEPT ![k] =
                                  [state |-> "reserved", amount |-> price[id]]]
    BY <1>1, <1>3, RecordMoved
  <2>2. Contract!HeldTotal(AbstractRecord', Account) = AtomicTotal(HeldIds, price) + price[id]
    BY <1>3, <2>1, GrantedTotal
  <2>3. AbstractSpent[Account] = spent /\ AbstractSpent' = AbstractSpent
    BY <1>3 DEF AbstractSpent
  <2>4. AtomicTotal(HeldIds, price) \in Nat /\ price[id] \in Nat
    BY TotalsTyped, PriceTyped
  <2>5. AbstractSpent[Account] + Contract!HeldTotal(AbstractRecord', Account) <= Cap
    BY <1>1, <1>3, <2>2, <2>3, <2>4 DEF Consumed
  <2>6. Contract!Granted(k)
    BY <1>1, <2>1, <2>3, <2>5 DEF Contract!Granted, Contract!OthersAge, Contract!Aged,
       Contract!NoRecord, AbstractRecord, AbstractSpent
  <2> QED BY <2>1, <2>6 DEF ContractStep, Contract!NextStore
<1>4. ASSUME NEW s \in {"exposed", "expired", "released", "committed"},
             record[id] \in {"reserved", "exposed"}, record' = [record EXCEPT ![id] = s],
             s \in {"exposed", "expired"} => record[id] = "reserved",
             spent' = IF s = "committed" THEN spent + price[id] ELSE spent
      PROVE  ContractStep
  <2>1. /\ k \in Contract!Keys
        /\ AbstractRecord[k] = [state |-> record[id], amount |-> price[id]]
        /\ AbstractRecord'[k] = [state |-> s, amount |-> price[id]]
        /\ AbstractRecord' \in [Contract!Keys -> Contract!Record]
        /\ \A j \in Contract!Keys \ {k} : AbstractRecord[j] = AbstractRecord'[j]
    BY <1>1, <1>4, RecordMoved
  <2>2. Contract!OthersAge(k)
    BY <2>1 DEF Contract!OthersAge, Contract!Aged, AbstractRecord
  <2>3. CASE s = "exposed"
    <3>1. AbstractSpent' = AbstractSpent
      BY <1>4, <2>3 DEF AbstractSpent
    <3>2. /\ AbstractRecord[k].state = "reserved"
          /\ AbstractRecord'[k] = [AbstractRecord[k] EXCEPT !.state = "exposed"]
      BY <1>4, <2>1, <2>3
    <3> QED BY <2>1, <2>2, <3>1, <3>2, FencedStep
  <2>4. CASE s = "released"
    <3>1. AbstractSpent' = AbstractSpent
      BY <1>4, <2>4 DEF AbstractSpent
    <3>2. /\ AbstractRecord[k].state \in {"reserved", "exposed"}
          /\ AbstractRecord'[k] = [AbstractRecord[k] EXCEPT !.state = "released"]
      BY <1>4, <2>1, <2>4
    <3> QED BY <2>1, <2>2, <3>1, <3>2, ReleasedStep
  <2>5. CASE s = "committed"
    <3>1. AbstractSpent' = [AbstractSpent EXCEPT ![k[1]] = @ + AbstractRecord[k].amount]
      BY <1>1, <1>4, <2>1, <2>5 DEF AbstractSpent
    <3>2. /\ AbstractRecord[k].state \in {"reserved", "exposed"}
          /\ AbstractRecord'[k] = [AbstractRecord[k] EXCEPT !.state = "committed"]
      BY <1>4, <2>1, <2>5
    <3> QED BY <2>1, <2>2, <3>1, <3>2, CommittedStep
  <2>6. CASE s = "expired"
    <3>1. AbstractSpent' = AbstractSpent
      BY <1>4, <2>6 DEF AbstractSpent
    <3>2. /\ AbstractRecord[k].state = "reserved"
          /\ AbstractRecord'[k] = [AbstractRecord[k] EXCEPT !.state = "expired"]
      BY <1>4, <2>1, <2>6
    <3> QED BY <2>1, <2>2, <3>1, <3>2, LapsedStep
  <2> QED BY <1>4, <2>3, <2>4, <2>5, <2>6
<1>5. CASE /\ record[id] = "reserved" /\ spent' = spent
           /\ \E s \in {"exposed", "expired"} : record' = [record EXCEPT ![id] = s]
  <2>1. PICK s \in {"exposed", "expired"} : record' = [record EXCEPT ![id] = s]
    BY <1>5
  <2> QED BY <1>4, <1>5, <2>1
<1>6. CASE /\ record[id] \in {"reserved", "exposed"} /\ spent' = spent
           /\ record' = [record EXCEPT ![id] = "released"]
  BY <1>4, <1>6
<1>7. CASE /\ record[id] \in {"reserved", "exposed"} /\ spent' = spent + price[id]
           /\ record' = [record EXCEPT ![id] = "committed"]
  BY <1>4, <1>7
<1> QED BY <1>2, <1>3, <1>5, <1>6, <1>7, StoreMoves

\* A request sets a price only of an attempt that has no record yet.
LEMMA RequestStepKeepsContract ==
  ASSUME ControlInv, NEW q \in Requests, RequestStep(q)
  PROVE  ContractStep
<1> USE DEF ControlInv
<1>1. UNCHANGED <<record, spent>>
  BY RequestStepFrame
<1>2. \A id \in Ids : price'[id] = price[id] \/ record[id] = "absent"
  <2>1. pc[q] = "planning" => record[Current(q)] = "absent"
    BY CurrentTyped DEF FreshAttempts, Fresh
  <2>2. price'[Current(q)] = price[Current(q)] \/ record[Current(q)] = "absent"
    BY <2>1, RequestStepMoves DEF Moved, Stays, Sent, Passes
  <2> QED BY <2>2, RequestStepFrame
<1>3. AbstractRecord' = AbstractRecord
  BY <1>1, <1>2 DEF AbstractRecord
<1> QED BY <1>1, <1>3 DEF ContractStep, AbstractSpent

LEMMA NextKeepsContract ==
  ASSUME ControlInv, [Next]_vars
  PROVE  ContractStep
<1>1. CASE UNCHANGED vars
  BY <1>1 DEF vars, store, client, ContractStep, AbstractRecord, AbstractSpent
<1>2. ASSUME NEW id \in Ids, Settles(id) \/ RunsOut(id)
      PROVE  ContractStep
  BY <1>2 DEF Settles, RunsOut, store, client, ContractStep, AbstractRecord, AbstractSpent
<1>3. CASE Next
  BY <1>2, <1>3, StepCases, RequestStepKeepsContract, RecordStepKeepsContract DEF ControlInv
<1> QED BY <1>1, <1>3

-------------------------------------------------------------------------------
(* The contract is kept.                                                   *)

LEMMA ControlInvariant == Spec => []ControlInv
<1>1. Init => ControlInv
  BY ClientInvInit DEF ClientInv
<1>2. ASSUME ControlInv, [Next]_vars
      PROVE  ControlInv'
  <2>1. CASE Next
    BY <1>2, <2>1, TypeStep, RechallengesPermittedStep, WaitsForTheWireStep, FreshAttemptsStep,
       SettlingCallsStep DEF ControlInv
  <2>2. CASE UNCHANGED vars
    BY <1>2, <2>2 DEF ControlInv, TypeOK, RechallengesPermitted, WaitsForTheWire, FreshAttempts,
                Fresh, SettlingCallsAreLate, Over, Current, vars, store, client, chain
  <2> QED BY <1>2, <2>1, <2>2
<1> QED BY <1>1, <1>2, PTL DEF Spec

LEMMA InitKeepsContract ==
  ASSUME Init
  PROVE  Contract!InitStore
BY DEF Init, Contract!InitStore, Contract!Keys, Contract!NoRecord

\* Whatever the requests, their resent calls and the operator do to the store is
\* what the contract of SpendStore allows: a grant fits under the cap, a record
\* moves once, and what is committed is spent.
THEOREM ClientKeepsContract == Spec => KeepsContract
<1>1. Init => Contract!InitStore
  BY InitKeepsContract
<1>2. ControlInv /\ [Next]_vars => [Contract!NextStore]_(Contract!storeVars)
  BY NextKeepsContract DEF ContractStep, Contract!storeVars, AbstractRecord, AbstractSpent
<1> QED BY <1>1, <1>2, ControlInvariant, PTL DEF Spec, KeepsContract, Contract!ContractSpec

\* So does the store under the command, and under a program that resends.
THEOREM CommandKeepsContract == CallSpec => KeepsContract
BY CommandImplementsClient, ClientKeepsContract, PTL
==============================================================================
