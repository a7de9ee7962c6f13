------------------------------ MODULE HealthIndex ------------------------------
(***************************************************************************)
(* The endpoint health index of core/health.ts, the only circuit breaker   *)
(* of a client: what each method makes of an index.  An index is a Map in  *)
(* recency order, here the entry of every host and the hosts used less     *)
(* recently than it.  Scores and latencies feed route ordering only and    *)
(* are left out.  Times are positive: openedAt = 0 is a closed circuit.    *)
(***************************************************************************)
EXTENDS Integers, Sequences, SequencesExt

CONSTANTS
    Hosts,              \* the hosts a client's pools talk to, one network each
    ConsecutiveToOpen,  \* HEALTH_CONSECUTIVE_FAILURES_TO_OPEN, 5
    MinSamples,         \* HEALTH_MIN_SAMPLES_FOR_RATE, 10
    FailureWindow,      \* HEALTH_FAILURE_WINDOW, 20
    OpenFor,            \* HEALTH_OPEN_MS, 30 s
    IdleFor,            \* HEALTH_IDLE_RETENTION_MS, 30 min
    MaxEndpoints        \* HEALTH_MAX_ENDPOINTS, 128

\* A circuit never opens on one failure after one success.
ASSUME ThresholdsAssumption ==
    /\ ConsecutiveToOpen \in Nat /\ ConsecutiveToOpen >= 2
    /\ MinSamples \in Nat /\ MinSamples >= 3
    /\ FailureWindow \in Nat /\ FailureWindow >= MinSamples
    /\ OpenFor \in Nat \ {0} /\ IdleFor \in Nat /\ IdleFor > OpenFor
    /\ MaxEndpoints \in Nat \ {0}

Entry == [outcomes : Seq(BOOLEAN), failures : Nat, openedAt : Nat,
          probing : BOOLEAN, lastUsed : Nat]

\* No entry in the Map.
NoHealth == [outcomes |-> <<>>, failures |-> 0, openedAt |-> 0,
             probing |-> FALSE, lastUsed |-> -1]

\* What #ensure puts there, before its clock is set.
Blank == [NoHealth EXCEPT !.lastUsed = 0]

Empty == [of |-> [h \in Hosts |-> NoHealth], older |-> [h \in Hosts |-> {}]]

Tracked(ix) == {h \in Hosts : ix.of[h] # NoHealth}

\* Being older is a strict linear order of the hosts tracked.
InOrder(ix) ==
    /\ \A h \in Hosts : ix.older[h] \subseteq Tracked(ix) \ {h}
    /\ \A g, h \in Tracked(ix) : g # h => g \in ix.older[h] \/ h \in ix.older[g]
    /\ \A h \in Hosts : \A g \in ix.older[h] : ix.older[g] \subseteq ix.older[h]

IsIndex(ix) ==
    /\ ix.of \in [Hosts -> Entry \cup {NoHealth}]
    /\ \A h \in Hosts : Len(ix.of[h].outcomes) <= FailureWindow
    /\ Cardinality(Tracked(ix)) <= MaxEndpoints
    /\ InOrder(ix)

Without(ix, hosts) ==
    [of |-> [h \in Hosts |-> IF h \in hosts THEN NoHealth ELSE ix.of[h]],
     older |-> [h \in Hosts |-> IF h \in hosts THEN {} ELSE ix.older[h] \ hosts]]

State(ix, host, now) ==
    IF ix.of[host].openedAt = 0 THEN "closed"
    ELSE IF now - ix.of[host].openedAt < OpenFor THEN "open" ELSE "half-open"

\* What admit answers: a half-open circuit is open to all but one caller.
Admission(ix, host, now) ==
    IF State(ix, host, now) = "half-open" /\ ix.of[host].probing
    THEN "open" ELSE State(ix, host, now)

Touch(ix, host, now) ==
    [of |-> [ix.of EXCEPT ![host].lastUsed = now],
     older |-> [h \in Hosts |-> IF h = host THEN Tracked(ix) \ {host} ELSE ix.older[h] \ {host}]]

\* The claim admit makes for the caller it lets through half-open.
Admit(ix, host, now) ==
    IF Admission(ix, host, now) = "half-open"
    THEN Touch([ix EXCEPT !.of[host].probing = TRUE], host, now)
    ELSE ix

\* The hosts at the least recently used end of which all are idle.
IdlePrefix(ix, now) ==
    {h \in Tracked(ix) : \A g \in ix.older[h] \cup {h} : now - ix.of[g].lastUsed >= IdleFor}

\* The n hosts at that end.
Oldest(ix, n) == {h \in Tracked(ix) : Cardinality(ix.older[h]) < n}

Excess(ix) == Cardinality(Tracked(ix)) - MaxEndpoints

\* Mutant of Evict: the cap is taken one too low.
EvictOneMore(ix, now) == Without(ix, IdlePrefix(ix, now) \cup Oldest(ix, Excess(ix) + 1))

\* From the least recently used end: the idle prefix goes, then any excess.
Evict(ix, now) == Without(ix, IdlePrefix(ix, now) \cup Oldest(ix, Excess(ix)))

Ensure(ix, host, now) ==
    IF ix.of[host] # NoHealth THEN Touch(ix, host, now)
    ELSE Evict(Touch([ix EXCEPT !.of[host] = Blank], host, now), now)

Observe(outcomes, ok) ==
    LET all == Append(outcomes, ok)
    IN IF Len(all) > FailureWindow THEN Tail(all) ELSE all

ShouldOpen(entry) ==
    \/ entry.failures >= ConsecutiveToOpen
    \/ /\ Len(entry.outcomes) >= MinSamples
       /\ 2 * Len(SelectSeq(entry.outcomes, LAMBDA ok : ~ok)) >= Len(entry.outcomes)

Succeeded(entry, kept) ==
    [entry EXCEPT !.probing = FALSE, !.openedAt = 0, !.failures = 0,
                  !.outcomes = Observe(kept, TRUE)]

\* Mutant of RecordSuccess: the failures that opened the circuit are kept.
RecordSuccessKeepsHistory(ix, host, now) ==
    [Ensure(ix, host, now) EXCEPT !.of[host] = Succeeded(@, @.outcomes)]

RecordSuccess(ix, host, now) ==
    [Ensure(ix, host, now) EXCEPT
        !.of[host] = Succeeded(@, IF @.openedAt # 0 THEN <<>> ELSE @.outcomes)]

Failed(entry) ==
    [entry EXCEPT !.probing = FALSE, !.failures = @ + 1,
                  !.outcomes = Observe(@, FALSE)]

\* Mutant of RecordFailure: a failed probe waits for the thresholds like any other.
RecordFailureByThreshold(ix, host, now) ==
    [Ensure(ix, host, now) EXCEPT
        !.of[host] = [Failed(@) EXCEPT
            !.openedAt = IF ShouldOpen(Failed(Ensure(ix, host, now).of[host]))
                         THEN now ELSE @]]

\* A failed probe opens the circuit again at once, whatever the thresholds say.
RecordFailure(ix, host, now) ==
    LET known == Ensure(ix, host, now)
        entry == known.of[host]
    IN [known EXCEPT !.of[host] =
           [Failed(entry) EXCEPT !.openedAt =
               IF entry.probing \/ ShouldOpen(Failed(entry)) THEN now ELSE @]]

\* Mutant of Open: the probe that met the wrong chain is never given back.
OpenKeepsProbe(ix, host, now) ==
    [Ensure(ix, host, now) EXCEPT
        !.of[host] = [Failed(@) EXCEPT !.openedAt = now, !.probing = ix.of[host].probing]]

\* The wrong chain is no reliability signal: the circuit opens at once.
Open(ix, host, now) ==
    [Ensure(ix, host, now) EXCEPT !.of[host] = [Failed(@) EXCEPT !.openedAt = now]]
===============================================================================
