--------------------------- MODULE EvmRpcPoolProofs ---------------------------
(***************************************************************************)
(* Theorems about the EVM pool and its circuits, for any hosts, providers, *)
(* readers, thresholds and bounds.                                         *)
(*                                                                         *)
(* Each method of the health index is reduced to what it does to the entry *)
(* of the host it is about; of another host it can only drop the entry.    *)
(* Which entries are dropped is left open until the last part, about the   *)
(* recency order and the cap: the theorems before it hold whatever goes.   *)
(***************************************************************************)
EXTENDS EvmRpcPool, FiniteSetTheorems, WellFoundedInduction, TLAPS

Outcomes == BOOLEAN

Health == [outcomes : Seq(Outcomes), failures : Nat, openedAt : Nat,
           probing : BOOLEAN, lastUsed : Int]

Typed(ix) == /\ ix = [of |-> ix.of, older |-> ix.older]
             /\ ix.of \in [Hosts -> Health]

\* Two entries that differ in their clock at most.
Alike(e, f) == /\ e.outcomes = f.outcomes /\ e.failures = f.failures
               /\ e.openedAt = f.openedAt /\ e.probing = f.probing

\* Of every host but one, the entry is kept or dropped.
OthersKept(ix, iy, host) ==
    \A h \in Hosts \ {host} : iy.of[h] = ix.of[h] \/ iy.of[h] = NoHealth

-------------------------------------------------------------------------------
(* The methods of the index.                                               *)

LEMMA OutcomesTyped == TRUE \in Outcomes /\ FALSE \in Outcomes /\ <<>> \in Seq(Outcomes)
<1>1. TRUE \in Outcomes /\ FALSE \in Outcomes
  BY DEF Outcomes
<1>2. <<>> \in Seq(Outcomes)
  OBVIOUS
<1> QED
  BY <1>1, <1>2

LEMMA EntryTyped ==
    ASSUME NEW o \in Seq(Outcomes), NEW f \in Nat, NEW a \in Nat, NEW u \in Int
    PROVE  [outcomes |-> o, failures |-> f, openedAt |-> a,
            probing |-> FALSE, lastUsed |-> u] \in Health
  BY DEF Health

\* Entries differ by one field at a time.
LEMMA EntryWith ==
    ASSUME NEW e \in Health
    PROVE  /\ \A n \in Int : /\ [e EXCEPT !.lastUsed = n] \in Health
                            /\ Alike([e EXCEPT !.lastUsed = n], e)
           /\ \A b \in BOOLEAN : /\ [e EXCEPT !.probing = b] \in Health
                                /\ [e EXCEPT !.probing = b].outcomes = e.outcomes
                                /\ [e EXCEPT !.probing = b].failures = e.failures
                                /\ [e EXCEPT !.probing = b].openedAt = e.openedAt
                                /\ [e EXCEPT !.probing = b].probing = b
           /\ e.outcomes \in Seq(Outcomes) /\ e.failures \in Nat /\ e.openedAt \in Nat
           /\ e.probing \in BOOLEAN /\ e.lastUsed \in Int
<1>1. \A n \in Int : [e EXCEPT !.lastUsed = n] \in Health
  BY DEF Health
<1>2. \A n \in Int : Alike([e EXCEPT !.lastUsed = n], e)
  BY DEF Health, Alike
<1>3. \A b \in BOOLEAN : [e EXCEPT !.probing = b] \in Health
  BY DEF Health
<1>4. \A b \in BOOLEAN : /\ [e EXCEPT !.probing = b].outcomes = e.outcomes
                         /\ [e EXCEPT !.probing = b].failures = e.failures
                         /\ [e EXCEPT !.probing = b].openedAt = e.openedAt
                         /\ [e EXCEPT !.probing = b].probing = b
  BY DEF Health
<1>5. /\ e.outcomes \in Seq(Outcomes) /\ e.failures \in Nat /\ e.openedAt \in Nat
      /\ e.probing \in BOOLEAN /\ e.lastUsed \in Int
  BY DEF Health
<1> QED
  BY <1>1, <1>2, <1>3, <1>4, <1>5

LEMMA AbsentTyped == NoHealth \in Health /\ Blank \in Health /\ Alike(Blank, NoHealth)
<1>1. NoHealth \in Health
  BY OutcomesTyped DEF NoHealth, Health
<1>2. Blank = [NoHealth EXCEPT !.lastUsed = 0]
  BY DEF Blank
<1>3. Blank \in Health
  BY <1>1, <1>2 DEF Health
<1>4. Alike(Blank, NoHealth)
  BY <1>1, <1>2 DEF Health, Alike
<1> QED
  BY <1>1, <1>3, <1>4

LEMMA EnsureEffect ==
    ASSUME NEW ix, Typed(ix), NEW host \in Hosts, NEW now \in Nat
    PROVE  LET iy == Ensure(ix, host, now)
           IN Typed(iy) /\ OthersKept(ix, iy, host) /\ Alike(iy.of[host], ix.of[host])
<1>1. ASSUME NEW iz, Typed(iz)
      PROVE  LET iy == Touch(iz, host, now)
             IN /\ Typed(iy) /\ Alike(iy.of[host], iz.of[host])
                /\ \A h \in Hosts \ {host} : iy.of[h] = iz.of[h]
  <2> DEFINE iy == Touch(iz, host, now)
  <2>1. iy.of = [iz.of EXCEPT ![host].lastUsed = now] /\ iy = [of |-> iy.of, older |-> iy.older]
    BY DEF Touch
  <2> HIDE DEF iy
  <2>2. iz.of[host] \in Health /\ iz.of \in [Hosts -> Health]
    BY <1>1 DEF Typed
  <2>3. [iz.of[host] EXCEPT !.lastUsed = now] \in Health
        /\ Alike([iz.of[host] EXCEPT !.lastUsed = now], iz.of[host])
    BY <2>2, EntryWith
  <2>4. /\ iy.of[host] = [iz.of[host] EXCEPT !.lastUsed = now]
        /\ \A h \in Hosts \ {host} : iy.of[h] = iz.of[h]
        /\ iy.of \in [Hosts -> Health]
    BY <2>1, <2>2, <2>3
  <2> QED
    BY <2>1, <2>3, <2>4 DEF Typed, iy
<1>2. CASE ix.of[host] # NoHealth
  BY <1>1, <1>2 DEF Ensure, OthersKept
<1>3. CASE ix.of[host] = NoHealth
  <2> DEFINE iz == [ix EXCEPT !.of[host] = Blank]
             it == Touch(iz, host, now)
  <2>1. /\ Typed(iz) /\ iz.of[host] = Blank
        /\ \A h \in Hosts \ {host} : iz.of[h] = ix.of[h]
    BY AbsentTyped DEF Typed
  <2>2. /\ Typed(it) /\ Alike(it.of[host], Blank)
        /\ \A h \in Hosts \ {host} : it.of[h] = ix.of[h]
    BY <1>1, <2>1
  <2>3. Ensure(ix, host, now) = Evict(it, now)
    BY <1>3 DEF Ensure
  <2> HIDE DEF it
  <2>4. PICK gone : Evict(it, now) = Without(it, gone)
    BY DEF Evict
  <2>5. Typed(Without(it, gone)) /\ \A h \in Hosts : Without(it, gone).of[h] \in {it.of[h], NoHealth}
    BY <2>2, AbsentTyped DEF Without, Typed
  <2> QED
    BY <1>3, <2>2, <2>3, <2>4, <2>5, AbsentTyped DEF OthersKept, Alike
<1> QED
  BY <1>2, <1>3

LEMMA ObserveTyped ==
    ASSUME NEW outcomes \in Seq(Outcomes), NEW ok \in Outcomes
    PROVE  Observe(outcomes, ok) \in Seq(Outcomes)
<1>1. Append(outcomes, ok) \in Seq(Outcomes) /\ Len(Append(outcomes, ok)) = Len(outcomes) + 1
  OBVIOUS
<1>2. Len(Append(outcomes, ok)) > FailureWindow => Append(outcomes, ok) # <<>>
  BY <1>1
<1> QED
  BY <1>1, <1>2 DEF Observe

LEMMA FailedTyped ==
    ASSUME NEW e \in Health
    PROVE  /\ Failed(e) \in Health
           /\ ~Failed(e).probing /\ Failed(e).failures = e.failures + 1
           /\ Failed(e).openedAt = e.openedAt /\ Failed(e).outcomes = Observe(e.outcomes, FALSE)
<1>1. Observe(e.outcomes, FALSE) \in Seq(Outcomes)
  BY ObserveTyped, OutcomesTyped, EntryWith
<1> DEFINE o == Observe(e.outcomes, FALSE)
<1>2. Failed(e) = [e EXCEPT !.probing = FALSE, !.failures = @ + 1, !.outcomes = o]
  BY DEF Failed
<1> HIDE DEF o
<1>3. Failed(e) \in Health
  <2>1. Failed(e) = [outcomes |-> o, failures |-> e.failures + 1, openedAt |-> e.openedAt,
                     probing |-> FALSE, lastUsed |-> e.lastUsed]
    BY <1>2 DEF Health
  <2>2. e.failures + 1 \in Nat /\ e.openedAt \in Nat /\ e.lastUsed \in Int
    BY EntryWith
  <2> QED
    BY <1>1, <2>1, <2>2, EntryTyped DEF o
<1>4. /\ ~Failed(e).probing /\ Failed(e).failures = e.failures + 1
      /\ Failed(e).openedAt = e.openedAt /\ Failed(e).outcomes = o
  BY <1>2 DEF Health
<1> QED
  BY <1>3, <1>4 DEF o

\* A success closes the circuit, gives the probe back, and forgets the failures.
LEMMA SuccessEffect ==
    ASSUME NEW ix, Typed(ix), NEW host \in Hosts, NEW now \in Nat
    PROVE  LET iy == RecordSuccess(ix, host, now)
           IN /\ Typed(iy) /\ OthersKept(ix, iy, host)
              /\ ~iy.of[host].probing /\ iy.of[host].openedAt = 0 /\ iy.of[host].failures = 0
              /\ ix.of[host].openedAt # 0 => iy.of[host].outcomes = Observe(<<>>, TRUE)
<1> DEFINE known == Ensure(ix, host, now)
           entry == known.of[host]
           new   == Succeeded(entry, IF entry.openedAt # 0 THEN <<>> ELSE entry.outcomes)
<1>1. Typed(known) /\ OthersKept(ix, known, host) /\ Alike(entry, ix.of[host])
  BY EnsureEffect
<1>2. RecordSuccess(ix, host, now) = [known EXCEPT !.of[host] = new]
  BY DEF RecordSuccess
<1> HIDE DEF known
<1>3. entry \in Health
  BY <1>1 DEF Typed
<1>4. \A kept \in Seq(Outcomes) :
          /\ Succeeded(entry, kept) \in Health
          /\ ~Succeeded(entry, kept).probing /\ Succeeded(entry, kept).openedAt = 0
          /\ Succeeded(entry, kept).failures = 0
          /\ Succeeded(entry, kept).outcomes = Observe(kept, TRUE)
  <2> SUFFICES ASSUME NEW kept \in Seq(Outcomes), NEW o, o = Observe(kept, TRUE)
               PROVE  LET s == Succeeded(entry, kept)
                      IN /\ s \in Health /\ ~s.probing /\ s.openedAt = 0
                         /\ s.failures = 0 /\ s.outcomes = o
    OBVIOUS
  <2>1. o \in Seq(Outcomes)
    BY ObserveTyped, OutcomesTyped
  <2>2. Succeeded(entry, kept) = [entry EXCEPT !.probing = FALSE, !.openedAt = 0,
                                               !.failures = 0, !.outcomes = o]
    BY DEF Succeeded
  <2>3. Succeeded(entry, kept) \in Health
    <3>1. Succeeded(entry, kept) = [outcomes |-> o, failures |-> 0, openedAt |-> 0,
                                    probing |-> FALSE, lastUsed |-> entry.lastUsed]
      BY <1>3, <2>2 DEF Health
    <3>2. 0 \in Nat /\ entry.lastUsed \in Int
      BY <1>3, EntryWith
    <3> QED
      BY <2>1, <3>1, <3>2, EntryTyped
  <2> QED
    BY <1>3, <2>2, <2>3 DEF Health
<1>5. (IF entry.openedAt # 0 THEN <<>> ELSE entry.outcomes) \in Seq(Outcomes)
  BY <1>3 DEF Health
<1>6. /\ new \in Health /\ ~new.probing /\ new.openedAt = 0 /\ new.failures = 0
      /\ entry.openedAt # 0 => new.outcomes = Observe(<<>>, TRUE)
  BY <1>4, <1>5
<1> HIDE DEF new
<1> QED
  BY <1>1, <1>2, <1>6 DEF Typed, OthersKept, Alike

\* A failure gives the probe back; it opens the circuit from the moment of the
\* read if the probe was out, or if the thresholds say so.
LEMMA FailureEffect ==
    ASSUME NEW ix, Typed(ix), NEW host \in Hosts, NEW now \in Nat
    PROVE  LET iy == RecordFailure(ix, host, now)
               e  == ix.of[host]
           IN /\ Typed(iy) /\ OthersKept(ix, iy, host)
              /\ ~iy.of[host].probing /\ iy.of[host].failures = e.failures + 1
              /\ iy.of[host].openedAt \in {e.openedAt, now}
              /\ e.probing => iy.of[host].openedAt = now
              /\ /\ ~e.probing /\ e.failures + 1 < ConsecutiveToOpen
                 /\ Len(Observe(e.outcomes, FALSE)) < MinSamples
                 => iy.of[host].openedAt = e.openedAt
<1> DEFINE known == Ensure(ix, host, now)
           entry == known.of[host]
           new   == [Failed(entry) EXCEPT !.openedAt =
                       IF entry.probing \/ ShouldOpen(Failed(entry)) THEN now ELSE @]
<1>1. Typed(known) /\ OthersKept(ix, known, host) /\ Alike(entry, ix.of[host])
  BY EnsureEffect
<1>2. RecordFailure(ix, host, now) = [known EXCEPT !.of[host] = new]
  BY DEF RecordFailure
<1> HIDE DEF known
<1>3. entry \in Health
  BY <1>1 DEF Typed
<1>4. /\ Failed(entry) \in Health
      /\ ~Failed(entry).probing /\ Failed(entry).failures = entry.failures + 1
      /\ Failed(entry).openedAt = entry.openedAt
      /\ Failed(entry).outcomes = Observe(entry.outcomes, FALSE)
  BY <1>3, FailedTyped
<1>5. /\ new \in Health /\ ~new.probing /\ new.failures = entry.failures + 1
      /\ new.openedAt = IF entry.probing \/ ShouldOpen(Failed(entry)) THEN now ELSE entry.openedAt
  BY <1>4 DEF Health
<1>6. /\ entry.failures + 1 < ConsecutiveToOpen
      /\ Len(Observe(entry.outcomes, FALSE)) < MinSamples
      => ~ShouldOpen(Failed(entry))
  <2> DEFINE o == Observe(entry.outcomes, FALSE)
  <2>1. \A f : ShouldOpen(f) => \/ f.failures >= ConsecutiveToOpen
                                \/ Len(f.outcomes) >= MinSamples
    BY DEF ShouldOpen
  <2>2. o \in Seq(Outcomes)
    BY <1>3, ObserveTyped, OutcomesTyped, EntryWith
  <2>3. entry.failures \in Nat /\ ConsecutiveToOpen \in Nat /\ MinSamples \in Nat
    BY <1>3, ThresholdsAssumption, EntryWith
  <2>4. Failed(entry).failures = entry.failures + 1 /\ Failed(entry).outcomes = o
    BY <1>4
  <2> HIDE DEF o
  <2>5. Len(o) \in Nat
    BY <2>2
  <2>6. ShouldOpen(Failed(entry)) => \/ entry.failures + 1 >= ConsecutiveToOpen
                                     \/ Len(o) >= MinSamples
    BY <2>1, <2>4
  <2>7. entry.failures + 1 < ConsecutiveToOpen /\ Len(o) < MinSamples => ~ShouldOpen(Failed(entry))
    BY <2>3, <2>5, <2>6
  <2> QED
    BY <2>7 DEF o
<1> HIDE DEF new
<1> QED
  BY <1>1, <1>2, <1>5, <1>6 DEF Typed, OthersKept, Alike

LEMMA OpenEffect ==
    ASSUME NEW ix, Typed(ix), NEW host \in Hosts, NEW now \in Nat
    PROVE  LET iy == Open(ix, host, now)
           IN /\ Typed(iy) /\ OthersKept(ix, iy, host)
              /\ ~iy.of[host].probing /\ iy.of[host].openedAt = now
<1> DEFINE known == Ensure(ix, host, now)
           new   == [Failed(known.of[host]) EXCEPT !.openedAt = now]
<1>1. Typed(known) /\ OthersKept(ix, known, host)
  BY EnsureEffect
<1>2. Open(ix, host, now) = [known EXCEPT !.of[host] = new]
  BY DEF Open
<1> HIDE DEF known
<1>3. known.of[host] \in Health
  BY <1>1 DEF Typed
<1>4. Failed(known.of[host]) \in Health /\ ~Failed(known.of[host]).probing
  BY <1>3, FailedTyped
<1>5. new \in Health /\ ~new.probing /\ new.openedAt = now
  BY <1>4 DEF Health
<1> HIDE DEF new
<1> QED
  BY <1>1, <1>2, <1>5 DEF Typed, OthersKept

\* The claim of a probe touches nothing but its mark, on a half-open circuit.
LEMMA AdmitEffect ==
    ASSUME NEW ix, Typed(ix), NEW host \in Hosts, NEW now \in Nat
    PROVE  LET iy == Admit(ix, host, now)
           IN /\ Typed(iy)
              /\ \A h \in Hosts \ {host} : iy.of[h] = ix.of[h]
              /\ iy.of[host].outcomes = ix.of[host].outcomes
              /\ iy.of[host].failures = ix.of[host].failures
              /\ iy.of[host].openedAt = ix.of[host].openedAt
              /\ ix.of[host].probing => iy.of[host].probing
              /\ Admission(ix, host, now) = "half-open" => iy.of[host].probing
              /\ iy.of[host].probing =>
                    ix.of[host].probing \/ Admission(ix, host, now) = "half-open"
<1>1. CASE Admission(ix, host, now) # "half-open"
  BY <1>1 DEF Admit, Typed, Health
<1>2. CASE Admission(ix, host, now) = "half-open"
  <2> DEFINE iz == [ix EXCEPT !.of[host].probing = TRUE]
             iy == Touch(iz, host, now)
             e  == [ix.of[host] EXCEPT !.probing = TRUE]
  <2>1. ix.of[host] \in Health /\ ix.of \in [Hosts -> Health]
    BY DEF Typed
  <2>2. /\ e \in Health /\ e.probing = TRUE
        /\ e.outcomes = ix.of[host].outcomes /\ e.failures = ix.of[host].failures
        /\ e.openedAt = ix.of[host].openedAt
    BY <2>1, EntryWith
  <2>3. iz.of = [ix.of EXCEPT ![host] = e]
    <3>1. ix = [of |-> ix.of, older |-> ix.older]
      BY DEF Typed
    <3>2. iz.of = [ix.of EXCEPT ![host] = [@ EXCEPT !.probing = TRUE]]
      BY <3>1
    <3> QED
      BY <2>1, <3>2
  <2>4. Admit(ix, host, now) = iy /\ iy.of = [iz.of EXCEPT ![host].lastUsed = now]
        /\ iy = [of |-> iy.of, older |-> iy.older]
    BY <1>2 DEF Admit, Touch
  <2> HIDE DEF iz, iy, e
  <2>5. iz.of \in [Hosts -> Health] /\ iz.of[host] = e
        /\ \A h \in Hosts \ {host} : iz.of[h] = ix.of[h]
    BY <2>1, <2>2, <2>3
  <2>6. [e EXCEPT !.lastUsed = now] \in Health /\ Alike([e EXCEPT !.lastUsed = now], e)
    BY <2>2, EntryWith
  <2>7. /\ iy.of \in [Hosts -> Health] /\ iy.of[host] = [e EXCEPT !.lastUsed = now]
        /\ \A h \in Hosts \ {host} : iy.of[h] = ix.of[h]
    BY <2>4, <2>5, <2>6
  <2> QED
    BY <1>2, <2>2, <2>4, <2>6, <2>7 DEF Typed, Alike
<1> QED
  BY <1>1, <1>2

-------------------------------------------------------------------------------
(* What a recorded outcome, of whatever kind, does to the host it is about. *)

\* A history from which one more failure does not open the circuit.
Calm(e) == /\ ~e.probing /\ e.failures = 0 /\ e.openedAt = 0
           /\ Len(Observe(e.outcomes, FALSE)) < MinSamples

Recorded(ix, iy, host, now) ==
    /\ Typed(iy) /\ OthersKept(ix, iy, host)
    /\ ~iy.of[host].probing
    /\ iy.of[host].openedAt \in {0, ix.of[host].openedAt, now}
    /\ ix.of[host].probing => iy.of[host].openedAt \in {0, now}
    /\ iy.of[host].openedAt = 0 => ix.of[host].openedAt = 0 \/ Calm(iy.of[host])
    /\ iy.of[host].failures > ix.of[host].failures /\ ix.of[host].probing
         => iy.of[host].openedAt = now

LEMMA ObserveLength ==
    ASSUME NEW outcomes \in Seq(Outcomes), NEW ok \in Outcomes
    PROVE  Len(Observe(outcomes, ok)) <= Len(outcomes) + 1
<1>1. Append(outcomes, ok) \in Seq(Outcomes) /\ Len(Append(outcomes, ok)) = Len(outcomes) + 1
  OBVIOUS
<1>2. Len(outcomes) \in Nat /\ Len(<<>>) = 0
  OBVIOUS
<1>3. Len(Tail(Append(outcomes, ok))) = Len(outcomes)
  BY <1>1, <1>2
<1>4. Len(Append(outcomes, ok)) <= Len(outcomes) + 1 /\ Len(outcomes) <= Len(outcomes) + 1
  BY <1>1, <1>2
<1> QED
  BY <1>3, <1>4 DEF Observe

\* No history is calm, and so is one fresh success.
LEMMA CalmHistories ==
    /\ Calm(NoHealth)
    /\ Len(Observe(Observe(<<>>, TRUE), FALSE)) < MinSamples
<1>1. MinSamples \in Nat /\ MinSamples >= 3
  BY ThresholdsAssumption
<1>2. Len(Observe(<<>>, FALSE)) <= 1 /\ Len(Observe(<<>>, TRUE)) <= 1
  <2>1. Len(Observe(<<>>, FALSE)) <= Len(<<>>) + 1 /\ Len(Observe(<<>>, TRUE)) <= Len(<<>>) + 1
    BY OutcomesTyped, ObserveLength
  <2>2. Len(<<>>) + 1 = 1
    OBVIOUS
  <2> QED
    BY <2>1, <2>2
<1>3. Observe(<<>>, TRUE) \in Seq(Outcomes) /\ Observe(<<>>, FALSE) \in Seq(Outcomes)
  BY OutcomesTyped, ObserveTyped
<1>4. Len(Observe(Observe(<<>>, TRUE), FALSE)) <= Len(Observe(<<>>, TRUE)) + 1
  BY <1>3, OutcomesTyped, ObserveLength
<1>5. Observe(Observe(<<>>, TRUE), FALSE) \in Seq(Outcomes)
  BY <1>3, OutcomesTyped, ObserveTyped
<1>6. Len(Observe(<<>>, FALSE)) < MinSamples
      /\ Len(Observe(Observe(<<>>, TRUE), FALSE)) < MinSamples
  <2>1. ASSUME NEW l \in Nat, NEW m \in Nat, NEW n \in Nat, l <= 1, m <= 1, n <= m + 1
        PROVE  l < MinSamples /\ n < MinSamples
    BY <1>1, <2>1
  <2>2. /\ Len(Observe(<<>>, FALSE)) \in Nat /\ Len(Observe(<<>>, TRUE)) \in Nat
        /\ Len(Observe(Observe(<<>>, TRUE), FALSE)) \in Nat
    <3>1. \A o \in Seq(Outcomes) : Len(o) \in Nat
      OBVIOUS
    <3> QED
      BY <1>3, <1>5, <3>1
  <2> QED
    BY <1>2, <1>4, <2>1, <2>2
<1>7. ~NoHealth.probing /\ NoHealth.failures = 0 /\ NoHealth.openedAt = 0
      /\ NoHealth.outcomes = <<>>
  BY DEF NoHealth
<1> QED
  BY <1>6, <1>7 DEF Calm

LEMMA CalmStaysClosed ==
    ASSUME NEW ix, Typed(ix), NEW host \in Hosts, NEW now \in Nat, Calm(ix.of[host])
    PROVE  RecordFailure(ix, host, now).of[host].openedAt = 0
<1>1. ConsecutiveToOpen \in Nat /\ ConsecutiveToOpen >= 2
  BY ThresholdsAssumption
<1>2. /\ ~ix.of[host].probing /\ ix.of[host].failures = 0 /\ ix.of[host].openedAt = 0
      /\ Len(Observe(ix.of[host].outcomes, FALSE)) < MinSamples
  BY DEF Calm
<1>3. ix.of[host].failures + 1 < ConsecutiveToOpen
  BY <1>1, <1>2
<1> QED
  BY <1>2, <1>3, FailureEffect

LEMMA OutcomesRecorded ==
    ASSUME NEW ix, Typed(ix), NEW host \in Hosts, NEW now \in Nat \ {0}
    PROVE  /\ Recorded(ix, RecordSuccess(ix, host, now), host, now)
           /\ Recorded(ix, RecordFailure(ix, host, now), host, now)
           /\ Recorded(ix, Open(ix, host, now), host, now)
<1> DEFINE e == ix.of[host]
<1>0. e \in Health /\ e.failures \in Nat /\ e.openedAt \in Nat
  BY EntryWith DEF Typed
<1>1. Recorded(ix, RecordSuccess(ix, host, now), host, now)
  <2> DEFINE iy == RecordSuccess(ix, host, now)
  <2>1. /\ Typed(iy) /\ OthersKept(ix, iy, host)
        /\ ~iy.of[host].probing /\ iy.of[host].openedAt = 0 /\ iy.of[host].failures = 0
        /\ e.openedAt # 0 => iy.of[host].outcomes = Observe(<<>>, TRUE)
    BY SuccessEffect
  <2> HIDE DEF iy
  <2>2. e.openedAt = 0 \/ Calm(iy.of[host])
    BY <2>1, CalmHistories DEF Calm
  <2>3. ~(iy.of[host].failures > e.failures)
    BY <1>0, <2>1
  <2>4. Recorded(ix, iy, host, now)
    BY <2>1, <2>2, <2>3 DEF Recorded
  <2> QED
    BY <2>4 DEF iy
<1>2. Recorded(ix, RecordFailure(ix, host, now), host, now)
  <2> DEFINE iy == RecordFailure(ix, host, now)
  <2>1. /\ Typed(iy) /\ OthersKept(ix, iy, host)
        /\ ~iy.of[host].probing
        /\ iy.of[host].openedAt \in {e.openedAt, now}
        /\ e.probing => iy.of[host].openedAt = now
    BY FailureEffect
  <2> HIDE DEF iy
  <2>2. iy.of[host].openedAt = 0 => e.openedAt = 0
    BY <2>1
  <2>3. Recorded(ix, iy, host, now)
    BY <2>1, <2>2 DEF Recorded
  <2> QED
    BY <2>3 DEF iy
<1>3. Recorded(ix, Open(ix, host, now), host, now)
  <2> DEFINE iy == Open(ix, host, now)
  <2>1. /\ Typed(iy) /\ OthersKept(ix, iy, host)
        /\ ~iy.of[host].probing /\ iy.of[host].openedAt = now
    BY OpenEffect
  <2> HIDE DEF iy
  <2>2. iy.of[host].openedAt # 0
    BY <2>1
  <2>3. Recorded(ix, iy, host, now)
    BY <2>1, <2>2 DEF Recorded
  <2> QED
    BY <2>3 DEF iy
<1> QED
  BY <1>1, <1>2, <1>3

-------------------------------------------------------------------------------
(* The reads.                                                              *)

\* The least number of a set, which the operator Min chooses.
LEMMA MinIsLeast ==
    ASSUME NEW S, S \subseteq Nat, S # {}
    PROVE  Min(S) \in S /\ \A n \in S : Min(S) <= n
<1> DEFINE R == {ss \in Nat \X Nat : ss[1] < ss[2]}
<1>1. IsWellFoundedOn(R, Nat)
  BY NatLessThanWellFounded DEF OpToRel
<1>2. PICK x \in S : \A y \in S : ~(<<y, x>> \in R)
  BY <1>1, WFMin
<1>3. \A y \in S : ~(y < x)
  BY <1>2
<1>4. \A y \in S : x <= y
  BY <1>3
<1> QED
  BY <1>4 DEF Min

Reads == [pc : {"idle", "proving", "reading"}, at : Nat,
          rest : SUBSET DOMAIN Providers, lastResort : BOOLEAN,
          since : Nat, probe : BOOLEAN]

ReadTyped ==
    /\ clock \in Nat \ {0}
    /\ Typed(index)
    /\ read \in [Readers -> Reads]

\* A call in flight is to an endpoint of the manifest, and its read began no
\* longer ago than its deadlines allow.
Timely ==
    \A r \in InFlight : /\ read[r].at \in DOMAIN Providers
                        /\ read[r].since >= 1 /\ read[r].since <= clock
                        /\ clock <= read[r].since + Lasts

\* A probe in flight is known to its circuit, or the circuit has closed or
\* opened again since, too late to be half-open before the read ends.
Known(ix, q) ==
    LET e == ix.of[Providers[q.at]]
    IN e.probing \/ e.openedAt = 0 \/ q.since + Lasts - e.openedAt < OpenFor

ProbesKnown == \A r \in InFlight : read[r].probe => Known(index, read[r])

PoolInv == ReadTyped /\ Timely /\ ProbeHasHolder /\ ProbesKnown

\* Between the record of r's outcome and the next call of r.
Between(ix, r) ==
    /\ Typed(ix)
    /\ \A h \in Hosts : ix.of[h].probing =>
          \E o \in InFlight \ {r} : read[o].probe /\ HostOf(o) = h
    /\ \A o \in InFlight \ {r} : read[o].probe => Known(ix, read[o])

LEMMA ProvidersTyped ==
    /\ DOMAIN Providers \subseteq Nat /\ 0 \notin DOMAIN Providers
    /\ \A p \in DOMAIN Providers : Providers[p] \in Hosts /\ Providers[p] \notin OtherHosts
<1>1. Providers \in Seq(Hosts) /\ DOMAIN Providers = 1 .. Len(Providers) /\ Len(Providers) \in Nat
  BY ProvidersAssumption
<1>2. \A p \in DOMAIN Providers : Providers[p] \in ToSet(Providers)
  BY DEF ToSet
<1> QED
  BY <1>1, <1>2, ProvidersAssumption

LEMMA DeadlinesTyped == Lasts \in Nat /\ Lasts >= 1 /\ OpenFor \in Nat /\ 2 * Lasts < OpenFor
  BY DeadlinesAssumption, ThresholdsAssumption

\* The next call goes to an endpoint that the circuits do not refuse, and takes
\* the probe if its circuit is half-open; without one the read is over.
LEMMA ProceedEffect ==
    ASSUME NEW r \in Readers, read \in [Readers -> Reads],
           NEW ix, Typed(ix), NEW q \in Reads, Proceed(r, ix, q)
    PROVE  /\ read' \in [Readers -> Reads]
           /\ \A o \in Readers \ {r} : read'[o] = read[o]
           /\ \/ read'[r] = NoRead /\ index' = ix
              \/ \E p \in q.rest :
                    /\ p \in DOMAIN Providers
                    /\ ~Refuses(ix, q, p)
                    /\ read'[r].pc = "proving" /\ read'[r].at = p
                    /\ read'[r].lastResort = q.lastResort /\ read'[r].since = q.since
                    /\ \/ ~read'[r].probe /\ index' = ix
                       \/ ~q.lastResort /\ index' = Admit(ix, Providers[p], q.since)
                    /\ read'[r].probe <=> /\ ~q.lastResort
                                          /\ Admission(ix, Providers[p], q.since) = "half-open"
<1> DEFINE admitted == {p \in q.rest : ~Refuses(ix, q, p)}
<1>1. q.rest \subseteq DOMAIN Providers /\ q.lastResort \in BOOLEAN /\ q.since \in Nat
  BY DEF Reads
<1>2. CASE admitted = {}
  <2>1. index' = ix /\ read' = [read EXCEPT ![r] = NoRead]
    BY <1>2 DEF Proceed
  <2>2. NoRead \in Reads
    BY DEF NoRead, Reads
  <2> QED
    BY <2>1, <2>2
<1>3. CASE admitted # {}
  <2> DEFINE p == Min(admitted)
             claims == /\ ~q.lastResort
                       /\ Admission(ix, Providers[p], q.since) = "half-open"
             left == {x \in q.rest : x > p}
             next == [q EXCEPT !.pc = "proving", !.at = p, !.rest = left, !.probe = claims]
  <2>1. p \in admitted
    BY <1>1, <1>3, ProvidersTyped, MinIsLeast
  <2>2. /\ index' = IF q.lastResort THEN ix ELSE Admit(ix, Providers[p], q.since)
        /\ read' = [read EXCEPT ![r] = next]
    BY <1>3 DEF Proceed
  <2>3. p \in q.rest /\ p \in DOMAIN Providers /\ p \in Nat /\ ~Refuses(ix, q, p)
    BY <1>1, <2>1, ProvidersTyped
  <2>4. claims \in BOOLEAN /\ left \in SUBSET DOMAIN Providers
    BY <1>1
  <2> HIDE DEF p, claims, left, admitted
  <2>5. next \in Reads
    BY <2>3, <2>4 DEF Reads
  <2>6. /\ next.pc = "proving" /\ next.at = p /\ next.since = q.since
        /\ next.lastResort = q.lastResort /\ next.probe = claims
    BY DEF Reads
  <2> HIDE DEF next
  <2>7. /\ read' \in [Readers -> Reads] /\ read'[r] = next
        /\ \A o \in Readers \ {r} : read'[o] = read[o]
    BY <2>2, <2>5
  <2>8. read'[r].probe <=> claims
    BY <2>6, <2>7
  <2>9. claims <=> /\ ~q.lastResort
                   /\ Admission(ix, Providers[p], q.since) = "half-open"
    BY DEF claims
  <2>10. \/ ~read'[r].probe /\ index' = ix
         \/ ~q.lastResort /\ index' = Admit(ix, Providers[p], q.since)
    BY <2>2, <2>8, <2>9
  <2> QED
    BY <2>3, <2>6, <2>7, <2>8, <2>9, <2>10
<1> QED
  BY <1>2, <1>3

LEMMA AdmissionMeans ==
    ASSUME NEW ix, NEW host, NEW now
    PROVE  /\ Admission(ix, host, now) = "half-open" => ix.of[host].openedAt # 0
           /\ Admission(ix, host, now) # "open" => State(ix, host, now) # "open"
  BY DEF Admission, State

\* Whatever the next call of r is, the books of the probes are kept.
LEMMA ProceedKeeps ==
    ASSUME PoolInv, NEW r \in Readers, NEW ix, Between(ix, r),
           NEW q \in Reads, q.since >= 1, q.since <= clock, clock <= q.since + Lasts,
           Proceed(r, ix, q), clock' = clock
    PROVE  /\ PoolInv'
           /\ \A o \in Readers \ {r} : read'[o] = read[o]
           /\ \A h \in Hosts : index'.of[h].openedAt = ix.of[h].openedAt
           /\ \A h \in Hosts : index'.of[h].failures = ix.of[h].failures
           /\ \A h \in Hosts : index'.of[h].outcomes = ix.of[h].outcomes
           /\ \A h \in Hosts : index'.of[h].probing => ix.of[h].probing \/ ix.of[h].openedAt # 0
           /\ read'[r].pc = "proving" =>
                \/ read'[r].lastResort
                \/ State(ix, Providers[read'[r].at], read'[r].since) # "open"
<1>1. /\ ReadTyped /\ Timely /\ Typed(ix)
      /\ read \in [Readers -> Reads]
      /\ \A h \in Hosts : ix.of[h].probing =>
            \E o \in InFlight \ {r} : read[o].probe /\ HostOf(o) = h
      /\ \A o \in InFlight \ {r} : read[o].probe => Known(ix, read[o])
  BY DEF PoolInv, Between, ReadTyped
<1>2. /\ read' \in [Readers -> Reads]
      /\ \A o \in Readers \ {r} : read'[o] = read[o]
      /\ \/ read'[r] = NoRead /\ index' = ix
         \/ \E p \in q.rest :
               /\ p \in DOMAIN Providers
               /\ ~Refuses(ix, q, p)
               /\ read'[r].pc = "proving" /\ read'[r].at = p
               /\ read'[r].lastResort = q.lastResort /\ read'[r].since = q.since
               /\ \/ ~read'[r].probe /\ index' = ix
                  \/ ~q.lastResort /\ index' = Admit(ix, Providers[p], q.since)
               /\ read'[r].probe <=> /\ ~q.lastResort
                                     /\ Admission(ix, Providers[p], q.since) = "half-open"
  BY <1>1, ProceedEffect
<1>3. \A o \in InFlight \ {r} : o \in InFlight' /\ read'[o] = read[o]
  BY <1>2 DEF InFlight
<1>4. \A o \in InFlight' \ {r} : o \in InFlight /\ read'[o] = read[o]
  BY <1>2 DEF InFlight
<1>5. CASE read'[r] = NoRead /\ index' = ix
  <2>1. r \notin InFlight'
    BY <1>5 DEF InFlight, NoRead
  <2>2. ReadTyped'
    BY <1>1, <1>2, <1>5 DEF ReadTyped, Typed
  <2>3. Timely'
    BY <1>1, <1>4, <2>1 DEF Timely
  <2>4. ProbeHasHolder'
    BY <1>1, <1>3, <1>5 DEF ProbeHasHolder, HostOf
  <2>5. ProbesKnown'
    BY <1>1, <1>4, <1>5, <2>1 DEF ProbesKnown
  <2>6. read'[r].pc # "proving"
    BY <1>5 DEF NoRead
  <2> QED
    BY <1>2, <1>5, <2>2, <2>3, <2>4, <2>5, <2>6 DEF PoolInv
<1>6. ASSUME NEW p \in DOMAIN Providers, ~Refuses(ix, q, p),
             read'[r].pc = "proving", read'[r].at = p,
             read'[r].lastResort = q.lastResort, read'[r].since = q.since,
             \/ ~read'[r].probe /\ index' = ix
             \/ ~q.lastResort /\ index' = Admit(ix, Providers[p], q.since),
             read'[r].probe <=> /\ ~q.lastResort
                                /\ Admission(ix, Providers[p], q.since) = "half-open"
      PROVE  /\ PoolInv'
             /\ \A h \in Hosts : index'.of[h].openedAt = ix.of[h].openedAt
             /\ \A h \in Hosts : index'.of[h].failures = ix.of[h].failures
             /\ \A h \in Hosts : index'.of[h].outcomes = ix.of[h].outcomes
             /\ \A h \in Hosts : index'.of[h].probing => ix.of[h].probing \/ ix.of[h].openedAt # 0
             /\ \/ read'[r].lastResort
                \/ State(ix, Providers[read'[r].at], read'[r].since) # "open"
  <2> DEFINE host == Providers[p]
  <2>1. host \in Hosts /\ q.since \in Nat /\ q.lastResort \in BOOLEAN
    BY ProvidersTyped DEF Reads
  <2> HIDE DEF host
  <2>2. /\ Typed(index')
        /\ \A h \in Hosts \ {host} : index'.of[h] = ix.of[h]
        /\ index'.of[host].outcomes = ix.of[host].outcomes
        /\ index'.of[host].failures = ix.of[host].failures
        /\ index'.of[host].openedAt = ix.of[host].openedAt
        /\ ix.of[host].probing => index'.of[host].probing
        /\ index'.of[host].probing =>
              ix.of[host].probing \/ (read'[r].probe /\ ix.of[host].openedAt # 0)
        /\ read'[r].probe => index'.of[host].probing
    <3>1. CASE ~read'[r].probe /\ index' = ix
      BY <1>1, <3>1
    <3>2. CASE ~q.lastResort /\ index' = Admit(ix, Providers[p], q.since)
      <4>1. index' = Admit(ix, host, q.since)
            /\ (read'[r].probe <=> Admission(ix, host, q.since) = "half-open")
        BY <1>6, <3>2 DEF host
      <4> DEFINE iy == Admit(ix, host, q.since)
      <4>2. /\ Typed(iy)
            /\ \A h \in Hosts \ {host} : iy.of[h] = ix.of[h]
            /\ iy.of[host].outcomes = ix.of[host].outcomes
            /\ iy.of[host].failures = ix.of[host].failures
            /\ iy.of[host].openedAt = ix.of[host].openedAt
            /\ ix.of[host].probing => iy.of[host].probing
            /\ Admission(ix, host, q.since) = "half-open" => iy.of[host].probing
            /\ iy.of[host].probing =>
                  ix.of[host].probing \/ Admission(ix, host, q.since) = "half-open"
        BY <1>1, <2>1, AdmitEffect
      <4> HIDE DEF iy
      <4>3. iy = index'
        BY <4>1 DEF iy
      <4> QED
        BY <4>1, <4>2, <4>3, AdmissionMeans
    <3> QED
      BY <1>6, <3>1, <3>2
  <2>3. \A h \in Hosts : /\ index'.of[h].openedAt = ix.of[h].openedAt
                         /\ ix.of[h].probing => index'.of[h].probing
                         /\ index'.of[h].failures = ix.of[h].failures
                         /\ index'.of[h].outcomes = ix.of[h].outcomes
                         /\ index'.of[h].probing => ix.of[h].probing \/ ix.of[h].openedAt # 0
    BY <2>2
  <2>4. ReadTyped'
    BY <1>1, <1>2, <2>2 DEF ReadTyped, Typed
  <2>5. Timely'
    BY <1>1, <1>4, <1>6 DEF Timely
  <2>6. r \in InFlight' /\ HostOf(r)' = host
    BY <1>6 DEF InFlight, HostOf, host
  <2>7. ProbeHasHolder'
    <3> SUFFICES ASSUME NEW h \in Hosts, index'.of[h].probing
                 PROVE  \E o \in InFlight' : read'[o].probe /\ HostOf(o)' = h
      BY DEF ProbeHasHolder
    <3>1. ix.of[h].probing \/ (h = host /\ read'[r].probe)
      BY <2>2
    <3>2. CASE ix.of[h].probing
      BY <1>1, <1>3, <3>2 DEF HostOf
    <3>3. CASE h = host /\ read'[r].probe
      BY <2>6, <3>3
    <3> QED
      BY <3>1, <3>2, <3>3
  <2>8. ProbesKnown'
    <3> SUFFICES ASSUME NEW o \in InFlight', read'[o].probe
                 PROVE  Known(index', read'[o])
      BY DEF ProbesKnown
    <3>1. CASE o = r
      <4>1. index'.of[host].probing
        BY <2>2, <3>1
      <4>2. Providers[read'[r].at] = host
        BY <1>6 DEF host
      <4> QED
        BY <3>1, <4>1, <4>2 DEF Known
    <3>2. CASE o # r
      <4>1. Known(ix, read[o]) /\ read'[o] = read[o] /\ o \in InFlight
        BY <1>1, <1>4, <3>2
      <4>2. Providers[read[o].at] \in Hosts
        BY <1>1, <4>1, ProvidersTyped DEF Timely
      <4> QED
        BY <2>3, <4>1, <4>2 DEF Known
    <3> QED
      BY <3>1, <3>2
  <2>9. \/ read'[r].lastResort
        \/ State(ix, Providers[read'[r].at], read'[r].since) # "open"
    <3>1. q.lastResort \/ Admission(ix, Providers[p], q.since) # "open"
      BY <1>6 DEF Refuses
    <3>2. q.lastResort \/ State(ix, Providers[p], q.since) # "open"
      BY <3>1, AdmissionMeans
    <3> QED
      BY <1>6, <3>2
  <2> QED
    BY <2>3, <2>4, <2>5, <2>7, <2>8, <2>9 DEF PoolInv
<1>7. CASE \E p \in q.rest :
               /\ p \in DOMAIN Providers
               /\ ~Refuses(ix, q, p)
               /\ read'[r].pc = "proving" /\ read'[r].at = p
               /\ read'[r].lastResort = q.lastResort /\ read'[r].since = q.since
               /\ \/ ~read'[r].probe /\ index' = ix
                  \/ ~q.lastResort /\ index' = Admit(ix, Providers[p], q.since)
               /\ read'[r].probe <=> /\ ~q.lastResort
                                     /\ Admission(ix, Providers[p], q.since) = "half-open"
  BY <1>2, <1>6, <1>7
<1> QED
  BY <1>2, <1>5, <1>7

LEMMA PoolTyped ==
    ASSUME PoolInv
    PROVE  /\ clock \in Nat \ {0} /\ Typed(index) /\ read \in [Readers -> Reads]
           /\ \A h \in Hosts : /\ index.of[h] \in Health
                               /\ index.of[h].openedAt \in Nat /\ index.of[h].failures \in Nat
           /\ \A r \in InFlight :
                 /\ r \in Readers /\ read[r].at \in DOMAIN Providers
                 /\ HostOf(r) \in Hosts /\ HostOf(r) \notin OtherHosts
                 /\ HostOf(r) = Providers[read[r].at]
                 /\ read[r].since \in Nat /\ read[r].since >= 1
                 /\ read[r].since <= clock /\ clock <= read[r].since + Lasts
<1>1. clock \in Nat \ {0} /\ Typed(index) /\ read \in [Readers -> Reads] /\ Timely
  BY DEF PoolInv, ReadTyped
<1>2. \A h \in Hosts : /\ index.of[h] \in Health
                       /\ index.of[h].openedAt \in Nat /\ index.of[h].failures \in Nat
  BY <1>1, EntryWith DEF Typed
<1>3. \A r \in InFlight : r \in Readers /\ HostOf(r) = Providers[read[r].at]
  BY DEF InFlight, HostOf
<1>4. \A r \in InFlight : read[r].since \in Nat
  BY <1>1, <1>3 DEF Reads
<1> QED
  BY <1>1, <1>2, <1>3, <1>4, ProvidersTyped DEF Timely

\* Not in flight, or with its outcome recorded, a read holds no probe.
LEMMA IdleBetween ==
    ASSUME PoolInv, NEW r \in Readers, read[r].pc = "idle"
    PROVE  Between(index, r)
<1>1. r \notin InFlight
  BY DEF InFlight
<1> QED
  BY <1>1, PoolTyped DEF PoolInv, Between, ProbeHasHolder, ProbesKnown

LEMMA OutcomeKept ==
    ASSUME PoolInv, NEW host \in Hosts, NEW now \in Nat, now <= clock, clock <= now + Lasts,
           NEW ix, Recorded(index, ix, host, now)
    PROVE  /\ Typed(ix)
           /\ \A o \in InFlight : read[o].probe => Known(ix, read[o])
           /\ \A h \in Hosts : ix.of[h].probing => h # host /\ index.of[h].probing
<1>1. /\ Typed(ix) /\ ~ix.of[host].probing
      /\ ix.of[host].openedAt \in {0, index.of[host].openedAt, now}
      /\ index.of[host].probing => ix.of[host].openedAt \in {0, now}
      /\ \A h \in Hosts \ {host} : ix.of[h] = index.of[h] \/ ix.of[h] = NoHealth
  BY DEF Recorded, OthersKept
<1>2. ~NoHealth.probing /\ NoHealth.openedAt = 0
  BY DEF NoHealth
<1>3. \A h \in Hosts : ix.of[h].probing => h # host /\ index.of[h].probing
  BY <1>1, <1>2
<1>4. ASSUME NEW o \in InFlight, read[o].probe
      PROVE  Known(ix, read[o])
  <2> DEFINE h == Providers[read[o].at]
             e == index.of[h]
             f == ix.of[h]
  <2>1. /\ h \in Hosts /\ e.openedAt \in Nat /\ clock \in Nat
        /\ read[o].since \in Nat /\ read[o].since <= clock
    BY PoolTyped
  <2>2. e.probing \/ e.openedAt = 0 \/ read[o].since + Lasts - e.openedAt < OpenFor
    BY <1>4 DEF PoolInv, ProbesKnown, Known
  <2> HIDE DEF e, f, h
  <2>3. read[o].since + Lasts - now < OpenFor
    BY <2>1, DeadlinesTyped
  <2>4. CASE h = host
    <3>1. \/ f.openedAt = 0 \/ f.openedAt = now
          \/ f.openedAt = e.openedAt /\ ~e.probing
      BY <1>1, <2>4 DEF e, f
    <3>2. f.openedAt = 0 \/ read[o].since + Lasts - f.openedAt < OpenFor
      BY <2>2, <2>3, <3>1
    <3> QED
      BY <3>2 DEF Known, f, h
  <2>5. CASE h # host
    <3>1. f = e \/ f.openedAt = 0
      BY <1>1, <1>2, <2>1, <2>5 DEF e, f
    <3>2. f.probing \/ f.openedAt = 0 \/ read[o].since + Lasts - f.openedAt < OpenFor
      BY <2>2, <3>1
    <3> QED
      BY <3>2 DEF Known, f, h
  <2> QED
    BY <2>4, <2>5
<1> QED
  BY <1>1, <1>3, <1>4

LEMMA OutcomeBetween ==
    ASSUME PoolInv, NEW r \in InFlight, NEW ix,
           Recorded(index, ix, HostOf(r), read[r].since)
    PROVE  Between(ix, r)
<1>1. /\ HostOf(r) \in Hosts /\ read[r].since \in Nat
      /\ read[r].since <= clock /\ clock <= read[r].since + Lasts
  BY PoolTyped
<1>2. /\ Typed(ix)
      /\ \A o \in InFlight : read[o].probe => Known(ix, read[o])
      /\ \A h \in Hosts : ix.of[h].probing => h # HostOf(r) /\ index.of[h].probing
  BY <1>1, OutcomeKept
<1>3. \A h \in Hosts : index.of[h].probing =>
          \E o \in InFlight : read[o].probe /\ HostOf(o) = h
  BY DEF PoolInv, ProbeHasHolder
<1> QED
  BY <1>2, <1>3 DEF Between

\* What one step may not do, apart from breaking the invariant.
StepTrue ==
    /\ \A r \in Readers :
          read'[r].pc = "proving" /\ read'[r] # read[r]
            => \/ read'[r].lastResort
               \/ State(index', Providers[read'[r].at], read'[r].since) # "open"
    /\ \A r \in InFlight :
          /\ read[r].probe
          /\ State(index, HostOf(r), clock) = "half-open"
          /\ index'.of[HostOf(r)].failures > index.of[HostOf(r)].failures
          => State(index', HostOf(r), clock) = "open"
    /\ \A h \in Hosts :
          index.of[h].openedAt # 0 /\ index'.of[h].openedAt = 0
            => RecordFailure(index', h, clock).of[h].openedAt = 0

\* An outcome of a call or of another pool, and a claim after it or none.
LEMMA OutcomeTrue ==
    ASSUME PoolInv, NEW host \in Hosts, NEW now \in Nat \ {0}, now <= clock, clock <= now + Lasts,
           NEW ix, Recorded(index, ix, host, now), Typed(index'),
           \A h \in Hosts : index'.of[h].openedAt = ix.of[h].openedAt,
           \A h \in Hosts : index'.of[h].failures = ix.of[h].failures,
           \A h \in Hosts : index'.of[h].outcomes = ix.of[h].outcomes,
           \A h \in Hosts : index'.of[h].probing => ix.of[h].probing \/ ix.of[h].openedAt # 0
    PROVE  /\ \A r \in InFlight :
                 /\ read[r].probe
                 /\ State(index, HostOf(r), clock) = "half-open"
                 /\ index'.of[HostOf(r)].failures > index.of[HostOf(r)].failures
                 => State(index', HostOf(r), clock) = "open"
           /\ \A h \in Hosts :
                 index.of[h].openedAt # 0 /\ index'.of[h].openedAt = 0
                   => RecordFailure(index', h, clock).of[h].openedAt = 0
<1>1. /\ Typed(ix) /\ ~ix.of[host].probing
      /\ ix.of[host].openedAt = 0 => index.of[host].openedAt = 0 \/ Calm(ix.of[host])
      /\ ix.of[host].failures > index.of[host].failures /\ index.of[host].probing
           => ix.of[host].openedAt = now
      /\ \A h \in Hosts \ {host} : ix.of[h] = index.of[h] \/ ix.of[h] = NoHealth
  BY DEF Recorded, OthersKept
<1>2. ASSUME NEW r \in InFlight, read[r].probe,
             State(index, HostOf(r), clock) = "half-open",
             index'.of[HostOf(r)].failures > index.of[HostOf(r)].failures
      PROVE  State(index', HostOf(r), clock) = "open"
  <2> DEFINE h == HostOf(r)
             e == index.of[h]
             f == ix.of[h]
  <2>1. /\ h \in Hosts /\ h = Providers[read[r].at]
        /\ e.failures \in Nat /\ e.openedAt \in Nat /\ clock \in Nat
        /\ read[r].since \in Nat /\ clock <= read[r].since + Lasts
    BY PoolTyped
  <2>2. e.openedAt # 0 /\ ~(clock - e.openedAt < OpenFor)
    BY <1>2 DEF State
  <2>3. e.probing \/ e.openedAt = 0 \/ read[r].since + Lasts - e.openedAt < OpenFor
    BY <1>2, <2>1 DEF PoolInv, ProbesKnown, Known
  <2>4. f.failures > e.failures
    BY <1>2, <2>1
  <2> HIDE DEF e, f, h
  <2>5. ~(read[r].since + Lasts - e.openedAt < OpenFor)
    BY <2>1, <2>2, DeadlinesTyped
  <2>6. e.probing
    BY <2>2, <2>3, <2>5
  <2>7. h = host
    <3>1. NoHealth.failures = 0
      BY DEF NoHealth
    <3>2. f # e /\ f # NoHealth
      BY <2>1, <2>4, <3>1
    <3> QED
      BY <1>1, <2>1, <3>2 DEF e, f
  <2>8. index'.of[h].openedAt = now
    BY <1>1, <2>1, <2>4, <2>6, <2>7 DEF e, f
  <2>9. now # 0 /\ clock - now < OpenFor
    BY <2>1, DeadlinesTyped
  <2> QED
    BY <2>8, <2>9 DEF State, h
<1>3. ASSUME NEW h \in Hosts, index.of[h].openedAt # 0, index'.of[h].openedAt = 0
      PROVE  RecordFailure(index', h, clock).of[h].openedAt = 0
  <2>1. ix.of[h].openedAt = 0
    BY <1>3
  <2>2. Calm(ix.of[h])
    BY <1>1, <1>3, <2>1, CalmHistories
  <2>3. Calm(index'.of[h])
    <3>1. ~ix.of[h].probing
      BY <2>2 DEF Calm
    <3>2. ~index'.of[h].probing
      BY <2>1, <3>1
    <3> QED
      BY <2>2, <3>2 DEF Calm
  <2> QED
    BY <2>3, CalmStaysClosed, PoolTyped
<1> QED
  BY <1>2, <1>3

LEMMA PoolInitially ==
    ASSUME Init PROVE PoolInv
<1>1. \A h \in Hosts : index.of[h] = NoHealth
  BY DEF Init, Empty
<1>2. Typed(index)
  BY AbsentTyped DEF Init, Empty, Typed
<1>3. NoRead \in Reads
  BY DEF NoRead, Reads
<1>4. ReadTyped
  BY <1>2, <1>3 DEF ReadTyped, Init
<1>5. InFlight = {}
  BY DEF Init, InFlight, NoRead
<1>6. ProbeHasHolder
  BY <1>1 DEF ProbeHasHolder, NoHealth
<1> QED
  BY <1>4, <1>5, <1>6 DEF PoolInv, Timely, ProbesKnown

\* A read that goes on, with the books of its last outcome settled.
LEMMA GoesOn ==
    ASSUME PoolInv, NEW r \in InFlight, NEW ix,
           Recorded(index, ix, HostOf(r), read[r].since),
           Proceed(r, ix, read[r]), clock' = clock
    PROVE  PoolInv' /\ StepTrue
<1>1. /\ r \in Readers /\ read[r] \in Reads /\ HostOf(r) \in Hosts
      /\ read[r].since \in Nat \ {0} /\ read[r].since >= 1
      /\ read[r].since <= clock /\ clock <= read[r].since + Lasts
  BY PoolTyped
<1>2. Between(ix, r)
  BY OutcomeBetween
<1>3. /\ PoolInv'
      /\ \A o \in Readers \ {r} : read'[o] = read[o]
      /\ \A h \in Hosts : index'.of[h].openedAt = ix.of[h].openedAt
      /\ \A h \in Hosts : index'.of[h].failures = ix.of[h].failures
      /\ \A h \in Hosts : index'.of[h].outcomes = ix.of[h].outcomes
      /\ \A h \in Hosts : index'.of[h].probing => ix.of[h].probing \/ ix.of[h].openedAt # 0
      /\ read'[r].pc = "proving" =>
           \/ read'[r].lastResort
           \/ State(ix, Providers[read'[r].at], read'[r].since) # "open"
  BY <1>1, <1>2, ProceedKeeps
<1>4. Typed(index')
  BY <1>3 DEF PoolInv, ReadTyped
<1>5. read'[r].pc = "proving" =>
           \/ read'[r].lastResort
           \/ State(index', Providers[read'[r].at], read'[r].since) # "open"
  <2>1. ASSUME read'[r].pc = "proving" PROVE Providers[read'[r].at] \in Hosts
    <3>1. r \in InFlight'
      BY <1>1, <2>1 DEF InFlight
    <3> QED
      BY <1>3, <3>1, ProvidersTyped DEF PoolInv, Timely
  <2> QED
    BY <1>3, <2>1 DEF State
<1>6. /\ \A o \in InFlight :
            /\ read[o].probe
            /\ State(index, HostOf(o), clock) = "half-open"
            /\ index'.of[HostOf(o)].failures > index.of[HostOf(o)].failures
            => State(index', HostOf(o), clock) = "open"
      /\ \A h \in Hosts :
            index.of[h].openedAt # 0 /\ index'.of[h].openedAt = 0
              => RecordFailure(index', h, clock).of[h].openedAt = 0
  BY <1>1, <1>3, <1>4, OutcomeTrue
<1> QED
  BY <1>3, <1>5, <1>6 DEF StepTrue

\* The fields that a step leaves alone leave the promises alone.
LEMMA SameIndexTrue ==
    ASSUME PoolInv, index' = index,
           \A r \in Readers : read'[r].pc = "proving" => read'[r] = read[r]
    PROVE  StepTrue
<1>1. \A h \in Hosts : ~(index'.of[h].failures > index.of[h].failures)
  BY PoolTyped
<1>2. \A r \in InFlight : HostOf(r) \in Hosts
  BY PoolTyped
<1> QED
  BY <1>1, <1>2 DEF StepTrue

\* What a read starts with.
LEMMA StartTyped ==
    ASSUME NEW now \in Nat
    PROVE  Start(now) \in Reads /\ Start(now).since = now
<1> DEFINE usable == {p \in DOMAIN Providers : State(index, Providers[p], now) # "open"}
           rest == IF usable = {} THEN DOMAIN Providers ELSE usable
           last == usable = {}
<1>1. rest \in SUBSET DOMAIN Providers /\ last \in BOOLEAN
  OBVIOUS
<1>2. Start(now) = [NoRead EXCEPT !.since = now, !.lastResort = last, !.rest = rest]
  BY Zenon DEF Start
<1> HIDE DEF usable, rest, last
<1>3. [NoRead EXCEPT !.since = now, !.lastResort = last, !.rest = rest] \in Reads
  BY <1>1 DEF NoRead, Reads
<1>4. [NoRead EXCEPT !.since = now, !.lastResort = last, !.rest = rest].since = now
  BY DEF NoRead
<1> QED
  BY <1>2, <1>3, <1>4, Zenon

LEMMA BeginKeeps ==
    ASSUME PoolInv, NEW r \in Readers, Begin(r)
    PROVE  PoolInv' /\ StepTrue
<1>1. PICK now \in 1 .. clock : clock <= now + Lasts /\ Proceed(r, index, Start(now))
  BY DEF Begin
<1> DEFINE q == Start(now)
<1>2. q \in Reads /\ q.since = now /\ read[r].pc = "idle" /\ clock' = clock
  BY PoolTyped, StartTyped DEF Begin
<1>0. Proceed(r, index, q)
  BY <1>1
<1> HIDE DEF q
<1>3. now >= 1 /\ now <= clock /\ clock <= now + Lasts /\ clock \in Nat /\ now \in Nat
  BY <1>1, PoolTyped, DeadlinesTyped
<1>4. Between(index, r)
  BY <1>2, IdleBetween
<1>5. /\ PoolInv'
      /\ \A o \in Readers \ {r} : read'[o] = read[o]
      /\ \A h \in Hosts : index'.of[h].openedAt = index.of[h].openedAt
      /\ \A h \in Hosts : index'.of[h].failures = index.of[h].failures
      /\ read'[r].pc = "proving" =>
           \/ read'[r].lastResort
           \/ State(index, Providers[read'[r].at], read'[r].since) # "open"
  BY <1>0, <1>2, <1>3, <1>4, ProceedKeeps
<1>6. read'[r].pc = "proving" =>
           \/ read'[r].lastResort
           \/ State(index', Providers[read'[r].at], read'[r].since) # "open"
  <2>1. ASSUME read'[r].pc = "proving" PROVE Providers[read'[r].at] \in Hosts
    <3>1. r \in InFlight'
      BY <2>1 DEF InFlight
    <3> QED
      BY <1>5, <3>1, ProvidersTyped DEF PoolInv, Timely
  <2> QED
    BY <1>5, <2>1 DEF State
<1>7. \A h \in Hosts : ~(index'.of[h].failures > index.of[h].failures)
  BY <1>5, PoolTyped
<1>8. \A o \in InFlight : HostOf(o) \in Hosts
  BY PoolTyped
<1> QED
  BY <1>5, <1>6, <1>7, <1>8 DEF StepTrue

LEMMA ChainMatchesKeeps ==
    ASSUME PoolInv, NEW r \in Readers, ChainMatches(r)
    PROVE  PoolInv' /\ StepTrue
<1>1. /\ r \in InFlight /\ read[r] \in Reads
      /\ index' = index /\ clock' = clock
      /\ read' = [read EXCEPT ![r].pc = "reading"]
  BY PoolTyped DEF ChainMatches, InFlight
<1>2. /\ read' \in [Readers -> Reads] /\ read'[r].pc = "reading"
      /\ \A o \in Readers : /\ read'[o].at = read[o].at /\ read'[o].since = read[o].since
                            /\ read'[o].probe = read[o].probe
                            /\ o # r => read'[o] = read[o]
  <2> DEFINE q == [read[r] EXCEPT !.pc = "reading"]
  <2>1. /\ q \in Reads /\ q.pc = "reading" /\ q.at = read[r].at
        /\ q.since = read[r].since /\ q.probe = read[r].probe
    BY <1>1 DEF Reads
  <2>2. read' = [read EXCEPT ![r] = q]
    BY <1>1
  <2> HIDE DEF q
  <2> QED
    BY <2>1, <2>2, PoolTyped
<1>3. InFlight' = InFlight
  <2>1. \A o \in Readers : read'[o].pc # "idle" <=> read[o].pc # "idle"
    BY <1>1, <1>2 DEF InFlight
  <2> QED
    BY <2>1 DEF InFlight
<1>4. \A o \in InFlight : /\ read'[o].at = read[o].at /\ read'[o].since = read[o].since
                          /\ read'[o].probe = read[o].probe
  BY <1>2, PoolTyped
<1>5. ReadTyped' /\ Timely'
  BY <1>1, <1>2, <1>3, <1>4 DEF PoolInv, ReadTyped, Typed, Timely
<1>6. ProbeHasHolder' /\ ProbesKnown'
  <2>1. ProbeHasHolder'
    BY <1>1, <1>3, <1>4 DEF PoolInv, ProbeHasHolder, HostOf
  <2>2. ProbesKnown'
    BY <1>1, <1>3, <1>4 DEF PoolInv, ProbesKnown, Known
  <2> QED
    BY <2>1, <2>2
<1>7. StepTrue
  BY <1>1, <1>2, SameIndexTrue
<1> QED
  BY <1>5, <1>6, <1>7 DEF PoolInv

LEMMA ChainDiffersKeeps ==
    ASSUME PoolInv, NEW r \in Readers, ChainDiffers(r)
    PROVE  PoolInv' /\ StepTrue
<1>1. r \in InFlight /\ clock' = clock
      /\ Proceed(r, Open(index, HostOf(r), read[r].since), read[r])
  BY DEF ChainDiffers, InFlight
<1>2. HostOf(r) \in Hosts /\ read[r].since \in Nat \ {0} /\ Typed(index)
  BY <1>1, PoolTyped
<1> QED
  BY <1>1, <1>2, OutcomesRecorded, GoesOn

LEMMA CallFailsKeeps ==
    ASSUME PoolInv, NEW r \in Readers, CallFails(r)
    PROVE  PoolInv' /\ StepTrue
<1>1. r \in InFlight /\ clock' = clock
      /\ Proceed(r, RecordFailure(index, HostOf(r), read[r].since), read[r])
  BY DEF CallFails, InFlight
<1>2. HostOf(r) \in Hosts /\ read[r].since \in Nat \ {0} /\ Typed(index)
  BY <1>1, PoolTyped
<1> QED
  BY <1>1, <1>2, OutcomesRecorded, GoesOn

LEMMA BalanceReadsKeeps ==
    ASSUME PoolInv, NEW r \in Readers, BalanceReads(r)
    PROVE  PoolInv' /\ StepTrue
<1>1. /\ r \in InFlight /\ clock' = clock
      /\ index' = RecordSuccess(index, HostOf(r), read[r].since)
      /\ read' = [read EXCEPT ![r] = NoRead]
  BY DEF BalanceReads, InFlight
<1>2. /\ HostOf(r) \in Hosts /\ read[r].since \in Nat \ {0} /\ Typed(index)
      /\ read[r].since <= clock /\ clock <= read[r].since + Lasts
  BY <1>1, PoolTyped
<1>3. Recorded(index, index', HostOf(r), read[r].since)
  BY <1>1, <1>2, OutcomesRecorded
<1>4. Between(index', r)
  BY <1>1, <1>3, OutcomeBetween
<1>5. NoRead \in Reads /\ NoRead.pc = "idle"
  BY DEF NoRead, Reads
<1>6. /\ read' \in [Readers -> Reads] /\ read'[r].pc = "idle"
      /\ \A o \in Readers \ {r} : read'[o] = read[o]
  BY <1>1, <1>5, PoolTyped
<1>7. InFlight' = InFlight \ {r} /\ \A o \in InFlight' : read'[o] = read[o]
  BY <1>6 DEF InFlight
<1>8. ReadTyped' /\ Timely'
  BY <1>1, <1>4, <1>6, <1>7 DEF PoolInv, ReadTyped, Timely, Between, Typed
<1>9. ProbeHasHolder' /\ ProbesKnown'
  <2>1. /\ \A h \in Hosts : index'.of[h].probing =>
              \E o \in InFlight' : read[o].probe /\ HostOf(o) = h
        /\ \A o \in InFlight' : read[o].probe => Known(index', read[o])
    BY <1>4, <1>7 DEF Between
  <2> QED
    BY <1>7, <2>1 DEF ProbeHasHolder, ProbesKnown, HostOf
<1>10. StepTrue
  <2>1. Typed(index')
    BY <1>4 DEF Between
  <2>2. /\ \A o \in InFlight :
              /\ read[o].probe
              /\ State(index, HostOf(o), clock) = "half-open"
              /\ index'.of[HostOf(o)].failures > index.of[HostOf(o)].failures
              => State(index', HostOf(o), clock) = "open"
        /\ \A h \in Hosts :
              index.of[h].openedAt # 0 /\ index'.of[h].openedAt = 0
                => RecordFailure(index', h, clock).of[h].openedAt = 0
    BY <1>2, <1>3, <2>1, OutcomeTrue
  <2>3. \A o \in Readers : read'[o].pc = "proving" => read'[o] = read[o]
    BY <1>6
  <2> QED
    BY <2>2, <2>3 DEF StepTrue
<1> QED
  BY <1>8, <1>9, <1>10 DEF PoolInv

LEMMA OtherPoolRecordsKeeps ==
    ASSUME PoolInv, OtherPoolRecords
    PROVE  PoolInv' /\ StepTrue
<1>1. PICK h \in OtherHosts : \/ index' = RecordSuccess(index, h, clock)
                              \/ index' = RecordFailure(index, h, clock)
  BY DEF OtherPoolRecords
<1>2. clock' = clock /\ read' = read
  BY DEF OtherPoolRecords
<1>3. h \in Hosts /\ clock \in Nat \ {0} /\ Typed(index) /\ clock <= clock + Lasts /\ clock <= clock
  BY PoolTyped, ProvidersAssumption, DeadlinesTyped
<1>4. Recorded(index, index', h, clock)
  BY <1>1, <1>3, OutcomesRecorded
<1>5. /\ Typed(index')
      /\ \A o \in InFlight : read[o].probe => Known(index', read[o])
      /\ \A g \in Hosts : index'.of[g].probing => g # h /\ index.of[g].probing
  BY <1>3, <1>4, OutcomeKept
<1>6. InFlight' = InFlight
  BY <1>2 DEF InFlight
<1>7. ReadTyped' /\ Timely' /\ ProbesKnown'
  BY <1>2, <1>5, <1>6 DEF PoolInv, ReadTyped, Typed, Timely, ProbesKnown
<1>8. ProbeHasHolder'
  BY <1>2, <1>5, <1>6 DEF PoolInv, ProbeHasHolder, HostOf
<1>9. StepTrue
  <2>1. /\ \A o \in InFlight :
              /\ read[o].probe
              /\ State(index, HostOf(o), clock) = "half-open"
              /\ index'.of[HostOf(o)].failures > index.of[HostOf(o)].failures
              => State(index', HostOf(o), clock) = "open"
        /\ \A g \in Hosts :
              index.of[g].openedAt # 0 /\ index'.of[g].openedAt = 0
                => RecordFailure(index', g, clock).of[g].openedAt = 0
    BY <1>3, <1>4, <1>5, OutcomeTrue
  <2> QED
    BY <1>2, <2>1 DEF StepTrue
<1> QED
  BY <1>7, <1>8, <1>9 DEF PoolInv

LEMMA ResetHealthKeeps ==
    ASSUME PoolInv, ResetHealth
    PROVE  PoolInv' /\ StepTrue
<1>1. clock' = clock /\ read' = read /\ InFlight' = InFlight
  BY DEF ResetHealth, InFlight
<1>2. /\ Typed(index')
      /\ \A h \in Hosts : index'.of[h] = index.of[h] \/ index'.of[h] = NoHealth
  <2>1. CASE index' = Empty
    BY <2>1, AbsentTyped DEF Empty, Typed
  <2>2. CASE index' = Without(index, ToSet(Providers))
    BY <2>2, AbsentTyped, PoolTyped DEF Without, Typed
  <2> QED
    BY <2>1, <2>2 DEF ResetHealth
<1>3. ~NoHealth.probing /\ NoHealth.openedAt = 0 /\ NoHealth.failures = 0
  BY DEF NoHealth
<1>4. \A h \in Hosts : index'.of[h].probing => index.of[h].probing
  BY <1>2, <1>3
<1>5. ReadTyped' /\ Timely'
  BY <1>1, <1>2 DEF PoolInv, ReadTyped, Typed, Timely
<1>6. ProbeHasHolder'
  BY <1>1, <1>4 DEF PoolInv, ProbeHasHolder, HostOf
<1>7. ProbesKnown'
  <2> SUFFICES ASSUME NEW o \in InFlight, read[o].probe
               PROVE  Known(index', read[o])
    BY <1>1 DEF ProbesKnown
  <2>1. Known(index, read[o])
    BY DEF PoolInv, ProbesKnown
  <2>2. Providers[read[o].at] \in Hosts
    BY PoolTyped
  <2> QED
    BY <1>2, <1>3, <2>1, <2>2 DEF Known
<1>8. StepTrue
  <2>1. \A h \in Hosts : ~(index'.of[h].failures > index.of[h].failures)
    BY <1>2, <1>3, PoolTyped
  <2>2. \A r \in InFlight : HostOf(r) \in Hosts
    BY PoolTyped
  <2>3. \A h \in Hosts :
            index.of[h].openedAt # 0 /\ index'.of[h].openedAt = 0
              => RecordFailure(index', h, clock).of[h].openedAt = 0
    <3> SUFFICES ASSUME NEW h \in Hosts, index.of[h].openedAt # 0, index'.of[h].openedAt = 0
                 PROVE  RecordFailure(index', h, clock).of[h].openedAt = 0
      OBVIOUS
    <3>1. Calm(index'.of[h])
      BY <1>2, CalmHistories
    <3> QED
      BY <1>2, <3>1, CalmStaysClosed, PoolTyped
  <2> QED
    BY <1>1, <2>1, <2>2, <2>3 DEF StepTrue
<1> QED
  BY <1>5, <1>6, <1>7, <1>8 DEF PoolInv

LEMMA TickKeeps ==
    ASSUME PoolInv, Tick
    PROVE  PoolInv' /\ StepTrue
<1>1. /\ clock' = clock + 1 /\ index' = index /\ read' = read
      /\ \A r \in InFlight : clock < read[r].since + Lasts
  BY DEF Tick
<1>2. InFlight' = InFlight
  BY <1>1 DEF InFlight
<1>3. ReadTyped'
  BY <1>1 DEF PoolInv, ReadTyped, Typed
<1>4. Timely'
  <2> SUFFICES ASSUME NEW r \in InFlight
               PROVE  /\ read[r].at \in DOMAIN Providers
                      /\ read[r].since >= 1 /\ read[r].since <= clock + 1
                      /\ clock + 1 <= read[r].since + Lasts
    BY <1>1, <1>2 DEF Timely
  <2>1. clock < read[r].since + Lasts
    BY <1>1
  <2> QED
    BY <2>1, PoolTyped, DeadlinesTyped
<1>5. ProbeHasHolder' /\ ProbesKnown'
  BY <1>1, <1>2 DEF PoolInv, ProbeHasHolder, ProbesKnown, HostOf
<1>6. StepTrue
  BY <1>1, SameIndexTrue
<1> QED
  BY <1>3, <1>4, <1>5, <1>6 DEF PoolInv

LEMMA PoolStep ==
    ASSUME PoolInv, [Next]_vars
    PROVE  PoolInv' /\ (StepTrue \/ UNCHANGED vars)
<1>1. ASSUME NEW r \in Readers,
             Begin(r) \/ ChainMatches(r) \/ ChainDiffers(r) \/ BalanceReads(r) \/ CallFails(r)
      PROVE  PoolInv' /\ StepTrue
  BY <1>1, BeginKeeps, ChainMatchesKeeps, ChainDiffersKeeps, BalanceReadsKeeps, CallFailsKeeps
<1>2. CASE OtherPoolRecords \/ ResetHealth \/ Tick
  BY <1>2, OtherPoolRecordsKeeps, ResetHealthKeeps, TickKeeps
<1>3. CASE UNCHANGED vars
  BY <1>3 DEF vars, PoolInv, ReadTyped, Typed, Timely, ProbeHasHolder, ProbesKnown, InFlight, HostOf
<1> QED
  BY <1>1, <1>2, <1>3 DEF Next

LEMMA PoolInvHolds == Spec => []PoolInv
<1>1. PoolInv /\ [Next]_vars => PoolInv'
  BY PoolStep
<1> QED
  BY <1>1, PoolInitially, PTL DEF Spec

\* The one probe of a half-open circuit is held by a read that is in flight
\* (rpc.ts, readBalance; health.ts, admit): it is never lost, or the endpoint
\* would be refused to every later read.
THEOREM ProbeAlwaysHasHolder == Spec => []ProbeHasHolder
<1>1. PoolInv => ProbeHasHolder
  BY DEF PoolInv
<1> QED
  BY <1>1, PoolInvHolds, PTL

\* No read takes up an endpoint whose circuit is open at the time it was given,
\* unless every one was (rpc.ts, the admission inside the loop).  The eth_call
\* that follows a matching chain id is admitted by that one look.
THEOREM OpenTakesLastResort == Spec => OpenNeedsLastResort
<1>1. PoolInv /\ [Next]_vars =>
        [\A r \in Readers :
            read'[r].pc = "proving" /\ read'[r] # read[r]
              => \/ read'[r].lastResort
                 \/ State(index', Providers[read'[r].at], read'[r].since) # "open"]_vars
  BY PoolStep DEF StepTrue
<1> QED
  BY <1>1, PoolInvHolds, PTL DEF Spec, OpenNeedsLastResort

\* A probe that fails opens its circuit again at once (health.ts,
\* recordFailure), whichever reads answered meanwhile.
THEOREM FailedProbeAlwaysReopens == Spec => FailedProbeReopens
<1>1. PoolInv /\ [Next]_vars =>
        [\A r \in InFlight :
            /\ read[r].probe
            /\ State(index, HostOf(r), clock) = "half-open"
            /\ index'.of[HostOf(r)].failures > index.of[HostOf(r)].failures
            => State(index', HostOf(r), clock) = "open"]_vars
  BY PoolStep DEF StepTrue
<1> QED
  BY <1>1, PoolInvHolds, PTL DEF Spec, FailedProbeReopens

\* A circuit that closed is not one failure away from opening (health.ts,
\* recordSuccess forgets the history; an entry dropped has none).
THEOREM AlwaysRecoversForGood == Spec => RecoversForGood
<1>1. PoolInv /\ [Next]_vars =>
        [\A h \in Hosts :
            index.of[h].openedAt # 0 /\ index'.of[h].openedAt = 0
              => RecordFailure(index', h, clock).of[h].openedAt = 0]_vars
  BY PoolStep DEF StepTrue
<1> QED
  BY <1>1, PoolInvHolds, PTL DEF Spec, RecoversForGood

-------------------------------------------------------------------------------
(* The recency order and the cap, which decide what is dropped.            *)

\* A history is no longer than its window; an entry has been used.
Sound(e) == Len(e.outcomes) <= FailureWindow /\ (e = NoHealth \/ e.lastUsed \in Nat)

Bounded(ix) ==
    /\ Typed(ix) /\ InOrder(ix) /\ \A h \in Hosts : Sound(ix.of[h])
    /\ IsFiniteSet(Tracked(ix)) /\ Cardinality(Tracked(ix)) <= MaxEndpoints

LEMMA AbsentSound == Sound(NoHealth) /\ NoHealth.outcomes = <<>> /\ Blank.outcomes = <<>>
<1>1. NoHealth.outcomes = <<>> /\ Blank.outcomes = NoHealth.outcomes
  BY AbsentTyped DEF NoHealth, Alike
<1>2. Len(<<>>) = 0 /\ FailureWindow \in Nat
  BY ThresholdsAssumption
<1> QED
  BY <1>1, <1>2 DEF Sound

\* A use puts its host at the end of the order, new to it or not.
LEMMA TouchOrders ==
    ASSUME NEW ix, InOrder(ix), NEW host \in Hosts, NEW now \in Nat,
           NEW iz, Typed(iz), iz.older = ix.older,
           Tracked(iz) \cup {host} = Tracked(ix) \cup {host}
    PROVE  LET iy == Touch(iz, host, now)
           IN /\ Typed(iy) /\ InOrder(iy)
              /\ Tracked(iy) = Tracked(ix) \cup {host}
              /\ iy.older[host] = Tracked(ix) \ {host}
              /\ iy.of[host].lastUsed = now /\ iy.of[host].outcomes = iz.of[host].outcomes
              /\ \A h \in Hosts \ {host} : iy.of[h] = iz.of[h]
<1> DEFINE iy == Touch(iz, host, now)
<1>1. /\ iy = [of |-> iy.of, older |-> iy.older]
      /\ iy.of = [iz.of EXCEPT ![host].lastUsed = now]
      /\ iy.older = [h \in Hosts |-> IF h = host THEN Tracked(iz) \ {host}
                                     ELSE ix.older[h] \ {host}]
  BY DEF Touch
<1> HIDE DEF iy
<1>2. /\ iz.of[host] \in Health /\ iz.of \in [Hosts -> Health]
      /\ [iz.of[host] EXCEPT !.lastUsed = now] \in Health
      /\ [iz.of[host] EXCEPT !.lastUsed = now].lastUsed = now
      /\ [iz.of[host] EXCEPT !.lastUsed = now].outcomes = iz.of[host].outcomes
  BY EntryWith DEF Typed, Health, Alike
<1>3. /\ iy.of[host] = [iz.of[host] EXCEPT !.lastUsed = now]
      /\ \A h \in Hosts \ {host} : iy.of[h] = iz.of[h]
      /\ iy.of \in [Hosts -> Health]
  BY <1>1, <1>2
<1>4. iy.of[host] # NoHealth
  BY <1>2, <1>3 DEF NoHealth
<1>5. Tracked(iy) = Tracked(ix) \cup {host}
  BY <1>3, <1>4 DEF Tracked
<1>6. /\ iy.older[host] = Tracked(ix) \ {host}
      /\ \A h \in Hosts \ {host} : iy.older[h] = ix.older[h] \ {host}
  BY <1>1
<1>7. InOrder(iy)
  <2>1. \A h \in Hosts : iy.older[h] \subseteq Tracked(iy) \ {h}
    BY <1>5, <1>6 DEF InOrder
  <2>2. ASSUME NEW g \in Tracked(iy), NEW h \in Tracked(iy), g # h
        PROVE  g \in iy.older[h] \/ h \in iy.older[g]
    <3>1. g \in Hosts /\ h \in Hosts
      BY DEF Tracked
    <3> QED
      BY <1>5, <1>6, <2>2, <3>1 DEF InOrder
  <2>3. ASSUME NEW h \in Hosts, NEW g \in iy.older[h]
        PROVE  iy.older[g] \subseteq iy.older[h]
    <3>1. g # host /\ g \in Tracked(ix) /\ g \in Hosts
      BY <1>6, <2>3 DEF InOrder, Tracked
    <3>2. CASE h = host
      BY <1>6, <3>1, <3>2 DEF InOrder
    <3>3. CASE h # host
      BY <1>6, <2>3, <3>1, <3>3 DEF InOrder
    <3> QED
      BY <3>2, <3>3
  <2> QED
    BY <2>1, <2>2, <2>3 DEF InOrder
<1> QED
  BY <1>1, <1>2, <1>3, <1>5, <1>6, <1>7 DEF Typed, iy

\* What is forgotten leaves the order of the others.
LEMMA WithoutOrders ==
    ASSUME NEW ix, Typed(ix), InOrder(ix), NEW gone
    PROVE  LET iy == Without(ix, gone)
           IN /\ Typed(iy) /\ InOrder(iy)
              /\ Tracked(iy) = Tracked(ix) \ gone
              /\ \A h \in gone \cap Hosts : iy.of[h] = NoHealth
              /\ \A h \in Hosts \ gone : iy.of[h] = ix.of[h] /\ iy.older[h] = ix.older[h] \ gone
<1> DEFINE iy == Without(ix, gone)
<1>1. /\ iy = [of |-> iy.of, older |-> iy.older]
      /\ iy.of = [h \in Hosts |-> IF h \in gone THEN NoHealth ELSE ix.of[h]]
      /\ iy.older = [h \in Hosts |-> IF h \in gone THEN {} ELSE ix.older[h] \ gone]
  BY DEF Without
<1> HIDE DEF iy
<1>2. Typed(iy)
  BY <1>1, AbsentTyped DEF Typed
<1>3. Tracked(iy) = Tracked(ix) \ gone
  BY <1>1 DEF Tracked
<1>4. InOrder(iy)
  <2>1. \A h \in Hosts : iy.older[h] \subseteq Tracked(iy) \ {h}
    BY <1>1, <1>3 DEF InOrder
  <2>2. ASSUME NEW g \in Tracked(iy), NEW h \in Tracked(iy), g # h
        PROVE  g \in iy.older[h] \/ h \in iy.older[g]
    BY <1>1, <1>3, <2>2 DEF InOrder, Tracked
  <2>3. ASSUME NEW h \in Hosts, NEW g \in iy.older[h]
        PROVE  iy.older[g] \subseteq iy.older[h]
    <3>1. h \notin gone /\ g \in ix.older[h] /\ g \notin gone /\ g \in Hosts
      BY <1>1, <2>3 DEF InOrder, Tracked
    <3> QED
      BY <1>1, <3>1 DEF InOrder
  <2> QED
    BY <2>1, <2>2, <2>3 DEF InOrder
<1> QED
  BY <1>1, <1>2, <1>3, <1>4 DEF iy

\* Some host is the oldest.
LEMMA OldestIs ==
    ASSUME NEW ix, InOrder(ix), IsFiniteSet(Tracked(ix)), Tracked(ix) # {}
    PROVE  \E h \in Tracked(ix) : ix.older[h] = {}
<1> DEFINE sizes == { Cardinality(ix.older[h]) : h \in Tracked(ix) }
<1>1. \A h \in Tracked(ix) : IsFiniteSet(ix.older[h]) /\ Cardinality(ix.older[h]) \in Nat
  <2> TAKE h \in Tracked(ix)
  <2>1. ix.older[h] \in SUBSET Tracked(ix)
    BY DEF InOrder, Tracked
  <2> QED
    BY <2>1, FS_Subset, FS_CardinalityType
<1>2. sizes \subseteq Nat /\ sizes # {}
  BY <1>1
<1> HIDE DEF sizes
<1>3. Min(sizes) \in sizes /\ \A n \in sizes : Min(sizes) <= n
  BY <1>2, MinIsLeast
<1>4. PICK h \in Tracked(ix) : \A g \in Tracked(ix) :
          Cardinality(ix.older[h]) <= Cardinality(ix.older[g])
  BY <1>3 DEF sizes
<1>5. ASSUME NEW g \in ix.older[h]
      PROVE  FALSE
  <2>1. /\ h \in Hosts /\ g \in Tracked(ix) /\ g \in Hosts
        /\ ix.older[g] \subseteq ix.older[h] /\ g \notin ix.older[g]
    BY <1>5 DEF InOrder, Tracked
  <2>2. /\ Cardinality(ix.older[g]) <= Cardinality(ix.older[h])
        /\ Cardinality(ix.older[h]) = Cardinality(ix.older[g]) => ix.older[h] = ix.older[g]
    BY <1>1, <2>1, FS_Subset
  <2>3. Cardinality(ix.older[h]) <= Cardinality(ix.older[g])
    BY <1>4, <2>1
  <2>4. Cardinality(ix.older[h]) = Cardinality(ix.older[g])
    BY <1>1, <2>1, <2>2, <2>3
  <2> QED
    BY <1>5, <2>1, <2>2, <2>4
<1> QED
  BY <1>5

\* Room is made for the host used last: what goes was idle, or one too many.
LEMMA EvictEffect ==
    ASSUME NEW it, Typed(it), InOrder(it), IsFiniteSet(Tracked(it)),
           Cardinality(Tracked(it)) <= MaxEndpoints + 1, NEW now \in Nat,
           NEW host \in Tracked(it), it.older[host] = Tracked(it) \ {host},
           it.of[host].lastUsed = now, \A h \in Hosts : Sound(it.of[h])
    PROVE  LET iy == Evict(it, now)
           IN /\ Bounded(iy)
              /\ host \in Tracked(iy) /\ Tracked(iy) \subseteq Tracked(it)
              /\ \A h \in Tracked(iy) : iy.of[h] = it.of[h]
              /\ \A h \in Tracked(it) \ Tracked(iy) :
                    \/ now - it.of[h].lastUsed >= IdleFor
                    \/ Cardinality(Tracked(iy)) = MaxEndpoints
<1> DEFINE all  == Tracked(it)
           idle == IdlePrefix(it, now)
           old  == Oldest(it, Excess(it))
           gone == idle \cup old
           iy   == Without(it, gone)
<1>1. iy = Evict(it, now)
  BY DEF Evict
<1>2. /\ MaxEndpoints \in Nat /\ MaxEndpoints >= 1 /\ IdleFor \in Nat /\ IdleFor > 0
      /\ Cardinality(all) \in Nat
  BY ThresholdsAssumption, FS_CardinalityType
<1>3. \A h \in all : /\ IsFiniteSet(it.older[h]) /\ Cardinality(it.older[h]) \in Nat
                      /\ h \in Hosts /\ it.of[h].lastUsed \in Int
  <2> TAKE h \in all
  <2>1. h \in Hosts /\ it.older[h] \in SUBSET all
    BY DEF InOrder, Tracked
  <2> QED
    BY <2>1, FS_Subset, FS_CardinalityType, EntryWith DEF Typed
<1>4. idle \subseteq all /\ old \subseteq all
  BY DEF IdlePrefix, Oldest
<1>5. \A h \in idle : now - it.of[h].lastUsed >= IdleFor
  BY DEF IdlePrefix
<1>6. \A h \in all : h \in old <=> Cardinality(it.older[h]) < Cardinality(all) - MaxEndpoints
  BY DEF Oldest, Excess
<1>7. host \notin gone
  <2>1. host \notin idle
    BY <1>2, <1>5
  <2>2. Cardinality(it.older[host]) = Cardinality(all) - 1
    BY FS_RemoveElement
  <2>3. host \notin old
    <3>1. host \in all
      OBVIOUS
    <3> HIDE DEF old, all
    <3> DEFINE n == Cardinality(all)
    <3>2. n \in Nat /\ MaxEndpoints \in Nat /\ MaxEndpoints >= 1
      BY <1>2
    <3>3. host \in old <=> n - 1 < n - MaxEndpoints
      BY <1>6, <2>2, <3>1
    <3> HIDE DEF n
    <3> QED
      BY <3>2, <3>3
  <2> QED
    BY <2>1, <2>3
<1>8. /\ Typed(iy) /\ InOrder(iy) /\ Tracked(iy) = all \ gone
      /\ \A h \in gone \cap Hosts : iy.of[h] = NoHealth
      /\ \A h \in Hosts \ gone : iy.of[h] = it.of[h]
  BY WithoutOrders
<1>9. /\ IsFiniteSet(all \ gone) /\ Cardinality(all \ gone) \in Nat
      /\ Cardinality(all \ gone) <= Cardinality(all)
  BY FS_Subset, FS_CardinalityType
<1>10. /\ Cardinality(all \ gone) <= MaxEndpoints
       /\ \A h \in gone : \/ now - it.of[h].lastUsed >= IdleFor
                          \/ Cardinality(all \ gone) = MaxEndpoints
  <2>1. CASE Cardinality(all) <= MaxEndpoints
    <3>1. old = {}
      <4>1. \A h \in all : h \notin old
        <5> HIDE DEF old, all
        <5> QED
          BY <1>2, <1>3, <1>6, <2>1
      <4> QED
        BY <1>4, <4>1
    <3> HIDE DEF idle, old, all
    <3> QED
      BY <1>2, <1>5, <1>9, <2>1, <3>1
  <2>2. CASE Cardinality(all) = MaxEndpoints + 1
    <3>1. PICK o \in all : it.older[o] = {}
      BY OldestIs
    <3>2. \A h \in all \ {o} : o \in it.older[h]
      BY <3>1 DEF InOrder
    <3>3. \A h \in all : Cardinality(it.older[h]) < 1 <=> h = o
      BY <1>3, <3>1, <3>2, FS_EmptySet
    <3>4. old = {o}
      <4>1. \A h \in all : h \in old <=> h = o
        <5> HIDE DEF old, all
        <5> QED
          BY <1>2, <1>6, <2>2, <3>3
      <4> HIDE DEF old, all
      <4> QED
        BY <1>4, <4>1
    <3>5. Cardinality(all \ {o}) = MaxEndpoints
      <4>1. Cardinality(all \ {o}) = Cardinality(all) - 1
        BY FS_RemoveElement
      <4> HIDE DEF all
      <4> QED
        BY <1>2, <2>2, <4>1
    <3>6. CASE now - it.of[o].lastUsed >= IdleFor
      <4>1. \A h \in gone : now - it.of[h].lastUsed >= IdleFor
        BY <1>5, <3>4, <3>6
      <4>2. all \ gone \in SUBSET (all \ {o}) /\ IsFiniteSet(all \ {o})
        BY <3>4, FS_RemoveElement
      <4>3. Cardinality(all \ gone) <= Cardinality(all \ {o})
        BY <4>2, FS_Subset
      <4> HIDE DEF gone, all
      <4> QED
        BY <3>5, <4>1, <4>3
    <3>7. CASE ~(now - it.of[o].lastUsed >= IdleFor)
      <4>1. idle = {}
        BY <3>2, <3>7 DEF IdlePrefix
      <4>2. gone = {o}
        BY <3>4, <4>1
      <4>3. Cardinality(all \ gone) = MaxEndpoints
        BY <3>5, <4>2
      <4> DEFINE left == Cardinality(all \ gone)
      <4>4. left = MaxEndpoints
        BY <4>3
      <4> HIDE DEF left
      <4>5. left <= MaxEndpoints
        BY <1>2, <4>4
      <4> QED
        BY <4>4, <4>5 DEF left
    <3> QED
      BY <3>6, <3>7
  <2> DEFINE n == Cardinality(all)
  <2>3. n \in Nat /\ MaxEndpoints \in Nat /\ n <= MaxEndpoints + 1
    BY <1>2
  <2> HIDE DEF n
  <2>4. n <= MaxEndpoints \/ n = MaxEndpoints + 1
    BY <2>3
  <2> QED
    BY <2>1, <2>2, <2>4 DEF n
<1>11. \A h \in Tracked(iy) : h \in Hosts \ gone
  BY <1>3, <1>8
<1> HIDE DEF idle, old, gone, iy
<1>12. Bounded(iy)
  <2>1. \A h \in Hosts : Sound(iy.of[h])
    BY <1>8, AbsentSound
  <2> QED
    BY <1>8, <1>9, <1>10, <2>1 DEF Bounded
<1> QED
  BY <1>1, <1>7, <1>8, <1>10, <1>11, <1>12

\* Forgetting hosts leaves the index within its bound.
LEMMA WithoutBounded ==
    ASSUME NEW ix, Bounded(ix), NEW gone
    PROVE  Bounded(Without(ix, gone)) /\ Tracked(Without(ix, gone)) \subseteq Tracked(ix)
<1> DEFINE iy == Without(ix, gone)
<1>1. /\ Typed(iy) /\ InOrder(iy) /\ Tracked(iy) = Tracked(ix) \ gone
      /\ \A h \in gone \cap Hosts : iy.of[h] = NoHealth
      /\ \A h \in Hosts \ gone : iy.of[h] = ix.of[h]
  BY WithoutOrders DEF Bounded
<1> HIDE DEF iy
<1>2. /\ IsFiniteSet(Tracked(ix) \ gone)
      /\ Cardinality(Tracked(ix) \ gone) <= Cardinality(Tracked(ix))
      /\ Cardinality(Tracked(ix) \ gone) \in Nat /\ Cardinality(Tracked(ix)) \in Nat
      /\ MaxEndpoints \in Nat
  BY FS_Subset, FS_CardinalityType, ThresholdsAssumption DEF Bounded
<1>3. Cardinality(Tracked(iy)) <= MaxEndpoints
  BY <1>1, <1>2 DEF Bounded
<1>4. \A h \in Hosts : Sound(iy.of[h])
  BY <1>1, AbsentSound DEF Bounded
<1> QED
  BY <1>1, <1>2, <1>3, <1>4 DEF Bounded, iy

LEMMA EmptyBounded == Bounded(Empty) /\ Tracked(Empty) = {}
<1>1. Empty.of = [h \in Hosts |-> NoHealth] /\ Empty.older = [h \in Hosts |-> {}]
      /\ Empty = [of |-> Empty.of, older |-> Empty.older]
  BY DEF Empty
<1>2. Tracked(Empty) = {}
  BY <1>1 DEF Tracked
<1>3. Typed(Empty) /\ InOrder(Empty)
  BY <1>1, <1>2, AbsentTyped DEF Typed, InOrder
<1>4. IsFiniteSet(Tracked(Empty)) /\ Cardinality(Tracked(Empty)) <= MaxEndpoints
  BY <1>2, FS_EmptySet, ThresholdsAssumption
<1> QED
  BY <1>1, <1>2, <1>3, <1>4, AbsentSound DEF Bounded

\* From ix to iy, with a use of host, other hosts are dropped for cause only.
ForCause(ix, iy, host, now) ==
    /\ Bounded(iy) /\ host \in Tracked(iy)
    /\ \A h \in Tracked(ix) \ Tracked(iy) :
          \/ now - ix.of[h].lastUsed >= IdleFor
          \/ Cardinality(Tracked(iy)) = MaxEndpoints

LEMMA EnsureForCause ==
    ASSUME NEW ix, Bounded(ix), NEW host \in Hosts, NEW now \in Nat
    PROVE  LET iy == Ensure(ix, host, now)
           IN ForCause(ix, iy, host, now) /\ iy.of[host].lastUsed = now
<1>1. /\ Typed(ix) /\ InOrder(ix) /\ IsFiniteSet(Tracked(ix))
      /\ Cardinality(Tracked(ix)) <= MaxEndpoints /\ \A h \in Hosts : Sound(ix.of[h])
  BY DEF Bounded
<1>2. CASE ix.of[host] # NoHealth
  <2> DEFINE iy == Touch(ix, host, now)
  <2>1. host \in Tracked(ix) /\ Ensure(ix, host, now) = iy
    BY <1>2 DEF Tracked, Ensure
  <2>2. /\ Typed(iy) /\ InOrder(iy) /\ Tracked(iy) = Tracked(ix) \cup {host}
        /\ iy.of[host].lastUsed = now /\ iy.of[host].outcomes = ix.of[host].outcomes
        /\ \A h \in Hosts \ {host} : iy.of[h] = ix.of[h]
    BY <1>1, TouchOrders
  <2> HIDE DEF iy
  <2>3. Tracked(iy) = Tracked(ix)
    BY <2>1, <2>2
  <2>4. Bounded(iy)
    <3>1. \A h \in Hosts : Sound(iy.of[h])
      BY <1>1, <2>2 DEF Sound
    <3> QED
      BY <1>1, <2>2, <2>3, <3>1 DEF Bounded
  <2> QED
    BY <2>1, <2>2, <2>3, <2>4 DEF ForCause
<1>3. CASE ix.of[host] = NoHealth
  <2> DEFINE iz == [ix EXCEPT !.of[host] = Blank]
             it == Touch(iz, host, now)
             iy == Evict(it, now)
  <2>1. Ensure(ix, host, now) = iy /\ host \notin Tracked(ix)
    BY <1>3 DEF Ensure, Tracked
  <2>2. /\ Typed(iz) /\ iz.older = ix.older /\ iz.of[host] = Blank
        /\ \A h \in Hosts \ {host} : iz.of[h] = ix.of[h]
    BY <1>1, AbsentTyped DEF Typed
  <2> HIDE DEF iz
  <2>3. Tracked(iz) \cup {host} = Tracked(ix) \cup {host}
    BY <2>2 DEF Tracked
  <2>4. /\ Typed(it) /\ InOrder(it) /\ Tracked(it) = Tracked(ix) \cup {host}
        /\ it.older[host] = Tracked(ix) \ {host} /\ it.of[host].lastUsed = now
        /\ it.of[host].outcomes = iz.of[host].outcomes
        /\ \A h \in Hosts \ {host} : it.of[h] = iz.of[h]
    BY <1>1, <2>2, <2>3, TouchOrders
  <2> HIDE DEF it
  <2>5. it.older[host] = Tracked(it) \ {host} /\ host \in Tracked(it)
    BY <2>4
  <2>6. /\ IsFiniteSet(Tracked(it)) /\ Cardinality(Tracked(it)) <= MaxEndpoints + 1
    <3>1. IsFiniteSet(Tracked(it)) /\ Cardinality(Tracked(it)) = Cardinality(Tracked(ix)) + 1
      BY <1>1, <2>1, <2>4, FS_AddElement
    <3> QED
      BY <1>1, <3>1, FS_CardinalityType, ThresholdsAssumption
  <2>7. /\ Bounded(iy)
        /\ host \in Tracked(iy) /\ Tracked(iy) \subseteq Tracked(it)
        /\ \A h \in Tracked(iy) : iy.of[h] = it.of[h]
        /\ \A h \in Tracked(it) \ Tracked(iy) :
              \/ now - it.of[h].lastUsed >= IdleFor
              \/ Cardinality(Tracked(iy)) = MaxEndpoints
    <3>1. \A h \in Hosts : Sound(it.of[h])
      BY <1>1, <2>2, <2>4, AbsentSound DEF Sound, Alike
    <3>2. Typed(it) /\ InOrder(it) /\ it.of[host].lastUsed = now
      BY <2>4
    <3> HIDE DEF iy
    <3>3. LET e == Evict(it, now)
          IN /\ Bounded(e)
             /\ host \in Tracked(e) /\ Tracked(e) \subseteq Tracked(it)
             /\ \A h \in Tracked(e) : e.of[h] = it.of[h]
             /\ \A h \in Tracked(it) \ Tracked(e) :
                   \/ now - it.of[h].lastUsed >= IdleFor
                   \/ Cardinality(Tracked(e)) = MaxEndpoints
      BY <2>5, <2>6, <3>1, <3>2, EvictEffect
    <3> QED
      BY <3>3 DEF iy
  <2> HIDE DEF iy
  <2>8. \A h \in Tracked(ix) : h \in Tracked(it) /\ it.of[h] = ix.of[h]
    BY <2>1, <2>2, <2>4 DEF Tracked
  <2> QED
    BY <2>1, <2>4, <2>7, <2>8 DEF ForCause
<1> QED
  BY <1>2, <1>3

\* The outcome is written over an entry that is there: the order stays.
LEMMA OverwriteBounded ==
    ASSUME NEW ix, Bounded(ix), NEW host \in Tracked(ix), NEW e \in Health, e # NoHealth, Sound(e)
    PROVE  LET iy == [ix EXCEPT !.of[host] = e]
           IN Bounded(iy) /\ Tracked(iy) = Tracked(ix)
<1> DEFINE iy == [ix EXCEPT !.of[host] = e]
<1>1. ix = [of |-> ix.of, older |-> ix.older] /\ ix.of \in [Hosts -> Health] /\ host \in Hosts
  BY DEF Bounded, Typed, Tracked
<1>2. /\ iy = [of |-> iy.of, older |-> ix.older] /\ iy.older = ix.older
      /\ iy.of \in [Hosts -> Health] /\ iy.of[host] = e
      /\ \A h \in Hosts \ {host} : iy.of[h] = ix.of[h]
  BY <1>1
<1> HIDE DEF iy
<1>3. Tracked(iy) = Tracked(ix)
  BY <1>2 DEF Tracked
<1>4. InOrder(iy)
  BY <1>2, <1>3 DEF Bounded, InOrder
<1>5. Bounded(iy)
  <2>1. Typed(iy) /\ \A h \in Hosts : Sound(iy.of[h])
    BY <1>2 DEF Bounded, Typed
  <2> QED
    BY <1>2, <1>3, <1>4, <2>1 DEF Bounded
<1> QED
  BY <1>3, <1>5 DEF iy

\* The window takes one outcome more and lets the oldest go.
LEMMA ObserveWindow ==
    ASSUME NEW outcomes \in Seq(Outcomes), Len(outcomes) <= FailureWindow, NEW ok \in Outcomes
    PROVE  Len(Observe(outcomes, ok)) <= FailureWindow
<1> DEFINE all == Append(outcomes, ok)
           n == Len(outcomes)
<1>1. all \in Seq(Outcomes) /\ Len(all) = n + 1 /\ n \in Nat /\ FailureWindow \in Nat
  BY ThresholdsAssumption
<1>2. Len(Tail(all)) = n
  BY <1>1
<1>3. Len(Observe(outcomes, ok)) = IF Len(all) > FailureWindow THEN Len(Tail(all)) ELSE Len(all)
  BY DEF Observe
<1> HIDE DEF all, n
<1>4. n <= FailureWindow
  BY DEF n
<1>5. Len(Observe(outcomes, ok)) = IF n + 1 > FailureWindow THEN n ELSE n + 1
  BY <1>1, <1>2, <1>3
<1> QED
  BY <1>1, <1>4, <1>5

LEMMA SucceededTyped ==
    ASSUME NEW e \in Health, NEW kept \in Seq(Outcomes)
    PROVE  /\ Succeeded(e, kept) \in Health /\ Succeeded(e, kept).lastUsed = e.lastUsed
           /\ Succeeded(e, kept).outcomes = Observe(kept, TRUE)
<1> SUFFICES ASSUME NEW o, o = Observe(kept, TRUE)
             PROVE  /\ Succeeded(e, kept) \in Health /\ Succeeded(e, kept).lastUsed = e.lastUsed
                    /\ Succeeded(e, kept).outcomes = o
  OBVIOUS
<1>1. o \in Seq(Outcomes)
  BY ObserveTyped, OutcomesTyped
<1>2. Succeeded(e, kept) = [e EXCEPT !.probing = FALSE, !.openedAt = 0,
                                     !.failures = 0, !.outcomes = o]
  BY DEF Succeeded
<1>3. Succeeded(e, kept) = [outcomes |-> o, failures |-> 0, openedAt |-> 0,
                            probing |-> FALSE, lastUsed |-> e.lastUsed]
  BY <1>2 DEF Health
<1>4. e.lastUsed \in Int /\ 0 \in Nat
  BY EntryWith
<1>5. Succeeded(e, kept) \in Health
  BY <1>1, <1>3, <1>4, EntryTyped
<1>6. Succeeded(e, kept).lastUsed = e.lastUsed /\ Succeeded(e, kept).outcomes = o
  BY <1>3
<1> QED
  BY <1>5, <1>6

\* So for every outcome that is recorded.
LEMMA OutcomesForCause ==
    ASSUME NEW ix, Bounded(ix), NEW host \in Hosts, NEW now \in Nat,
           NEW iy \in {RecordSuccess(ix, host, now), RecordFailure(ix, host, now),
                       Open(ix, host, now)}
    PROVE  ForCause(ix, iy, host, now)
<1> DEFINE known == Ensure(ix, host, now)
           entry == known.of[host]
<1>1. ForCause(ix, known, host, now) /\ entry.lastUsed = now
  BY EnsureForCause
<1> HIDE DEF known
<1>2. Typed(known) /\ Bounded(known) /\ host \in Tracked(known) /\ entry \in Health
  BY <1>1 DEF ForCause, Bounded, Typed
<1>3. ASSUME NEW e \in Health, e.lastUsed = now, iy = [known EXCEPT !.of[host] = e],
             Len(e.outcomes) <= FailureWindow
      PROVE  ForCause(ix, iy, host, now)
  <2>1. e # NoHealth /\ Sound(e)
    BY <1>3 DEF NoHealth, Sound
  <2>2. Bounded(iy) /\ Tracked(iy) = Tracked(known)
    BY <1>2, <1>3, <2>1, OverwriteBounded
  <2> QED
    BY <1>1, <2>2 DEF ForCause
<1>4. CASE iy = RecordSuccess(ix, host, now)
  <2> DEFINE kept == IF entry.openedAt # 0 THEN <<>> ELSE entry.outcomes
  <2>1. kept \in Seq(Outcomes) /\ Len(kept) <= FailureWindow
    BY <1>2, OutcomesTyped, EntryWith, AbsentSound DEF Sound, Bounded
  <2>2. iy = [known EXCEPT !.of[host] = Succeeded(entry, kept)]
    BY <1>4 DEF RecordSuccess, known
  <2> HIDE DEF kept
  <2>3. Len(Succeeded(entry, kept).outcomes) <= FailureWindow
    BY <1>2, <2>1, SucceededTyped, ObserveWindow, OutcomesTyped
  <2> QED
    BY <1>1, <1>2, <1>3, <2>1, <2>2, <2>3, SucceededTyped
<1>5. /\ Failed(entry) \in Health /\ Failed(entry).lastUsed = now
      /\ Len(Failed(entry).outcomes) <= FailureWindow
  <2>1. Failed(entry) \in Health /\ Failed(entry).lastUsed = now
    BY <1>1, <1>2, FailedTyped DEF Failed, Health
  <2>2. entry.outcomes \in Seq(Outcomes) /\ Len(entry.outcomes) <= FailureWindow
    BY <1>2, EntryWith DEF Sound, Bounded
  <2>3. Failed(entry).outcomes = Observe(entry.outcomes, FALSE)
    BY <1>2, FailedTyped
  <2> QED
    BY <2>1, <2>2, <2>3, ObserveWindow, OutcomesTyped
<1>6. \A a \in Nat : /\ [Failed(entry) EXCEPT !.openedAt = a] \in Health
                      /\ [Failed(entry) EXCEPT !.openedAt = a].lastUsed = now
                      /\ Len([Failed(entry) EXCEPT !.openedAt = a].outcomes) <= FailureWindow
  BY <1>5 DEF Health
<1>7. CASE iy = RecordFailure(ix, host, now)
  <2> DEFINE a == IF entry.probing \/ ShouldOpen(Failed(entry)) THEN now
                  ELSE Failed(entry).openedAt
  <2>1. iy = [known EXCEPT !.of[host] = [Failed(entry) EXCEPT !.openedAt = a]]
    BY <1>7 DEF RecordFailure, known
  <2>2. a \in Nat
    BY <1>5 DEF Health
  <2> HIDE DEF a
  <2> QED
    BY <1>3, <1>6, <2>1, <2>2
<1>8. CASE iy = Open(ix, host, now)
  <2>1. iy = [known EXCEPT !.of[host] = [Failed(entry) EXCEPT !.openedAt = now]]
    BY <1>8 DEF Open, known
  <2> QED
    BY <1>3, <1>6, <2>1
<1> QED
  BY <1>4, <1>7, <1>8

\* The claim of a probe drops nothing.
LEMMA AdmitBounded ==
    ASSUME NEW ix, Bounded(ix), NEW host \in Hosts, NEW now \in Nat
    PROVE  Bounded(Admit(ix, host, now)) /\ Tracked(Admit(ix, host, now)) = Tracked(ix)
<1>1. CASE Admission(ix, host, now) # "half-open"
  BY <1>1 DEF Admit
<1>2. CASE Admission(ix, host, now) = "half-open"
  <2> DEFINE iz == [ix EXCEPT !.of[host].probing = TRUE]
             iy == Touch(iz, host, now)
  <2>1. /\ Admit(ix, host, now) = iy /\ Typed(ix) /\ InOrder(ix)
        /\ \A h \in Hosts : Sound(ix.of[h])
    BY <1>2 DEF Admit, Bounded
  <2>2. host \in Tracked(ix)
    BY <1>2, AdmissionMeans DEF Tracked, NoHealth
  <2>3. /\ Typed(iz) /\ iz.older = ix.older /\ iz.of[host].outcomes = ix.of[host].outcomes
        /\ \A h \in Hosts \ {host} : iz.of[h] = ix.of[h]
    <3>1. /\ ix = [of |-> ix.of, older |-> ix.older] /\ ix.of \in [Hosts -> Health]
          /\ [ix.of[host] EXCEPT !.probing = TRUE] \in Health
          /\ [ix.of[host] EXCEPT !.probing = TRUE].outcomes = ix.of[host].outcomes
      BY <2>1, EntryWith DEF Typed
    <3>2. iz.of = [ix.of EXCEPT ![host] = [@ EXCEPT !.probing = TRUE]]
      BY <3>1
    <3> DEFINE f == iz.of
    <3>3. iz = [ix EXCEPT !.of = f]
      BY <3>1
    <3> HIDE DEF f
    <3>4. iz = [of |-> f, older |-> ix.older]
      BY <3>1, <3>3
    <3> HIDE DEF iz
    <3>5. iz.older = ix.older /\ iz = [of |-> iz.of, older |-> iz.older]
      BY <3>4
    <3> QED
      BY <3>1, <3>2, <3>5 DEF Typed
  <2> HIDE DEF iz
  <2>4. Tracked(iz) \cup {host} = Tracked(ix) \cup {host}
    BY <2>3 DEF Tracked
  <2>5. /\ Typed(iy) /\ InOrder(iy) /\ Tracked(iy) = Tracked(ix) \cup {host}
        /\ iy.of[host].lastUsed = now /\ iy.of[host].outcomes = iz.of[host].outcomes
        /\ \A h \in Hosts \ {host} : iy.of[h] = iz.of[h]
    BY <2>1, <2>3, <2>4, TouchOrders
  <2> HIDE DEF iy
  <2>6. Tracked(iy) = Tracked(ix)
    BY <2>2, <2>5
  <2>7. \A h \in Hosts : Sound(iy.of[h])
    BY <2>1, <2>3, <2>5 DEF Sound
  <2> QED
    BY <2>1, <2>5, <2>6, <2>7 DEF Bounded
<1> QED
  BY <1>1, <1>2

\* A step drops a host for another only for cause.
ForCauseOnly ==
    \A g, h \in Hosts :
       /\ index.of[g] = NoHealth /\ index'.of[g] # NoHealth
       /\ index.of[h] # NoHealth /\ index'.of[h] = NoHealth
       => \/ clock - index.of[h].lastUsed >= IdleFor
          \/ Cardinality(Tracked(index')) = MaxEndpoints

LEMMA OutcomeForCauseOnly ==
    ASSUME PoolInv, NEW host, NEW now \in Nat, now <= clock, NEW ix,
           ForCause(index, ix, host, now), Tracked(index') = Tracked(ix)
    PROVE  ForCauseOnly
<1> SUFFICES ASSUME NEW h \in Hosts, index.of[h] # NoHealth, index'.of[h] = NoHealth
             PROVE  \/ clock - index.of[h].lastUsed >= IdleFor
                    \/ Cardinality(Tracked(index')) = MaxEndpoints
  BY DEF ForCauseOnly
<1>1. h \in Tracked(index) \ Tracked(ix)
  BY DEF Tracked
<1>2. index.of[h].lastUsed \in Int /\ clock \in Nat /\ IdleFor \in Nat
  BY PoolTyped, EntryWith, ThresholdsAssumption
<1>3. \/ now - index.of[h].lastUsed >= IdleFor
      \/ Cardinality(Tracked(index')) = MaxEndpoints
  BY <1>1 DEF ForCause
<1> QED
  BY <1>2, <1>3

LEMMA NoNewcomer ==
    ASSUME Tracked(index') \subseteq Tracked(index)
    PROVE  ForCauseOnly
  BY DEF ForCauseOnly, Tracked

\* Whatever the next call of a read is, it drops nothing.
LEMMA ProceedBounded ==
    ASSUME PoolInv, NEW r \in Readers, NEW ix, Bounded(ix), NEW q \in Reads, Proceed(r, ix, q)
    PROVE  Bounded(index') /\ Tracked(index') = Tracked(ix)
<1>1. \/ index' = ix
      \/ \E p \in DOMAIN Providers : index' = Admit(ix, Providers[p], q.since)
  BY PoolTyped, ProceedEffect DEF Bounded
<1>2. q.since \in Nat
  BY DEF Reads
<1> QED
  BY <1>1, <1>2, AdmitBounded, ProvidersTyped

LEMMA BoundedStep ==
    ASSUME PoolInv, Bounded(index), [Next]_vars
    PROVE  Bounded(index)' /\ ForCauseOnly
<1>1. ASSUME NEW r \in Readers, Begin(r)
      PROVE  Bounded(index') /\ ForCauseOnly
  <2>1. PICK now \in 1 .. clock : Proceed(r, index, Start(now))
    BY <1>1 DEF Begin
  <2>2. Start(now) \in Reads
    BY PoolTyped, StartTyped
  <2> QED
    BY <2>1, <2>2, ProceedBounded, NoNewcomer
<1>2. ASSUME NEW r \in InFlight, NEW ix \in {RecordFailure(index, HostOf(r), read[r].since),
                                            Open(index, HostOf(r), read[r].since)},
             Proceed(r, ix, read[r])
      PROVE  Bounded(index') /\ ForCauseOnly
  <2>1. /\ r \in Readers /\ read[r] \in Reads /\ HostOf(r) \in Hosts
        /\ read[r].since \in Nat /\ read[r].since <= clock
    BY PoolTyped
  <2>2. ForCause(index, ix, HostOf(r), read[r].since)
    BY <1>2, <2>1, OutcomesForCause
  <2>3. Bounded(index') /\ Tracked(index') = Tracked(ix)
    BY <1>2, <2>1, <2>2, ProceedBounded DEF ForCause
  <2> QED
    BY <2>1, <2>2, <2>3, OutcomeForCauseOnly
<1>3. ASSUME NEW host \in Hosts, NEW now \in Nat, now <= clock,
             index' \in {RecordSuccess(index, host, now), RecordFailure(index, host, now)}
      PROVE  Bounded(index') /\ ForCauseOnly
  <2>1. ForCause(index, index', host, now)
    BY <1>3, OutcomesForCause
  <2> QED
    BY <1>3, <2>1, OutcomeForCauseOnly DEF ForCause
<1>4. ASSUME NEW r \in Readers, ChainDiffers(r) \/ CallFails(r)
      PROVE  Bounded(index') /\ ForCauseOnly
  BY <1>2, <1>4 DEF ChainDiffers, CallFails, InFlight
<1>5. ASSUME NEW r \in Readers, BalanceReads(r)
      PROVE  Bounded(index') /\ ForCauseOnly
  BY <1>3, <1>5, PoolTyped DEF BalanceReads, InFlight
<1>6. CASE OtherPoolRecords
  BY <1>3, <1>6, PoolTyped, ProvidersAssumption DEF OtherPoolRecords
<1>7. CASE ResetHealth
  BY <1>7, EmptyBounded, WithoutBounded, NoNewcomer DEF ResetHealth
<1>8. CASE UNCHANGED index
  BY <1>8, NoNewcomer
<1> QED
  BY <1>1, <1>4, <1>5, <1>6, <1>7, <1>8 DEF Next, vars, ChainMatches, Tick

\* A host's history makes room for another's only when it was not used for the
\* retention time, or when the index is full (health.ts, #evict), whichever
\* reads and pools share the index: a use of it late in its idle time saves it.
THEOREM EvictsOnlyForCause == Spec => EvictsForCause
<1>1. Init => Bounded(index)
  BY EmptyBounded DEF Init
<1>2. PoolInv /\ Bounded(index) /\ [Next]_vars => Bounded(index)'
  BY BoundedStep
<1>3. PoolInv /\ Bounded(index) /\ [Next]_vars =>
        [\A g, h \in Hosts :
            /\ index.of[g] = NoHealth /\ index'.of[g] # NoHealth
            /\ index.of[h] # NoHealth /\ index'.of[h] = NoHealth
            => \/ clock - index.of[h].lastUsed >= IdleFor
               \/ Cardinality(Tracked(index')) = MaxEndpoints]_vars
  BY BoundedStep DEF ForCauseOnly
<1> QED
  BY <1>1, <1>2, <1>3, PoolInvHolds, PTL DEF Spec, EvictsForCause

-------------------------------------------------------------------------------
(* The types of the pool, with the bounds.                                 *)

Ranges ==
    /\ clock <= MaxTime /\ begun \in 0 .. MaxReads
    /\ \A r \in Readers : read[r].at \in 0 .. Len(Providers) /\ read[r].since <= clock

LEMMA ProceedRanges ==
    ASSUME PoolInv, Ranges, NEW r \in Readers, NEW ix, Typed(ix),
           NEW q \in Reads, q.since <= clock, Proceed(r, ix, q)
    PROVE  \A o \in Readers : read'[o].at \in 0 .. Len(Providers) /\ read'[o].since <= clock
<1>1. \A o \in Readers \ {r} : read'[o] = read[o]
  BY PoolTyped, ProceedEffect
<1>2. \/ read'[r] = NoRead
      \/ read'[r].at \in DOMAIN Providers /\ read'[r].since = q.since
  BY PoolTyped, ProceedEffect
<1>3. DOMAIN Providers = 1 .. Len(Providers) /\ Len(Providers) \in Nat /\ clock \in Nat
  BY PoolTyped, ProvidersAssumption
<1>4. NoRead.at = 0 /\ NoRead.since = 0
  BY DEF NoRead
<1>5. read'[r].at \in 0 .. Len(Providers) /\ read'[r].since <= clock
  BY <1>2, <1>3, <1>4
<1> QED
  BY <1>1, <1>5 DEF Ranges

LEMMA RangesStep ==
    ASSUME PoolInv, Ranges, [Next]_vars
    PROVE  Ranges'
<1> DEFINE Reading == \A o \in Readers : /\ read'[o].at \in 0 .. Len(Providers)
                                        /\ read'[o].since <= clock
<1>1. clock \in Nat /\ MaxReads \in Nat /\ MaxTime \in Nat /\ begun \in Nat
  BY PoolTyped, BoundsAssumption DEF Ranges
<1>2. ASSUME NEW r \in Readers, Begin(r)
      PROVE  Ranges'
  <2>1. PICK q : q \in Reads /\ q.since <= clock /\ Proceed(r, index, q)
    <3>1. PICK now \in 1 .. clock : Proceed(r, index, Start(now))
      BY <1>2 DEF Begin
    <3>2. Start(now) \in Reads /\ Start(now).since <= clock
      BY PoolTyped, StartTyped
    <3> QED
      BY <3>1, <3>2
  <2>2. Reading
    BY <1>1, <2>1, ProceedRanges, PoolTyped
  <2>3. clock' = clock /\ begun' = begun + 1 /\ begun < MaxReads
    BY <1>2 DEF Begin
  <2> HIDE DEF Reading
  <2>4. begun' \in 0 .. MaxReads
    BY <1>1, <2>3
  <2> QED
    BY <2>2, <2>3, <2>4 DEF Ranges, Reading
<1>3. ASSUME NEW r \in Readers, ChainDiffers(r) \/ CallFails(r)
      PROVE  Ranges'
  <2>1. /\ r \in InFlight /\ HostOf(r) \in Hosts /\ read[r] \in Reads
        /\ read[r].since \in Nat /\ read[r].since <= clock /\ Typed(index)
    BY <1>3, PoolTyped DEF ChainDiffers, CallFails, InFlight
  <2>2. PICK ix : Typed(ix) /\ Proceed(r, ix, read[r])
    BY <1>3, <2>1, FailureEffect, OpenEffect DEF ChainDiffers, CallFails
  <2>3. Reading
    BY <2>1, <2>2, ProceedRanges
  <2>4. clock' = clock /\ begun' = begun
    BY <1>3 DEF ChainDiffers, CallFails
  <2> QED
    BY <2>3, <2>4 DEF Ranges
<1>4. ASSUME NEW r \in Readers, NEW q, read[r].pc # "idle" \/ q = NoRead,
             q = NoRead \/ q = [read[r] EXCEPT !.pc = "reading"],
             read' = [read EXCEPT ![r] = q], clock' = clock, begun' = begun
      PROVE  Ranges'
  <2>1. q.at \in 0 .. Len(Providers) /\ q.since <= clock
    <3>1. CASE q = NoRead
      <4>1. q.at = 0 /\ q.since = 0 /\ Len(Providers) \in Nat
        BY <3>1, ProvidersAssumption DEF NoRead
      <4> QED
        BY <1>1, <4>1
    <3>2. CASE q = [read[r] EXCEPT !.pc = "reading"]
      <4>1. q.at = read[r].at /\ q.since = read[r].since
        BY <3>2, PoolTyped DEF Reads
      <4> QED
        BY <4>1 DEF Ranges
    <3> QED
      BY <1>4, <3>1, <3>2
  <2>2. read'[r] = q /\ \A o \in Readers \ {r} : read'[o] = read[o]
    BY <1>4, PoolTyped
  <2> QED
    BY <1>4, <2>1, <2>2 DEF Ranges
<1>5. ASSUME NEW r \in Readers, ChainMatches(r) \/ BalanceReads(r)
      PROVE  Ranges'
  <2>1. CASE ChainMatches(r)
    <3>1. /\ read[r].pc # "idle" /\ clock' = clock /\ begun' = begun
          /\ read' = [read EXCEPT ![r] = [read[r] EXCEPT !.pc = "reading"]]
      BY <2>1 DEF ChainMatches
    <3> QED
      BY <1>4, <3>1
  <2>2. CASE BalanceReads(r)
    <3>1. clock' = clock /\ begun' = begun /\ read' = [read EXCEPT ![r] = NoRead]
      BY <2>2 DEF BalanceReads
    <3> QED
      BY <1>4, <3>1
  <2> QED
    BY <1>5, <2>1, <2>2
<1>6. CASE OtherPoolRecords
  <2>1. clock' = clock /\ read' = read /\ begun' = begun + 1 /\ begun < MaxReads
    BY <1>6 DEF OtherPoolRecords
  <2>2. begun' \in 0 .. MaxReads
    BY <1>1, <2>1
  <2> QED
    BY <2>1, <2>2 DEF Ranges
<1>7. CASE Tick
  <2>1. clock' = clock + 1 /\ clock < MaxTime /\ read' = read /\ begun' = begun
    BY <1>7 DEF Tick
  <2>2. \A o \in Readers : read[o].since \in Nat
    BY PoolTyped DEF Reads
  <2>3. clock' <= MaxTime /\ \A o \in Readers : read[o].since <= clock + 1
    BY <1>1, <2>1, <2>2 DEF Ranges
  <2> QED
    BY <2>1, <2>3 DEF Ranges
<1>8. CASE ResetHealth \/ UNCHANGED vars
  BY <1>8 DEF ResetHealth, Ranges, vars
<1> QED
  BY <1>2, <1>3, <1>5, <1>6, <1>7, <1>8 DEF Next

\* Whatever happens to its endpoints, the index holds well-formed entries, in a
\* strict order, within their window and within its cap (health.ts).
THEOREM EvmPoolTypeCorrect == Spec => []TypeOK
<1>1. Init => Bounded(index) /\ Ranges
  <2> SUFFICES ASSUME Init PROVE Bounded(index) /\ Ranges
    OBVIOUS
  <2>1. Bounded(index)
    BY EmptyBounded DEF Init
  <2>2. clock = 1 /\ begun = 0 /\ \A r \in Readers : read[r].at = 0 /\ read[r].since = 0
    BY DEF Init, NoRead
  <2>3. MaxTime \in Nat \ {0} /\ MaxReads \in Nat /\ Len(Providers) \in Nat
    BY BoundsAssumption, ProvidersAssumption
  <2>4. Ranges
    BY <2>2, <2>3 DEF Ranges
  <2> QED
    BY <2>1, <2>4
<1>2. PoolInv /\ Bounded(index) /\ Ranges /\ [Next]_vars => Bounded(index)' /\ Ranges'
  BY BoundedStep, RangesStep
<1>3. PoolInv /\ Bounded(index) /\ Ranges => TypeOK
  <2> SUFFICES ASSUME PoolInv, Bounded(index), Ranges PROVE TypeOK
    OBVIOUS
  <2>1. clock \in 1 .. MaxTime /\ begun \in 0 .. MaxReads
    BY PoolTyped, BoundsAssumption DEF Ranges
  <2>2. IsIndex(index)
    <3>1. \A h \in Hosts : /\ index.of[h] \in Health /\ Sound(index.of[h])
      BY PoolTyped DEF Bounded
    <3>2. \A h \in Hosts : index.of[h] \in Entry \cup {NoHealth}
      BY <3>1 DEF Health, Entry, Sound, Outcomes
    <3>3. index.of \in [Hosts -> Entry \cup {NoHealth}]
      BY <3>2, PoolTyped DEF Typed
    <3> QED
      BY <3>1, <3>3 DEF IsIndex, Bounded, Sound
  <2>3. ASSUME NEW r \in Readers
        PROVE  read[r] \in [pc : {"idle", "proving", "reading"},
                             at : 0 .. Len(Providers),
                             rest : SUBSET DOMAIN Providers,
                             lastResort : BOOLEAN,
                             since : 0 .. MaxTime,
                             probe : BOOLEAN]
    <3>1. read[r] \in Reads /\ read[r].since \in Nat /\ clock \in Nat /\ MaxTime \in Nat
      BY PoolTyped, BoundsAssumption DEF Reads
    <3>2. read[r].at \in 0 .. Len(Providers) /\ read[r].since \in 0 .. MaxTime
      BY <3>1 DEF Ranges
    <3> QED
      BY <3>1, <3>2 DEF Reads
  <2> QED
    BY <2>1, <2>2, <2>3, PoolTyped DEF TypeOK
<1> QED
  BY <1>1, <1>2, <1>3, PoolInvHolds, PTL DEF Spec
===============================================================================
