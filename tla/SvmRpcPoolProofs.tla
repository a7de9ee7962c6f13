--------------------------- MODULE SvmRpcPoolProofs ---------------------------
(***************************************************************************)
(* Theorems about the Solana pool, for any hosts, providers, readers and   *)
(* bounds.  Of the index they need one thing only: whose probe is out.     *)
(***************************************************************************)
EXTENDS SvmRpcPool, WellFoundedInduction, TLAPS

Fields == {"outcomes", "failures", "openedAt", "probing", "lastUsed"}

IsHealth(e) == e = [x \in Fields |-> e[x]]

Shaped(ix) ==
    /\ ix = [of |-> ix.of, older |-> ix.older]
    /\ ix.of = [h \in Hosts |-> ix.of[h]]
    /\ \A h \in Hosts : IsHealth(ix.of[h])

\* The hosts whose probe is out.
Probed(ix) == {h \in Hosts : ix.of[h].probing}

-------------------------------------------------------------------------------
(* The methods of the index.                                               *)

LEMMA AbsentShaped ==
    /\ IsHealth(NoHealth) /\ IsHealth(Blank)
    /\ ~NoHealth.probing /\ ~Blank.probing
<1>1. IsHealth(NoHealth) /\ ~NoHealth.probing
  BY DEF NoHealth, IsHealth, Fields
<1>2. IsHealth(Blank) /\ ~Blank.probing
  BY DEF NoHealth, Blank, IsHealth, Fields
<1> QED
  BY <1>1, <1>2

\* One field at a time.
LEMMA FieldSet ==
    ASSUME NEW e, IsHealth(e), NEW v
    PROVE  /\ IsHealth([e EXCEPT !.outcomes = v])
           /\ [e EXCEPT !.outcomes = v].probing = e.probing
           /\ IsHealth([e EXCEPT !.failures = v])
           /\ [e EXCEPT !.failures = v].probing = e.probing
           /\ IsHealth([e EXCEPT !.openedAt = v])
           /\ [e EXCEPT !.openedAt = v].probing = e.probing
           /\ IsHealth([e EXCEPT !.lastUsed = v])
           /\ [e EXCEPT !.lastUsed = v].probing = e.probing
           /\ IsHealth([e EXCEPT !.probing = v])
           /\ [e EXCEPT !.probing = v].probing = v
  BY DEF IsHealth, Fields

LEMMA TouchProbed ==
    ASSUME NEW ix, Shaped(ix), NEW host \in Hosts, NEW now
    PROVE  Shaped(Touch(ix, host, now)) /\ Probed(Touch(ix, host, now)) = Probed(ix)
<1> DEFINE e == [ix.of[host] EXCEPT !.lastUsed = now]
           older == [h \in Hosts |-> IF h = host THEN Tracked(ix) \ {host} ELSE ix.older[h] \ {host}]
           iy == [of |-> [ix.of EXCEPT ![host] = e], older |-> older]
<1>1. IsHealth(e) /\ e.probing = ix.of[host].probing
  BY FieldSet DEF Shaped
<1>2. Touch(ix, host, now) = iy
  BY DEF Touch
<1>0. iy = [of |-> [ix.of EXCEPT ![host] = e], older |-> older]
  OBVIOUS
<1> HIDE DEF e, older, iy
<1>3. /\ Shaped(iy) /\ iy.of[host] = e
      /\ \A h \in Hosts \ {host} : iy.of[h] = ix.of[h]
  BY <1>0, <1>1 DEF Shaped
<1>4. \A h \in Hosts : iy.of[h].probing = ix.of[h].probing
  BY <1>1, <1>3
<1> QED
  BY <1>2, <1>3, <1>4 DEF Probed

LEMMA WithoutProbed ==
    ASSUME NEW ix, Shaped(ix), NEW hosts
    PROVE  Shaped(Without(ix, hosts)) /\ Probed(Without(ix, hosts)) \subseteq Probed(ix)
  BY AbsentShaped DEF Without, Shaped, Probed

LEMMA EnsureProbed ==
    ASSUME NEW ix, Shaped(ix), NEW host \in Hosts, NEW now
    PROVE  Shaped(Ensure(ix, host, now)) /\ Probed(Ensure(ix, host, now)) \subseteq Probed(ix)
<1>1. CASE ix.of[host] # NoHealth
  BY <1>1, TouchProbed DEF Ensure
<1>2. CASE ix.of[host] = NoHealth
  <2> DEFINE iz == [ix EXCEPT !.of[host] = Blank]
  <2>1. iz = [of |-> [ix.of EXCEPT ![host] = Blank], older |-> ix.older]
    BY DEF Shaped
  <2> HIDE DEF iz
  <2>2. /\ Shaped(iz) /\ iz.of[host] = Blank
        /\ \A h \in Hosts \ {host} : iz.of[h] = ix.of[h]
    BY <2>1, AbsentShaped DEF Shaped
  <2>3. Probed(iz) \subseteq Probed(ix)
    BY <2>2, AbsentShaped DEF Probed
  <2>4. Shaped(Touch(iz, host, now)) /\ Probed(Touch(iz, host, now)) = Probed(iz)
    BY <2>2, TouchProbed
  <2>5. \E gone : Evict(Touch(iz, host, now), now) = Without(Touch(iz, host, now), gone)
    BY DEF Evict
  <2>6. Ensure(ix, host, now) = Evict(Touch(iz, host, now), now)
    BY <1>2 DEF Ensure, iz
  <2> QED
    BY <2>3, <2>4, <2>5, <2>6, WithoutProbed
<1> QED
  BY <1>1, <1>2

LEMMA OutcomeProbed ==
    ASSUME NEW known, Shaped(known), NEW host \in Hosts, NEW e, IsHealth(e), ~e.probing
    PROVE  LET iy == [known EXCEPT !.of[host] = e]
           IN Shaped(iy) /\ Probed(iy) \subseteq Probed(known) \ {host}
<1> DEFINE iy == [known EXCEPT !.of[host] = e]
<1>1. iy = [of |-> [known.of EXCEPT ![host] = e], older |-> known.older]
  BY DEF Shaped
<1> HIDE DEF iy
<1>2. /\ Shaped(iy) /\ iy.of[host] = e
      /\ \A h \in Hosts \ {host} : iy.of[h] = known.of[h]
  BY <1>1 DEF Shaped
<1>3. Probed(iy) \subseteq Probed(known) \ {host}
  BY <1>2 DEF Probed
<1> QED
  BY <1>2, <1>3 DEF iy

\* Whatever the outcome, the probe of its host is back and no other is out.
LEMMA OutcomesProbed ==
    ASSUME NEW ix, Shaped(ix), NEW host \in Hosts, NEW now, NEW iy,
           iy \in {RecordSuccess(ix, host, now), RecordFailure(ix, host, now),
                   Open(ix, host, now)}
    PROVE  Shaped(iy) /\ Probed(iy) \subseteq Probed(ix) \ {host}
<1> DEFINE known == Ensure(ix, host, now)
           entry == known.of[host]
<1>1. IsHealth(entry)
  BY EnsureProbed DEF Shaped
<1>2. \A kept : IsHealth(Succeeded(entry, kept)) /\ ~Succeeded(entry, kept).probing
  <2> TAKE kept
  <2> DEFINE o == Observe(kept, TRUE)
  <2>1. Succeeded(entry, kept) = [entry EXCEPT !.probing = FALSE, !.openedAt = 0,
                                               !.failures = 0, !.outcomes = o]
    BY DEF Succeeded
  <2> HIDE DEF o, entry
  <2> QED
    BY <1>1, <2>1 DEF IsHealth, Fields
<1>3. IsHealth(Failed(entry)) /\ ~Failed(entry).probing
  <2> DEFINE o == Observe(entry.outcomes, FALSE)
             f == entry.failures + 1
  <2>1. Failed(entry) = [entry EXCEPT !.probing = FALSE, !.failures = f, !.outcomes = o]
    BY DEF Failed
  <2> HIDE DEF o, f, entry
  <2> QED
    BY <1>1, <2>1 DEF IsHealth, Fields
<1>4. \A at : IsHealth([Failed(entry) EXCEPT !.openedAt = at])
              /\ ~[Failed(entry) EXCEPT !.openedAt = at].probing
  <2> DEFINE f == Failed(entry)
  <2>1. IsHealth(f) /\ ~f.probing
    BY <1>3
  <2> HIDE DEF f
  <2>2. \A at : IsHealth([f EXCEPT !.openedAt = at]) /\ ~[f EXCEPT !.openedAt = at].probing
    BY <2>1 DEF IsHealth, Fields
  <2> QED
    BY <2>2 DEF f
<1>5. \E e : IsHealth(e) /\ ~e.probing /\ iy = [known EXCEPT !.of[host] = e]
  <2>1. CASE iy = RecordSuccess(ix, host, now)
    <3>1. iy = [known EXCEPT !.of[host] =
                  Succeeded(entry, IF entry.openedAt # 0 THEN <<>> ELSE entry.outcomes)]
      BY <2>1 DEF RecordSuccess
    <3> HIDE DEF known, entry
    <3> QED
      BY <1>2, <3>1
  <2>2. CASE iy = RecordFailure(ix, host, now)
    <3> DEFINE at == IF entry.probing \/ ShouldOpen(Failed(entry)) THEN now
                     ELSE Failed(entry).openedAt
    <3>1. iy = [known EXCEPT !.of[host] = [Failed(entry) EXCEPT !.openedAt = at]]
      BY <2>2 DEF RecordFailure
    <3> HIDE DEF known, entry, at
    <3> QED
      BY <1>4, <3>1
  <2>3. CASE iy = Open(ix, host, now)
    <3>1. iy = [known EXCEPT !.of[host] = [Failed(entry) EXCEPT !.openedAt = now]]
      BY <2>3 DEF Open
    <3> HIDE DEF known, entry
    <3> QED
      BY <1>4, <3>1
  <2> QED
    BY <2>1, <2>2, <2>3
<1>6. Shaped(known) /\ Probed(known) \subseteq Probed(ix)
  BY EnsureProbed
<1> HIDE DEF known
<1>7. PICK e : IsHealth(e) /\ ~e.probing /\ iy = [known EXCEPT !.of[host] = e]
  BY <1>5
<1>8. LET iz == [known EXCEPT !.of[host] = e]
      IN Shaped(iz) /\ Probed(iz) \subseteq Probed(known) \ {host}
  BY <1>6, <1>7, OutcomeProbed
<1> QED
  BY <1>6, <1>7, <1>8

\* A claim adds the host it is about, and only a half-open one.
LEMMA AdmitProbed ==
    ASSUME NEW ix, Shaped(ix), NEW host \in Hosts, NEW now
    PROVE  /\ Shaped(Admit(ix, host, now))
           /\ Probed(Admit(ix, host, now)) \subseteq
                Probed(ix) \cup (IF Admission(ix, host, now) = "half-open" THEN {host} ELSE {})
<1>1. CASE Admission(ix, host, now) # "half-open"
  BY <1>1 DEF Admit
<1>2. CASE Admission(ix, host, now) = "half-open"
  <2> DEFINE e == [ix.of[host] EXCEPT !.probing = TRUE]
             iz == [ix EXCEPT !.of[host].probing = TRUE]
  <2>1. IsHealth(e)
    BY FieldSet DEF Shaped
  <2>2. iz = [of |-> [ix.of EXCEPT ![host] = e], older |-> ix.older]
    <3>1. iz = [ix EXCEPT !.of = [@ EXCEPT ![host] = e]]
      OBVIOUS
    <3> HIDE DEF iz, e
    <3> QED
      BY <3>1 DEF Shaped
  <2> HIDE DEF e, iz
  <2>3. /\ Shaped(iz) /\ iz.of[host] = e
        /\ \A h \in Hosts \ {host} : iz.of[h] = ix.of[h]
    BY <2>1, <2>2 DEF Shaped
  <2>4. Admit(ix, host, now) = Touch(iz, host, now)
    BY <1>2 DEF Admit, iz
  <2>5. Probed(iz) \subseteq Probed(ix) \cup {host}
    BY <2>3 DEF Probed
  <2> QED
    BY <1>2, <2>3, <2>4, <2>5, TouchProbed
<1> QED
  BY <1>1, <1>2

-------------------------------------------------------------------------------
(* The reads.                                                              *)

\* The least number of a set, which the operator Min chooses.
LEMMA MinIsLeast ==
    ASSUME NEW S, S \subseteq Nat, S # {}
    PROVE  Min(S) \in S
<1> DEFINE R == {ss \in Nat \X Nat : ss[1] < ss[2]}
<1>1. IsWellFoundedOn(R, Nat)
  BY NatLessThanWellFounded DEF OpToRel
<1>2. PICK x \in S : \A y \in S : ~(<<y, x>> \in R)
  BY <1>1, WFMin
<1>3. \A y \in S : ~(y < x)
  BY <1>2
<1>4. \A y \in S : x <= y
  BY <1>3
<1> QED
  BY <1>4 DEF Min

Reads == [pc : {"idle", "proving", "reading"}, task : {"balance", "url"},
          part : {"headers", "body"}, sent : Nat, at : Nat,
          rest : SUBSET DOMAIN Providers, attempted : SUBSET DOMAIN Providers,
          lastResort : BOOLEAN, since : Nat, probe : BOOLEAN]

ReadTyped ==
    /\ clock \in Nat
    /\ Shaped(index)
    /\ read \in [Readers -> Reads]

\* A call in flight is to an endpoint of the manifest.
Called == \A r \in InFlight : read[r].at \in DOMAIN Providers

\* What the loop has left to try, it has not tried.
Untried(q) == q.rest \cap q.attempted = {}

UntriedInv == \A r \in Readers : Untried(read[r])

PoolInv == ReadTyped /\ Called /\ UntriedInv /\ ProbeHasHolder

\* No reader but r holds up the probes that are out in ix.
OthersHold(ix, r) ==
    /\ Shaped(ix)
    /\ \A h \in Probed(ix) : \E o \in InFlight \ {r} : read[o].probe /\ HostOf(o) = h

\* A step of r asks an endpoint it has not attempted, and remembers it.
AsksAnew(r) ==
    read'[r].pc = "proving" /\ read'[r].part = "headers" /\ read'[r] # read[r]
      => read'[r].at \notin read[r].attempted /\ read'[r].at \in read'[r].attempted

LEMMA ProvidersTyped ==
    /\ DOMAIN Providers \subseteq Nat
    /\ \A p \in DOMAIN Providers : Providers[p] \in Hosts
<1>1. Providers \in Seq(Hosts) /\ DOMAIN Providers = 1 .. Len(Providers) /\ Len(Providers) \in Nat
  BY ProvidersAssumption
<1> QED
  BY <1>1

LEMMA PoolTyped ==
    ASSUME PoolInv
    PROVE  /\ clock \in Nat /\ Shaped(index) /\ read \in [Readers -> Reads]
           /\ \A r \in InFlight : r \in Readers /\ HostOf(r) \in Hosts
           /\ \A h \in Probed(index) : \E o \in InFlight : read[o].probe /\ HostOf(o) = h
<1>1. clock \in Nat /\ Shaped(index) /\ read \in [Readers -> Reads]
  BY DEF PoolInv, ReadTyped
<1>2. \A r \in InFlight : r \in Readers /\ HostOf(r) \in Hosts
  BY ProvidersTyped DEF PoolInv, Called, InFlight, HostOf
<1>3. \A h \in Probed(index) : \E o \in InFlight : read[o].probe /\ HostOf(o) = h
  BY DEF PoolInv, ProbeHasHolder, Probed
<1> QED
  BY <1>1, <1>2, <1>3

LEMMA AbsentRead ==
    NoRead \in Reads /\ NoRead.pc = "idle" /\ Untried(NoRead) /\ NoRead.attempted = {}
  BY DEF NoRead, Reads, Untried

\* A read that is over holds nothing.
LEMMA ReadOver ==
    ASSUME PoolInv, NEW r \in Readers, OthersHold(index', r), clock' = clock,
           read' = [read EXCEPT ![r] = NoRead]
    PROVE  PoolInv' /\ \A o \in InFlight : AsksAnew(o)
<1>1. /\ read' \in [Readers -> Reads] /\ read'[r] = NoRead
      /\ \A o \in Readers \ {r} : read'[o] = read[o]
  BY PoolTyped, AbsentRead
<1>2. InFlight' = InFlight \ {r}
  BY <1>1, AbsentRead DEF InFlight
<1>3. ReadTyped'
  BY <1>1, PoolTyped DEF ReadTyped, OthersHold, Shaped, IsHealth
<1>4. \A o \in InFlight' : o \in Readers \ {r} /\ read'[o] = read[o]
  BY <1>1, <1>2, PoolTyped
<1>5. Called' /\ UntriedInv'
  BY <1>1, <1>2, <1>4, AbsentRead DEF PoolInv, Called, UntriedInv
<1>6. ProbeHasHolder'
  BY <1>2, <1>4 DEF ProbeHasHolder, OthersHold, Probed, HostOf
<1>7. \A o \in InFlight : AsksAnew(o)
  BY <1>1, AbsentRead, PoolTyped DEF AsksAnew
<1> QED
  BY <1>3, <1>5, <1>6, <1>7 DEF PoolInv

\* The next endpoint, whichever it is, was not attempted; a half-open one is
\* claimed by the read that is about to call it.
LEMMA ProceedKeeps ==
    ASSUME PoolInv, NEW r \in Readers, NEW ix, OthersHold(ix, r),
           NEW q \in Reads, Untried(q), r \in InFlight => q.attempted = read[r].attempted,
           Proceed(r, ix, q), clock' = clock
    PROVE  PoolInv' /\ \A o \in InFlight : AsksAnew(o)
<1> DEFINE admitted == {p \in q.rest : ~Refuses(ix, q, p)}
<1>1. q.rest \subseteq DOMAIN Providers /\ q.attempted \subseteq DOMAIN Providers
  BY DEF Reads
<1>2. CASE admitted = {}
  <2>1. index' = ix /\ read' = [read EXCEPT ![r] = NoRead]
    BY <1>2 DEF Proceed
  <2> QED
    BY <2>1, ReadOver
<1>3. CASE admitted # {}
  <2> DEFINE p == Min(admitted)
             host == Providers[p]
             claims == ~q.lastResort /\ Admission(ix, host, q.since) = "half-open"
             left == {x \in q.rest : x > p}
             tried == q.attempted \cup {x \in q.rest : x <= p}
             next == [q EXCEPT !.pc = "proving", !.part = "headers", !.sent = clock,
                               !.at = p, !.rest = left, !.attempted = tried, !.probe = claims]
  <2>1. p \in admitted
    BY <1>1, <1>3, ProvidersTyped, MinIsLeast
  <2>2. /\ index' = IF q.lastResort THEN ix ELSE Admit(ix, host, q.since)
        /\ read' = [read EXCEPT ![r] = next]
    BY <1>3 DEF Proceed
  <2>3. p \in q.rest /\ p \in DOMAIN Providers /\ p \in Nat /\ host \in Hosts
    BY <1>1, <2>1, ProvidersTyped
  <2>4. /\ claims \in BOOLEAN /\ left \in SUBSET DOMAIN Providers
        /\ tried \in SUBSET DOMAIN Providers /\ clock \in Nat
    BY <1>1, PoolTyped
  <2>5. left \cap tried = {} /\ p \in tried /\ p \notin q.attempted
    <3>1. \A x \in left : x > p /\ x \in Nat
      BY <1>1, ProvidersTyped
    <3>2. \A x \in left : ~(x <= p)
      BY <2>3, <3>1
    <3>3. p <= p
      BY <2>3
    <3> HIDE DEF p
    <3> QED
      BY <2>3, <3>2, <3>3 DEF Untried
  <2>6. claims <=> ~q.lastResort /\ Admission(ix, host, q.since) = "half-open"
    OBVIOUS
  <2> HIDE DEF admitted, p, claims, left, tried
  <2>7. next \in Reads
    BY <2>3, <2>4 DEF Reads
  <2>8. /\ next.pc = "proving" /\ next.at = p /\ next.rest = left
        /\ next.attempted = tried /\ next.probe = claims
    BY DEF Reads
  <2> HIDE DEF next
  <2>9. /\ read' \in [Readers -> Reads] /\ read'[r] = next
        /\ \A o \in Readers \ {r} : read'[o] = read[o]
    BY <2>2, <2>7, PoolTyped
  <2>10. Shaped(index') /\ Probed(index') \subseteq Probed(ix) \cup (IF claims THEN {host} ELSE {})
    <3>1. CASE q.lastResort
      BY <2>2, <3>1 DEF OthersHold
    <3>2. CASE ~q.lastResort
      <4>1. index' = Admit(ix, host, q.since)
        BY <2>2, <3>2
      <4>2. Shaped(ix)
        BY DEF OthersHold
      <4> QED
        BY <2>3, <2>6, <3>2, <4>1, <4>2, AdmitProbed
    <3> QED
      BY <3>1, <3>2
  <2>11. r \in InFlight' /\ HostOf(r)' = host
    BY <2>8, <2>9 DEF InFlight, HostOf
  <2>12. /\ \A o \in InFlight \ {r} : o \in InFlight' /\ read'[o] = read[o]
         /\ \A o \in InFlight' \ {r} : o \in InFlight /\ read'[o] = read[o]
    BY <2>9 DEF InFlight
  <2>13. ReadTyped'
    BY <2>4, <2>9, <2>10 DEF ReadTyped, Shaped, IsHealth
  <2>14. Called'
    BY <2>3, <2>8, <2>9, <2>12 DEF PoolInv, Called
  <2>15. UntriedInv'
    <3>1. Untried(read'[r])
      BY <2>5, <2>8, <2>9 DEF Untried
    <3> QED
      BY <2>9, <3>1 DEF PoolInv, UntriedInv
  <2>16. ProbeHasHolder'
    <3> SUFFICES ASSUME NEW h \in Probed(index')
                 PROVE  \E o \in InFlight' : read'[o].probe /\ HostOf(o)' = h
      BY DEF ProbeHasHolder, Probed
    <3>1. CASE h \in Probed(ix)
      BY <2>12, <3>1 DEF OthersHold, HostOf
    <3>2. CASE claims /\ h = host
      <4>1. read'[r].probe
        BY <2>8, <2>9, <3>2
      <4> QED
        BY <2>11, <3>2, <4>1
    <3> QED
      BY <2>10, <3>1, <3>2
  <2>17. \A o \in InFlight : AsksAnew(o)
    <3>1. r \in InFlight => AsksAnew(r)
      BY <2>5, <2>8, <2>9 DEF AsksAnew
    <3>2. \A o \in InFlight \ {r} : AsksAnew(o)
      BY <2>9, PoolTyped DEF AsksAnew
    <3> QED
      BY <3>1, <3>2
  <2> QED
    BY <2>13, <2>14, <2>15, <2>16, <2>17 DEF PoolInv
<1> QED
  BY <1>2, <1>3

\* Choosing again looks at what was not attempted only.
LEMMA ChooseKeeps ==
    ASSUME PoolInv, NEW r \in Readers, NEW ix, OthersHold(ix, r),
           NEW q \in Reads, r \in InFlight => q.attempted = read[r].attempted,
           Choose(r, ix, q), clock' = clock
    PROVE  PoolInv' /\ \A o \in InFlight : AsksAnew(o)
<1> DEFINE available == DOMAIN Providers \ q.attempted
           usable == {p \in available : State(ix, Providers[p], q.since) # "open"}
           last == usable = {}
           rest == IF usable = {} THEN available ELSE usable
           next == [q EXCEPT !.lastResort = last, !.rest = rest]
<1>1. Proceed(r, ix, next)
  BY DEF Choose
<1>2. last \in BOOLEAN /\ rest \in SUBSET DOMAIN Providers /\ rest \cap q.attempted = {}
  OBVIOUS
<1> HIDE DEF last, rest
<1>3. next \in Reads
  BY <1>2 DEF Reads
<1>4. next.rest = rest /\ next.attempted = q.attempted
  BY DEF Reads
<1> HIDE DEF next
<1>5. Untried(next)
  BY <1>2, <1>4 DEF Untried
<1> QED
  BY <1>1, <1>3, <1>4, <1>5, ProceedKeeps

LEMMA OutcomeFrees ==
    ASSUME PoolInv, NEW r \in InFlight, NEW iy,
           iy \in {RecordSuccess(index, HostOf(r), read[r].since),
                   RecordFailure(index, HostOf(r), read[r].since),
                   Open(index, HostOf(r), read[r].since)}
    PROVE  OthersHold(iy, r)
<1>1. Shaped(index) /\ HostOf(r) \in Hosts
  BY PoolTyped
<1>2. Shaped(iy) /\ Probed(iy) \subseteq Probed(index) \ {HostOf(r)}
  BY <1>1, OutcomesProbed
<1> QED
  BY <1>2, PoolTyped DEF OthersHold

LEMMA BeginKeeps ==
    ASSUME PoolInv, NEW r \in Readers, Begin(r)
    PROVE  PoolInv' /\ \A o \in InFlight : AsksAnew(o)
<1>1. PICK task \in {"balance", "url"}, now \in 1 .. clock :
          Choose(r, index, [NoRead EXCEPT !.task = task, !.since = now])
  BY DEF Begin
<1>2. read[r].pc = "idle" /\ clock' = clock
  BY DEF Begin
<1> DEFINE q == [NoRead EXCEPT !.task = task, !.since = now]
<1>3. now \in Nat
  BY PoolTyped
<1>4. q \in Reads /\ q.attempted = {}
  BY <1>3 DEF NoRead, Reads
<1>5. r \notin InFlight
  BY <1>2 DEF InFlight
<1>6. OthersHold(index, r)
  BY <1>5, PoolTyped DEF OthersHold
<1> HIDE DEF q
<1> QED
  BY <1>1, <1>2, <1>4, <1>5, <1>6, ChooseKeeps DEF q

\* A response, or the proof of a cluster, moves the read on and nothing else.
LEMMA MovesOnKeeps ==
    ASSUME PoolInv, NEW r \in InFlight, UNCHANGED <<clock, index>>,
           NEW q \in Reads, q.pc # "idle", q.pc = "reading" \/ q.part = "body",
           q.at = read[r].at, q.rest = read[r].rest, q.attempted = read[r].attempted,
           q.probe = read[r].probe,
           read' = [read EXCEPT ![r] = q]
    PROVE  PoolInv' /\ \A o \in InFlight : AsksAnew(o)
<1>1. /\ read' \in [Readers -> Reads] /\ read'[r] = q /\ r \in Readers
      /\ \A o \in Readers \ {r} : read'[o] = read[o]
  BY PoolTyped
<1>2. InFlight' = InFlight
  BY <1>1 DEF InFlight
<1>3. \A o \in Readers : /\ read'[o].at = read[o].at /\ read'[o].rest = read[o].rest
                          /\ read'[o].attempted = read[o].attempted
                          /\ read'[o].probe = read[o].probe
  BY <1>1
<1>4. ReadTyped'
  BY <1>1, PoolTyped DEF ReadTyped, Shaped, IsHealth
<1>5. Called' /\ UntriedInv'
  BY <1>2, <1>3, PoolTyped DEF PoolInv, Called, UntriedInv, Untried
<1>6. ProbeHasHolder'
  BY <1>2, <1>3, PoolTyped DEF PoolInv, ProbeHasHolder, HostOf
<1>7. ~(q.pc = "proving" /\ q.part = "headers")
  OBVIOUS
<1>8. \A o \in InFlight : AsksAnew(o)
  BY <1>1, <1>7, PoolTyped DEF AsksAnew
<1> QED
  BY <1>4, <1>5, <1>6, <1>8 DEF PoolInv

LEMMA HeadersArriveKeeps ==
    ASSUME PoolInv, NEW r \in Readers, HeadersArrive(r)
    PROVE  PoolInv' /\ \A o \in InFlight : AsksAnew(o)
<1> DEFINE q == [read[r] EXCEPT !.part = "body"]
<1>1. r \in InFlight /\ UNCHANGED <<clock, index>> /\ read' = [read EXCEPT ![r] = q]
  BY DEF HeadersArrive, InFlight
<1>2. read[r] \in Reads
  BY PoolTyped
<1>3. /\ q \in Reads /\ q.part = "body" /\ q.pc = read[r].pc
      /\ q.at = read[r].at /\ q.rest = read[r].rest /\ q.attempted = read[r].attempted
      /\ q.probe = read[r].probe
  BY <1>2 DEF Reads
<1>4. q.pc # "idle"
  BY <1>1, <1>3 DEF InFlight
<1> HIDE DEF q
<1> QED
  BY <1>1, <1>3, <1>4, MovesOnKeeps

LEMMA ClusterMatchesKeeps ==
    ASSUME PoolInv, NEW r \in Readers, ClusterMatches(r)
    PROVE  PoolInv' /\ \A o \in InFlight : AsksAnew(o)
<1>1. r \in InFlight /\ clock' = clock
  BY DEF ClusterMatches, InFlight
<1>2. CASE read[r].task = "url"
  <2>1. /\ index' = RecordSuccess(index, HostOf(r), read[r].since)
        /\ read' = [read EXCEPT ![r] = NoRead]
    BY <1>2 DEF ClusterMatches
  <2>2. OthersHold(index', r)
    BY <1>1, <2>1, OutcomeFrees
  <2> QED
    BY <1>1, <2>1, <2>2, ReadOver
<1>3. CASE read[r].task # "url"
  <2> DEFINE q == [read[r] EXCEPT !.pc = "reading", !.part = "headers", !.sent = clock]
  <2>1. /\ index' = index
        /\ read' = [read EXCEPT ![r].pc = "reading", ![r].part = "headers", ![r].sent = clock]
    BY <1>3 DEF ClusterMatches
  <2>2. read[r] \in Reads /\ clock \in Nat /\ read \in [Readers -> Reads]
    BY PoolTyped
  <2>3. read' = [read EXCEPT ![r] = q]
    BY <2>1, <2>2
  <2>4. /\ q \in Reads /\ q.pc = "reading"
        /\ q.at = read[r].at /\ q.rest = read[r].rest /\ q.attempted = read[r].attempted
        /\ q.probe = read[r].probe
    BY <2>2 DEF Reads
  <2> HIDE DEF q
  <2> QED
    BY <1>1, <2>1, <2>3, <2>4, MovesOnKeeps
<1> QED
  BY <1>2, <1>3

LEMMA ClusterDiffersKeeps ==
    ASSUME PoolInv, NEW r \in Readers, ClusterDiffers(r)
    PROVE  PoolInv' /\ \A o \in InFlight : AsksAnew(o)
<1> DEFINE ix == Open(index, HostOf(r), read[r].since)
<1>1. r \in InFlight /\ clock' = clock /\ Proceed(r, ix, read[r])
  BY DEF ClusterDiffers, InFlight
<1>2. OthersHold(ix, r)
  BY <1>1, OutcomeFrees
<1>3. read[r] \in Reads /\ Untried(read[r])
  BY PoolTyped DEF PoolInv, UntriedInv
<1> HIDE DEF ix
<1> QED
  BY <1>1, <1>2, <1>3, ProceedKeeps

LEMMA BalanceReadsKeeps ==
    ASSUME PoolInv, NEW r \in Readers, BalanceReads(r)
    PROVE  PoolInv' /\ \A o \in InFlight : AsksAnew(o)
<1>1. /\ r \in InFlight /\ clock' = clock
      /\ index' = RecordSuccess(index, HostOf(r), read[r].since)
      /\ read' = [read EXCEPT ![r] = NoRead]
  BY DEF BalanceReads, InFlight
<1>2. OthersHold(index', r)
  BY <1>1, OutcomeFrees
<1> QED
  BY <1>1, <1>2, ReadOver

LEMMA CallFailedKeeps ==
    ASSUME PoolInv, NEW r \in Readers, read[r].pc # "idle", CallFailed(r)
    PROVE  PoolInv' /\ \A o \in InFlight : AsksAnew(o)
<1> DEFINE ix == RecordFailure(index, HostOf(r), read[r].since)
<1>1. r \in InFlight /\ clock' = clock
      /\ IF read[r].pc = "proving" THEN Proceed(r, ix, read[r]) ELSE Choose(r, ix, read[r])
  BY DEF CallFailed, InFlight
<1>2. OthersHold(ix, r)
  BY <1>1, OutcomeFrees
<1>3. read[r] \in Reads /\ Untried(read[r])
  BY PoolTyped DEF PoolInv, UntriedInv
<1> HIDE DEF ix
<1>4. CASE read[r].pc = "proving"
  BY <1>1, <1>2, <1>3, <1>4, ProceedKeeps
<1>5. CASE read[r].pc # "proving"
  BY <1>1, <1>2, <1>3, <1>5, ChooseKeeps
<1> QED
  BY <1>4, <1>5

LEMMA ResetHealthKeeps ==
    ASSUME PoolInv, ResetHealth
    PROVE  PoolInv' /\ \A o \in InFlight : AsksAnew(o)
<1>1. clock' = clock /\ read' = read
  BY DEF ResetHealth
<1>2. Shaped(index') /\ \A h \in Hosts : index'.of[h].probing => index.of[h].probing
  <2>1. CASE index' = Empty
    BY <2>1, AbsentShaped DEF Empty, Shaped
  <2>2. CASE index' = Without(index, ToSet(Providers))
    BY <2>2, AbsentShaped, WithoutProbed, PoolTyped DEF Without, Shaped
  <2> QED
    BY <2>1, <2>2 DEF ResetHealth
<1>3. ReadTyped'
  BY <1>1, <1>2, PoolTyped DEF ReadTyped, Shaped, IsHealth
<1>4. Called' /\ UntriedInv' /\ ProbeHasHolder'
  BY <1>1, <1>2 DEF PoolInv, Called, UntriedInv, InFlight, ProbeHasHolder, HostOf
<1>5. \A o \in InFlight : AsksAnew(o)
  BY <1>1 DEF AsksAnew
<1> QED
  BY <1>3, <1>4, <1>5 DEF PoolInv

LEMMA PoolStep ==
    ASSUME PoolInv, [Next]_vars
    PROVE  PoolInv' /\ \A o \in InFlight : AsksAnew(o)
<1>1. ASSUME NEW r \in Readers,
             \/ Begin(r) \/ HeadersArrive(r) \/ ClusterMatches(r) \/ ClusterDiffers(r)
             \/ BalanceReads(r) \/ ProviderFails(r) \/ DeadlinePasses(r)
      PROVE  PoolInv' /\ \A o \in InFlight : AsksAnew(o)
  <2>1. ProviderFails(r) \/ DeadlinePasses(r) => read[r].pc # "idle" /\ CallFailed(r)
    BY DEF ProviderFails, DeadlinePasses
  <2> QED
    BY <1>1, <2>1, BeginKeeps, HeadersArriveKeeps, ClusterMatchesKeeps, ClusterDiffersKeeps,
       BalanceReadsKeeps, CallFailedKeeps
<1>2. CASE Tick \/ UNCHANGED vars
  <2>1. read' = read /\ index' = index /\ clock' \in {clock, clock + 1}
    BY <1>2 DEF Tick, vars
  <2>2. ReadTyped' /\ Called' /\ UntriedInv' /\ ProbeHasHolder'
    BY <2>1, PoolTyped DEF PoolInv, ReadTyped, Shaped, IsHealth, Called, UntriedInv,
       ProbeHasHolder, InFlight, HostOf
  <2>3. \A o \in InFlight : AsksAnew(o)
    BY <2>1 DEF AsksAnew
  <2> QED
    BY <2>2, <2>3 DEF PoolInv
<1>3. CASE ResetHealth
  BY <1>3, ResetHealthKeeps
<1> QED
  BY <1>1, <1>2, <1>3 DEF Next

LEMMA PoolInitially ==
    ASSUME Init PROVE PoolInv
<1>1. index = Empty /\ read = [r \in Readers |-> NoRead] /\ clock = 1
  BY DEF Init
<1>2. Shaped(index) /\ \A h \in Hosts : ~index.of[h].probing
  BY <1>1, AbsentShaped DEF Empty, Shaped
<1>3. InFlight = {} /\ \A r \in Readers : read[r] = NoRead
  BY <1>1, AbsentRead DEF InFlight
<1>4. ReadTyped
  BY <1>1, <1>2, AbsentRead DEF ReadTyped
<1> QED
  BY <1>2, <1>3, <1>4, AbsentRead DEF PoolInv, Called, UntriedInv, ProbeHasHolder

LEMMA PoolInvHolds == Spec => []PoolInv
<1>1. PoolInv /\ [Next]_vars => PoolInv'
  BY PoolStep
<1> QED
  BY <1>1, PoolInitially, PTL DEF Spec

\* The one probe of a half-open circuit is held by a read that is in flight,
\* through the proof of the cluster and through every choice made again
\* (solana/rpc.ts, #withValidatedEndpoint and readBalance).
THEOREM ProbeHeldThroughChoices == Spec => []ProbeHasHolder
<1>1. PoolInv => ProbeHasHolder
  BY DEF PoolInv
<1> QED
  BY <1>1, PoolInvHolds, PTL

\* A read never asks an endpoint a second time, however often it chooses again
\* (solana/rpc.ts, the set of attempted endpoints).
THEOREM NeverAsksTwice == Spec => NeverAskedTwice
<1>1. PoolInv /\ [Next]_vars =>
        [\A r \in InFlight :
            /\ read'[r] # read[r]
            /\ read'[r].pc = "proving" /\ read'[r].part = "headers"
            => /\ read'[r].at \notin read[r].attempted
               /\ read'[r].at \in read'[r].attempted]_vars
  BY PoolStep DEF AsksAnew
<1> QED
  BY <1>1, PoolInvHolds, PTL DEF Spec, NeverAskedTwice
===============================================================================
