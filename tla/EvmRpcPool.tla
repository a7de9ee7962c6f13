------------------------------ MODULE EvmRpcPool -------------------------------
(***************************************************************************)
(* Balance reads through EvmRpcPool (evm/rpc.ts), many at a time over one  *)
(* health index.  A step of a read is what runs between two awaits: the    *)
(* outcome of one JSON-RPC call is recorded and the loop goes on to the    *)
(* next endpoint that admits it, in the same turn.                         *)
(***************************************************************************)
EXTENDS HealthIndex

CONSTANTS
    Readers,    \* balance reads that may be in flight together
    Providers,  \* the host of each RPC URL of the network, in manifest order
    OtherHosts, \* hosts of the other networks in the client's index
    Lasts,      \* bound: a read ends within this long of the time it was given
    MaxTime,    \* bound on the clock
    MaxReads    \* bound on the reads begun, another network's included

ASSUME ProvidersAssumption ==
    /\ Providers \in Seq(Hosts) /\ OtherHosts \subseteq Hosts
    /\ OtherHosts \cap ToSet(Providers) = {}

\* Two providers, two calls of 600 ms each, and before them the adapter and the
\* signer's address, which no deadline holds, against a window of 30 s.
ASSUME DeadlinesAssumption == Lasts \in Nat \ {0} /\ 2 * Lasts < OpenFor

ASSUME BoundsAssumption == MaxTime \in Nat \ {0} /\ MaxReads \in Nat

VARIABLES clock, index, read, begun

vars == <<clock, index, read, begun>>

\* The locals of a readBalance that no call is pending in.
NoRead == [pc |-> "idle", at |-> 0, rest |-> {}, lastResort |-> FALSE,
           since |-> 0, probe |-> FALSE]

InFlight == {r \in Readers : read[r].pc # "idle"}
HostOf(r) == Providers[read[r].at]

TypeOK ==
    /\ clock \in 1 .. MaxTime
    /\ begun \in 0 .. MaxReads
    /\ IsIndex(index)
    /\ read \in [Readers -> [pc : {"idle", "proving", "reading"},
                             at : 0 .. Len(Providers),
                             rest : SUBSET DOMAIN Providers,
                             lastResort : BOOLEAN,
                             since : 0 .. MaxTime,
                             probe : BOOLEAN]]

Init ==
    /\ clock = 1
    /\ index = Empty
    /\ read = [r \in Readers |-> NoRead]
    /\ begun = 0

\* Mutant of Refuses: the circuit is not looked at again after the first filter.
RefusesNever(ix, q, p) == FALSE

Refuses(ix, q, p) ==
    ~q.lastResort /\ Admission(ix, Providers[p], q.since) = "open"

\* The loop from here to its next await, or to its throw: it goes through the
\* rest of its endpoints in manifest order.
Proceed(r, ix, q) ==
    LET admitted == {p \in q.rest : ~Refuses(ix, q, p)}
        p == Min(admitted)
        host == Providers[p]
    IN IF admitted = {}
       THEN index' = ix /\ read' = [read EXCEPT ![r] = NoRead]
       ELSE /\ index' = IF q.lastResort THEN ix ELSE Admit(ix, host, q.since)
            /\ read' = [read EXCEPT ![r] =
                  [q EXCEPT !.pc = "proving", !.at = p,
                            !.rest = {x \in q.rest : x > p},
                            !.probe = /\ ~q.lastResort
                                      /\ Admission(ix, host, q.since) = "half-open"]]

\* The endpoints a read given the time `now' starts with.
Start(now) ==
    LET all == DOMAIN Providers
        usable == {p \in all : State(index, Providers[p], now) # "open"}
    IN [NoRead EXCEPT !.since = now,
                      !.lastResort = usable = {},
                      !.rest = IF usable = {} THEN all ELSE usable]

\* The planner took the time of the read before it loaded the adapter and asked
\* the signer for its address.
Begin(r) ==
    /\ read[r].pc = "idle"
    /\ begun < MaxReads
    /\ \E now \in 1 .. clock : clock <= now + Lasts /\ Proceed(r, index, Start(now))
    /\ begun' = begun + 1
    /\ UNCHANGED clock

\* eth_chainId answered with the chain of the requirement: read the balance.
ChainMatches(r) ==
    /\ read[r].pc = "proving"
    /\ read' = [read EXCEPT ![r].pc = "reading"]
    /\ UNCHANGED <<clock, index, begun>>

ChainDiffers(r) ==
    /\ read[r].pc = "proving"
    /\ Proceed(r, Open(index, HostOf(r), read[r].since), read[r])
    /\ UNCHANGED <<clock, begun>>

BalanceReads(r) ==
    /\ read[r].pc = "reading"
    /\ index' = RecordSuccess(index, HostOf(r), read[r].since)
    /\ read' = [read EXCEPT ![r] = NoRead]
    /\ UNCHANGED <<clock, begun>>

\* An HTTP or JSON-RPC error, an unreadable answer, or the deadline of the
\* call, which AbortSignal.timeout holds over the body as well.
CallFails(r) ==
    /\ read[r].pc \in {"proving", "reading"}
    /\ Proceed(r, RecordFailure(index, HostOf(r), read[r].since), read[r])
    /\ UNCHANGED <<clock, begun>>

\* Another network's pool records into the same index.
OtherPoolRecords ==
    /\ begun < MaxReads
    /\ \E h \in OtherHosts : \/ index' = RecordSuccess(index, h, clock)
                             \/ index' = RecordFailure(index, h, clock)
    /\ begun' = begun + 1
    /\ UNCHANGED <<clock, read>>

\* client.resetHealth() empties the index, the adapter's forgets its own hosts.
ResetHealth ==
    /\ index' \in {Empty, Without(index, ToSet(Providers))}
    /\ UNCHANGED <<clock, read, begun>>

Tick ==
    /\ clock < MaxTime
    /\ \A r \in InFlight : clock < read[r].since + Lasts
    /\ clock' = clock + 1
    /\ UNCHANGED <<index, read, begun>>

Next ==
    \/ \E r \in Readers : Begin(r) \/ ChainMatches(r) \/ ChainDiffers(r)
                            \/ BalanceReads(r) \/ CallFails(r)
    \/ OtherPoolRecords \/ ResetHealth \/ Tick

Spec == Init /\ [][Next]_vars

-----------------------------------------------------------------------------
\* The one probe of a half-open circuit belongs to a read that is still in
\* flight: every way out of a call gives it back, or the endpoint would be
\* refused to every later read.
ProbeHasHolder ==
    \A h \in Hosts : index.of[h].probing =>
        \E r \in InFlight : read[r].probe /\ HostOf(r) = h

\* A host whose circuit opened after a read chose its endpoints is not taken up
\* by it: an open circuit is asked for its chain as a last resort only.  The
\* balance is then asked for without a second look at the circuit, which another
\* read may have opened meanwhile (rpc.ts:180).
OpenNeedsLastResort ==
    [][\A r \in Readers :
          read'[r].pc = "proving" /\ read'[r] # read[r]
            => \/ read'[r].lastResort
               \/ State(index', Providers[read'[r].at], read'[r].since) # "open"]_vars

\* A probe that fails leaves its circuit open, for the whole window but for the
\* age of the read.
FailedProbeReopens ==
    [][\A r \in InFlight :
          /\ read[r].probe
          /\ State(index, HostOf(r), clock) = "half-open"
          /\ index'.of[HostOf(r)].failures > index.of[HostOf(r)].failures
          => State(index', HostOf(r), clock) = "open"]_vars

\* A circuit that closes takes more than one failure to open again: the history
\* that opened it is gone.
RecoversForGood ==
    [][\A h \in Hosts :
          index.of[h].openedAt # 0 /\ index'.of[h].openedAt = 0
            => RecordFailure(index', h, clock).of[h].openedAt = 0]_vars

\* A host's history makes room for another's only when nothing has used it for
\* the retention time, or when the index is full.
EvictsForCause ==
    [][\A g, h \in Hosts :
          /\ index.of[g] = NoHealth /\ index'.of[g] # NoHealth
          /\ index.of[h] # NoHealth /\ index'.of[h] = NoHealth
          => \/ clock - index.of[h].lastUsed >= IdleFor
             \/ Cardinality(Tracked(index')) = MaxEndpoints]_vars
===============================================================================
