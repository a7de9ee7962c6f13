------------------------------ MODULE SvmRpcPool -------------------------------
(***************************************************************************)
(* SvmRpcPool (solana/rpc.ts): balance reads, and the choice of a proven   *)
(* RPC URL before signing, over the same kind of health index.  It differs *)
(* from the EVM pool where this module does: an endpoint proves its        *)
(* cluster in #withValidatedEndpoint, a balance read that then fails       *)
(* chooses again among the endpoints it has not attempted, and the         *)
(* deadline of a call covers its headers only.                             *)
(***************************************************************************)
EXTENDS HealthIndex

CONSTANTS
    Readers,    \* reads and choices that may be in flight together
    Providers,  \* the host of each (distinct) RPC URL, in manifest order
    Lasts,      \* bound: the headers of a call are given up within this long
    MaxTime,    \* bound on the clock
    MaxReads    \* bound on the reads begun

ASSUME ProvidersAssumption == Providers \in Seq(Hosts)

VARIABLES clock, index, read, begun

vars == <<clock, index, read, begun>>

NoRead == [pc |-> "idle", task |-> "balance", part |-> "headers", sent |-> 0,
           at |-> 0, rest |-> {}, attempted |-> {}, lastResort |-> FALSE,
           since |-> 0, probe |-> FALSE]

InFlight == {r \in Readers : read[r].pc # "idle"}
HostOf(r) == Providers[read[r].at]

TypeOK ==
    /\ clock \in 1 .. MaxTime
    /\ begun \in 0 .. MaxReads
    /\ IsIndex(index)
    /\ read \in [Readers -> [pc : {"idle", "proving", "reading"},
                             task : {"balance", "url"},
                             part : {"headers", "body"},
                             sent : 0 .. MaxTime,
                             at : 0 .. Len(Providers),
                             rest : SUBSET DOMAIN Providers,
                             attempted : SUBSET DOMAIN Providers,
                             lastResort : BOOLEAN,
                             since : 0 .. MaxTime,
                             probe : BOOLEAN]]

Init ==
    /\ clock = 1
    /\ index = Empty
    /\ read = [r \in Readers |-> NoRead]
    /\ begun = 0

Refuses(ix, q, p) ==
    ~q.lastResort /\ Admission(ix, Providers[p], q.since) = "open"

\* The loop of #withValidatedEndpoint from here to its next await, or its throw,
\* which ends the read.  An endpoint passed over counts as attempted.
Proceed(r, ix, q) ==
    LET admitted == {p \in q.rest : ~Refuses(ix, q, p)}
        p == Min(admitted)
        host == Providers[p]
    IN IF admitted = {}
       THEN index' = ix /\ read' = [read EXCEPT ![r] = NoRead]
       ELSE /\ index' = IF q.lastResort THEN ix ELSE Admit(ix, host, q.since)
            /\ read' = [read EXCEPT ![r] =
                  [q EXCEPT !.pc = "proving", !.part = "headers", !.sent = clock,
                            !.at = p,
                            !.rest = {x \in q.rest : x > p},
                            !.attempted = @ \cup {x \in q.rest : x <= p},
                            !.probe = /\ ~q.lastResort
                                      /\ Admission(ix, host, q.since) = "half-open"]]

\* Mutant of Choose: a read that chooses again does not remember its attempts.
ChooseAfresh(r, ix, q) ==
    LET all == DOMAIN Providers
        usable == {p \in all : State(ix, Providers[p], q.since) # "open"}
    IN Proceed(r, ix, [q EXCEPT !.lastResort = usable = {},
                                !.rest = IF usable = {} THEN all ELSE usable])

\* #withValidatedEndpoint from its start: the last resort is judged among the
\* endpoints this read has not attempted.
Choose(r, ix, q) ==
    LET available == DOMAIN Providers \ q.attempted
        usable == {p \in available : State(ix, Providers[p], q.since) # "open"}
    IN Proceed(r, ix, [q EXCEPT !.lastResort = usable = {},
                                !.rest = IF usable = {} THEN available ELSE usable])

\* The client took the time of the call before it loaded the adapter and asked
\* the signer for its public key; nothing bounds how long that takes.
Begin(r) ==
    /\ read[r].pc = "idle"
    /\ begun < MaxReads
    /\ \E task \in {"balance", "url"}, now \in 1 .. clock :
          Choose(r, index, [NoRead EXCEPT !.task = task, !.since = now])
    /\ begun' = begun + 1
    /\ UNCHANGED clock

\* The response of the pending call: its body is still to be read.
HeadersArrive(r) ==
    /\ read[r].pc # "idle" /\ read[r].part = "headers"
    /\ read' = [read EXCEPT ![r].part = "body"]
    /\ UNCHANGED <<clock, index, begun>>

\* getGenesisHash names the cluster: a balance read asks for the account next,
\* a choice of URL is done.
ClusterMatches(r) ==
    /\ read[r].pc = "proving" /\ read[r].part = "body"
    /\ IF read[r].task = "url"
       THEN /\ index' = RecordSuccess(index, HostOf(r), read[r].since)
            /\ read' = [read EXCEPT ![r] = NoRead]
       ELSE /\ read' = [read EXCEPT ![r].pc = "reading", ![r].part = "headers",
                                    ![r].sent = clock]
            /\ UNCHANGED index
    /\ UNCHANGED <<clock, begun>>

ClusterDiffers(r) ==
    /\ read[r].pc = "proving" /\ read[r].part = "body"
    /\ \E ix \in {Open(index, HostOf(r), read[r].since)} : Proceed(r, ix, read[r])
    /\ UNCHANGED <<clock, begun>>

BalanceReads(r) ==
    /\ read[r].pc = "reading" /\ read[r].part = "body"
    /\ index' = RecordSuccess(index, HostOf(r), read[r].since)
    /\ read' = [read EXCEPT ![r] = NoRead]
    /\ UNCHANGED <<clock, begun>>

\* The failure of a call is recorded.  While the cluster is being proven the
\* loop goes on; after that, readBalance chooses again while an endpoint is left.
\* (\E and not LET: TLC evaluates ENABLED with an argument anew at each use.)
CallFailed(r) ==
    /\ \E ix \in {RecordFailure(index, HostOf(r), read[r].since)} :
          IF read[r].pc = "proving" THEN Proceed(r, ix, read[r])
          ELSE Choose(r, ix, read[r])
    /\ UNCHANGED <<clock, begun>>

\* The provider refuses, or what it answers cannot be read.
ProviderFails(r) == read[r].pc # "idle" /\ CallFailed(r)

\* raceRpcDeadline expires: only the response is raced, never its body.
DeadlinePasses(r) == read[r].pc # "idle" /\ read[r].part = "headers" /\ CallFailed(r)

\* client.resetHealth() empties the index, the adapter's forgets its own hosts.
ResetHealth ==
    /\ index' \in {Empty, Without(index, ToSet(Providers))}
    /\ UNCHANGED <<clock, read, begun>>

Tick ==
    /\ clock < MaxTime
    /\ \A r \in InFlight : read[r].part = "headers" => clock < read[r].sent + Lasts
    /\ clock' = clock + 1
    /\ UNCHANGED <<index, read, begun>>

Next ==
    \/ \E r \in Readers :
          \/ Begin(r) \/ HeadersArrive(r) \/ ClusterMatches(r) \/ ClusterDiffers(r)
          \/ BalanceReads(r) \/ ProviderFails(r) \/ DeadlinePasses(r)
    \/ ResetHealth \/ Tick

Spec == Init /\ [][Next]_vars

\* A provider owes nothing; an armed deadline fires.
FairSpec == Spec /\ \A r \in Readers : WF_vars(DeadlinePasses(r))

-----------------------------------------------------------------------------
\* The one probe of a half-open circuit belongs to a read still in flight: every
\* path through the two nested loops gives it back.
ProbeHasHolder ==
    \A h \in Hosts : index.of[h].probing =>
        \E r \in InFlight : read[r].probe /\ HostOf(r) = h

\* No endpoint is asked twice by one read, however often it chooses again.
NeverAskedTwice ==
    [][\A r \in InFlight :
          /\ read'[r] # read[r]
          /\ read'[r].pc = "proving" /\ read'[r].part = "headers"
          => /\ read'[r].at \notin read[r].attempted
             /\ read'[r].at \in read'[r].attempted]_vars

\* Every read ends, whatever its providers do.
EveryReadEnds == \A r \in Readers : read[r].pc # "idle" ~> read[r].pc = "idle"
===============================================================================
