------------------------------ MODULE RoutePlanner ------------------------------
(***************************************************************************)
(* Route planning after the policy pass: planSelectedRoute of              *)
(* core/client.ts, planRoutes of core/routing.ts, and the planRoute of the *)
(* two chain adapters as far as the balance read.                          *)
(*                                                                         *)
(* Every offer that passed is probed at once.  Probes share the adapter of *)
(* their family and the signer's address, both looked up once per client,  *)
(* and, within a pass, the balance of an account.  Only when all have come *)
(* back is a route chosen, or the failure named.                           *)
(***************************************************************************)
EXTENDS PolicyEngine

CONSTANTS
    Family,         \* chain family of a network
    Signers,        \* families the caller configured a signer for; each has an adapter
    Token2022,      \* assets under the Token-2022 program
    Balances,       \* balances the chain may report
    Scores,         \* health scores an endpoint may have
    NoReading,      \* a balance nobody asked for yet
    Pending,        \* one under way
    Unreachable     \* one no endpoint could answer

ASSUME FamilyAssumption  == Family \in [Networks -> STRING]
ASSUME SignerAssumption  == Signers \subseteq {"eip155", "solana"}
ASSUME BalanceAssumption == Balances \subseteq Nat /\ Scores \subseteq Nat /\ Scores # {}
ASSUME ReadingAssumption ==
    /\ Balances \cap {NoReading, Pending, Unreachable} = {}
    /\ NoReading # Pending /\ Pending # Unreachable /\ Unreachable # NoReading

Families == { Family[n] : n \in Networks }

VARIABLES
    probe,    \* per pass: how far the probe of each offer is, or what it said
    reading,  \* per pass: the balance cache, per account
    reads,    \* per pass: balance reads handed to the pool, per account
    adapter,  \* runtime.adapters, per family
    address,  \* the signer's address, per family
    health,   \* the circuit and score of each network's endpoint, as last looked at
    chosen    \* the offer each pass selected, 0 before

planner == <<probe, reading, reads, adapter, address, health, chosen>>

\* The places of a probe that still runs, and the errors it may end in.
Running == {"idle", "adapter", "address", "balance"}
Errors  == {"config", "address-unavailable", "unusable", "method-unsupported", "transport"}
Lookups == {"none", "pending", "known"}

FamilyOf(p, i) == Family[Offer(p, i).network]

PlanInit ==
    /\ probe = [p \in Passes |-> [i \in {} |-> "idle"]]
    /\ reading = [p \in Passes |-> [a \in Accounts |-> NoReading]]
    /\ reads = [p \in Passes |-> [a \in Accounts |-> 0]]
    /\ adapter = [f \in Families |-> "none"]
    /\ address = [f \in Families |-> "none"]
    /\ health = [n \in Networks |-> [open |-> FALSE, score |-> Max(Scores)]]
    /\ chosen = [p \in Passes |-> 0]

-------------------------------------------------------------------------------
(* The probes.                                                             *)

Moves(p, i, to) == probe' = [probe EXCEPT ![p][i] = to]

\* A lookup is started by the first that asks and joined by the rest.
Asks(lookup, f) == IF lookup[f] = "none" THEN [lookup EXCEPT ![f] = "pending"] ELSE lookup

\* Mutant of AllWaiting: the failure of a shared lookup reaches nobody.
NobodyWaiting(f, where, to) == UNCHANGED probe

\* When a shared lookup fails, all that wait for it fail; the next to ask starts anew.
AllWaiting(f, where, to) ==
    probe' = [p \in Passes |-> [i \in DOMAIN probe[p] |->
                 IF probe[p][i] = where /\ FamilyOf(p, i) = f THEN to ELSE probe[p][i]]]

\* planRoutes hands out all probes together.
StartProbes(p) ==
    /\ place[p] = "route"
    /\ place' = [place EXCEPT ![p] = "probing"]
    /\ probe' = [probe EXCEPT ![p] = [i \in kept[p] |-> "idle"]]
    /\ UNCHANGED <<client, challenge, kept, left, error, books,
                   reading, reads, adapter, address, health, chosen>>

ProbeStarts(p, i) ==
    /\ probe[p][i] = "idle"
    /\ \/ FamilyOf(p, i) \notin Signers /\ Moves(p, i, "rejected") /\ UNCHANGED adapter
       \/ /\ FamilyOf(p, i) \in Signers
          /\ Moves(p, i, "adapter")
          /\ adapter' = Asks(adapter, FamilyOf(p, i))
    /\ UNCHANGED <<pass, books, reading, reads, address, health, chosen>>

\* An import that fails misses an optional peer dependency.
AdapterLoads(f) ==
    /\ adapter[f] = "pending"
    /\ \/ adapter' = [adapter EXCEPT ![f] = "known"] /\ UNCHANGED probe
       \/ /\ adapter' = [adapter EXCEPT ![f] = "none"]
          /\ AllWaiting(f, "adapter", "config")
    /\ UNCHANGED <<pass, books, reading, reads, address, health, chosen>>

ProbePrepares(p, i) ==
    /\ probe[p][i] = "adapter" /\ adapter[FamilyOf(p, i)] = "known"
    /\ Moves(p, i, "address")
    /\ address' = Asks(address, FamilyOf(p, i))
    /\ UNCHANGED <<pass, books, reading, reads, adapter, health, chosen>>

\* The probe that asked the signer throws a SignerError, those that joined it
\* what the signer threw: an address they could not have, either way.
SignerAnswers(f) ==
    /\ address[f] = "pending"
    /\ \/ address' = [address EXCEPT ![f] = "known"] /\ UNCHANGED probe
       \/ /\ address' = [address EXCEPT ![f] = "none"]
          /\ AllWaiting(f, "address", "address-unavailable")
    /\ UNCHANGED <<pass, books, reading, reads, adapter, health, chosen>>

\* Mutant of BalanceAsked: the cache is filled by the answer, not by the question.
BalanceAskedAgain(p, a) ==
    /\ reads' = [reads EXCEPT ![p][a] = IF reading[p][a] \in {NoReading, Pending}
                                        THEN @ + 1 ELSE @]
    /\ reading' = [reading EXCEPT ![p][a] = IF @ = NoReading THEN Pending ELSE @]

\* The read under way is joined; only the first to ask starts one.
BalanceAsked(p, a) ==
    \/ /\ reading[p][a] = NoReading
       /\ reading' = [reading EXCEPT ![p][a] = Pending]
       /\ reads' = [reads EXCEPT ![p][a] = @ + 1]
    \/ reading[p][a] # NoReading /\ UNCHANGED <<reading, reads>>

\* What the adapter of a family says of an offer before it asks for the balance:
\* a transfer method other than EIP-3009, or no domain of the token to sign in.
PlanExactEvm(offer) ==
    LET method == Property(offer.extra, "assetTransferMethod")
    IN  CASE method # Absent /\ ~(IsString(method) /\ method.is = "eip3009") -> "method-unsupported"
          [] OTHER -> IF Accepted(Property(offer.extra, "name")) THEN "balance" ELSE "unusable"

\* A manifest asset under Token-2022 is a fault of the configuration; without an
\* address that pays the fee there is no transaction.
PlanExactSvm(offer) ==
    CASE offer.asset \in Token2022 -> "config"
      [] offer.asset \notin Token2022 ->
             IF Accepted(Property(offer.extra, "feePayer")) THEN "balance" ELSE "unusable"

PlanExact(p, i) == IF FamilyOf(p, i) = "eip155" THEN PlanExactEvm(Offer(p, i))
                                                ELSE PlanExactSvm(Offer(p, i))

ProbePlans(p, i) ==
    /\ probe[p][i] = "address" /\ address[FamilyOf(p, i)] = "known"
    /\ Moves(p, i, PlanExact(p, i))
    /\ \/ PlanExact(p, i) # "balance" /\ UNCHANGED <<reading, reads>>
       \/ PlanExact(p, i) = "balance" /\ BalanceAsked(p, Account(Offer(p, i)))
    /\ UNCHANGED <<pass, books, adapter, address, health, chosen>>

\* The pool answers with a balance or, having tried its endpoints, with an outage.
BalanceArrives(p, a) ==
    /\ reading[p][a] = Pending
    /\ \E b \in Balances \cup {Unreachable} :
           reading' = [reading EXCEPT ![p][a] = b]
    /\ UNCHANGED <<pass, books, probe, reads, adapter, address, health, chosen>>

ProbeScores(p, i) ==
    /\ probe[p][i] = "balance"
    /\ LET b == reading[p][Account(Offer(p, i))]
       IN  \/ b = Unreachable /\ Moves(p, i, "transport")
           \/ b \in Balances /\ b >= Offer(p, i).amount /\ Moves(p, i, "viable")
           \/ b \in Balances /\ b < Offer(p, i).amount /\ Moves(p, i, "short")
    /\ UNCHANGED <<pass, books, reading, reads, adapter, address, health, chosen>>

-------------------------------------------------------------------------------
(* The order of step 18, and the verdict of step 20.                       *)

Preference(n) == Min({ k \in DOMAIN client.preferNetworks : client.preferNetworks[k] = n }
                        \cup {Len(client.preferNetworks) + 1})

\* The keys below viability; fees are zero on both families, latency is left out.
SortKey(p, i) ==
    LET n == Offer(p, i).network
    IN  << IF health'[n].open THEN 1 ELSE 0, Preference(n), -health'[n].score, i >>

Precedes(j, k) == \E m \in DOMAIN j : j[m] < k[m] /\ \A l \in 1 .. m - 1 : j[l] = k[l]

Saying(p, words) == { i \in DOMAIN probe[p] : probe[p][i] \in words }
Returned(p)      == Saying(p, Running) = {}

\* The endpoints of the candidates are looked at, and no others.
LooksAtHealth(p) ==
    /\ health' \in [Networks -> [open : BOOLEAN, score : Scores]]
    /\ \A n \in Networks : health'[n] # health[n] =>
                              \E i \in DOMAIN probe[p] : n = Offer(p, i).network

\* Mutant of Selects: the first viable answer wins.
SelectsFirst(p) ==
    /\ place[p] = "probing" /\ LooksAtHealth(p)
    /\ \E i \in Saying(p, {"viable"}) :
           /\ chosen' = [chosen EXCEPT ![p] = i]
    /\ Enters(p, "planned", kept[p], {})
    /\ UNCHANGED <<client, challenge, books, probe, reading, reads, adapter, address>>

Selects(p) ==
    /\ place[p] = "probing" /\ Returned(p) /\ LooksAtHealth(p)
    /\ \E i \in Saying(p, {"viable"}) :
           /\ \A j \in Saying(p, {"viable"}) \ {i} :
                  Precedes(SortKey(p, i), SortKey(p, j))
           /\ chosen' = [chosen EXCEPT ![p] = i]
    /\ Enters(p, "planned", kept[p], {})
    /\ UNCHANGED <<client, challenge, books, probe, reading, reads, adapter, address>>

\* Mutant of Verdict: whatever is not viable is reported as a lack of funds.
VerdictShort(p) ==
    IF Saying(p, {"rejected"}) = DOMAIN probe[p] THEN "unsupported" ELSE "liquidity"

\* Three cases that must not be conflated: nothing could be tried, nothing was
\* observed, or every balance that was observed is short.
Verdict(p) ==
    IF Saying(p, {"rejected"}) = DOMAIN probe[p] THEN "unsupported"
    ELSE IF Saying(p, {"short"}) = {} THEN probe[p][Min(Saying(p, Errors))]
    ELSE "liquidity"

Despairs(p) ==
    /\ place[p] = "probing" /\ Returned(p) /\ Saying(p, {"viable"}) = {}
    /\ Throws(p, Verdict(p))
    /\ UNCHANGED <<client, challenge, books, planner>>

Plan(p) == \/ StartProbes(p) \/ Selects(p) \/ Despairs(p)
           \/ \E i \in DOMAIN probe[p] : \/ ProbeStarts(p, i) \/ ProbePrepares(p, i)
                                         \/ ProbePlans(p, i) \/ ProbeScores(p, i)
           \/ \E a \in Accounts : BalanceArrives(p, a)

SharedLookup == \E f \in Families : AdapterLoads(f) \/ SignerAnswers(f)
===============================================================================
