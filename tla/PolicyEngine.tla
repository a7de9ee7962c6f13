------------------------------ MODULE PolicyEngine ------------------------------
(***************************************************************************)
(* core/policy.ts: PolicyEngine.evaluate, SPEC section 6.3 steps 7 to 12,  *)
(* for passes that run beside each other over one spend store.             *)
(*                                                                         *)
(* The pass filters the offers of a challenge.  Between its filters it     *)
(* awaits the store, once per offer, for pins, for the TOFU policy and for *)
(* the budget; what it read may be stale by the time it is used, and the   *)
(* atom of `reserve' decides again.  The pass itself writes nothing.       *)
(***************************************************************************)
EXTENDS Challenge

CONSTANTS
    Passes,           \* evaluations under way, one challenge each
    Challenges,       \* names of requests that are answered 402
    Replies,          \* what each was: [url, header]
    Manifests,        \* release manifests a caller may build a client from, by name
    Networks,         \* networks an offer may name
    Assets,           \* assets it may name
    AllowedDomains,   \* policy.allowedDomains: label sequences, "*" in front of a wildcard
    ConfiguredNetworks, \* policy.allowedNetworks, ids or aliases
    PreferNetworks,   \* routing.preferNetworks, a sequence of ids or aliases
    MaxPerRequest,    \* cap of one payment
    MaxPerHour,       \* cap of the rolling hour
    Modes,            \* recipient policies a caller may configure
    AllowEntries,     \* recipientPolicy.allow: a sequence of [host, network, recipients]
    Now,              \* the clock of the pass
    MaxQuoteAge,      \* policy.maxQuoteAge
    MaxFutureSkew,    \* MAX_FUTURE_SKEW_MS
    NoStamp           \* an offer without a timestamp

ASSUME PassAssumption   == IsFiniteSet(Passes)
ASSUME DomainAssumption == AllowedDomains # {}
ASSUME CapAssumption    == MaxPerRequest \in Nat /\ MaxPerHour \in Nat
ASSUME PreferAssumption == PreferNetworks \in Seq(STRING)
ASSUME ModeAssumption   == Modes \subseteq {"off", "allowlist", "tofu"}
ASSUME ReplyAssumption ==
    \A c \in Challenges :
        c \in DOMAIN Replies /\ (Replies[c].header # NoHeader => IsTree(Replies[c].header.document))

VARIABLES
    client,        \* the client, as it was built
    challenge,     \* the challenge of each pass, as it reads
    place,         \* where the pass stands
    kept,          \* offers that passed the filters so far
    left,          \* offers the filter under way has still to look at
    error,         \* what the pass threw
    taken,         \* the store: committed and reserved this hour, per asset
    pins,          \* the store: pinned recipients of the merchant, per network
    tofu           \* the store: the merchant's tofuEnabled

pass  == <<client, challenge, place, kept, left, error>>
books == <<taken, pins, tofu>>

Accounts == Networks \X Assets

\* A challenge as it reads: the request that met it, its first problem, its offers.
Decoded == [ c \in Challenges |->
    LET read == DecodePaymentRequired(Replies[c].header, Replies[c].url)
    IN  [request |-> c, flaw |-> read.flaw, requirements |-> read.requirements] ]

Problem(p)   == challenge[p].flaw
Offers(p)    == DOMAIN challenge[p].requirements
Offer(p, i)  == challenge[p].requirements[i]
Account(r)   == <<r.network, r.asset>>
NextOffer(p) == Min(left[p])

\* Manifests a client can be built on, and what a name means in each of them.
InForce == { m \in DOMAIN Manifests : VerifyReleaseManifest(Manifests[m], Now) = "fine" }

Resolved(m, queries) == { ResolveNetwork(m, q) : q \in queries }

AssetsOn(m, networks) ==
    { a \in Accounts : /\ a[1] \in networks /\ Declares(m, a[1]) /\ a[2] \in m.networks[a[1]] }

\* One root dot is dropped.
NormalizePolicyHost(host) == host.labels

HostOf(c) == NormalizePolicyHost(Replies[c].url.host)

\* Of two entries for one host and network, however spelled, the later replaces
\* the earlier.
EntriesFor(m, h, n) ==
    { k \in DOMAIN AllowEntries : /\ NormalizePolicyHost(AllowEntries[k].host) = h
                                  /\ ResolveNetwork(m, AllowEntries[k].network) = n }

AllowIn(m) ==
    LET Key(e) == <<NormalizePolicyHost(e.host), ResolveNetwork(m, e.network)>>
    IN  [ k \in { Key(e) : e \in Range(AllowEntries) } |->
              AllowEntries[Max(EntriesFor(m, k[1], k[2]))].recipients ]

\* What the constructor lets pass: a manifest in force, known networks, ordered
\* caps, an allow-list that is not empty.  (The store has pins to read: without
\* them it refuses mode `tofu'.)
Constructible(c) ==
    /\ c.manifest \in InForce
    /\ ConfiguredNetworks # {}
    /\ \A q \in ConfiguredNetworks \cup Range(PreferNetworks)
                  \cup { e.network : e \in Range(AllowEntries) } :
           Resolves(Manifests[c.manifest], q)
    /\ MaxPerRequest <= MaxPerHour
    /\ c.recipientMode = "allowlist" => AllowEntries # <<>>
    /\ \A e \in Range(AllowEntries) : e.recipients # {}

\* Names are resolved once, when the client is built.
Built(c) ==
    LET m == Manifests[c.manifest]
    IN  [recipientMode   |-> c.recipientMode,
         manifest        |-> c.manifest,
         allowedNetworks |-> Resolved(m, ConfiguredNetworks),
         assets          |-> AssetsOn(m, Resolved(m, ConfiguredNetworks)),
         allow           |-> AllowIn(m),
         preferNetworks  |-> [ k \in DOMAIN PreferNetworks |->
                                   ResolveNetwork(m, PreferNetworks[k]) ]]

Clients == { Built(c) : c \in { c \in [recipientMode : Modes, manifest : DOMAIN Manifests] :
                                    Constructible(c) } }

EvaluateInit ==
    /\ client \in Clients
    /\ challenge \in [Passes -> { Decoded[c] : c \in Challenges }]
    /\ place = [p \in Passes |-> "screen"]
    /\ kept = [p \in Passes |-> {}]
    /\ left = [p \in Passes |-> {}]
    /\ error = [p \in Passes |-> "none"]
    /\ taken = [a \in Accounts |-> 0]
    /\ pins = [n \in Networks |-> {}]
    /\ tofu \in BOOLEAN

-------------------------------------------------------------------------------
(* The filters.                                                            *)

Throws(p, e) ==
    /\ error' = [error EXCEPT ![p] = e]
    /\ place' = [place EXCEPT ![p] = "failed"]
    /\ UNCHANGED <<kept, left>>

\* The pass goes on to a filter with the offers it still has.
Enters(p, where, survivors, waiting) ==
    /\ place' = [place EXCEPT ![p] = where]
    /\ kept' = [kept EXCEPT ![p] = survivors]
    /\ left' = [left EXCEPT ![p] = waiting]
    /\ UNCHANGED error

\* "*.shop" stands for what lies below shop only.
DomainMatches(host, pattern) ==
    \/ pattern = <<"*">> \/ host = pattern
    \/ /\ pattern[1] = "*" /\ Len(host) >= Len(pattern)
       /\ SubSeq(host, Len(host) - Len(pattern) + 2, Len(host)) = Tail(pattern)

DomainAllowed == { c \in Challenges : \E d \in AllowedDomains :
                       DomainMatches(HostOf(c), d) }

OnAllowedNetwork(p) ==
    { i \in Offers(p) : Offer(p, i).network \in client.allowedNetworks }

Supported(p) == { i \in OnAllowedNetwork(p) : /\ Offer(p, i).scheme = "exact"
                                              /\ Account(Offer(p, i)) \in client.assets }

\* An allow entry for the host and the network, where there is one, decides alone.
AllowKey(p, i) == <<HostOf(challenge[p].request), Offer(p, i).network>>

Entered(p)  == { i \in Supported(p) : AllowKey(p, i) \in DOMAIN client.allow }
Admitted(p) == { i \in Entered(p) : Offer(p, i).payTo \in client.allow[AllowKey(p, i)] }

UnderRequestCap(p, offers) == { i \in offers : Offer(p, i).amount <= MaxPerRequest }

\* The end of the recipient filter, and the per-request cap after it.
Capped(p, offers) ==
    \/ offers = {} /\ Throws(p, "recipient-unpinned")
    \/ /\ offers # {} /\ UnderRequestCap(p, offers) = {}
       /\ Throws(p, "per-request")
    \/ /\ UnderRequestCap(p, offers) # {}
       /\ Enters(p, "budget", {}, UnderRequestCap(p, offers))

\* The domain, the header, steps 8 and 9, and the recipients that need no store.
Screen(p) ==
    /\ place[p] = "screen"
    /\ \/ /\ challenge[p].request \notin DomainAllowed
          /\ Throws(p, "domain-not-allowed")
       \/ /\ challenge[p].request \in DomainAllowed /\ Problem(p) # "fine"
          /\ Throws(p, Problem(p))
       \/ /\ challenge[p].request \in DomainAllowed /\ Problem(p) = "fine" /\ Supported(p) = {}
          /\ Throws(p, "unsupported")
       \/ /\ challenge[p].request \in DomainAllowed /\ Supported(p) # {}
          /\ \/ client.recipientMode = "off" /\ Capped(p, Supported(p))
             \/ client.recipientMode = "allowlist" /\ Capped(p, Admitted(p))
             \/ /\ client.recipientMode = "tofu" /\ Supported(p) = Entered(p)
                /\ Capped(p, Admitted(p))
             \/ /\ client.recipientMode = "tofu" /\ Supported(p) # Entered(p)
                /\ Enters(p, "pins", Admitted(p), Supported(p) \ Entered(p))
    /\ UNCHANGED <<client, challenge, books>>

\* One offer of the TOFU filter is decided; the last one ends the filter.
Decides(p, keeps) ==
    LET survivors == IF keeps THEN kept[p] \cup {NextOffer(p)} ELSE kept[p]
        waiting   == left[p] \ {NextOffer(p)}
    IN  \/ waiting = {} /\ Capped(p, survivors)
        \/ waiting # {} /\ Enters(p, "pins", survivors, waiting)

ReadPins(p) ==
    /\ place[p] = "pins"
    /\ LET r == Offer(p, NextOffer(p))
       IN  \/ pins[r.network] # {} /\ Decides(p, r.payTo \in pins[r.network])
           \/ pins[r.network] = {} /\ Enters(p, "policy", kept[p], left[p])
    /\ UNCHANGED <<client, challenge, books>>

\* No pin yet: kept, if first use was ever provisioned.
ReadRecipientPolicy(p) ==
    /\ place[p] = "policy"
    /\ \/ tofu /\ Decides(p, TRUE)
       \/ ~tofu /\ Throws(p, "tofu-not-provisioned")
    /\ UNCHANGED <<client, challenge, books>>

-------------------------------------------------------------------------------
(* Steps 11 and 12.                                                        *)

TimestampFromExtra(extra) ==
    LET timestamp == Property(extra, "timestamp")
    IN  CASE timestamp = Absent   -> NoStamp
          [] Accepted(timestamp)  -> timestamp.is
          [] OTHER                -> BadStamp

Stamp(p, i)     == TimestampFromExtra(Offer(p, i).extra)
Malformed(p, i) == Stamp(p, i) = BadStamp
Skewed(p, i)    == Stamp(p, i) \in Int /\ Stamp(p, i) - Now > MaxFutureSkew
Fresh(p, i)     == Stamp(p, i) \in Int => Now - Stamp(p, i) <= MaxQuoteAge

\* The first offer with an unusable timestamp throws for the whole challenge.
Stamped(p, offers) ==
    LET broken == { i \in offers : Malformed(p, i) \/ Skewed(p, i) }
        fresh  == { i \in offers : Fresh(p, i) }
    IN  \/ offers = {} /\ Throws(p, "per-hour")
        \/ /\ broken # {}
           /\ Throws(p, IF Malformed(p, Min(broken)) THEN "stamp-invalid" ELSE "clock-skew")
        \/ offers # {} /\ broken = {} /\ fresh = {} /\ Throws(p, "quote-expired")
        \/ broken = {} /\ fresh # {} /\ Enters(p, "route", fresh, {})

\* getBudgetState, once per offer; exposed money and the lifetime cap are not asked.
ReadBudget(p) ==
    /\ place[p] = "budget"
    /\ LET r         == Offer(p, NextOffer(p))
           fits      == taken[Account(r)] + r.amount <= MaxPerHour
           survivors == IF fits THEN kept[p] \cup {NextOffer(p)} ELSE kept[p]
           waiting   == left[p] \ {NextOffer(p)}
       IN  \/ waiting = {} /\ Stamped(p, survivors)
           \/ waiting # {} /\ Enters(p, "budget", survivors, waiting)
    /\ UNCHANGED <<client, challenge, books>>

\* A read the store cannot answer: never a refusal.  The recipient reads wrap it
\* as a retryable outage, the budget read lets through what the store threw.
StoreOutage(p) ==
    /\ \/ place[p] \in {"pins", "policy"} /\ Throws(p, "store-unavailable")
       \/ place[p] = "budget" /\ Throws(p, "store-threw")
    /\ UNCHANGED <<client, challenge, books>>

Evaluate(p) == \/ Screen(p) \/ ReadPins(p) \/ ReadRecipientPolicy(p)
               \/ ReadBudget(p) \/ StoreOutage(p)

-------------------------------------------------------------------------------
(* The store, to which other processes write as well.                      *)

\* The recipient step of `reserve'.  A claim does not look at the allow entries.
Claims(r)          == client.recipientMode = "tofu" /\ pins[r.network] = {}

\* Mutant of RecipientStands: the store trusts the advisory pass.
RecipientTrusted(r) == TRUE

RecipientStands(r) == \/ r.payTo \in pins[r.network]
                      \/ Claims(r) /\ tofu
                      \/ client.recipientMode # "tofu" /\ pins[r.network] = {}

\* `reserve': a claimed pin outlives the refusal of the budget.
Reserved(r) ==
    /\ RecipientStands(r) /\ taken[Account(r)] + r.amount <= MaxPerHour
    /\ taken' = [taken EXCEPT ![Account(r)] = @ + r.amount]
    /\ pins' = IF Claims(r) THEN [pins EXCEPT ![r.network] = {r.payTo}] ELSE pins
    /\ UNCHANGED tofu

OverBudget(r) ==
    /\ RecipientStands(r) /\ taken[Account(r)] + r.amount > MaxPerHour
    /\ pins' = IF Claims(r) THEN [pins EXCEPT ![r.network] = {r.payTo}] ELSE pins
    /\ UNCHANGED <<taken, tofu>>

===============================================================================
