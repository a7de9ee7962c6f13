------------------------------ MODULE StoreCalls ------------------------------
(***************************************************************************)
(* What crosses the wire to a shared spend store: the calls of the two     *)
(* planes, the refusals its atoms answer with, and the keys a call names.  *)
(* The Redis and the Durable Object store both speak this protocol         *)
(* (durable-object/protocol.ts, and the ARGV and cjson of redis/lua.ts).   *)
(***************************************************************************)
EXTENDS AtomicAmounts, Integers

CONSTANTS
    Scopes,            \* policy scopes: normalized merchant hosts
    AssetIds,          \* CAIP-19 ids as callers write them: [family, name, mixedCase]
    Ids,               \* reservation ids
    Fingerprints,      \* request fingerprints
    Amounts,           \* amounts a caller reserves
    CallerHourCaps,    \* maxPerHourAtomic values callers pass
    CallerTotalCaps,   \* maxTotalAtomic values callers pass; NoCap when absent
    AdminLimits,       \* what setBudgetLimits is called with: [maxPerHour, maxTotal]
    Networks,          \* CAIP-2 networks: [family, name]
    Recipients,        \* recipient addresses as written: [name, mixedCase]
    Allowlists,        \* recipient lists setRecipientPins is called with
    Enforcements,      \* callers' modes, among "off", "allowlist", "tofu"
    Credentials,       \* what a store object was built with: "admin" or "data"
    TTL,               \* RESERVATION_TTL_MS
    Window,            \* ROLLING_WINDOW_MS
    NoCap,             \* an absent cap
    NoPayee            \* no recipient presented

ASSUME TimeAssumption  == TTL \in Nat \ {0} /\ Window \in Nat /\ TTL <= Window
ASSUME AmountAssumption == /\ Amounts \subseteq Nat \ {0}
                           /\ CallerHourCaps \subseteq Nat \ {0}
                           /\ CallerTotalCaps \subseteq (Nat \ {0}) \cup {NoCap}
ASSUME CapAssumption == /\ NoCap \notin Nat
                        /\ AdminLimits \subseteq [maxPerHour : Nat \cup {NoCap},
                                                  maxTotal   : Nat \cup {NoCap}]
ASSUME FiniteAssumption == /\ IsFiniteSet(Scopes) /\ IsFiniteSet(AssetIds)
                           /\ IsFiniteSet(Ids)

\* The scope that stands for all of them.
AllScopes == "*"

\* An eip155 address is compared in lower case, any other verbatim.
Lowercase(a) == [a EXCEPT !.mixedCase = FALSE]

\* Mutant of CanonicalizeAsset: the ledger is keyed by the id as it was written.
AssetVerbatim(a) == a

CanonicalizeAsset(a) == IF a.family = "eip155" THEN Lowercase(a) ELSE a

CanonicalizeRecipient(network, r) ==
    IF network.family = "eip155" THEN Lowercase(r) ELSE r

Assets     == { CanonicalizeAsset(a) : a \in AssetIds }
Accounts   == Scopes \X Assets
Keys       == Accounts \X Ids
KeysOf(sa) == { k \in Keys : k[1] = sa }
Payees     == [network : Networks, recipient : Recipients] \cup {NoPayee}

ReserveInputs ==
    [policyScope : Scopes, assetId : AssetIds, reservationId : Ids,
     fingerprint : Fingerprints, amount : Amounts,
     maxPerHour : CallerHourCaps, maxTotal : CallerTotalCaps,
     payee : Payees, enforcement : Enforcements]

Refs       == [policyScope : Scopes, assetId : AssetIds, reservationId : Ids]
Account(x) == <<x.policyScope, CanonicalizeAsset(x.assetId)>>
Key(x)     == <<Account(x), x.reservationId>>

Outcomes   == {"committed", "released"}

\* What an atom answers: that it did, or a refusal with its kind and detail.
Ok                    == [kind |-> "ok", reason |-> "done"]
Refusal(kind, reason) == [kind |-> kind, reason |-> reason]

NotFound     == Refusal("config", "reservation-not-found")
Lifecycle(r) == Refusal("config", r)
AdminDenied  == Refusal("config", "admin-credential-required")

NoLimit == [maxPerHour |-> NoCap, maxTotal |-> NoCap]
===============================================================================
