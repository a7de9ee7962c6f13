----------------------------- MODULE PaymentAttempt -----------------------------
(***************************************************************************)
(* One signed attempt up to the paid request: attemptPayment of            *)
(* core/client.ts, which reserves what the planner chose, and              *)
(* createAuthorization of the chain adapters with their signer adapters    *)
(* (evm/signer.ts, solana/signer.ts).                                      *)
(*                                                                         *)
(* The signature is produced by the payment scheme, a library that is      *)
(* handed a signer for one authorization.  It may ask that signer more     *)
(* than once, at the same time, or for something else.                     *)
(***************************************************************************)
EXTENDS RoutePlanner, AtomicAmounts

CONSTANTS
    MaxAsks,  \* per pass: signatures a scheme may ask for in one authorization
    Contended \* accounts other processes spend from as well

ASSUME AskAssumption       == MaxAsks \in [Passes -> Nat \ {0}]
ASSUME ContendedAssumption == Contended \subseteq Accounts

VARIABLES
    hold,      \* passes that hold a reservation of what they chose
    asks,      \* per pass: signatures the scheme has asked for
    atSigner,  \* per pass: those the signer is working on, <<ask, offer>>
    signCount, \* per pass: record.signCount
    signed     \* per pass: offers the signer signed, in order

signing == <<hold, asks, atSigner, signCount, signed>>
vars    == <<pass, books, planner, signing>>

Init ==
    /\ EvaluateInit
    /\ PlanInit
    /\ hold = {}
    /\ asks = [p \in Passes |-> 0]
    /\ atSigner = [p \in Passes |-> {}]
    /\ signCount = [p \in Passes |-> 0]
    /\ signed = [p \in Passes |-> <<>>]

Chosen(p) == Offer(p, chosen[p])

-------------------------------------------------------------------------------
(* The reservation.                                                        *)

\* client.plan() ends here, with nothing written.
PlanReturns(p) ==
    /\ place[p] = "planned"
    /\ Enters(p, "returned", kept[p], {})
    /\ UNCHANGED <<client, challenge, books, planner, signing>>

\* The store grants, or refuses for the budget, the payee or a freeze; or its
\* answer is lost, and what the atom did stands although the pass holds nothing.
Reserves(p) ==
    /\ place[p] = "planned"
    /\ \/ /\ Reserved(Chosen(p))
          /\ hold' = hold \cup {p}
          /\ Enters(p, "signing", kept[p], {})
       \/ /\ OverBudget(Chosen(p))
          /\ UNCHANGED hold
          /\ Throws(p, "per-hour")
       \/ /\ ~RecipientStands(Chosen(p))
          /\ UNCHANGED <<hold, books>>
          /\ Throws(p, "recipient-unpinned")
       \/ /\ UNCHANGED <<hold, books>>
          /\ Throws(p, "scope-frozen")
       \/ /\ Reserved(Chosen(p)) \/ OverBudget(Chosen(p)) \/ UNCHANGED books
          /\ UNCHANGED hold
          /\ Throws(p, "store-unavailable")
    /\ UNCHANGED <<client, challenge, planner, asks, atSigner, signCount, signed>>

\* A failure before transmission gives the reservation back.
Releases(p, e) ==
    /\ Throws(p, e)
    /\ hold' = hold \ {p}
    /\ taken' = [taken EXCEPT ![Account(Chosen(p))] = @ - Chosen(p).amount]
    /\ UNCHANGED <<client, challenge, pins, tofu, planner>>

\* Other processes spend beside what the passes hold, and the hour moves on.
HeldOn(a) == LET ours == { p \in hold : Account(Chosen(p)) = a }
             IN  AtomicTotal(ours, [p \in ours |-> Chosen(p).amount])

OthersSpend ==
    /\ \E a \in Contended : \E t \in HeldOn(a) .. MaxPerHour : taken' = [taken EXCEPT ![a] = t]
    /\ UNCHANGED <<pass, pins, tofu, planner, signing>>

-------------------------------------------------------------------------------
(* The signer adapters.                                                    *)

SameTerms(r, s) == /\ Account(r) = Account(s)
                   /\ r.payTo = s.payTo /\ r.amount = s.amount

\* The one authorization this signer is for: no second one, no other terms, and
\* a lifetime inside the approved window.
MaySign(p, i, inWindow) ==
    signCount[p] = 0 /\ inWindow /\ SameTerms(Offer(p, i), Chosen(p))

\* The EVM adapter counts before it awaits the signer, the Solana one after.
CountsFirst(p) == FamilyOf(p, chosen[p]) = "eip155"

SchemeAsks(p) ==
    /\ place[p] = "signing" /\ asks[p] < MaxAsks[p]
    /\ asks' = [asks EXCEPT ![p] = @ + 1]
    /\ \E i \in Offers(p), inWindow \in BOOLEAN :
           \/ ~MaySign(p, i, inWindow) /\ UNCHANGED <<atSigner, signCount>>
           \/ /\ MaySign(p, i, inWindow)
              /\ atSigner' = [atSigner EXCEPT ![p] = @ \cup {<<asks'[p], i>>}]
              /\ signCount' = [signCount EXCEPT ![p] = IF CountsFirst(p) THEN @ + 1 ELSE @]
    /\ UNCHANGED <<pass, books, planner, hold, signed>>

\* The signer answers, or rejects, in any order.
SignerSigns(p) ==
    /\ \E ask \in atSigner[p] :
           /\ atSigner' = [atSigner EXCEPT ![p] = @ \ {ask}]
           /\ \/ UNCHANGED <<signCount, signed>>
              \/ /\ signed' = [signed EXCEPT ![p] = Append(@, ask[2])]
                 /\ signCount' = [signCount EXCEPT ![p] = IF CountsFirst(p) THEN @ ELSE @ + 1]
    /\ UNCHANGED <<pass, books, planner, hold, asks>>

\* Mutant of SchemeReturns: whatever came back is sent.
SchemeReturnsUncounted(p) ==
    /\ place[p] = "signing" /\ atSigner[p] = {} /\ signed[p] # <<>>
    /\ Enters(p, "signed", kept[p], {})
    /\ UNCHANGED <<client, challenge, books, planner, signing>>

\* The scheme returns once all it asked for is settled and it has a signature.
SchemeReturns(p) ==
    /\ place[p] = "signing" /\ atSigner[p] = {} /\ signed[p] # <<>>
    /\ \/ /\ signCount[p] = 1
          /\ Enters(p, "signed", kept[p], {})
          /\ UNCHANGED <<client, challenge, books, planner, hold>>
       \/ signCount[p] # 1 /\ Releases(p, "signature-count")
    /\ UNCHANGED <<asks, atSigner, signCount, signed>>

\* The scheme throws, on Solana also for an RPC of its own or of the pool.
SchemeFails(p) ==
    /\ place[p] = "signing"
    /\ \/ Releases(p, "signer")
       \/ FamilyOf(p, chosen[p]) = "solana" /\ Releases(p, "transport")
    /\ UNCHANGED <<asks, atSigner, signCount, signed>>

Authorize(p) == \/ PlanReturns(p) \/ Reserves(p) \/ SchemeAsks(p) \/ SignerSigns(p)
                \/ SchemeReturns(p) \/ SchemeFails(p)

PassStep(p) == \/ Evaluate(p) /\ UNCHANGED <<planner, signing>>
               \/ Plan(p) /\ UNCHANGED signing
               \/ Authorize(p)

Next == \/ \E p \in Passes : PassStep(p)
        \/ SharedLookup /\ UNCHANGED signing
        \/ OthersSpend

Spec == Init /\ [][Next]_vars

\* Stores, signers, pools and imports settle or throw, and the event loop runs on.
PassFairness == /\ \A p \in Passes : WF_vars(PassStep(p))
                /\ WF_vars(SharedLookup /\ UNCHANGED signing)

FairSpec == Spec /\ PassFairness

-------------------------------------------------------------------------------
(* Properties.                                                             *)

Payees == UNION { { r.payTo : r \in Range(Decoded[c].requirements) } : c \in Challenges }

TypeOK ==
    /\ client \in Clients /\ challenge \in [Passes -> { Decoded[c] : c \in Challenges }]
    /\ place \in [Passes -> {"screen", "pins", "policy", "budget", "route", "probing",
                             "planned", "returned", "signing", "signed", "failed"}]
    /\ \A p \in Passes : kept[p] \subseteq Offers(p) /\ left[p] \subseteq Offers(p)
    /\ taken \in [Accounts -> 0 .. MaxPerHour]
    /\ pins \in [Networks -> SUBSET Payees] /\ tofu \in BOOLEAN
    /\ \A p \in Passes : /\ DOMAIN probe[p] \subseteq kept[p]
                         /\ chosen[p] \in kept[p] \cup {0}
    /\ reads \in [Passes -> [Accounts -> Nat]]
    /\ adapter \in [Families -> Lookups] /\ address \in [Families -> Lookups]
    /\ hold \subseteq Passes
    /\ \A p \in Passes : asks[p] \in 0 .. MaxAsks[p] /\ signCount[p] \in Nat

\* SPEC section 6.4: the answer depends on what the probes said and not on which
\* came first.  An open circuit is a last resort, and nothing the caller prefers,
\* could afford and could reach is passed over.
Affordable(p) == { i \in kept[p] : probe[p][i] = "viable" }

ChoosesBest(p) ==
    LET won == Offer(p, chosen'[p])
    IN  /\ chosen'[p] \in Affordable(p)
        /\ \A i \in kept[p] : probe[p][i] \notin Running
        /\ \A i \in Affordable(p) :
               LET n == Offer(p, i).network
               IN  /\ health'[won.network].open => health'[n].open
                   /\ Preference(n) < Preference(won.network) =>
                          health'[n].open /\ ~health'[won.network].open
                   /\ n = won.network => chosen'[p] <= i

BestRouteChosen == [][\A p \in Passes : chosen'[p] # chosen[p] => ChoosesBest(p)]_vars

\* The error of a pass that found no route blames what was observed: the funds
\* only if a balance came back and was short, the configuration only if nothing
\* was tried, the network only if an endpoint was unreachable.
Observed(p) == { reading[p][Account(Offer(p, i))] :
                     i \in { j \in kept[p] : reads[p][Account(Offer(p, j))] > 0 } }

BlameIsTrue ==
    \A p \in Passes :
        /\ error[p] = "liquidity" =>
               \E i \in kept[p] : /\ reading[p][Account(Offer(p, i))] \in Balances
                                  /\ reading[p][Account(Offer(p, i))] < Offer(p, i).amount
        /\ error[p] = "unsupported" => Observed(p) = {}
        /\ error[p] = "transport" /\ chosen[p] = 0 => Observed(p) = {Unreachable}

\* Concurrent probes of one account share one balance read.
OneReadPerBalance == \A p \in Passes, a \in Accounts : reads[p][a] <= 1

\* Passes that all found a merchant without a pin may have chosen different
\* payees; the store lets one of them through.
Committed(p) == place[p] \in {"signing", "signed"}

OnePayeePerScope ==
    \A p, q \in Passes :
        client.recipientMode = "tofu" /\ Committed(p) /\ Committed(q)
            /\ Chosen(p).network = Chosen(q).network
        => Chosen(p).payTo = Chosen(q).payTo

\* Whichever of two members of one name a reader of the header goes by, it finds
\* the offer that was signed.
Readings(text, path, key) == { text[r].is : r \in Members(text, path, key) }

OneMeaning(text, i, offer) ==
    \A accepts \in Members(text, <<>>, "accepts") :
        /\ Readings(text, Append(accepts, i), "network") = {offer.network}
        /\ Readings(text, Append(accepts, i), "asset")   = {offer.asset}
        /\ Readings(text, Append(accepts, i), "payTo")   = {offer.payTo}
        /\ Readings(text, Append(accepts, i), "amount")  = {offer.amount}

Unambiguous == [ c \in Challenges |->
    { i \in DOMAIN Decoded[c].requirements :
          OneMeaning(Replies[c].header.document, i, Decoded[c].requirements[i]) } ]

\* The assets the holder of a trusted key released.
Released == [ m \in InForce |->
    { a \in Accounts : LET signature == Manifests[m].signature
                       IN  /\ signature.by \in Range(TrustedKeys)
                           /\ a[1] \in DOMAIN signature.over.networks
                           /\ a[2] \in signature.over.networks[a[1]] } ]

\* What leaves for the merchant is the only signature there is of that pass, and
\* what the signer has signed is what the store admitted, what the merchant's
\* header says to every reader, and an asset of the signed release.
SignedOnceAsReserved ==
    \A p \in Passes :
        /\ place[p] = "signed" => Len(signed[p]) = 1 /\ p \in hold
        /\ \A k \in DOMAIN signed[p] :
               /\ SameTerms(Offer(p, signed[p][k]), Chosen(p))
               /\ signed[p][k] \in Unambiguous[challenge[p].request]
               /\ Account(Offer(p, signed[p][k])) \in Released[client.manifest]

\* Every pass comes to an end: all probes are awaited, and each of them ends.
EveryPassEnds == \A p \in Passes : <>(place[p] \in {"returned", "signed", "failed"})
===============================================================================
