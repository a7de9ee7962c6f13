---------------------------- MODULE MCPaymentAttempt ----------------------------
(* Small instances of a payment from its challenge to its signature.       *)
EXTENDS PaymentAttempt, TLC

CONSTANTS x, y, p1, p2

PayShop   == [labels |-> <<"pay", "shop">>, rootDot |-> TRUE]

TwoNetworks == {"base", "sol"}
TwoAssets == {"usdc", "t22"}
FamilyMap == [base |-> "eip155", sol |-> "solana"]
BaseFirst == <<"base-mainnet">>
ByAlias   == {"base", "solana:mainnet"}
\* Two entries for one host and network, then one for another host.
AllowOnSol == << [host |-> PayShop, network |-> "solana:mainnet", recipients |-> {x, y}],
                 [host |-> PayShop, network |-> "sol", recipients |-> {x}],
                 [host |-> [PayShop EXCEPT !.labels = <<"shop">>], network |-> "sol",
                  recipients |-> {y}] >>

-------------------------------------------------------------------------------
(* Release manifests: one in force, and what must not pass for one.        *)

Aliases == << <<"base-mainnet", "base">>, <<"solana:mainnet", "sol">> >>
Keys    == [current |-> "vendor"]

Listing(networks) ==
    [manifestVersion |-> 1, issuedAt |-> 1, expiresAt |-> 3, networks |-> networks,
     networkAliases |-> Aliases]

Genuine == Listing([base |-> {"usdc"}, sol |-> {"usdc", "t22"}])
Widened == Listing([base |-> {"usdc", "t22"}, sol |-> {"usdc", "t22"}])

SignatureOf(content) ==
    [algorithm |-> "ed25519", keyId |-> "current", wellFormed |-> TRUE, by |-> "vendor",
     over |-> content]

Document(content, signature) ==
    [misshapen |-> {}, serializable |-> TRUE, signature |-> signature] @@ content

Sealed(content) == Document(content, SignatureOf(content))

ManifestTable ==
    [genuine  |-> Sealed(Genuine),
     widened  |-> Document(Widened, SignatureOf(Genuine)),
     foreign  |-> Document(Widened, [SignatureOf(Widened) EXCEPT !.by = "stranger"]),
     unknown  |-> Document(Widened, [SignatureOf(Widened) EXCEPT !.keyId = "next"]),
     rsa      |-> Document(Genuine, [SignatureOf(Genuine) EXCEPT !.algorithm = "rsa"]),
     version2 |-> Sealed([Genuine EXCEPT !.manifestVersion = 2]),
     expired  |-> Sealed([Genuine EXCEPT !.expiresAt = 2]),
     early    |-> Sealed([Genuine EXCEPT !.issuedAt = 3, !.expiresAt = 4]),
     undated  |-> Sealed([Genuine EXCEPT !.expiresAt = BadStamp]),
     backward |-> Sealed([Genuine EXCEPT !.expiresAt = 1]),
     odd      |-> [Sealed(Genuine) EXCEPT !.serializable = FALSE],
     typed    |-> [Sealed(Genuine) EXCEPT !.misshapen = {"release"}],
     collides |-> Sealed([Genuine EXCEPT !.networkAliases = << <<"sol", "base">> >>]),
     dangles  |-> Sealed([Genuine EXCEPT !.networkAliases = << <<"mars", "moon">> >>])]

-------------------------------------------------------------------------------
(* JSON texts, from the outside in.                                        *)

Bare(kind)    == <<>> :> [kind |-> kind, under |-> "no key"]
Scalar(kind, value) == <<>> :> [kind |-> kind, under |-> "no key", is |-> value]
Text(value)   == Scalar("string", value)
Number(n)     == Scalar("number", n)
Fraction      == Bare("fraction")
Broken        == Bare("broken")

\* A container around the texts of `parts', one under each of `keys'.
Container(kind, keys, parts) ==
    LET places == UNION { { <<m>> \o r : r \in DOMAIN parts[m] } : m \in DOMAIN parts }
    IN  Bare(kind) @@ [ q \in places |->
            LET item == parts[q[1]][Tail(q)]
            IN  IF Len(q) = 1 THEN [item EXCEPT !.under = keys[q[1]]] ELSE item ]

Array(elements) == Container("array", [ m \in DOMAIN elements |-> "no key" ], elements)
Object(members) == Container("object", [ m \in DOMAIN members |-> members[m][1] ],
                                       [ m \in DOMAIN members |-> members[m][2] ])

-------------------------------------------------------------------------------
(* Challenges.                                                             *)

Fields(n, payee, price) ==
    << <<"scheme", Text("exact")>>, <<"network", Text(n)>>, <<"asset", Text("usdc")>>,
       <<"payTo", Text(payee)>>, <<"amount", Text(price)>>,
       <<"maxTimeoutSeconds", Number(60)>>,
       <<"extra", Object(<< <<"name", Text("USD")>>, <<"feePayer", Text("payer")>> >>)>> >>

\* The same object with one field written anew, where it stood.
With(fields, key, text) ==
    [ i \in DOMAIN fields |-> IF fields[i][1] = key THEN <<key, text>> ELSE fields[i] ]

Exact(n, payee, price) == Object(Fields(n, payee, price))
Written(key, text) == Object(With(Fields("base", x, 1), key, text))
Stamped1(payee, t) ==
    Object(With(Fields("base", payee, 1), "extra",
                Object(<< <<"name", Text("USD")>>, <<"timestamp", t>> >>)))

Shop  == [scheme |-> "https", port |-> 443, host |-> PayShop]
Apex  == [scheme |-> "https", port |-> 443, host |-> [labels |-> <<"shop">>, rootDot |-> FALSE]]
Unsafe == [Shop EXCEPT !.scheme = "http"]

BelowShop == {<<"*", "shop">>}

Head402(url, accepts) ==
    << <<"x402Version", Number(2)>>, <<"resource", Object(<< <<"url", Text(url)>> >>)>>,
       <<"accepts", accepts>> >>

Carrying(document) == [base64 |-> TRUE, bytes |-> 1, utf8 |-> TRUE, document |-> document]
Saying402(members) == [url |-> Shop, header |-> Carrying(Object(members))]
Asking(offers)     == Saying402(Head402(Shop, Array(offers)))
Changed(key, text) == Saying402(With(Head402(Shop, Array(<<Exact("base", x, 1)>>)), key, text))

NotRead ==
    [absent    |-> [url |-> Shop, header |-> NoHeader],
     scrambled |-> [url |-> Shop, header |-> [Carrying(Broken) EXCEPT !.base64 = FALSE]],
     large     |-> [url |-> Shop, header |-> [Carrying(Broken) EXCEPT !.bytes = MaxBytes + 1]],
     binary    |-> [url |-> Shop, header |-> [Carrying(Broken) EXCEPT !.utf8 = FALSE]],
     garbled   |-> [url |-> Shop, header |-> Carrying(Broken)],
     listed    |-> [url |-> Shop, header |-> Carrying(Array(<<>>))],
     version1  |-> Changed("x402Version", Number(1)),
     homeless  |-> Changed("resource", Object(<<>>)),
     nothing   |-> Changed("accepts", Array(<<>>)),
     many      |-> Asking([ i \in 1 .. MaxRequirements + 1 |-> Exact("base", x, 1) ]),
     unlocated |-> Changed("resource", Object(<< <<"url", Text(Misshapen)>> >>)),
     borrowed  |-> Changed("resource", Object(<< <<"url", Text(Apex)>> >>)),
     insecure  |-> [url |-> Unsafe, header |-> Carrying(Object(Head402(Unsafe,
                                                  Array(<<Exact("base", x, 1)>>))))],
     \* Two payees, two challenges or two timestamps under one name.
     twoPayees |-> Asking(<<Object(Append(Fields("base", x, 1), <<"payTo", Text(y)>>))>>),
     twoLists  |-> Saying402(Append(Head402(Shop, Array(<<Exact("base", x, 1)>>)),
                                    <<"accepts", Array(<<Exact("base", y, 1)>>)>>)),
     deep      |-> Asking(<<Written("extra",
                       Object(<< <<"name", Array(<<Array(<<Array(<<>>)>>)>>)>> >>))>>),
     \* One bad offer beside a good one.
     nameless  |-> Asking(<<Exact("base", x, 1), Written("scheme", Text(Misshapen))>>),
     free      |-> Asking(<<Exact("base", x, 1), Written("amount", Text(0))>>),
     numeric   |-> Asking(<<Exact("base", x, 1), Written("amount", Number(1))>>),
     forever   |-> Asking(<<Exact("base", x, 1),
                            Written("maxTimeoutSeconds", Number(MaxTimeoutSeconds + 1))>>),
     halves    |-> Asking(<<Exact("base", x, 1), Written("extra",
                       Object(<< <<"name", Fraction>> >>))>>),
     oddly     |-> Asking(<<Exact("base", x, 1), Written("extra",
                       Object(<< <<"naive", Text("USD")>> >>))>>)]

\* Read, and refused or thinned out by the policy or the adapters.
Dropped ==
    [elsewhere |-> [url |-> Apex, header |-> NoHeader],
     \* Both families, and offers their adapters cannot use.
     flawed    |-> Asking(<<Written("extra",
                       Object(<< <<"assetTransferMethod", Text("permit2")>> >>)),
                       Exact("base", y, 2)>>),
     unfit     |-> Asking(<<Object(With(Fields("sol", x, 1), "asset", Text("t22"))),
                            Written("extra", Object(<<>>)),
                            Object(With(Fields("sol", x, 1), "extra", Object(<<>>)))>>),
     \* An old quote, an unlisted payee, a strange asset, a price.
     picky     |-> Asking(<<Stamped1(x, Text(0)), Exact("sol", y, 1),
                            Written("asset", Text("t22")), Stamped1(y, Text(2))>>),
     unstamped |-> Asking(<<Stamped1(x, Number(1)), Exact("base", x, 1)>>),
     skewed    |-> Asking(<<Stamped1(x, Text(5)), Exact("base", x, 1)>>),
     dear      |-> Asking(<<Exact("base", x, 3)>>),
     moon      |-> Asking(<<Exact("moon", x, 1)>>)]

Payable ==
    [twins |-> Asking(<<Exact("base", y, 2), Exact("base", x, 1)>>),
     mixed |-> Asking(<<Exact("sol", x, 2), Exact("base", x, 1)>>),
     forX  |-> Asking(<<Exact("base", x, 1)>>),
     forY  |-> Asking(<<Exact("base", y, 1)>>)]

ReplyTable     == Payable @@ Dropped @@ NotRead
EveryChallenge == DOMAIN ReplyTable

Together == { <<"twins", "forY">> }
                \cup { <<c, "elsewhere">> : c \in EveryChallenge }

ContendedBase == {<<"base", "usdc">>}
AskTwiceOnce == [p \in Passes |-> IF p = p1 THEN 2 ELSE 1]

\* The other recipient policies need no company.
MCInit == /\ Init
          /\ <<challenge[p1].request, challenge[p2].request>> \in Together
          /\ client.recipientMode # "tofu" => ~tofu /\ challenge[p2].request = "elsewhere"
                                              /\ challenge[p1].request \in {"twins", "mixed", "picky"}
MCSpec == MCInit /\ [][Next]_vars /\ PassFairness
===============================================================================
