------------------------- MODULE PaymentAttemptProofs -------------------------
(***************************************************************************)
(* What holds of every payment attempt, whatever the challenges, the       *)
(* manifests, the balances and the number of passes: decoding, policy,     *)
(* planning, reserving and signing.                                        *)
(*                                                                         *)
(* The argument has three parts.  A text without a repeated name has one   *)
(* meaning, and a manifest in force says what a trusted key signed; both   *)
(* are facts of the operators.  AttemptInv carries them from the header to *)
(* the signature: only supported offers are kept, only kept offers are     *)
(* probed, a probe says what its balance said, what the store admitted is  *)
(* counted there, and the signer is given no other terms.  The theorems    *)
(* read their property off that invariant.                                 *)
(***************************************************************************)
EXTENDS PaymentAttempt, AtomicAmountsProofs, WellFoundedInduction, FiniteSetTheorems, TLAPS

\* The least number of a set, which the operator Min chooses.
LEMMA MinIsLeast ==
  ASSUME NEW S, S \subseteq Nat, S # {}
  PROVE  Min(S) \in S /\ \A n \in S : Min(S) <= n
<1> DEFINE R == {ss \in Nat \X Nat : ss[1] < ss[2]}
<1>0. IsWellFoundedOn(R, Nat)
  BY NatLessThanWellFounded DEF OpToRel
<1>1. PICK x \in S : \A y \in S : ~ (<<y, x>> \in R)
  BY <1>0, WFMin
<1>2. \A y \in S : ~ (y < x)
  BY <1>1
<1>3. \A y \in S : x <= y
  BY <1>2
<1> QED BY <1>3 DEF Min

\* A list of checks has no first problem if none of them has one.
LEMMA NoFirstProblem ==
  ASSUME NEW problems, DOMAIN problems \subseteq Nat, FirstProblem(problems) = "fine"
  PROVE  \A i \in DOMAIN problems : problems[i] = "fine"
<1> DEFINE bad == { i \in DOMAIN problems : problems[i] # "fine" }
<1>1. CASE bad = {}
  BY <1>1
<1>2. CASE bad # {}
  <2>1. Min(bad) \in bad
    BY <1>2, MinIsLeast
  <2> QED BY <2>1, <1>2 DEF FirstProblem
<1> QED BY <1>1, <1>2

\* The first problem of a list is one of its problems, or there is none.
LEMMA FirstProblemAmong ==
  ASSUME NEW problems, DOMAIN problems \subseteq Nat,
         NEW W, \A i \in DOMAIN problems : problems[i] \in W
  PROVE  FirstProblem(problems) \in W \cup {"fine"}
<1> DEFINE bad == { i \in DOMAIN problems : problems[i] # "fine" }
<1>1. CASE bad = {}
  BY <1>1 DEF FirstProblem
<1>2. CASE bad # {}
  <2>1. Min(bad) \in bad
    BY <1>2, MinIsLeast
  <2> QED BY <2>1, <1>2 DEF FirstProblem
<1> QED BY <1>1, <1>2

-------------------------------------------------------------------------------
(* A manifest in force says what a trusted key signed.                     *)

\* A manifest in force is signed by a trusted key, over what it says.
LEMMA InForceIsSigned ==
  ASSUME NEW m \in InForce
  PROVE  /\ Manifests[m].signature.by \in Range(TrustedKeys)
         /\ Manifests[m].signature.over = Content(Manifests[m])
<1> DEFINE doc == Manifests[m]
<1>1. VerifyReleaseManifest(doc, Now) = "fine"
  BY DEF InForce
<1>2. Envelope(doc) = "fine" /\ Signed(doc) = "fine"
  BY <1>1 DEF VerifyReleaseManifest, Before
<1>3. doc.signature.keyId \in DOMAIN TrustedKeys
  <2> DEFINE list == << Check(doc.signature.algorithm = "ed25519", "unsupported-algorithm"),
                        Check(doc.signature.keyId \in DOMAIN TrustedKeys, "unknown-key-id"),
                        Check(doc.signature.wellFormed, "malformed-signature") >>
  <2>1. DOMAIN list \subseteq Nat /\ 2 \in DOMAIN list
    OBVIOUS
  <2>2. FirstProblem(list) = "fine"
    BY <1>2 DEF Envelope
  <2>3. list[2] = "fine"
    BY ONLY <2>1, <2>2, NoFirstProblem
  <2> QED BY <2>3 DEF Check
<1>4. doc.signature.by = TrustedKeys[doc.signature.keyId] /\ doc.signature.over = Content(doc)
  BY <1>2 DEF Signed, Check
<1> QED BY <1>3, <1>4 DEF Range

\* An asset the client pays with is one of the release a trusted key signed.
LEMMA AssetsAreReleased ==
  ASSUME NEW m \in InForce, NEW networks
  PROVE  /\ AssetsOn(Manifests[m], networks) \subseteq Accounts
         /\ AssetsOn(Manifests[m], networks) \subseteq Released[m]
<1>1. Content(Manifests[m]).networks = Manifests[m].networks
  BY DEF Content
<1>2. AssetsOn(Manifests[m], networks) \subseteq Accounts
  BY DEF AssetsOn
<1>3. ASSUME NEW a \in AssetsOn(Manifests[m], networks)
      PROVE  a \in Released[m]
  <2>1. a \in Accounts /\ a[1] \in DOMAIN Manifests[m].networks
          /\ a[2] \in Manifests[m].networks[a[1]]
    BY DEF AssetsOn, Declares
  <2> QED BY <1>1, <2>1, InForceIsSigned DEF Released
<1> QED BY <1>2, <1>3

-------------------------------------------------------------------------------
(* A header that decodes has one meaning.                                  *)

\* In a text without mistakes an object has one member of a name at most.
LEMMA OneMember ==
  ASSUME NEW text, IsTree(text), Mistakes(text, DOMAIN text) = {},
         NEW path \in DOMAIN text, text[path].kind = "object", NEW key,
         NEW r \in Members(text, path, key), NEW s \in Members(text, path, key)
  PROVE  r = s
<1>1. /\ r \in DOMAIN text /\ r # <<>> /\ Front(r) = path /\ text[r].under = key
      /\ s \in DOMAIN text /\ s # <<>> /\ Front(s) = path /\ text[s].under = key
  BY DEF Members, Inside
<1>2. r \in Seq(Nat) /\ s \in Seq(Nat)
  BY <1>1 DEF IsTree
<1>3. Last(r) \in Nat /\ Last(s) \in Nat
  BY <1>1, <1>2 DEF Last
<1>4. ~Repeated(text, r) /\ ~Repeated(text, s)
  BY <1>1 DEF Mistakes
<1>5. ~(Last(s) < Last(r)) /\ ~(Last(r) < Last(s))
  BY <1>1, <1>4 DEF Repeated
<1>6. Last(r) = Last(s)
  BY <1>3, <1>5
<1>7. \A t \in Seq(Nat) : t # <<>> => t = Append(Front(t), Last(t))
  BY DEF Front, Last
<1> QED BY <1>1, <1>2, <1>6, <1>7

\* So what JSON.parse takes for a member is the only one.
LEMMA TheMember ==
  ASSUME NEW text, IsTree(text), Mistakes(text, DOMAIN text) = {},
         NEW path \in DOMAIN text, text[path].kind = "object", NEW key,
         Field(text, path, key) # Absent
  PROVE  /\ Members(text, path, key) = {Member(text, path, key)}
         /\ Member(text, path, key) \in DOMAIN text
         /\ Field(text, path, key) = text[Member(text, path, key)]
<1> DEFINE M == Members(text, path, key)
<1>1. Member(text, path, key) \in DOMAIN text
  BY DEF Field, At
<1>2. Nowhere \notin DOMAIN text
  <2>1. Nowhere \notin Seq(Nat \ {0})
    BY DEF Nowhere
  <2> QED BY <2>1 DEF IsTree
<1>3. M # {}
  BY <1>1, <1>2 DEF Member
<1>4. PICK r \in M : TRUE
  BY <1>3
<1>5. M = {r}
  BY <1>4, OneMember
<1>6. Last(r) <= Last(r)
  <2>1. r \in Seq(Nat) /\ r # <<>>
    BY <1>4 DEF Members, Inside, IsTree
  <2>2. Last(r) \in Nat
    BY <2>1 DEF Last
  <2> QED BY <2>2
<1>7. Member(text, path, key) = r
  BY <1>3, <1>5, <1>6 DEF Member
<1> QED BY <1>1, <1>5, <1>7 DEF Field, At

\* A header that decodes has passed every check of its text.
LEMMA SoundHeader ==
  ASSUME NEW header, NEW url, Flaw(header, url) = "fine"
  PROVE  /\ header # NoHeader
         /\ Mistakes(header.document, DOMAIN header.document) = {}
         /\ Schema(header.document) = "fine"
         /\ FirstProblem([ i \in Listed(header.document) |->
                ValidateRequirement(header.document, OfferAt(header.document, i)) ]) = "fine"
<1>1. /\ Wrapping(header) = "fine" /\ PreflightJson(header.document) = "fine"
      /\ Schema(header.document) = "fine"
      /\ FirstProblem([ i \in Listed(header.document) |->
            ValidateRequirement(header.document, OfferAt(header.document, i)) ]) = "fine"
  BY DEF Flaw, Before
<1>2. header # NoHeader
  BY <1>1 DEF Wrapping, Before, Check
<1>3. Mistakes(header.document, DOMAIN header.document) = {}
  BY <1>1 DEF PreflightJson, Preflight, Reason
<1> QED BY <1>1, <1>2, <1>3

\* The offers of a header are numbered from one.
LEMMA ListedAreNumbers ==
  ASSUME NEW text, IsTree(text)
  PROVE  Listed(text) \subseteq Nat \ {0}
<1>1. ASSUME NEW r \in Inside(text, Accepts(text))
      PROVE  Last(r) \in Nat \ {0}
  <2>1. r \in Seq(Nat \ {0}) /\ r # <<>>
    BY DEF Inside, IsTree
  <2> QED BY <2>1 DEF Last
<1> QED BY <1>1 DEF Listed

\* What decoding says of one offer of a challenge.
LEMMA DecodedOffer ==
  ASSUME NEW c \in Challenges, NEW i \in DOMAIN Decoded[c].requirements
  PROVE  LET text == Replies[c].header.document
             path == OfferAt(text, i)
         IN  /\ IsTree(text) /\ Mistakes(text, DOMAIN text) = {}
             /\ Schema(text) = "fine"
             /\ i \in Nat \ {0}
             /\ ValidRequirement(text, path)
             /\ AtomicAmount(Field(text, path, "amount"))
             /\ Decoded[c].requirements[i] = NormalizeRequirement(text, path)
<1> DEFINE header == Replies[c].header
           text   == header.document
           path   == OfferAt(text, i)
<1>1. /\ Decoded[c].flaw = Flaw(header, Replies[c].url)
      /\ Decoded[c].requirements =
            IF Flaw(header, Replies[c].url) # "fine" THEN <<>>
            ELSE [ j \in Listed(text) |-> NormalizeRequirement(text, OfferAt(text, j)) ]
  BY DEF Decoded, DecodePaymentRequired
<1>2. Flaw(header, Replies[c].url) = "fine"
  BY <1>1
<1>3. /\ i \in Listed(text)
      /\ Decoded[c].requirements[i] = NormalizeRequirement(text, path)
  BY <1>1, <1>2
<1>4. /\ header # NoHeader /\ Mistakes(text, DOMAIN text) = {} /\ Schema(text) = "fine"
      /\ FirstProblem([ j \in Listed(text) |-> ValidateRequirement(text, OfferAt(text, j)) ]) = "fine"
  BY <1>2, SoundHeader
<1>5. IsTree(text)
  BY <1>4, ReplyAssumption
<1>6. Listed(text) \subseteq Nat \ {0}
  BY <1>5, ListedAreNumbers
<1>7. ValidateRequirement(text, path) = "fine"
  <2> DEFINE list == [ j \in Listed(text) |-> ValidateRequirement(text, OfferAt(text, j)) ]
  <2>1. DOMAIN list \subseteq Nat /\ i \in DOMAIN list
    BY <1>3, <1>6
  <2>2. FirstProblem(list) = "fine"
    BY <1>4
  <2>3. list[i] = "fine"
    BY ONLY <2>1, <2>2, NoFirstProblem
  <2> QED BY <2>1, <2>3
<1>8. ValidRequirement(text, path) /\ AtomicAmount(Field(text, path, "amount"))
  BY <1>7 DEF ValidateRequirement, Before, Check
<1> QED BY <1>3, <1>4, <1>5, <1>6, <1>8

\* Every string the offer was taken from has one reading, whichever member of its
\* name a reader goes by.
LEMMA OneReading ==
  ASSUME NEW text, IsTree(text), Mistakes(text, DOMAIN text) = {},
         NEW path, At(text, path).kind = "object", NEW key, Field(text, path, key).kind = "string"
  PROVE  Readings(text, path, key) = {Field(text, path, key).is}
<1>1. path \in DOMAIN text /\ text[path].kind = "object"
  BY DEF At, Absent
<1>2. Field(text, path, key) # Absent
  BY DEF Absent
<1> QED BY <1>1, <1>2, TheMember DEF Readings

\* An offer that decodes reads the same to every reader of the header.
LEMMA OfferHasOneMeaning ==
  ASSUME NEW c \in Challenges, NEW i \in DOMAIN Decoded[c].requirements
  PROVE  i \in Unambiguous[c]
<1> DEFINE text == Replies[c].header.document
           path == OfferAt(text, i)
<1>1. /\ IsTree(text) /\ Mistakes(text, DOMAIN text) = {}
      /\ Schema(text) = "fine"
      /\ ValidRequirement(text, path)
      /\ AtomicAmount(Field(text, path, "amount"))
      /\ Decoded[c].requirements[i] = NormalizeRequirement(text, path)
  BY DecodedOffer
<1>2. At(text, <<>>).kind = "object" /\ Field(text, <<>>, "accepts").kind = "array"
  BY <1>1 DEF Schema, Before, Check
<1>3. \A accepts \in Members(text, <<>>, "accepts") : accepts = Accepts(text)
  <2>1. <<>> \in DOMAIN text /\ text[<<>>].kind = "object"
    BY <1>2 DEF At, Absent
  <2>2. Field(text, <<>>, "accepts") # Absent
    BY <1>2 DEF Absent
  <2> QED BY <1>1, <2>1, <2>2, TheMember DEF Accepts
<1>4. At(text, path).kind = "object"
  BY <1>1 DEF ValidRequirement
<1>5. \A key \in {"network", "asset", "payTo", "amount"} : Field(text, path, key).kind = "string"
  BY <1>1 DEF ValidRequirement, AtomicAmount, Accepted, IsString
<1>6. \A key \in {"network", "asset", "payTo", "amount"} :
          Readings(text, path, key) = {Field(text, path, key).is}
  BY <1>1, <1>4, <1>5, OneReading
<1>7. OneMeaning(text, i, Decoded[c].requirements[i])
  <2> DEFINE offer == Decoded[c].requirements[i]
  <2>1. /\ offer.network = Field(text, path, "network").is
        /\ offer.asset = Field(text, path, "asset").is
        /\ offer.payTo = Field(text, path, "payTo").is
        /\ offer.amount = Field(text, path, "amount").is
    <3>1. offer = NormalizeRequirement(text, path)
      BY <1>1
    <3> HIDE DEF offer, text, path
    <3> QED BY ONLY <3>1 DEF NormalizeRequirement
  <2>2. /\ Readings(text, path, "network") = {offer.network}
        /\ Readings(text, path, "asset") = {offer.asset}
        /\ Readings(text, path, "payTo") = {offer.payTo}
        /\ Readings(text, path, "amount") = {offer.amount}
    <3>1. \A key \in {"network", "asset", "payTo", "amount"} :
              Readings(text, path, key) = {Field(text, path, key).is}
      BY <1>6
    <3> HIDE DEF offer, text, path
    <3> QED BY ONLY <3>1, <2>1
  <2>3. \A accepts \in Members(text, <<>>, "accepts") : Append(accepts, i) = path
    BY <1>3 DEF OfferAt
  <2>4. OneMeaning(text, i, offer)
    <3> HIDE DEF offer, text, path
    <3> QED BY ONLY <2>2, <2>3 DEF OneMeaning
  <2> QED BY ONLY <2>4
<1> QED BY <1>7 DEF Unambiguous

-------------------------------------------------------------------------------
(* The errors that decoding may end in; none of them blames a route.       *)

Flaws ==
    {"fine", "missing-header", "invalid-base64", "header-too-large", "duplicate-json-key",
     "json-depth-exceeded", "invalid-json", "upstream-schema-invalid",
     "unsupported-protocol-version", "requirements-count-out-of-range",
     "resource-url-invalid", "resource-origin-mismatch", "amount-not-atomic-integer"}

\* Decoding ends in one of those.
LEMMA FlawIsAFlaw ==
  ASSUME NEW header, NEW url,
         header # NoHeader => IsTree(header.document)
  PROVE  Flaw(header, url) \in Flaws
<1>1. Wrapping(header) \in Flaws
  <2> DEFINE list == << Check(header.base64, "invalid-base64"),
                        Check(header.bytes <= MaxBytes, "header-too-large"),
                        Check(header.utf8, "invalid-base64") >>
  <2>1. DOMAIN list \subseteq Nat
    OBVIOUS
  <2>2. \A i \in DOMAIN list : list[i] \in Flaws
    BY DEF Check, Flaws
  <2>3. FirstProblem(list) \in Flaws \cup {"fine"}
    BY ONLY <2>1, <2>2, FirstProblemAmong
  <2> QED BY <2>3 DEF Wrapping, Before, Check, Flaws
<1>2. PreflightJson(header.document) \in Flaws
  BY DEF PreflightJson, Preflight, Reason, Flaws
<1>3. Schema(header.document) \in Flaws
  BY DEF Schema, Before, Check, Flaws
<1>4. Origin(ResourceUrl(header.document).is, url) \in Flaws
  BY DEF Origin, Before, Check, Flaws
<1>5. ASSUME header # NoHeader
      PROVE  FirstProblem([ i \in Listed(header.document) |->
               ValidateRequirement(header.document, OfferAt(header.document, i)) ]) \in Flaws
  <2> DEFINE list == [ i \in Listed(header.document) |->
                         ValidateRequirement(header.document, OfferAt(header.document, i)) ]
  <2>1. DOMAIN list \subseteq Nat
    BY <1>5, ListedAreNumbers
  <2>2. \A i \in DOMAIN list : list[i] \in Flaws
    BY DEF ValidateRequirement, Before, Check, Flaws
  <2>3. FirstProblem(list) \in Flaws \cup {"fine"}
    BY ONLY <2>1, <2>2, FirstProblemAmong
  <2> QED BY <2>3 DEF Flaws
<1>6. header = NoHeader => Wrapping(header) = "missing-header"
  BY DEF Wrapping, Before, Check
<1> QED BY <1>1, <1>2, <1>3, <1>4, <1>5, <1>6 DEF Flaw, Before

-------------------------------------------------------------------------------
(* The inductive invariant.                                                *)

Early     == {"screen", "pins", "policy", "budget", "route"}
Decided   == {"planned", "returned", "signing", "signed"}
Stages    == Early \cup {"probing"} \cup Decided \cup {"failed"}
Asked     == {"balance", "transport", "viable", "short"}
Outcomes  == Running \cup Errors \cup {"rejected", "viable", "short"}

TypeInv ==
    /\ client \in Clients /\ challenge \in [Passes -> { Decoded[c] : c \in Challenges }]
    /\ place \in [Passes -> Stages]
    /\ kept \in [Passes -> SUBSET Nat] /\ left \in [Passes -> SUBSET Nat]
    /\ error = [p \in Passes |-> error[p]]
    /\ taken \in [Accounts -> 0 .. MaxPerHour]
    /\ pins \in [Networks -> SUBSET Payees] /\ tofu \in BOOLEAN
    /\ probe = [p \in Passes |-> probe[p]]
    /\ \A p \in Passes : probe[p] \in [DOMAIN probe[p] -> Outcomes]
    /\ reading \in [Passes -> [Accounts -> Balances \cup {NoReading, Pending, Unreachable}]]
    /\ reads \in [Passes -> [Accounts -> {0, 1}]]
    /\ adapter \in [Families -> Lookups] /\ address \in [Families -> Lookups]
    /\ chosen \in [Passes -> Nat]
    /\ hold \subseteq Passes
    /\ asks \in [Passes -> Nat] /\ \A p \in Passes : asks[p] <= MaxAsks[p]
    /\ atSigner \in [Passes -> SUBSET (Nat \X Nat)]
    /\ signCount \in [Passes -> Nat] /\ signed \in [Passes -> Seq(Nat)]

\* Only supported offers are kept; each of them is probed, all probes have returned
\* before a route is chosen, and the choice stands.
RouteInv(p) ==
    /\ kept[p] \subseteq Supported(p) /\ left[p] \subseteq Supported(p)
    /\ place[p] \in {"pins", "policy", "budget"} => left[p] # {}
    /\ DOMAIN probe[p] \in {{}, kept[p]}
    /\ place[p] \in Early => DOMAIN probe[p] = {}
    /\ place[p] \in Early \cup {"probing"} => chosen[p] = 0
    /\ place[p] \in {"probing"} \cup Decided => DOMAIN probe[p] = kept[p]
    /\ place[p] \in Decided => chosen[p] \in kept[p]
    /\ chosen[p] \in kept[p] \cup {0}
    /\ place[p] # "probing" => Returned(p)

\* A balance was asked for once if a probe of that account got so far, and a probe
\* says what the balance said.
ReadInv(p) ==
    /\ \A a \in Accounts :
           /\ reads[p][a] = 0 <=> reading[p][a] = NoReading
           /\ reads[p][a] # 0 => \E i \in DOMAIN probe[p] :
                  Account(Offer(p, i)) = a /\ probe[p][i] \in Asked
    /\ \A i \in DOMAIN probe[p] :
           LET b == reading[p][Account(Offer(p, i))]
           IN  /\ probe[p][i] \in Asked => reads[p][Account(Offer(p, i))] # 0
               /\ probe[p][i] = "transport" => b = Unreachable
               /\ probe[p][i] = "viable" => b \in Balances /\ b >= Offer(p, i).amount
               /\ probe[p][i] = "short" => b \in Balances /\ b < Offer(p, i).amount

\* BlameIsTrue of one pass; what was thrown ended it.
BlameInv(p) ==
    /\ error[p] # "none" => place[p] = "failed"
    /\ error[p] = "liquidity" =>
           \E i \in kept[p] : /\ reading[p][Account(Offer(p, i))] \in Balances
                              /\ reading[p][Account(Offer(p, i))] < Offer(p, i).amount
    /\ error[p] = "unsupported" => Observed(p) = {}
    /\ error[p] = "transport" /\ chosen[p] = 0 => Observed(p) = {Unreachable}

\* The signer works on, and has signed, only the terms that were reserved, and what
\* left has been signed once: where the count comes first by the count, elsewhere
\* because it counts the signatures.
SignInv(p) ==
    /\ p \in hold <=> place[p] \in {"signing", "signed"}
    /\ place[p] \notin {"signing", "signed", "failed"} =>
           atSigner[p] = {} /\ signed[p] = <<>> /\ signCount[p] = 0
    /\ chosen[p] = 0 => atSigner[p] = {} /\ signed[p] = <<>>
    /\ place[p] = "signed" => atSigner[p] = {} /\ Len(signed[p]) = 1
    /\ \A ask \in atSigner[p] : ask[2] \in Offers(p) /\ SameTerms(Offer(p, ask[2]), Chosen(p))
    /\ \A k \in DOMAIN signed[p] :
           /\ signed[p][k] \in Offers(p)
           /\ SameTerms(Offer(p, signed[p][k]), Chosen(p))
    /\ chosen[p] # 0 /\ CountsFirst(p) =>
           /\ signCount[p] = 0 => atSigner[p] = {} /\ signed[p] = <<>>
           /\ atSigner[p] # {} => signed[p] = <<>> /\ \E ask \in atSigner[p] : atSigner[p] = {ask}
           /\ Len(signed[p]) <= 1
    /\ chosen[p] # 0 /\ ~CountsFirst(p) => signCount[p] = Len(signed[p])

\* The store counts what the passes hold, and a merchant has one pin at most.
BooksInv ==
    /\ \A a \in Accounts : HeldOn(a) <= taken[a]
    /\ client.recipientMode = "tofu" =>
           /\ \A n \in Networks : \A r, s \in pins[n] : r = s
           /\ \A p \in hold : Chosen(p).payTo \in pins[Chosen(p).network]

AttemptInv ==
    /\ TypeInv /\ BooksInv
    /\ \A p \in Passes : RouteInv(p) /\ ReadInv(p) /\ BlameInv(p) /\ SignInv(p)

-------------------------------------------------------------------------------
(* Offers of a state.                                                      *)

\* An offer of a challenge has a positive amount and one meaning.
LEMMA OfferFacts ==
  ASSUME TypeInv, NEW p \in Passes, NEW i \in Offers(p)
  PROVE  /\ i \in Nat \ {0}
         /\ Offer(p, i).amount \in Nat \ {0}
         /\ Offer(p, i).payTo \in Payees
         /\ challenge[p].request \in Challenges
         /\ i \in Unambiguous[challenge[p].request]
<1>1. PICK c \in Challenges : challenge[p] = Decoded[c]
  BY DEF TypeInv
<1>2. Decoded[c].request = c
  BY DEF Decoded
<1>3. i \in DOMAIN Decoded[c].requirements
  BY <1>1 DEF Offers
<1>4. i \in Nat \ {0} /\ Decoded[c].requirements[i].amount \in Nat \ {0}
  <2> DEFINE text == Replies[c].header.document
             path == OfferAt(text, i)
  <2>1. /\ i \in Nat \ {0} /\ AtomicAmount(Field(text, path, "amount"))
        /\ Decoded[c].requirements[i] = NormalizeRequirement(text, path)
    BY <1>3, DecodedOffer
  <2>2. Decoded[c].requirements[i].amount = Field(text, path, "amount").is
    BY <2>1 DEF NormalizeRequirement
  <2> QED BY <2>1, <2>2 DEF AtomicAmount
<1>5. Decoded[c].requirements[i].payTo \in Payees
  BY <1>3 DEF Payees, Range
<1>6. i \in Unambiguous[c]
  BY <1>3, OfferHasOneMeaning
<1> QED BY <1>1, <1>2, <1>4, <1>5, <1>6 DEF Offer

\* A supported offer is for an asset of the signed release.
LEMMA SupportedFacts ==
  ASSUME TypeInv, NEW p \in Passes, NEW i \in Supported(p)
  PROVE  /\ i \in Offers(p)
         /\ Account(Offer(p, i)) \in Accounts /\ Offer(p, i).network \in Networks
         /\ Account(Offer(p, i)) \in Released[client.manifest]
<1>1. i \in Offers(p) /\ Account(Offer(p, i)) \in client.assets
  BY DEF Supported, OnAllowedNetwork
<1>2. PICK c : Constructible(c) /\ client = Built(c)
  BY DEF TypeInv, Clients
<1>3. /\ c.manifest \in InForce /\ client.manifest = c.manifest
      /\ client.assets = AssetsOn(Manifests[c.manifest],
                                  Resolved(Manifests[c.manifest], ConfiguredNetworks))
  BY <1>2 DEF Constructible, Built
<1>4. client.assets \subseteq Accounts /\ client.assets \subseteq Released[client.manifest]
  BY <1>3, AssetsAreReleased
<1>5. Offer(p, i).network \in Networks
  BY <1>1, <1>4 DEF Account, Accounts
<1> QED BY <1>1, <1>4, <1>5

-------------------------------------------------------------------------------
(* What a step leaves of the invariant of a pass it does not touch.        *)

\* The route stands while offers, probes and choice do.
LEMMA RouteSame ==
  ASSUME NEW p \in Passes, RouteInv(p), UNCHANGED <<client, challenge>>,
         place'[p] = place[p], kept'[p] = kept[p], left'[p] = left[p],
         probe'[p] = probe[p], chosen'[p] = chosen[p]
  PROVE  RouteInv(p)'
BY DEF RouteInv, Supported, OnAllowedNetwork, Offers, Offer, Returned, Saying, Account

\* Probes and readings agree while neither changes.
LEMMA ReadSame ==
  ASSUME NEW p \in Passes, ReadInv(p), UNCHANGED challenge,
         probe'[p] = probe[p], reading'[p] = reading[p], reads'[p] = reads[p]
  PROVE  ReadInv(p)'
BY DEF ReadInv, Offer, Account

\* An error stays true of the readings it was thrown over.
LEMMA BlameSame ==
  ASSUME NEW p \in Passes, BlameInv(p), UNCHANGED challenge,
         place'[p] = place[p], kept'[p] = kept[p], error'[p] = error[p],
         reading'[p] = reading[p], reads'[p] = reads[p], chosen'[p] = chosen[p]
  PROVE  BlameInv(p)'
BY DEF BlameInv, Observed, Offer, Account

\* The signatures of a pass stay those of its choice.
LEMMA SignSame ==
  ASSUME NEW p \in Passes, SignInv(p), UNCHANGED <<client, challenge>>,
         place'[p] = place[p], chosen'[p] = chosen[p], p \in hold' <=> p \in hold,
         atSigner'[p] = atSigner[p], signCount'[p] = signCount[p], signed'[p] = signed[p]
  PROVE  SignInv(p)'
BY DEF SignInv, Supported, OnAllowedNetwork, Offers, Offer, Account, SameTerms, Chosen,
       CountsFirst, FamilyOf

\* The store counts what is held while neither changes.
LEMMA BooksSame ==
  ASSUME BooksInv, UNCHANGED <<client, challenge, hold, books>>,
         \A p \in hold : chosen'[p] = chosen[p]
  PROVE  BooksInv'
<1>1. \A p \in hold : Chosen(p)' = Chosen(p)
  BY DEF Chosen, Offer
<1>2. \A a : HeldOn(a)' = HeldOn(a)
  BY <1>1 DEF HeldOn, Account
<1> QED BY <1>1, <1>2 DEF BooksInv, books

-------------------------------------------------------------------------------
(* The filters of the policy.                                              *)

\* The effect of any filter: the pass stays with supported offers, or it ends, and
\* no error of a filter blames a balance.
Filtered(p) ==
    \E w \in Early \cup {"failed"} : \E k, l \in SUBSET Supported(p) : \E e :
        /\ place' = [place EXCEPT ![p] = w]
        /\ kept' = [kept EXCEPT ![p] = k]
        /\ left' = [left EXCEPT ![p] = l]
        /\ error' = [error EXCEPT ![p] = e]
        /\ w \in {"pins", "policy", "budget"} => l # {}
        /\ e = error[p] \/ (w = "failed" /\ e \notin {"liquidity", "transport"})

\* A pass that is refused keeps what it had.
LEMMA ThrowsFilters ==
  ASSUME TypeInv, NEW p \in Passes, RouteInv(p), NEW e, e \notin {"liquidity", "transport"},
         Throws(p, e)
  PROVE  Filtered(p)
<1>1. kept' = [kept EXCEPT ![p] = kept[p]] /\ left' = [left EXCEPT ![p] = left[p]]
  BY DEF Throws, TypeInv
<1>2. kept[p] \in SUBSET Supported(p) /\ left[p] \in SUBSET Supported(p)
  BY DEF RouteInv
<1> QED BY <1>1, <1>2 DEF Filtered, Throws

\* A pass goes on with supported offers.
LEMMA EntersFilters ==
  ASSUME TypeInv, NEW p \in Passes, RouteInv(p), NEW w \in Early,
         NEW k \in SUBSET Supported(p), NEW l \in SUBSET Supported(p),
         w \in {"pins", "policy", "budget"} => l # {}, Enters(p, w, k, l)
  PROVE  Filtered(p)
<1>1. error' = [error EXCEPT ![p] = error[p]]
  BY DEF Enters, TypeInv
<1>2. /\ place' = [place EXCEPT ![p] = w]
      /\ kept' = [kept EXCEPT ![p] = k]
      /\ left' = [left EXCEPT ![p] = l]
  BY DEF Enters
<1>3. \E e : /\ place' = [place EXCEPT ![p] = w]
             /\ kept' = [kept EXCEPT ![p] = k]
             /\ left' = [left EXCEPT ![p] = l]
             /\ error' = [error EXCEPT ![p] = e]
             /\ w \in {"pins", "policy", "budget"} => l # {}
             /\ e = error[p] \/ (w = "failed" /\ e \notin {"liquidity", "transport"})
  BY <1>1, <1>2
<1> QED BY <1>3 DEF Filtered

\* The per-request cap is a filter.
LEMMA CappedFilters ==
  ASSUME TypeInv, NEW p \in Passes, RouteInv(p), NEW offers \in SUBSET Supported(p),
         Capped(p, offers)
  PROVE  Filtered(p)
<1>1. CASE Throws(p, "recipient-unpinned") \/ Throws(p, "per-request")
  BY <1>1, ThrowsFilters
<1>2. CASE /\ UnderRequestCap(p, offers) # {}
           /\ Enters(p, "budget", {}, UnderRequestCap(p, offers))
  <2>1. UnderRequestCap(p, offers) \in SUBSET Supported(p)
    BY DEF UnderRequestCap
  <2> QED BY <1>2, <2>1, EntersFilters DEF Early
<1> QED BY <1>1, <1>2 DEF Capped

\* So is everything that needs no store.
LEMMA ScreenFilters ==
  ASSUME TypeInv, NEW p \in Passes, RouteInv(p), Screen(p)
  PROVE  Filtered(p)
<1>1. Problem(p) \in Flaws
  <2>1. PICK c \in Challenges : challenge[p] = Decoded[c]
    BY DEF TypeInv
  <2>2. Decoded[c].flaw = Flaw(Replies[c].header, Replies[c].url)
    BY DEF Decoded, DecodePaymentRequired
  <2> QED BY <2>1, <2>2, FlawIsAFlaw, ReplyAssumption DEF Problem
<1>2. Problem(p) \notin {"liquidity", "transport"}
  BY <1>1 DEF Flaws
<1>3. Admitted(p) \in SUBSET Supported(p) /\ Supported(p) \ Entered(p) \in SUBSET Supported(p)
  BY DEF Admitted, Entered
<1>4. Entered(p) \subseteq Supported(p)
  BY DEF Entered
<1>5. CASE Throws(p, "domain-not-allowed") \/ Throws(p, Problem(p)) \/ Throws(p, "unsupported")
  BY <1>2, <1>5, ThrowsFilters
<1>6. CASE Capped(p, Supported(p)) \/ Capped(p, Admitted(p))
  BY <1>3, <1>6, CappedFilters
<1>7. CASE Supported(p) # Entered(p) /\ Enters(p, "pins", Admitted(p), Supported(p) \ Entered(p))
  <2>1. Supported(p) \ Entered(p) # {}
    BY <1>4, <1>7
  <2> QED BY <1>3, <1>7, <2>1, EntersFilters DEF Early
<1> QED BY <1>5, <1>6, <1>7 DEF Screen

\* The offer a filter looks at next is one it has still to look at.
LEMMA NextIsLeft ==
  ASSUME TypeInv, NEW p \in Passes, RouteInv(p), left[p] # {}
  PROVE  NextOffer(p) \in left[p] /\ NextOffer(p) \in Supported(p)
<1>1. left[p] \subseteq Nat
  BY DEF TypeInv
<1>2. NextOffer(p) \in left[p]
  BY <1>1, MinIsLeast DEF NextOffer
<1> QED BY <1>2 DEF RouteInv

\* Deciding an offer by its pin is a filter.
LEMMA DecidesFilters ==
  ASSUME TypeInv, NEW p \in Passes, RouteInv(p), left[p] # {}, NEW keeps, Decides(p, keeps)
  PROVE  Filtered(p)
<1> DEFINE survivors == IF keeps THEN kept[p] \cup {NextOffer(p)} ELSE kept[p]
           waiting   == left[p] \ {NextOffer(p)}
<1>1. survivors \in SUBSET Supported(p) /\ waiting \in SUBSET Supported(p)
  BY NextIsLeft DEF RouteInv
<1>2. CASE Capped(p, survivors)
  BY <1>1, <1>2, CappedFilters
<1>3. CASE waiting # {} /\ Enters(p, "pins", survivors, waiting)
  BY <1>1, <1>3, EntersFilters DEF Early
<1> QED BY <1>2, <1>3 DEF Decides

\* The timestamps are a filter.
LEMMA StampedFilters ==
  ASSUME TypeInv, NEW p \in Passes, RouteInv(p), NEW offers \in SUBSET Supported(p),
         Stamped(p, offers)
  PROVE  Filtered(p)
<1>1. ASSUME NEW e \in {"per-hour", "stamp-invalid", "clock-skew", "quote-expired"}, Throws(p, e)
      PROVE  Filtered(p)
  BY <1>1, ThrowsFilters
<1>2. CASE Enters(p, "route", { i \in offers : Fresh(p, i) }, {})
  <2>1. { i \in offers : Fresh(p, i) } \in SUBSET Supported(p)
    OBVIOUS
  <2> QED BY <1>2, <2>1, EntersFilters DEF Early
<1> QED BY <1>1, <1>2 DEF Stamped

\* Every step of the policy is a filter of a pass that has probed nothing.
LEMMA EvaluateFilters ==
  ASSUME TypeInv, NEW p \in Passes, RouteInv(p), Evaluate(p)
  PROVE  /\ Filtered(p) /\ place[p] \in Early
         /\ UNCHANGED <<client, challenge, books>>
<1>1. CASE Screen(p)
  BY <1>1, ScreenFilters DEF Screen, Early
<1>2. CASE ReadPins(p)
  <2>1. left[p] # {} /\ place[p] \in Early
    BY <1>2 DEF ReadPins, RouteInv, Early
  <2> DEFINE r == Offer(p, NextOffer(p))
  <2>2. CASE Decides(p, r.payTo \in pins[r.network])
    BY <1>2, <2>1, <2>2, DecidesFilters DEF ReadPins
  <2>3. CASE Enters(p, "policy", kept[p], left[p])
    <3>1. kept[p] \in SUBSET Supported(p) /\ left[p] \in SUBSET Supported(p)
      BY DEF RouteInv
    <3>2. Filtered(p)
      BY <2>1, <2>3, <3>1, EntersFilters DEF Early
    <3> QED BY <1>2, <2>1, <3>2 DEF ReadPins
  <2> QED BY <1>2, <2>2, <2>3 DEF ReadPins
<1>3. CASE ReadRecipientPolicy(p)
  <2>1. left[p] # {} /\ place[p] \in Early
    BY <1>3 DEF ReadRecipientPolicy, RouteInv, Early
  <2>2. CASE Decides(p, TRUE)
    BY <1>3, <2>1, <2>2, DecidesFilters DEF ReadRecipientPolicy
  <2>3. CASE Throws(p, "tofu-not-provisioned")
    BY <1>3, <2>1, <2>3, ThrowsFilters DEF ReadRecipientPolicy
  <2> QED BY <1>3, <2>2, <2>3 DEF ReadRecipientPolicy
<1>4. CASE ReadBudget(p)
  <2> DEFINE r         == Offer(p, NextOffer(p))
             fits      == taken[Account(r)] + r.amount <= MaxPerHour
             survivors == IF fits THEN kept[p] \cup {NextOffer(p)} ELSE kept[p]
             waiting   == left[p] \ {NextOffer(p)}
  <2>1. left[p] # {} /\ place[p] \in Early /\ UNCHANGED <<client, challenge, books>>
    BY <1>4 DEF ReadBudget, RouteInv, Early
  <2>2. survivors \in SUBSET Supported(p) /\ waiting \in SUBSET Supported(p)
    BY <2>1, NextIsLeft DEF RouteInv
  <2>3. CASE Stamped(p, survivors)
    BY <2>1, <2>2, <2>3, StampedFilters
  <2>4. CASE waiting # {} /\ Enters(p, "budget", survivors, waiting)
    BY <2>1, <2>2, <2>4, EntersFilters DEF Early
  <2>5. Stamped(p, survivors) \/ (waiting # {} /\ Enters(p, "budget", survivors, waiting))
    BY <1>4 DEF ReadBudget
  <2> QED BY <2>3, <2>4, <2>5
<1>5. CASE StoreOutage(p)
  BY <1>5, ThrowsFilters DEF StoreOutage, Early
<1> QED BY <1>1, <1>2, <1>3, <1>4, <1>5 DEF Evaluate

\* A pass that has not probed has read no balance.
LEMMA NothingRead ==
  ASSUME TypeInv, NEW p \in Passes, ReadInv(p), DOMAIN probe[p] = {}
  PROVE  \A a \in Accounts : reads[p][a] = 0
BY DEF ReadInv, TypeInv

\* A step of the policy keeps the invariant.
LEMMA EvaluatePreserves ==
  ASSUME AttemptInv, NEW p \in Passes, Evaluate(p), UNCHANGED <<planner, signing>>
  PROVE  AttemptInv'
<1>1. /\ TypeInv /\ BooksInv
      /\ \A q \in Passes : RouteInv(q) /\ ReadInv(q) /\ BlameInv(q) /\ SignInv(q)
  BY DEF AttemptInv
<1>2. Filtered(p) /\ place[p] \in Early /\ UNCHANGED <<client, challenge, books>>
  BY <1>1, EvaluateFilters
<1> DEFINE Ends(w, k, l, e) ==
        /\ place' = [place EXCEPT ![p] = w]
        /\ kept' = [kept EXCEPT ![p] = k]
        /\ left' = [left EXCEPT ![p] = l]
        /\ error' = [error EXCEPT ![p] = e]
        /\ w \in {"pins", "policy", "budget"} => l # {}
        /\ e = error[p] \/ (w = "failed" /\ e \notin {"liquidity", "transport"})
<1>0. PICK w \in Early \cup {"failed"}, k \in SUBSET Supported(p), l \in SUBSET Supported(p) :
        \E e : Ends(w, k, l, e)
  BY <1>2 DEF Filtered
<1>3. PICK e : Ends(w, k, l, e)
  BY <1>0
<1>4. UNCHANGED <<client, challenge, books, probe, reading, reads, adapter, address, chosen,
                  hold, asks, atSigner, signCount, signed>>
  BY <1>2 DEF planner, signing
<1>5. Supported(p) \subseteq Nat
  BY <1>1, SupportedFacts, OfferFacts
<1>6. TypeInv'
  <2>1. place' \in [Passes -> Stages]
    BY <1>1, <1>3 DEF TypeInv, Stages
  <2>2. kept' \in [Passes -> SUBSET Nat] /\ left' \in [Passes -> SUBSET Nat]
    BY <1>1, <1>3, <1>5 DEF TypeInv
  <2>3. error' = [q \in Passes |-> error'[q]]
    BY <1>1, <1>3 DEF TypeInv
  <2> QED BY <1>1, <1>4, <2>1, <2>2, <2>3 DEF TypeInv, books
<1>7. BooksInv'
  BY <1>1, <1>4, BooksSame DEF books
<1>8. ASSUME NEW q \in Passes \ {p}
      PROVE  RouteInv(q)' /\ ReadInv(q)' /\ BlameInv(q)' /\ SignInv(q)'
  <2>1. place'[q] = place[q] /\ kept'[q] = kept[q] /\ left'[q] = left[q] /\ error'[q] = error[q]
    BY <1>1, <1>3 DEF TypeInv
  <2> QED BY <1>1, <1>4, <2>1, RouteSame, ReadSame, BlameSame, SignSame
<1>9. ReadInv(p)'
  BY <1>1, <1>4, ReadSame
<1>10. place'[p] = w /\ kept'[p] = k /\ left'[p] = l /\ error'[p] = e
  BY <1>1, <1>3 DEF TypeInv
<1>11. DOMAIN probe[p] = {} /\ chosen[p] = 0 /\ error[p] = "none"
  BY <1>1, <1>2 DEF RouteInv, BlameInv, Early
<1>12. Supported(p)' = Supported(p)
  BY <1>4 DEF Supported, OnAllowedNetwork, Offers, Offer, Account
<1>13. RouteInv(p)'
  <2>1. w \notin {"probing"} \cup Decided
    BY DEF Early, Decided
  <2>2. Returned(p)'
    BY <1>4, <1>11 DEF Returned, Saying
  <2> QED BY <1>4, <1>3, <1>10, <1>11, <1>12, <2>1, <2>2 DEF RouteInv
<1>14. BlameInv(p)'
  <2>1. Observed(p)' = {}
    <3>1. ASSUME NEW j \in k
          PROVE  reads[p][Account(Offer(p, j))] = 0
      <4>1. Account(Offer(p, j)) \in Accounts
        BY <1>1, SupportedFacts
      <4> QED BY <1>1, <1>11, <4>1, NothingRead
    <3>2. { j \in kept[p] : reads[p][Account(Offer(p, j))] > 0 }' = {}
      BY <1>4, <1>10, <3>1 DEF Offer, Account
    <3> QED BY <3>2 DEF Observed
  <2>2. e = "none" \/ (w = "failed" /\ e \notin {"liquidity", "transport"})
    BY <1>3, <1>11
  <2> QED BY <1>10, <2>1, <2>2 DEF BlameInv
<1>15. SignInv(p)'
  <2>1. place[p] \notin {"signing", "signed", "failed"}
    BY <1>2 DEF Early
  <2>2. p \notin hold /\ atSigner[p] = {} /\ signed[p] = <<>> /\ signCount[p] = 0
    BY <1>1, <2>1 DEF SignInv
  <2>3. w \notin {"signing", "signed"}
    BY DEF Early
  <2> QED BY <1>4, <1>10, <1>11, <2>2, <2>3 DEF SignInv
<1> QED BY <1>6, <1>7, <1>8, <1>9, <1>13, <1>14, <1>15 DEF AttemptInv

-------------------------------------------------------------------------------
(* The probes.                                                             *)

\* Only a pass that is probing waits for anything.
LEMMA WaitingProbes ==
  ASSUME AttemptInv, NEW p \in Passes
  PROVE  /\ \A i \in DOMAIN probe[p] : probe[p][i] \in Running => place[p] = "probing"
         /\ \A a \in Accounts : reading[p][a] = Pending => place[p] = "probing"
<1>1. TypeInv /\ RouteInv(p) /\ ReadInv(p)
  BY DEF AttemptInv
<1>2. \A i \in DOMAIN probe[p] : probe[p][i] \in Running => place[p] = "probing"
  BY <1>1 DEF RouteInv, Returned, Saying
<1>3. ASSUME NEW a \in Accounts, reading[p][a] = Pending
      PROVE  place[p] = "probing"
  <2>1. reads[p][a] # 0
    BY <1>1, <1>3, ReadingAssumption DEF ReadInv
  <2>2. PICK i \in DOMAIN probe[p] : Account(Offer(p, i)) = a /\ probe[p][i] \in Asked
    BY <1>1, <2>1 DEF ReadInv
  <2>3. probe[p][i] = "balance"
    BY <1>1, <1>3, <2>2, ReadingAssumption DEF ReadInv, Asked
  <2> QED BY <1>2, <2>3 DEF Running
<1> QED BY <1>2, <1>3

\* The account of a probed offer.
LEMMA ProbedFacts ==
  ASSUME AttemptInv, NEW p \in Passes, NEW i \in DOMAIN probe[p]
  PROVE  /\ i \in kept[p] /\ i \in Supported(p) /\ i \in Nat \ {0}
         /\ Offer(p, i).amount \in Nat
         /\ Account(Offer(p, i)) \in Accounts /\ FamilyOf(p, i) \in Families
<1>1. TypeInv /\ RouteInv(p)
  BY DEF AttemptInv
<1>2. i \in kept[p] /\ i \in Supported(p)
  BY <1>1 DEF RouteInv
<1>3. i \in Offers(p) /\ Offer(p, i).network \in Networks /\ Account(Offer(p, i)) \in Accounts
  BY <1>1, <1>2, SupportedFacts
<1>4. i \in Nat \ {0} /\ Offer(p, i).amount \in Nat
  BY <1>1, <1>3, OfferFacts
<1>5. FamilyOf(p, i) \in Families
  BY <1>3 DEF FamilyOf, Families
<1> QED BY <1>2, <1>3, <1>4, <1>5

\* Probes move and balances are read: only what ReadInv says can be disturbed.
LEMMA ProbesMove ==
  ASSUME AttemptInv, UNCHANGED <<pass, books, chosen, signing>>,
         probe' = [p \in Passes |-> probe'[p]],
         \A p \in Passes : /\ probe'[p] \in [DOMAIN probe'[p] -> Outcomes]
                           /\ DOMAIN probe'[p] = DOMAIN probe[p],
         reading' \in [Passes -> [Accounts -> Balances \cup {NoReading, Pending, Unreachable}]],
         reads' \in [Passes -> [Accounts -> {0, 1}]],
         adapter' \in [Families -> Lookups], address' \in [Families -> Lookups],
         \A p \in Passes :
            \/ place[p] = "probing" /\ ReadInv(p)'
            \/ probe'[p] = probe[p] /\ reading'[p] = reading[p] /\ reads'[p] = reads[p]
  PROVE  AttemptInv'
<1>1. /\ TypeInv /\ BooksInv
      /\ \A q \in Passes : RouteInv(q) /\ ReadInv(q) /\ BlameInv(q) /\ SignInv(q)
  BY DEF AttemptInv
<1>2. UNCHANGED <<client, challenge, place, kept, left, error, taken, pins, tofu, hold, asks,
                  atSigner, signCount, signed>>
  BY DEF pass, books, signing
<1>3. TypeInv'
  BY <1>1, <1>2 DEF TypeInv
<1>4. BooksInv'
  BY <1>1, <1>2, BooksSame
<1>5. ASSUME NEW p \in Passes
      PROVE  RouteInv(p)' /\ ReadInv(p)' /\ BlameInv(p)' /\ SignInv(p)'
  <2>1. CASE probe'[p] = probe[p] /\ reading'[p] = reading[p] /\ reads'[p] = reads[p]
    BY <1>1, <1>2, <2>1, RouteSame, ReadSame, BlameSame, SignSame
  <2>2. CASE place[p] = "probing" /\ ReadInv(p)'
    <3>1. Supported(p)' = Supported(p)
      BY <1>2 DEF Supported, OnAllowedNetwork, Offers, Offer, Account
    <3>2. RouteInv(p)'
      BY <1>1, <1>2, <2>2, <3>1 DEF RouteInv
    <3>3. BlameInv(p)'
      BY <1>1, <1>2, <2>2 DEF BlameInv
    <3> QED BY <1>1, <1>2, <2>2, <3>2, <3>3, SignSame
  <2> QED BY <2>1, <2>2
<1> QED BY <1>3, <1>4, <1>5 DEF AttemptInv

\* One probe moves, and no balance is read.
LEMMA OneProbeMoves ==
  ASSUME AttemptInv, NEW p \in Passes, NEW i \in DOMAIN probe[p], probe[p][i] \in Running,
         NEW to \in Outcomes, Moves(p, i, to),
         to \in Asked => reads[p][Account(Offer(p, i))] # 0,
         probe[p][i] \in Asked => to \in Asked,
         LET b == reading[p][Account(Offer(p, i))]
         IN  /\ to = "transport" => b = Unreachable
             /\ to = "viable" => b \in Balances /\ b >= Offer(p, i).amount
             /\ to = "short" => b \in Balances /\ b < Offer(p, i).amount,
         UNCHANGED <<pass, books, reading, reads, chosen, signing>>,
         adapter' \in [Families -> Lookups], address' \in [Families -> Lookups]
  PROVE  AttemptInv'
<1>1. TypeInv /\ ReadInv(p)
  BY DEF AttemptInv
<1>2. UNCHANGED challenge
  BY DEF pass
<1>3. probe'[p] = [probe[p] EXCEPT ![i] = to] /\ \A q \in Passes \ {p} : probe'[q] = probe[q]
  BY <1>1 DEF Moves, TypeInv
<1>4. probe' = [q \in Passes |-> probe'[q]]
  BY <1>1 DEF Moves, TypeInv
<1>5. /\ DOMAIN probe'[p] = DOMAIN probe[p] /\ probe'[p][i] = to
      /\ \A j \in DOMAIN probe[p] \ {i} : probe'[p][j] = probe[p][j]
      /\ probe'[p] \in [DOMAIN probe'[p] -> Outcomes]
  BY <1>1, <1>3 DEF TypeInv
<1>6. ReadInv(p)'
  <2>1. ASSUME NEW a \in Accounts
        PROVE  /\ reads'[p][a] = 0 <=> reading'[p][a] = NoReading
               /\ reads'[p][a] # 0 => \E j \in DOMAIN probe'[p] :
                      Account(Offer(p, j)') = a /\ probe'[p][j] \in Asked
    <3>1. reads[p][a] = 0 <=> reading[p][a] = NoReading
      BY <1>1 DEF ReadInv
    <3>2. ASSUME reads[p][a] # 0
          PROVE  \E j \in DOMAIN probe'[p] : Account(Offer(p, j)') = a /\ probe'[p][j] \in Asked
      <4>1. PICK j \in DOMAIN probe[p] : Account(Offer(p, j)) = a /\ probe[p][j] \in Asked
        BY <1>1, <3>2 DEF ReadInv
      <4> QED BY <1>2, <1>5, <4>1 DEF Offer, Account
    <3> QED BY <3>1, <3>2
  <2>2. ASSUME NEW j \in DOMAIN probe'[p]
        PROVE  LET b == reading'[p][Account(Offer(p, j)')]
               IN  /\ probe'[p][j] \in Asked => reads'[p][Account(Offer(p, j)')] # 0
                   /\ probe'[p][j] = "transport" => b = Unreachable
                   /\ probe'[p][j] = "viable" => b \in Balances /\ b >= Offer(p, j)'.amount
                   /\ probe'[p][j] = "short" => b \in Balances /\ b < Offer(p, j)'.amount
    <3>1. Offer(p, j)' = Offer(p, j)
      BY <1>2 DEF Offer
    <3>2. CASE j = i
      BY <1>5, <3>1, <3>2
    <3>3. CASE j # i
      BY <1>1, <1>5, <3>1, <3>3 DEF ReadInv
    <3> QED BY <3>2, <3>3
  <2> QED BY <2>1, <2>2 DEF ReadInv, Account
<1>7. place[p] = "probing"
  BY WaitingProbes
<1> QED BY <1>1, <1>3, <1>4, <1>5, <1>6, <1>7, ProbesMove DEF TypeInv

\* A lookup that is asked for stays a lookup.
LEMMA AsksIsLookup ==
  ASSUME NEW lookup \in [Families -> Lookups], NEW f \in Families
  PROVE  Asks(lookup, f) \in [Families -> Lookups]
BY DEF Asks, Lookups

\* A probe that starts asks for no balance.
LEMMA ProbeStartsPreserves ==
  ASSUME AttemptInv, NEW p \in Passes, NEW i \in DOMAIN probe[p], ProbeStarts(p, i),
         UNCHANGED signing
  PROVE  AttemptInv'
<1>1. probe[p][i] = "idle" /\ UNCHANGED <<pass, books, reading, reads, address, chosen>>
  BY DEF ProbeStarts
<1>2. address' \in [Families -> Lookups] /\ adapter \in [Families -> Lookups]
  BY <1>1 DEF AttemptInv, TypeInv
<1>3. PICK to \in {"rejected", "adapter"} : Moves(p, i, to)
  BY DEF ProbeStarts
<1>4. adapter' \in [Families -> Lookups]
  BY <1>2, ProbedFacts, AsksIsLookup DEF ProbeStarts
<1>5. to \in Outcomes /\ to \notin Asked /\ probe[p][i] \in Running /\ probe[p][i] \notin Asked
  BY <1>1 DEF Outcomes, Asked, Running
<1> QED BY <1>1, <1>2, <1>3, <1>4, <1>5, OneProbeMoves DEF Asked

\* Nor does one that waits for the signer's address.
LEMMA ProbePreparesPreserves ==
  ASSUME AttemptInv, NEW p \in Passes, NEW i \in DOMAIN probe[p], ProbePrepares(p, i),
         UNCHANGED signing
  PROVE  AttemptInv'
<1>1. /\ probe[p][i] = "adapter" /\ Moves(p, i, "address")
      /\ UNCHANGED <<pass, books, reading, reads, adapter, chosen>>
  BY DEF ProbePrepares
<1>2. adapter' \in [Families -> Lookups] /\ address \in [Families -> Lookups]
  BY <1>1 DEF AttemptInv, TypeInv
<1>3. address' \in [Families -> Lookups]
  BY <1>2, ProbedFacts, AsksIsLookup DEF ProbePrepares
<1>4. /\ "address" \in Outcomes /\ "address" \notin Asked
      /\ probe[p][i] \in Running /\ probe[p][i] \notin Asked
  BY <1>1 DEF Outcomes, Asked, Running
<1> QED BY <1>1, <1>2, <1>3, <1>4, OneProbeMoves DEF Asked

\* A probe says what its balance said.
LEMMA ProbeScoresPreserves ==
  ASSUME AttemptInv, NEW p \in Passes, NEW i \in DOMAIN probe[p], ProbeScores(p, i),
         UNCHANGED signing
  PROVE  AttemptInv'
<1> DEFINE b == reading[p][Account(Offer(p, i))]
<1>1. /\ probe[p][i] = "balance"
      /\ UNCHANGED <<pass, books, reading, reads, adapter, address, chosen>>
  BY DEF ProbeScores
<1>2. adapter' \in [Families -> Lookups] /\ address' \in [Families -> Lookups]
  BY <1>1 DEF AttemptInv, TypeInv
<1>3. PICK to \in {"transport", "viable", "short"} :
         /\ Moves(p, i, to)
         /\ to = "transport" => b = Unreachable
         /\ to = "viable" => b \in Balances /\ b >= Offer(p, i).amount
         /\ to = "short" => b \in Balances /\ b < Offer(p, i).amount
  <2>1. CASE b = Unreachable /\ Moves(p, i, "transport")
    BY <2>1
  <2>2. CASE b \in Balances /\ b >= Offer(p, i).amount /\ Moves(p, i, "viable")
    BY <2>2
  <2>3. CASE b \in Balances /\ b < Offer(p, i).amount /\ Moves(p, i, "short")
    BY <2>3
  <2> QED BY <2>1, <2>2, <2>3 DEF ProbeScores
<1>4. reads[p][Account(Offer(p, i))] # 0
  BY <1>1 DEF AttemptInv, ReadInv, Asked
<1>5. to \in Outcomes /\ to \in Asked /\ probe[p][i] \in Running
  BY <1>1 DEF Outcomes, Asked, Running, Errors
<1> QED BY <1>1, <1>2, <1>3, <1>4, <1>5, OneProbeMoves

\* A probe that needs a balance asks for it, or joins the read under way.
LEMMA ProbePlansPreserves ==
  ASSUME AttemptInv, NEW p \in Passes, NEW i \in DOMAIN probe[p], ProbePlans(p, i),
         UNCHANGED signing
  PROVE  AttemptInv'
<1> DEFINE account == Account(Offer(p, i))
           to      == PlanExact(p, i)
<1>1. TypeInv /\ ReadInv(p)
  BY DEF AttemptInv
<1>2. /\ probe[p][i] = "address" /\ Moves(p, i, to)
      /\ UNCHANGED <<pass, books, adapter, address, chosen>>
  BY DEF ProbePlans
<1>3. adapter' \in [Families -> Lookups] /\ address' \in [Families -> Lookups]
  BY <1>1, <1>2 DEF TypeInv
<1>4. to \in {"balance", "config", "unusable", "method-unsupported"}
  BY DEF PlanExact, PlanExactEvm, PlanExactSvm
<1>5. to \in Outcomes /\ probe[p][i] \in Running /\ probe[p][i] \notin Asked
  BY <1>2, <1>4 DEF Outcomes, Asked, Running, Errors
<1>6. CASE to # "balance"
  <2>1. UNCHANGED <<reading, reads>>
    BY <1>6 DEF ProbePlans
  <2>2. to \notin Asked
    BY <1>4, <1>6 DEF Asked
  <2> QED BY <1>2, <1>3, <1>5, <2>1, <2>2, OneProbeMoves DEF Asked
<1>7. CASE to = "balance" /\ reading[p][account] # NoReading
  <2>1. UNCHANGED <<reading, reads>>
    BY <1>7 DEF ProbePlans, BalanceAsked
  <2>2. reads[p][account] # 0
    BY <1>1, <1>7, ProbedFacts DEF ReadInv
  <2> QED BY <1>2, <1>3, <1>5, <1>7, <2>1, <2>2, OneProbeMoves
<1>8. CASE to = "balance" /\ reading[p][account] = NoReading
  <2>1. /\ reading' = [reading EXCEPT ![p][account] = Pending]
        /\ reads' = [reads EXCEPT ![p][account] = @ + 1]
    BY <1>8 DEF ProbePlans, BalanceAsked
  <2>2. account \in Accounts /\ reads[p][account] = 0
    BY <1>1, <1>8, ProbedFacts DEF ReadInv
  <2>3. reading' \in [Passes -> [Accounts -> Balances \cup {NoReading, Pending, Unreachable}]]
    BY <1>1, <2>1, <2>2 DEF TypeInv
  <2>4. reads' \in [Passes -> [Accounts -> {0, 1}]]
    BY <1>1, <2>1, <2>2 DEF TypeInv
  <2>5. /\ reading'[p][account] = Pending /\ reads'[p][account] = 1
        /\ \A a \in Accounts \ {account} :
               reading'[p][a] = reading[p][a] /\ reads'[p][a] = reads[p][a]
        /\ \A q \in Passes \ {p} : reading'[q] = reading[q] /\ reads'[q] = reads[q]
    BY <1>1, <2>1, <2>2 DEF TypeInv
  <2>6. /\ probe'[p] = [probe[p] EXCEPT ![i] = to]
        /\ \A q \in Passes \ {p} : probe'[q] = probe[q]
        /\ probe' = [q \in Passes |-> probe'[q]]
    BY <1>1, <1>2 DEF Moves, TypeInv
  <2>7. /\ DOMAIN probe'[p] = DOMAIN probe[p] /\ probe'[p][i] = "balance"
        /\ \A j \in DOMAIN probe[p] \ {i} : probe'[p][j] = probe[p][j]
        /\ probe'[p] \in [DOMAIN probe'[p] -> Outcomes]
    BY <1>1, <1>5, <1>8, <2>6 DEF TypeInv
  <2>8. UNCHANGED challenge
    BY <1>2 DEF pass
  <2>9. ReadInv(p)'
    <3>1. ASSUME NEW a \in Accounts
          PROVE  /\ reads'[p][a] = 0 <=> reading'[p][a] = NoReading
                 /\ reads'[p][a] # 0 => \E j \in DOMAIN probe'[p] :
                        Account(Offer(p, j)') = a /\ probe'[p][j] \in Asked
      <4>1. CASE a = account
        <5>1. Account(Offer(p, i)') = a /\ probe'[p][i] \in Asked
          BY <2>7, <2>8, <4>1 DEF Asked, Offer
        <5> QED BY <2>5, <2>7, <4>1, <5>1, ReadingAssumption
      <4>2. CASE a # account
        <5>1. reads'[p][a] = reads[p][a] /\ reading'[p][a] = reading[p][a]
          BY <2>5, <4>2
        <5>2. ASSUME reads[p][a] # 0
              PROVE  \E j \in DOMAIN probe'[p] :
                        Account(Offer(p, j)') = a /\ probe'[p][j] \in Asked
          <6>1. PICK j \in DOMAIN probe[p] : Account(Offer(p, j)) = a /\ probe[p][j] \in Asked
            BY <1>1, <5>2 DEF ReadInv
          <6>2. j # i /\ Offer(p, j)' = Offer(p, j)
            BY <2>8, <4>2, <6>1 DEF Offer
          <6> QED BY <2>7, <6>1, <6>2
        <5> QED BY <1>1, <5>1, <5>2 DEF ReadInv
      <4> QED BY <4>1, <4>2
    <3>2. ASSUME NEW j \in DOMAIN probe'[p]
          PROVE  LET b == reading'[p][Account(Offer(p, j)')]
                 IN  /\ probe'[p][j] \in Asked => reads'[p][Account(Offer(p, j)')] # 0
                     /\ probe'[p][j] = "transport" => b = Unreachable
                     /\ probe'[p][j] = "viable" => b \in Balances /\ b >= Offer(p, j)'.amount
                     /\ probe'[p][j] = "short" => b \in Balances /\ b < Offer(p, j)'.amount
      <4>1. Offer(p, j)' = Offer(p, j) /\ Account(Offer(p, j)) \in Accounts
        BY <2>7, <2>8, ProbedFacts DEF Offer
      <4>2. CASE j = i
        BY <2>5, <2>7, <4>1, <4>2
      <4>3. CASE j # i
        <5>1. probe'[p][j] = probe[p][j] /\ j \in DOMAIN probe[p]
          BY <2>7, <4>3
        <5>2. CASE Account(Offer(p, j)) = account
          <6>1. probe[p][j] \notin Asked
            BY <1>1, <2>2, <5>1, <5>2 DEF ReadInv
          <6> QED BY <5>1, <6>1 DEF Asked
        <5>3. CASE Account(Offer(p, j)) # account
          BY <1>1, <2>5, <4>1, <5>1, <5>3 DEF ReadInv
        <5> QED BY <5>2, <5>3
      <4> QED BY <4>2, <4>3
    <3> QED BY <3>1, <3>2 DEF ReadInv, Account
  <2>10. place[p] = "probing"
    BY <1>5, WaitingProbes
  <2> QED BY <1>1, <1>2, <1>3, <2>3, <2>4, <2>5, <2>6, <2>7, <2>9, <2>10, ProbesMove DEF TypeInv
<1> QED BY <1>6, <1>7, <1>8

\* No probe has spoken of a balance before it arrived.
LEMMA BalanceArrivesPreserves ==
  ASSUME AttemptInv, NEW p \in Passes, NEW a \in Accounts, BalanceArrives(p, a),
         UNCHANGED signing
  PROVE  AttemptInv'
<1>1. TypeInv /\ ReadInv(p)
  BY DEF AttemptInv
<1>2. PICK b \in Balances \cup {Unreachable} : reading' = [reading EXCEPT ![p][a] = b]
  BY DEF BalanceArrives
<1>3. /\ reading[p][a] = Pending
      /\ UNCHANGED <<pass, books, probe, reads, adapter, address, chosen>>
  BY DEF BalanceArrives
<1>4. /\ reading' \in [Passes -> [Accounts -> Balances \cup {NoReading, Pending, Unreachable}]]
      /\ reading'[p][a] = b
      /\ \A c \in Accounts \ {a} : reading'[p][c] = reading[p][c]
      /\ \A q \in Passes \ {p} : reading'[q] = reading[q]
  BY <1>1, <1>2 DEF TypeInv
<1>5. place[p] = "probing"
  BY <1>3, WaitingProbes
<1>6. UNCHANGED challenge
  BY <1>3 DEF pass
<1>7. ReadInv(p)'
  <2>1. ASSUME NEW c \in Accounts
        PROVE  reads'[p][c] = 0 <=> reading'[p][c] = NoReading
    <3>1. CASE c = a
      BY <1>1, <1>3, <1>4, <3>1, ReadingAssumption DEF ReadInv
    <3>2. CASE c # a
      BY <1>1, <1>3, <1>4, <3>2 DEF ReadInv
    <3> QED BY <3>1, <3>2
  <2>2. ASSUME NEW c \in Accounts, reads'[p][c] # 0
        PROVE  \E j \in DOMAIN probe'[p] :
                      Account(Offer(p, j)') = c /\ probe'[p][j] \in Asked
    BY <1>1, <1>3, <1>6, <2>2 DEF ReadInv, Offer, Account
  <2>3. ASSUME NEW j \in DOMAIN probe'[p]
        PROVE  LET d == reading'[p][Account(Offer(p, j)')]
               IN  /\ probe'[p][j] \in Asked => reads'[p][Account(Offer(p, j)')] # 0
                   /\ probe'[p][j] = "transport" => d = Unreachable
                   /\ probe'[p][j] = "viable" => d \in Balances /\ d >= Offer(p, j)'.amount
                   /\ probe'[p][j] = "short" => d \in Balances /\ d < Offer(p, j)'.amount
    <3>1. Offer(p, j)' = Offer(p, j) /\ Account(Offer(p, j)) \in Accounts
      BY <1>3, <1>6, ProbedFacts DEF Offer
    <3>2. CASE Account(Offer(p, j)) = a
      <4>1. probe[p][j] \notin {"transport", "viable", "short"}
        BY <1>1, <1>3, <3>2, ReadingAssumption DEF ReadInv
      <4> QED BY <1>1, <1>3, <3>1, <4>1 DEF ReadInv
    <3>3. CASE Account(Offer(p, j)) # a
      BY <1>1, <1>3, <1>4, <3>1, <3>3 DEF ReadInv
    <3> QED BY <3>2, <3>3
  <2> QED BY <2>1, <2>2, <2>3 DEF ReadInv, Account
<1> QED BY <1>1, <1>3, <1>4, <1>5, <1>7, ProbesMove DEF TypeInv

\* A shared lookup fails for probes that asked for no balance yet.
LEMMA LookupFailsPreserves ==
  ASSUME AttemptInv, NEW f \in Families, NEW where \in {"adapter", "address"},
         NEW to \in {"config", "address-unavailable"}, AllWaiting(f, where, to),
         UNCHANGED <<pass, books, reading, reads, chosen, signing>>,
         adapter' \in [Families -> Lookups], address' \in [Families -> Lookups]
  PROVE  AttemptInv'
<1>1. TypeInv /\ \A p \in Passes : ReadInv(p)
  BY DEF AttemptInv
<1>2. UNCHANGED challenge
  BY DEF pass
<1>3. to \in Outcomes /\ to \notin Asked /\ where \in Running /\ where \notin Asked
  BY DEF Outcomes, Asked, Running, Errors
<1>4. \A p \in Passes :
          probe'[p] = [i \in DOMAIN probe[p] |->
                          IF probe[p][i] = where /\ FamilyOf(p, i) = f THEN to ELSE probe[p][i]]
  BY DEF AllWaiting
<1>5. probe' = [p \in Passes |-> probe'[p]]
  BY DEF AllWaiting
<1>6. ASSUME NEW p \in Passes
      PROVE  /\ probe'[p] \in [DOMAIN probe'[p] -> Outcomes]
             /\ DOMAIN probe'[p] = DOMAIN probe[p]
             /\ \/ place[p] = "probing" /\ ReadInv(p)'
                \/ probe'[p] = probe[p] /\ reading'[p] = reading[p] /\ reads'[p] = reads[p]
  <2>1. probe'[p] \in [DOMAIN probe'[p] -> Outcomes] /\ DOMAIN probe'[p] = DOMAIN probe[p]
    <3>1. \A i \in DOMAIN probe[p] : probe[p][i] \in Outcomes
      BY <1>1 DEF TypeInv
    <3>2. DOMAIN probe'[p] = DOMAIN probe[p]
      BY <1>4
    <3>3. \A i \in DOMAIN probe'[p] : probe'[p][i] \in Outcomes
      BY <1>3, <1>4, <3>1, <3>2
    <3>4. probe'[p] = [i \in DOMAIN probe'[p] |-> probe'[p][i]]
      BY <1>4, <3>2
    <3> QED BY <3>2, <3>3, <3>4
  <2>2. CASE \E i \in DOMAIN probe[p] : probe[p][i] = where
    <3>1. place[p] = "probing"
      BY <1>3, <2>2, WaitingProbes
    <3>2. \A i \in DOMAIN probe[p] : probe'[p][i] = probe[p][i]
                                     \/ (probe[p][i] \notin Asked /\ probe'[p][i] \notin Asked)
      BY <1>3, <1>4
    <3>3. ReadInv(p)'
      BY <1>1, <1>2, <2>1, <3>2 DEF ReadInv, Offer, Account, Asked
    <3> QED BY <2>1, <3>1, <3>3
  <2>3. CASE \A i \in DOMAIN probe[p] : probe[p][i] # where
    <3>1. probe'[p] = [i \in DOMAIN probe[p] |-> probe[p][i]]
      BY <1>4, <2>3
    <3>2. probe[p] = [i \in DOMAIN probe[p] |-> probe[p][i]]
      BY <1>1 DEF TypeInv
    <3> QED BY <2>1, <3>1, <3>2
  <2> QED BY <2>2, <2>3
<1> QED BY <1>1, <1>5, <1>6, ProbesMove DEF TypeInv

\* A shared lookup keeps the invariant, whatever comes of it.
LEMMA LookupPreserves ==
  ASSUME AttemptInv, SharedLookup, UNCHANGED signing
  PROVE  AttemptInv'
<1>1. TypeInv
  BY DEF AttemptInv
<1>2. PICK f \in Families : AdapterLoads(f) \/ SignerAnswers(f)
  BY DEF SharedLookup
<1>3. UNCHANGED <<pass, books, reading, reads, chosen>>
  BY <1>2 DEF AdapterLoads, SignerAnswers
<1>4. adapter' \in [Families -> Lookups] /\ address' \in [Families -> Lookups]
  BY <1>1, <1>2 DEF AdapterLoads, SignerAnswers, TypeInv, Lookups
<1>5. CASE UNCHANGED probe
  BY <1>1, <1>3, <1>4, <1>5, ProbesMove DEF TypeInv
<1>6. CASE AllWaiting(f, "adapter", "config") \/ AllWaiting(f, "address", "address-unavailable")
  BY <1>3, <1>4, <1>6, LookupFailsPreserves
<1> QED BY <1>2, <1>5, <1>6 DEF AdapterLoads, SignerAnswers

-------------------------------------------------------------------------------
(* The initial states, and the steps of one pass.                          *)

\* Without a reservation nothing is held.
LEMMA NothingHeld ==
  ASSUME hold = {}
  PROVE  \A a : HeldOn(a) = 0
<1> SUFFICES ASSUME NEW a PROVE HeldOn(a) = 0
  OBVIOUS
<1> DEFINE ours == { p \in hold : Account(Chosen(p)) = a }
<1>1. ours = {}
  OBVIOUS
<1> QED BY <1>1, AtomicTotalEmpty DEF HeldOn

\* The invariant holds at first.
LEMMA InitAttempt == Init => AttemptInv
<1> SUFFICES ASSUME Init PROVE AttemptInv
  OBVIOUS
<1>1. TypeInv
  <2>1. \A p \in Passes : MaxAsks[p] \in Nat
    BY AskAssumption
  <2>2. /\ pins \in [Networks -> SUBSET Payees]
        /\ taken \in [Accounts -> 0 .. MaxPerHour]
    BY CapAssumption DEF Init, EvaluateInit
  <2>3. /\ probe = [p \in Passes |-> probe[p]]
        /\ \A p \in Passes : probe[p] \in [DOMAIN probe[p] -> Outcomes]
    BY DEF Init, PlanInit
  <2>4. /\ place \in [Passes -> Stages]
        /\ adapter \in [Families -> Lookups] /\ address \in [Families -> Lookups]
    BY DEF Init, EvaluateInit, PlanInit, Stages, Early, Lookups
  <2>5. /\ signed \in [Passes -> Seq(Nat)] /\ atSigner \in [Passes -> SUBSET (Nat \X Nat)]
    BY DEF Init
  <2> QED BY <2>1, <2>2, <2>3, <2>4, <2>5 DEF Init, EvaluateInit, PlanInit, TypeInv
<1>2. BooksInv
  <2>1. \A a : HeldOn(a) = 0
    BY NothingHeld DEF Init
  <2> QED BY <2>1 DEF Init, EvaluateInit, BooksInv
<1>3. ASSUME NEW p \in Passes
      PROVE  RouteInv(p) /\ ReadInv(p) /\ BlameInv(p) /\ SignInv(p)
  <2>1. DOMAIN probe[p] = {}
    BY DEF Init, PlanInit
  <2>2. RouteInv(p)
    BY <2>1 DEF Init, EvaluateInit, PlanInit, RouteInv, Early, Decided, Returned, Saying
  <2>3. ReadInv(p)
    BY <2>1 DEF Init, PlanInit, ReadInv
  <2>4. BlameInv(p)
    BY DEF Init, EvaluateInit, BlameInv
  <2>5. SignInv(p)
    BY DEF Init, EvaluateInit, PlanInit, SignInv
  <2> QED BY <2>2, <2>3, <2>4, <2>5
<1> QED BY <1>1, <1>2, <1>3 DEF AttemptInv

\* A step of one pass leaves the others as they are.
LEMMA OtherPasses ==
  ASSUME AttemptInv, NEW p \in Passes, UNCHANGED <<client, challenge>>,
         \A q \in Passes \ {p} :
            /\ place'[q] = place[q] /\ kept'[q] = kept[q] /\ left'[q] = left[q]
            /\ error'[q] = error[q] /\ probe'[q] = probe[q] /\ chosen'[q] = chosen[q]
            /\ reading'[q] = reading[q] /\ reads'[q] = reads[q] /\ (q \in hold' <=> q \in hold)
            /\ atSigner'[q] = atSigner[q] /\ signCount'[q] = signCount[q]
            /\ signed'[q] = signed[q]
  PROVE  \A q \in Passes \ {p} : RouteInv(q)' /\ ReadInv(q)' /\ BlameInv(q)' /\ SignInv(q)'
<1> SUFFICES ASSUME NEW q \in Passes \ {p}
             PROVE  RouteInv(q)' /\ ReadInv(q)' /\ BlameInv(q)' /\ SignInv(q)'
  OBVIOUS
<1>1. RouteInv(q) /\ ReadInv(q) /\ BlameInv(q) /\ SignInv(q)
  BY DEF AttemptInv
<1> QED BY <1>1, RouteSame, ReadSame, BlameSame, SignSame

\* What is supported depends on the client and the challenge only.
LEMMA SupportedSame ==
  ASSUME NEW p \in Passes, UNCHANGED <<client, challenge>>
  PROVE  /\ Supported(p)' = Supported(p) /\ Offers(p)' = Offers(p)
         /\ \A i : Offer(p, i)' = Offer(p, i)
BY DEF Supported, OnAllowedNetwork, Offers, Offer, Account

\* A pass that runs has thrown nothing.
LEMMA NoErrorYet ==
  ASSUME AttemptInv, NEW p \in Passes, place[p] # "failed"
  PROVE  error[p] = "none"
BY DEF AttemptInv, BlameInv

\* The probes start with nothing asked.
LEMMA StartProbesPreserves ==
  ASSUME AttemptInv, NEW p \in Passes, StartProbes(p), UNCHANGED signing
  PROVE  AttemptInv'
<1>1. TypeInv /\ BooksInv /\ RouteInv(p) /\ ReadInv(p) /\ BlameInv(p) /\ SignInv(p)
  BY DEF AttemptInv
<1>2. /\ place[p] = "route"
      /\ place' = [place EXCEPT ![p] = "probing"]
      /\ probe' = [probe EXCEPT ![p] = [i \in kept[p] |-> "idle"]]
      /\ UNCHANGED <<client, challenge, kept, left, error, taken, pins, tofu,
                     reading, reads, adapter, address, chosen,
                     hold, asks, atSigner, signCount, signed>>
  BY DEF StartProbes, books, signing
<1>3. place'[p] = "probing" /\ probe'[p] = [i \in kept[p] |-> "idle"]
  BY <1>1, <1>2 DEF TypeInv
<1>4. DOMAIN probe'[p] = kept[p] /\ \A i \in DOMAIN probe'[p] : probe'[p][i] = "idle"
  BY <1>3
<1>5. TypeInv'
  <2>1. place' \in [Passes -> Stages]
    BY <1>1, <1>2 DEF TypeInv, Stages
  <2>2. probe' = [q \in Passes |-> probe'[q]]
    BY <1>1, <1>2 DEF TypeInv
  <2>3. ASSUME NEW q \in Passes
        PROVE  probe'[q] \in [DOMAIN probe'[q] -> Outcomes]
    <3>1. CASE q = p
      BY <1>3, <3>1 DEF Outcomes, Running
    <3>2. CASE q # p
      BY <1>1, <1>2, <3>2 DEF TypeInv
    <3> QED BY <3>1, <3>2
  <2> QED BY <1>1, <1>2, <2>1, <2>2, <2>3 DEF TypeInv
<1>6. BooksInv'
  BY <1>1, <1>2, BooksSame DEF books
<1>7. \A q \in Passes \ {p} : RouteInv(q)' /\ ReadInv(q)' /\ BlameInv(q)' /\ SignInv(q)'
  <2>1. \A q \in Passes \ {p} : place'[q] = place[q] /\ probe'[q] = probe[q]
    BY <1>1, <1>2 DEF TypeInv
  <2> QED BY <1>2, <2>1, OtherPasses
<1>8. RouteInv(p)'
  <2>1. chosen[p] = 0 /\ left[p] \subseteq Supported(p) /\ kept[p] \subseteq Supported(p)
    BY <1>1, <1>2 DEF RouteInv, Early
  <2> QED BY <1>2, <1>3, <1>4, <2>1, SupportedSame DEF RouteInv, Early, Decided
<1>9. ReadInv(p)'
  <2>1. DOMAIN probe[p] = {}
    BY <1>1, <1>2 DEF RouteInv, Early
  <2>2. \A a \in Accounts : reads[p][a] = 0
    BY <1>1, <2>1, NothingRead
  <2> QED BY <1>1, <1>2, <1>4, <2>2 DEF ReadInv, Asked
<1>10. BlameInv(p)'
  BY <1>1, <1>2 DEF BlameInv
<1>11. SignInv(p)'
  <2>1. /\ p \notin hold /\ atSigner[p] = {} /\ signed[p] = <<>> /\ signCount[p] = 0
    BY <1>1, <1>2 DEF SignInv
  <2>2. chosen[p] = 0
    BY <1>1, <1>2 DEF RouteInv, Early
  <2> QED BY <1>2, <1>3, <2>1, <2>2 DEF SignInv
<1> QED BY <1>5, <1>6, <1>7, <1>8, <1>9, <1>10, <1>11 DEF AttemptInv

\* A route is selected among the viable.
LEMMA SelectsPreserves ==
  ASSUME AttemptInv, NEW p \in Passes, Selects(p), UNCHANGED signing
  PROVE  AttemptInv'
<1>1. TypeInv /\ BooksInv /\ RouteInv(p) /\ ReadInv(p) /\ BlameInv(p) /\ SignInv(p)
  BY DEF AttemptInv
<1>0. PICK i \in Saying(p, {"viable"}) : chosen' = [chosen EXCEPT ![p] = i]
  BY DEF Selects
<1>2. /\ place[p] = "probing" /\ Returned(p)
      /\ place' = [place EXCEPT ![p] = "planned"]
      /\ kept' = [kept EXCEPT ![p] = kept[p]]
      /\ left' = [left EXCEPT ![p] = {}]
      /\ UNCHANGED <<client, challenge, error, taken, pins, tofu, probe,
                     reading, reads, adapter, address,
                     hold, asks, atSigner, signCount, signed>>
  BY DEF Selects, Enters, books, signing
<1>3. place'[p] = "planned" /\ chosen'[p] = i /\ kept' = kept /\ left'[p] = {}
  BY <1>0, <1>1, <1>2 DEF TypeInv
<1>4. i \in DOMAIN probe[p] /\ i \in kept[p] /\ i \in Nat
  <2>1. i \in DOMAIN probe[p]
    BY DEF Saying
  <2> QED BY <2>1, ProbedFacts
<1>5. TypeInv'
  <2>1. place' \in [Passes -> Stages]
    BY <1>1, <1>2 DEF TypeInv, Stages, Decided
  <2>2. left' \in [Passes -> SUBSET Nat] /\ chosen' \in [Passes -> Nat]
    BY <1>0, <1>1, <1>2, <1>4 DEF TypeInv
  <2> QED BY <1>1, <1>2, <1>3, <2>1, <2>2 DEF TypeInv
<1>6. p \notin hold /\ atSigner[p] = {} /\ signed[p] = <<>> /\ signCount[p] = 0
  BY <1>1, <1>2 DEF SignInv
<1>7. \A q \in Passes \ {p} : place'[q] = place[q] /\ chosen'[q] = chosen[q] /\ left'[q] = left[q]
  BY <1>0, <1>1, <1>2 DEF TypeInv
<1>8. BooksInv'
  <2>1. \A q \in hold : chosen'[q] = chosen[q]
    BY <1>1, <1>6, <1>7 DEF TypeInv
  <2> QED BY <1>1, <1>2, <2>1, BooksSame DEF books
<1>9. \A q \in Passes \ {p} : RouteInv(q)' /\ ReadInv(q)' /\ BlameInv(q)' /\ SignInv(q)'
  BY <1>2, <1>3, <1>7, OtherPasses
<1>10. RouteInv(p)'
  <2>1. DOMAIN probe[p] = kept[p] /\ kept[p] \subseteq Supported(p)
    BY <1>1, <1>2 DEF RouteInv
  <2>2. Returned(p)'
    BY <1>2 DEF Returned, Saying
  <2> QED BY <1>2, <1>3, <1>4, <2>1, <2>2, SupportedSame DEF RouteInv, Early, Decided
<1>11. ReadInv(p)'
  BY <1>1, <1>2, ReadSame
<1>12. BlameInv(p)'
  <2>1. error[p] = "none"
    BY <1>2, NoErrorYet
  <2> QED BY <1>2, <2>1 DEF BlameInv
<1>13. SignInv(p)'
  BY <1>2, <1>3, <1>6 DEF SignInv
<1> QED BY <1>5, <1>8, <1>9, <1>10, <1>11, <1>12, <1>13 DEF AttemptInv

\* What a probe that failed to find its balance says when all have returned.
LEMMA ErrorsAreLeft ==
  ASSUME AttemptInv, NEW p \in Passes, place[p] = "probing", Returned(p),
         Saying(p, {"viable"}) = {}, Saying(p, {"short"}) = {},
         Saying(p, {"rejected"}) # DOMAIN probe[p]
  PROVE  /\ Min(Saying(p, Errors)) \in DOMAIN probe[p]
         /\ probe[p][Min(Saying(p, Errors))] \in Errors
<1>1. TypeInv
  BY DEF AttemptInv
<1>2. PICK i \in DOMAIN probe[p] : probe[p][i] # "rejected"
  BY DEF Saying
<1>3. probe[p][i] \in Outcomes /\ probe[p][i] \notin Running
  BY <1>1 DEF TypeInv, Returned, Saying
<1>4. probe[p][i] \in Errors
  BY <1>2, <1>3 DEF Outcomes, Saying
<1>5. Saying(p, Errors) # {}
  BY <1>4 DEF Saying
<1>6. Saying(p, Errors) \subseteq Nat
  BY ProbedFacts DEF Saying
<1>7. Min(Saying(p, Errors)) \in Saying(p, Errors)
  BY <1>5, <1>6, MinIsLeast
<1> QED BY <1>7 DEF Saying

\* What was observed when no balance was enough and none was short: only outages.
LEMMA OnlyOutages ==
  ASSUME AttemptInv, NEW p \in Passes, place[p] = "probing", Returned(p),
         Saying(p, {"viable"}) = {}, Saying(p, {"short"}) = {}
  PROVE  Observed(p) \subseteq {Unreachable}
<1> SUFFICES ASSUME NEW j \in kept[p], reads[p][Account(Offer(p, j))] > 0
             PROVE  reading[p][Account(Offer(p, j))] = Unreachable
  BY DEF Observed
<1>1. TypeInv /\ RouteInv(p) /\ ReadInv(p)
  BY DEF AttemptInv
<1>2. Account(Offer(p, j)) \in Accounts
  <2>1. j \in Supported(p)
    BY <1>1 DEF RouteInv
  <2> QED BY <1>1, <2>1, SupportedFacts
<1>3. reads[p][Account(Offer(p, j))] # 0
  BY <1>1, <1>2 DEF TypeInv
<1>4. PICK i \in DOMAIN probe[p] :
         Account(Offer(p, i)) = Account(Offer(p, j)) /\ probe[p][i] \in Asked
  BY <1>1, <1>2, <1>3 DEF ReadInv
<1>5. probe[p][i] \notin Running /\ probe[p][i] # "viable" /\ probe[p][i] # "short"
  BY DEF Returned, Saying
<1>6. probe[p][i] = "transport"
  BY <1>4, <1>5 DEF Asked, Running
<1> QED BY <1>1, <1>4, <1>6 DEF ReadInv

\* The verdict blames what was observed.
LEMMA VerdictIsTrue ==
  ASSUME AttemptInv, NEW p \in Passes, place[p] = "probing", Returned(p),
         Saying(p, {"viable"}) = {}
  PROVE  /\ Verdict(p) = "liquidity" =>
               \E i \in kept[p] : /\ reading[p][Account(Offer(p, i))] \in Balances
                                  /\ reading[p][Account(Offer(p, i))] < Offer(p, i).amount
         /\ Verdict(p) = "unsupported" => Observed(p) = {}
         /\ Verdict(p) = "transport" => Observed(p) = {Unreachable}
<1>1. TypeInv /\ RouteInv(p) /\ ReadInv(p)
  BY DEF AttemptInv
<1>2. kept[p] = DOMAIN probe[p]
  BY <1>1 DEF RouteInv
<1>3. CASE Saying(p, {"rejected"}) = DOMAIN probe[p]
  <2>1. Verdict(p) = "unsupported"
    BY <1>3 DEF Verdict
  <2>2. \A i \in DOMAIN probe[p] : probe[p][i] = "rejected"
    BY <1>3 DEF Saying
  <2>3. ASSUME NEW j \in kept[p], reads[p][Account(Offer(p, j))] > 0
        PROVE  FALSE
    <3>1. j \in Supported(p)
      BY <1>1 DEF RouteInv
    <3>2. Account(Offer(p, j)) \in Accounts
      BY <1>1, <3>1, SupportedFacts
    <3>3. reads[p][Account(Offer(p, j))] # 0
      BY <1>1, <2>3, <3>2 DEF TypeInv
    <3>4. \E i \in DOMAIN probe[p] : probe[p][i] \in Asked
      BY <1>1, <3>2, <3>3 DEF ReadInv
    <3> QED BY <2>2, <3>4 DEF Asked
  <2>4. Observed(p) = {}
    BY <2>3 DEF Observed
  <2> QED BY <2>1, <2>4
<1>4. CASE Saying(p, {"rejected"}) # DOMAIN probe[p] /\ Saying(p, {"short"}) # {}
  <2>1. Verdict(p) = "liquidity"
    BY <1>4 DEF Verdict
  <2>2. PICK i \in DOMAIN probe[p] : probe[p][i] = "short"
    BY <1>4 DEF Saying
  <2>3. /\ reading[p][Account(Offer(p, i))] \in Balances
        /\ reading[p][Account(Offer(p, i))] < Offer(p, i).amount
    BY <1>1, <2>2 DEF ReadInv
  <2> QED BY <1>2, <2>1, <2>2, <2>3
<1>5. CASE Saying(p, {"rejected"}) # DOMAIN probe[p] /\ Saying(p, {"short"}) = {}
  <2> DEFINE i == Min(Saying(p, Errors))
  <2>1. i \in DOMAIN probe[p] /\ probe[p][i] \in Errors /\ Verdict(p) = probe[p][i]
    BY <1>5, ErrorsAreLeft DEF Verdict
  <2>2. Verdict(p) # "liquidity" /\ Verdict(p) # "unsupported"
    BY <2>1 DEF Errors
  <2>3. ASSUME Verdict(p) = "transport"
        PROVE  Observed(p) = {Unreachable}
    <3>1. reads[p][Account(Offer(p, i))] # 0 /\ reading[p][Account(Offer(p, i))] = Unreachable
      BY <1>1, <2>1, <2>3 DEF ReadInv, Asked
    <3>2. reads[p][Account(Offer(p, i))] > 0
      <4>1. Account(Offer(p, i)) \in Accounts
        BY <2>1, ProbedFacts
      <4> QED BY <1>1, <3>1, <4>1 DEF TypeInv
    <3>3. Unreachable \in Observed(p)
      BY <1>2, <2>1, <3>1, <3>2 DEF Observed
    <3> QED BY <1>5, <3>3, OnlyOutages
  <2> QED BY <2>2, <2>3
<1> QED BY <1>3, <1>4, <1>5

\* A pass ends with an error: what its invariant asks of a pass that ended.
LEMMA FailsPreserves ==
  ASSUME AttemptInv, NEW p \in Passes, place[p] # "failed", Returned(p),
         NEW e, Throws(p, e), UNCHANGED <<client, challenge, planner, asks, atSigner, signCount, signed>>,
         DOMAIN probe[p] \in {{}, kept[p]},
         e = "liquidity" =>
               \E i \in kept[p] : /\ reading[p][Account(Offer(p, i))] \in Balances
                                  /\ reading[p][Account(Offer(p, i))] < Offer(p, i).amount,
         e = "unsupported" => Observed(p) = {},
         e = "transport" /\ chosen[p] = 0 => Observed(p) = {Unreachable},
         hold' = hold \ {p}, BooksInv',
         taken' \in [Accounts -> 0 .. MaxPerHour], pins' \in [Networks -> SUBSET Payees],
         tofu' \in BOOLEAN
  PROVE  AttemptInv'
<1>1. TypeInv /\ RouteInv(p) /\ ReadInv(p) /\ BlameInv(p) /\ SignInv(p)
  BY DEF AttemptInv
<1>2. /\ error' = [error EXCEPT ![p] = e]
      /\ place' = [place EXCEPT ![p] = "failed"]
      /\ UNCHANGED <<client, challenge, kept, left, probe, reading, reads, adapter, address, chosen,
                     asks, atSigner, signCount, signed>>
  BY DEF Throws, planner
<1>3. place'[p] = "failed" /\ error'[p] = e /\ p \notin hold'
  BY <1>1, <1>2 DEF TypeInv
<1>4. \A q \in Passes \ {p} : /\ place'[q] = place[q] /\ error'[q] = error[q]
                              /\ q \in hold' <=> q \in hold
  BY <1>1, <1>2 DEF TypeInv
<1>5. TypeInv'
  <2>1. place' \in [Passes -> Stages] /\ hold' \subseteq Passes
    BY <1>1, <1>2 DEF TypeInv, Stages
  <2>2. error' = [q \in Passes |-> error'[q]]
    BY <1>1, <1>2 DEF TypeInv
  <2> QED BY <1>1, <1>2, <2>1, <2>2 DEF TypeInv
<1>6. \A q \in Passes \ {p} : RouteInv(q)' /\ ReadInv(q)' /\ BlameInv(q)' /\ SignInv(q)'
  BY <1>2, <1>4, OtherPasses
<1>7. RouteInv(p)'
  <2>1. Returned(p)'
    BY <1>2 DEF Returned, Saying
  <2> QED BY <1>1, <1>2, <1>3, <2>1, SupportedSame DEF RouteInv, Early, Decided
<1>8. ReadInv(p)'
  BY <1>1, <1>2, ReadSame
<1>9. BlameInv(p)'
  <2>1. Observed(p)' = Observed(p)
    BY <1>2 DEF Observed, Offer, Account
  <2> QED BY <1>2, <1>3, <2>1 DEF BlameInv, Offer, Account
<1>10. SignInv(p)'
  <2>1. /\ \A i : Offer(p, i)' = Offer(p, i)
        /\ Offers(p)' = Offers(p) /\ Chosen(p)' = Chosen(p) /\ (CountsFirst(p)' <=> CountsFirst(p))
    BY <1>2, SupportedSame DEF Chosen, CountsFirst, FamilyOf, Offer
  <2> QED BY <1>1, <1>2, <1>3, <2>1 DEF SignInv, SameTerms, Account
<1> QED BY <1>5, <1>6, <1>7, <1>8, <1>9, <1>10 DEF AttemptInv

\* A pass that finds no route ends with a true verdict.
LEMMA DespairsPreserves ==
  ASSUME AttemptInv, NEW p \in Passes, Despairs(p), UNCHANGED signing
  PROVE  AttemptInv'
<1>1. TypeInv /\ BooksInv /\ RouteInv(p) /\ ReadInv(p) /\ BlameInv(p) /\ SignInv(p)
  BY DEF AttemptInv
<1>2. /\ place[p] = "probing" /\ Returned(p) /\ Saying(p, {"viable"}) = {} /\ Throws(p, Verdict(p))
      /\ UNCHANGED <<client, challenge, planner, taken, pins, tofu,
                     hold, asks, atSigner, signCount, signed>>
  BY DEF Despairs, books, signing
<1>3. DOMAIN probe[p] = kept[p] /\ p \notin hold
  BY <1>1, <1>2 DEF RouteInv, SignInv
<1>4. BooksInv'
  BY <1>1, <1>2, BooksSame DEF books, planner
<1>5. hold' = hold \ {p}
  BY <1>2, <1>3
<1>6. /\ taken' \in [Accounts -> 0 .. MaxPerHour] /\ pins' \in [Networks -> SUBSET Payees]
      /\ tofu' \in BOOLEAN
  BY <1>1, <1>2 DEF TypeInv
<1> QED BY <1>2, <1>3, <1>4, <1>5, <1>6, VerdictIsTrue, FailsPreserves

\* A plan that is only asked for holds nothing.
LEMMA PlanReturnsPreserves ==
  ASSUME AttemptInv, NEW p \in Passes, PlanReturns(p)
  PROVE  AttemptInv'
<1>1. TypeInv /\ BooksInv /\ RouteInv(p) /\ ReadInv(p) /\ BlameInv(p) /\ SignInv(p)
  BY DEF AttemptInv
<1>2. /\ place[p] = "planned"
      /\ place' = [place EXCEPT ![p] = "returned"]
      /\ kept' = [kept EXCEPT ![p] = kept[p]]
      /\ left' = [left EXCEPT ![p] = {}]
      /\ UNCHANGED <<client, challenge, error, taken, pins, tofu, probe,
                     reading, reads, adapter, address, chosen,
                     hold, asks, atSigner, signCount, signed>>
  BY DEF PlanReturns, Enters, books, planner, signing
<1>3. place'[p] = "returned" /\ kept' = kept /\ left'[p] = {}
  BY <1>1, <1>2 DEF TypeInv
<1>4. \A q \in Passes \ {p} : place'[q] = place[q] /\ left'[q] = left[q]
  BY <1>1, <1>2 DEF TypeInv
<1>5. TypeInv'
  <2>1. place' \in [Passes -> Stages] /\ left' \in [Passes -> SUBSET Nat]
    BY <1>1, <1>2 DEF TypeInv, Stages, Decided
  <2> QED BY <1>1, <1>2, <1>3, <2>1 DEF TypeInv
<1>6. BooksInv'
  BY <1>1, <1>2, BooksSame DEF books
<1>7. \A q \in Passes \ {p} : RouteInv(q)' /\ ReadInv(q)' /\ BlameInv(q)' /\ SignInv(q)'
  BY <1>2, <1>3, <1>4, OtherPasses
<1>8. RouteInv(p)'
  <2>1. Returned(p)'
    BY <1>1, <1>2 DEF RouteInv, Returned, Saying
  <2> QED BY <1>1, <1>2, <1>3, <2>1, SupportedSame DEF RouteInv, Early, Decided
<1>9. ReadInv(p)'
  BY <1>1, <1>2, ReadSame
<1>10. BlameInv(p)'
  <2>1. error[p] = "none"
    BY <1>2, NoErrorYet
  <2> QED BY <1>2, <2>1 DEF BlameInv
<1>11. SignInv(p)'
  <2>1. p \notin hold /\ atSigner[p] = {} /\ signed[p] = <<>> /\ signCount[p] = 0
    BY <1>1, <1>2 DEF SignInv
  <2> QED BY <1>2, <1>3, <2>1 DEF SignInv
<1> QED BY <1>5, <1>6, <1>7, <1>8, <1>9, <1>10, <1>11 DEF AttemptInv

-------------------------------------------------------------------------------
(* The reservation.                                                        *)

\* The offer a pass has chosen, from the choice on.
LEMMA ChosenFacts ==
  ASSUME AttemptInv, NEW p \in Passes, place[p] \in Decided
  PROVE  /\ chosen[p] \in Offers(p) /\ chosen[p] # 0
         /\ Chosen(p).amount \in Nat \ {0} /\ Chosen(p).payTo \in Payees
         /\ Account(Chosen(p)) \in Accounts /\ Chosen(p).network \in Networks
         /\ Account(Chosen(p)) \in Released[client.manifest]
         /\ Returned(p) /\ DOMAIN probe[p] = kept[p]
<1>1. TypeInv /\ RouteInv(p)
  BY DEF AttemptInv
<1>2. chosen[p] \in Supported(p) /\ Returned(p) /\ DOMAIN probe[p] = kept[p]
  BY <1>1 DEF RouteInv, Decided
<1> QED BY <1>1, <1>2, SupportedFacts, OfferFacts DEF Chosen

\* What the passes hold on one account is a number, whoever leaves or joins.
LEMMA HeldFacts ==
  ASSUME AttemptInv, NEW a
  PROVE  /\ IsFiniteSet({ q \in hold : Account(Chosen(q)) = a })
         /\ \A q \in hold : Chosen(q).amount \in Nat
         /\ HeldOn(a) \in Nat
<1> DEFINE ours == { q \in hold : Account(Chosen(q)) = a }
           f == [q \in ours |-> Chosen(q).amount]
<1>1. hold \subseteq Passes
  BY DEF AttemptInv, TypeInv
<1>2. IsFiniteSet(ours)
  <2>1. ours \subseteq Passes
    BY <1>1
  <2> QED BY <2>1, PassAssumption, FS_Subset
<1>3. ASSUME NEW q \in hold
      PROVE  Chosen(q).amount \in Nat
  <2>1. q \in Passes /\ place[q] \in Decided
    BY <1>1, <1>3 DEF AttemptInv, SignInv, Decided
  <2> QED BY <2>1, ChosenFacts
<1>4. \A q \in ours : f[q] \in Nat
  BY <1>3
<1>5. AtomicTotal(ours, f) \in Nat
  BY <1>2, <1>4, AtomicTotalType
<1> QED BY <1>2, <1>3, <1>5 DEF HeldOn

\* A reservation adds its amount to its account,
LEMMA HeldJoins ==
  ASSUME AttemptInv, NEW p \in Passes, place[p] \in Decided, p \notin hold,
         UNCHANGED <<challenge, chosen>>, hold' = hold \cup {p}, NEW a
  PROVE  HeldOn(a)' = IF a = Account(Chosen(p)) THEN HeldOn(a) + Chosen(p).amount ELSE HeldOn(a)
<1> DEFINE ours == { q \in hold : Account(Chosen(q)) = a }
           more == { q \in hold \cup {p} : Account(Chosen(q)) = a }
           f == [q \in ours |-> Chosen(q).amount]
           g == [q \in more |-> Chosen(q).amount]
<1>1. \A q : Chosen(q)' = Chosen(q)
  BY DEF Chosen, Offer
<1>2. HeldOn(a)' = AtomicTotal(more, g)
  BY <1>1 DEF HeldOn, Account
<1>3. HeldOn(a) = AtomicTotal(ours, f)
  BY DEF HeldOn
<1>4. CASE a = Account(Chosen(p))
  <2>1. more = ours \cup {p} /\ p \notin ours /\ IsFiniteSet(ours)
    BY <1>4, HeldFacts
  <2>2. \A q \in ours \cup {p} : g[q] \in Nat
    <3>1. Chosen(p).amount \in Nat
      BY ChosenFacts
    <3> QED BY <2>1, <3>1, HeldFacts
  <2>3. AtomicTotal(ours \cup {p}, g) = AtomicTotal(ours, g) + g[p]
    BY <2>1, <2>2, AtomicTotalAdd
  <2>4. AtomicTotal(ours, g) = AtomicTotal(ours, f)
    <3>1. \A q \in ours : g[q] = f[q]
      BY <2>1
    <3> QED BY <3>1, AtomicTotalAgree
  <2>5. g[p] = Chosen(p).amount
    BY <2>1
  <2> QED BY <1>2, <1>3, <1>4, <2>1, <2>3, <2>4, <2>5
<1>5. CASE a # Account(Chosen(p))
  <2>1. more = ours
    BY <1>5
  <2> QED BY <1>2, <1>3, <1>5, <2>1
<1> QED BY <1>4, <1>5

\* and takes it along when it is given back.
LEMMA HeldLeaves ==
  ASSUME AttemptInv, NEW p \in hold, UNCHANGED <<challenge, chosen>>, hold' = hold \ {p}, NEW a
  PROVE  /\ a = Account(Chosen(p)) => /\ HeldOn(a)' = HeldOn(a) - Chosen(p).amount
                                      /\ HeldOn(a) >= Chosen(p).amount
         /\ a # Account(Chosen(p)) => HeldOn(a)' = HeldOn(a)
<1> DEFINE ours == { q \in hold : Account(Chosen(q)) = a }
           less == { q \in hold \ {p} : Account(Chosen(q)) = a }
           f == [q \in ours |-> Chosen(q).amount]
           g == [q \in less |-> Chosen(q).amount]
<1>1. \A q : Chosen(q)' = Chosen(q)
  BY DEF Chosen, Offer
<1>2. HeldOn(a)' = AtomicTotal(less, g)
  BY <1>1 DEF HeldOn, Account
<1>3. HeldOn(a) = AtomicTotal(ours, f)
  BY DEF HeldOn
<1>4. CASE a = Account(Chosen(p))
  <2>1. less = ours \ {p} /\ p \in ours /\ IsFiniteSet(ours)
    BY <1>4, HeldFacts
  <2>2. \A q \in ours : f[q] \in Nat
    BY HeldFacts
  <2>3. AtomicTotal(ours \ {p}, f) = AtomicTotal(ours, f) - f[p]
    BY <2>1, <2>2, AtomicTotalRemove
  <2>4. AtomicTotal(less, g) = AtomicTotal(less, f)
    <3>1. \A q \in less : g[q] = f[q]
      BY <2>1
    <3> QED BY <3>1, AtomicTotalAgree
  <2>5. f[p] = Chosen(p).amount /\ f[p] \in Nat
    BY <2>1, <2>2
  <2>6. AtomicTotal(less, f) \in Nat /\ AtomicTotal(ours, f) \in Nat
    <3>1. IsFiniteSet(less)
      BY <2>1, FS_RemoveElement
    <3>2. \A q \in less : f[q] \in Nat
      BY <2>1, <2>2
    <3>3. AtomicTotal(less, f) \in Nat
      BY <3>1, <3>2, AtomicTotalType
    <3>4. AtomicTotal(ours, f) \in Nat
      BY <2>1, <2>2, AtomicTotalType
    <3> QED BY <3>3, <3>4
  <2>7. AtomicTotal(less, f) = AtomicTotal(ours, f) - f[p]
    BY <2>1, <2>3
  <2> HIDE DEF ours, less, f, g
  <2>8. AtomicTotal(ours, f) >= f[p]
    BY <2>5, <2>6, <2>7
  <2> QED BY <1>2, <1>3, <1>4, <2>4, <2>5, <2>7, <2>8
<1>5. CASE a # Account(Chosen(p))
  <2>1. less = ours
    BY <1>5
  <2> QED BY <1>2, <1>3, <1>5, <2>1
<1> QED BY <1>4, <1>5

\* A claim gives the network its only pin, and no reservation had one before.
LEMMA ClaimKeepsPins ==
  ASSUME AttemptInv, NEW p \in Passes, place[p] \in Decided, RecipientStands(Chosen(p)),
         pins' = IF Claims(Chosen(p)) THEN [pins EXCEPT ![Chosen(p).network] = {Chosen(p).payTo}]
                 ELSE pins
  PROVE  /\ pins' \in [Networks -> SUBSET Payees]
         /\ client.recipientMode = "tofu" =>
                /\ \A n \in Networks : \A r, s \in pins'[n] : r = s
                /\ \A q \in hold \cup {p} : Chosen(q).payTo \in pins'[Chosen(q).network]
<1>1. TypeInv /\ BooksInv
  BY DEF AttemptInv
<1>2. Chosen(p).network \in Networks /\ Chosen(p).payTo \in Payees
  BY ChosenFacts
<1>3. \A q \in hold : Chosen(q).network \in Networks
  <2> SUFFICES ASSUME NEW q \in hold PROVE Chosen(q).network \in Networks
    OBVIOUS
  <2>1. q \in Passes /\ place[q] \in Decided
    BY <1>1 DEF AttemptInv, TypeInv, SignInv, Decided
  <2> QED BY <2>1, ChosenFacts
<1>4. pins' \in [Networks -> SUBSET Payees]
  BY <1>1, <1>2 DEF TypeInv
<1>5. ASSUME client.recipientMode = "tofu"
      PROVE  /\ \A n \in Networks : \A r, s \in pins'[n] : r = s
             /\ \A q \in hold \cup {p} : Chosen(q).payTo \in pins'[Chosen(q).network]
  <2>1. /\ \A n \in Networks : \A r, s \in pins[n] : r = s
        /\ \A q \in hold : Chosen(q).payTo \in pins[Chosen(q).network]
    BY <1>1, <1>5 DEF BooksInv
  <2>2. CASE Claims(Chosen(p))
    <3>1. pins[Chosen(p).network] = {}
      BY <2>2 DEF Claims
    <3>2. \A q \in hold : Chosen(q).network # Chosen(p).network
      BY <2>1, <3>1
    <3>3. /\ pins'[Chosen(p).network] = {Chosen(p).payTo}
          /\ \A n \in Networks \ {Chosen(p).network} : pins'[n] = pins[n]
      BY <1>1, <1>2, <2>2 DEF TypeInv
    <3> QED BY <1>2, <1>3, <2>1, <3>2, <3>3
  <2>3. CASE ~Claims(Chosen(p))
    <3>1. Chosen(p).payTo \in pins[Chosen(p).network]
      BY <1>5, <2>3 DEF RecipientStands
    <3> QED BY <2>1, <2>3, <3>1
  <2> QED BY <2>2, <2>3
<1> QED BY <1>4, <1>5

\* The atom of the store admits, is over budget, or refuses the payee.
LEMMA ReservesPreserves ==
  ASSUME AttemptInv, NEW p \in Passes, Reserves(p)
  PROVE  AttemptInv'
<1>1. TypeInv /\ BooksInv /\ RouteInv(p) /\ ReadInv(p) /\ BlameInv(p) /\ SignInv(p)
  BY DEF AttemptInv
<1>2. /\ place[p] = "planned" /\ place[p] \in Decided
      /\ UNCHANGED <<client, challenge, planner, probe, reading, reads, adapter, address, chosen,
                     asks, atSigner, signCount, signed>>
  BY DEF Reserves, planner, Decided
<1>3. p \notin hold /\ atSigner[p] = {} /\ signed[p] = <<>> /\ signCount[p] = 0
  BY <1>1, <1>2 DEF SignInv
<1>4. /\ chosen[p] # 0 /\ Returned(p) /\ DOMAIN probe[p] = kept[p]
      /\ Account(Chosen(p)) \in Accounts /\ Chosen(p).amount \in Nat \ {0}
  BY <1>2, ChosenFacts
<1>5. \A q : Chosen(q)' = Chosen(q)
  BY <1>2 DEF Chosen, Offer
<1>6. MaxPerHour \in Nat
  BY CapAssumption
<1>7. ASSUME hold' = hold,
             \A a \in Accounts : taken'[a] \in 0 .. MaxPerHour /\ taken'[a] >= taken[a],
             client.recipientMode = "tofu" =>
                /\ \A n \in Networks : \A r, s \in pins'[n] : r = s
                /\ \A q \in hold : Chosen(q).payTo \in pins'[Chosen(q).network]
      PROVE  BooksInv'
  <2>1. \A a : HeldOn(a)' = HeldOn(a)
    BY <1>5, <1>7 DEF HeldOn, Account
  <2>2. ASSUME NEW a \in Accounts
        PROVE  HeldOn(a)' <= taken'[a]
    <3>1. HeldOn(a) \in Nat
      BY <1>1, <1>2, HeldFacts
    <3>2. HeldOn(a) <= taken[a] /\ taken[a] \in Nat
      BY <1>1, <1>6 DEF BooksInv, TypeInv
    <3> QED BY <1>6, <1>7, <2>1, <3>1, <3>2
  <2> QED BY <1>2, <1>5, <1>7, <2>2 DEF BooksInv
<1>8. ASSUME OverBudget(Chosen(p)), UNCHANGED hold,
             NEW e \in {"per-hour", "store-unavailable"}, Throws(p, e)
      PROVE  AttemptInv'
  <2>1. /\ RecipientStands(Chosen(p)) /\ UNCHANGED <<taken, tofu>>
        /\ pins' = IF Claims(Chosen(p)) THEN [pins EXCEPT ![Chosen(p).network] = {Chosen(p).payTo}]
                   ELSE pins
    BY <1>8 DEF OverBudget
  <2>2. /\ pins' \in [Networks -> SUBSET Payees]
        /\ client.recipientMode = "tofu" =>
                /\ \A n \in Networks : \A r, s \in pins'[n] : r = s
                /\ \A q \in hold : Chosen(q).payTo \in pins'[Chosen(q).network]
    BY <1>2, <2>1, ClaimKeepsPins
  <2>3. BooksInv'
    <3>1. \A a \in Accounts : taken'[a] \in 0 .. MaxPerHour /\ taken'[a] >= taken[a]
      BY <1>1, <1>6, <2>1 DEF TypeInv
    <3> QED BY <1>7, <1>8, <2>2, <3>1
  <2>4. taken' \in [Accounts -> 0 .. MaxPerHour] /\ tofu' \in BOOLEAN /\ hold' = hold \ {p}
    BY <1>1, <1>3, <1>8, <2>1 DEF TypeInv
  <2> QED BY <1>2, <1>4, <1>8, <2>2, <2>3, <2>4, FailsPreserves
<1>9. ASSUME UNCHANGED <<hold, books>>,
             NEW e \in {"recipient-unpinned", "scope-frozen", "store-unavailable"}, Throws(p, e)
      PROVE  AttemptInv'
  <2>1. UNCHANGED <<taken, pins, tofu>>
    BY <1>9 DEF books
  <2>2. BooksInv'
    BY <1>1, <1>2, <1>9, BooksSame
  <2>3. /\ taken' \in [Accounts -> 0 .. MaxPerHour] /\ pins' \in [Networks -> SUBSET Payees]
        /\ tofu' \in BOOLEAN /\ hold' = hold \ {p}
    BY <1>1, <1>3, <1>9, <2>1 DEF TypeInv
  <2> QED BY <1>2, <1>4, <1>9, <2>2, <2>3, FailsPreserves
<1>10. CASE Reserved(Chosen(p)) /\ hold' = hold \cup {p} /\ Enters(p, "signing", kept[p], {})
  <2> DEFINE a0 == Account(Chosen(p))
  <2>1. /\ RecipientStands(Chosen(p)) /\ taken[a0] + Chosen(p).amount <= MaxPerHour
        /\ taken' = [taken EXCEPT ![a0] = taken[a0] + Chosen(p).amount] /\ UNCHANGED tofu
        /\ pins' = IF Claims(Chosen(p)) THEN [pins EXCEPT ![Chosen(p).network] = {Chosen(p).payTo}]
                   ELSE pins
    BY <1>10 DEF Reserved
  <2>2. /\ place' = [place EXCEPT ![p] = "signing"] /\ kept' = [kept EXCEPT ![p] = kept[p]]
        /\ left' = [left EXCEPT ![p] = {}] /\ UNCHANGED error
    BY <1>10 DEF Enters
  <2>3. /\ pins' \in [Networks -> SUBSET Payees]
        /\ client.recipientMode = "tofu" =>
                /\ \A n \in Networks : \A r, s \in pins'[n] : r = s
                /\ \A q \in hold \cup {p} : Chosen(q).payTo \in pins'[Chosen(q).network]
    BY <1>2, <2>1, ClaimKeepsPins
  <2>4. place'[p] = "signing" /\ kept' = kept /\ left'[p] = {} /\ p \in hold'
    BY <1>1, <1>10, <2>2 DEF TypeInv
  <2>5. \A q \in Passes \ {p} : /\ place'[q] = place[q] /\ left'[q] = left[q]
                                /\ q \in hold' <=> q \in hold
    BY <1>1, <1>10, <2>2 DEF TypeInv
  <2>6. taken[a0] \in Nat /\ taken[a0] + Chosen(p).amount \in 0 .. MaxPerHour
    BY <1>1, <1>4, <1>6, <2>1 DEF TypeInv
  <2>7. TypeInv'
    <3>1. place' \in [Passes -> Stages] /\ left' \in [Passes -> SUBSET Nat] /\ hold' \subseteq Passes
      BY <1>1, <1>10, <2>2 DEF TypeInv, Stages, Decided
    <3>2. taken' \in [Accounts -> 0 .. MaxPerHour]
      BY <1>1, <2>1, <2>6 DEF TypeInv
    <3> QED BY <1>1, <1>2, <2>1, <2>2, <2>3, <2>4, <3>1, <3>2 DEF TypeInv
  <2>8. BooksInv'
    <3>1. ASSUME NEW a \in Accounts
          PROVE  HeldOn(a)' <= taken'[a]
      <4>1. HeldOn(a)' = IF a = a0 THEN HeldOn(a) + Chosen(p).amount ELSE HeldOn(a)
        BY <1>2, <1>3, <1>10, HeldJoins
      <4>2. HeldOn(a) <= taken[a] /\ HeldOn(a) \in Nat /\ taken[a] \in Nat
        <5>1. HeldOn(a) \in Nat
          BY HeldFacts
        <5>2. HeldOn(a) <= taken[a]
          BY <1>1 DEF BooksInv
        <5>3. taken[a] \in Nat
          BY <1>1, <1>6 DEF TypeInv
        <5> QED BY <5>1, <5>2, <5>3
      <4>3. taken'[a] = IF a = a0 THEN taken[a] + Chosen(p).amount ELSE taken[a]
        BY <1>1, <2>1 DEF TypeInv
      <4> QED BY <1>4, <4>1, <4>2, <4>3
    <3> QED BY <1>2, <1>5, <1>10, <2>3, <3>1 DEF BooksInv
  <2>9. \A q \in Passes \ {p} : RouteInv(q)' /\ ReadInv(q)' /\ BlameInv(q)' /\ SignInv(q)'
    BY <1>2, <2>2, <2>4, <2>5, OtherPasses
  <2>10. RouteInv(p)'
    <3>1. Returned(p)'
      BY <1>2, <1>4 DEF Returned, Saying
    <3> QED BY <1>1, <1>2, <1>4, <2>4, <3>1, SupportedSame DEF RouteInv, Early, Decided
  <2>11. ReadInv(p)'
    BY <1>1, <1>2, ReadSame
  <2>12. BlameInv(p)'
    <3>1. error[p] = "none"
      BY <1>2, NoErrorYet
    <3> QED BY <2>2, <3>1 DEF BlameInv
  <2>13. SignInv(p)'
    BY <1>2, <1>3, <2>4 DEF SignInv
  <2> QED BY <2>7, <2>8, <2>9, <2>10, <2>11, <2>12, <2>13 DEF AttemptInv
<1>11. CASE Reserved(Chosen(p)) /\ UNCHANGED hold /\ Throws(p, "store-unavailable")
  <2> DEFINE a0 == Account(Chosen(p))
  <2>1. /\ RecipientStands(Chosen(p)) /\ taken[a0] + Chosen(p).amount <= MaxPerHour
        /\ taken' = [taken EXCEPT ![a0] = taken[a0] + Chosen(p).amount] /\ UNCHANGED tofu
        /\ pins' = IF Claims(Chosen(p)) THEN [pins EXCEPT ![Chosen(p).network] = {Chosen(p).payTo}]
                   ELSE pins
    BY <1>11 DEF Reserved
  <2>2. /\ pins' \in [Networks -> SUBSET Payees]
        /\ client.recipientMode = "tofu" =>
                /\ \A n \in Networks : \A r, s \in pins'[n] : r = s
                /\ \A q \in hold : Chosen(q).payTo \in pins'[Chosen(q).network]
    BY <1>2, <2>1, ClaimKeepsPins
  <2>3. \A a \in Accounts : taken[a] \in Nat /\ taken[a] \in 0 .. MaxPerHour
    BY <1>1, <1>6 DEF TypeInv
  <2>4. taken' \in [Accounts -> 0 .. MaxPerHour] /\ \A a \in Accounts : taken'[a] >= taken[a]
    BY <1>1, <1>4, <1>6, <2>1, <2>3 DEF TypeInv
  <2>5. BooksInv'
    BY <1>7, <1>11, <2>2, <2>3, <2>4
  <2>6. tofu' \in BOOLEAN /\ hold' = hold \ {p}
    BY <1>1, <1>3, <1>11, <2>1 DEF TypeInv
  <2> QED BY <1>2, <1>4, <1>11, <2>2, <2>4, <2>5, <2>6, FailsPreserves
<1> QED BY <1>8, <1>9, <1>10, <1>11 DEF Reserves

-------------------------------------------------------------------------------
(* The signatures.                                                         *)

\* A signature is asked for, given or refused: what else of a pass stays.
LEMMA SignatureMoves ==
  ASSUME AttemptInv, NEW p \in Passes, UNCHANGED <<pass, books, planner, hold>>,
         asks' \in [Passes -> Nat], \A q \in Passes : asks'[q] <= MaxAsks[q],
         atSigner' \in [Passes -> SUBSET (Nat \X Nat)],
         signCount' \in [Passes -> Nat], signed' \in [Passes -> Seq(Nat)],
         \A q \in Passes \ {p} : /\ atSigner'[q] = atSigner[q] /\ signed'[q] = signed[q]
                                 /\ signCount'[q] = signCount[q],
         SignInv(p)'
  PROVE  AttemptInv'
<1>1. TypeInv /\ BooksInv /\ RouteInv(p) /\ ReadInv(p) /\ BlameInv(p)
  BY DEF AttemptInv
<1>2. UNCHANGED <<client, challenge, place, kept, left, error, books, taken, pins, tofu, probe,
                  reading, reads, adapter, address, chosen, hold>>
  BY DEF pass, books, planner
<1>3. TypeInv'
  BY <1>1, <1>2 DEF TypeInv
<1>4. BooksInv'
  BY <1>1, <1>2, BooksSame
<1>5. \A q \in Passes \ {p} : RouteInv(q)' /\ ReadInv(q)' /\ BlameInv(q)' /\ SignInv(q)'
  BY <1>2, OtherPasses
<1>6. RouteInv(p)' /\ ReadInv(p)' /\ BlameInv(p)'
  BY <1>1, <1>2, RouteSame, ReadSame, BlameSame
<1> QED BY <1>3, <1>4, <1>5, <1>6 DEF AttemptInv

\* The signer is handed the approved terms, and by a counting adapter once.
LEMMA SchemeAsksPreserves ==
  ASSUME AttemptInv, NEW p \in Passes, SchemeAsks(p)
  PROVE  AttemptInv'
<1>1. TypeInv /\ SignInv(p)
  BY DEF AttemptInv
<1>2. /\ place[p] = "signing" /\ asks[p] < MaxAsks[p]
      /\ asks' = [asks EXCEPT ![p] = asks[p] + 1]
      /\ UNCHANGED <<pass, books, planner, hold, signed>>
      /\ UNCHANGED <<client, challenge, place, chosen>>
  BY DEF SchemeAsks, pass, planner
<1>3. PICK i \in Offers(p), inWindow \in BOOLEAN :
           \/ ~MaySign(p, i, inWindow) /\ UNCHANGED <<atSigner, signCount>>
           \/ /\ MaySign(p, i, inWindow)
              /\ atSigner' = [atSigner EXCEPT ![p] = @ \cup {<<asks'[p], i>>}]
              /\ signCount' = [signCount EXCEPT ![p] = IF CountsFirst(p) THEN @ + 1 ELSE @]
  BY DEF SchemeAsks
<1>4. asks' \in [Passes -> Nat] /\ \A q \in Passes : asks'[q] <= MaxAsks[q]
  <2>1. asks[p] \in Nat /\ MaxAsks[p] \in Nat /\ \A q \in Passes : asks[q] <= MaxAsks[q]
    BY <1>1, AskAssumption DEF TypeInv
  <2>2. asks' \in [Passes -> Nat] /\ asks'[p] = asks[p] + 1
        /\ \A q \in Passes \ {p} : asks'[q] = asks[q]
    BY <1>1, <1>2, <2>1 DEF TypeInv
  <2>3. asks'[p] <= MaxAsks[p]
    BY <1>2, <2>1, <2>2
  <2> QED BY <2>1, <2>2, <2>3
<1>5. /\ \A j : Offer(p, j)' = Offer(p, j)
      /\ Offers(p)' = Offers(p) /\ Chosen(p)' = Chosen(p) /\ (CountsFirst(p)' <=> CountsFirst(p))
  BY <1>2 DEF Chosen, CountsFirst, FamilyOf, Offer, Offers
<1>6. CASE UNCHANGED <<atSigner, signCount>>
  <2>1. SignInv(p)'
    BY <1>1, <1>2, <1>6, SignSame
  <2> QED BY <1>1, <1>2, <1>4, <1>6, <2>1, SignatureMoves DEF TypeInv
<1>7. CASE /\ MaySign(p, i, inWindow)
           /\ atSigner' = [atSigner EXCEPT ![p] = @ \cup {<<asks'[p], i>>}]
           /\ signCount' = [signCount EXCEPT ![p] = IF CountsFirst(p) THEN @ + 1 ELSE @]
  <2>1. signCount[p] = 0 /\ SameTerms(Offer(p, i), Chosen(p))
    BY <1>7 DEF MaySign
  <2>2. i \in Nat /\ asks'[p] \in Nat
    BY <1>1, <1>4, OfferFacts
  <2>3. /\ atSigner'[p] = atSigner[p] \cup {<<asks'[p], i>>}
        /\ signCount'[p] = IF CountsFirst(p) THEN 1 ELSE 0
        /\ \A q \in Passes \ {p} : atSigner'[q] = atSigner[q] /\ signCount'[q] = signCount[q]
    BY <1>1, <1>7, <2>1 DEF TypeInv
  <2>4. atSigner' \in [Passes -> SUBSET (Nat \X Nat)]
    BY <1>1, <1>7, <2>2 DEF TypeInv
  <2>5. signCount' \in [Passes -> Nat]
    <3>1. \A q \in Passes : signCount'[q] \in Nat
      <4>1. signCount'[p] \in Nat
        BY <2>3
      <4>2. \A q \in Passes \ {p} : signCount'[q] \in Nat
        BY <1>1, <2>3 DEF TypeInv
      <4> QED BY <4>1, <4>2
    <3>2. signCount' = [q \in Passes |-> signCount'[q]]
      BY <1>1, <1>7 DEF TypeInv
    <3> QED BY <3>1, <3>2
  <2>6. /\ \A ask \in atSigner'[p] : ask[2] \in Offers(p) /\ SameTerms(Offer(p, ask[2]), Chosen(p))
        /\ chosen[p] # 0
    BY <1>1, <1>2, <2>1, <2>3, ChosenFacts DEF SignInv, Decided
  <2>7. CASE CountsFirst(p)
    <3>1. atSigner[p] = {} /\ signed[p] = <<>>
      BY <1>1, <1>2, <2>1, <2>7, ChosenFacts DEF SignInv, Decided
    <3>2. \A k \in DOMAIN signed'[p] : FALSE
      BY <1>2, <3>1
    <3>3. Len(signed'[p]) <= 1 /\ signed'[p] = <<>>
      BY <1>2, <3>1
    <3>4. atSigner'[p] = {<<asks'[p], i>>} /\ signCount'[p] = 1
      BY <2>3, <2>7, <3>1
    <3>5. SignInv(p)'
      BY <1>1, <1>2, <1>5, <2>6, <2>7, <3>2, <3>3, <3>4 DEF SignInv, SameTerms, Account
    <3> QED BY <1>1, <1>2, <1>4, <2>3, <2>4, <2>5, <3>5, SignatureMoves DEF TypeInv
  <2>8. CASE ~CountsFirst(p)
    <3>1. signCount'[p] = signCount[p]
      BY <2>1, <2>3, <2>8
    <3>2. SignInv(p)'
      BY <1>1, <1>2, <1>5, <2>6, <2>8, <3>1 DEF SignInv, SameTerms, Account
    <3> QED BY <1>1, <1>2, <1>4, <2>3, <2>4, <2>5, <3>2, SignatureMoves DEF TypeInv
  <2> QED BY <2>7, <2>8
<1> QED BY <1>3, <1>6, <1>7

\* A signature is one of those the signer was handed.
LEMMA SignerSignsPreserves ==
  ASSUME AttemptInv, NEW p \in Passes, SignerSigns(p)
  PROVE  AttemptInv'
<1>1. TypeInv /\ SignInv(p)
  BY DEF AttemptInv
<1>2. /\ UNCHANGED <<pass, books, planner, hold, asks>>
      /\ UNCHANGED <<client, challenge, place, chosen>>
  BY DEF SignerSigns, pass, planner
<1>3. PICK ask \in atSigner[p] :
           /\ atSigner' = [atSigner EXCEPT ![p] = @ \ {ask}]
           /\ \/ UNCHANGED <<signCount, signed>>
              \/ /\ signed' = [signed EXCEPT ![p] = Append(@, ask[2])]
                 /\ signCount' = [signCount EXCEPT ![p] = IF CountsFirst(p) THEN @ ELSE @ + 1]
  BY DEF SignerSigns
<1>4. asks' \in [Passes -> Nat] /\ \A q \in Passes : asks'[q] <= MaxAsks[q]
  BY <1>1, <1>2 DEF TypeInv
<1>5. /\ \A j : Offer(p, j)' = Offer(p, j)
      /\ Offers(p)' = Offers(p) /\ Chosen(p)' = Chosen(p) /\ (CountsFirst(p)' <=> CountsFirst(p))
  BY <1>2 DEF Chosen, CountsFirst, FamilyOf, Offer, Offers
<1>6. /\ ask[2] \in Offers(p) /\ SameTerms(Offer(p, ask[2]), Chosen(p)) /\ ask[2] \in Nat
      /\ place[p] \in {"signing", "failed"} /\ signed[p] \in Seq(Nat)
  BY <1>1, <1>3 DEF SignInv, TypeInv
<1>7. /\ atSigner'[p] = atSigner[p] \ {ask}
      /\ \A q \in Passes \ {p} : atSigner'[q] = atSigner[q]
      /\ atSigner' \in [Passes -> SUBSET (Nat \X Nat)]
  BY <1>1, <1>3 DEF TypeInv
<1>8. chosen[p] # 0 /\ CountsFirst(p) =>
          atSigner'[p] = {} /\ signed[p] = <<>> /\ signCount[p] # 0
  BY <1>1, <1>3, <1>7 DEF SignInv
<1>9. CASE UNCHANGED <<signCount, signed>>
  <2>1. SignInv(p)'
    BY <1>1, <1>2, <1>5, <1>6, <1>7, <1>8, <1>9 DEF SignInv, SameTerms, Account
  <2> QED BY <1>1, <1>2, <1>4, <1>7, <1>9, <2>1, SignatureMoves DEF TypeInv
<1>10. CASE /\ signed' = [signed EXCEPT ![p] = Append(@, ask[2])]
            /\ signCount' = [signCount EXCEPT ![p] = IF CountsFirst(p) THEN @ ELSE @ + 1]
  <2>1. /\ signed'[p] = Append(signed[p], ask[2])
        /\ signCount'[p] = IF CountsFirst(p) THEN signCount[p] ELSE signCount[p] + 1
        /\ \A q \in Passes \ {p} : signed'[q] = signed[q] /\ signCount'[q] = signCount[q]
    BY <1>1, <1>10 DEF TypeInv
  <2>2. signed' \in [Passes -> Seq(Nat)] /\ signCount' \in [Passes -> Nat]
    <3>1. Append(signed[p], ask[2]) \in Seq(Nat)
      BY <1>6
    <3>2. signed' \in [Passes -> Seq(Nat)]
      BY <1>1, <1>10, <3>1 DEF TypeInv
    <3>3. \A q \in Passes : signCount'[q] \in Nat
      <4>1. signCount[p] \in Nat
        BY <1>1 DEF TypeInv
      <4>2. signCount'[p] \in Nat
        BY <2>1, <4>1
      <4>3. \A q \in Passes \ {p} : signCount'[q] \in Nat
        BY <1>1, <2>1 DEF TypeInv
      <4> QED BY <4>2, <4>3
    <3>4. signCount' = [q \in Passes |-> signCount'[q]]
      BY <1>1, <1>10 DEF TypeInv
    <3> QED BY <3>2, <3>3, <3>4
  <2>3. \A k \in DOMAIN signed'[p] : /\ signed'[p][k] \in Offers(p)
                                     /\ SameTerms(Offer(p, signed'[p][k]), Chosen(p))
    <3> SUFFICES ASSUME NEW k \in DOMAIN signed'[p]
                 PROVE  /\ signed'[p][k] \in Offers(p)
                        /\ SameTerms(Offer(p, signed'[p][k]), Chosen(p))
      OBVIOUS
    <3>1. (k \in DOMAIN signed[p] /\ signed'[p][k] = signed[p][k]) \/ signed'[p][k] = ask[2]
      BY <1>6, <2>1
    <3> QED BY <1>1, <1>6, <3>1 DEF SignInv
  <2>4. Len(signed'[p]) = Len(signed[p]) + 1 /\ Len(signed[p]) \in Nat
    BY <1>6, <2>1
  <2>5. chosen[p] # 0 /\ CountsFirst(p) => Len(signed'[p]) <= 1
    BY <1>8, <2>4
  <2>6. SignInv(p)'
    <3>1. chosen[p] # 0 /\ ~CountsFirst(p) => signCount'[p] = Len(signed'[p])
      BY <1>1, <2>1, <2>4 DEF SignInv
    <3>2. chosen[p] # 0 /\ CountsFirst(p) => signCount'[p] # 0
      BY <1>8, <2>1
    <3>3. \A a \in atSigner'[p] : a[2] \in Offers(p) /\ SameTerms(Offer(p, a[2]), Chosen(p))
      BY <1>1, <1>7 DEF SignInv
    <3> QED BY <1>1, <1>2, <1>5, <1>6, <1>8, <2>3, <2>5, <3>1, <3>2, <3>3 DEF SignInv, SameTerms, Account
  <2> QED BY <1>2, <1>4, <1>7, <2>1, <2>2, <2>6, SignatureMoves
<1> QED BY <1>3, <1>9, <1>10

\* A release gives back what was held.
LEMMA ReleasesPreserves ==
  ASSUME AttemptInv, NEW p \in Passes, place[p] = "signing",
         NEW e \in {"signature-count", "signer", "transport"}, Releases(p, e),
         UNCHANGED <<asks, atSigner, signCount, signed>>
  PROVE  AttemptInv'
<1>1. TypeInv /\ BooksInv /\ SignInv(p)
  BY DEF AttemptInv
<1>2. place[p] \in Decided /\ p \in hold
  BY <1>1 DEF Decided, SignInv
<1> DEFINE a0 == Account(Chosen(p))
<1>3. /\ chosen[p] # 0 /\ Returned(p) /\ DOMAIN probe[p] = kept[p]
      /\ a0 \in Accounts /\ Chosen(p).amount \in Nat \ {0}
  BY <1>2, ChosenFacts
<1>4. /\ Throws(p, e) /\ hold' = hold \ {p}
      /\ taken' = [taken EXCEPT ![a0] = taken[a0] - Chosen(p).amount]
      /\ UNCHANGED <<client, challenge, pins, tofu, planner>> /\ UNCHANGED chosen
  BY DEF Releases, planner
<1>5. \A q : Chosen(q)' = Chosen(q)
  BY <1>4 DEF Chosen, Offer
<1>6. ASSUME NEW a \in Accounts
      PROVE  HeldOn(a) \in Nat /\ HeldOn(a) <= taken[a] /\ taken[a] \in 0 .. MaxPerHour /\ taken[a] \in Nat
  <2>1. HeldOn(a) \in Nat
    BY HeldFacts
  <2>2. HeldOn(a) <= taken[a]
    BY <1>1 DEF BooksInv
  <2>3. taken[a] \in 0 .. MaxPerHour /\ taken[a] \in Nat
    BY <1>1, CapAssumption DEF TypeInv
  <2> QED BY <2>1, <2>2, <2>3
<1>7. \A a : /\ a = a0 => /\ HeldOn(a)' = HeldOn(a) - Chosen(p).amount
                            /\ HeldOn(a) >= Chosen(p).amount
             /\ a # a0 => HeldOn(a)' = HeldOn(a)
  BY <1>2, <1>4, HeldLeaves
<1>8. taken[a0] - Chosen(p).amount \in 0 .. MaxPerHour
  <2>1. HeldOn(a0) \in Nat /\ HeldOn(a0) <= taken[a0] /\ taken[a0] \in 0 .. MaxPerHour
    BY <1>3, <1>6
  <2>2. MaxPerHour \in Nat
    BY CapAssumption
  <2>3. HeldOn(a0) >= Chosen(p).amount
    BY <1>7
  <2> HIDE DEF a0
  <2> QED BY <1>3, <2>1, <2>2, <2>3
<1>9. taken' \in [Accounts -> 0 .. MaxPerHour]
  BY <1>1, <1>4, <1>8 DEF TypeInv
<1>10. BooksInv'
  <2>1. ASSUME NEW a \in Accounts
        PROVE  HeldOn(a)' <= taken'[a]
    <3>1. CASE a = a0
      <4>1. taken'[a] = taken[a] - Chosen(p).amount
        BY <1>1, <1>3, <1>4, <3>1 DEF TypeInv
      <4>2. HeldOn(a) \in Nat /\ HeldOn(a) <= taken[a] /\ taken[a] \in Nat
        BY <1>6
      <4>3. HeldOn(a)' = HeldOn(a) - Chosen(p).amount
        BY <1>7, <3>1
      <4> QED BY <1>3, <4>1, <4>2, <4>3
    <3>2. CASE a # a0
      <4>1. taken'[a] = taken[a]
        BY <1>1, <1>4, <3>2 DEF TypeInv
      <4>2. HeldOn(a)' = HeldOn(a) /\ HeldOn(a) <= taken[a]
        BY <1>6, <1>7, <3>2
      <4> QED BY <4>1, <4>2
    <3> QED BY <3>1, <3>2
  <2>2. hold' \subseteq hold
    BY <1>4
  <2> QED BY <1>1, <1>4, <1>5, <2>1, <2>2 DEF BooksInv
<1>11. pins' \in [Networks -> SUBSET Payees] /\ tofu' \in BOOLEAN
  BY <1>1, <1>4 DEF TypeInv
<1> QED BY <1>3, <1>4, <1>9, <1>10, <1>11, FailsPreserves

\* What is sent on was counted as one signature, and is one.
LEMMA SchemeReturnsPreserves ==
  ASSUME AttemptInv, NEW p \in Passes, SchemeReturns(p)
  PROVE  AttemptInv'
<1>1. TypeInv /\ BooksInv /\ RouteInv(p) /\ ReadInv(p) /\ BlameInv(p) /\ SignInv(p)
  BY DEF AttemptInv
<1>2. /\ place[p] = "signing" /\ atSigner[p] = {} /\ signed[p] # <<>>
      /\ UNCHANGED <<asks, atSigner, signCount, signed>>
  BY DEF SchemeReturns
<1>3. CASE signCount[p] # 1 /\ Releases(p, "signature-count")
  BY <1>2, <1>3, ReleasesPreserves
<1>4. CASE /\ signCount[p] = 1
           /\ Enters(p, "signed", kept[p], {})
           /\ UNCHANGED <<client, challenge, books, planner, hold>>
  <2>1. /\ place' = [place EXCEPT ![p] = "signed"] /\ kept' = [kept EXCEPT ![p] = kept[p]]
        /\ left' = [left EXCEPT ![p] = {}] /\ UNCHANGED error
        /\ UNCHANGED <<client, challenge, taken, pins, tofu, probe, reading, reads, adapter, address,
                       chosen, hold>>
    BY <1>4 DEF Enters, books, planner
  <2>2. place'[p] = "signed" /\ kept' = kept /\ left'[p] = {} /\ p \in hold
    BY <1>1, <1>2, <2>1 DEF TypeInv, SignInv
  <2>3. \A q \in Passes \ {p} : place'[q] = place[q] /\ left'[q] = left[q]
    BY <1>1, <2>1 DEF TypeInv
  <2>4. chosen[p] # 0 /\ Returned(p) /\ DOMAIN probe[p] = kept[p]
    BY <1>2, ChosenFacts DEF Decided
  <2>5. Len(signed[p]) = 1
    <3>1. signed[p] \in Seq(Nat) /\ signed[p] # <<>>
      BY <1>1, <1>2 DEF TypeInv
    <3>2. CASE CountsFirst(p)
      <4>1. Len(signed[p]) <= 1
        BY <1>1, <2>4, <3>2 DEF SignInv
      <4>2. Len(signed[p]) \in Nat /\ Len(signed[p]) # 0
        BY <3>1
      <4>3. \A n \in Nat : n <= 1 /\ n # 0 => n = 1
        OBVIOUS
      <4> QED BY <4>1, <4>2, <4>3
    <3>3. CASE ~CountsFirst(p)
      <4>1. signCount[p] = Len(signed[p])
        BY <1>1, <2>4, <3>3 DEF SignInv
      <4>2. signCount[p] = 1
        BY <1>4
      <4> QED BY <4>1, <4>2
    <3> QED BY <3>2, <3>3
  <2>6. TypeInv'
    <3>1. place' \in [Passes -> Stages] /\ left' \in [Passes -> SUBSET Nat]
      BY <1>1, <2>1 DEF TypeInv, Stages, Decided
    <3> QED BY <1>1, <1>2, <2>1, <2>2, <3>1 DEF TypeInv
  <2>7. BooksInv'
    BY <1>1, <2>1, BooksSame DEF books
  <2>8. \A q \in Passes \ {p} : RouteInv(q)' /\ ReadInv(q)' /\ BlameInv(q)' /\ SignInv(q)'
    BY <1>2, <2>1, <2>2, <2>3, OtherPasses
  <2>9. RouteInv(p)'
    <3>1. Returned(p)'
      BY <2>1, <2>4 DEF Returned, Saying
    <3> QED BY <1>1, <1>2, <2>1, <2>2, <2>4, <3>1, SupportedSame DEF RouteInv, Early, Decided
  <2>10. ReadInv(p)'
    BY <1>1, <2>1, ReadSame
  <2>11. BlameInv(p)'
    <3>1. error[p] = "none"
      BY <1>2, NoErrorYet
    <3> QED BY <2>1, <3>1 DEF BlameInv
  <2>12. SignInv(p)'
    <3>1. /\ \A j : Offer(p, j)' = Offer(p, j)
          /\ Offers(p)' = Offers(p) /\ Chosen(p)' = Chosen(p) /\ (CountsFirst(p)' <=> CountsFirst(p))
      BY <2>1 DEF Chosen, CountsFirst, FamilyOf, Offer, Offers
    <3> QED BY <1>1, <1>2, <2>1, <2>2, <2>5, <3>1 DEF SignInv, SameTerms, Account
  <2> QED BY <2>6, <2>7, <2>8, <2>9, <2>10, <2>11, <2>12 DEF AttemptInv
<1> QED BY <1>3, <1>4 DEF SchemeReturns

\* Other processes spend beside what is held.
LEMMA OthersSpendPreserves ==
  ASSUME AttemptInv, OthersSpend
  PROVE  AttemptInv'
<1>1. /\ TypeInv /\ BooksInv
      /\ \A q \in Passes : RouteInv(q) /\ ReadInv(q) /\ BlameInv(q) /\ SignInv(q)
  BY DEF AttemptInv
<1>2. UNCHANGED <<client, challenge, place, kept, left, error, pins, tofu, probe, reading, reads,
                  adapter, address, chosen, hold, asks, atSigner, signCount, signed>>
  BY DEF OthersSpend, pass, planner, signing
<1>3. PICK a \in Contended : \E t \in HeldOn(a) .. MaxPerHour : taken' = [taken EXCEPT ![a] = t]
  BY DEF OthersSpend
<1>4. PICK t \in HeldOn(a) .. MaxPerHour : taken' = [taken EXCEPT ![a] = t]
  BY <1>3
<1>5. HeldOn(a) \in Nat /\ MaxPerHour \in Nat /\ a \in Accounts
  BY HeldFacts, CapAssumption, ContendedAssumption
<1>6. t \in 0 .. MaxPerHour /\ HeldOn(a) <= t
  BY <1>5
<1>7. taken' \in [Accounts -> 0 .. MaxPerHour]
  BY <1>1, <1>4, <1>6 DEF TypeInv
<1>8. TypeInv'
  BY <1>1, <1>2, <1>7 DEF TypeInv
<1>9. \A b : HeldOn(b)' = HeldOn(b)
  <2>1. \A q : Chosen(q)' = Chosen(q)
    BY <1>2 DEF Chosen, Offer
  <2> QED BY <1>2, <2>1 DEF HeldOn, Account
<1>10. ASSUME NEW b \in Accounts
       PROVE  HeldOn(b)' <= taken'[b]
  <2>1. CASE b = a
    <3>1. taken'[b] = t
      BY <1>1, <1>4, <2>1 DEF TypeInv
    <3> QED BY <1>6, <1>9, <2>1, <3>1
  <2>2. CASE b # a
    <3>1. taken'[b] = taken[b]
      BY <1>1, <1>4, <2>2 DEF TypeInv
    <3>2. HeldOn(b) <= taken[b]
      BY <1>1 DEF BooksInv
    <3> QED BY <1>9, <3>1, <3>2
  <2> QED BY <2>1, <2>2
<1>11. BooksInv'
  <2>1. \A q : Chosen(q)' = Chosen(q)
    BY <1>2 DEF Chosen, Offer
  <2> QED BY <1>1, <1>2, <1>10, <2>1 DEF BooksInv
<1>12. \A q \in Passes : RouteInv(q)' /\ ReadInv(q)' /\ BlameInv(q)' /\ SignInv(q)'
  BY <1>1, <1>2, RouteSame, ReadSame, BlameSame, SignSame
<1> QED BY <1>8, <1>11, <1>12 DEF AttemptInv

-------------------------------------------------------------------------------
(* The theorems.                                                           *)

\* A step of planning keeps the invariant.
LEMMA PlanPreserves ==
  ASSUME AttemptInv, NEW p \in Passes, Plan(p), UNCHANGED signing
  PROVE  AttemptInv'
<1>1. CASE StartProbes(p)
  BY <1>1, StartProbesPreserves
<1>2. CASE Selects(p)
  BY <1>2, SelectsPreserves
<1>3. CASE Despairs(p)
  BY <1>3, DespairsPreserves
<1>4. ASSUME NEW i \in DOMAIN probe[p], ProbeStarts(p, i) PROVE AttemptInv'
  BY <1>4, ProbeStartsPreserves
<1>5. ASSUME NEW i \in DOMAIN probe[p], ProbePrepares(p, i) PROVE AttemptInv'
  BY <1>5, ProbePreparesPreserves
<1>6. ASSUME NEW i \in DOMAIN probe[p], ProbePlans(p, i) PROVE AttemptInv'
  BY <1>6, ProbePlansPreserves
<1>7. ASSUME NEW i \in DOMAIN probe[p], ProbeScores(p, i) PROVE AttemptInv'
  BY <1>7, ProbeScoresPreserves
<1>8. ASSUME NEW a \in Accounts, BalanceArrives(p, a) PROVE AttemptInv'
  BY <1>8, BalanceArrivesPreserves
<1> QED BY <1>1, <1>2, <1>3, <1>4, <1>5, <1>6, <1>7, <1>8 DEF Plan

\* A step of reserving and signing keeps it.
LEMMA AuthorizePreserves ==
  ASSUME AttemptInv, NEW p \in Passes, Authorize(p)
  PROVE  AttemptInv'
<1>1. ASSUME SchemeFails(p) PROVE AttemptInv'
  <2>1. /\ place[p] = "signing" /\ UNCHANGED <<asks, atSigner, signCount, signed>>
        /\ Releases(p, "signer") \/ Releases(p, "transport")
    BY <1>1 DEF SchemeFails
  <2> QED BY <2>1, ReleasesPreserves
<1> QED BY <1>1, PlanReturnsPreserves, ReservesPreserves, SchemeAsksPreserves,
           SignerSignsPreserves, SchemeReturnsPreserves DEF Authorize

\* So does no step at all.
LEMMA StutterPreserves ==
  ASSUME AttemptInv, UNCHANGED vars
  PROVE  AttemptInv'
<1>1. /\ TypeInv /\ BooksInv
      /\ \A q \in Passes : RouteInv(q) /\ ReadInv(q) /\ BlameInv(q) /\ SignInv(q)
  BY DEF AttemptInv
<1>2. UNCHANGED <<client, challenge, place, kept, left, error, books, taken, pins, tofu, probe, reading,
                  reads, adapter, address, chosen, hold, asks, atSigner, signCount, signed>>
  BY DEF vars, pass, books, planner, signing
<1>3. TypeInv'
  BY <1>1, <1>2 DEF TypeInv
<1>4. BooksInv'
  BY <1>1, <1>2, BooksSame
<1>5. \A q \in Passes : RouteInv(q)' /\ ReadInv(q)' /\ BlameInv(q)' /\ SignInv(q)'
  BY <1>1, <1>2, RouteSame, ReadSame, BlameSame, SignSame
<1> QED BY <1>3, <1>4, <1>5 DEF AttemptInv

\* The invariant is inductive.
LEMMA NextPreserves ==
  ASSUME AttemptInv, [Next]_vars
  PROVE  AttemptInv'
<1>1. ASSUME NEW p \in Passes, Evaluate(p), UNCHANGED <<planner, signing>> PROVE AttemptInv'
  BY <1>1, EvaluatePreserves
<1>2. ASSUME NEW p \in Passes, Plan(p), UNCHANGED signing PROVE AttemptInv'
  BY <1>2, PlanPreserves
<1>3. ASSUME NEW p \in Passes, Authorize(p) PROVE AttemptInv'
  BY <1>3, AuthorizePreserves
<1>4. ASSUME SharedLookup, UNCHANGED signing PROVE AttemptInv'
  BY <1>4, LookupPreserves
<1>5. ASSUME OthersSpend PROVE AttemptInv'
  BY <1>5, OthersSpendPreserves
<1>6. ASSUME UNCHANGED vars PROVE AttemptInv'
  BY <1>6, StutterPreserves
<1> QED BY <1>1, <1>2, <1>3, <1>4, <1>5, <1>6 DEF Next, PassStep

\* The inductive invariant of planning, reserving and signing holds in every state.
THEOREM AttemptInvariant == Spec => []AttemptInv
<1>1. Init => AttemptInv
  BY InitAttempt
<1>2. AttemptInv /\ [Next]_vars => AttemptInv'
  BY NextPreserves
<1> QED BY <1>1, <1>2, PTL DEF Spec

\* The types of the invariant are those of the module.
LEMMA AttemptImpliesTypeOK == AttemptInv => TypeOK
<1> SUFFICES ASSUME AttemptInv PROVE TypeOK
  OBVIOUS
<1>1. TypeInv /\ \A p \in Passes : RouteInv(p)
  BY DEF AttemptInv
<1>2. \A p \in Passes : Supported(p) \subseteq Offers(p)
  BY DEF Supported, OnAllowedNetwork
<1>3. \A p \in Passes : kept[p] \subseteq Offers(p) /\ left[p] \subseteq Offers(p)
  BY <1>1, <1>2 DEF RouteInv
<1>4. \A p \in Passes : DOMAIN probe[p] \subseteq kept[p] /\ chosen[p] \in kept[p] \cup {0}
  BY <1>1 DEF RouteInv
<1>5. \A p \in Passes : asks[p] \in 0 .. MaxAsks[p] /\ signCount[p] \in Nat
  BY <1>1, AskAssumption DEF TypeInv
<1>6. place \in [Passes -> {"screen", "pins", "policy", "budget", "route", "probing",
                            "planned", "returned", "signing", "signed", "failed"}]
  BY <1>1 DEF TypeInv, Stages, Early, Decided
<1>7. reads \in [Passes -> [Accounts -> Nat]]
  <2>1. reads \in [Passes -> [Accounts -> {0, 1}]]
    BY <1>1 DEF TypeInv
  <2>2. \A p \in Passes : reads[p] \in [Accounts -> Nat]
    BY <2>1
  <2> QED BY <2>1, <2>2
<1> QED BY <1>1, <1>3, <1>4, <1>5, <1>6, <1>7 DEF TypeOK, TypeInv

\* Every variable keeps its type: offers kept and left are offers of the challenge,
\* and only kept offers are probed or chosen.
THEOREM PaymentAttemptTyped == Spec => []TypeOK
BY AttemptInvariant, AttemptImpliesTypeOK, PTL

\* The error of planSelectedRoute blames what was observed: funds only over a short
\* balance, configuration only if nothing was tried, the network only over an outage.
THEOREM BlameTrue == Spec => []BlameIsTrue
<1>1. AttemptInv => BlameIsTrue
  BY DEF AttemptInv, BlameInv, BlameIsTrue
<1> QED BY <1>1, AttemptInvariant, PTL

\* Concurrent probes of one account hand the pool one balance read.
THEOREM OneRead == Spec => []OneReadPerBalance
<1>1. AttemptInv => OneReadPerBalance
  <2> SUFFICES ASSUME AttemptInv, NEW p \in Passes, NEW a \in Accounts
               PROVE  reads[p][a] <= 1
    BY DEF OneReadPerBalance
  <2>1. reads[p][a] \in {0, 1}
    BY DEF AttemptInv, TypeInv
  <2> QED BY <2>1
<1> QED BY <1>1, AttemptInvariant, PTL

\* Under TOFU all passes that reserved on a network pay the payee the store pinned,
\* whatever each of them had read before.
THEOREM OnePayee == Spec => []OnePayeePerScope
<1>1. AttemptInv => OnePayeePerScope
  <2> SUFFICES ASSUME AttemptInv, NEW p \in Passes, NEW q \in Passes,
                      client.recipientMode = "tofu", Committed(p), Committed(q),
                      Chosen(p).network = Chosen(q).network
               PROVE  Chosen(p).payTo = Chosen(q).payTo
    BY DEF OnePayeePerScope
  <2>1. BooksInv /\ SignInv(p) /\ SignInv(q)
    BY DEF AttemptInv
  <2>2. p \in hold /\ q \in hold
    BY <2>1 DEF SignInv, Committed
  <2>3. place[p] \in Decided
    BY DEF Committed, Decided
  <2>4. Chosen(p).network \in Networks
    BY <2>3, ChosenFacts
  <2>5. Chosen(p).payTo \in pins[Chosen(p).network] /\ Chosen(q).payTo \in pins[Chosen(p).network]
    BY <2>1, <2>2 DEF BooksInv
  <2> QED BY <2>1, <2>4, <2>5 DEF BooksInv
<1> QED BY <1>1, AttemptInvariant, PTL

\* What leaves for the merchant is the only signature of its pass; everything the
\* signer signed has the terms the store admitted, reads the same to every reader of
\* the merchant's header, and is for an asset of the signed release.
THEOREM SignedOnce == Spec => []SignedOnceAsReserved
<1>1. AttemptInv => SignedOnceAsReserved
  <2> SUFFICES ASSUME AttemptInv, NEW p \in Passes
               PROVE  /\ place[p] = "signed" => Len(signed[p]) = 1 /\ p \in hold
                      /\ \A k \in DOMAIN signed[p] :
                            /\ SameTerms(Offer(p, signed[p][k]), Chosen(p))
                            /\ signed[p][k] \in Unambiguous[challenge[p].request]
                            /\ Account(Offer(p, signed[p][k])) \in Released[client.manifest]
    BY DEF SignedOnceAsReserved
  <2>1. TypeInv /\ RouteInv(p) /\ SignInv(p)
    BY DEF AttemptInv
  <2>2. place[p] = "signed" => Len(signed[p]) = 1 /\ p \in hold
    BY <2>1 DEF SignInv
  <2>3. ASSUME NEW k \in DOMAIN signed[p]
        PROVE  /\ SameTerms(Offer(p, signed[p][k]), Chosen(p))
               /\ signed[p][k] \in Unambiguous[challenge[p].request]
               /\ Account(Offer(p, signed[p][k])) \in Released[client.manifest]
    <3>1. signed[p][k] \in Offers(p) /\ SameTerms(Offer(p, signed[p][k]), Chosen(p))
      BY <2>1 DEF SignInv
    <3>2. signed[p][k] \in Unambiguous[challenge[p].request]
      BY <2>1, <3>1, OfferFacts
    <3>3. Account(Offer(p, signed[p][k])) = Account(Chosen(p))
      BY <3>1 DEF SameTerms
    <3>4. Account(Chosen(p)) \in Released[client.manifest]
      <4>1. signed[p] # <<>>
        OBVIOUS
      <4>2. chosen[p] \in Supported(p)
        BY <2>1, <4>1 DEF SignInv, RouteInv
      <4> QED BY <2>1, <4>2, SupportedFacts DEF Chosen
    <3> QED BY <3>1, <3>2, <3>3, <3>4
  <2> QED BY <2>2, <2>3
<1> QED BY <1>1, AttemptInvariant, PTL

\* The preference of a network is its first place in the caller's list, or past it.
LEMMA PreferenceIsNumber ==
  ASSUME AttemptInv, NEW n
  PROVE  Preference(n) \in Nat
<1> DEFINE list == client.preferNetworks
           found == { k \in DOMAIN list : list[k] = n }
<1>1. PICK c : Constructible(c) /\ client = Built(c)
  BY DEF AttemptInv, TypeInv, Clients
<1>2. DOMAIN list = 1 .. Len(PreferNetworks) /\ Len(PreferNetworks) \in Nat
  BY <1>1, PreferAssumption DEF Built
<1>3. Len(list) = Len(PreferNetworks)
  <2>1. list = [ k \in 1 .. Len(PreferNetworks) |-> ResolveNetwork(Manifests[c.manifest], PreferNetworks[k]) ]
    BY <1>1, PreferAssumption DEF Built
  <2> QED BY <1>2, <2>1
<1>4. found \cup {Len(list) + 1} \subseteq Nat /\ found \cup {Len(list) + 1} # {}
  BY <1>2, <1>3
<1>5. Min(found \cup {Len(list) + 1}) \in found \cup {Len(list) + 1}
  BY <1>4, MinIsLeast
<1> QED BY <1>4, <1>5 DEF Preference

\* A route is chosen in one place only.
LEMMA OnlySelectsChooses ==
  ASSUME [Next]_vars
  PROVE  UNCHANGED chosen \/ \E p \in Passes : Selects(p)
<1>1. ASSUME NEW p \in Passes, Plan(p)
      PROVE  UNCHANGED chosen \/ Selects(p)
  BY <1>1 DEF Plan, StartProbes, Despairs, ProbeStarts, ProbePrepares, ProbePlans, ProbeScores,
              BalanceArrives, planner
<1>2. ASSUME NEW p \in Passes, Authorize(p)
      PROVE  UNCHANGED chosen
  BY <1>2 DEF Authorize, PlanReturns, Reserves, SchemeAsks, SignerSigns, SchemeReturns, SchemeFails,
              Releases, planner
<1>3. ASSUME SharedLookup
      PROVE  UNCHANGED chosen
  BY <1>3 DEF SharedLookup, AdapterLoads, SignerAnswers
<1>4. UNCHANGED planner => UNCHANGED chosen
  BY DEF planner
<1>5. OthersSpend => UNCHANGED planner
  BY DEF OthersSpend
<1>6. UNCHANGED vars => UNCHANGED planner
  BY DEF vars
<1> QED BY <1>1, <1>2, <1>3, <1>4, <1>5, <1>6 DEF Next, PassStep

\* What the order of the sort keys says of two offers.
LEMMA PrecedesMeans ==
  ASSUME AttemptInv, NEW p \in Passes, NEW i \in DOMAIN probe[p], NEW j \in DOMAIN probe[p],
         health' \in [Networks -> [open : BOOLEAN, score : Scores]],
         Precedes(SortKey(p, i), SortKey(p, j))
  PROVE  LET w == Offer(p, i).network
             n == Offer(p, j).network
         IN  /\ health'[w].open => health'[n].open
             /\ Preference(n) < Preference(w) => health'[n].open /\ ~health'[w].open
             /\ n = w => i <= j
<1> DEFINE w == Offer(p, i).network
           n == Offer(p, j).network
           oi == IF health'[w].open THEN 1 ELSE 0
           oj == IF health'[n].open THEN 1 ELSE 0
           si == health'[w].score
           sj == health'[n].score
           pi == Preference(w)
           pj == Preference(n)
<1>1. w \in Networks /\ n \in Networks /\ i \in Nat /\ j \in Nat
  <2>1. i \in Supported(p) /\ j \in Supported(p) /\ i \in Nat /\ j \in Nat
    BY ProbedFacts
  <2> QED BY <2>1, SupportedFacts DEF AttemptInv
<1>2. si \in Nat /\ sj \in Nat /\ health'[w].open \in BOOLEAN /\ health'[n].open \in BOOLEAN
  BY <1>1, BalanceAssumption
<1>3. pi \in Nat /\ pj \in Nat
  BY PreferenceIsNumber
<1>4. SortKey(p, i) = <<oi, pi, -si, i>> /\ SortKey(p, j) = <<oj, pj, -sj, j>>
  BY DEF SortKey
<1>5. oi \in Int /\ oj \in Int
  OBVIOUS
<1>6. PICK m \in 1 .. 4 : /\ SortKey(p, i)[m] < SortKey(p, j)[m]
                          /\ \A l \in 1 .. m - 1 : SortKey(p, i)[l] = SortKey(p, j)[l]
  BY <1>4 DEF Precedes
<1>7. \/ oi < oj
      \/ oi = oj /\ pi < pj
      \/ oi = oj /\ pi = pj /\ -si < -sj
      \/ oi = oj /\ pi = pj /\ si = sj /\ i < j
  <2>1. CASE m = 1
    BY <1>4, <1>6, <2>1
  <2>2. CASE m = 2
    BY <1>4, <1>6, <2>2
  <2>3. CASE m = 3
    BY <1>4, <1>6, <2>3
  <2>4. CASE m = 4
    BY <1>2, <1>4, <1>6, <2>4
  <2> QED BY <1>6, <2>1, <2>2, <2>3, <2>4
<1>8. n = w => oi = oj /\ pi = pj /\ si = sj
  OBVIOUS
<1>9. health'[w].open => health'[n].open
  BY <1>7
<1>10. pj < pi => health'[n].open /\ ~health'[w].open
  <2> SUFFICES ASSUME pj < pi PROVE health'[n].open /\ ~health'[w].open
    OBVIOUS
  <2>1. ~(pi < pj) /\ pi # pj
    <3> HIDE DEF pi, pj
    <3> QED BY <1>3
  <2> QED BY <1>7, <2>1
<1>11. n = w => i <= j
  BY <1>1, <1>2, <1>3, <1>7, <1>8
<1> QED BY <1>9, <1>10, <1>11

\* SPEC section 6.4: a route is chosen only when all probes have returned, and nothing
\* the caller prefers, could afford and could reach is passed over.
THEOREM BestRoute == Spec => BestRouteChosen
<1>1. ASSUME AttemptInv, [Next]_vars, NEW p \in Passes, chosen'[p] # chosen[p]
      PROVE  ChoosesBest(p)
  <2>1. PICK q \in Passes : Selects(q)
    BY <1>1, OnlySelectsChooses
  <2>2. PICK i \in Saying(q, {"viable"}) :
           /\ \A j \in Saying(q, {"viable"}) \ {i} : Precedes(SortKey(q, i), SortKey(q, j))
           /\ chosen' = [chosen EXCEPT ![q] = i]
    BY <2>1 DEF Selects
  <2>3. q = p /\ chosen'[p] = i
    BY <1>1, <2>2 DEF AttemptInv, TypeInv
  <2>4. /\ place[p] = "probing" /\ Returned(p)
        /\ health' \in [Networks -> [open : BOOLEAN, score : Scores]]
    BY <2>1, <2>3 DEF Selects, LooksAtHealth
  <2>5. DOMAIN probe[p] = kept[p]
    BY <1>1, <2>4 DEF AttemptInv, RouteInv
  <2>6. Affordable(p) = Saying(p, {"viable"})
    BY <2>5 DEF Affordable, Saying
  <2>7. i \in Affordable(p) /\ i \in DOMAIN probe[p]
    BY <2>2, <2>3, <2>6 DEF Saying
  <2>8. \A j \in kept[p] : probe[p][j] \notin Running
    BY <2>4, <2>5 DEF Returned, Saying
  <2>9. ASSUME NEW j \in Affordable(p)
        PROVE  LET w == Offer(p, i).network
                   n == Offer(p, j).network
               IN  /\ health'[w].open => health'[n].open
                   /\ Preference(n) < Preference(w) => health'[n].open /\ ~health'[w].open
                   /\ n = w => i <= j
    <3>1. j \in DOMAIN probe[p]
      BY <2>5 DEF Affordable
    <3>2. CASE j = i
      <4>1. Preference(Offer(p, i).network) \in Nat /\ i \in Nat
        BY <1>1, <2>7, PreferenceIsNumber, ProbedFacts
      <4>2. \A k \in Nat : ~(k < k) /\ k <= k
        OBVIOUS
      <4> QED BY <3>2, <4>1, <4>2
    <3>3. CASE j # i
      <4>1. Precedes(SortKey(p, i), SortKey(p, j))
        BY <2>2, <2>3, <2>6, <3>3
      <4> QED BY <1>1, <2>4, <2>7, <3>1, <4>1, PrecedesMeans
    <3> QED BY <3>2, <3>3
  <2> QED BY <2>3, <2>7, <2>8, <2>9 DEF ChoosesBest
<1>2. AttemptInv /\ [Next]_vars => [\A p \in Passes : chosen'[p] # chosen[p] => ChoosesBest(p)]_vars
  BY <1>1
<1> QED BY <1>2, AttemptInvariant, PTL DEF Spec, BestRouteChosen

===============================================================================
