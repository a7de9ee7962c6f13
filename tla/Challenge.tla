------------------------------- MODULE Challenge -------------------------------
(***************************************************************************)
(* The PAYMENT-REQUIRED header of a 402 (core/protocol.ts): its bounds,    *)
(* the structure of its JSON before JSON.parse, its schema, the origin it  *)
(* names, and the offers it is normalized to.  One bad offer refuses the   *)
(* whole challenge.                                                        *)
(*                                                                         *)
(* A header is NoHeader or [base64, bytes, utf8, document]; a URL is       *)
(* [scheme, host, port] with a host [labels, rootDot].  The `is' of a string *)
(* is what it spells: a URL, a number of atomic units, a moment.           *)
(***************************************************************************)
EXTENDS Manifest

CONSTANTS
    NoHeader,               \* no PAYMENT-REQUIRED at all
    Misshapen,              \* a string its field does not accept
    MaxBytes,               \* MAX_PAYMENT_REQUIRED_BYTES
    MaxDepth,               \* MAX_PAYMENT_REQUIRED_DEPTH
    MaxRequirements,        \* MAX_PAYMENT_REQUIREMENTS
    AllowInsecureLocalhost  \* the caller's allowInsecureLocalhost

ASSUME BoundAssumption == {MaxBytes, MaxDepth, MaxRequirements} \subseteq Nat

MaxTimeoutSeconds == 86400

Wrapping(header) ==
    Before(Check(header # NoHeader, "missing-header"),
           FirstProblem(<< Check(header.base64, "invalid-base64"),
                           Check(header.bytes <= MaxBytes, "header-too-large"),
                           Check(header.utf8, "invalid-base64") >>))

\* The order in which a text is read: what stands around before what stands inside.
ReadBefore(q, r) ==
    \/ Len(q) < Len(r) /\ q = SubSeq(r, 1, Len(q))
    \/ \E m \in DOMAIN q \cap DOMAIN r :
           q[m] < r[m] /\ SubSeq(q, 1, m - 1) = SubSeq(r, 1, m - 1)

\* A key that was there before.
Repeated(text, path) ==
    /\ path # <<>> /\ text[Front(path)].kind = "object"
    /\ \E r \in Members(text, Front(path), text[path].under) : Last(r) < Last(path)

TooDeep(text, path) == text[path].kind \in {"object", "array"} /\ Len(path) >= MaxDepth

\* The places among `places' at which reading stops.
Mistakes(text, places) ==
    { q \in places : Repeated(text, q) \/ TooDeep(text, q) \/ text[q].kind = "broken" }

Reason(text, q) == CASE Repeated(text, q)                      -> "duplicate-json-key"
                     [] ~Repeated(text, q) /\ TooDeep(text, q) -> "json-depth-exceeded"
                     [] OTHER                                  -> "invalid-json"

\* Reading stops at the first.
Preflight(text, mistakes) ==
    IF mistakes = {} THEN "fine"
    ELSE Reason(text, CHOOSE q \in mistakes : \A r \in mistakes \ {q} : ReadBefore(q, r))

\* Mutant of PreflightJson: only the outermost object is searched for repeated keys.
PreflightOutermost(text) == 
    Preflight(text, Mistakes(text, { q \in DOMAIN text : Len(q) = 1 }))

PreflightJson(text) == Preflight(text, Mistakes(text, DOMAIN text))

IsString(item)  == item.kind = "string"
Accepted(item)  == IsString(item) /\ item.is # Misshapen

Field(text, path, key) == At(text, Member(text, path, key))

ValidRequirement(text, path) ==
    /\ At(text, path).kind = "object"
    /\ \A key \in {"scheme", "network", "asset", "payTo"} : Accepted(Field(text, path, key))
    /\ Field(text, path, "maxTimeoutSeconds").kind = "number"
    /\ Field(text, path, "maxTimeoutSeconds").is \in 1 .. MaxTimeoutSeconds
    /\ Field(text, path, "extra").kind = "object"

\* A decimal number of atomic units, without sign, point or leading zero.
AtomicAmount(item) == Accepted(item) /\ item.is \in Nat \ {0}

ValidateRequirement(text, path) ==
    Before(Check(ValidRequirement(text, path), "upstream-schema-invalid"),
    Before(Check(AtomicAmount(Field(text, path, "amount")), "amount-not-atomic-integer"),
           Check(Canonical(text, Member(text, path, "extra")), "upstream-schema-invalid")))

NormalizeRequirement(text, path) ==
    [scheme  |-> Field(text, path, "scheme").is, network |-> Field(text, path, "network").is,
     asset   |-> Field(text, path, "asset").is,  amount  |-> Field(text, path, "amount").is,
     payTo   |-> Field(text, path, "payTo").is,
     extra   |-> Parsed(text, Member(text, path, "extra"))]

ResourceUrl(text) == Field(text, Member(text, <<>>, "resource"), "url")
Accepts(text)     == Member(text, <<>>, "accepts")

\* The offers by their index, and where the one at an index stands.
Listed(text)      == { Last(r) : r \in Inside(text, Accepts(text)) }
OfferAt(text, i) == Append(Accepts(text), i)

Schema(text) ==
    Before(Check(At(text, <<>>).kind = "object", "upstream-schema-invalid"),
    Before(LET version == Field(text, <<>>, "x402Version")
           IN  Check(version.kind = "number" /\ version.is = 2, "unsupported-protocol-version"),
    Before(Check(/\ Field(text, <<>>, "resource").kind = "object"
                 /\ IsString(ResourceUrl(text)), "upstream-schema-invalid"),
           Check(/\ Field(text, <<>>, "accepts").kind = "array"
                 /\ Cardinality(Listed(text)) \in 1 .. MaxRequirements,
                 "requirements-count-out-of-range"))))

IsLocalhost(url) ==
    /\ url.host.labels \in {<<"localhost">>, <<"127", "0", "0", "1">>, <<"::1">>}
    /\ ~url.host.rootDot

SafeUrl(url) == \/ url.scheme = "https"
                \/ AllowInsecureLocalhost /\ url.scheme = "http" /\ IsLocalhost(url)

\* The challenge may only speak for the origin that was asked.
Origin(declared, requestUrl) ==
    Before(Check(declared # Misshapen, "resource-url-invalid"),
           Check(SafeUrl(declared) /\ declared = requestUrl, "resource-origin-mismatch"))

\* The first problem of a header, "fine" when there is none.
Flaw(header, requestUrl) ==
    Before(Wrapping(header),
    Before(PreflightJson(header.document),
    Before(Schema(header.document),
    Before(Origin(ResourceUrl(header.document).is, requestUrl),
           FirstProblem([ i \in Listed(header.document) |->
               ValidateRequirement(header.document, OfferAt(header.document, i)) ])))))

DecodePaymentRequired(header, requestUrl) ==
    LET flaw == Flaw(header, requestUrl)
    IN  [flaw         |-> flaw,
         requirements |-> IF flaw # "fine" THEN <<>>
                          ELSE [ i \in Listed(header.document) |->
                                     NormalizeRequirement(header.document,
                                                          OfferAt(header.document, i)) ]]
===============================================================================
