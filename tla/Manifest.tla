------------------------------- MODULE Manifest -------------------------------
(***************************************************************************)
(* The release manifest (core/manifest.ts): the signed document every      *)
(* network, asset and alias comes from.  It is verified once, when a       *)
(* client is built; its first problem refuses the client.                  *)
(*                                                                         *)
(* A document is [manifestVersion, misshapen, serializable, issuedAt,      *)
(* expiresAt, networks, networkAliases, signature]: `misshapen' names the  *)
(* members of a wrong type, `networks' maps an id to its assets, and       *)
(* `networkAliases' lists <<alias, id>>.  A signature is [algorithm,       *)
(* keyId, wellFormed, by, over]: `over' is the content the key `by' was    *)
(* applied to.                                                             *)
(***************************************************************************)
EXTENDS CanonicalJson

CONSTANTS
    TrustedKeys,   \* TRUSTED_MANIFEST_KEYS: key id -> key
    Caip2,         \* ids that read as CAIP-2
    NotAnObject,   \* in place of a network that is no object
    BadStamp       \* a timestamp that is not RFC 3339 in UTC

\* What is signed: the document without its signature.
Content(m) ==
    [manifestVersion |-> m.manifestVersion, issuedAt |-> m.issuedAt,
     expiresAt |-> m.expiresAt, networks |-> m.networks, networkAliases |-> m.networkAliases]

Structure(m) == Before(Check(m.manifestVersion = 1, "unsupported-manifest-version"),
                       Check(m.misshapen = {}, "malformed"))

Envelope(m) ==
    FirstProblem(<< Check(m.signature.algorithm = "ed25519", "unsupported-algorithm"),
                    Check(m.signature.keyId \in DOMAIN TrustedKeys, "unknown-key-id"),
                    Check(m.signature.wellFormed, "malformed-signature") >>)

\* Mutant of Signed: any signature of a trusted key will do.
SignedSomething(m) ==
    Check(m.signature.by = TrustedKeys[m.signature.keyId], "signature-mismatch")

Signed(m) == Check(/\ m.signature.by = TrustedKeys[m.signature.keyId]
                   /\ m.signature.over = Content(m), "signature-mismatch")

Window(m, now) ==
    Before(Check(BadStamp \notin {m.issuedAt, m.expiresAt}, "malformed"),
           FirstProblem(<< Check(m.issuedAt < m.expiresAt, "invalid-validity-window"),
                           Check(m.issuedAt <= now, "not-yet-issued"),
                           Check(now < m.expiresAt, "expired") >>))

Declares(m, id) == id \in DOMAIN m.networks

\* (requiredNetworks, which the client never passes, is left out.)
Semantics(m) ==
    FirstProblem(<<
        Check(/\ DOMAIN m.networks \subseteq Caip2 /\ DOMAIN m.networks # {}
              /\ \A id \in DOMAIN m.networks : m.networks[id] # NotAnObject, "malformed"),
        FirstProblem([ i \in DOMAIN m.networkAliases |->
            Before(Check(~Declares(m, m.networkAliases[i][1]), "alias-collides-with-network"),
                   Check(Declares(m, m.networkAliases[i][2]), "alias-target-unknown")) ]) >>)

VerifyReleaseManifest(m, now) ==
    Before(Structure(m), Before(Envelope(m),
        Before(Check(m.serializable, "non-canonical-document"),
            Before(Signed(m), Before(Window(m, now), Semantics(m))))))

-------------------------------------------------------------------------------
(* Names a caller may give a network.                                      *)

Targets(m, query) ==
    { m.networkAliases[i][2] : i \in { j \in DOMAIN m.networkAliases :
                                            m.networkAliases[j][1] = query } }

\* A canonical id is never mapped, whatever the aliases say.
ResolveNetwork(m, query) ==
    CASE Declares(m, query) -> query
      [] ~Declares(m, query) /\ Targets(m, query) # {} -> CHOOSE id \in Targets(m, query) : TRUE
      [] OTHER -> "unknown-network"

Resolves(m, query) == Declares(m, ResolveNetwork(m, query))
===============================================================================
