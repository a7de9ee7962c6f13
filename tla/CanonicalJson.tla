----------------------------- MODULE CanonicalJson -----------------------------
(***************************************************************************)
(* JSON texts as they are written, and which of them have a canonical form *)
(* (core/canonical-json.ts), the form that is hashed and signed.           *)
(*                                                                         *)
(* A text is a tree: a function from places to what stands there.  A path *)
(* is the sequence of positions that leads to it, <<>> the whole.  What    *)
(* stands at a path is [kind, under, is]: `under' is the key it stands    *)
(* under in the object around it, and strings and numbers have an `is'.    *)
(* One key may stand in an object twice; JSON.parse keeps the last.        *)
(***************************************************************************)
EXTENDS Integers, SequencesExt

CONSTANTS
    MaxSafe,  \* Number.MAX_SAFE_INTEGER
    OddKeys   \* keys that are not printable ASCII

ASSUME SafeAssumption == MaxSafe \in Nat

Absent  == [kind |-> "absent"]
Nowhere == <<0>>  \* positions count from 1

IsTree(text) == /\ <<>> \in DOMAIN text /\ DOMAIN text \subseteq Seq(Nat \ {0})
                /\ \A path \in DOMAIN text : \A r \in {<<>>, Front(path)} : r \in DOMAIN text

Inside(text, path) == { r \in DOMAIN text : r # <<>> /\ Front(r) = path }

Members(text, path, key) == { r \in Inside(text, path) : text[r].under = key }

\* What JSON.parse makes of a member: the last of its name.
Member(text, path, key) ==
    IF Members(text, path, key) = {} THEN Nowhere
    ELSE CHOOSE r \in Members(text, path, key) :
             \A s \in Members(text, path, key) : Last(s) <= Last(r)

At(text, path) == IF path \in DOMAIN text THEN text[path] ELSE Absent

\* The members of an object that was read.
Parsed(text, path) ==
    [ key \in { text[r].under : r \in Inside(text, path) } |-> text[Member(text, path, key)] ]

Property(object, key) == IF key \in DOMAIN object THEN object[key] ELSE Absent

\* Whole numbers that another language reads the same, and plain keys.
Plain(item) == /\ item.kind # "fraction" /\ item.under \notin OddKeys
               /\ item.kind = "number" => item.is \in -MaxSafe .. MaxSafe

Canonical(text, path) == \A r \in DOMAIN text : IsPrefix(path, r) => Plain(text[r])

-------------------------------------------------------------------------------
(* Validation stops at the first problem.                                  *)

Check(holds, reason)  == IF holds THEN "fine" ELSE reason
Before(first, second) == IF first = "fine" THEN second ELSE first

FirstProblem(problems) ==
    LET bad == { i \in DOMAIN problems : problems[i] # "fine" }
    IN  IF bad = {} THEN "fine" ELSE problems[Min(bad)]
===============================================================================
