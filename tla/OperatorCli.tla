------------------------------ MODULE OperatorCli ------------------------------
(***************************************************************************)
(* The operator verbs of the command line (cli/verbs.ts, store-config.ts,  *)
(* exit-codes.ts) on a store behind a gateway, beside the agents that      *)
(* spend through the same gateway.  A verb is a sequence of requests; it   *)
(* ends with an exit code, which is all the operator's script sees.        *)
(***************************************************************************)
EXTENDS Gateway, Sequences

CONSTANTS
    Operator,       \* the process that runs the verbs, one of Clients
    AdminVariables, \* values TX402_SPEND_STORE_ADMIN is found with; "" when unset
    CommandLines,   \* what is typed: [verb, targets, flags, network, asset,
                    \* capsAtomic, to]; a
                    \* target is a host or a URL of it, [host, url]
    DefaultAsset,   \* the first asset of each network in the bundled manifest
    NoVerb

ASSUME OperatorAssumption == Operator \in Clients

\* Agents and third parties do not hold the admin token: it is the operator's.
ASSUME AdminAssumption == /\ \A c \in Clients \ {Operator} : ClientTokens[c] # AdminToken
                          /\ \A r \in RawRequests : r.token # AdminToken

\* The verbs of the command that talk to a spend store.
ASSUME VerbAssumption ==
    \A line \in CommandLines :
        line.verb \in {"freeze", "unfreeze", "budget", "pins", "rotate-recipient"}

VARIABLES
    verb,     \* the verb under way: what it is, its step and its credential
    exit,     \* how the last verb ended
    halted    \* scopes the operator was told are frozen, and has not thawed

cliVars == <<verb, exit, halted>>
vars    == <<storeVars, wireVars, cliVars>>

CliInit == Init /\ verb = NoVerb /\ exit = -1 /\ halted = {}

\* Mutant of ExitCodeFor: an outage exits like a wrong command line.
ExitOutageAsUsage(answer) ==
    CASE answer.kind = "ok"                        -> 0
      [] answer.kind \in {"config", "transport"}   -> 2
      [] answer.kind \in {"frozen", "recipient", "budget"} -> 3

ExitCodeFor(answer) ==
    CASE answer.kind = "ok"                        -> 0
      [] answer.kind = "config"                    -> 2
      [] answer.kind \in {"frozen", "recipient", "budget"} -> 3
      [] answer.kind = "transport"                 -> 7

\* The flags a verb takes; one that takes --network needs it.
Takes(v) == CASE v \in {"freeze", "unfreeze"} -> {}
              [] v = "budget" -> {"network", "asset", "max-per-hour", "max-total"}
              [] OTHER        -> {"network"}

\* parseVerb: one target, no flag the verb does not take, and new recipients for
\* rotate-recipient alone.
ParseVerb(line) ==
    /\ Len(line.targets) = 1
    /\ line.flags \subseteq Takes(line.verb)
    /\ Takes(line.verb) # {} => "network" \in line.flags
    /\ line.verb = "rotate-recipient" <=> line.to # {}

\* The scheme, path and case of a target are dropped; "*" stands for itself.
NormalizeScope(line) == line.targets[1].host

\* An asset that is not named is the network's first.
AssetKnown(line)     == "asset" \in line.flags \/ line.network \in DOMAIN DefaultAsset
ResolveAssetId(line) == IF "asset" \in line.flags THEN line.asset ELSE DefaultAsset[line.network]

\* Reads whether the scope is frozen, to warn, and then replaces the allow-list.
RotateSteps(line) ==
    << [method |-> "isFrozen", arg |-> [scope |-> NormalizeScope(line)]],
       [method |-> "setRecipientPins",
        arg    |-> [scope      |-> NormalizeScope(line), network |-> line.network,
                    recipients |-> { CanonicalizeRecipient(line.network, r) : r \in line.to }]] >>

\* The requests of a verb, in order; the first fetches the capabilities.
Steps(line) ==
    LET scope == [scope |-> NormalizeScope(line)]
    IN
    <<[method |-> "capabilities", arg |-> <<>>]>> \o
    CASE line.verb \in {"freeze", "unfreeze"} -> <<[method |-> line.verb, arg |-> scope]>>
      [] line.verb = "budget" ->
             <<[method |-> "getBudgetState",
                arg    |-> [policyScope |-> scope.scope, assetId |-> ResolveAssetId(line)]]>>
      [] line.verb = "pins" ->
             <<[method |-> "getRecipientPins", arg |-> scope],
               [method |-> "getRecipientPolicy", arg |-> scope]>>
      [] line.verb = "rotate-recipient" -> RotateSteps(line)

Plane(line) == IF line.verb \in {"budget", "pins"} THEN "data" ELSE "admin"

\* --max-per-hour and --max-total take atomic units.
ParseAtomicFlag(line) == line.capsAtomic

\* A command line that does not parse, or whose asset or caps the verb cannot read.
UsageError(line) == \/ ~ParseVerb(line)
                    \/ line.verb = "budget" /\ ~(AssetKnown(line) /\ ParseAtomicFlag(line))

\* A thaw the operator gave up on may still be under way.
ThawPending(scope) == \E s \in stray : s.call.method = "unfreeze" /\ s.call.arg.scope = scope

\* resolveSpendStore: an admin verb without an admin credential ends here.
RefuseVerb(line, adminVariable) ==
    /\ verb = NoVerb
    /\ UsageError(line) \/ (Plane(line) = "admin" /\ adminVariable = "")
    /\ exit' = 2
    /\ UNCHANGED <<storeVars, wireVars, verb, halted>>

StartVerb(line, adminVariable) ==
    /\ verb = NoVerb /\ link[Operator] = Idle
    /\ ~UsageError(line)
    /\ Plane(line) = "data" \/ adminVariable # ""
    /\ verb' = [line |-> line, step |-> 1, clear |-> ~ThawPending(NormalizeScope(line)),
                token |-> IF Plane(line) = "admin" THEN adminVariable ELSE DataToken]
    /\ exit' = -1
    /\ halted' = IF line.verb = "unfreeze" THEN halted \ {NormalizeScope(line)} ELSE halted
    /\ UNCHANGED <<storeVars, wireVars>>

AskStep ==
    /\ verb # NoVerb /\ link[Operator] = Idle
    /\ Request(Operator, Steps(verb.line)[verb.step], verb.token)
    /\ UNCHANGED cliVars

LastStep == verb.step = Len(Steps(verb.line))
Heard    == link[Operator].answer

\* The answer of a step: the next step, or the end of the verb.
NextStep ==
    /\ verb # NoVerb /\ link[Operator].step = "settled"
    /\ Heard = Ok /\ ~LastStep
    /\ verb' = [verb EXCEPT !.step = @ + 1]
    /\ link' = [link EXCEPT ![Operator] = Idle]
    /\ UNCHANGED <<storeVars, stray, faults, exit, halted>>

EndVerb ==
    /\ verb # NoVerb /\ link[Operator].step = "settled"
    /\ Heard # Ok \/ LastStep
    /\ verb' = NoVerb
    /\ exit' = ExitCodeFor(Heard)
    /\ halted' = IF verb.line.verb = "freeze" /\ verb.clear /\ ExitCodeFor(Heard) = 0
                 THEN halted \cup {NormalizeScope(verb.line)} ELSE halted
    /\ link' = [link EXCEPT ![Operator] = Idle]
    /\ UNCHANGED <<storeVars, stray, faults>>

Next ==
    \/ \E line \in CommandLines, a \in AdminVariables :
           RefuseVerb(line, a) \/ StartVerb(line, a)
    \/ AskStep \/ NextStep \/ EndVerb
    \/ \E c \in Clients \ {Operator} : LibraryCall(c) /\ UNCHANGED cliVars
    \/ \E c \in Clients : Transport(c) /\ UNCHANGED cliVars
    \/ ArriveLate /\ UNCHANGED cliVars
    \/ PostRaw /\ UNCHANGED cliVars

Spec == CliInit /\ [][Next]_vars

-------------------------------------------------------------------------------
(* Properties.                                                             *)

\* The exit code can be trusted by a script: when a verb ends with 0, its last
\* request was done, and when it ends with 2 or 3 nothing was changed, unless
\* it was the answer that could not be read.
ExitTellsTruth ==
    [][EndVerb => /\ exit' = 0 => LastStep /\ link[Operator].done = "yes"
                  /\ exit' \in {2, 3} /\ Heard # InvalidResponse =>
                         link[Operator].done = "no"]_vars

\* Once freeze has exited with 0, the scope stays frozen until the operator runs
\* unfreeze: no answer, late request or other client thaws it, "*" included.
HaltHolds == \A scope \in halted : \A s \in Scopes :
                 scope \in {s, AllScopes} => D!IsFrozen(s)
===============================================================================
