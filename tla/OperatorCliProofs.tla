-------------------------- MODULE OperatorCliProofs --------------------------
(***************************************************************************)
(* What the gateway's clients and the operator's scripts can rely on, for  *)
(* any clients, calls, command lines, forged requests and number of faults.*)
(*                                                                         *)
(* The properties rest on one idea each.  An answer is made where the      *)
(* store's verdict is known and loses only precision on its way back.  A   *)
(* freeze the operator heard of is a row of the table, and only a request  *)
(* with the admin token that names its scope can take the row away: the    *)
(* operator is the one who sends those, sends none while it believes the   *)
(* scope frozen, and has none left behind.                                 *)
(***************************************************************************)
EXTENDS OperatorCli, TLAPS

\* The kinds of the answers that cross the wire, and those of the store.
WireKinds  == {"ok", "config", "transport", "frozen", "recipient", "budget"}
StoreKinds == {"ok", "idreuse", "config", "frozen", "recipient", "budget"}

\* An answer is as good as the verdict it stands for.
Honest(answer, done) ==
    /\ answer.kind \in WireKinds
    /\ answer.kind = "ok" => answer = Ok
    /\ answer = Ok => done = "yes"
    /\ answer \notin {Ok, Unavailable, InvalidResponse} => done = "no"

TruthInv ==
    /\ DOMAIN link = Clients
    /\ \A c \in Clients : link[c].step \in {"answered", "settled"} =>
           Honest(link[c].answer, link[c].done)

\* The scope is frozen for good: the row is where every object looks for it.
Frozen(scope) == D!FrozenRow(scope) \in frozenRows /\ (scope = AllScopes => atomicGlobalFreeze)

\* A request that takes the row of a scope away, wherever it comes from.
Thaws(call, token, scope) ==
    call.method = "unfreeze" /\ call.arg.scope = scope /\ token = AdminToken

VerbRecords == [line : CommandLines, step : Nat, clear : BOOLEAN,
                token : AdminVariables \cup {DataToken}]

\* The operator is freezing a scope, and nothing that thaws it was left behind.
FreezingVerb == verb # NoVerb /\ verb.line.verb = "freeze" /\ verb.clear

\* The scopes that no request under way may thaw.
Kept(scope) == scope \in halted \/ (FreezingVerb /\ scope = NormalizeScope(verb.line))

\* The request of the operator is the verb's, and a freeze it heard of was done.
VerbInv ==
    /\ verb = NoVerb => link[Operator] = Idle
    /\ verb # NoVerb => verb \in VerbRecords /\ verb.step \in 1 .. Len(Steps(verb.line))
    /\ verb # NoVerb /\ verb.line.verb = "unfreeze" => NormalizeScope(verb.line) \notin halted
    /\ link[Operator].step = "sent" =>
           link[Operator].call = Steps(verb.line)[verb.step]
    /\ FreezingVerb /\ LastStep /\ link[Operator].step \in {"answered", "settled"}
           /\ link[Operator].answer = Ok => Frozen(NormalizeScope(verb.line))

\* The other clients present their own token; nothing left behind thaws.
TokenInv ==
    /\ \A c \in Clients \ {Operator} : link[c].step = "sent" => link[c].token = ClientTokens[c]
    /\ \A scope : Kept(scope) => \A s \in stray : ~Thaws(s.call, s.token, scope)

HaltInv ==
    /\ DOMAIN link = Clients
    /\ VerbInv /\ TokenInv
    /\ \A scope \in halted : Frozen(scope)

-------------------------------------------------------------------------------
(* Operators.                                                              *)

\* What an answer may be: a success, or a refusal with one of the store's kinds.
StoreAnswer(a) == a.kind \in StoreKinds /\ (a.kind = "ok" => a = Ok)

LEMMA Refusals ==
    /\ StoreAnswer(D!Ok) /\ D!Ok = Ok
    /\ \A kind \in StoreKinds \ {"ok"} : \A reason : StoreAnswer(D!Refusal(kind, reason))
  BY DEF StoreAnswer, StoreKinds, D!Ok, Ok, D!Refusal

\* An answer of the store is a success or one of its refusals.
LEMMA StoreAnswers == \A call : StoreAnswer(DirectAnswer(call))
<1> SUFFICES ASSUME NEW call
             PROVE  StoreAnswer(DirectAnswer(call))
  OBVIOUS
<1> USE Refusals
<1>1. StoreAnswer(D!NotFound) /\ \A r : StoreAnswer(D!Lifecycle(r))
  BY DEF D!NotFound, D!Lifecycle, StoreKinds
<1>2. \A in : StoreAnswer(D!ReserveAnswer(in))
  <2> TAKE in
  <2>1. StoreAnswer(D!ReplayAnswer(in))
    BY DEF D!ReplayAnswer, StoreKinds
  <2>2. StoreAnswer(D!RecipientAnswer(in))
    BY DEF D!RecipientAnswer, StoreKinds
  <2>3. StoreAnswer(D!BudgetAnswer(in))
    BY DEF D!BudgetAnswer, StoreKinds
  <2>4. StoreAnswer(D!Refusal("frozen", in.policyScope))
        /\ StoreAnswer(D!Refusal("frozen", D!AllScopes))
    BY DEF StoreKinds
  <2> QED
    BY <2>1, <2>2, <2>3, <2>4 DEF D!ReserveAnswer
<1>3. \A ref : /\ StoreAnswer(D!CommitAnswer(ref)) /\ StoreAnswer(D!ReleaseAnswer(ref))
               /\ StoreAnswer(D!ExposeAnswer(ref))
  BY <1>1 DEF D!CommitAnswer, D!ReleaseAnswer, D!ExposeAnswer
<1>4. StoreAnswer(D!AdminDenied)
  BY DEF D!AdminDenied, StoreKinds
<1>5. \A scope : StoreAnswer(D!FreezeAnswer(scope, "admin"))
  BY DEF D!FreezeAnswer, D!VerifyAdmin, StoreKinds
<1>6. \A ref : StoreAnswer(D!ResolveAnswer(ref, "admin"))
  BY <1>1 DEF D!ResolveAnswer, D!VerifyAdmin
<1> QED
  BY <1>2, <1>3, <1>5, <1>6 DEF DirectAnswer

\* What the worker puts on the wire is honest about what the store did.
LEMMA EnvelopeIsHonest == \A call : Honest(Envelope(DirectAnswer(call)), Done(call))
<1> SUFFICES ASSUME NEW call
             PROVE  Honest(Envelope(DirectAnswer(call)), Done(call))
  OBVIOUS
<1>1. StoreAnswer(DirectAnswer(call))
  BY StoreAnswers
<1>2. Unavailable.kind = "transport" /\ Ok.kind = "ok"
  BY DEF Unavailable, Ok, Refusal
<1> QED
  BY <1>1, <1>2 DEF Honest, Envelope, Done, StoreAnswer, StoreKinds, WireKinds

\* An outage and an answer that cannot be read say nothing of the store; a
\* status that is not 200 says that it was not asked.
LEMMA ConditionsAreHonest ==
    /\ \A done : Honest(Unavailable, done) /\ Honest(InvalidResponse, done)
    /\ \A status : Honest(GatewayConditionError(status), "no")
<1>1. \A done : Honest(Unavailable, done) /\ Honest(InvalidResponse, done)
  BY DEF Honest, Unavailable, InvalidResponse, Ok, Refusal, WireKinds
<1>2. \A reason : Honest(Refusal("config", reason), "no")
  BY DEF Honest, Ok, Refusal, WireKinds
<1> QED
  BY <1>1, <1>2 DEF GatewayConditionError

-------------------------------------------------------------------------------
(* Answers are honest all the way back.                                    *)

LEMMA LinkCases ==
    ASSUME DOMAIN link = Clients, NEW c \in Clients, NEW l, link' = [link EXCEPT ![c] = l]
    PROVE  /\ DOMAIN link' = Clients /\ link'[c] = l
           /\ \A d \in Clients \ {c} : link'[d] = link[d]
  OBVIOUS

LEMMA TransportIsHonest ==
    ASSUME TruthInv, NEW c \in Clients, Transport(c)
    PROVE  TruthInv'
<1>1. ASSUME NEW a, NEW done, Honest(a, done), Reply(c, a, done) \/ Settle(c, a, done)
      PROVE  TruthInv'
  BY <1>1, LinkCases DEF Reply, Settle, Settled, TruthInv
<1>2. CASE Refuse(c)
  BY <1>1, <1>2, ConditionsAreHonest DEF Refuse
<1>3. CASE Serve(c)
  BY <1>1, <1>3, EnvelopeIsHonest DEF Serve
<1>4. CASE Outage(c)
  BY <1>1, <1>4, ConditionsAreHonest DEF Outage
<1>5. CASE Return(c)
  BY <1>1, <1>5 DEF Return, TruthInv
<1>6. CASE Mangled(c)
  BY <1>1, <1>6, ConditionsAreHonest DEF Mangled
<1>7. CASE Disconnect(c)
  BY <1>1, <1>7, ConditionsAreHonest DEF Disconnect
<1> QED
  BY <1>2, <1>3, <1>4, <1>5, <1>6, <1>7 DEF Transport

LEMMA TruthIsInvariant == Spec => []TruthInv
<1>1. CliInit => TruthInv
  BY DEF CliInit, Init, Idle, TruthInv
<1>2. TruthInv /\ [Next]_vars => TruthInv'
  <2> SUFFICES ASSUME TruthInv, [Next]_vars
               PROVE  TruthInv'
    OBVIOUS
  <2>1. CASE UNCHANGED link
    BY <2>1 DEF TruthInv
  <2>2. ASSUME NEW c \in Clients, NEW call, NEW token, Request(c, call, token)
        PROVE  TruthInv'
    BY <2>2, LinkCases DEF Request, TruthInv
  <2>3. ASSUME link' = [link EXCEPT ![Operator] = Idle]
        PROVE  TruthInv'
    BY <2>3, LinkCases, OperatorAssumption DEF Idle, TruthInv
  <2>4. CASE AskStep
    BY <2>4, <2>2, OperatorAssumption DEF AskStep
  <2>5. CASE NextStep \/ EndVerb
    BY <2>5, <2>3 DEF NextStep, EndVerb
  <2>6. ASSUME NEW c \in Clients \ {Operator}, LibraryCall(c)
        PROVE  TruthInv'
    BY <2>6, <2>2 DEF LibraryCall
  <2>7. ASSUME NEW c \in Clients, Transport(c)
        PROVE  TruthInv'
    BY <2>7, TransportIsHonest
  <2>8. CASE ArriveLate \/ PostRaw
    BY <2>8, <2>1 DEF ArriveLate, PostRaw, wireVars
  <2>9. ASSUME NEW line \in CommandLines, NEW a \in AdminVariables,
               RefuseVerb(line, a) \/ StartVerb(line, a)
        PROVE  TruthInv'
    BY <2>9, <2>1 DEF RefuseVerb, StartVerb, wireVars
  <2>10. CASE UNCHANGED vars
    BY <2>10, <2>1 DEF vars, wireVars
  <2> QED
    BY <2>4, <2>5, <2>6, <2>7, <2>8, <2>9, <2>10 DEF Next
<1> QED
  BY <1>1, <1>2, PTL DEF Spec

\* Whatever is lost, delayed or mangled on the way, a client is never told of a
\* success the store did not give, nor of a refusal when it did what was asked.
THEOREM AnswersAlwaysTellTruth == Spec => []AnswersTellTruth
<1>1. TruthInv => AnswersTellTruth
  BY DEF TruthInv, AnswersTellTruth, Honest
<1> QED
  BY <1>1, TruthIsInvariant, PTL

\* A script may trust the exit code: 0 means that the last request was done, 2
\* and 3 that it changed nothing, unless its answer could not be read.
THEOREM ExitAlwaysTellsTruth == Spec => ExitTellsTruth
<1>1. ASSUME TruthInv, EndVerb
      PROVE  /\ exit' = 0 => LastStep /\ link[Operator].done = "yes"
             /\ exit' \in {2, 3} /\ Heard # InvalidResponse => link[Operator].done = "no"
  <2>1. Honest(Heard, link[Operator].done)
    BY <1>1, OperatorAssumption DEF EndVerb, TruthInv, Heard
  <2>2. exit' = ExitCodeFor(Heard) /\ (Heard # Ok \/ LastStep)
    BY <1>1 DEF EndVerb
  <2>3. Unavailable.kind = "transport" /\ Ok.kind = "ok"
    BY DEF Unavailable, Ok, Refusal
  <2>4. exit' = 0 => Heard = Ok
    BY <2>1, <2>2 DEF Honest, WireKinds, ExitCodeFor
  <2>5. exit' \in {2, 3} => Heard # Ok /\ Heard # Unavailable
    BY <2>1, <2>2, <2>3 DEF Honest, WireKinds, ExitCodeFor
  <2> QED
    BY <2>1, <2>2, <2>4, <2>5 DEF Honest
<1> QED
  BY <1>1, TruthIsInvariant, PTL DEF ExitTellsTruth, Spec

-------------------------------------------------------------------------------
(* What is frozen stays frozen.                                            *)

\* Only the two admin methods write the table of frozen scopes, and nothing
\* changes the topology.
LEMMA DispatchFrozen ==
    ASSUME NEW call, Dispatch(call)
    PROVE  /\ atomicGlobalFreeze' = atomicGlobalFreeze
           /\ call.method \notin {"freeze", "unfreeze"} => frozenRows' = frozenRows
           /\ call.method = "freeze" => D!Freeze(call.arg.scope, "admin")
           /\ call.method = "unfreeze" => D!Unfreeze(call.arg.scope, "admin")
<1> DEFINE Still == atomicGlobalFreeze' = atomicGlobalFreeze /\ frozenRows' = frozenRows
<1>1. \A r, s : (D!SettleRow(r, s) => Still) /\ (D!SweepRow(r) => Still)
  BY DEF D!SettleRow, D!SweepRow, D!env, D!policy
<1>2. \A ref : /\ D!Commit(ref) => Still
               /\ D!Release(ref) => Still
               /\ D!Expose(ref) => Still
               /\ \A o : D!ResolveExposed(ref, o, "admin") => Still
  BY <1>1 DEF D!Commit, D!Release, D!Expose, D!ResolveExposed, D!vars, D!env, D!policy
<1>3. \A in : D!Reserve(in) => Still
  BY DEF D!Reserve, D!vars, D!env, D!policy
<1>4. \A sa : D!GetBudgetState(sa) => Still
  BY DEF D!GetBudgetState, D!env, D!policy
<1>5. \A x, y, z : /\ D!SetRecipientPins(x, y, z, "admin") => Still
                   /\ D!SetBudgetLimits(x, y, z, "admin") => Still
                   /\ D!SetRecipientAssertionRequired(x, y, "admin") => Still
                   /\ D!SetTofuEnabled(x, y, "admin") => Still
                   /\ D!ResetCumulative(x, y, "admin") => Still
  BY DEF D!SetRecipientPins, D!SetBudgetLimits, D!SetRecipientAssertionRequired,
         D!SetTofuEnabled, D!SetFlags, D!ResetCumulative, D!env, D!policy
<1>6. \A x : /\ D!Freeze(x, "admin") => atomicGlobalFreeze' = atomicGlobalFreeze
             /\ D!Unfreeze(x, "admin") => atomicGlobalFreeze' = atomicGlobalFreeze
  BY DEF D!Freeze, D!Unfreeze, D!env
<1>7. CASE call.method \in {"freeze", "unfreeze"}
  BY <1>6, <1>7 DEF Dispatch
<1>8. CASE call.method \notin {"freeze", "unfreeze"}
  BY <1>2, <1>3, <1>4, <1>5, <1>8 DEF Dispatch, storeVars
<1> QED
  BY <1>7, <1>8

\* A request reaches the admin plane with the admin token alone.
LEMMA AdminNeedsToken ==
    /\ \A r : FrontStatus(r) = 200 /\ r.token # AdminToken =>
           r.call.method \notin GatewayAdminMethods
    /\ {"freeze", "unfreeze"} \subseteq GatewayAdminMethods
<1>1. \A token : token # AdminToken => BearerTokenScope(token) # "admin"
  BY DEF BearerTokenScope
<1>2. \A r : FrontStatus(r) = 200 => HandleGatewayRequest(r) = 200
  <2>1. ASSUME NEW r, NodeFront(r) = 200
        PROVE  HandleGatewayRequest(r) = 200
    <3>1. CASE r.token \in {NoToken, ""}
      <4>1. NodeFront(r) = 401
        BY <3>1, Zenon DEF NodeFront
      <4> QED BY <2>1, <4>1
    <3>2. CASE r.token \notin {NoToken, ""} /\ r.size = "flooding"
      <4>1. NodeFront(r) = 0
        BY <3>2, Zenon DEF NodeFront
      <4> QED BY <2>1, <4>1
    <3>3. CASE r.token \notin {NoToken, ""} /\ r.size # "flooding"
      <4>1. NodeFront(r) = 400 \/ NodeFront(r) = HandleGatewayRequest(r)
        BY <3>3, Zenon DEF NodeFront
      <4> QED BY <2>1, <4>1
    <3> QED BY <3>1, <3>2, <3>3
  <2> QED
    BY <2>1 DEF FrontStatus
<1>3. \A r : HandleGatewayRequest(r) = 200 =>
           ~(GatewayPlane(r.call.method) = "admin" /\ BearerTokenScope(r.token) # "admin")
  BY DEF HandleGatewayRequest
<1>4. \A m \in GatewayAdminMethods : GatewayPlane(m) = "admin"
  BY DEF GatewayPlane
<1> QED
  BY <1>1, <1>2, <1>3, <1>4 DEF GatewayAdminMethods

\* What is served does not thaw a scope unless it asks to with the admin token.
LEMMA ServedKeepsFrozen ==
    ASSUME NEW r, FrontStatus(r) = 200, Dispatch(r.call),
           NEW scope, Frozen(scope), ~Thaws(r.call, r.token, scope)
    PROVE  Frozen(scope)'
<1>1. \A s : D!FrozenRow(s)' = D!FrozenRow(s)
  BY DispatchFrozen DEF D!FrozenRow, D!Locate
<1>2. CASE r.call.method = "unfreeze"
  <2>1. r.call.arg.scope # scope
    BY <1>2, AdminNeedsToken DEF Thaws
  <2>2. D!FrozenRow(scope) # D!FrozenRow(r.call.arg.scope)
    BY <2>1 DEF D!FrozenRow
  <2> QED
    BY <1>1, <1>2, <2>2, DispatchFrozen DEF D!Unfreeze, Frozen
<1>3. CASE r.call.method = "freeze"
  BY <1>1, <1>3, DispatchFrozen DEF D!Freeze, Frozen
<1>4. CASE r.call.method \notin {"freeze", "unfreeze"}
  BY <1>1, <1>4, DispatchFrozen DEF Frozen
<1> QED
  BY <1>2, <1>3, <1>4

\* A freeze that was done holds where every object of the scope looks for it.
LEMMA FreezeFreezes ==
    ASSUME NEW call, Dispatch(call), call.method = "freeze", DirectAnswer(call) = Ok
    PROVE  Frozen(call.arg.scope)'
<1>1. D!FreezeAnswer(call.arg.scope, "admin") = Ok
  BY DEF DirectAnswer
<1>2. call.arg.scope = AllScopes => atomicGlobalFreeze
  BY <1>1 DEF D!FreezeAnswer, D!VerifyAdmin, D!Refusal, Ok, D!AllScopes, AllScopes
<1>3. D!FrozenRow(call.arg.scope) \in frozenRows'
  BY <1>1, Refusals, DispatchFrozen DEF D!Freeze
<1>4. D!FrozenRow(call.arg.scope)' = D!FrozenRow(call.arg.scope)
  BY DispatchFrozen DEF D!FrozenRow, D!Locate
<1> QED
  BY <1>2, <1>3, <1>4, DispatchFrozen DEF Frozen

\* A verb that freezes or thaws asks for the capabilities, then for that of its
\* one scope; the others ask for neither.
LEMMA VerbSteps ==
    ASSUME NEW line \in CommandLines
    PROVE  /\ Len(Steps(line)) \in Nat
           /\ \A i \in 1 .. Len(Steps(line)) :
                  Steps(line)[i].method \in {"freeze", "unfreeze"} =>
                      /\ i = Len(Steps(line))
                      /\ Steps(line)[i].method = line.verb
                      /\ Steps(line)[i].arg.scope = NormalizeScope(line)
           /\ Len(Steps(line)) >= 1
           /\ line.verb \in {"freeze", "unfreeze"} =>
                  Steps(line)[Len(Steps(line))] =
                      [method |-> line.verb, arg |-> [scope |-> NormalizeScope(line)]]
<1>1. CASE line.verb \in {"freeze", "unfreeze"}
  BY <1>1 DEF Steps
<1>2. CASE line.verb = "budget"
  BY <1>2 DEF Steps
<1>3. CASE line.verb = "pins"
  BY <1>3 DEF Steps
<1>4. CASE line.verb = "rotate-recipient"
  BY <1>4 DEF Steps, RotateSteps
<1> QED
  BY <1>1, <1>2, <1>3, <1>4, VerbAssumption

-------------------------------------------------------------------------------
(* The freezes the operator heard of.                                      *)

\* What the operator has sent is its verb's request.
LEMMA OperatorNeverThaws ==
    ASSUME HaltInv, link[Operator].step = "sent", NEW scope, Kept(scope)
    PROVE  ~Thaws(link[Operator].call, link[Operator].token, scope)
<1>1. /\ verb # NoVerb /\ verb.line \in CommandLines
      /\ verb.step \in 1 .. Len(Steps(verb.line))
      /\ link[Operator].call = Steps(verb.line)[verb.step]
  BY DEF HaltInv, VerbInv, VerbRecords, Idle
<1>2. SUFFICES ASSUME link[Operator].call.method = "unfreeze",
                      link[Operator].call.arg.scope = scope
               PROVE  FALSE
  BY DEF Thaws
<1>3. verb.line.verb = "unfreeze" /\ NormalizeScope(verb.line) = scope
  BY <1>1, <1>2, VerbSteps
<1> QED
  BY <1>1, <1>3 DEF HaltInv, VerbInv, Kept, FreezingVerb

LEMMA NobodyThaws ==
    ASSUME HaltInv, NEW c \in Clients, link[c].step = "sent", NEW scope, Kept(scope)
    PROVE  ~Thaws(link[c].call, link[c].token, scope)
<1>1. CASE c = Operator
  BY <1>1, OperatorNeverThaws
<1>2. CASE c # Operator
  BY <1>2, AdminAssumption DEF HaltInv, TokenInv, Thaws
<1> QED
  BY <1>1, <1>2

\* Whatever is served, what the operator believes frozen stays so.
LEMMA HaltedStay ==
    ASSUME HaltInv, UNCHANGED cliVars,
           \/ UNCHANGED storeVars
           \/ \E r : /\ FrontStatus(r) = 200 /\ Dispatch(r.call)
                     /\ \A scope : Kept(scope) => ~Thaws(r.call, r.token, scope)
    PROVE  /\ \A scope \in halted' : Frozen(scope)'
           /\ FreezingVerb /\ Frozen(NormalizeScope(verb.line)) => Frozen(NormalizeScope(verb.line))'
<1>1. \A scope : Kept(scope) /\ Frozen(scope) => Frozen(scope)'
  <2>1. CASE UNCHANGED storeVars
    BY <2>1 DEF storeVars, Frozen, D!FrozenRow, D!Locate
  <2> QED
    BY <2>1, ServedKeepsFrozen
<1> QED
  BY <1>1 DEF HaltInv, Kept, cliVars

\* A call of the transport serves what a client has sent, or nothing.
LEMMA TransportServes ==
    ASSUME NEW c \in Clients, Transport(c)
    PROVE  \/ UNCHANGED storeVars
           \/ /\ link[c].step = "sent"
              /\ FrontStatus(Posted(link[c].call, link[c].token)) = 200
              /\ Dispatch(link[c].call)
  BY DEF Transport, Refuse, Serve, Outage, Return, Mangled, Disconnect, Status

\* It leaves the client with an answer; what it gives up on it leaves behind.
LEMMA TransportMoves ==
    ASSUME DOMAIN link = Clients, NEW c \in Clients, Transport(c)
    PROVE  /\ DOMAIN link' = Clients
           /\ \A d \in Clients \ {c} : link'[d] = link[d]
           /\ link'[c].step \in {"answered", "settled"}
           /\ \A s \in stray' : \/ s \in stray
                                \/ /\ link[c].step = "sent"
                                   /\ s.call = link[c].call /\ s.token = link[c].token
<1>1. ASSUME NEW a, NEW done, Reply(c, a, done) \/ Settle(c, a, done)
      PROVE  /\ DOMAIN link' = Clients
             /\ \A d \in Clients \ {c} : link'[d] = link[d]
             /\ link'[c].step \in {"answered", "settled"}
  BY <1>1 DEF Reply, Settle, Settled
<1>2. \E a, done : Reply(c, a, done) \/ Settle(c, a, done)
  BY DEF Transport, Refuse, Serve, Outage, Return, Mangled, Disconnect
<1>3. \A s \in stray' : \/ s \in stray
                        \/ /\ link[c].step = "sent"
                           /\ s.call = link[c].call /\ s.token = link[c].token
  BY DEF Transport, Refuse, Serve, Outage, Return, Mangled, Disconnect
<1> QED
  BY <1>1, <1>2, <1>3

\* A success the client holds is one it held, or the store's of this moment.
LEMMA SuccessIsServed ==
    ASSUME DOMAIN link = Clients, NEW c \in Clients, Transport(c), link'[c].answer = Ok
    PROVE  \/ /\ link[c].step = "answered" /\ link[c].answer = Ok
              /\ UNCHANGED storeVars
           \/ /\ link[c].step = "sent" /\ Dispatch(link[c].call)
              /\ DirectAnswer(link[c].call) = Ok
<1>1. \A a, done : Reply(c, a, done) \/ Settle(c, a, done) => link'[c].answer = a
  BY DEF Reply, Settle, Settled
<1>2. Unavailable # Ok /\ InvalidResponse # Ok /\ \A s : GatewayConditionError(s) # Ok
  BY DEF Unavailable, InvalidResponse, GatewayConditionError, Ok, Refusal
<1>3. ~Refuse(c) /\ ~Mangled(c) /\ ~Disconnect(c) /\ ~Outage(c)
  BY <1>1, <1>2 DEF Refuse, Mangled, Disconnect, Outage
<1>4. CASE Serve(c)
  BY <1>1, <1>2, <1>4 DEF Serve, Envelope
<1>5. CASE Return(c)
  BY <1>1, <1>5 DEF Return
<1> QED
  BY <1>3, <1>4, <1>5 DEF Transport

LEMMA TransportKeepsHalt ==
    ASSUME HaltInv, NEW c \in Clients, Transport(c), UNCHANGED cliVars
    PROVE  HaltInv'
<1> USE OperatorAssumption
<1>1. /\ DOMAIN link' = Clients
      /\ \A d \in Clients \ {c} : link'[d] = link[d]
      /\ link'[c].step \in {"answered", "settled"}
      /\ \A s \in stray' : s \in stray \/ (/\ link[c].step = "sent"
                                           /\ s.call = link[c].call /\ s.token = link[c].token)
  BY TransportMoves DEF HaltInv
<1>2. /\ \A scope \in halted' : Frozen(scope)'
      /\ FreezingVerb /\ Frozen(NormalizeScope(verb.line))
             => Frozen(NormalizeScope(verb.line))'
  <2>1. CASE UNCHANGED storeVars
    BY <2>1, HaltedStay
  <2>2. CASE ~UNCHANGED storeVars
    <3> DEFINE r == Posted(link[c].call, link[c].token)
    <3>1. FrontStatus(r) = 200 /\ Dispatch(r.call) /\ link[c].step = "sent"
          /\ r.call = link[c].call /\ r.token = link[c].token
      BY <2>2, TransportServes DEF Posted
    <3>2. \A scope : Kept(scope) => ~Thaws(r.call, r.token, scope)
      BY <3>1, NobodyThaws
    <3> HIDE DEF r
    <3> QED
      BY <3>1, <3>2, HaltedStay
  <2> QED
    BY <2>1, <2>2
<1>3. TokenInv'
  <2>1. \A scope : Kept(scope)' = Kept(scope)
    BY DEF Kept, FreezingVerb, cliVars
  <2>2. \A scope, call, token : Thaws(call, token, scope)' = Thaws(call, token, scope)
    BY DEF Thaws
  <2>3. \A d \in Clients \ {Operator} : link'[d].step = "sent" => link'[d].token = ClientTokens[d]
    BY <1>1 DEF HaltInv, TokenInv
  <2>4. ASSUME NEW scope, Kept(scope), NEW s \in stray'
        PROVE  ~Thaws(s.call, s.token, scope)
    BY <1>1, <2>4, NobodyThaws DEF HaltInv, TokenInv
  <2> QED
    BY <2>1, <2>3, <2>4 DEF TokenInv, Thaws
<1>4. VerbInv'
  <2>1. verb = NoVerb => link'[Operator] = Idle
    <3>1. Transport(Operator) => link[Operator] # Idle
      BY DEF Transport, Refuse, Serve, Outage, Return, Mangled, Disconnect, Idle
    <3> QED
      BY <1>1, <3>1 DEF HaltInv, VerbInv
  <2>2. link'[Operator].step = "sent" => link'[Operator].call = Steps(verb.line)[verb.step]
    BY <1>1 DEF HaltInv, VerbInv
  <2>3. ASSUME FreezingVerb, LastStep, link'[Operator].step \in {"answered", "settled"},
               link'[Operator].answer = Ok
        PROVE  Frozen(NormalizeScope(verb.line))'
    <3>1. CASE c # Operator
      BY <1>1, <1>2, <2>3, <3>1 DEF HaltInv, VerbInv
    <3>2. CASE c = Operator /\ link[c].step = "answered" /\ link[c].answer = Ok
      BY <1>2, <2>3, <3>2 DEF HaltInv, VerbInv
    <3>3. CASE c = Operator /\ link[c].step = "sent" /\ Dispatch(link[c].call)
               /\ DirectAnswer(link[c].call) = Ok
      <4>1. /\ verb.line \in CommandLines /\ verb.line.verb = "freeze"
            /\ link[c].call = Steps(verb.line)[Len(Steps(verb.line))]
        BY <2>3, <3>3 DEF HaltInv, VerbInv, VerbRecords, FreezingVerb, LastStep
      <4>2. PICK call : call = link[c].call
        OBVIOUS
      <4>3. call.method = "freeze" /\ call.arg.scope = NormalizeScope(verb.line)
        <5>1. Steps(verb.line)[Len(Steps(verb.line))] =
                  [method |-> verb.line.verb, arg |-> [scope |-> NormalizeScope(verb.line)]]
          BY <4>1, VerbSteps
        <5> QED
          BY <4>1, <4>2, <5>1
      <4>4. Frozen(call.arg.scope)'
        BY <3>3, <4>2, <4>3, FreezeFreezes
      <4>5. NormalizeScope(verb.line)' = NormalizeScope(verb.line)
        BY DEF cliVars
      <4> QED
        BY <4>3, <4>4, <4>5 DEF Frozen, D!FrozenRow, D!Locate
    <3> QED
      BY <2>3, <3>1, <3>2, <3>3, SuccessIsServed DEF HaltInv
  <2> QED
    BY <2>1, <2>2, <2>3 DEF HaltInv, VerbInv, cliVars, FreezingVerb, LastStep, Frozen
<1> QED
  BY <1>1, <1>2, <1>3, <1>4 DEF HaltInv

\* What nobody asks the store and leaves the operator's link alone.
LEMMA BystanderKeepsHalt ==
    ASSUME HaltInv, UNCHANGED cliVars, DOMAIN link' = Clients,
           link'[Operator] = link[Operator], stray' \subseteq stray,
           \A c \in Clients \ {Operator} :
               link'[c].step = "sent" => link'[c].token = ClientTokens[c],
           \A scope \in halted' : Frozen(scope)',
           FreezingVerb /\ Frozen(NormalizeScope(verb.line))
               => Frozen(NormalizeScope(verb.line))'
    PROVE  HaltInv'
<1>1. TokenInv'
  BY DEF HaltInv, TokenInv, Kept, FreezingVerb, Thaws, cliVars
<1>2. VerbInv'
  BY DEF HaltInv, VerbInv, FreezingVerb, LastStep, cliVars, Frozen
<1> QED
  BY <1>1, <1>2 DEF HaltInv

LEMMA StartKeepsHalt ==
    ASSUME HaltInv, NEW line \in CommandLines, NEW a \in AdminVariables, StartVerb(line, a)
    PROVE  HaltInv'
<1>1. /\ verb = NoVerb /\ link[Operator] = Idle /\ link' = link /\ stray' = stray
      /\ verb'.line = line /\ verb'.step = 1 /\ verb'.clear = ~ThawPending(NormalizeScope(line))
      /\ halted' \subseteq halted
      /\ line.verb = "unfreeze" => NormalizeScope(line) \notin halted'
  BY DEF StartVerb, wireVars
<1>2. \A scope \in halted' : Frozen(scope)'
  BY <1>1 DEF StartVerb, HaltInv, storeVars, Frozen, D!FrozenRow, D!Locate
<1>3. verb' \in VerbRecords /\ 1 \in 1 .. Len(Steps(line))
  <2>1. ThawPending(NormalizeScope(line)) \in BOOLEAN
    BY DEF ThawPending
  <2>2. (IF Plane(line) = "admin" THEN a ELSE DataToken) \in AdminVariables \cup {DataToken}
    OBVIOUS
  <2>3. verb' \in VerbRecords
    BY <2>1, <2>2 DEF StartVerb, VerbRecords
  <2>4. Len(Steps(line)) \in Nat /\ Len(Steps(line)) >= 1
    BY VerbSteps
  <2> QED
    BY <2>3, <2>4
<1>4. ASSUME NEW scope, Kept(scope)', NEW s \in stray
      PROVE  ~Thaws(s.call, s.token, scope)
  <2>1. CASE scope \in halted
    BY <1>4, <2>1 DEF HaltInv, TokenInv, Kept
  <2>2. CASE scope \notin halted
    BY <1>1, <1>4, <2>2 DEF Kept, FreezingVerb, ThawPending, Thaws, NormalizeScope
  <2> QED
    BY <2>1, <2>2
<1>5. TokenInv'
  BY <1>1, <1>4 DEF HaltInv, TokenInv, Thaws
<1>6. VerbInv'
  <2>1. link'[Operator] = Idle /\ Idle.step = "idle"
    BY <1>1 DEF Idle
  <2>2. NormalizeScope(verb.line)' = NormalizeScope(line)
    BY <1>1 DEF NormalizeScope
  <2>3. Len(Steps(verb.line))' = Len(Steps(line))
    BY <1>1 DEF Steps, RotateSteps, NormalizeScope, ResolveAssetId
  <2> QED
    BY <1>1, <1>3, <2>1, <2>2, <2>3 DEF VerbInv, VerbRecords
<1> QED
  BY <1>1, <1>2, <1>5, <1>6 DEF HaltInv

LEMMA AskKeepsHalt ==
    ASSUME HaltInv, AskStep
    PROVE  HaltInv'
<1> USE OperatorAssumption
<1> DEFINE l == [step |-> "sent", call |-> Steps(verb.line)[verb.step], token |-> verb.token]
<1>1. /\ verb # NoVerb /\ UNCHANGED <<storeVars, stray>> /\ UNCHANGED cliVars
      /\ link' = [link EXCEPT ![Operator] = l]
  BY DEF AskStep, Request
<1>2. /\ DOMAIN link' = Clients /\ link'[Operator] = l
      /\ \A d \in Clients \ {Operator} : link'[d] = link[d]
  BY <1>1 DEF HaltInv
<1>3. l.step = "sent" /\ l.call = Steps(verb.line)[verb.step]
  OBVIOUS
<1> HIDE DEF l
<1>4. /\ verb' = verb /\ halted' = halted /\ stray' = stray
      /\ frozenRows' = frozenRows /\ atomicGlobalFreeze' = atomicGlobalFreeze
  BY <1>1 DEF cliVars, storeVars
<1>5. \A scope \in halted' : Frozen(scope)'
  BY <1>4 DEF HaltInv, Frozen, D!FrozenRow, D!Locate
<1>6. TokenInv'
  BY <1>2, <1>4 DEF HaltInv, TokenInv, Kept, FreezingVerb, Thaws
<1>7. VerbInv'
  BY <1>1, <1>2, <1>3, <1>4 DEF HaltInv, VerbInv
<1> QED
  BY <1>2, <1>5, <1>6, <1>7 DEF HaltInv

LEMMA NextStepKeepsHalt ==
    ASSUME HaltInv, NextStep
    PROVE  HaltInv'
<1> USE OperatorAssumption
<1>1. /\ verb # NoVerb /\ verb' = [verb EXCEPT !.step = @ + 1] /\ ~LastStep
      /\ link' = [link EXCEPT ![Operator] = Idle]
      /\ halted' = halted /\ stray' = stray
      /\ frozenRows' = frozenRows /\ atomicGlobalFreeze' = atomicGlobalFreeze
  BY DEF NextStep, storeVars
<1>2. /\ DOMAIN link' = Clients /\ link'[Operator] = Idle /\ Idle.step = "idle"
      /\ \A d \in Clients \ {Operator} : link'[d] = link[d]
  BY <1>1 DEF HaltInv, Idle
<1>3. /\ verb \in VerbRecords /\ verb.step \in 1 .. Len(Steps(verb.line))
  BY <1>1 DEF HaltInv, VerbInv
<1>4. /\ verb'.line = verb.line /\ verb'.clear = verb.clear /\ verb' \in VerbRecords
      /\ verb'.step = verb.step + 1
  BY <1>1, <1>3 DEF VerbRecords
<1>5. \A scope \in halted' : Frozen(scope)'
  BY <1>1 DEF HaltInv, Frozen, D!FrozenRow, D!Locate
<1>6. NormalizeScope(verb.line)' = NormalizeScope(verb.line)
  BY <1>4 DEF NormalizeScope
<1>7. TokenInv'
  BY <1>1, <1>2, <1>4, <1>6 DEF HaltInv, TokenInv, Kept, FreezingVerb, Thaws
<1>8. VerbInv'
  <2>1. Len(Steps(verb.line))' = Len(Steps(verb.line))
    BY <1>4 DEF Steps, RotateSteps, NormalizeScope, ResolveAssetId
  <2>2. Len(Steps(verb.line)) \in Nat /\ verb.step # Len(Steps(verb.line))
    BY <1>1, <1>3, VerbSteps DEF LastStep, VerbRecords
  <2>3. verb'.step \in 1 .. Len(Steps(verb.line))'
    BY <1>3, <1>4, <2>1, <2>2 DEF VerbRecords
  <2> QED
    BY <1>1, <1>2, <1>4, <1>6, <2>3 DEF HaltInv, VerbInv
<1> QED
  BY <1>2, <1>5, <1>7, <1>8 DEF HaltInv

LEMMA EndVerbKeepsHalt ==
    ASSUME TruthInv, HaltInv, EndVerb
    PROVE  HaltInv'
<1> USE OperatorAssumption
<1>1. /\ verb # NoVerb /\ verb' = NoVerb
      /\ link' = [link EXCEPT ![Operator] = Idle] /\ stray' = stray
      /\ frozenRows' = frozenRows /\ atomicGlobalFreeze' = atomicGlobalFreeze
      /\ link[Operator].step = "settled" /\ (Heard # Ok \/ LastStep)
      /\ halted' = IF verb.line.verb = "freeze" /\ verb.clear /\ ExitCodeFor(Heard) = 0
                   THEN halted \cup {NormalizeScope(verb.line)} ELSE halted
  BY DEF EndVerb, storeVars
<1>2. /\ DOMAIN link' = Clients /\ link'[Operator] = Idle /\ Idle.step = "idle"
      /\ \A d \in Clients \ {Operator} : link'[d] = link[d]
  BY <1>1 DEF HaltInv, Idle
<1>3. \A scope \in halted' : Kept(scope)
  BY <1>1 DEF Kept, FreezingVerb
<1>4. FreezingVerb /\ ExitCodeFor(Heard) = 0 => Frozen(NormalizeScope(verb.line))
  <2>1. ExitCodeFor(Heard) = 0 => Heard = Ok
    BY <1>1 DEF TruthInv, Heard, Honest, WireKinds, ExitCodeFor
  <2> QED
    BY <1>1, <2>1 DEF HaltInv, VerbInv, Heard
<1>5. \A scope \in halted' : Frozen(scope)'
  <2>1. \A scope \in halted' : Frozen(scope)
    BY <1>1, <1>4 DEF HaltInv, FreezingVerb
  <2> QED
    BY <1>1, <2>1 DEF Frozen, D!FrozenRow, D!Locate
<1>6. TokenInv'
  BY <1>1, <1>2, <1>3 DEF HaltInv, TokenInv, Kept, FreezingVerb, Thaws
<1>7. VerbInv'
  BY <1>1, <1>2 DEF VerbInv, FreezingVerb
<1> QED
  BY <1>2, <1>5, <1>6, <1>7 DEF HaltInv

\* A request left behind is served late or lost; one that is forged has no
\* admin token.
LEMMA StrayKeepsHalt ==
    ASSUME HaltInv, UNCHANGED cliVars, ArriveLate \/ PostRaw
    PROVE  HaltInv'
<1>1. link' = link /\ stray' \subseteq stray
  BY DEF ArriveLate, PostRaw, wireVars
<1>2. \/ UNCHANGED storeVars
      \/ \E r : /\ FrontStatus(r) = 200 /\ Dispatch(r.call)
                /\ \A scope : Kept(scope) => ~Thaws(r.call, r.token, scope)
  <2>1. CASE PostRaw
    BY <2>1, AdminAssumption DEF PostRaw, Thaws
  <2>2. CASE ArriveLate
    <3>1. PICK s \in stray : \/ FrontStatus(Posted(s.call, s.token)) = 200 /\ Dispatch(s.call)
                             \/ UNCHANGED storeVars
      BY <2>2 DEF ArriveLate
    <3>2. Posted(s.call, s.token).call = s.call /\ Posted(s.call, s.token).token = s.token
      BY DEF Posted
    <3>3. \A scope : Kept(scope) => ~Thaws(s.call, s.token, scope)
      BY DEF HaltInv, TokenInv
    <3> QED
      BY <3>1, <3>2, <3>3
  <2> QED
    BY <2>1, <2>2
<1>3. /\ \A scope \in halted' : Frozen(scope)'
      /\ FreezingVerb /\ Frozen(NormalizeScope(verb.line))
             => Frozen(NormalizeScope(verb.line))'
  BY <1>2, HaltedStay
<1>4. DOMAIN link' = Clients /\ link'[Operator] = link[Operator]
      /\ \A c \in Clients \ {Operator} :
             link'[c].step = "sent" => link'[c].token = ClientTokens[c]
  BY <1>1 DEF HaltInv, TokenInv
<1> QED
  BY <1>1, <1>3, <1>4, BystanderKeepsHalt

LEMMA LibraryKeepsHalt ==
    ASSUME HaltInv, UNCHANGED cliVars, NEW c \in Clients \ {Operator}, LibraryCall(c)
    PROVE  HaltInv'
<1>1. PICK call : Request(c, call, ClientTokens[c])
  BY DEF LibraryCall
<1>2. /\ DOMAIN link' = Clients /\ link'[Operator] = link[Operator] /\ stray' = stray
      /\ \A d \in Clients \ {Operator} :
             link'[d].step = "sent" => link'[d].token = ClientTokens[d]
      /\ UNCHANGED storeVars
  BY <1>1, OperatorAssumption DEF Request, HaltInv, TokenInv
<1>3. /\ \A scope \in halted' : Frozen(scope)'
      /\ FreezingVerb /\ Frozen(NormalizeScope(verb.line))
             => Frozen(NormalizeScope(verb.line))'
  BY <1>2, HaltedStay
<1> QED
  BY <1>2, <1>3, BystanderKeepsHalt

\* Once freeze has exited with 0, the scope stays frozen until the operator runs
\* unfreeze, whatever arrives late, is forged, or is sent by the other clients.
THEOREM HaltAlwaysHolds == Spec => []HaltHolds
<1>1. CliInit => HaltInv
  BY OperatorAssumption
     DEF CliInit, Init, Idle, HaltInv, VerbInv, TokenInv, Kept, FreezingVerb
<1>2. TruthInv /\ HaltInv /\ [Next]_vars => HaltInv'
  <2> SUFFICES ASSUME TruthInv, HaltInv, [Next]_vars
               PROVE  HaltInv'
    OBVIOUS
  <2>1. ASSUME UNCHANGED <<storeVars, wireVars, verb, halted>>
        PROVE  HaltInv'
    BY <2>1 DEF storeVars, wireVars, HaltInv, VerbInv, TokenInv, Kept, FreezingVerb, LastStep,
                Frozen, D!FrozenRow, D!Locate, Thaws
  <2>2. ASSUME NEW line \in CommandLines, NEW a \in AdminVariables,
               RefuseVerb(line, a) \/ StartVerb(line, a)
        PROVE  HaltInv'
    BY <2>2, <2>1, StartKeepsHalt DEF RefuseVerb
  <2>3. CASE AskStep \/ NextStep \/ EndVerb
    BY <2>3, AskKeepsHalt, NextStepKeepsHalt, EndVerbKeepsHalt
  <2>4. ASSUME NEW c \in Clients \ {Operator}, LibraryCall(c) /\ UNCHANGED cliVars
        PROVE  HaltInv'
    BY <2>4, LibraryKeepsHalt
  <2>5. ASSUME NEW c \in Clients, Transport(c) /\ UNCHANGED cliVars
        PROVE  HaltInv'
    BY <2>5, TransportKeepsHalt
  <2>6. CASE (ArriveLate \/ PostRaw) /\ UNCHANGED cliVars
    BY <2>6, StrayKeepsHalt
  <2>7. CASE UNCHANGED vars
    BY <2>7, <2>1 DEF vars, cliVars
  <2> QED
    BY <2>2, <2>3, <2>4, <2>5, <2>6, <2>7 DEF Next
<1>3. HaltInv => HaltHolds
  BY DEF HaltInv, HaltHolds, Frozen, D!IsFrozen, D!FrozenIn, D!FrozenRow, D!Locate,
         D!AllScopes, AllScopes
<1> QED
  BY <1>1, <1>2, <1>3, TruthIsInvariant, PTL DEF Spec
===============================================================================
