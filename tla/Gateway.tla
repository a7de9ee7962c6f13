-------------------------------- MODULE Gateway --------------------------------
(***************************************************************************)
(* A spend store behind a capability gateway: the wire protocol and its    *)
(* gates (gateway/gateway.ts, wire.ts, schema.ts, validate.ts), the two    *)
(* fronts that serve it (node.ts, worker.ts), and the client that offers   *)
(* it as a spend store again (client.ts).                                  *)
(*                                                                         *)
(* The store is the Durable Object store, as in worker.ts: the data store  *)
(* holds no admin token and the admin store holds it.  The network loses,  *)
(* delays and mangles what crosses it, and the client sets no timeout: a   *)
(* call it was told failed may still be under way.  The object's clock     *)
(* stands still: expiry is the matter of SharedStores.                     *)
(***************************************************************************)
EXTENDS StoreCalls

CONSTANTS
    Clients,        \* processes that hold an HttpGatewaySpendStore
    DataToken,      \* TX402_GATEWAY_DATA_TOKEN
    AdminToken,     \* TX402_GATEWAY_ADMIN_TOKEN
    NoToken,        \* no bearer was presented
    ClientCalls,    \* the calls a process makes through the library: [method, arg]
    ClientTokens,   \* the bearer each client presents
    RawRequests,    \* requests anyone may post, well formed or not
    MaxFaults       \* bound on outages, lost and mangled answers in one history

VARIABLES
    now, atomicGlobalFreeze,
    reservations, committed, counters, limitRows, frozenRows, pinRows, recipientPolicy,
    link,           \* per client, its call: sent, answered, settled
    stray,          \* requests given up by their client and not yet delivered
    faults          \* faults so far

storeVars == <<now, atomicGlobalFreeze, reservations, committed, counters,
               limitRows, frozenRows, pinRows, recipientPolicy>>
wireVars  == <<link, stray, faults>>

D == INSTANCE DurableSpendStore

-------------------------------------------------------------------------------
(* The methods and the calls.                                              *)

GatewayDataMethods ==
    {"reserve", "commit", "release", "expose", "getBudgetState", "listExposed",
     "isFrozen", "getRecipientPins", "getRecipientPolicy", "capabilities"}

GatewayAdminMethods ==
    {"freeze", "unfreeze", "setRecipientPins", "setBudgetLimits", "getBudgetLimits",
     "setRecipientAssertionRequired", "setTofuEnabled", "resolveExposed", "resetCumulative"}

Methods == GatewayDataMethods \cup GatewayAdminMethods

\* A body that has fields, but not those the schema of its method wants.
Malformed == [malformed |-> TRUE]

GatewayPlane(method) == IF method \in GatewayAdminMethods THEN "admin" ELSE "data"

\* The admin token is compared first; an unset token matches nobody.
BearerTokenScope(token) ==
    IF token \in {NoToken, ""} THEN "unknown"
    ELSE IF token = AdminToken THEN "admin"
    ELSE IF token = DataToken  THEN "data"
    ELSE "unknown"

-------------------------------------------------------------------------------
(* The gates.  A request is a call with the headers and the body it came   *)
(* in; a condition is an HTTP status.                                      *)

MatchesWireSchema(call) == call.arg # Malformed

HandleGatewayRequest(r) ==
    IF r.version = "unknown"                            THEN 426
    ELSE IF ~r.routable                                 THEN 400
    ELSE IF BearerTokenScope(r.token) = "unknown"       THEN 401
    ELSE IF /\ GatewayPlane(r.call.method) = "admin"
            /\ BearerTokenScope(r.token) # "admin"      THEN 403
    ELSE IF ~r.json \/ r.size # "small"                 THEN 400
    ELSE IF ~MatchesWireSchema(r.call)                  THEN 400
    ELSE 200

\* Node reads no body without a bearer, an empty one included, and buffers none
\* past the cap; a body that keeps coming is cut off, which its sender sees as a
\* broken connection.
NodeFront(r) ==
    IF r.token \in {NoToken, ""} THEN 401
    ELSE IF r.size = "flooding" THEN 0
    ELSE IF r.size = "over"     THEN 400
    ELSE HandleGatewayRequest(r)

FrontStatus(r) == IF r.front = "node" THEN NodeFront(r) ELSE HandleGatewayRequest(r)

\* What the client of this package posts: always well formed, to one front.
Posted(call, token) ==
    [front |-> "worker", call |-> call, token |-> token, version |-> "v1",
     routable |-> TRUE, json |-> TRUE, size |-> "small"]

-------------------------------------------------------------------------------
(* dispatch: the data store for data methods, the admin store for others.  *)

Dispatch(call) ==
    LET m == call.method
        a == call.arg
    IN
    CASE m = "reserve"          -> D!Reserve(a)
      [] m = "commit"           -> D!Commit(a)
      [] m = "release"          -> D!Release(a)
      [] m = "expose"           -> D!Expose(a)
      [] m = "getBudgetState"   -> D!GetBudgetState(Account(a))
      [] m = "freeze"           -> D!Freeze(a.scope, "admin")
      [] m = "unfreeze"         -> D!Unfreeze(a.scope, "admin")
      [] m = "setRecipientPins" -> D!SetRecipientPins(a.scope, a.network, a.recipients, "admin")
      [] m = "setBudgetLimits"  -> D!SetBudgetLimits(a.scope, a.assetId, a.limits, "admin")
      [] m = "setRecipientAssertionRequired" ->
             D!SetRecipientAssertionRequired(a.scope, a.required, "admin")
      [] m = "setTofuEnabled"   -> D!SetTofuEnabled(a.scope, a.enabled, "admin")
      [] m = "resolveExposed"   -> D!ResolveExposed(a.ref, a.outcome, "admin")
      [] m = "resetCumulative"  -> D!ResetCumulative(a.scope, a.assetId, "admin")
      [] OTHER                  -> UNCHANGED storeVars

\* What the store itself would tell a direct caller now.
DirectAnswer(call) ==
    CASE call.method = "reserve"        -> D!ReserveAnswer(call.arg)
      [] call.method = "commit"         -> D!CommitAnswer(call.arg)
      [] call.method = "release"        -> D!ReleaseAnswer(call.arg)
      [] call.method = "expose"         -> D!ExposeAnswer(call.arg)
      [] call.method = "freeze"         -> D!FreezeAnswer(call.arg.scope, "admin")
      [] call.method = "resolveExposed" -> D!ResolveAnswer(call.arg.ref, "admin")
      [] OTHER                          -> Ok

-------------------------------------------------------------------------------
(* Answers on the wire.                                                    *)

Unavailable     == Refusal("transport", "gateway-unavailable")
InvalidResponse == Refusal("config", "gateway-invalid-response")


\* gatewayConditionError: the typed error of a status that is not 200.
GatewayConditionError(status) ==
    CASE status = 400 -> Refusal("config", "gateway-bad-request")
      [] status = 401 -> Refusal("config", "gateway-unauthorized")
      [] status = 403 -> Refusal("config", "admin-credential-required")
      [] status = 426 -> Refusal("config", "gateway-version-unsupported")
      [] OTHER        -> Unavailable

\* A refusal of the store is typed, and travels at 200 as the same error.  The
\* one exception: an id reused under other terms is a plain Error, so a 503.
Envelope(answer) == IF answer.kind = "idreuse" THEN Unavailable ELSE answer

Idle == [step |-> "idle"]

\* `done' is the store's own verdict on the call, for the properties.
Settled(answer, done) == [step |-> "settled", answer |-> answer, done |-> done]

Init ==
    /\ D!Init
    /\ link = [c \in Clients |-> Idle]
    /\ stray = {}
    /\ faults = 0

Fault == faults < MaxFaults /\ faults' = faults + 1

Free(c) == link[c].step \in {"idle", "settled"}

\* #request: one POST, sent once.
Request(c, call, token) ==
    /\ Free(c)
    /\ link' = [link EXCEPT ![c] = [step |-> "sent", call |-> call, token |-> token]]
    /\ UNCHANGED <<storeVars, stray, faults>>

Status(c) == FrontStatus(Posted(link[c].call, link[c].token))

Reply(c, answer, done) ==
    link' = [link EXCEPT ![c] = [step |-> "answered", answer |-> answer, done |-> done]]

Done(call) == IF DirectAnswer(call) = Ok THEN "yes" ELSE "no"

Refuse(c) ==
    /\ link[c].step = "sent" /\ Status(c) # 200
    /\ Reply(c, GatewayConditionError(Status(c)), "no")
    /\ UNCHANGED <<storeVars, stray, faults>>

Serve(c) ==
    /\ link[c].step = "sent" /\ Status(c) = 200
    /\ Dispatch(link[c].call)
    /\ Reply(c, Envelope(DirectAnswer(link[c].call)), Done(link[c].call))
    /\ UNCHANGED <<stray, faults>>

\* The store is out of reach, before or after it acted: a TransportError, so 503.
Outage(c) ==
    /\ Fault
    /\ link[c].step = "sent" /\ Status(c) = 200
    /\ \/ UNCHANGED storeVars /\ Reply(c, Unavailable, "no")
       \/ Dispatch(link[c].call) /\ Reply(c, Unavailable, Done(link[c].call))
    /\ UNCHANGED stray

\* What the client's promise settles with.
Settle(c, answer, done) == link' = [link EXCEPT ![c] = Settled(answer, done)]

Return(c) ==
    /\ link[c].step = "answered"
    /\ Settle(c, link[c].answer, link[c].done)
    /\ UNCHANGED <<storeVars, stray, faults>>

\* Something between the two answers instead: a page that is not JSON or
\* another status (retryable), or JSON that is not of the method's schema.
Mangled(c) ==
    /\ Fault
    /\ link[c].step = "answered"
    /\ \E answer \in {Unavailable, InvalidResponse} : Settle(c, answer, link[c].done)
    /\ UNCHANGED <<storeVars, stray>>

\* Mutant of Disconnect: a fetch that fails is reported as a refused request.
DisconnectRefused(c) ==
    /\ Fault
    /\ link[c].step = "answered"
    /\ Settle(c, Refusal("config", "gateway-bad-request"), link[c].done)
    /\ UNCHANGED <<storeVars, stray>>

\* fetch rejects.  A request that was not served yet may still arrive later.
Disconnect(c) ==
    /\ Fault
    /\ UNCHANGED storeVars
    /\ \/ /\ link[c].step = "answered"
          /\ Settle(c, Unavailable, link[c].done)
          /\ UNCHANGED stray
       \/ /\ link[c].step = "sent"
          /\ Settle(c, Unavailable, "late")
          /\ stray' = stray \cup {[call |-> link[c].call, token |-> link[c].token]}

\* A request nobody waits for any more is delivered, or lost.
ArriveLate ==
    \E s \in stray :
        /\ stray' = stray \ {s}
        /\ \/ FrontStatus(Posted(s.call, s.token)) = 200 /\ Dispatch(s.call)
           \/ UNCHANGED storeVars
        /\ UNCHANGED <<link, faults>>

\* Anyone may post anything.
PostRaw ==
    \E r \in RawRequests :
        /\ FrontStatus(r) = 200
        /\ Dispatch(r.call)
        /\ UNCHANGED wireVars

Transport(c) == Refuse(c) \/ Serve(c) \/ Outage(c) \/ Return(c) \/ Mangled(c) \/ Disconnect(c)

LibraryCall(c) == \E call \in ClientCalls[c] : Request(c, call, ClientTokens[c])

-------------------------------------------------------------------------------
(* Properties.                                                             *)

\* Whatever is lost, delayed or mangled on the way, a call of the client never
\* returns a success the store did not give, and never a refusal when the store
\* did what was asked; only an outage or a mangled answer leaves it open.
AnswersTellTruth ==
    \A c \in Clients : link[c].step = "settled" =>
        CASE link[c].answer = Ok -> link[c].done = "yes"
          [] link[c].answer \in {Unavailable, InvalidResponse} -> TRUE
          [] OTHER -> link[c].done = "no"
===============================================================================
