----------------------------- MODULE MCOperatorCli -----------------------------
(* An operator and an agent on one gateway, and a third party with the      *)
(* agent's token.                                                           *)
EXTENDS OperatorCli

Usdc       == [family |-> "eip155", name |-> "usdc", mixedCase |-> FALSE]
OneAsset   == {Usdc}
Base       == [family |-> "eip155", name |-> "base"]
OneNetwork == {Base}
Payee1     == [name |-> "payee1", mixedCase |-> TRUE]
OnePayee   == {Payee1}
OneList    == {OnePayee}
NoTotals   == {NoCap}
NoLimits   == {NoLimit}

Ref     == [policyScope |-> "merchant", assetId |-> Usdc, reservationId |-> "r1"]
Scope(s) == [scope |-> s]

Spend(fingerprint) ==
    [policyScope |-> "merchant", assetId |-> Usdc, reservationId |-> "r1",
     fingerprint |-> fingerprint, amount |-> 1, maxPerHour |-> 1, maxTotal |-> NoCap,
     payee |-> [network |-> Base, recipient |-> Payee1], enforcement |-> "tofu"]

Call(m, a) == [method |-> m, arg |-> a]

AgentCalls == { Call("reserve", Spend("f")), Call("reserve", Spend("g")),
                Call("freeze", Scope("merchant")) }

Calls  == [c \in Clients |-> IF c = Operator THEN {} ELSE AgentCalls]
Tokens == [c \in Clients |-> DataToken]

Pins == [scope |-> "merchant", network |-> Base, recipients |-> OnePayee]

\* What an operator types: a host or a URL, and lines the parser refuses.
Host(h) == [host |-> h, url |-> FALSE]
Url(h)  == [host |-> h, url |-> TRUE]

Line(v, targets, flags, to) ==
    [verb |-> v, targets |-> targets, flags |-> flags, network |-> Base, asset |-> Usdc,
     capsAtomic |-> TRUE, to |-> to]

FirstAsset == [n \in {Base} |-> Usdc]

Lines == { Line("freeze", <<Url("merchant")>>, {}, {}),
           Line("freeze", <<Host("*")>>, {}, {}),
           Line("freeze", <<Host("merchant")>>, {"network"}, {}),
           Line("unfreeze", <<Host("merchant")>>, {}, {}),
           Line("unfreeze", <<Host("merchant"), Host("*")>>, {}, {}),
           Line("budget", <<Host("merchant")>>, {"network", "max-total"}, {}),
           [Line("budget", <<Host("merchant")>>, {"network", "max-total"}, {})
               EXCEPT !.capsAtomic = FALSE],
           Line("pins", <<Host("merchant")>>, {"network"}, {}),
           Line("rotate-recipient", <<Host("merchant")>>, {"network"}, OnePayee),
           Line("rotate-recipient", <<Host("merchant")>>, {"network"}, {}) }

\* Everything a third party may put together, with the agent's token or none.
Raw == [front : {"node", "worker"}, token : {NoToken, DataToken, "", "guess"},
        version : {"v1", "unknown"}, routable : BOOLEAN, json : BOOLEAN,
        size : {"small", "over"},
        call : { Call("unfreeze", Scope("merchant")), Call("setRecipientPins", Pins),
                 Call("release", Ref), Call("freeze", Malformed) }]
===============================================================================
