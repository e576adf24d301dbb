----------------------------- MODULE MCDelegation -----------------------------
(* Small instances of DelegationChain, Constraints and RiskMonitor.  They have
   no state in common: a behaviour is one of the chain verifier, of a session
   or of the monitor. *)
EXTENDS DelegationChain, Constraints, RiskMonitor

CONSTANTS p, k1, k2, g1, g2

\* "a", "a:b", "a:*", "a:?", "b" and "b:a".
A == <<"a">>
AB == <<"a", ":", "b">>
AAny == <<"a", ":", "*">>
AOne == <<"a", ":", "?">>
B == <<"b">>
BA == <<"b", ":", "a">>
MCPrincipalCaps == {AAny, B}
Cert(serial, key, caps, version) ==
  [serial |-> serial, key |-> key, caps |-> caps, version |-> version, aic |-> TRUE]
By(key, caps, agent) == [by |-> key, caps |-> caps, key |-> agent]

MCDelegations == {
  By(p, {AB}, k1), By(p, {AAny, BA}, k1), By(p, {AOne}, k1), By(p, {A}, k1),
  By(p, {AB, B}, Unbound), By(k1, {AB}, k2), By(k1, {AAny}, k2), By(k2, {AB}, k2)}
MCChains ==
  LET top == Cert(1, k1, {AB}, 2)
      wide == Cert(1, k1, {AAny, BA}, 2)
      glob == Cert(1, k1, {AOne}, 2)
  IN {
  <<>>, <<top>>, <<wide>>, <<glob>>, <<Cert(1, k1, {A}, 2)>>, <<Cert(1, k2, {AB}, 2)>>,
  <<Cert(1, k2, {AB, B}, 1)>>, <<Cert(1, k2, {AB, B}, 0), Cert(2, k2, {AB}, 2)>>,
  <<top, Cert(2, k2, {AB}, 0)>>, <<top, Cert(2, k2, {AAny}, 2)>>,
  <<wide, Cert(2, k2, {AAny}, 2)>>, <<wide, Cert(2, k2, {AB}, 2), Cert(3, k2, {AB}, 2)>>,
  <<glob, Cert(2, k2, {AB}, 2)>>, <<glob, Cert(2, k2, {AAny}, 2)>>,
  <<top, Cert(1, k2, {AB}, 2)>>, <<top, Cert(2, k2, {AB}, 3)>>,
  <<top, Cert(2, k2, {AB}, 2), Cert(3, k2, {AB}, 2)>>,
  <<top, Cert(2, k2, {AB}, 2), Cert(3, k2, {AB}, 2), Cert(4, k2, {AB}, 2)>>,
  <<[top EXCEPT !.aic = FALSE]>>}

Of(type, params) == [own |-> TRUE, type |-> type, p |-> params]
MCConstraints == [
  day      |-> Of("time:window", [start |-> 1, end |-> 3, tz |-> 0]),
  night    |-> Of("time:window", [start |-> 3, end |-> 1, tz |-> 1]),
  inside   |-> Of("network:cidr", <<{"ip1"}>>),
  badFirst |-> Of("network:cidr", <<BadNet, {"ip1"}>>),
  table    |-> Of("geo-fence", [resolver |-> "inline",
                                table |-> <<<<{"ip1"}>>, <<{"ip2"}, BadNet>>>>]),
  lookup   |-> Of("geo-fence", [resolver |-> "db", regions |-> {"north"}]),
  timeout  |-> Of("session:hard-timeout", {60}),
  sessions |-> Of("session:max-concurrent", {}),
  ping     |-> Of("custom:ping", {}),
  garbled  |-> Of("op:readonly", {Unparsable}),
  foreign  |-> [own |-> FALSE, type |-> "op:readonly", p |-> {}]]
Session(pa, aic, ip, strict, registry) ==
  [pa |-> pa, aic |-> aic, ip |-> ip, strict |-> strict, registry |-> registry]
MCSessions == {
  Session(<<"day">>, <<"night">>, "ip1", FALSE, "global"),
  Session(<<"night", "ping">>, <<>>, "ip1", TRUE, "global"),
  Session(<<"ping">>, <<"inside", "day">>, "ip1", FALSE, "deployment"),
  Session(<<"lookup">>, <<"timeout", "sessions">>, "ip1", FALSE, "deployment"),
  Session(<<"inside">>, <<"table">>, "ip1", TRUE, "global"),
  Session(<<"badFirst">>, <<>>, "ip1", FALSE, "global"),
  Session(<<"inside">>, <<>>, Nowhere, FALSE, "global"),
  Session(<<"garbled">>, <<"foreign">>, "ip1", FALSE, "global")}

Rule(signals, threshold, window) ==
  [signals |-> signals, threshold |-> threshold, window |-> window]
MCRuleSets == {
  <<>>, <<Rule({"cap"}, 3, 2)>>, <<Rule({"cap"}, 2, 1), Rule({AnySignal}, 3, 2)>>,
  <<Rule({AnySignal}, 3, 0), Rule({"rate"}, 2, 1)>>, <<Rule({}, 1, 1), Rule({"rate"}, 0, 1)>>}

\* The monitor starts without rules and is given some.
RiskIdle == RiskInit /\ rules = <<>>

Init == DelegationInit /\ ConstraintInit /\ RiskIdle
Next ==
  \/ ConstraintInit /\ RiskIdle /\ DelegationNext /\ UNCHANGED <<constraintVars, riskVars>>
  \/ DelegationInit /\ RiskIdle /\ ConstraintNext /\ UNCHANGED <<delegationVars, riskVars>>
  \/ DelegationInit /\ ConstraintInit /\ RiskNext /\ UNCHANGED <<delegationVars, constraintVars>>
Spec == Init /\ [][Next]_<<delegationVars, constraintVars, riskVars>>
===============================================================================
