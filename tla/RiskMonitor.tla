----------------------------- MODULE RiskMonitor -----------------------------
(***************************************************************************)
(* riskmonitor.go: violations of agents are collected in one list each and *)
(* counted by rules with windows and thresholds of their own; an agent     *)
(* that reaches a threshold is disconnected or revoked.  Every operation   *)
(* holds the mutex from its first step to its last and is one action.      *)
(***************************************************************************)
EXTENDS Integers, Sequences, FiniteSets

CONSTANTS
  Agents,
  RiskSignals,    \* the signals recorded, up to letter case
  AnySignal,      \* "*" in a rule
  RuleSets,       \* the rule lists a deployment is given, one after another
  DefaultWindow,  \* 60 seconds
  MaxUnix,        \* bound on the clock
  MaxViolations   \* bound on the calls of RecordViolation

RiskRule == [signals : SUBSET (RiskSignals \cup {AnySignal}), threshold : Int, window : Int]

ASSUME RiskAssumption ==
  /\ RuleSets \subseteq Seq(RiskRule)
  /\ DefaultWindow \in Nat /\ MaxUnix \in Nat /\ MaxViolations \in Nat

VARIABLES
  unix,        \* time.Now().Unix()
  rules,       \* m.rules
  violations,  \* m.violations
  since,       \* history: all of an agent's violations since it was last acted on
  last,        \* history: the last RecordViolation and the rule it triggered (0: none)
  calls        \* how often RecordViolation was called

riskVars == <<unix, rules, violations, since, last, calls>>

NoneYet == [a \in Agents |-> <<>>]
NoCall == [at |-> 0, seen |-> <<>>, rule |-> 0]

\* NewRiskMonitor
RiskInit ==
  /\ unix = 1
  /\ rules \in RuleSets
  /\ violations = NoneYet /\ since = NoneYet
  /\ last = NoCall /\ calls = 0

Window(r) == IF r.window <= 0 THEN DefaultWindow ELSE r.window
Threshold(r) == IF r.threshold <= 0 THEN 1 ELSE r.threshold

SignalIn(list, s) == AnySignal \in list \/ s \in list

\* Plausible bug: the oldest second of the window is left out.
MutantWithin(r, at, v) == at - v.at < Window(r)

\* A violation dated after the current one is within every window.
Within(r, at, v) == at - v.at <= Window(r)

\* A rule's loop over the list: what its window leaves, in order.
Pruned(list, r, at) ==
  LET kept[j \in 0 .. Len(list)] ==
        IF j = 0 THEN <<>>
        ELSE IF Within(r, at, list[j]) THEN Append(kept[j - 1], list[j]) ELSE kept[j - 1]
  IN kept[Len(list)]

\* What rule after rule leaves of an agent's list: each prunes it for the next.
KeptAfter(list, at) ==
  LET kept[i \in 0 .. Len(rules)] ==
        IF i = 0 THEN list ELSE Pruned(kept[i - 1], rules[i], at)
  IN kept

\* Once any of the violations left has a signal of the rule, all of them count.
Triggers(r, list) ==
  /\ \E j \in DOMAIN list : SignalIn(r.signals, list[j].sig)
  /\ Len(list) >= Threshold(r)

\* v.At = 0 stands for the current time; a caller may give an earlier one.
RecordViolation(a, sig, At) ==
  /\ calls < MaxViolations
  /\ LET at == IF At = 0 THEN unix ELSE At
         v == [sig |-> sig, at |-> at]
         kept == KeptAfter(Append(violations[a], v), at)
         hits == {i \in DOMAIN rules : Triggers(rules[i], kept[i])}
         hit == IF hits = {} THEN 0 ELSE CHOOSE i \in hits : \A k \in hits : i <= k
     IN /\ rules # <<>>    \* without rules nothing is recorded
        /\ violations' = [violations EXCEPT ![a] = IF hit = 0 THEN kept[Len(rules)] ELSE <<>>]
        /\ since' = [since EXCEPT ![a] = IF hit = 0 THEN Append(@, v) ELSE <<>>]
        /\ last' = [at |-> at, seen |-> Append(since[a], v), rule |-> hit]
  /\ calls' = calls + 1
  /\ UNCHANGED <<unix, rules>>

\* Hot reload: the counts start again.
SetRules(rs) ==
  /\ rules' = rs
  /\ violations' = NoneYet /\ since' = NoneYet
  /\ last' = NoCall
  /\ UNCHANGED <<unix, calls>>

RiskTick == unix < MaxUnix /\ unix' = unix + 1 /\ UNCHANGED <<rules, violations, since, last, calls>>

RiskNext ==
  \/ \E a \in Agents, sig \in RiskSignals, At \in 0 .. unix : RecordViolation(a, sig, At)
  \/ \E rs \in RuleSets : SetRules(rs)
  \/ RiskTick

RiskSpec == RiskInit /\ [][RiskNext]_riskVars

-------------------------------------------------------------------------------
(* Properties *)

\* What a rule asks for, on the whole history and not on the pruned list.
InLastWindow(r) == {j \in DOMAIN last.seen : last.seen[j].at >= last.at - Window(r)}
Due(r) ==
  /\ Cardinality(InLastWindow(r)) >= Threshold(r)
  /\ \E j \in InLastWindow(r) : SignalIn(r.signals, last.seen[j].sig)

Chronological(list) == \A i, j \in DOMAIN list : i < j => list[i].at <= list[j].at

\* RecordViolation acts on an agent only for violations of its own, as many as
\* the rule asks for within its window and none counted twice; and it acts on
\* every one that is due under a rule, provided no other rule has a shorter
\* window, by which the shared list was pruned, and the violations came in order.
RiskRulesEnforced ==
  /\ last.rule # 0 => Due(rules[last.rule])
  /\ \A i \in DOMAIN rules :
       (/\ last.seen # <<>> /\ Chronological(last.seen)
        /\ Due(rules[i])
        /\ \A k \in DOMAIN rules : Window(rules[k]) >= Window(rules[i]))
       => last.rule # 0
===============================================================================
