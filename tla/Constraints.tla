------------------------------ MODULE Constraints ------------------------------
(***************************************************************************)
(* authorizationConstraints (constraints.go, decision.go): the registries  *)
(* of evaluators, the built-in evaluators, the two checks of an admission  *)
(* and ConstraintRecheckLoop, which looks at an open session again at      *)
(* every tick.  Evaluators are looked up one constraint at a time, so the  *)
(* registry may change within a check; the time is read once per check.    *)
(***************************************************************************)
EXTENDS Integers, Sequences

CONSTANTS
  Constraints,     \* name -> [own : BOOLEAN, type, p]; own: the constraint scheme
  Sessions,        \* [pa, aic : Seq(names), ip, strict : BOOLEAN, registry]
  Custom,          \* the constraint types an application may add
  Changing,        \* the types whose evaluators an application may change
  Nowhere,         \* no client IP was given
  Unparsable,      \* what a CIDR that does not parse contains
  Resolvers, Regions,
  Day,             \* time units per day
  RecheckEvery,    \* the interval given to ConstraintRecheckLoop
  DefaultInterval, \* used for an interval that is not positive
  MaxChanges       \* bound on registry changes

BuiltinOrder == <<"network:cidr", "time:window", "session:max-concurrent",
                  "session:hard-timeout", "session:idle-timeout", "op:readonly",
                  "op:audit:required", "geo-fence">>
Builtin == {BuiltinOrder[k] : k \in 1 .. Len(BuiltinOrder)}
Types == Builtin \cup Custom
Absent == "absent"
BadNet == {Unparsable}
Interval == IF RecheckEvery <= 0 THEN DefaultInterval ELSE RecheckEvery

\* parseTimeParts takes hours and minutes of one day only.
ASSUME ConstraintsAssumption ==
  /\ Day \in Nat \ {0} /\ DefaultInterval \in Nat \ {0} /\ RecheckEvery \in Int /\ MaxChanges \in Nat
  /\ \A name \in DOMAIN Constraints : Constraints[name].type = "time:window" =>
       LET w == Constraints[name].p
       IN w.start \in 0 .. Day - 1 /\ w.end \in 0 .. Day - 1 /\ w.tz \in Int
  /\ \A s \in Sessions : {s.pa, s.aic} \subseteq Seq(DOMAIN Constraints)

VARIABLES
  now,        \* time of day, UTC
  regs,       \* [registry -> [type -> evaluator]]: "global" and "deployment"
  resetting,  \* what ResetConstraints has still to register
  resolvers,  \* [resolver -> the region it finds for the client, or Absent]
  changes,    \* registry changes so far
  sess,       \* the session
  at,         \* where it is: see the checks below
  todo,       \* the constraints the check under way has still to look at
  stamp,      \* the time that check uses
  due,        \* time to the next tick of the loop
  open,       \* the connection is open
  over        \* [name -> for how long it has been open against that constraint]

registryVars == <<regs, resetting, resolvers, changes>>
sessionVars == <<sess, at, todo, stamp, due, open>>
constraintVars == <<now, registryVars, sessionVars, over>>

-------------------------------------------------------------------------------
(* Evaluators *)

InWindow(t, w) ==
  IF w.start <= w.end THEN w.start <= t /\ t < w.end
                      ELSE w.start <= t \/ t < w.end

\* In order: the first network that contains the address, unless one before
\* it does not parse.
ReachesHit(nets, ip) ==
  \E k \in 1 .. Len(nets) :
    ip \in nets[k] /\ \A j \in 1 .. k - 1 : nets[j] # BadNet
CidrHolds(nets, ip) == nets = <<>> \/ (ip # Nowhere /\ ReachesHit(nets, ip))

\* An inline table is walked region by region in an order the runtime picks:
\* a bad network of an earlier region hides a hit in a later one.
Orders(n) == {o \in [1 .. n -> 1 .. n] : \A i, j \in 1 .. n : i # j => o[i] # o[j]}
TableHit(table, o, ip) ==
  \E i \in 1 .. Len(table) :
    /\ ReachesHit(table[o[i]], ip)
    /\ \A j \in 1 .. i - 1 : \A k \in 1 .. Len(table[o[j]]) : table[o[j]][k] # BadNet
GeoVerdicts(p, ip) ==
  IF ip = Nowhere THEN {FALSE}
  ELSE IF p.resolver = "inline"
  THEN {TableHit(p.table, o, ip) : o \in Orders(Len(p.table))}
  ELSE {resolvers[p.resolver] \in p.regions}

\* Numeric parameters must be given and in range; max-concurrent may be missing.
InRange(type, p) ==
  CASE type = "session:max-concurrent" -> p \subseteq 1 .. 1024
    [] type = "session:hard-timeout"   -> p # {} /\ p \subseteq 60 .. 86400
    [] type = "session:idle-timeout"   -> p # {} /\ p \subseteq 30 .. 3600

\* What the evaluator of constraint c may answer; an application's own accepts
\* or refuses.  op:readonly only has to parse.
Verdicts(evaluator, c, ip, t) ==
  IF evaluator # "builtin" THEN {evaluator = "accepts"}
  ELSE CASE c.type = "time:window"       -> {InWindow((t + c.p.tz) % Day, c.p)}
         [] c.type = "network:cidr"      -> {CidrHolds(c.p, ip)}
         [] c.type = "geo-fence"         -> GeoVerdicts(c.p, ip)
         [] c.type = "op:readonly"       -> {c.p # {Unparsable}}
         [] c.type = "op:audit:required" -> {TRUE}
         [] OTHER                        -> {InRange(c.type, c.p)}

\* checkConstraintsReg on one constraint: a foreign scheme is refused, an
\* unknown type is passed over.
Answers(registry, name, ip, t) ==
  LET c == Constraints[name]
      evaluator == regs[registry][c.type]
  IN IF ~c.own THEN {FALSE}
     ELSE IF evaluator = Absent THEN {TRUE} ELSE Verdicts(evaluator, c, ip, t)

UnknownType(registry, name) ==
  Constraints[name].own /\ regs[registry][Constraints[name].type] = Absent

-------------------------------------------------------------------------------
(* Registries *)

NoOverstay == [name \in DOMAIN Constraints |-> 0]
ConstraintInit ==
  /\ now = 0
  /\ regs = [r \in {"global", "deployment"} |->
               [t \in Types |-> IF t \in Builtin THEN "builtin" ELSE Absent]]
  /\ resetting = <<>> /\ resolvers = [r \in Resolvers |-> Absent] /\ changes = 0
  /\ sess = [pa |-> <<>>, aic |-> <<>>, ip |-> Nowhere, strict |-> FALSE, registry |-> "global"]
  /\ at = "new" /\ todo = <<>> /\ stamp = 0 /\ due = 0 /\ open = FALSE /\ over = NoOverstay

\* The reference: a constraint of the session, in force in the registry that
\* the loop uses, that no reading of it satisfies at this moment.
WindowMinutes(w) == {(w.start + k) % Day : k \in 0 .. ((w.end - w.start) % Day) - 1}
Violated(name) ==
  LET c == Constraints[name]
      evaluator == regs["global"][c.type]
  IN \/ ~c.own
     \/ evaluator = "refuses"
     \/ /\ evaluator = "builtin"
        /\ CASE c.type = "time:window"  -> (now + c.p.tz) % Day \notin WindowMinutes(c.p)
             [] c.type = "network:cidr" ->
                  c.p # <<>> /\ \A k \in 1 .. Len(c.p) : sess.ip \notin c.p[k]
             [] c.type = "geo-fence" ->
                  IF c.p.resolver = "inline"
                  THEN \A r \in 1 .. Len(c.p.table) :
                         \A k \in 1 .. Len(c.p.table[r]) : sess.ip \notin c.p.table[r][k]
                  ELSE resolvers[c.p.resolver] \notin c.p.regions
             [] OTHER -> FALSE
Overstays(name) ==
  /\ open
  /\ \E l \in {sess.pa, sess.aic} : \E k \in 1 .. Len(l) : l[k] = name
  /\ Violated(name)

\* The overstay ends as soon as the constraint is satisfied or not in force.
Lasting(n) ==
  over' = [name \in DOMAIN over |->
             IF Overstays(name) /\ Overstays(name)' THEN over[name] + n ELSE 0]

Change(r, t, evaluator) ==
  /\ changes < MaxChanges
  /\ changes' = changes + 1
  /\ regs' = [regs EXCEPT ![r][t] = evaluator]
  /\ UNCHANGED <<now, resetting, resolvers, sessionVars>>
  /\ Lasting(0)

\* Register refuses a type that is there; Replace does not.
Register(r, t, evaluator) == regs[r][t] = Absent /\ Change(r, t, evaluator)
Replace(r, t, evaluator) == Change(r, t, evaluator)
\* Only a deployment's own registry can be reached to remove a type.
Remove(t) == Change("deployment", t, Absent)

\* ResetConstraints: clear, then register the built-in types one by one.
Reset ==
  /\ resetting = <<>> /\ changes < MaxChanges
  /\ changes' = changes + 1
  /\ regs' = [regs EXCEPT !["global"] = [t \in Types |-> Absent]]
  /\ resetting' = BuiltinOrder
  /\ UNCHANGED <<now, resolvers, sessionVars>>
  /\ Lasting(0)
Reregister ==
  /\ resetting # <<>>
  /\ resetting' = Tail(resetting)
  /\ regs' = [regs EXCEPT !["global"][Head(resetting)] = IF @ = Absent THEN "builtin" ELSE @]
  /\ UNCHANGED <<now, resolvers, changes, sessionVars>>
  /\ Lasting(0)

RegisterGeoResolver(r, region) ==
  /\ changes < MaxChanges
  /\ changes' = changes + 1
  /\ resolvers' = [resolvers EXCEPT ![r] = region]
  /\ UNCHANGED <<now, regs, resetting, sessionVars>>
  /\ Lasting(0)

-------------------------------------------------------------------------------
(* Admission: PA constraints, then strictness; AIC strictness, then constraints *)

Goto(place, list) ==
  /\ at' = place /\ todo' = list
  /\ stamp' = IF place \in {"aic", "recheckAIC", "recheckPA"} THEN now ELSE stamp
  /\ UNCHANGED <<now, registryVars, sess>>

\* The next constraint of the check under way is passed over or answered.
Passed(place, registry) ==
  /\ at = place /\ todo # <<>>
  /\ TRUE \in Answers(registry, Head(todo), sess.ip, stamp)
  /\ todo' = Tail(todo)
  /\ UNCHANGED <<now, registryVars, sess, at, stamp, due, open, over>>
Failed(place, registry) ==
  /\ at = place /\ todo # <<>>
  /\ FALSE \in Answers(registry, Head(todo), sess.ip, stamp)
Done(place) == at = place /\ todo = <<>>

Keep == UNCHANGED <<due, open, over>>
Refuse == Goto("refused", <<>>) /\ Keep
Unknown(list) == sess.strict /\ \E k \in 1 .. Len(list) : UnknownType(sess.registry, list[k])

Admit(s) ==
  /\ at = "new"
  /\ sess' = s /\ at' = "pa" /\ todo' = s.pa /\ stamp' = now
  /\ UNCHANGED <<now, registryVars, due, open, over>>
CheckPA ==
  \/ Passed("pa", sess.registry)
  \/ Failed("pa", sess.registry) /\ Refuse
  \/ Done("pa") /\ Unknown(sess.pa) /\ Refuse
  \/ Done("pa") /\ ~Unknown(sess.pa) /\ Goto("strict", <<>>) /\ Keep
CheckAIC ==
  \/ at = "strict" /\ Unknown(sess.aic) /\ Refuse
  \/ at = "strict" /\ ~Unknown(sess.aic) /\ Goto("aic", sess.aic) /\ Keep
  \/ Passed("aic", sess.registry)
  \/ Failed("aic", sess.registry) /\ Refuse

\* The gateway opens the connection and starts the loop.
Open ==
  /\ Done("aic")
  /\ Goto("select", <<>>)
  /\ open' = TRUE /\ due' = Interval /\ over' = NoOverstay

-------------------------------------------------------------------------------
(* ConstraintRecheckLoop *)

\* Plausible bug: the constraints of the PrincipalAuthorization are forgotten.
MutantRecheckPA ==
  Done("recheckAIC") /\ Goto("recheckPA", <<>>) /\ Keep

RecheckPA == Done("recheckAIC") /\ Goto("recheckPA", sess.pa) /\ Keep

\* onViolation: the gateway disconnects.
Cut == Goto("stopped", <<>>) /\ open' = FALSE /\ over' = NoOverstay /\ UNCHANGED due

Recheck ==
  \/ at = "select" /\ due = 0 /\ Goto("recheckAIC", sess.aic) /\ Keep
  \/ Passed("recheckAIC", "global")
  \/ Failed("recheckAIC", "global") /\ Cut
  \/ RecheckPA
  \/ Passed("recheckPA", "global")
  \/ Failed("recheckPA", "global") /\ Cut
  \/ /\ Done("recheckPA")
     /\ Goto("select", <<>>)
     /\ due' = Interval /\ UNCHANGED <<open, over>>

\* The peer is gone and done is closed: select may still take a tick first.
Disconnect ==
  /\ open
  /\ open' = FALSE /\ over' = NoOverstay
  /\ UNCHANGED <<now, registryVars, sess, at, todo, stamp, due>>
DoneClosed == at = "select" /\ ~open /\ Goto("stopped", <<>>) /\ Keep

\* Time passes.  A tick is served, and its recheck done, within the unit of
\* time in which it is due.
Tick ==
  /\ at \notin {"recheckAIC", "recheckPA"}
  /\ at = "select" => due > 0
  /\ now' = (now + 1) % Day
  /\ due' = IF at = "select" THEN due - 1 ELSE due
  /\ UNCHANGED <<registryVars, sess, at, todo, stamp, open>>
  /\ Lasting(1)

ConstraintNext ==
  \/ \E r \in DOMAIN regs, t \in Changing, evaluator \in {"accepts", "refuses"} :
       Register(r, t, evaluator) \/ Replace(r, t, evaluator)
  \/ \E t \in Changing : Remove(t)
  \/ Reset \/ Reregister
  \/ \E r \in Resolvers, region \in Regions : RegisterGeoResolver(r, region)
  \/ \E s \in Sessions : Admit(s)
  \/ CheckPA \/ CheckAIC \/ Open \/ Recheck \/ Disconnect \/ DoneClosed \/ Tick

ConstraintSpec == ConstraintInit /\ [][ConstraintNext]_constraintVars

-------------------------------------------------------------------------------
(* Properties *)

\* "Constraint timing consistency": whatever the registries looked like during
\* admission and however its checks were overtaken by the clock, a connection
\* is not open for longer than one interval of the loop against a constraint
\* that was in force in the global registry all that time.
OverstayBounded == \A name \in DOMAIN over : over[name] <= Interval
===============================================================================
