-------------------------- MODULE MCSupervisionStore --------------------------
(* Three kinds of initial states: a store that is opened over the files of  *)
(* an earlier process and records; logs of up to four entries as they may   *)
(* be found on disk, out of order and with a fragment, to be read back; an  *)
(* empty chain to be sealed.                                                *)
EXTENDS SupervisionStore, TLC

CONSTANTS f1, f2, f3, f4, f5, s1, s2, r1, r2, x, y

MCInodes == {f1, f2, f3, f4, f5}
MCBatches == {<<>>, <<x>>, <<y, x>>, <<x, x, y>>, <<y, y, x, x, y>>}
MCLeaves == {x, y}
MCFilters == {1 .. 10, {1, 2, 4, 6}}

LineOf(e, n) == [ev |-> e, len |-> n, whole |-> TRUE]
NoFailure == [c \in Calls |-> 0]
Nowhere == [i \in 0 .. MaxBak |-> None]
Budget(events, starts, queries, archives) ==
  [events |-> events, starts |-> starts, queries |-> queries, archives |-> archives]

Recording ==
  {[data |-> f1 :> <<LineOf(2, 3)>> @@ f2 :> <<LineOf(1, 2)>> @@ [f \in MCInodes |-> <<>>],
    dir |-> [Nowhere EXCEPT ![0] = f1, ![1] = f2],
    acked |-> <<1, 2>>, stamp |-> 2, failed |-> NoFailure, seals |-> 0,
    left |-> Budget(3, 2, 1, 1)]}

\* Logs with the entries in the order p, and a fragment after entry t (0: none).
Orders == UNION {{p \in [1 .. n -> 1 .. n] : \A i, j \in 1 .. n : i # j => p[i] # p[j]} : n \in 0 .. 4}
Logs == UNION {{<<p, l, t>> : l \in [DOMAIN p -> {Unsigned, Signed}], t \in 0 .. Len(p)} : p \in Orders}
LogFile(log) ==
  LET lines == [i \in DOMAIN log[1] |-> LineOf(log[1][i], log[2][i])]
  IN IF log[3] = 0 THEN lines
     ELSE SubSeq(lines, 1, log[3]) \o <<[ev |-> Len(lines) + 1, len |-> 1, whole |-> FALSE]>>
          \o SubSeq(lines, log[3] + 1, Len(lines))
Reading ==
  {[data |-> f1 :> LogFile(log) @@ [f \in MCInodes |-> <<>>],
    dir |-> [Nowhere EXCEPT ![0] = f1],
    acked |-> log[1], stamp |-> Len(log[1]) + 1,
    failed |-> [NoFailure EXCEPT !["write"] = IF log[3] = 0 THEN 0 ELSE 1], seals |-> 0,
    left |-> Budget(0, 0, 0, 0)] : log \in Logs}

Sealing ==
  {[data |-> [f \in MCInodes |-> <<>>], dir |-> Nowhere,
    acked |-> <<>>, stamp |-> 0, failed |-> NoFailure, seals |-> 4,
    left |-> Budget(0, 0, 0, 0)]}

MCScenarios == Recording \cup Reading \cup Sealing
===============================================================================
