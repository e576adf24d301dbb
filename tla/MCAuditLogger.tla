----------------------------- MODULE MCAuditLogger -----------------------------
(* Instances of AuditLogger for TLC: three Log calls, two of them critical, *)
(* so that overflow, waiting, hand-off, timeout, late TSA answers and the   *)
(* races with two Close calls all happen.                                   *)
EXTENDS AuditLogger, TLC

CONSTANTS k1, k2, o1, c1, c2

MCEntries  == {k1, k2, o1}
MCCritical == {k1, k2}
MCClosers  == {c1, c2}

PairEntries  == {k1, o1}
PairCritical == {k1}
MCSymmetry == Permutations({k1, k2}) \cup Permutations({c1, c2})
===============================================================================
