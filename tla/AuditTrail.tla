------------------------------ MODULE AuditTrail ------------------------------
(***************************************************************************)
(* What the audit log promises, without channels, locks or goroutines.     *)
(* Entries are accepted in some order; one after the other, in that order, *)
(* each accepted entry is settled: it becomes a line of the trail, with a  *)
(* timestamp token over that very entry or with none, or its write fails.  *)
(* The trail is shut once, after every accepted entry is settled, and      *)
(* nothing is accepted afterwards.  AuditLogger implements this module.    *)
(***************************************************************************)
EXTENDS Naturals, Sequences

CONSTANTS
  Entries,   \* the audit entries
  NoEntry    \* "no token": not an entry

VARIABLES
  accepted,  \* entries in the order they were accepted
  settled,   \* how many of them have been written or failed
  trail,     \* the lines of the file
  failed,    \* accepted entries whose write failed
  open       \* the file has not been closed

trailVars == <<accepted, settled, trail, failed, open>>

TrailInit ==
  /\ accepted = <<>>
  /\ settled = 0
  /\ trail = <<>>
  /\ failed = {}
  /\ open = TRUE

Accept(e) ==
  /\ open
  /\ \A i \in DOMAIN accepted : accepted[i] # e
  /\ accepted' = Append(accepted, e)
  /\ UNCHANGED <<settled, trail, failed, open>>

Settle ==
  /\ open
  /\ settled < Len(accepted)
  /\ settled' = settled + 1
  /\ LET e == accepted[settled + 1] IN
     \/ /\ \E token \in {e, NoEntry} :
             trail' = Append(trail, [entry |-> e, tst |-> token])
        /\ UNCHANGED failed
     \/ /\ failed' = failed \cup {e}
        /\ UNCHANGED trail
  /\ UNCHANGED <<accepted, open>>

Shut ==
  /\ open
  /\ settled = Len(accepted)
  /\ open' = FALSE
  /\ UNCHANGED <<accepted, settled, trail, failed>>

TrailNext ==
  \/ \E e \in Entries : Accept(e)
  \/ Settle
  \/ Shut

TrailSpec == TrailInit /\ [][TrailNext]_trailVars
===============================================================================
