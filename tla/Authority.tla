------------------------------- MODULE Authority -------------------------------
(***************************************************************************)
(* The environment of the revocation caches (external): the clock, and the *)
(* moment the certification authority revokes the one certificate that is  *)
(* followed.  Responders and distribution points may serve statements that *)
(* are old; what they state was true when it was issued.                   *)
(***************************************************************************)
EXTENDS Naturals

CONSTANTS
  MaxTime,    \* bound on the clock
  Validity    \* longest time between thisUpdate and nextUpdate

ASSUME AuthorityAssumption == MaxTime \in Nat \ {0, 1} /\ Validity \in Nat \ {0}

Zero == 0                \* time.Time{}: before every reading of the clock
Never == MaxTime + 1     \* a certificate that is not revoked

VARIABLES
  now,        \* time.Now()
  revokedAt   \* when the certificate is revoked, fixed for a behaviour

Times == 1 .. MaxTime

\* The truth at time t, which a statement issued at t reflects.
RevokedBy(t) == revokedAt <= t

\* Statements older than the process exist when it starts.
AuthorityInit == now = 2 /\ revokedAt \in Times \cup {Never}

Advance == now < MaxTime /\ now' = now + 1
===============================================================================
