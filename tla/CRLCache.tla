------------------------------- MODULE CRLCache -------------------------------
(***************************************************************************)
(* crl.go: the certificate revocation list of one CA, refreshed by the     *)
(* loop of Start and by ForceRefresh, read by IsRevoked and IsRevokedCert. *)
(* refreshMu is held from the request to the commit, so one refresh is     *)
(* under way at a time whoever asked for it; mu protects only the commit   *)
(* and the reads, which are single steps here.  A refresh that fails (no   *)
(* answer, a list that cannot be parsed, another issuer, a bad signature)  *)
(* changes nothing and Start tries again later; a loop that is stopped is  *)
(* one that takes no further step.                                         *)
(***************************************************************************)
EXTENDS Authority

\* What the cache keeps of a list: its update times and whether it lists the
\* certificate.
List == [this : {Zero} \cup Times, next : 0 .. MaxTime + Validity, lists : BOOLEAN]

VARIABLES
  crl,      \* thisUpdate, nextUpdate and revoked
  fetched   \* the verified list of the refresh that holds refreshMu, or Nothing

crlVars == <<crl, fetched>>

Nothing == [this |-> Zero, next |-> Zero, lists |-> FALSE]

\* NewCRLCache: no list, and a zero nextUpdate that has always passed.
CRLInit == crl = Nothing /\ fetched = Nothing

\* A list the distribution point may serve now (external): any issued so far.
Served(list) ==
  /\ list.this \in 1 .. now
  /\ list.next = list.this + Validity
  /\ list.lists = RevokedBy(list.this)

\* refresh takes refreshMu; download, parsing, issuer and signature check succeed.
RefreshFetch ==
  /\ fetched = Nothing
  /\ fetched' \in {list \in List : Served(list)}
  /\ UNCHANGED crl

\* Plausible bug: the cached list is replaced whatever its thisUpdate.
MutantNewer(list) == TRUE

\* A list is in force only if it is newer than the one before, if there is one.
Newer(list) == list.this > crl.this \/ crl.this = Zero

RefreshCommit ==
  /\ fetched # Nothing
  /\ crl' = IF Newer(fetched) THEN fetched ELSE crl
  /\ fetched' = Nothing

\* Plausible bug: a list that has run out is still believed.
MutantExpired == crl.this = Zero

\* IsRevoked and IsRevokedCert fail when the list has run out, or was never there.
Expired == now > crl.next

\* IsRevoked looks the issuer's name up as a string, IsRevokedCert accepts a name
\* whose parts are ordered differently and keys on the CA's own string.
IsRevoked(name) ==
  CASE Expired -> "error"
    [] ~Expired -> IF name = "same" /\ crl.lists THEN "revoked" ELSE "no"

IsRevokedCert(name) ==
  CASE Expired -> "error"
    [] ~Expired -> IF name \in {"same", "reordered"} /\ crl.lists THEN "revoked" ELSE "no"

CRLStep == RefreshFetch \/ RefreshCommit
===============================================================================
