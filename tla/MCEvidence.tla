------------------------------ MODULE MCEvidence ------------------------------
(* Two requests.  For the directory verifier the first is decided over two   *)
(* sources and the second without an operation to decide; for the exporter   *)
(* each is decided over one.  i3 is a decision of somebody else's.           *)
EXTENDS EvidenceExport, TLC

CONSTANTS r1, r2, i1, i2, i3, pepKey, otherKey

Signed ==
  [signer |-> None, sign |-> None, keyFile |-> pepKey, requireSignature |-> TRUE,
   profile |-> "clc-decision+admission+outcome@1", recorder |-> "pep", emitOutcome |-> FALSE,
   strict |-> FALSE, audit |-> FALSE, plugins |-> FALSE,
   load |-> r1 :> <<i1, i2>> @@ r2 :> <<>>, reader |-> "verifier"]
Exporting == [Signed EXCEPT !.audit = TRUE, !.strict = TRUE, !.reader = "exporter",
                            !.load = r1 :> <<i1>> @@ r2 :> <<i2>>]

\* A deployment that asks for signatures and has no key is never built.
Unbuildable == [Signed EXCEPT !.keyFile = None]

\* The credential and the authorization of its principal grant the same: both
\* sources of r1 freeze the same input.
Alike == [Exporting EXCEPT !.load = r1 :> <<i1, i1>> @@ r2 :> <<>>]

MCDeployments == {Signed, Exporting, Alike, Unbuildable}
MCQueries == {[op |-> None, handed |-> None], [op |-> r1, handed |-> None], [op |-> r1, handed |-> i2]}

\* Plugins that log their decisions, and a query by agent.
PluginDeployments == {[Exporting EXCEPT !.plugins = TRUE]}
PluginQueries == {[op |-> None, handed |-> None]}
===============================================================================
