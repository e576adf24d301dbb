----------------------------- MODULE Capabilities -----------------------------
(***************************************************************************)
(* Capability ids and how they match: MatchCapability (policy.go) and the  *)
(* operators decision.go builds on it.  An id is the sequence of its       *)
(* characters and may be read as a pattern or as the text that a pattern   *)
(* is compared with.  Character classes and escapes of a pattern, which    *)
(* narrow what "?" takes, are left out.                                    *)
(***************************************************************************)
EXTENDS Naturals, Sequences, FiniteSets

CONSTANTS
  Letters,   \* the characters without a meaning of their own
  MaxLen     \* bound on the length of an id

Wildcards == {"*", "?"}
Chars == Letters \cup {":", "/"} \cup Wildcards

ASSUME CapabilitiesAssumption ==
  Letters \cap ({":", "/"} \cup Wildcards) = {} /\ MaxLen \in Nat \ {0}

\* An id, and a capability: an id within an optional scheme.
Ids == UNION {[1 .. n -> Chars] : n \in 1 .. MaxLen}
NoScheme == <<>>
Capability == [scheme : Ids \cup {NoScheme}, id : Ids]

HasPrefix(id, prefix) ==
  Len(id) >= Len(prefix) /\ \A k \in 1 .. Len(prefix) : id[k] = prefix[k]

\* What one character of a pattern takes of a text, its characters after the
\* first f up to t: "*" any but "/", "?" one of these, another itself.
Takes(c, id, f, t) ==
  \/ c = "*" /\ f <= t /\ \A k \in f + 1 .. t : id[k] # "/"
  \/ c = "?" /\ t = f + 1 /\ id[t] # "/"
  \/ c \notin Wildcards /\ t = f + 1 /\ id[t] = c

\* filepath.Match.  The n-th set has the lengths of the beginnings of id that
\* the first n characters of the pattern take.
Taken(pattern, id) ==
  LET T[n \in 0 .. Len(pattern)] ==
        IF n = 0 THEN {0}
        ELSE {t \in 0 .. Len(id) : \E f \in T[n - 1] : Takes(pattern[n], id, f, t)}
  IN T
FilepathMatch(pattern, id) == Len(id) \in Taken(pattern, id)[Len(pattern)]

\* "a:b:*"
TrailingStar(pattern) ==
  /\ Len(pattern) >= 2
  /\ pattern[Len(pattern)] = "*" /\ pattern[Len(pattern) - 1] = ":"

\* Equal, the global wildcard, a glob, or the prefix before a trailing wildcard.
MatchCapability(id, pattern) ==
  \/ id = pattern
  \/ pattern = <<"*">>
  \/ FilepathMatch(pattern, id)
  \/ TrailingStar(pattern) /\ HasPrefix(id, SubSeq(pattern, 1, Len(pattern) - 1))

\* Some declared capability, with or without its scheme, matches the request.
AicCapabilityMatches(caps, req) ==
  \E c \in caps :
    \/ MatchCapability(req, c.id)
    \/ c.scheme # NoScheme /\ MatchCapability(req, c.scheme \o <<":">> \o c.id)

GrantIds(grants) == {g.id : g \in grants}

\* The declarations that hit a grant: the declaration is the pattern.
EffectiveCapabilities(declared, grants) ==
  {c \in declared : \E g \in grants : AicCapabilityMatches({c}, g)}
===============================================================================
