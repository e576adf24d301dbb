--------------------------- MODULE GovernanceProofs ---------------------------
(***************************************************************************)
(* What the people who run the system rely on, for every value of the      *)
(* constants: AcceptedIsDelegated for every set of keys, delegations and   *)
(* chains; OverstayBounded for every set of constraints, sessions and      *)
(* evaluators; for any number of admissions, reloads, health probes and    *)
(* policies what a probe may report and which policy decides; and          *)
(* RiskRulesEnforced for every list of rules and violations.               *)
(***************************************************************************)
EXTENDS DelegationChain, Constraints, Admin, RiskMonitor, FiniteSetTheorems, TLAPS

-------------------------------------------------------------------------------
(* Induction over the natural numbers, for sets *)

\* A nonempty set of natural numbers has a least element.
LEMMA SmallestIn ==
  ASSUME NEW T, T \subseteq Nat, T # {}
  PROVE  \E n \in T : \A m \in T : n <= m
  <1> DEFINE R == {p \in Nat \X Nat : p[1] < p[2]}
  <1>1. IsWellFoundedOn(R, Nat)
    BY NatLessThanWellFounded DEF OpToRel
  <1>2. \A m, n \in Nat : ~(<<m, n>> \in R) => n <= m
    OBVIOUS
  <1> HIDE DEF R
  <1>3. \E n \in T : \A m \in T : ~(<<m, n>> \in R)
    BY <1>1, WFMin
  <1>4. QED
    BY <1>2, <1>3

\* What holds of 0 and passes from n to n + 1 holds of every number.
LEMMA SetInduction ==
  ASSUME NEW T, 0 \in T, \A n \in Nat : n \in T => n + 1 \in T
  PROVE  \A n \in Nat : n \in T
  <1> SUFFICES ASSUME Nat \ T # {} PROVE FALSE
    OBVIOUS
  <1>1. PICK n \in Nat \ T : \A m \in Nat \ T : n <= m
    BY SmallestIn
  <1>2. n # 0
    OBVIOUS
  <1>3. n - 1 \in Nat /\ (n - 1) + 1 = n
    BY <1>2
  <1>4. n - 1 \in T
    BY <1>1, <1>3
  <1>5. QED
    BY <1>3, <1>4

-------------------------------------------------------------------------------
(* Capabilities *)

\* An id is a nonempty sequence of at most MaxLen characters.
LEMMA IdShape ==
  ASSUME NEW s \in Ids
  PROVE  s \in Seq(Chars) /\ Len(s) \in Nat /\ Len(s) >= 1 /\ Len(s) <= MaxLen
<1>1. PICK n \in 1 .. MaxLen : s \in [1 .. n -> Chars]
  BY DEF Ids
<1>2. n \in Nat /\ n >= 1 /\ n <= MaxLen
  BY <1>1, CapabilitiesAssumption
<1>3. s \in Seq(Chars) /\ Len(s) = n
  BY <1>1, <1>2
<1>4. QED
  BY <1>2, <1>3

\* s starts with the first q characters of p.
Begins(s, p, q) == Len(s) >= q /\ \A k \in 1 .. q : s[k] = p[k]

\* Taken is the function that its recursion describes: it is the restriction to
\* the pattern's positions of one that is built up number by number.
TakenFrom(T, p, s, n) ==
  /\ T[0] = {0}
  /\ \A m \in 1 .. n : T[m] = {t \in 0 .. Len(s) : \E f \in T[m - 1] : Takes(p[m], s, f, t)}
LEMMA TakenOf ==
  ASSUME NEW p, NEW s, Len(p) \in Nat
  PROVE  TakenFrom(Taken(p, s), p, s, Len(p))
<1> DEFINE next(T, m) == {t \in 0 .. Len(s) : \E f \in T[m - 1] : Takes(p[m], s, f, t)}
           upTo == {n \in Nat : \E T : /\ T \in [0 .. n -> SUBSET (0 .. Len(s)) \cup {{0}}]
                                       /\ TakenFrom(T, p, s, n)}
<1>1. 0 \in upTo
  <2>1. [m \in 0 .. 0 |-> {0}] \in [0 .. 0 -> SUBSET (0 .. Len(s)) \cup {{0}}]
    OBVIOUS
  <2>2. TakenFrom([m \in 0 .. 0 |-> {0}], p, s, 0)
    BY DEF TakenFrom
  <2>3. QED
    BY <2>1, <2>2
<1>2. ASSUME NEW n \in Nat, n \in upTo PROVE n + 1 \in upTo
  <2>1. PICK T : T \in [0 .. n -> SUBSET (0 .. Len(s)) \cup {{0}}] /\ TakenFrom(T, p, s, n)
    BY <1>2
  <2> DEFINE U == [m \in 0 .. n + 1 |-> IF m = n + 1 THEN next(T, n + 1) ELSE T[m]]
  <2>2. next(T, n + 1) \in SUBSET (0 .. Len(s))
    OBVIOUS
  <2>3. U \in [0 .. n + 1 -> SUBSET (0 .. Len(s)) \cup {{0}}]
    <3> HIDE DEF next
    <3>1. QED
      BY <2>1, <2>2
  <2>4. U[0] = {0}
    <3> HIDE DEF next
    <3>1. QED
      BY <2>1 DEF TakenFrom
  <2>5. ASSUME NEW m \in 1 .. n + 1 PROVE U[m] = next(U, m)
    <3>1. m \in Nat /\ m - 1 \in 0 .. n /\ m \in 0 .. n + 1 /\ m - 1 # n + 1
      BY <2>5
    <3>2. U[m - 1] = T[m - 1]
      BY <3>1
    <3>3. next(U, m) = next(T, m)
      <4> HIDE DEF U
      <4>1. QED
        BY <3>2
    <3>4. m \in 1 .. n => T[m] = next(T, m)
      BY <2>1 DEF TakenFrom
    <3>5. U[m] = next(T, m)
      <4> HIDE DEF next
      <4>1. QED
        BY <2>5, <3>1, <3>4
    <3>6. QED
      BY <3>3, <3>5
  <2>6. TakenFrom(U, p, s, n + 1)
    <3> HIDE DEF U
    <3>1. QED
      BY <2>4, <2>5 DEF TakenFrom
  <2>7. QED
    <3> HIDE DEF U
    <3>1. QED
      BY <2>3, <2>6
<1>3. Len(p) \in upTo
  <2> HIDE DEF upTo
  <2>1. QED
    BY <1>1, <1>2, SetInduction
<1> DEFINE Is(T) == T = [n \in 0 .. Len(p) |-> IF n = 0 THEN {0} ELSE next(T, n)]
<1>4. \E T : Is(T)
  <2>1. PICK T : T \in [0 .. Len(p) -> SUBSET (0 .. Len(s)) \cup {{0}}] /\ TakenFrom(T, p, s, Len(p))
    BY <1>3
  <2> DEFINE F == [n \in 0 .. Len(p) |-> IF n = 0 THEN {0} ELSE next(T, n)]
  <2>2. ASSUME NEW n \in 0 .. Len(p) PROVE T[n] = F[n]
    <3>1. n # 0 => n \in 1 .. Len(p)
      OBVIOUS
    <3>2. n \in 1 .. Len(p) => T[n] = next(T, n)
      BY <2>1 DEF TakenFrom
    <3> HIDE DEF next
    <3>3. QED
      BY <2>1, <3>1, <3>2 DEF TakenFrom
  <2>3. T = F
    <3>1. T = [n \in 0 .. Len(p) |-> T[n]]
      BY <2>1
    <3>2. QED
      BY <2>2, <3>1
  <2>4. QED
    BY <2>3
<1>5. Is(Taken(p, s))
  <2>1. Taken(p, s) = CHOOSE T : Is(T)
    BY DEF Taken
  <2> HIDE DEF Is
  <2>2. QED
    BY <1>4, <2>1
<1>6. ASSUME NEW n \in 0 .. Len(p) PROVE Taken(p, s)[n] = IF n = 0 THEN {0} ELSE next(Taken(p, s), n)
  <2> HIDE DEF next
  <2>1. QED
    BY <1>5
<1>7. Taken(p, s)[0] = {0}
  <2> HIDE DEF next
  <2>1. QED
    BY <1>6
<1>8. ASSUME NEW m \in 1 .. Len(p) PROVE Taken(p, s)[m] = next(Taken(p, s), m)
  <2>1. m \in 0 .. Len(p) /\ m # 0
    OBVIOUS
  <2> HIDE DEF next
  <2>2. QED
    BY <1>6, <2>1
<1>9. QED
  BY <1>7, <1>8 DEF TakenFrom

\* A glob fixes the characters before its first wildcard, and all of them if it
\* has none.
LEMMA GlobBegins ==
  ASSUME NEW p \in Ids, NEW s \in Ids, FilepathMatch(p, s),
         NEW q \in Nat, q <= Len(p), Plain(p, q)
  PROVE  Begins(s, p, q) /\ (q = Len(p) => Len(s) = Len(p))
<1>1. Len(p) \in Nat /\ Len(s) \in Nat
  BY IdShape
<1> DEFINE T == Taken(p, s)
           shape(n, t) == /\ t \in 0 .. Len(s)
                          /\ n <= q => t = n
                          /\ n > q => t >= q
                          /\ \A k \in 1 .. q : k <= n => s[k] = p[k]
           good == {n \in Nat : n <= Len(p) => \A t \in T[n] : shape(n, t)}
<1>2. TakenFrom(T, p, s, Len(p))
  BY <1>1, TakenOf
<1> HIDE DEF T
<1>3. 0 \in good
  BY <1>1, <1>2 DEF TakenFrom
<1>4. ASSUME NEW n \in Nat, n \in good PROVE n + 1 \in good
  <2> SUFFICES ASSUME n + 1 <= Len(p), NEW t \in T[n + 1] PROVE shape(n + 1, t)
    OBVIOUS
  <2>1. n + 1 \in 1 .. Len(p) /\ (n + 1) - 1 = n
    BY <1>1
  <2>2. T[n + 1] = {u \in 0 .. Len(s) : \E f \in T[n] : Takes(p[n + 1], s, f, u)}
    BY <1>2, <2>1 DEF TakenFrom
  <2>3. t \in 0 .. Len(s) /\ \E f \in T[n] : Takes(p[n + 1], s, f, t)
    BY <2>2
  <2>4. PICK f \in T[n] : Takes(p[n + 1], s, f, t)
    BY <2>3
  <2>5. shape(n, f)
    BY <1>1, <1>4, <2>4
  <2>6. f <= t
    BY <1>1, <2>3, <2>4, <2>5 DEF Takes
  <2>7. CASE n + 1 <= q
    <3>1. p[n + 1] \notin Wildcards
      BY <2>7 DEF Plain
    <3>2. t = f + 1 /\ s[t] = p[n + 1] /\ f = n
      BY <2>4, <2>5, <2>7, <3>1 DEF Takes, Wildcards
    <3>3. QED
      BY <2>3, <2>5, <2>7, <3>2
  <2>8. CASE ~(n + 1 <= q)
    BY <2>3, <2>5, <2>6, <2>8
  <2>9. QED
    BY <2>7, <2>8
<1>5. Len(p) \in good
  <2> HIDE DEF good
  <2>1. QED
    BY <1>1, <1>3, <1>4, SetInduction
<1>6. Len(s) \in T[Len(p)]
  BY DEF FilepathMatch, T
<1>7. shape(Len(p), Len(s))
  BY <1>1, <1>5, <1>6
<1>8. QED
  BY <1>1, <1>7 DEF Begins

\* What a capability covers starts with the characters before its first wildcard.
LEMMA KeepsBeginning ==
  ASSUME NEW s \in Ids, NEW l \in Ids, CapabilityCovered(s, l),
         NEW q \in Nat, q >= 1, q <= Len(l), Plain(l, q)
  PROVE  Begins(s, l, q)
<1>1. /\ Len(l) \in Nat /\ Len(s) \in Nat
      /\ l \in Seq(Chars) /\ s \in Seq(Chars)
  BY IdShape
<1>2. CASE s = l
  BY <1>1, <1>2 DEF Begins
<1>3. CASE l = <<"*">>
  BY <1>3 DEF Plain, Wildcards
<1>4. CASE FilepathMatch(l, s)
  BY <1>4, GlobBegins
<1>5. CASE TrailingStar(l) /\ HasPrefix(s, SubSeq(l, 1, Len(l) - 1))
  <2>1. q <= Len(l) - 1
    BY <1>1, <1>5 DEF TrailingStar, Plain, Wildcards
  <2>2. Len(SubSeq(l, 1, Len(l) - 1)) = Len(l) - 1
        /\ \A k \in 1 .. Len(l) - 1 : SubSeq(l, 1, Len(l) - 1)[k] = l[k]
    BY <1>1, <1>5 DEF TrailingStar
  <2>3. QED
    BY <1>1, <1>5, <2>1, <2>2 DEF HasPrefix, Begins
<1>6. CASE HasPrefix(s, Append(l, ":"))
  <2>1. Len(Append(l, ":")) = Len(l) + 1 /\ \A k \in 1 .. Len(l) : Append(l, ":")[k] = l[k]
    BY <1>1
  <2>2. QED
    BY <1>1, <1>6, <2>1 DEF HasPrefix, Begins
<1>7. QED
  BY <1>2, <1>3, <1>4, <1>5, <1>6 DEF CapabilityCovered, MatchCapability

\* A capability covered by one in a simple form stands for no id that its
\* ancestor does not, whatever globs it has itself.
LEMMA CoveredGrants ==
  ASSUME NEW l \in Ids, NEW a \in Ids, Simple(a), CapabilityCovered(l, a)
  PROVE  Grants(l) \subseteq Grants(a)
<1> SUFFICES ASSUME NEW s \in Grants(l) PROVE s \in Grants(a)
  OBVIOUS
<1>1. s \in Ids /\ CapabilityCovered(s, l)
  BY DEF Grants
<1>2. /\ Len(s) \in Nat /\ Len(l) \in Nat /\ Len(a) \in Nat /\ Len(a) >= 1
      /\ s \in Seq(Chars) /\ l \in Seq(Chars) /\ a \in Seq(Chars)
  BY <1>1, IdShape
<1>3. CASE l = a
  BY <1>3
<1>4. CASE a = <<"*">>
  BY <1>1, <1>4 DEF Grants, CapabilityCovered, MatchCapability
<1>5. CASE l # a /\ Plain(a, Len(a))
  <2>1. a # <<"*">> /\ ~TrailingStar(a)
    <3>1. a[1] # "*" /\ a[Len(a)] # "*"
      BY <1>2, <1>5 DEF Plain, Wildcards
    <3>2. QED
      BY <3>1 DEF TrailingStar
  <2>2. ~FilepathMatch(a, l)
    <3> SUFFICES ASSUME FilepathMatch(a, l) PROVE l = a
      BY <1>5
    <3>1. Begins(l, a, Len(a)) /\ Len(l) = Len(a)
      BY <1>2, <1>5, GlobBegins
    <3>2. QED
      BY <1>2, <3>1 DEF Begins
  <2>3. NoStar(a) /\ HasPrefix(l, Append(a, ":"))
    BY <1>5, <2>1, <2>2 DEF CapabilityCovered, MatchCapability
  <2>4. /\ Len(Append(a, ":")) = Len(a) + 1 /\ Append(a, ":")[Len(a) + 1] = ":"
        /\ \A k \in 1 .. Len(a) : Append(a, ":")[k] = a[k]
    BY <1>2
  <2>5. /\ Len(l) >= Len(a) + 1
        /\ \A k \in 1 .. Len(a) + 1 : l[k] = Append(a, ":")[k]
    BY <2>3, <2>4 DEF HasPrefix
  <2>6. Plain(l, Len(a) + 1)
    <3> SUFFICES ASSUME NEW k \in 1 .. Len(a) + 1 PROVE l[k] \notin Wildcards
      BY DEF Plain
    <3>1. CASE k = Len(a) + 1
      BY <2>4, <2>5, <3>1 DEF Wildcards
    <3>2. CASE k \in 1 .. Len(a)
      BY <1>5, <2>4, <2>5, <3>2 DEF Plain
    <3>3. QED
      BY <1>2, <3>1, <3>2
  <2>7. Begins(s, l, Len(a) + 1)
    BY <1>1, <1>2, <2>5, <2>6, KeepsBeginning
  <2>8. HasPrefix(s, Append(a, ":"))
    BY <1>2, <2>4, <2>5, <2>7 DEF Begins, HasPrefix
  <2>9. QED
    BY <1>1, <2>3, <2>8 DEF Grants, CapabilityCovered
<1>6. CASE l # a /\ a # <<"*">> /\ TrailingStar(a) /\ Plain(a, Len(a) - 1)
  <2>1. Len(a) - 1 \in Nat /\ Len(a) - 1 >= 1 /\ a[Len(a)] = "*"
    BY <1>2, <1>6 DEF TrailingStar
  <2>2. /\ Len(SubSeq(a, 1, Len(a) - 1)) = Len(a) - 1
        /\ \A k \in 1 .. Len(a) - 1 : SubSeq(a, 1, Len(a) - 1)[k] = a[k]
    BY <1>2, <2>1
  <2>3. ~NoStar(a)
    BY <1>2, <2>1 DEF NoStar
  <2>4. Begins(l, a, Len(a) - 1)
    <3>1. CASE FilepathMatch(a, l)
      BY <1>2, <1>6, <2>1, <3>1, GlobBegins
    <3>2. CASE HasPrefix(l, SubSeq(a, 1, Len(a) - 1))
      BY <2>2, <3>2 DEF HasPrefix, Begins
    <3>3. QED
      BY <1>6, <2>3, <3>1, <3>2 DEF CapabilityCovered, MatchCapability
  <2>5. Plain(l, Len(a) - 1)
    BY <1>6, <2>4 DEF Begins, Plain
  <2>6. Begins(s, l, Len(a) - 1)
    BY <1>1, <2>1, <2>4, <2>5, KeepsBeginning DEF Begins
  <2>7. HasPrefix(s, SubSeq(a, 1, Len(a) - 1))
    BY <2>2, <2>4, <2>6 DEF HasPrefix, Begins
  <2>8. QED
    BY <1>1, <1>6, <2>7 DEF Grants, CapabilityCovered, MatchCapability
<1>7. QED
  BY <1>3, <1>4, <1>5, <1>6 DEF Simple

AllSimple(caps) == \A c \in caps : Simple(c)

\* What is kept of a level is part of the level and, where all that was
\* effective has a simple form, grants nothing that was not effective.
LEMMA FilterGrants ==
  ASSUME NEW leaf \in SUBSET Ids, NEW ancestor \in SUBSET Ids
  PROVE  /\ AllGrants(FilterCovered(leaf, ancestor)) \subseteq AllGrants(leaf)
         /\ AllSimple(ancestor) =>
              AllGrants(FilterCovered(leaf, ancestor)) \subseteq AllGrants(ancestor)
<1>1. AllGrants(FilterCovered(leaf, ancestor)) \subseteq AllGrants(leaf)
  BY DEF AllGrants, FilterCovered
<1>2. ASSUME AllSimple(ancestor), NEW s \in AllGrants(FilterCovered(leaf, ancestor))
      PROVE  s \in AllGrants(ancestor)
  <2>1. PICK l \in FilterCovered(leaf, ancestor) : s \in Grants(l)
    BY DEF AllGrants
  <2>2. PICK a \in ancestor : CapabilityCovered(l, a)
    BY <2>1 DEF FilterCovered
  <2>3. Grants(l) \subseteq Grants(a)
    BY <1>2, <2>1, <2>2, CoveredGrants DEF FilterCovered, AllSimple
  <2>4. QED
    BY <2>1, <2>2, <2>3 DEF AllGrants
<1>3. QED
  BY <1>1, <1>2

-------------------------------------------------------------------------------
(* The inductive invariant *)

\* Level i of the chain carries what its delegator signed.
SignedLevel(i) ==
  \E key \in {chain[i].key, Unbound} :
    [by |-> IF i = 1 THEN Principal ELSE chain[i - 1].key,
     caps |-> chain[i].caps, key |-> key] \in signed

TypeInv ==
  /\ chain \in Seq(Certificate)
  /\ eff \subseteq Ids
  /\ level \in Int

\* Signatures are verified from the bottom up, down to level.
SignaturesInv ==
  phase = "signatures" =>
    level \in 0 .. Len(chain) /\ \A i \in level + 1 .. Len(chain) : SignedLevel(i)

\* The levels from i to j hold capabilities in simple forms only.
SimpleFrom(i, j) == \A m \in i .. j : AllSimple(Held(m))

\* Then capabilities are narrowed from the top down: what is effective is part
\* of the level above, and attenuates the levels that simple ones follow.
CapabilitiesInv ==
  phase \in {"capabilities", "accepted"} =>
    /\ level \in 1 .. Len(chain) + 1
    /\ phase = "accepted" => level = Len(chain) + 1
    /\ \A i \in 1 .. Len(chain) : SignedLevel(i)
    /\ eff \subseteq Held(level - 1)
    /\ \A i \in 0 .. level - 1 : SimpleFrom(i, level - 2) => AllGrants(eff) \subseteq AllGrants(Held(i))

ChainInv == TypeInv /\ SignaturesInv /\ CapabilitiesInv

LEMMA InitChainInv == DelegationInit => ChainInv
  BY DEF DelegationInit, ChainInv, TypeInv, SignaturesInv, CapabilitiesInv

LEMMA NextChainInv ==
  ASSUME ChainInv, [DelegationNext]_delegationVars
  PROVE  ChainInv'
<1> USE DelegationChainAssumption
<1>0. TypeInv /\ SignaturesInv /\ CapabilitiesInv /\ Len(chain) \in Nat
  BY DEF ChainInv, TypeInv
<1>r. ASSUME Reject PROVE ChainInv'
  BY <1>0, <1>r DEF Reject, ChainInv, TypeInv, SignaturesInv, CapabilitiesInv
<1>h. ASSUME chain' = chain
      PROVE  /\ \A i : Held(i)' = Held(i) /\ AllGrants(Held(i))' = AllGrants(Held(i))
             /\ \A i, j : SimpleFrom(i, j)' <=> SimpleFrom(i, j)
  <2>1. \A i : Held(i)' = Held(i)
    BY <1>h DEF Held
  <2>2. QED
    BY <2>1 DEF SimpleFrom
<1>1. ASSUME NEW d \in Delegations, Sign(d) PROVE ChainInv'
  <2>1. \A i : SignedLevel(i) => SignedLevel(i)'
    BY <1>1 DEF Sign, SignedLevel
  <2>2. UNCHANGED <<chain, phase, level, eff>>
    BY <1>1 DEF Sign
  <2>3. AllGrants(eff)' = AllGrants(eff)
    BY <2>2
  <2>4. QED
    BY <1>0, <1>h, <2>1, <2>2, <2>3 DEF ChainInv, TypeInv, SignaturesInv, CapabilitiesInv
<1>2. ASSUME NEW c \in Chains, Present(c) PROVE ChainInv'
  BY <1>0, <1>2 DEF Present, ChainInv, TypeInv, SignaturesInv, CapabilitiesInv
<1>3. CASE CheckStructure
  BY <1>0, <1>3, <1>r DEF CheckStructure, ChainInv, TypeInv, SignaturesInv, CapabilitiesInv
<1>4. CASE VerifyLevel
  <2>1. CASE /\ phase = "signatures" /\ level > 0
             /\ DelegationVerifies(chain[level], Signer(level))
             /\ level' = level - 1
             /\ UNCHANGED <<signed, chain, phase, eff>>
    <3>1. SignedLevel(level)
      BY <2>1 DEF SignedLevel, DelegationVerifies, Signer
    <3>2. \A i : SignedLevel(i)' <=> SignedLevel(i)
      BY <2>1 DEF SignedLevel
    <3>3. \A i \in level .. Len(chain) : SignedLevel(i)
      BY <1>0, <2>1, <3>1 DEF SignaturesInv, TypeInv
    <3>4. QED
      BY <1>0, <2>1, <3>2, <3>3 DEF ChainInv, TypeInv, SignaturesInv, CapabilitiesInv
  <2>2. CASE /\ phase = "signatures" /\ level = 0
             /\ phase' = "capabilities" /\ level' = 1 /\ eff' = PrincipalCaps
             /\ UNCHANGED <<signed, chain>>
    <3>1. \A i : SignedLevel(i)' <=> SignedLevel(i)
      BY <2>2 DEF SignedLevel
    <3>2. \A i \in 1 .. Len(chain) : SignedLevel(i)
      BY <1>0, <2>2 DEF SignaturesInv
    <3>3. (\A i : i = 0 => Held(i) = PrincipalCaps)' /\ eff' = PrincipalCaps /\ level' = 1
      BY <2>2 DEF Held
    <3>4. /\ (eff \subseteq Held(level - 1))'
          /\ (\A i \in 0 .. level - 1 : AllGrants(eff) \subseteq AllGrants(Held(i)))'
      BY <3>3 DEF AllGrants
    <3>5. QED
      BY <1>0, <2>2, <3>1, <3>2, <3>4 DEF ChainInv, TypeInv, SignaturesInv, CapabilitiesInv
  <2>3. QED
    BY <1>4, <2>1, <2>2, <1>r DEF VerifyLevel
<1>5. CASE EffectiveLevel
  <2>1. CASE /\ phase = "capabilities" /\ level <= Len(chain)
             /\ eff' = FilterCovered(chain[level].caps, eff)
             /\ level' = level + 1
             /\ UNCHANGED <<signed, chain, phase>>
    <3>1. level \in 1 .. Len(chain) /\ chain[level] \in Certificate
      BY <1>0, <2>1 DEF CapabilitiesInv, TypeInv
    <3>2. chain[level].caps \in SUBSET Ids /\ eff \in SUBSET Ids
      BY <1>0, <3>1 DEF Certificate, TypeInv
    <3>3. Held(level) = chain[level].caps /\ eff' \subseteq Held(level)
      BY <2>1, <3>1 DEF Held, FilterCovered
    <3>4. /\ AllGrants(eff') \subseteq AllGrants(Held(level))
          /\ AllSimple(eff) => AllGrants(eff') \subseteq AllGrants(eff)
      BY <2>1, <3>2, <3>3, FilterGrants
    <3>5. ASSUME NEW i \in 0 .. level, SimpleFrom(i, level - 1)
          PROVE  AllGrants(eff') \subseteq AllGrants(Held(i))
      <4>1. CASE i = level
        BY <3>4, <4>1
      <4>2. CASE i \in 0 .. level - 1
        <5>1. SimpleFrom(i, level - 2) /\ AllSimple(Held(level - 1))
          BY <3>1, <3>5, <4>2 DEF SimpleFrom
        <5>2. AllSimple(eff)
          BY <1>0, <2>1, <5>1 DEF CapabilitiesInv, AllSimple
        <5>3. AllGrants(eff) \subseteq AllGrants(Held(i))
          BY <1>0, <2>1, <4>2, <5>1 DEF CapabilitiesInv
        <5>4. QED
          BY <3>4, <5>2, <5>3
      <4>3. QED
        BY <3>1, <4>1, <4>2
    <3>6. (\A i : SignedLevel(i)' <=> SignedLevel(i)) /\ chain' = chain
      BY <2>1 DEF SignedLevel
    <3>7. CapabilitiesInv'
      <4>1. \A i \in 1 .. Len(chain) : SignedLevel(i)
        BY <1>0, <2>1 DEF CapabilitiesInv
      <4>2. /\ \A i : Held(i)' = Held(i) /\ AllGrants(Held(i))' = AllGrants(Held(i))
            /\ \A i, j : SimpleFrom(i, j)' <=> SimpleFrom(i, j)
        BY <1>h, <3>6
      <4>3. /\ level' \in 1 .. Len(chain') + 1 /\ phase' = "capabilities"
            /\ level' - 1 = level /\ level' - 2 = level - 1
        BY <2>1, <3>1, <3>6
      <4>4. QED
        BY <3>3, <3>5, <3>6, <4>1, <4>2, <4>3 DEF CapabilitiesInv
    <3>8. QED
      BY <1>0, <2>1, <3>1, <3>2, <3>7 DEF ChainInv, TypeInv, SignaturesInv, FilterCovered
  <2>2. CASE /\ phase = "capabilities" /\ level > Len(chain)
             /\ phase' = "accepted"
             /\ UNCHANGED <<signed, chain, level, eff>>
    <3>1. (\A i : SignedLevel(i)' <=> SignedLevel(i))
      BY <2>2 DEF SignedLevel
    <3>2. AllGrants(eff)' = AllGrants(eff)
      BY <2>2
    <3>3. QED
      BY <1>0, <1>h, <2>2, <3>1, <3>2 DEF ChainInv, TypeInv, SignaturesInv, CapabilitiesInv
  <2>3. QED
    BY <1>5, <2>1, <2>2, <1>r DEF EffectiveLevel
<1>6. CASE UNCHANGED delegationVars
  <2>1. \A i : SignedLevel(i)' <=> SignedLevel(i)
    BY <1>6 DEF delegationVars, SignedLevel
  <2>2. UNCHANGED <<chain, phase, level, eff>> /\ AllGrants(eff)' = AllGrants(eff)
    BY <1>6 DEF delegationVars
  <2>3. QED
    BY <1>0, <1>h, <2>1, <2>2 DEF ChainInv, TypeInv, SignaturesInv, CapabilitiesInv
<1>7. QED
  BY <1>1, <1>2, <1>3, <1>4, <1>5, <1>6 DEF DelegationNext

\* Permissions only decrease along an accepted delegation chain, whatever the
\* keys sign and whatever chain is presented, where the capabilities that are
\* delegated further have no wildcard but "*" or a last ":*": then
\* VerifyDelegationChainWithCaps returns nothing that the principal or one of
\* the levels does not hold.  The last level may declare any globs.
THEOREM DelegationAttenuates == DelegationSpec => []AcceptedIsDelegated
<1>1. ChainInv => AcceptedIsDelegated
  <2> SUFFICES ASSUME ChainInv, phase = "accepted" PROVE AcceptedIsDelegated
    BY DEF AcceptedIsDelegated
  <2>1. /\ level = Len(chain) + 1 /\ Len(chain) \in Nat
        /\ \A i \in 1 .. Len(chain) : SignedLevel(i)
        /\ \A i \in 0 .. level - 1 :
             SimpleFrom(i, level - 2) => AllGrants(eff) \subseteq AllGrants(Held(i))
    BY DEF ChainInv, TypeInv, CapabilitiesInv
  <2>2. level - 1 = Len(chain) /\ level - 2 = Len(chain) - 1
    BY <2>1
  <2>3. \A i \in 0 .. Len(chain) :
          SimpleFrom(i, Len(chain) - 1) => AllGrants(eff) \subseteq AllGrants(Held(i))
    BY <2>1, <2>2
  <2>4. QED
    BY <2>1, <2>3 DEF AcceptedIsDelegated, SignedLevel, SimpleFrom, AllSimple
<1>2. QED
  BY <1>1, InitChainInv, NextChainInv, PTL DEF DelegationSpec

-------------------------------------------------------------------------------
(* Constraints: an open session and the loop that looks at it again *)

\* A time the evaluator finds within the window is a minute of the window.
LEMMA WindowSound ==
  ASSUME NEW s \in 0 .. Day - 1, NEW e \in 0 .. Day - 1, NEW z, NEW t \in 0 .. Day - 1,
         InWindow(t, [start |-> s, end |-> e, tz |-> z])
  PROVE  t \in WindowMinutes([start |-> s, end |-> e, tz |-> z])
<1>1. Day \in Nat /\ Day > 0
  BY ConstraintsAssumption
<1>2. CASE s <= e
  <2>1. s <= t /\ t < e
    BY <1>2 DEF InWindow
  <2>2. (e - s) % Day = e - s
    BY <1>1, <1>2
  <2>3. t - s \in 0 .. ((e - s) % Day) - 1 /\ (s + (t - s)) % Day = t
    BY <1>1, <2>1, <2>2
  <2>4. QED
    BY <2>3 DEF WindowMinutes
<1>3. CASE s > e
  <2>1. s <= t \/ t < e
    BY <1>3 DEF InWindow
  <2>2. (e - s) % Day = e - s + Day
    BY <1>1, <1>3
  <2>3. CASE s <= t
    <3>1. t - s \in 0 .. ((e - s) % Day) - 1 /\ (s + (t - s)) % Day = t
      BY <1>1, <1>3, <2>2, <2>3
    <3>2. QED
      BY <3>1 DEF WindowMinutes
  <2>4. CASE t < e
    <3>1. t + Day - s \in 0 .. ((e - s) % Day) - 1 /\ (s + (t + Day - s)) % Day = t
      BY <1>1, <1>3, <2>2, <2>4
    <3>2. QED
      BY <3>1 DEF WindowMinutes
  <2>5. QED
    BY <2>1, <2>3, <2>4
<1>4. QED
  BY <1>2, <1>3

\* What a check of the loop lets pass at this moment is not violated now.
LEMMA AnswerSound ==
  ASSUME NEW name \in DOMAIN Constraints, now \in 0 .. Day - 1,
         TRUE \in Answers("global", name, sess.ip, now)
  PROVE  ~Violated(name)
<1> DEFINE c == Constraints[name]
           evaluator == regs["global"][c.type]
<1>1. c.own
  BY DEF Answers
<1>2. CASE evaluator # "builtin"
  <2>1. evaluator # "refuses"
    <3> SUFFICES ASSUME evaluator = "refuses" PROVE FALSE
      OBVIOUS
    <3>1. TRUE \in Verdicts("refuses", c, sess.ip, now)
      BY <1>1 DEF Answers, Absent
    <3>2. Verdicts("refuses", c, sess.ip, now) = {FALSE}
      BY DEF Verdicts
    <3>3. QED
      BY <3>1, <3>2
  <2>2. QED
    BY <1>1, <1>2, <2>1 DEF Violated
<1>3. CASE evaluator = "builtin"
  <2>1. TRUE \in Verdicts("builtin", c, sess.ip, now)
    BY <1>1, <1>3 DEF Answers, Absent
  <2>2. CASE c.type = "time:window"
    <3> DEFINE t == (now + c.p.tz) % Day
               w == [start |-> c.p.start, end |-> c.p.end, tz |-> c.p.tz]
    <3>1. InWindow(t, c.p)
      BY <2>1, <2>2 DEF Verdicts
    <3>2. c.p.start \in 0 .. Day - 1 /\ c.p.end \in 0 .. Day - 1 /\ c.p.tz \in Int /\ Day \in Nat \ {0}
      BY <2>2, ConstraintsAssumption
    <3>3. t \in 0 .. Day - 1
      BY <3>2
    <3>4. InWindow(t, w)
      BY <3>1 DEF InWindow
    <3>5. t \in WindowMinutes(w)
      <4> HIDE DEF t
      <4>1. QED
        BY <3>2, <3>3, <3>4, WindowSound
    <3>6. t \in WindowMinutes(c.p)
      BY <3>5 DEF WindowMinutes
    <3>7. QED
      BY <1>1, <1>3, <2>2, <3>6 DEF Violated
  <2>3. CASE c.type = "network:cidr"
    <3>1. CidrHolds(c.p, sess.ip)
      BY <2>1, <2>3 DEF Verdicts
    <3>2. c.p = <<>> \/ \E k \in 1 .. Len(c.p) : sess.ip \in c.p[k]
      BY <3>1 DEF CidrHolds, ReachesHit
    <3>3. QED
      BY <1>1, <1>3, <2>3, <3>2 DEF Violated
  <2>4. CASE c.type = "geo-fence"
    <3>1. TRUE \in GeoVerdicts(c.p, sess.ip)
      BY <2>1, <2>4 DEF Verdicts
    <3>2. CASE c.p.resolver = "inline"
      <4>1. PICK o \in Orders(Len(c.p.table)) : TableHit(c.p.table, o, sess.ip)
        BY <3>1, <3>2 DEF GeoVerdicts
      <4>2. PICK i \in 1 .. Len(c.p.table) : ReachesHit(c.p.table[o[i]], sess.ip)
        BY <4>1 DEF TableHit
      <4>3. o[i] \in 1 .. Len(c.p.table)
        BY <4>1, <4>2 DEF Orders
      <4>4. \E k \in 1 .. Len(c.p.table[o[i]]) : sess.ip \in c.p.table[o[i]][k]
        BY <4>2 DEF ReachesHit
      <4>5. QED
        BY <1>1, <1>3, <2>4, <3>2, <4>3, <4>4 DEF Violated
    <3>3. CASE c.p.resolver # "inline"
      <4>1. resolvers[c.p.resolver] \in c.p.regions
        BY <3>1, <3>3 DEF GeoVerdicts
      <4>2. QED
        BY <1>1, <1>3, <2>4, <3>3, <4>1 DEF Violated
    <3>4. QED
      BY <3>2, <3>3
  <2>5. CASE c.type \notin {"time:window", "network:cidr", "geo-fence"}
    BY <1>1, <1>3, <2>5 DEF Violated
  <2>6. QED
    BY <2>2, <2>3, <2>4, <2>5
<1>4. QED
  BY <1>2, <1>3

\* Nothing an overstay depends on has changed.
LEMMA OverstaysUnchanged ==
  ASSUME NEW name, UNCHANGED <<now, regs, resolvers, sess, open>>
  PROVE  Overstays(name)' = Overstays(name)
BY DEF Overstays, Violated

\* The shape of the state: the lists hold constraints, times are in range, and
\* a connection is open only while its loop runs.
SessionInv ==
  /\ now \in 0 .. Day - 1 /\ stamp \in 0 .. Day - 1
  /\ at \in {"new", "pa", "strict", "aic", "refused", "select", "recheckAIC", "recheckPA", "stopped"}
  /\ {sess.pa, sess.aic, todo} \subseteq Seq(DOMAIN Constraints)
  /\ due \in 0 .. Interval
  /\ open => at \in {"select", "recheckAIC", "recheckPA"}
  /\ at \in {"recheckAIC", "recheckPA"} => stamp = now

\* Time is counted against a constraint only while it is violated.
OverInv ==
  /\ over \in [DOMAIN Constraints -> Nat]
  /\ \A name \in DOMAIN Constraints : over[name] > 0 => Overstays(name)

\* Nothing is counted against the constraints of a list that are not to come.
Cleared(count, list, rest) ==
  \A k \in 1 .. Len(list) : count[list[k]] = 0 \/ \E j \in 1 .. Len(rest) : rest[j] = list[k]

\* The time counted and the time to the next tick are one interval together;
\* the recheck clears the constraints one by one.
RecheckInv ==
  /\ at = "select" => \A name \in DOMAIN Constraints : over[name] + due <= Interval
  /\ OverstayBounded
  /\ at = "recheckAIC" => Cleared(over, sess.aic, todo)
  /\ at = "recheckPA" => Cleared(over, sess.aic, <<>>) /\ Cleared(over, sess.pa, todo)

ConstraintInv == SessionInv /\ OverInv /\ RecheckInv

\* The loop's interval is at least one unit.
LEMMA IntervalPositive == Interval \in Nat \ {0}
BY ConstraintsAssumption DEF Interval

\* What Lasting keeps: a count goes on or starts again, and goes on only while
\* the constraint is violated.
LEMMA LastingCounts ==
  ASSUME OverInv, NEW n \in Nat, Lasting(n)
  PROVE  /\ OverInv'
         /\ \A name \in DOMAIN Constraints : over'[name] = 0 \/ over'[name] = over[name] + n
<1>1. over \in [DOMAIN Constraints -> Nat]
  BY DEF OverInv
<1>2. over' = [name \in DOMAIN Constraints |->
                 IF Overstays(name) /\ Overstays(name)' THEN over[name] + n ELSE 0]
  BY <1>1 DEF Lasting
<1>3. \A name \in DOMAIN Constraints :
        /\ over[name] \in Nat
        /\ over'[name] = 0 \/ over'[name] = over[name] + n
        /\ over'[name] = 0 \/ Overstays(name)'
  BY <1>1, <1>2
<1>4. over' \in [DOMAIN Constraints -> Nat]
  BY <1>1, <1>2
<1>5. QED
  BY <1>3, <1>4 DEF OverInv

\* Steps that leave time, registries, session and counts alone.
LEMMA CountsKept ==
  ASSUME OverInv, UNCHANGED <<now, regs, resolvers, sess, open, over>>
  PROVE  OverInv'
<1>1. \A name \in DOMAIN Constraints : Overstays(name)' = Overstays(name)
  BY OverstaysUnchanged
<1>2. QED
  BY <1>1 DEF OverInv

\* Steps that end the connection, or happen when there is none.
LEMMA CountsEnd ==
  ASSUME OverInv, over' = NoOverstay
  PROVE  OverInv' /\ OverstayBounded' /\ \A name \in DOMAIN Constraints : over'[name] = 0
BY IntervalPositive DEF OverInv, NoOverstay, OverstayBounded

\* No count without a connection.
LEMMA ClosedIsZero ==
  ASSUME OverInv, ~open
  PROVE  over = NoOverstay
<1>1. \A name \in DOMAIN Constraints : over[name] \in Nat /\ ~(over[name] > 0)
  BY DEF OverInv, Overstays
<1>2. \A name \in DOMAIN Constraints : over[name] = 0
  BY <1>1
<1>3. QED
  BY <1>2 DEF OverInv, NoOverstay

\* A change of a registry or of a resolver, at any moment.
LEMMA RegistryStep ==
  ASSUME ConstraintInv, UNCHANGED <<now, sessionVars>>, Lasting(0)
  PROVE  ConstraintInv'
<1>1. SessionInv'
  BY DEF ConstraintInv, SessionInv, sessionVars
<1>2. OverInv' /\ \A name \in DOMAIN Constraints : over'[name] = 0 \/ over'[name] = over[name] + 0
  BY LastingCounts DEF ConstraintInv
<1>3. \A name \in DOMAIN Constraints :
        over[name] \in Nat /\ (over'[name] = 0 \/ over'[name] = over[name])
  BY <1>2 DEF ConstraintInv, OverInv
<1>4. DOMAIN over = DOMAIN Constraints /\ DOMAIN over' = DOMAIN Constraints
  BY <1>2 DEF ConstraintInv, OverInv
<1>5. /\ sess.aic \in Seq(DOMAIN Constraints) /\ sess.pa \in Seq(DOMAIN Constraints)
      /\ due \in Nat /\ due <= Interval /\ Interval \in Nat
  BY IntervalPositive DEF ConstraintInv, SessionInv
<1>6. at' = "select" => \A name \in DOMAIN Constraints : over'[name] + due' <= Interval
  BY <1>3, <1>5 DEF ConstraintInv, RecheckInv, sessionVars
<1>7. OverstayBounded'
  <2>1. \A name \in DOMAIN Constraints : over[name] <= Interval
    BY <1>4 DEF ConstraintInv, RecheckInv, OverstayBounded
  <2>2. \A name \in DOMAIN Constraints : over'[name] <= Interval
    BY <1>3, <1>5, <2>1
  <2>3. QED
    BY <1>4, <2>2 DEF OverstayBounded
<1>8. ASSUME NEW list \in Seq(DOMAIN Constraints), NEW rest, Cleared(over, list, rest)
      PROVE  Cleared(over', list, rest)
  BY <1>3, <1>8 DEF Cleared
<1>9. at' = "recheckAIC" => Cleared(over, sess.aic, todo)'
  BY <1>5, <1>8 DEF ConstraintInv, RecheckInv, sessionVars
<1>10. at' = "recheckPA" => Cleared(over, sess.aic, <<>>)' /\ Cleared(over, sess.pa, todo)'
  BY <1>5, <1>8 DEF ConstraintInv, RecheckInv, sessionVars
<1>11. QED
  BY <1>1, <1>2, <1>6, <1>7, <1>9, <1>10 DEF ConstraintInv, RecheckInv

\* A step of the admission or of its end: no connection before or after it.
LEMMA ClosedStep ==
  ASSUME OverInv, SessionInv', over' = NoOverstay, ~open'
  PROVE  ConstraintInv'
<1>1. OverInv' /\ OverstayBounded' /\ \A name \in DOMAIN Constraints : over'[name] = 0
  BY CountsEnd
<1>2. due' \in 0 .. Interval /\ {sess'.pa, sess'.aic} \subseteq Seq(DOMAIN Constraints)
  BY DEF SessionInv
<1>3. \A name \in DOMAIN Constraints : over'[name] + due' <= Interval
  BY <1>1, <1>2, IntervalPositive
<1>4. ASSUME NEW list \in Seq(DOMAIN Constraints), NEW rest
      PROVE  Cleared(over', list, rest)
  BY <1>1 DEF Cleared
<1>5. QED
  BY <1>1, <1>2, <1>3, <1>4 DEF ConstraintInv, RecheckInv

\* Where a step of a check leads.
LEMMA GotoSession ==
  ASSUME SessionInv, NEW list \in Seq(DOMAIN Constraints), due' \in 0 .. Interval,
         NEW place \in {"strict", "aic", "refused", "select", "recheckAIC", "recheckPA", "stopped"},
         Goto(place, list), open' => place \in {"select", "recheckAIC", "recheckPA"}
  PROVE  SessionInv'
BY DEF SessionInv, Goto

\* The rest of a list.
LEMMA RestOfList ==
  ASSUME SessionInv, todo # <<>>
  PROVE  /\ Head(todo) \in DOMAIN Constraints /\ Tail(todo) \in Seq(DOMAIN Constraints)
         /\ \A j \in 1 .. Len(todo) :
              todo[j] = Head(todo) \/ \E i \in 1 .. Len(Tail(todo)) : Tail(todo)[i] = todo[j]
<1>1. todo \in Seq(DOMAIN Constraints) /\ Len(todo) \in Nat /\ Len(todo) > 0
  BY DEF SessionInv
<1>2. Head(todo) \in DOMAIN Constraints /\ Tail(todo) \in Seq(DOMAIN Constraints)
  BY <1>1
<1>3. ASSUME NEW j \in 1 .. Len(todo), j # 1
      PROVE  j - 1 \in 1 .. Len(Tail(todo)) /\ Tail(todo)[j - 1] = todo[j]
  BY <1>1, <1>3
<1>4. todo[1] = Head(todo)
  BY <1>1
<1>5. QED
  BY <1>2, <1>3, <1>4

\* A constraint that is passed leaves the session as it was.
LEMMA PassedSession ==
  ASSUME SessionInv, NEW place, NEW registry, Passed(place, registry)
  PROVE  SessionInv'
<1>1. Tail(todo) \in Seq(DOMAIN Constraints)
  BY RestOfList DEF Passed
<1>2. QED
  BY <1>1 DEF SessionInv, Passed, registryVars

\* A list loses its head only when nothing is counted against it.
LEMMA PassedClears ==
  ASSUME SessionInv, OverInv, at \in {"recheckAIC", "recheckPA"}, Passed(at, "global"),
         NEW list \in Seq(DOMAIN Constraints), Cleared(over, list, todo)
  PROVE  Cleared(over, list, Tail(todo))
<1>1. Head(todo) \in DOMAIN Constraints
  BY RestOfList DEF Passed
<1>2. ~Violated(Head(todo))
  BY <1>1, AnswerSound DEF Passed, SessionInv
<1>3. ~Overstays(Head(todo))
  BY <1>2 DEF Overstays
<1>4. over[Head(todo)] \in Nat /\ ~(over[Head(todo)] > 0)
  BY <1>1, <1>3 DEF OverInv
<1>5. over[Head(todo)] = 0
  BY <1>4
<1>6. todo # <<>>
  BY DEF Passed
<1>7. QED
  BY <1>5, <1>6, RestOfList DEF Cleared

\* When the session's two lists are cleared nothing is counted.
LEMMA AllCleared ==
  ASSUME OverInv, Cleared(over, sess.aic, <<>>), Cleared(over, sess.pa, <<>>)
  PROVE  \A name \in DOMAIN Constraints : over[name] = 0
<1> SUFFICES ASSUME NEW name \in DOMAIN Constraints, over[name] # 0
             PROVE  FALSE
  OBVIOUS
<1>1. over[name] \in Nat
  BY DEF OverInv
<1>2. Overstays(name)
  BY <1>1 DEF OverInv
<1>3. PICK l \in {sess.pa, sess.aic} : \E k \in 1 .. Len(l) : l[k] = name
  BY <1>2 DEF Overstays
<1>4. Cleared(over, l, <<>>)
  BY <1>3
<1>5. QED
  BY <1>3, <1>4 DEF Cleared

\* Without a connection a step changes nothing that is counted.
LEMMA AdmissionStep ==
  ASSUME ConstraintInv, ~open, SessionInv', UNCHANGED <<open, over>>
  PROVE  ConstraintInv'
<1>1. over' = NoOverstay
  BY ClosedIsZero DEF ConstraintInv
<1>2. QED
  BY <1>1, ClosedStep DEF ConstraintInv

\* A step of the recheck that leaves the counts alone.
LEMMA RecheckKeeps ==
  ASSUME ConstraintInv, SessionInv', UNCHANGED <<now, regs, resolvers, sess, open, over>>
  PROVE  OverInv' /\ OverstayBounded'
<1>1. OverInv'
  BY CountsKept DEF ConstraintInv
<1>2. QED
  BY <1>1 DEF ConstraintInv, RecheckInv, OverstayBounded

\* The invariant holds before a session.
LEMMA InitConstraintInv == ConstraintInit => ConstraintInv
<1> SUFFICES ASSUME ConstraintInit PROVE ConstraintInv
  OBVIOUS
<1>1. Day \in Nat /\ Day > 0
  BY ConstraintsAssumption
<1>2. SessionInv
  BY <1>1, IntervalPositive DEF ConstraintInit, SessionInv
<1>3. OverInv
  BY DEF ConstraintInit, OverInv, NoOverstay
<1>4. RecheckInv
  BY IntervalPositive DEF ConstraintInit, RecheckInv, OverstayBounded, NoOverstay
<1>5. QED
  BY <1>2, <1>3, <1>4 DEF ConstraintInv

\* Every step of the registries, of the session and of the clock keeps it.
LEMMA NextConstraintInv ==
  ConstraintInv /\ [ConstraintNext]_constraintVars => ConstraintInv'
<1> SUFFICES ASSUME ConstraintInv, [ConstraintNext]_constraintVars PROVE ConstraintInv'
  OBVIOUS
<1> USE DEF ConstraintInv
<1>1. /\ {sess.pa, sess.aic, todo, <<>>} \subseteq Seq(DOMAIN Constraints)
      /\ due \in 0 .. Interval /\ Interval \in 0 .. Interval /\ Day \in Nat \ {0}
  BY IntervalPositive, ConstraintsAssumption DEF SessionInv
<1>2. ASSUME NEW r, NEW t, NEW evaluator, Change(r, t, evaluator)
      PROVE  ConstraintInv'
  BY <1>2, RegistryStep DEF Change
<1>3. CASE Reset
  BY <1>3, RegistryStep DEF Reset
<1>4. CASE Reregister
  BY <1>4, RegistryStep DEF Reregister
<1>5. ASSUME NEW r, NEW region, RegisterGeoResolver(r, region)
      PROVE  ConstraintInv'
  BY <1>5, RegistryStep DEF RegisterGeoResolver
<1>6. ASSUME NEW s \in Sessions, Admit(s)
      PROVE  ConstraintInv'
  <2>1. {s.pa, s.aic} \subseteq Seq(DOMAIN Constraints)
    BY ConstraintsAssumption
  <2>2. SessionInv' /\ ~open /\ UNCHANGED <<open, over>>
    BY <1>6, <2>1 DEF Admit, SessionInv
  <2>3. QED
    BY <2>2, AdmissionStep
<1>7. CASE CheckPA
  <2>1. at = "pa"
    BY <1>7 DEF CheckPA, Passed, Failed, Done
  <2>2. ~open
    BY <2>1 DEF SessionInv
  <2>3. CASE Passed("pa", sess.registry)
    <3>1. SessionInv' /\ UNCHANGED <<open, over>>
      BY <2>3, PassedSession DEF Passed
    <3>2. QED
      BY <2>2, <3>1, AdmissionStep
  <2>4. CASE Refuse
    <3>1. SessionInv' /\ UNCHANGED <<open, over>>
      BY <1>1, <2>2, <2>4, GotoSession DEF Refuse, Keep
    <3>2. QED
      BY <2>2, <3>1, AdmissionStep
  <2>5. CASE Goto("strict", <<>>) /\ Keep
    <3>1. SessionInv' /\ UNCHANGED <<open, over>>
      BY <1>1, <2>2, <2>5, GotoSession DEF Keep
    <3>2. QED
      BY <2>2, <3>1, AdmissionStep
  <2>6. QED
    BY <1>7, <2>3, <2>4, <2>5 DEF CheckPA
<1>8. CASE CheckAIC
  <2>1. at \in {"strict", "aic"}
    BY <1>8 DEF CheckAIC, Passed, Failed
  <2>2. ~open
    BY <2>1 DEF SessionInv
  <2>3. CASE Passed("aic", sess.registry)
    <3>1. SessionInv' /\ UNCHANGED <<open, over>>
      BY <2>3, PassedSession DEF Passed
    <3>2. QED
      BY <2>2, <3>1, AdmissionStep
  <2>4. CASE Refuse
    <3>1. SessionInv' /\ UNCHANGED <<open, over>>
      BY <1>1, <2>2, <2>4, GotoSession DEF Refuse, Keep
    <3>2. QED
      BY <2>2, <3>1, AdmissionStep
  <2>5. CASE Goto("aic", sess.aic) /\ Keep
    <3>1. SessionInv' /\ UNCHANGED <<open, over>>
      BY <1>1, <2>2, <2>5, GotoSession DEF Keep
    <3>2. QED
      BY <2>2, <3>1, AdmissionStep
  <2>6. QED
    BY <1>8, <2>3, <2>4, <2>5 DEF CheckAIC
<1>9. CASE Open
  <2>1. SessionInv'
    BY <1>1, <1>9, GotoSession DEF Open
  <2>2. OverInv' /\ OverstayBounded' /\ \A name \in DOMAIN Constraints : over'[name] = 0
    BY <1>9, CountsEnd DEF Open
  <2>3. at' = "select" /\ due' = Interval
    BY <1>9 DEF Open, Goto
  <2>4. \A name \in DOMAIN Constraints : over'[name] + due' <= Interval
    BY <2>2, <2>3, IntervalPositive
  <2>5. QED
    BY <2>1, <2>2, <2>3, <2>4 DEF RecheckInv
<1>10. CASE Recheck
  <2>1. CASE at = "select" /\ due = 0 /\ Goto("recheckAIC", sess.aic) /\ Keep
    <3>1. SessionInv'
      BY <1>1, <2>1, GotoSession DEF Keep
    <3>2. OverInv' /\ OverstayBounded'
      BY <2>1, <3>1, RecheckKeeps DEF Keep, Goto, registryVars
    <3>3. Cleared(over', sess'.aic, todo') /\ at' = "recheckAIC"
      BY <2>1 DEF Goto, Cleared
    <3>4. QED
      BY <3>1, <3>2, <3>3 DEF RecheckInv
  <2>2. CASE Passed("recheckAIC", "global")
    <3>1. SessionInv'
      BY <2>2, PassedSession
    <3>2. OverInv' /\ OverstayBounded'
      BY <2>2, <3>1, RecheckKeeps DEF Passed, registryVars
    <3>3. Cleared(over, sess.aic, Tail(todo))
      BY <1>1, <2>2, PassedClears DEF Passed, RecheckInv
    <3>4. Cleared(over', sess'.aic, todo') /\ at' = "recheckAIC"
      BY <2>2, <3>3 DEF Passed
    <3>5. QED
      BY <3>1, <3>2, <3>4 DEF RecheckInv
  <2>3. CASE Cut
    <3>1. SessionInv' /\ ~open' /\ over' = NoOverstay
      BY <1>1, <2>3, GotoSession DEF Cut
    <3>2. QED
      BY <3>1, ClosedStep
  <2>4. CASE RecheckPA
    <3>1. SessionInv'
      BY <1>1, <2>4, GotoSession DEF RecheckPA, Keep
    <3>2. OverInv' /\ OverstayBounded'
      BY <2>4, <3>1, RecheckKeeps DEF RecheckPA, Keep, Goto, registryVars
    <3>3. Cleared(over, sess.aic, <<>>)
      BY <2>4 DEF RecheckPA, Done, RecheckInv
    <3>4. Cleared(over, sess.pa, sess.pa)
      BY DEF Cleared
    <3>5. at' = "recheckPA" /\ todo' = sess.pa /\ UNCHANGED <<sess, over>>
      BY <2>4 DEF RecheckPA, Goto, Keep
    <3>6. QED
      BY <3>1, <3>2, <3>3, <3>4, <3>5 DEF RecheckInv
  <2>5. CASE Passed("recheckPA", "global")
    <3>1. SessionInv'
      BY <2>5, PassedSession
    <3>2. OverInv' /\ OverstayBounded'
      BY <2>5, <3>1, RecheckKeeps DEF Passed, registryVars
    <3>3. Cleared(over, sess.aic, <<>>) /\ Cleared(over, sess.pa, Tail(todo))
      BY <1>1, <2>5, PassedClears DEF Passed, RecheckInv
    <3>4. at' = "recheckPA" /\ todo' = Tail(todo) /\ UNCHANGED <<sess, over>>
      BY <2>5 DEF Passed
    <3>5. QED
      BY <3>1, <3>2, <3>3, <3>4 DEF RecheckInv
  <2>6. CASE Done("recheckPA") /\ Goto("select", <<>>) /\ due' = Interval /\ UNCHANGED <<open, over>>
    <3>1. SessionInv'
      BY <1>1, <2>6, GotoSession
    <3>2. OverInv' /\ OverstayBounded'
      BY <2>6, <3>1, RecheckKeeps DEF Goto, registryVars
    <3>3. Cleared(over, sess.aic, <<>>) /\ Cleared(over, sess.pa, <<>>)
      BY <2>6 DEF Done, RecheckInv
    <3>4. \A name \in DOMAIN Constraints : over[name] = 0
      BY <3>3, AllCleared
    <3>5. \A name \in DOMAIN Constraints : over'[name] + due' <= Interval
      BY <2>6, <3>4, IntervalPositive
    <3>6. at' = "select"
      BY <2>6 DEF Goto
    <3>7. QED
      BY <3>1, <3>2, <3>5, <3>6 DEF RecheckInv
  <2>7. QED
    BY <1>10, <2>1, <2>2, <2>3, <2>4, <2>5, <2>6 DEF Recheck
<1>11. CASE Disconnect
  <2>1. SessionInv' /\ ~open' /\ over' = NoOverstay
    BY <1>11 DEF Disconnect, SessionInv
  <2>2. QED
    BY <2>1, ClosedStep
<1>12. CASE DoneClosed
  <2>1. SessionInv' /\ ~open /\ UNCHANGED <<open, over>>
    BY <1>1, <1>12, GotoSession DEF DoneClosed, Keep
  <2>2. QED
    BY <2>1, AdmissionStep
<1>13. CASE Tick
  <2>1. now' \in 0 .. Day - 1
    BY <1>1, <1>13 DEF Tick, SessionInv
  <2>2. due' \in 0 .. Interval
    BY <1>1, <1>13, IntervalPositive DEF Tick
  <2>3. SessionInv'
    BY <1>13, <2>1, <2>2 DEF Tick, SessionInv
  <2>4. CASE ~open
    <3>1. over' = NoOverstay
      BY <1>13, <2>4, ClosedIsZero DEF Tick, Lasting, Overstays, NoOverstay
    <3>2. QED
      BY <1>13, <2>3, <2>4, <3>1, ClosedStep DEF Tick
  <2>5. CASE open
    <3>1. at = "select" /\ at' = "select" /\ due > 0 /\ due' = due - 1
      BY <1>13, <2>5 DEF Tick, SessionInv
    <3>2. OverInv' /\ \A name \in DOMAIN Constraints : over'[name] = 0 \/ over'[name] = over[name] + 1
      BY <1>13, LastingCounts DEF Tick
    <3>3. \A name \in DOMAIN Constraints : over[name] \in Nat /\ over[name] + due <= Interval
      BY <3>1 DEF OverInv, RecheckInv
    <3>4. \A name \in DOMAIN Constraints : over'[name] + due' <= Interval /\ over'[name] <= Interval
      BY <1>1, <3>1, <3>2, <3>3, IntervalPositive
    <3>5. OverstayBounded'
      BY <3>2, <3>4 DEF OverstayBounded, OverInv
    <3>6. QED
      BY <2>3, <3>1, <3>2, <3>4, <3>5 DEF RecheckInv
  <2>6. QED
    BY <2>4, <2>5
<1>14. CASE UNCHANGED constraintVars
  <2>1. UNCHANGED <<now, regs, resolvers, sess, at, todo, stamp, due, open, over>>
    BY <1>14 DEF constraintVars, registryVars, sessionVars
  <2>2. SessionInv'
    BY <2>1 DEF SessionInv
  <2>3. OverInv' /\ OverstayBounded'
    BY <2>1, <2>2, RecheckKeeps
  <2>4. QED
    BY <2>1, <2>2, <2>3 DEF RecheckInv
<1>15. QED
  BY <1>2, <1>3, <1>4, <1>5, <1>6, <1>7, <1>8, <1>9, <1>10, <1>11, <1>12, <1>13, <1>14
     DEF ConstraintNext, Register, Replace, Remove

\* ConstraintRecheckLoop (constraints.go:581): for any constraints, sessions and
\* evaluators, however often and whenever the registries change, a connection is
\* never open for more than one interval against a constraint that was in force
\* and violated all that time.
THEOREM OverstayBoundedHolds == ConstraintSpec => []OverstayBounded
<1>1. ConstraintInv => OverstayBounded
  BY DEF ConstraintInv, RecheckInv
<1>2. QED
  BY <1>1, InitConstraintInv, NextConstraintInv, PTL DEF ConstraintSpec

-------------------------------------------------------------------------------
(* The administration face *)

Known == Policies \cup {Configured}

RequestRecord ==
  [step : {"idle", "started", "running", "decided", "counted", "done"},
   ok : BOOLEAN, at : Nat, used : Known, since : Nat]

ProbeRecord ==
  [step : {"idle", "err", "total", "granted", "denied", "done"},
   err : Nat, healthy : BOOLEAN,
   total : Nat, granted : Nat, denied : Nat, pending : Nat]

(* The types of the variables the properties speak of. *)
TypeOK ==
  /\ policy \in [Carriers -> Known]
  /\ installed \in Seq(Policies)
  /\ clock \in Nat /\ lastErr \in Nat
  /\ total \in Nat /\ granted \in Nat /\ denied \in Nat
  /\ req \in [Requests -> RequestRecord]
  /\ probe \in [Probes -> ProbeRecord]

(* Every admission counted in is counted out once, or still pending. *)
Balanced == total = granted + denied + Cardinality(Pending)

(* What a probe has loaded so far, completed by what the counters it has    *)
(* not loaded yet hold now, bounds its total from above.                    *)
Bounded(p) ==
  CASE probe[p].step = "granted" -> probe[p].total <= granted + denied + probe[p].pending
    [] probe[p].step = "denied"  -> probe[p].total <= probe[p].granted + denied + probe[p].pending
    [] probe[p].step = "done"    ->
         probe[p].total <= probe[p].granted + probe[p].denied + probe[p].pending
    [] OTHER -> TRUE

CountInv == Balanced /\ \A p \in Probes : Bounded(p)

(* The DecisionServer serves the policy installed last. *)
Served ==
  policy["server"] = IF installed = <<>> THEN Configured ELSE installed[Len(installed)]

(* r's policy was in force when r started, or was installed since. *)
Drawn(r) ==
  \/ req[r].since = 0 /\ req[r].used = Configured
  \/ \E k \in DOMAIN installed : k >= req[r].since /\ installed[k] = req[r].used

(* Only an admission that loaded its policy succeeds, and it holds one that *)
(* was not replaced before it started.                                      *)
Loaded(r) ==
  /\ req[r].since <= Len(installed)
  /\ req[r].step \in {"idle", "started"} => req[r].ok = FALSE
  /\ Via[r] = "server" /\ (req[r].step = "running" \/ req[r].ok = TRUE) => Drawn(r)

PolicyInv == Served /\ \A r \in Requests : Loaded(r)

IInv == TypeOK /\ CountInv /\ PolicyInv
(* Pending is finite, so that Snapshot's backlog is a number. *)
LEMMA PendingFinite == IsFiniteSet(Pending) /\ Cardinality(Pending) \in Nat
  <1>1. Pending \subseteq Requests
    BY DEF Pending
  <1>2. QED
    BY <1>1, AdminAssumption, FS_Subset, FS_CardinalityType

-------------------------------------------------------------------------------
(* Types *)

(* A step of Decide keeps the types. *)
LEMMA DecideType ==
  ASSUME TypeOK, NEW r \in Requests,
         DecideEnter(r) \/ LoadPolicy(r) \/ DecideResult(r) \/ CountResult(r) \/ StoreResult(r)
  PROVE  TypeOK'
  <1> USE AdminAssumption DEF policyVars, counters, healthVars
  <1>1. Len(installed) \in Nat /\ policy[Via[r]] \in Known /\ req[r] \in RequestRecord
    BY DEF TypeOK
  <1>2. UNCHANGED <<policy, installed, probe>>
    BY DEF DecideEnter, LoadPolicy, DecideResult, CountResult, StoreResult
  <1>3. clock' \in Nat /\ lastErr' \in Nat /\ total' \in Nat /\ granted' \in Nat /\ denied' \in Nat
    <2>1. req[r].at \in Nat
      BY <1>1 DEF RequestRecord
    <2>2. clock' \in {clock, clock + 1} /\ total' \in {total, total + 1}
      BY DEF DecideEnter, LoadPolicy, DecideResult, CountResult, StoreResult
    <2>3. granted' \in {granted, granted + 1} /\ denied' \in {denied, denied + 1}
      BY DEF DecideEnter, LoadPolicy, DecideResult, CountResult, StoreResult
    <2>4. lastErr' \in {lastErr, req[r].at}
      BY DEF DecideEnter, LoadPolicy, DecideResult, CountResult, StoreResult
    <2>5. QED
      BY <2>1, <2>2, <2>3, <2>4 DEF TypeOK
  <1>4. req' \in [Requests -> RequestRecord]
    <2>1. CASE DecideEnter(r)
      BY <1>1, <2>1 DEF TypeOK, RequestRecord, DecideEnter
    <2>2. CASE LoadPolicy(r)
      BY <1>1, <2>2 DEF TypeOK, RequestRecord, LoadPolicy
    <2>3. CASE DecideResult(r)
      <3>1. PICK ok \in BOOLEAN :
              req' = [req EXCEPT ![r].step = "decided", ![r].ok = ok, ![r].at = clock + 1]
        BY <2>3 DEF DecideResult
      <3>2. clock + 1 \in Nat
        BY DEF TypeOK
      <3>3. QED
        BY <1>1, <3>1, <3>2 DEF TypeOK, RequestRecord
    <2>4. CASE CountResult(r)
      BY <1>1, <2>4 DEF TypeOK, RequestRecord, CountResult
    <2>5. CASE StoreResult(r)
      BY <1>1, <2>5 DEF TypeOK, RequestRecord, StoreResult
    <2>6. QED
      BY <2>1, <2>2, <2>3, <2>4, <2>5
  <1>5. QED
    BY <1>2, <1>3, <1>4 DEF TypeOK

(* A step of a probe changes only what the probe holds, and keeps its type. *)
LEMMA ProbeType ==
  ASSUME TypeOK, NEW p \in Probes,
         ProbeErr(p) \/ ProbeOK(p) \/ ProbeTotal(p) \/ ProbeGranted(p) \/ ProbeDenied(p)
  PROVE  TypeOK'
  <1> USE DEF policyVars, counters, healthVars
  <1>1. UNCHANGED <<policy, installed, clock, lastErr, counters, req>>
    BY DEF ProbeErr, ProbeOK, ProbeTotal, ProbeGranted, ProbeDenied
  <1>2. Cardinality(Pending) \in Nat /\ Healthy(probe[p].err, lastOK) \in BOOLEAN
    BY PendingFinite DEF Healthy
  <1> HIDE DEF counters
  <1>3. probe' \in [Probes -> ProbeRecord]
    <2>1. CASE ProbeErr(p)
      <3>1. lastErr \in Nat /\ probe \in [Probes -> ProbeRecord]
        BY <1>2 DEF TypeOK
      <3>2. [probe[p] EXCEPT !.step = "err", !.err = lastErr] \in ProbeRecord
        BY <3>1 DEF ProbeRecord
      <3>3. probe' = [probe EXCEPT ![p] = [probe[p] EXCEPT !.step = "err", !.err = lastErr]]
        BY <2>1, <3>1 DEF ProbeErr
      <3>4. QED
        BY <3>1, <3>2, <3>3
    <2>2. CASE ProbeOK(p)
      <3>1. PICK h \in BOOLEAN : h = Healthy(probe[p].err, lastOK)
        BY <1>2
      <3>2. probe \in [Probes -> ProbeRecord]
        BY DEF TypeOK
      <3>3. [probe[p] EXCEPT !.step = "total", !.healthy = h] \in ProbeRecord
        BY <3>2 DEF ProbeRecord
      <3>4. probe' = [probe EXCEPT ![p] = [probe[p] EXCEPT !.step = "total", !.healthy = h]]
        BY <2>2, <3>1, <3>2 DEF ProbeOK
      <3>5. QED
        BY <3>2, <3>3, <3>4
    <2>3. CASE ProbeTotal(p)
      <3>1. PICK c \in Nat : c = Cardinality(Pending)
        BY <1>2
      <3>2. probe' = [probe EXCEPT ![p].step = "granted", ![p].total = total, ![p].pending = c]
        BY <2>3, <3>1 DEF ProbeTotal
      <3>3. total \in Nat /\ probe \in [Probes -> ProbeRecord]
        BY DEF TypeOK
      <3>4. [probe[p] EXCEPT !.step = "granted", !.total = total, !.pending = c] \in ProbeRecord
        BY <3>3 DEF ProbeRecord
      <3>5. probe' = [probe EXCEPT ![p] =
              [probe[p] EXCEPT !.step = "granted", !.total = total, !.pending = c]]
        BY <3>2, <3>3
      <3>6. QED
        BY <3>3, <3>4, <3>5
    <2>4. CASE ProbeGranted(p)
      <3>1. granted \in Nat /\ probe \in [Probes -> ProbeRecord]
        BY <1>2 DEF TypeOK
      <3>2. [probe[p] EXCEPT !.step = "denied", !.granted = granted] \in ProbeRecord
        BY <3>1 DEF ProbeRecord
      <3>3. probe' = [probe EXCEPT ![p] = [probe[p] EXCEPT !.step = "denied", !.granted = granted]]
        BY <2>4, <3>1 DEF ProbeGranted
      <3>4. QED
        BY <3>1, <3>2, <3>3
    <2>5. CASE ProbeDenied(p)
      <3>1. denied \in Nat /\ probe \in [Probes -> ProbeRecord]
        BY <1>2 DEF TypeOK
      <3>2. [probe[p] EXCEPT !.step = "done", !.denied = denied] \in ProbeRecord
        BY <3>1 DEF ProbeRecord
      <3>3. probe' = [probe EXCEPT ![p] = [probe[p] EXCEPT !.step = "done", !.denied = denied]]
        BY <2>5, <3>1 DEF ProbeDenied
      <3>4. QED
        BY <3>1, <3>2, <3>3
    <2>6. QED
      BY <2>1, <2>2, <2>3, <2>4, <2>5
  <1>4. QED
    BY <1>1, <1>3 DEF TypeOK, counters

(* A reload installs policies only. *)
LEMMA ReloadType ==
  ASSUME TypeOK, NEW l \in Reloads, ReloadStore(l) \/ ReloadCount(l) \/ ReloadRefuse(l)
  PROVE  TypeOK'
  <1>1. UNCHANGED <<clock, lastErr, total, granted, denied, req, probe>>
    BY DEF ReloadStore, ReloadCount, ReloadRefuse, counters, healthVars
  <1>2. Offered[l] \in Policies
    BY AdminAssumption
  <1>3. policy' \in [Carriers -> Known] /\ installed' \in Seq(Policies)
    <2>1. CASE ReloadStore(l)
      <3>1. policy' = [policy EXCEPT !["server"] = Offered[l]]
        BY <2>1 DEF ReloadStore
      <3>2. installed' = Append(installed, Offered[l])
        BY <2>1 DEF ReloadStore
      <3>3. policy' \in [Carriers -> Known]
        BY <1>2, <3>1 DEF TypeOK, Known
      <3>4. installed' \in Seq(Policies)
        BY <1>2, <3>2 DEF TypeOK
      <3>5. QED
        BY <3>3, <3>4
    <2>2. CASE ReloadCount(l) \/ ReloadRefuse(l)
      BY <2>2 DEF TypeOK, ReloadCount, ReloadRefuse
    <2>3. QED
      BY <2>1, <2>2
  <1>4. QED
    BY <1>1, <1>3 DEF TypeOK

-------------------------------------------------------------------------------
(* The counters *)

(* The probes' bounds survive while the counters only grow. *)
LEMMA BoundsGrow ==
  ASSUME TypeOK, CountInv, UNCHANGED probe, granted' \in Nat, denied' \in Nat,
         granted' >= granted, denied' >= denied
  PROVE  \A p \in Probes : Bounded(p)'
  <1> SUFFICES ASSUME NEW p \in Probes PROVE Bounded(p)'
    OBVIOUS
  <1>1. Bounded(p)
    BY DEF CountInv
  <1>2. /\ probe[p].total \in Nat /\ probe[p].granted \in Nat
        /\ probe[p].denied \in Nat /\ probe[p].pending \in Nat
    BY DEF TypeOK, ProbeRecord
  <1>3. granted \in Nat /\ denied \in Nat
    BY DEF TypeOK
  <1>4. CASE probe[p].step = "granted"
    BY <1>1, <1>2, <1>3, <1>4 DEF Bounded
  <1>5. CASE probe[p].step = "denied"
    BY <1>1, <1>2, <1>3, <1>5 DEF Bounded
  <1>6. CASE probe[p].step = "done"
    BY <1>1, <1>6 DEF Bounded
  <1>7. CASE probe[p].step \notin {"granted", "denied", "done"}
    BY <1>7 DEF Bounded
  <1>8. QED
    BY <1>4, <1>5, <1>6, <1>7

(* Steps that touch neither a counter, a probe nor the set of pending calls. *)
LEMMA CountFrame ==
  ASSUME TypeOK, CountInv, UNCHANGED <<counters, probe>>, Pending' = Pending
  PROVE  CountInv'
  <1>1. Balanced'
    BY DEF CountInv, Balanced, counters
  <1>2. granted' \in Nat /\ denied' \in Nat /\ granted' >= granted /\ denied' >= denied
    BY DEF TypeOK, counters
  <1>3. \A p \in Probes : Bounded(p)'
    BY <1>2, BoundsGrow
  <1>4. QED
    BY <1>1, <1>3 DEF CountInv

(* A call that is counted in starts to be pending, one that is counted out  *)
(* stops; the steps between and after leave the balance alone.              *)
LEMMA DecideCounts ==
  ASSUME TypeOK, CountInv, NEW r \in Requests,
         DecideEnter(r) \/ LoadPolicy(r) \/ DecideResult(r) \/ CountResult(r) \/ StoreResult(r)
  PROVE  CountInv'
  <1>1. /\ IsFiniteSet(Pending) /\ Cardinality(Pending) \in Nat
        /\ total \in Nat /\ granted \in Nat /\ denied \in Nat
        /\ total = granted + denied + Cardinality(Pending)
    BY PendingFinite DEF TypeOK, CountInv, Balanced
  <1>2. CASE DecideEnter(r)
    <2>1. /\ total' = total + 1
          /\ UNCHANGED <<granted, denied, probe>>
          /\ req' = [req EXCEPT ![r].step = "started", ![r].since = Len(installed)]
          /\ req[r].step = "idle"
      BY <1>2 DEF DecideEnter
    <2>2. Pending' = Pending \cup {r} /\ r \notin Pending
      BY <2>1 DEF Pending, TypeOK, RequestRecord
    <2>3. Cardinality(Pending') = Cardinality(Pending) + 1
      BY <1>1, <2>2, FS_AddElement
    <2>4. Balanced'
      BY <1>1, <2>1, <2>3 DEF Balanced
    <2>5. \A p \in Probes : Bounded(p)'
      BY <1>1, <2>1, BoundsGrow
    <2>6. QED
      BY <2>4, <2>5 DEF CountInv
  <1>3. CASE CountResult(r)
    <2>1. /\ UNCHANGED <<total, probe>>
          /\ req' = [req EXCEPT ![r].step = "counted"]
          /\ req[r].step = "decided"
      BY <1>3 DEF CountResult
    <2>2. \/ granted' = granted + 1 /\ denied' = denied
          \/ granted' = granted /\ denied' = denied + 1
      BY <1>3 DEF CountResult
    <2>3. Pending' = Pending \ {r} /\ r \in Pending
      BY <2>1 DEF Pending, TypeOK, RequestRecord
    <2>4. Cardinality(Pending') = Cardinality(Pending) - 1
      BY <1>1, <2>3, FS_RemoveElement
    <2>5. Balanced'
      BY <1>1, <2>1, <2>2, <2>4 DEF Balanced
    <2>6. granted' \in Nat /\ denied' \in Nat /\ granted' >= granted /\ denied' >= denied
      BY <1>1, <2>2
    <2>7. \A p \in Probes : Bounded(p)'
      BY <2>1, <2>6, BoundsGrow
    <2>8. QED
      BY <2>5, <2>7 DEF CountInv
  <1>4. CASE LoadPolicy(r)
    <2>1. Pending' = Pending
      BY <1>4 DEF Pending, LoadPolicy, TypeOK, RequestRecord
    <2>2. QED
      BY <1>4, <2>1, CountFrame DEF LoadPolicy
  <1>5. CASE DecideResult(r)
    <2>1. PICK ok \in BOOLEAN :
            req' = [req EXCEPT ![r].step = "decided", ![r].ok = ok, ![r].at = clock + 1]
      BY <1>5 DEF DecideResult
    <2>2. req[r].step \in {"started", "running"}
      BY <1>5 DEF DecideResult
    <2>3. Pending' = Pending
      BY <2>1, <2>2 DEF Pending, TypeOK, RequestRecord
    <2>4. QED
      BY <1>5, <2>3, CountFrame DEF DecideResult
  <1>6. CASE StoreResult(r)
    <2>1. Pending' = Pending
      BY <1>6 DEF Pending, StoreResult, TypeOK, RequestRecord
    <2>2. QED
      BY <1>6, <2>1, CountFrame DEF StoreResult
  <1>7. QED
    BY <1>2, <1>3, <1>4, <1>5, <1>6

(* A probe's load replaces a counter by its value at that moment, which    *)
(* keeps the bound; the first load starts it from the balance.              *)
LEMMA ProbeCounts ==
  ASSUME TypeOK, CountInv, NEW p \in Probes,
         ProbeErr(p) \/ ProbeOK(p) \/ ProbeTotal(p) \/ ProbeGranted(p) \/ ProbeDenied(p)
  PROVE  CountInv'
  <1>1. UNCHANGED <<total, granted, denied, req>>
    BY DEF ProbeErr, ProbeOK, ProbeTotal, ProbeGranted, ProbeDenied, counters
  <1>2. Balanced'
    BY <1>1 DEF CountInv, Balanced, Pending
  <1>3. \A q \in Probes \ {p} : probe'[q] = probe[q]
    BY DEF ProbeErr, ProbeOK, ProbeTotal, ProbeGranted, ProbeDenied, TypeOK
  <1>4. \A q \in Probes \ {p} : Bounded(q)'
    BY <1>1, <1>3 DEF CountInv, Bounded
  <1>5. Bounded(p)'
    <2>1. CASE ProbeErr(p)
      BY <2>1 DEF ProbeErr, Bounded, TypeOK, ProbeRecord
    <2>2. CASE ProbeOK(p)
      BY <2>2 DEF ProbeOK, Bounded, TypeOK, ProbeRecord
    <2>3. CASE ProbeTotal(p)
      <3>1. /\ probe'[p].step = "granted" /\ probe'[p].total = total
            /\ probe'[p].pending = Cardinality(Pending)
        BY <2>3 DEF ProbeTotal, TypeOK, ProbeRecord
      <3>2. total <= granted + denied + Cardinality(Pending)
        BY PendingFinite DEF CountInv, Balanced, TypeOK
      <3>3. QED
        BY <1>1, <3>1, <3>2 DEF Bounded
    <2>4. CASE ProbeGranted(p)
      <3>1. /\ probe'[p].step = "denied" /\ probe'[p].granted = granted
            /\ probe'[p].total = probe[p].total /\ probe'[p].pending = probe[p].pending
            /\ probe[p].step = "granted"
        BY <2>4 DEF ProbeGranted, TypeOK, ProbeRecord
      <3>2. probe[p].total <= granted + denied + probe[p].pending
        BY <3>1 DEF CountInv, Bounded
      <3>3. QED
        BY <1>1, <3>1, <3>2 DEF Bounded
    <2>5. CASE ProbeDenied(p)
      <3>1. /\ probe'[p].step = "done" /\ probe'[p].denied = denied
            /\ probe'[p].granted = probe[p].granted
            /\ probe'[p].total = probe[p].total /\ probe'[p].pending = probe[p].pending
            /\ probe[p].step = "denied"
        BY <2>5 DEF ProbeDenied, TypeOK, ProbeRecord
      <3>2. probe[p].total <= probe[p].granted + denied + probe[p].pending
        BY <3>1 DEF CountInv, Bounded
      <3>3. QED
        BY <3>1, <3>2 DEF Bounded
    <2>6. QED
      BY <2>1, <2>2, <2>3, <2>4, <2>5
  <1>6. QED
    BY <1>2, <1>4, <1>5 DEF CountInv

-------------------------------------------------------------------------------
(* The policy *)

(* What r holds stays drawn while r is not touched and policies are only    *)
(* appended.                                                                *)
LEMMA LoadedStays ==
  ASSUME NEW r \in Requests, installed \in Seq(Policies), installed' \in Seq(Policies),
         req[r].since \in Nat, Loaded(r), UNCHANGED req[r],
         Len(installed') >= Len(installed),
         \A k \in DOMAIN installed : installed'[k] = installed[k]
  PROVE  Loaded(r)'
  <1>1. DOMAIN installed \subseteq DOMAIN installed'
    OBVIOUS
  <1>2. Drawn(r) => Drawn(r)'
    BY <1>1 DEF Drawn
  <1>3. req'[r].since <= Len(installed')
    BY DEF Loaded
  <1>4. QED
    BY <1>2, <1>3 DEF Loaded

(* What the DecisionServer serves is drawn for every call that started by   *)
(* now.                                                                     *)
LEMMA ServedIsDrawn ==
  ASSUME TypeOK, Served, NEW n \in Nat, n <= Len(installed)
  PROVE  \/ n = 0 /\ policy["server"] = Configured
         \/ \E k \in DOMAIN installed : k >= n /\ installed[k] = policy["server"]
  <1>1. installed \in Seq(Policies)
    BY DEF TypeOK
  <1>2. CASE installed = <<>>
    BY <1>2 DEF Served
  <1>3. CASE installed # <<>>
    <2>1. Len(installed) \in DOMAIN installed
      BY <1>1, <1>3
    <2>2. QED
      BY <1>3, <2>1 DEF Served
  <1>4. QED
    BY <1>2, <1>3

(* A step of Decide keeps the policy each call was decided under. *)
LEMMA DecidePolicy ==
  ASSUME TypeOK, PolicyInv, NEW r \in Requests,
         DecideEnter(r) \/ LoadPolicy(r) \/ DecideResult(r) \/ CountResult(r) \/ StoreResult(r)
  PROVE  PolicyInv'
  <1> USE DEF policyVars
  <1>1. UNCHANGED <<policy, installed>>
    BY DEF DecideEnter, LoadPolicy, DecideResult, CountResult, StoreResult
  <1>2. installed \in Seq(Policies) /\ \A q \in Requests : req[q].since \in Nat
    BY DEF TypeOK, RequestRecord
  <1>3. Served'
    BY <1>1 DEF PolicyInv, Served
  <1>4. \A q \in Requests \ {r} : UNCHANGED req[q]
    BY DEF DecideEnter, LoadPolicy, DecideResult, CountResult, StoreResult, TypeOK
  <1>5. \A q \in Requests \ {r} : Loaded(q)'
    BY <1>1, <1>2, <1>4, LoadedStays DEF PolicyInv
  <1>6. Loaded(r)
    BY DEF PolicyInv
  <1>7. Loaded(r)'
    <2>1. CASE DecideEnter(r)
      <3>1. /\ req'[r].step = "started" /\ req'[r].since = Len(installed)
            /\ req'[r].ok = req[r].ok /\ req[r].step = "idle"
        BY <2>1 DEF DecideEnter, TypeOK, RequestRecord
      <3>2. QED
        BY <1>1, <1>2, <1>6, <3>1 DEF Loaded
    <2>2. CASE LoadPolicy(r)
      <3>1. /\ req'[r].step = "running" /\ req'[r].used = policy[Via[r]]
            /\ req'[r].ok = req[r].ok /\ req'[r].since = req[r].since
        BY <2>2 DEF LoadPolicy, TypeOK, RequestRecord
      <3>2. Via[r] = "server" => Drawn(r)'
        BY <1>1, <1>2, <1>6, <3>1, ServedIsDrawn DEF Drawn, Loaded, PolicyInv
      <3>3. req'[r].since <= Len(installed')
        BY <1>1, <1>6, <3>1 DEF Loaded
      <3>4. QED
        BY <3>1, <3>2, <3>3 DEF Loaded
    <2>3. CASE DecideResult(r)
      <3>1. PICK ok \in BOOLEAN :
              /\ ok => req[r].step = "running"
              /\ req' = [req EXCEPT ![r].step = "decided", ![r].ok = ok, ![r].at = clock + 1]
        BY <2>3 DEF DecideResult
      <3>2. /\ req'[r].step = "decided" /\ req'[r].ok = ok
            /\ req'[r].used = req[r].used /\ req'[r].since = req[r].since
        BY <3>1 DEF TypeOK, RequestRecord
      <3>3. Drawn(r) => Drawn(r)'
        BY <1>1, <3>2 DEF Drawn
      <3>4. req'[r].since <= Len(installed')
        BY <1>1, <1>6, <3>2 DEF Loaded
      <3>5. QED
        BY <1>6, <3>1, <3>2, <3>3, <3>4 DEF Loaded
    <2>4. CASE CountResult(r) \/ StoreResult(r)
      <3>1. /\ req'[r].step \in {"counted", "done"} /\ req'[r].ok = req[r].ok
            /\ req'[r].used = req[r].used /\ req'[r].since = req[r].since
        BY <2>4 DEF CountResult, StoreResult, TypeOK, RequestRecord
      <3>2. Drawn(r) => Drawn(r)'
        BY <1>1, <3>1 DEF Drawn
      <3>3. QED
        BY <1>1, <1>6, <3>1, <3>2 DEF Loaded
    <2>5. QED
      BY <2>1, <2>2, <2>3, <2>4
  <1>8. QED
    BY <1>3, <1>5, <1>7 DEF PolicyInv

(* A reload appends what the DecisionServer serves from then on. *)
LEMMA ReloadPolicies ==
  ASSUME TypeOK, PolicyInv, NEW l \in Reloads, ReloadStore(l) \/ ReloadCount(l) \/ ReloadRefuse(l)
  PROVE  PolicyInv'
  <1>1. installed \in Seq(Policies) /\ \A q \in Requests : req[q].since \in Nat
    BY DEF TypeOK, RequestRecord
  <1>2. CASE ReloadStore(l)
    <2>1. /\ policy' = [policy EXCEPT !["server"] = Offered[l]]
          /\ installed' = Append(installed, Offered[l])
          /\ UNCHANGED req
      BY <1>2 DEF ReloadStore
    <2>2. Offered[l] \in Policies
      BY AdminAssumption
    <2>3. /\ installed' \in Seq(Policies) /\ Len(installed') = Len(installed) + 1
          /\ installed'[Len(installed')] = Offered[l]
          /\ \A k \in DOMAIN installed : installed'[k] = installed[k]
      BY <1>1, <2>1, <2>2
    <2>4. policy'["server"] = Offered[l]
      BY <2>1 DEF TypeOK, Carriers
    <2>5. Served'
      BY <1>1, <2>3, <2>4 DEF Served
    <2>6. \A q \in Requests : Loaded(q)'
      BY <1>1, <2>1, <2>3, LoadedStays DEF PolicyInv
    <2>7. QED
      BY <2>5, <2>6 DEF PolicyInv
  <1>3. CASE ReloadCount(l) \/ ReloadRefuse(l)
    <2>1. UNCHANGED <<policy, installed, req>>
      BY <1>3 DEF ReloadCount, ReloadRefuse
    <2>2. QED
      BY <2>1 DEF PolicyInv, Served, Loaded, Drawn
  <1>4. QED
    BY <1>2, <1>3

-------------------------------------------------------------------------------
(* The theorems *)

(* IInv holds initially and every step keeps it. *)
LEMMA IInvInductive == (Init => IInv) /\ (IInv /\ [Next]_vars => IInv')
  <1>1. Init => IInv
    <2> SUFFICES ASSUME Init PROVE IInv
      OBVIOUS
    <2>1. TypeOK
      BY DEF Init, TypeOK, Known, RequestRecord, ProbeRecord
    <2>2. Pending = {}
      BY DEF Init, Pending
    <2>3. Balanced
      BY <2>2, FS_EmptySet DEF Init, Balanced
    <2>4. \A p \in Probes : Bounded(p)
      BY DEF Init, Bounded
    <2>5. PolicyInv
      BY DEF Init, PolicyInv, Served, Loaded, Carriers
    <2>6. QED
      BY <2>1, <2>3, <2>4, <2>5 DEF IInv, CountInv
  <1>2. ASSUME IInv, [Next]_vars PROVE IInv'
    <2> USE <1>2 DEF IInv
    <2>1. ASSUME NEW r \in Requests,
                 DecideEnter(r) \/ LoadPolicy(r) \/ DecideResult(r) \/ CountResult(r) \/ StoreResult(r)
          PROVE  IInv'
      BY <2>1, DecideType, DecideCounts, DecidePolicy
    <2>2. ASSUME NEW l \in Reloads, ReloadStore(l) \/ ReloadCount(l) \/ ReloadRefuse(l)
          PROVE  IInv'
      <3>1. UNCHANGED <<counters, probe, req>>
        BY <2>2 DEF ReloadStore, ReloadCount, ReloadRefuse
      <3>2. CountInv'
        BY <3>1, CountFrame DEF Pending
      <3>3. QED
        BY <2>2, <3>2, ReloadType, ReloadPolicies
    <2>3. ASSUME NEW p \in Probes,
                 ProbeErr(p) \/ ProbeOK(p) \/ ProbeTotal(p) \/ ProbeGranted(p) \/ ProbeDenied(p)
          PROVE  IInv'
      <3>1. UNCHANGED <<policy, installed, req>>
        BY <2>3 DEF ProbeErr, ProbeOK, ProbeTotal, ProbeGranted, ProbeDenied, policyVars
      <3>2. PolicyInv'
        BY <3>1 DEF PolicyInv, Served, Loaded, Drawn
      <3>3. QED
        BY <2>3, <3>2, ProbeType, ProbeCounts
    <2>4. CASE UNCHANGED vars
      <3>1. UNCHANGED <<policy, installed, clock, lastErr, counters, req, probe>>
        BY <2>4 DEF vars, policyVars, healthVars
      <3>2. TypeOK'
        BY <3>1 DEF TypeOK, counters
      <3>3. CountInv'
        BY <3>1, CountFrame DEF Pending
      <3>4. PolicyInv'
        BY <3>1 DEF PolicyInv, Served, Loaded, Drawn
      <3>5. QED
        BY <3>2, <3>3, <3>4
    <2>5. QED
      BY <2>1, <2>2, <2>3, <2>4 DEF Next
  <1>3. QED
    BY <1>1, <1>2

(* Snapshot loads the total before the verdicts, so a probe never reports   *)
(* more unfinished admissions than were running at that load, whatever      *)
(* Decide calls do between its loads.                                       *)
THEOREM BacklogNotOverstatedHolds == Spec => []BacklogNotOverstated
  <1>1. IInv => BacklogNotOverstated
    BY DEF IInv, CountInv, Bounded, BacklogNotOverstated
  <1>2. QED
    BY <1>1, IInvInductive, PTL DEF Spec

(* An admission of the DecisionServer that succeeds was decided under a     *)
(* policy that no reload had replaced when the admission started, for any   *)
(* interleaving of admissions with ReloadPolicy.                            *)
THEOREM ReloadReachesServerHolds == Spec => []ReloadReachesServer
  <1>1. IInv => ReloadReachesServer
    BY DEF IInv, TypeOK, RequestRecord, PolicyInv, Loaded, Drawn, ReloadReachesServer, Current
  <1>2. QED
    BY <1>1, IInvInductive, PTL DEF Spec

-------------------------------------------------------------------------------
(* Rules on violations *)

Violations == [sig : RiskSignals, at : Int]

\* short keeps entries of long, each from a place of its own: g[j] is the place
\* of short's j-th entry.
Picks(short, long, g) ==
  /\ g \in [DOMAIN short -> DOMAIN long]
  /\ \A j \in DOMAIN short : short[j] = long[g[j]]
  /\ \A j, k \in DOMAIN short : g[j] = g[k] => j = k
Picked(g, short) == {g[j] : j \in DOMAIN short}

\* The loop of one rule keeps exactly what is within its window.
LEMMA PrunedOf ==
  ASSUME NEW list \in Seq(Violations), NEW r \in RiskRule, NEW when \in Int
  PROVE  /\ Pruned(list, r, when) \in Seq(Violations)
         /\ \A j \in DOMAIN Pruned(list, r, when) : Within(r, when, Pruned(list, r, when)[j])
         /\ \E g : /\ Picks(Pruned(list, r, when), list, g)
                   /\ \A p \in DOMAIN list : Within(r, when, list[p]) => p \in Picked(g, Pruned(list, r, when))
  <1> DEFINE n == Len(list)
             Step(K, j) == IF Within(r, when, list[j]) THEN Append(K[j - 1], list[j]) ELSE K[j - 1]
             Is(K, m) == K = [j \in 0 .. m |-> IF j = 0 THEN <<>> ELSE Step(K, j)]
             Some(m) == \E K \in [0 .. m -> Seq(Violations)] : Is(K, m)
             T == {m \in Nat : m <= n => Some(m)}
  <1>1. n \in Nat /\ DOMAIN list = 1 .. n /\ \A j \in 1 .. n : list[j] \in Violations
    OBVIOUS
  <1> DEFINE Of == CHOOSE K : Is(K, n)
  <1>2. Pruned(list, r, when) = Of[n]
    BY DEF Pruned
  <1> HIDE DEF n
  <1>3. 0 \in T
    <2>1. [j \in 0 .. 0 |-> <<>>] \in [0 .. 0 -> Seq(Violations)] /\ Is([j \in 0 .. 0 |-> <<>>], 0)
      OBVIOUS
    <2> HIDE DEF Is
    <2>2. Some(0)
      BY <2>1
    <2>3. QED
      BY <2>2
  <1>4. ASSUME NEW m \in Nat, m \in T PROVE m + 1 \in T
    <2> SUFFICES ASSUME m + 1 <= n PROVE Some(m + 1)
      <3> HIDE DEF Some
      <3> QED
        OBVIOUS
    <2>1. PICK K \in [0 .. m -> Seq(Violations)] : Is(K, m)
      <3> HIDE DEF Is
      <3> QED
        BY <1>1, <1>4
    <2> DEFINE U == [j \in 0 .. m + 1 |-> IF j = m + 1 THEN IF Within(r, when, list[m + 1]) THEN Append(K[m], list[m + 1]) ELSE K[m] ELSE K[j]]
    <2>2. U \in [0 .. m + 1 -> Seq(Violations)]
      <3>1. list[m + 1] \in Violations /\ K[m] \in Seq(Violations)
        BY <1>1
      <3>2. QED
        BY <3>1
    <2>3. \A j \in 0 .. m + 1 : U[j] = IF j = 0 THEN <<>> ELSE Step(U, j)
      <3>1. U[0] = <<>>
        <4>1. U[0] = K[0]
          OBVIOUS
        <4>2. K[0] = <<>>
          BY <2>1
        <4>3. QED
          BY <4>1, <4>2
      <3>2. ASSUME NEW j \in 1 .. m PROVE U[j] = Step(U, j)
        <4>1. U[j] = K[j] /\ U[j - 1] = K[j - 1]
          OBVIOUS
        <4>2. K[j] = Step(K, j)
          <5> HIDE DEF Step
          <5> QED
            BY <2>1
        <4>3. QED
          BY <4>1, <4>2
      <3>3. U[m + 1] = Step(U, m + 1)
        <4>1. U[(m + 1) - 1] = K[m]
          OBVIOUS
        <4>2. QED
          BY <4>1
      <3> HIDE DEF U, Step
      <3>4. \A j \in 0 .. m + 1 : j = 0 \/ j \in 1 .. m \/ (j = m + 1 /\ j # 0)
        OBVIOUS
      <3>5. QED
        BY <3>1, <3>2, <3>3, <3>4
    <2> HIDE DEF Step
    <2>4. Is(U, m + 1)
      BY <2>3
    <2> HIDE DEF U, Is
    <2>5. QED
      BY <2>2, <2>4
  <1>5. Some(n)
    <2> HIDE DEF T, Some
    <2>1. n \in T
      BY <1>1, <1>3, <1>4, SetInduction
    <2>2. QED
      BY <1>1, <2>1 DEF T
  <1>6. Is(Of, n)
    <2> HIDE DEF Is
    <2>1. PICK K : Is(K, n)
      BY <1>5
    <2>2. QED
      BY <2>1
  <1> HIDE DEF Of, T, Some
  <1>7. Of[0] = <<>> /\ \A j \in 1 .. n : Of[j] = Step(Of, j)
    <2> HIDE DEF Step
    <2>1. Of = [j \in 0 .. n |-> IF j = 0 THEN <<>> ELSE Step(Of, j)]
      BY <1>6
    <2> HIDE DEF Is
    <2>2. Of[0] = <<>>
      BY <1>1, <2>1
    <2>3. ASSUME NEW j \in 1 .. n PROVE Of[j] = Step(Of, j)
      BY <1>1, <2>1
    <2>4. QED
      BY <2>2, <2>3
  <1> HIDE DEF Is
  <1> DEFINE Good(m, g) ==
               /\ Of[m] \in Seq(Violations)
               /\ g \in [1 .. Len(Of[m]) -> 1 .. m]
               /\ \A j \in 1 .. Len(Of[m]) : Of[m][j] = list[g[j]] /\ Within(r, when, Of[m][j])
               /\ \A j, k \in 1 .. Len(Of[m]) : g[j] = g[k] => j = k
               /\ \A p \in 1 .. m : Within(r, when, list[p]) => \E j \in 1 .. Len(Of[m]) : g[j] = p
             Q == {m \in Nat : m <= n => \E g : Good(m, g)}
  <1>8. 0 \in Q
    <2>1. Of[0] \in Seq(Violations) /\ Len(Of[0]) = 0
      BY <1>7
    <2>2. Good(0, [j \in 1 .. 0 |-> 0])
      BY <2>1
    <2> HIDE DEF Good
    <2>3. QED
      BY <2>2
  <1>9. ASSUME NEW m \in Nat, m \in Q PROVE m + 1 \in Q
    <2> SUFFICES ASSUME m + 1 <= n PROVE \E g : Good(m + 1, g)
      <3> HIDE DEF Good
      <3> QED
        OBVIOUS
    <2>1. PICK g : Good(m, g)
      <3> HIDE DEF Good
      <3> QED
        BY <1>1, <1>9
    <2>2. list[m + 1] \in Violations /\ m + 1 \in 1 .. n
      BY <1>1
    <2>3. Of[m + 1] = IF Within(r, when, list[m + 1]) THEN Append(Of[m], list[m + 1]) ELSE Of[m]
      <3>1. (m + 1) - 1 = m
        OBVIOUS
      <3>2. QED
        BY <1>7, <2>2, <3>1
    <2> DEFINE len == Len(Of[m])
    <2>4. Of[m] \in Seq(Violations) /\ len \in Nat
      BY <2>1
    <2>5. CASE ~Within(r, when, list[m + 1])
      <3>1. Of[m + 1] = Of[m]
        BY <2>3, <2>5
      <3>2. g \in [1 .. len -> 1 .. m + 1]
        BY <2>1, <2>4
      <3>3. \A p \in 1 .. m + 1 : p = m + 1 \/ p \in 1 .. m
        OBVIOUS
      <3>4. Good(m + 1, g)
        BY <2>1, <2>4, <2>5, <3>1, <3>2, <3>3
      <3> HIDE DEF Good
      <3>5. QED
        BY <3>4
    <2>6. CASE Within(r, when, list[m + 1])
      <3> DEFINE f == [j \in 1 .. len + 1 |-> IF j = len + 1 THEN m + 1 ELSE g[j]]
                 new == Of[m + 1]
      <3>1. /\ new \in Seq(Violations) /\ Len(new) = len + 1 /\ new[len + 1] = list[m + 1]
            /\ \A j \in 1 .. len : new[j] = Of[m][j]
        BY <2>2, <2>3, <2>4, <2>6
      <3> HIDE DEF new
      <3>2. \A j \in 1 .. len + 1 : j = len + 1 \/ j \in 1 .. len
        BY <2>4
      <3>3. f \in [1 .. len + 1 -> 1 .. m + 1] /\ f[len + 1] = m + 1 /\ \A j \in 1 .. len : f[j] = g[j] /\ f[j] \in 1 .. m
        <4>1. g \in [1 .. len -> 1 .. m]
          BY <2>1
        <4>2. \A j \in 1 .. len : g[j] \in 1 .. m /\ g[j] \in 1 .. m + 1 /\ j # len + 1
          BY <2>4, <4>1
        <4>3. \A j \in 1 .. len + 1 : (IF j = len + 1 THEN m + 1 ELSE g[j]) \in 1 .. m + 1
          BY <2>4, <3>2, <4>2
        <4>4. f \in [1 .. len + 1 -> 1 .. m + 1]
          BY <4>3
        <4>5. len + 1 \in 1 .. len + 1 /\ \A j \in 1 .. len : j \in 1 .. len + 1
          BY <2>4
        <4>6. QED
          BY <4>2, <4>4, <4>5
      <3> HIDE DEF f
      <3>4. \A j \in 1 .. len + 1 : new[j] = list[f[j]] /\ Within(r, when, new[j])
        BY <2>1, <2>6, <3>1, <3>2, <3>3
      <3>5. ASSUME NEW j \in 1 .. len + 1, NEW k \in 1 .. len + 1, f[j] = f[k] PROVE j = k
        <4>1. \A i \in 1 .. len : f[i] # m + 1 /\ f[i] = g[i]
          BY <3>3
        <4>2. CASE j \in 1 .. len /\ k \in 1 .. len
          BY <2>1, <3>5, <4>1, <4>2
        <4>3. CASE j = len + 1 \/ k = len + 1
          BY <3>2, <3>3, <3>5, <4>1, <4>3
        <4>4. QED
          BY <3>2, <4>2, <4>3
      <3>6. ASSUME NEW p \in 1 .. m + 1, Within(r, when, list[p]) PROVE \E j \in 1 .. len + 1 : f[j] = p
        <4>1. CASE p = m + 1
          BY <2>4, <3>3, <4>1
        <4>2. CASE p # m + 1
          <5>1. PICK j \in 1 .. len : g[j] = p
            BY <2>1, <3>6, <4>2
          <5>2. j \in 1 .. len + 1 /\ f[j] = p
            BY <2>4, <3>3, <5>1
          <5>3. QED
            BY <5>2
        <4>3. QED
          BY <4>1, <4>2
      <3>7. Good(m + 1, f)
        BY <3>1, <3>3, <3>4, <3>5, <3>6 DEF new
      <3> HIDE DEF Good
      <3>8. QED
        BY <3>7
    <2>7. QED
      BY <2>5, <2>6
  <1>10. PICK g : Good(n, g)
    <2> HIDE DEF Q, Good
    <2>1. n \in Q
      BY <1>1, <1>8, <1>9, SetInduction
    <2>2. QED
      BY <1>1, <2>1 DEF Q
  <1>11. Picks(Of[n], list, g) /\ \A p \in DOMAIN list : Within(r, when, list[p]) => p \in Picked(g, Of[n])
    <2> DEFINE new == Of[n]
    <2>1. /\ new \in Seq(Violations)
          /\ g \in [1 .. Len(new) -> 1 .. n]
          /\ \A j \in 1 .. Len(new) : new[j] = list[g[j]]
          /\ \A j, k \in 1 .. Len(new) : g[j] = g[k] => j = k
          /\ \A p \in 1 .. n : Within(r, when, list[p]) => \E j \in 1 .. Len(new) : g[j] = p
      BY <1>10
    <2> HIDE DEF new, Good, Q
    <2>2. DOMAIN new = 1 .. Len(new)
      BY <2>1
    <2>3. Picks(new, list, g)
      BY <1>1, <2>1, <2>2 DEF Picks
    <2>4. \A p \in DOMAIN list : Within(r, when, list[p]) => p \in Picked(g, new)
      BY <1>1, <2>1, <2>2 DEF Picked
    <2>5. QED
      BY <2>3, <2>4 DEF new
  <1>12. Of[n] \in Seq(Violations) /\ \A j \in 1 .. Len(Of[n]) : Within(r, when, Of[n][j])
    BY <1>10
  <1> HIDE DEF Good, Q
  <1>13. DOMAIN Of[n] = 1 .. Len(Of[n])
    BY <1>12
  <1>14. QED
    BY <1>2, <1>11, <1>12, <1>13, Zenon

\* A rule's numbers.
LEMMA RuleTypes ==
  ASSUME NEW r \in RiskRule
  PROVE  Window(r) \in Int /\ Threshold(r) \in Int /\ Threshold(r) > 0
  BY RiskAssumption DEF RiskRule, Window, Threshold

\* s[p] is too old for some rule by the time of another violation.
Aged(s, p) == \E m \in DOMAIN s, k \in DOMAIN rules : s[m].at - s[p].at > Window(rules[k])

\* What is left of the history s of an agent: nothing that was not in it, and
\* all that has not aged.
LeftOf(list, s) ==
  \E g : /\ Picks(list, s, g)
         /\ \A p \in DOMAIN s : p \in Picked(g, list) \/ Aged(s, p)

\* A new violation goes to the end of both.
LEMMA AppendLeft ==
  ASSUME NEW list \in Seq(Violations), NEW s \in Seq(Violations), NEW v \in Violations, LeftOf(list, s)
  PROVE  LeftOf(Append(list, v), Append(s, v))
  <1>1. PICK g : Picks(list, s, g) /\ \A p \in DOMAIN s : p \in Picked(g, list) \/ Aged(s, p)
    BY DEF LeftOf
  <1> DEFINE n == Len(list)
             m == Len(s)
             l2 == Append(list, v)
             s2 == Append(s, v)
             f == [j \in 1 .. n + 1 |-> IF j = n + 1 THEN m + 1 ELSE g[j]]
  <1>2. /\ n \in Nat /\ m \in Nat /\ DOMAIN list = 1 .. n /\ DOMAIN s = 1 .. m
        /\ DOMAIN l2 = 1 .. n + 1 /\ DOMAIN s2 = 1 .. m + 1
        /\ l2[n + 1] = v /\ s2[m + 1] = v
        /\ \A j \in 1 .. n : l2[j] = list[j]
        /\ \A j \in 1 .. m : s2[j] = s[j]
    OBVIOUS
  <1>3. /\ g \in [1 .. n -> 1 .. m]
        /\ \A j \in 1 .. n : list[j] = s[g[j]]
        /\ \A j, k \in 1 .. n : g[j] = g[k] => j = k
    BY <1>1, <1>2 DEF Picks
  <1> HIDE DEF n, m, l2, s2
  <1>4. \A j \in 1 .. n + 1 : j = n + 1 \/ j \in 1 .. n
    BY <1>2
  <1>5. /\ f \in [1 .. n + 1 -> 1 .. m + 1] /\ f[n + 1] = m + 1
        /\ \A j \in 1 .. n : f[j] = g[j] /\ f[j] \in 1 .. m /\ f[j] # m + 1
    BY <1>2, <1>3, <1>4
  <1> HIDE DEF f
  <1>6. \A j \in 1 .. n + 1 : l2[j] = s2[f[j]]
    BY <1>2, <1>3, <1>4, <1>5
  <1>7. ASSUME NEW j \in 1 .. n + 1, NEW k \in 1 .. n + 1, f[j] = f[k] PROVE j = k
    <2>1. CASE j \in 1 .. n /\ k \in 1 .. n
      BY <1>3, <1>5, <1>7, <2>1
    <2>2. CASE j = n + 1 \/ k = n + 1
      BY <1>4, <1>5, <1>7, <2>2
    <2>3. QED
      BY <1>4, <2>1, <2>2
  <1>8. Picks(l2, s2, f)
    BY <1>2, <1>5, <1>6, <1>7 DEF Picks
  <1>9. ASSUME NEW p \in 1 .. m + 1 PROVE p \in Picked(f, l2) \/ Aged(s2, p)
    <2>1. CASE p = m + 1
      <3>1. n + 1 \in DOMAIN l2
        BY <1>2
      <3>2. QED
        BY <1>5, <2>1, <3>1 DEF Picked
    <2>2. CASE p # m + 1
      <3>1. p \in 1 .. m
        BY <1>2, <2>2
      <3>2. p \in Picked(g, list) \/ Aged(s, p)
        BY <1>1, <1>2, <3>1
      <3>3. CASE p \in Picked(g, list)
        <4>1. PICK j \in 1 .. n : p = g[j]
          BY <1>2, <3>3 DEF Picked
        <4>2. j \in DOMAIN l2 /\ f[j] = p
          BY <1>2, <1>5, <4>1
        <4>3. QED
          BY <4>2 DEF Picked
      <3>4. CASE Aged(s, p)
        <4>1. PICK q \in 1 .. m, k \in DOMAIN rules : s[q].at - s[p].at > Window(rules[k])
          BY <1>2, <3>4 DEF Aged
        <4>2. q \in DOMAIN s2 /\ s2[q] = s[q] /\ s2[p] = s[p]
          BY <1>2, <3>1, <4>1
        <4>3. QED
          BY <4>1, <4>2 DEF Aged
      <3>5. QED
        BY <3>2, <3>3, <3>4
    <2>3. QED
      BY <2>1, <2>2
  <1>10. QED
    BY <1>2, <1>8, <1>9 DEF LeftOf, l2, s2

\* What a rule takes off the list has aged by the time of the last violation.
LEMMA PruneLeft ==
  ASSUME rules \in Seq(RiskRule), NEW list \in Seq(Violations), NEW s \in Seq(Violations),
         LeftOf(list, s), s # <<>>, NEW i \in DOMAIN rules
  PROVE  LeftOf(Pruned(list, rules[i], s[Len(s)].at), s)
  <1> DEFINE when == s[Len(s)].at
             new == Pruned(list, rules[i], when)
  <1>1. Len(s) \in DOMAIN s /\ when \in Int /\ rules[i] \in RiskRule
    <2>1. Len(s) \in DOMAIN s /\ s[Len(s)] \in Violations /\ rules[i] \in RiskRule
      OBVIOUS
    <2>2. QED
      BY <2>1 DEF Violations
  <1>2. PICK g : Picks(list, s, g) /\ \A p \in DOMAIN s : p \in Picked(g, list) \/ Aged(s, p)
    BY DEF LeftOf
  <1>3. PICK f : Picks(new, list, f) /\ \A q \in DOMAIN list : Within(rules[i], when, list[q]) => q \in Picked(f, new)
    BY <1>1, PrunedOf
  <1> DEFINE h == [j \in DOMAIN new |-> g[f[j]]]
  <1> HIDE DEF new
  <1>4. /\ f \in [DOMAIN new -> DOMAIN list] /\ \A j \in DOMAIN new : new[j] = list[f[j]]
        /\ \A j, k \in DOMAIN new : f[j] = f[k] => j = k
    BY <1>3 DEF Picks
  <1>5. /\ g \in [DOMAIN list -> DOMAIN s] /\ \A j \in DOMAIN list : list[j] = s[g[j]]
        /\ \A j, k \in DOMAIN list : g[j] = g[k] => j = k
    BY <1>2 DEF Picks
  <1>6. Picks(new, s, h)
    <2>1. h \in [DOMAIN new -> DOMAIN s] /\ \A j \in DOMAIN new : f[j] \in DOMAIN list /\ h[j] = g[f[j]]
      BY <1>4, <1>5
    <2>2. \A j \in DOMAIN new : new[j] = s[h[j]]
      BY <1>4, <1>5, <2>1
    <2>3. \A j, k \in DOMAIN new : h[j] = h[k] => j = k
      BY <1>4, <1>5, <2>1
    <2>4. QED
      BY <2>1, <2>2, <2>3 DEF Picks
  <1>7. ASSUME NEW p \in DOMAIN s PROVE p \in Picked(h, new) \/ Aged(s, p)
    <2>1. CASE Aged(s, p)
      BY <2>1
    <2>2. CASE ~Aged(s, p)
      <3>1. PICK q \in DOMAIN list : p = g[q]
        BY <1>2, <2>2 DEF Picked
      <3>2. CASE Within(rules[i], when, list[q])
        <4>1. PICK j \in DOMAIN new : q = f[j]
          BY <1>3, <3>2 DEF Picked
        <4>2. QED
          BY <3>1, <4>1 DEF Picked
      <3>3. CASE ~Within(rules[i], when, list[q])
        <4>1. list[q] = s[p] /\ s[p] \in Violations
          BY <1>5, <3>1
        <4>2. s[p].at \in Int /\ Window(rules[i]) \in Int
          BY <1>1, <4>1, RuleTypes DEF Violations
        <4>3. ~(when - s[p].at <= Window(rules[i]))
          BY <3>3, <4>1 DEF Within
        <4>4. when - s[p].at > Window(rules[i])
          BY <1>1, <4>2, <4>3
        <4>5. QED
          BY <1>1, <4>4 DEF Aged
      <3>4. QED
        BY <3>2, <3>3
    <2>3. QED
      BY <2>1, <2>2
  <1>8. QED
    BY <1>6, <1>7 DEF LeftOf, new

\* One rule after the other.
LEMMA KeptLeft ==
  ASSUME rules \in Seq(RiskRule), NEW list \in Seq(Violations), NEW s \in Seq(Violations),
         LeftOf(list, s), s # <<>>
  PROVE  LET kept == KeptAfter(list, s[Len(s)].at)
         IN /\ \A i \in 0 .. Len(rules) : kept[i] \in Seq(Violations) /\ LeftOf(kept[i], s)
            /\ \A i \in DOMAIN rules : \A j \in DOMAIN kept[i] :
                 Within(rules[i], s[Len(s)].at, kept[i][j])
  <1> DEFINE n == Len(rules)
             when == s[Len(s)].at
             G == KeptAfter(list, when)
             Trim(K, i) == Pruned(K[i - 1], rules[i], when)
             Is(K, m) == K = [i \in 0 .. m |-> IF i = 0 THEN list ELSE Trim(K, i)]
             Some(m) == \E K : Is(K, m)
             T == {m \in Nat : Some(m)}
  <1>1. n \in Nat /\ DOMAIN rules = 1 .. n /\ when \in Int /\ \A i \in 1 .. n : rules[i] \in RiskRule
    <2>1. s[Len(s)] \in Violations /\ n \in Nat /\ DOMAIN rules = 1 .. n
      OBVIOUS
    <2>2. QED
      BY <2>1 DEF Violations
  <1>2. (\E K : Is(K, n)) => Is(G, n)
    BY DEF KeptAfter
  <1> HIDE DEF n, when, G
  <1>3. 0 \in T
    <2>1. Is([i \in 0 .. 0 |-> list], 0)
      OBVIOUS
    <2> HIDE DEF Is
    <2>2. QED
      BY <2>1
  <1>4. ASSUME NEW m \in Nat, m \in T PROVE m + 1 \in T
    <2>1. PICK K : Is(K, m)
      BY <1>4
    <2> DEFINE U == [i \in 0 .. m + 1 |-> IF i = m + 1 THEN Pruned(K[m], rules[m + 1], when) ELSE K[i]]
    <2>2. \A i \in 0 .. m + 1 : U[i] = IF i = 0 THEN list ELSE Trim(U, i)
      <3>1. U[0] = list
        <4>1. U[0] = K[0]
          OBVIOUS
        <4>2. K[0] = list
          BY <2>1
        <4>3. QED
          BY <4>1, <4>2
      <3>2. ASSUME NEW i \in 1 .. m PROVE U[i] = Trim(U, i)
        <4>1. U[i] = K[i] /\ U[i - 1] = K[i - 1]
          OBVIOUS
        <4>2. K[i] = Trim(K, i)
          BY <2>1
        <4>3. QED
          BY <4>1, <4>2
      <3>3. U[m + 1] = Trim(U, m + 1)
        <4>1. U[(m + 1) - 1] = K[m]
          OBVIOUS
        <4>2. QED
          BY <4>1
      <3> HIDE DEF U, Trim
      <3>4. \A i \in 0 .. m + 1 : i = 0 \/ i \in 1 .. m \/ (i = m + 1 /\ i # 0)
        OBVIOUS
      <3>5. QED
        BY <3>1, <3>2, <3>3, <3>4
    <2> HIDE DEF Trim
    <2>3. Is(U, m + 1)
      BY <2>2
    <2> HIDE DEF U, Is
    <2>4. Some(m + 1)
      BY <2>3
    <2>5. QED
      BY <2>4
  <1>5. Some(n)
    <2> HIDE DEF T, Some
    <2>1. n \in T
      BY <1>1, <1>3, <1>4, SetInduction
    <2>2. QED
      BY <2>1 DEF T
  <1>6. G = [i \in 0 .. n |-> IF i = 0 THEN list ELSE Trim(G, i)]
    BY <1>2, <1>5
  <1> HIDE DEF T, Some, Is
  <1>7. G[0] = list /\ \A i \in 1 .. n : G[i] = Pruned(G[i - 1], rules[i], when)
    <2> HIDE DEF Trim
    <2>1. G[0] = list
      BY <1>1, <1>6
    <2>2. ASSUME NEW i \in 1 .. n PROVE G[i] = Trim(G, i)
      BY <1>1, <1>6
    <2>3. QED
      BY <2>1, <2>2 DEF Trim
  <1> DEFINE Q == {i \in Nat : i <= n => G[i] \in Seq(Violations) /\ LeftOf(G[i], s)}
  <1>8. 0 \in Q
    BY <1>7
  <1>9. ASSUME NEW i \in Nat, i \in Q PROVE i + 1 \in Q
    <2> SUFFICES ASSUME i + 1 <= n PROVE G[i + 1] \in Seq(Violations) /\ LeftOf(G[i + 1], s)
      OBVIOUS
    <2>1. i + 1 \in 1 .. n /\ i + 1 \in DOMAIN rules /\ (i + 1) - 1 = i /\ rules[i + 1] \in RiskRule
      BY <1>1
    <2>2. G[i] \in Seq(Violations) /\ LeftOf(G[i], s)
      BY <1>1, <1>9
    <2>3. G[i + 1] = Pruned(G[i], rules[i + 1], when)
      BY <1>7, <2>1
    <2>4. G[i + 1] \in Seq(Violations)
      BY <1>1, <2>1, <2>2, <2>3, PrunedOf
    <2>5. LeftOf(Pruned(G[i], rules[i + 1], s[Len(s)].at), s)
      BY <2>1, <2>2, PruneLeft
    <2>6. QED
      BY <2>3, <2>4, <2>5 DEF when
  <1>10. \A i \in 0 .. n : G[i] \in Seq(Violations) /\ LeftOf(G[i], s)
    <2>1. \A i \in Nat : i \in Q
      <3> HIDE DEF Q
      <3> QED
        BY <1>8, <1>9, SetInduction
    <2>2. QED
      BY <1>1, <2>1
  <1>11. ASSUME NEW i \in 1 .. n PROVE \A j \in DOMAIN G[i] : Within(rules[i], when, G[i][j])
    <2>1. G[i - 1] \in Seq(Violations) /\ rules[i] \in RiskRule
      BY <1>1, <1>10
    <2>2. QED
      BY <1>1, <1>7, <2>1, PrunedOf
  <1>12. QED
    BY <1>1, <1>10, <1>11 DEF G, when, n

\* The places of a list.
LEMMA FirstNumbers ==
  ASSUME NEW n \in Nat
  PROVE  IsFiniteSet(1 .. n) /\ Cardinality(1 .. n) = n
  BY FS_Interval

\* What RecordViolation is to decide by: the violations since the agent was last
\* acted on that fall into the rule's window.
SeenIn(s, when, r) == {j \in DOMAIN s : s[j].at >= when - Window(r)}
DueBy(s, when, r) ==
  /\ Cardinality(SeenIn(s, when, r)) >= Threshold(r)
  /\ \E j \in SeenIn(s, when, r) : SignalIn(r.signals, s[j].sig)

\* A rule that triggers on what is left is due on the whole history.
LEMMA TriggersIsDue ==
  ASSUME NEW s \in Seq(Violations), NEW when \in Int, NEW r \in RiskRule, NEW list \in Seq(Violations),
         NEW g, Picks(list, s, g), \A j \in DOMAIN list : Within(r, when, list[j]), Triggers(r, list)
  PROVE  DueBy(s, when, r)
  <1> DEFINE W == SeenIn(s, when, r)
  <1>1. /\ g \in [DOMAIN list -> DOMAIN s] /\ \A j \in DOMAIN list : list[j] = s[g[j]]
        /\ \A j, k \in DOMAIN list : g[j] = g[k] => j = k
    BY DEF Picks
  <1>2. \A j \in DOMAIN list : g[j] \in W
    <2> SUFFICES ASSUME NEW j \in DOMAIN list PROVE g[j] \in W
      OBVIOUS
    <2>1. g[j] \in DOMAIN s /\ list[j] = s[g[j]] /\ list[j] \in Violations
      BY <1>1
    <2>2. list[j].at \in Int /\ Window(r) \in Int
      BY <2>1, RuleTypes DEF Violations
    <2>3. when - list[j].at <= Window(r)
      BY DEF Within
    <2>4. list[j].at >= when - Window(r)
      BY <2>2, <2>3
    <2>5. QED
      BY <2>1, <2>4 DEF SeenIn
  <1>3. IsFiniteSet(W) /\ Cardinality(W) \in Nat
    <2>1. IsFiniteSet(DOMAIN s)
      <3>1. DOMAIN s = 1 .. Len(s) /\ Len(s) \in Nat
        OBVIOUS
      <3>2. QED
        BY <3>1, FirstNumbers
    <2>2. W \in SUBSET DOMAIN s
      BY DEF SeenIn
    <2> HIDE DEF W
    <2>3. QED
      BY <2>1, <2>2, FS_Subset, FS_CardinalityType
  <1>4. Len(list) \in Nat /\ DOMAIN list = 1 .. Len(list) /\ Cardinality(1 .. Len(list)) = Len(list)
    BY FirstNumbers
  <1>5. Len(list) <= Cardinality(W)
    <2> HIDE DEF W
    <2>1. g \in Injection(1 .. Len(list), W)
      <3>1. g \in [1 .. Len(list) -> W]
        BY <1>1, <1>2, <1>4
      <3>2. QED
        BY <1>1, <1>4, <3>1 DEF Injection, IsInjective
    <2>2. QED
      BY <1>3, <1>4, <2>1, FS_Injection
  <1>6. PICK j \in DOMAIN list : SignalIn(r.signals, list[j].sig)
    BY DEF Triggers
  <1>7. Cardinality(W) >= Threshold(r)
    <2>1. Len(list) >= Threshold(r) /\ Threshold(r) \in Int
      BY RuleTypes DEF Triggers
    <2> HIDE DEF W
    <2>2. QED
      BY <1>3, <1>4, <1>5, <2>1
  <1>8. QED
    BY <1>1, <1>2, <1>6, <1>7 DEF DueBy

\* A rule that is due, by the shortest window there is, triggers on what is left.
LEMMA DueTriggers ==
  ASSUME rules \in Seq(RiskRule), NEW s \in Seq(Violations), s # <<>>, NEW i \in DOMAIN rules,
         NEW list \in Seq(Violations), LeftOf(list, s), Chronological(s),
         DueBy(s, s[Len(s)].at, rules[i]),
         \A k \in DOMAIN rules : Window(rules[k]) >= Window(rules[i])
  PROVE  Triggers(rules[i], list)
  <1> DEFINE when == s[Len(s)].at
             r == rules[i]
             W == SeenIn(s, when, r)
  <1>1. Len(s) \in Nat /\ Len(s) > 0 /\ DOMAIN s = 1 .. Len(s)
    OBVIOUS
  <1>2. \A p \in DOMAIN s : s[p].at \in Int
    <2>1. \A p \in DOMAIN s : s[p] \in Violations
      OBVIOUS
    <2>2. QED
      BY <2>1 DEF Violations
  <1>3. when \in Int /\ Len(s) \in DOMAIN s
    BY <1>1, <1>2
  <1>4. \A k \in DOMAIN rules : rules[k] \in RiskRule /\ Window(rules[k]) \in Int
    BY RuleTypes
  <1>5. \A p \in DOMAIN s : s[p].at <= when
    <2> SUFFICES ASSUME NEW p \in DOMAIN s PROVE s[p].at <= when
      OBVIOUS
    <2>1. CASE p = Len(s)
      BY <1>2, <2>1
    <2>2. CASE p < Len(s)
      BY <1>3, <2>2 DEF Chronological
    <2>3. QED
      BY <1>1, <2>1, <2>2
  <1>6. PICK g : Picks(list, s, g) /\ \A p \in DOMAIN s : p \in Picked(g, list) \/ Aged(s, p)
    BY DEF LeftOf
  <1>7. /\ g \in [DOMAIN list -> DOMAIN s] /\ \A j \in DOMAIN list : list[j] = s[g[j]]
        /\ \A j, k \in DOMAIN list : g[j] = g[k] => j = k
    BY <1>6 DEF Picks
  <1>8. ASSUME NEW p \in W PROVE p \in Picked(g, list)
    <2>1. p \in DOMAIN s /\ s[p].at >= when - Window(r)
      BY <1>8 DEF SeenIn
    <2>2. ~Aged(s, p)
      <3> SUFFICES ASSUME NEW m \in DOMAIN s, NEW k \in DOMAIN rules, s[m].at - s[p].at > Window(rules[k])
                   PROVE  FALSE
        BY DEF Aged
      <3>1. s[m].at \in Int /\ s[p].at \in Int /\ Window(rules[k]) \in Int /\ Window(r) \in Int
        BY <1>2, <1>4, <2>1
      <3>2. s[m].at <= when /\ Window(rules[k]) >= Window(r)
        BY <1>5
      <3> HIDE DEF when, r
      <3>3. QED
        BY <1>3, <2>1, <3>1, <3>2
    <2>3. QED
      BY <1>6, <2>1, <2>2
  <1>9. Len(list) \in Nat /\ DOMAIN list = 1 .. Len(list)
    OBVIOUS
  <1>10. IsFiniteSet(DOMAIN list) /\ Cardinality(DOMAIN list) = Len(list)
    BY <1>9, FirstNumbers
  <1> DEFINE P == Picked(g, list)
  <1>11. IsFiniteSet(P) /\ Cardinality(P) <= Len(list) /\ Cardinality(P) \in Nat
    <2>1. g \in Surjection(DOMAIN list, P)
      BY <1>7 DEF Surjection, Picked
    <2> HIDE DEF P
    <2>2. QED
      BY <1>10, <2>1, FS_Surjection, FS_CardinalityType
  <1>12. IsFiniteSet(W) /\ Cardinality(W) <= Cardinality(P) /\ Cardinality(W) \in Nat
    <2>1. W \in SUBSET P
      BY <1>8
    <2> HIDE DEF P, W
    <2>2. QED
      BY <1>11, <2>1, FS_Subset, FS_CardinalityType
  <1>13. Cardinality(W) >= Threshold(r) /\ Threshold(r) \in Int
    BY <1>4, RuleTypes DEF DueBy
  <1>14. Len(list) >= Threshold(r)
    <2> HIDE DEF P, W, r
    <2>1. QED
      BY <1>9, <1>11, <1>12, <1>13
  <1>15. PICK p \in W : SignalIn(r.signals, s[p].sig)
    BY DEF DueBy
  <1>16. PICK j \in DOMAIN list : p = g[j]
    BY <1>8, <1>15 DEF Picked
  <1>17. list[j] = s[p]
    BY <1>7, <1>16
  <1>18. QED
    BY <1>14, <1>15, <1>17 DEF Triggers

\* What is kept of each agent's violations is what is left of its history, and
\* the last answer was the one the rules ask for.
RiskInv ==
  /\ rules \in Seq(RiskRule) /\ unix \in Nat
  /\ violations \in [Agents -> Seq(Violations)]
  /\ since \in [Agents -> Seq(Violations)]
  /\ \A a \in Agents : LeftOf(violations[a], since[a])
  /\ RiskRulesEnforced

\* A fresh monitor, or one that got new rules.
LEMMA FreshRisk ==
  ASSUME rules \in Seq(RiskRule), unix \in Nat, violations = NoneYet, since = NoneYet, last = NoCall
  PROVE  RiskInv
  <1>1. NoneYet \in [Agents -> Seq(Violations)] /\ \A a \in Agents : NoneYet[a] = <<>>
    BY DEF NoneYet
  <1>2. LeftOf(<<>>, <<>>)
    <2>1. Picks(<<>>, <<>>, <<>>) /\ DOMAIN <<>> = {}
      BY DEF Picks
    <2>2. QED
      BY <2>1 DEF LeftOf
  <1>3. last.rule = 0 /\ last.seen = <<>>
    BY DEF NoCall
  <1>4. RiskRulesEnforced
    BY <1>3 DEF RiskRulesEnforced
  <1>5. QED
    BY <1>1, <1>2, <1>4 DEF RiskInv

\* A call of RecordViolation answers as the rules ask, and prunes no more than
\* they allow.
LEMMA RecordKeeps ==
  ASSUME RiskInv, NEW a \in Agents, NEW sig \in RiskSignals, NEW At \in 0 .. unix, RecordViolation(a, sig, At)
  PROVE  RiskInv'
  <1> DEFINE when == IF At = 0 THEN unix ELSE At
             v == [sig |-> sig, at |-> when]
             seen == Append(since[a], v)
             kept == KeptAfter(Append(violations[a], v), when)
             hits == {i \in DOMAIN rules : Triggers(rules[i], kept[i])}
             hit == IF hits = {} THEN 0 ELSE CHOOSE i \in hits : \A k \in hits : i <= k
  <1>1. /\ rules # <<>> /\ rules' = rules /\ unix' = unix
        /\ violations' = [violations EXCEPT ![a] = IF hit = 0 THEN kept[Len(rules)] ELSE <<>>]
        /\ since' = [since EXCEPT ![a] = IF hit = 0 THEN seen ELSE <<>>]
        /\ last' = [at |-> when, seen |-> seen, rule |-> hit]
    BY DEF RecordViolation
  <1>2. /\ rules \in Seq(RiskRule) /\ unix \in Nat
        /\ violations \in [Agents -> Seq(Violations)] /\ since \in [Agents -> Seq(Violations)]
        /\ \A b \in Agents : LeftOf(violations[b], since[b])
    BY DEF RiskInv
  <1>3. when \in Int
    BY <1>2
  <1> HIDE DEF when
  <1>4. v \in Violations /\ v.at = when
    BY <1>3 DEF Violations
  <1> HIDE DEF v
  <1>5. violations[a] \in Seq(Violations) /\ since[a] \in Seq(Violations) /\ LeftOf(violations[a], since[a])
    BY <1>2
  <1>6. /\ Append(violations[a], v) \in Seq(Violations) /\ seen \in Seq(Violations)
        /\ seen # <<>> /\ seen[Len(seen)] = v
    BY <1>4, <1>5
  <1>7. LeftOf(Append(violations[a], v), seen)
    BY <1>4, <1>5, AppendLeft
  <1> HIDE DEF seen
  <1>8. /\ \A i \in 0 .. Len(rules) : kept[i] \in Seq(Violations) /\ LeftOf(kept[i], seen)
        /\ \A i \in DOMAIN rules : \A j \in DOMAIN kept[i] : Within(rules[i], when, kept[i][j])
    <2>1. seen[Len(seen)].at = when
      BY <1>4, <1>6
    <2>2. QED
      BY <1>2, <1>6, <1>7, <2>1, KeptLeft
  <1> HIDE DEF kept
  <1>9. Len(rules) \in Nat /\ DOMAIN rules = 1 .. Len(rules) /\ \A i \in DOMAIN rules : rules[i] \in RiskRule
    BY <1>2
  <1>10. /\ hits \subseteq DOMAIN rules
         /\ hits = {} => hit = 0
         /\ hits # {} => hit \in hits /\ hit # 0
    <2>1. hits \subseteq DOMAIN rules /\ hits \subseteq Nat
      BY <1>9
    <2>2. hits # {} => \E i \in hits : \A k \in hits : i <= k
      <3> HIDE DEF hits
      <3> QED
        BY <2>1, SmallestIn
    <2>3. hits # {} => hit \in hits
      <3> HIDE DEF hits
      <3> QED
        BY <2>2
    <2> HIDE DEF hits
    <2>4. hits # {} => hit # 0
      <3> HIDE DEF hit
      <3> QED
        BY <1>9, <2>1, <2>3
    <2>5. QED
      BY <2>1, <2>3, <2>4
  <1> HIDE DEF hit
  <1>11. hit # 0 => hit \in DOMAIN rules /\ DueBy(seen, when, rules[hit])
    <2> SUFFICES ASSUME hit # 0 PROVE hit \in DOMAIN rules /\ DueBy(seen, when, rules[hit])
      OBVIOUS
    <2>1. hit \in DOMAIN rules /\ Triggers(rules[hit], kept[hit])
      BY <1>10
    <2>2. kept[hit] \in Seq(Violations) /\ LeftOf(kept[hit], seen) /\ rules[hit] \in RiskRule
      BY <1>8, <1>9, <2>1
    <2>3. PICK g : Picks(kept[hit], seen, g)
      BY <2>2 DEF LeftOf
    <2> HIDE DEF hits
    <2>4. QED
      BY <1>3, <1>6, <1>8, <2>1, <2>2, <2>3, TriggersIsDue
  <1>12. ASSUME NEW i \in DOMAIN rules, Chronological(seen), DueBy(seen, when, rules[i]),
                \A k \in DOMAIN rules : Window(rules[k]) >= Window(rules[i])
         PROVE  hit # 0
    <2>1. seen[Len(seen)].at = when
      BY <1>4, <1>6
    <2>2. kept[i] \in Seq(Violations) /\ LeftOf(kept[i], seen)
      BY <1>8, <1>9
    <2>3. Triggers(rules[i], kept[i])
      <3> HIDE DEF hits
      <3> QED
        BY <1>2, <1>6, <1>12, <2>1, <2>2, DueTriggers
    <2>4. i \in hits
      BY <2>3
    <2> HIDE DEF hits
    <2>5. QED
      BY <1>10, <2>4
  <1> HIDE DEF hits
  <1>13. last'.at = when /\ last'.seen = seen /\ last'.rule = hit
    BY <1>1
  <1>14. \A r : Due(r)' <=> DueBy(seen, when, r)
    BY <1>13 DEF Due, InLastWindow, DueBy, SeenIn, Window, Threshold, SignalIn
  <1>15. RiskRulesEnforced'
    BY <1>1, <1>11, <1>12, <1>13, <1>14 DEF RiskRulesEnforced
  <1>16. /\ violations' \in [Agents -> Seq(Violations)] /\ since' \in [Agents -> Seq(Violations)]
         /\ \A b \in Agents : LeftOf(violations'[b], since'[b])
    <2>1. <<>> \in Seq(Violations) /\ LeftOf(<<>>, <<>>)
      <3>1. Picks(<<>>, <<>>, <<>>) /\ DOMAIN <<>> = {}
        BY DEF Picks
      <3>2. QED
        BY <3>1 DEF LeftOf
    <2>2. Len(rules) \in 0 .. Len(rules)
      BY <1>9
    <2>3. kept[Len(rules)] \in Seq(Violations) /\ LeftOf(kept[Len(rules)], seen)
      BY <1>8, <2>2
    <2>4. CASE hit = 0
      BY <1>1, <1>2, <1>6, <2>3, <2>4
    <2>5. CASE hit # 0
      BY <1>1, <1>2, <2>1, <2>5
    <2>6. QED
      BY <2>4, <2>5
  <1>17. \A l, s : LeftOf(l, s)' <=> LeftOf(l, s)
    BY <1>1 DEF LeftOf, Aged, Window
  <1>18. QED
    BY <1>1, <1>2, <1>15, <1>16, <1>17 DEF RiskInv

\* An agent is disconnected or revoked only for what it did within the rule's
\* window, as often as the rule asks; and whatever is due under the rule with
\* the shortest window is acted on, for any list of rules, with hot reloads and
\* violations dated back, for any number of agents and violations.
THEOREM RiskRulesHold == RiskSpec => []RiskRulesEnforced
  <1>1. RiskInit => RiskInv
    <2> SUFFICES ASSUME RiskInit PROVE RiskInv
      OBVIOUS
    <2>1. rules \in Seq(RiskRule) /\ unix \in Nat
      BY RiskAssumption DEF RiskInit
    <2>2. QED
      BY <2>1, FreshRisk DEF RiskInit
  <1>2. RiskInv /\ [RiskNext]_riskVars => RiskInv'
    <2> SUFFICES ASSUME RiskInv, [RiskNext]_riskVars PROVE RiskInv'
      OBVIOUS
    <2>1. ASSUME NEW a \in Agents, NEW sig \in RiskSignals, NEW At \in 0 .. unix, RecordViolation(a, sig, At)
          PROVE  RiskInv'
      BY <2>1, RecordKeeps
    <2>2. ASSUME NEW rs \in RuleSets, SetRules(rs) PROVE RiskInv'
      <3>1. rules' \in Seq(RiskRule) /\ unix' \in Nat
        BY <2>2, RiskAssumption DEF SetRules, RiskInv
      <3>2. violations' = NoneYet /\ since' = NoneYet /\ last' = NoCall
        BY <2>2 DEF SetRules
      <3>3. /\ NoneYet \in [Agents -> Seq(Violations)] /\ \A a \in Agents : NoneYet[a] = <<>>
            /\ NoCall.rule = 0 /\ NoCall.seen = <<>>
        BY DEF NoneYet, NoCall
      <3>4. LeftOf(<<>>, <<>>)'
        <4>1. Picks(<<>>, <<>>, <<>>) /\ DOMAIN <<>> = {}
          BY DEF Picks
        <4>2. QED
          BY <4>1 DEF LeftOf
      <3>5. RiskRulesEnforced'
        BY <3>2, <3>3 DEF RiskRulesEnforced
      <3>6. QED
        BY <3>1, <3>2, <3>3, <3>4, <3>5 DEF RiskInv
    <2>3. CASE UNCHANGED <<rules, violations, since, last>> /\ unix' \in Nat
      <3>1. \A l, s : LeftOf(l, s)' <=> LeftOf(l, s)
        BY <2>3 DEF LeftOf, Aged
      <3>2. RiskRulesEnforced' <=> RiskRulesEnforced
        BY <2>3 DEF RiskRulesEnforced, Due, InLastWindow
      <3>3. QED
        BY <2>3, <3>1, <3>2 DEF RiskInv
    <2>4. CASE RiskTick \/ UNCHANGED riskVars
      BY <2>3, <2>4 DEF RiskTick, riskVars, RiskInv
    <2>5. QED
      BY <2>1, <2>2, <2>4 DEF RiskNext
  <1>3. RiskInv => RiskRulesEnforced
    BY DEF RiskInv
  <1>4. QED
    BY <1>1, <1>2, <1>3, PTL DEF RiskSpec
================================================================================
