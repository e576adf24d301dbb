--------------------------- MODULE SupervisionProofs ---------------------------
(***************************************************************************)
(* Retention and QueryHasNoGaps of the supervision store for any number of *)
(* backups, files, recorders, failures and crashes, ChainTamperEvident for *)
(* any number of sealers and batches of any size, and ReadBack for chunks  *)
(* and lines of any length.                                                *)
(***************************************************************************)
EXTENDS SupervisionStore, FiniteSetTheorems, SequenceTheorems, TLAPS

-------------------------------------------------------------------------------
(* The inductive invariant *)

Rotating == {"remove", "rename", "open"}
NoRenameFailed == failed["rename"] = 0

Budgets == [events : Nat, starts : Nat, queries : Nat, archives : Nat]
RecordCalls == [pc : {"idle", "signing", "locking", "writing"}, ev : Nat, len : Nat]
QueryCalls == [file : Inodes \cup {None}, pos : Nat, want : {{}} \cup Filters, out : Seq(Nat)]
Rotations == [at : Rotating \cup {"none", "write"}, i : Names]

FileTypes ==
  /\ data \in [Inodes -> Seq(Line)]
  /\ dir \in [Names -> Inodes \cup {None}]
  /\ archived \in SUBSET Inodes /\ IsFiniteSet(archived)
  /\ handle \in Inodes \cup {None}
  /\ size \in Nat
  /\ rot \in Rotations
  /\ failed \in [Calls -> Nat]

StoreTypes ==
  /\ up \in BOOLEAN
  /\ rec \in [Recorders -> RecordCalls]
  /\ writer \in Recorders \cup {None}
  /\ acked \in Seq(Nat) /\ stamp \in Nat
  /\ query \in QueryCalls
  /\ crashes \in Nat
  /\ left \in Budgets

TypeOK == FileTypes /\ StoreTypes

\* Who holds the mutex is in the middle of its write; a process that is down
\* holds nothing.
ControlInv ==
  /\ rot.at = "none" => rot = Quiet
  /\ rot.at \in {"remove", "rename"} => rot.i > 0
  /\ rot.at = "open" => rot.i = 0
  /\ writer = None <=> rot.at = "none"
  /\ \A r \in Recorders : writer = r => rec[r].pc = "writing"
  /\ ~up => /\ handle = None /\ rot = Quiet /\ query = NoQuery
            /\ \A r \in Recorders : rec[r].pc = "idle"

\* A file has one name; the open file is the live one, unless it was archived.
NamesInv ==
  /\ \A i, j \in Names : dir[i] # None /\ dir[i] = dir[j] => i = j
  /\ \A i \in Names : dir[i] \notin archived
  /\ handle # None => handle = dir[0] \/ (dir[0] = None /\ handle \in archived)
  /\ rot.at \in Rotating => handle = None
  /\ IsFiniteSet(Inodes) =>
       MaxBak + left.archives + Cardinality(archived) + 2 <= Cardinality(Inodes)

\* As long as no rename failed, the place the next file moves to is free.
FreeInv ==
  NoRenameFailed =>
    /\ rot.at \in {"remove", "rename"} /\ rot.i < MaxBak => dir[rot.i] = None
    /\ rot.at = "open" /\ MaxBak > 0 => dir[0] = None

\* An event is acknowledged once, and exactly then its line is whole.
Acked == {acked[a] : a \in DOMAIN acked}
EventsInv ==
  /\ \A a, b \in DOMAIN acked : acked[a] = acked[b] => a = b
  /\ \A e \in Acked : e <= stamp
  /\ \A n \in Inodes : \A p \in DOMAIN data[n] :
       /\ data[n][p].ev <= stamp
       /\ data[n][p].whole <=> data[n][p].ev \in Acked
  /\ \A r \in Recorders : rec[r].pc # "idle" =>
       /\ rec[r].ev <= stamp /\ rec[r].ev \notin Acked
       /\ \A n \in Inodes : \A p \in DOMAIN data[n] : data[n][p].ev # rec[r].ev
  /\ \A r, q \in Recorders :
       r # q /\ rec[r].pc # "idle" /\ rec[q].pc # "idle" => rec[r].ev # rec[q].ev

\* Every file holds a stretch of the acknowledged events, in their order; the
\* one that is written to holds the last of them.
Ordered(n) ==
  \A p, q \in DOMAIN data[n] :
    p < q /\ data[n][p].whole /\ data[n][q].whole => Older(data[n][p].ev, data[n][q].ev)
Stretch(n) ==
  \A e, f \in Events(n) : \A g \in Acked : Older(e, g) /\ Older(g, f) => g \in Events(n)
Latest(n) == \A e \in Events(n) : \A g \in Acked : Older(e, g) => g \in Events(n)
OrderInv ==
  /\ \A n \in Inodes : Ordered(n) /\ Stretch(n)
  /\ dir[0] # None => Latest(dir[0])
  /\ handle # None => Latest(handle)
  /\ FilesInOrder

\* What OldestGoFirst says, of events instead of indices.
KeptInv ==
  NoRenameFailed =>
    \A e, f \in Acked : Older(e, f) /\ e \in InFiles => f \in InFiles \cup InArchive

\* The name a rotation has just freed is not missing: the next file moves there.
Bubble == IF rot.at \in Rotating THEN {rot.i} ELSE {}
Holes == {i \in Names : dir[i] = None} \ Bubble
Excused == Faults + crashes + Cardinality(archived)
HolesInv ==
  NoRenameFailed =>
    /\ \A j \in Names : dir[j] # None => Cardinality({i \in Holes : i < j}) <= Excused
    /\ Gone # {} => Cardinality(Holes) <= Excused

\* Every fragment on disk comes from a short write of its own.
Fragments == UNION {{<<n, p>> : p \in {q \in DOMAIN data[n] : ~data[n][q].whole}} : n \in Inodes}
FragmentsInv == IsFiniteSet(Fragments) /\ Cardinality(Fragments) <= failed["write"]

\* A query has found exactly what matches among the lines it has passed.
QueryInv ==
  MaxBak > 0 /\ NoRenameFailed /\ query.file # None =>
    LET file == data[query.file]
    IN /\ query.pos <= Len(file)
       /\ \A k \in DOMAIN query.out : \E p \in 1 .. query.pos :
            Readable(file, p) /\ file[p].ev = query.out[k]
       /\ \A p \in 1 .. query.pos : Readable(file, p) /\ file[p].ev \in query.want =>
            \E k \in DOMAIN query.out : query.out[k] = file[p].ev
       /\ \A k, l \in DOMAIN query.out : k < l => Older(query.out[k], query.out[l])

StoreInv ==
  /\ TypeOK /\ ControlInv /\ NamesInv /\ FreeInv /\ EventsInv /\ OrderInv
  /\ KeptInv /\ HolesInv /\ FragmentsInv /\ QueryInv /\ SizeIsFileSize

-------------------------------------------------------------------------------
(* Induction over the natural numbers, for sets *)

\* A nonempty set of natural numbers has a least element.
LEMMA SmallestIn ==
  ASSUME NEW T, T \subseteq Nat, T # {}
  PROVE  \E n \in T : \A m \in T : n <= m
  <1> DEFINE R == {p \in Nat \X Nat : p[1] < p[2]}
  <1>1. IsWellFoundedOn(R, Nat)
    BY NatLessThanWellFounded DEF OpToRel
  <1>2. \A m, n \in Nat : ~(<<m, n>> \in R) => n <= m
    OBVIOUS
  <1> HIDE DEF R
  <1>3. \E n \in T : \A m \in T : ~(<<m, n>> \in R)
    BY <1>1, WFMin
  <1>4. QED
    BY <1>2, <1>3

\* What holds of 0 and passes from n to n + 1 holds of every number.
LEMMA SetInduction ==
  ASSUME NEW T, 0 \in T, \A n \in Nat : n \in T => n + 1 \in T
  PROVE  \A n \in Nat : n \in T
  <1> SUFFICES ASSUME Nat \ T # {} PROVE FALSE
    OBVIOUS
  <1>1. PICK n \in Nat \ T : \A m \in Nat \ T : n <= m
    BY SmallestIn
  <1>2. n # 0
    OBVIOUS
  <1>3. n - 1 \in Nat /\ (n - 1) + 1 = n
    BY <1>2
  <1>4. n - 1 \in T
    BY <1>1, <1>3
  <1>5. QED
    BY <1>3, <1>4

-------------------------------------------------------------------------------
(* Types *)

\* A budget that is spent stays a budget.
LEMMA SpendType ==
  ASSUME StoreTypes, NEW w \in {"events", "starts", "queries", "archives"}, Spend(w)
  PROVE  /\ left' \in Budgets
         /\ w # "archives" => left'.archives = left.archives
         /\ w = "archives" => left'.archives = left.archives - 1 /\ left.archives > 0
  <1> USE DEF Budgets
  <1>1. left \in Budgets
    BY DEF StoreTypes
  <1>2. left[w] > 0 /\ left' = [left EXCEPT ![w] = left[w] - 1]
    BY DEF Spend
  <1>3. CASE w = "events"
    BY <1>1, <1>2, <1>3
  <1>4. CASE w = "starts"
    BY <1>1, <1>2, <1>4
  <1>5. CASE w = "queries"
    BY <1>1, <1>2, <1>5
  <1>6. CASE w = "archives"
    BY <1>1, <1>2, <1>6
  <1>7. QED
    BY <1>3, <1>4, <1>5, <1>6

\* A call that fails is counted under its kind.
LEMMA FailsType ==
  ASSUME FileTypes, NEW c \in Calls, Fails(c)
  PROVE  /\ failed' \in [Calls -> Nat]
         /\ failed'[c] = failed[c] + 1
         /\ \A d \in Calls \ {c} : failed'[d] = failed[d]
         /\ Faults' = Faults + 1 /\ Faults \in Nat
  <1>1. failed \in [Calls -> Nat] /\ failed' = [failed EXCEPT ![c] = failed[c] + 1]
    BY DEF FileTypes, Fails
  <1>2. /\ failed' \in [Calls -> Nat]
        /\ failed'[c] = failed[c] + 1
        /\ \A d \in Calls \ {c} : failed'[d] = failed[d]
    BY <1>1
  <1>3. Calls = {"remove", "rename", "open", "write"}
    BY DEF Calls
  <1>4. QED
    BY <1>1, <1>2, <1>3 DEF Faults

\* There is always a file nobody uses when one has to be created.
LEMMA FreeFile ==
  ASSUME TypeOK, NamesInv, dir[0] = None, handle = None
  PROVE  Free \in Inodes /\ Free \notin archived \cup {query.file} /\ \A i \in Names : dir[i] # Free
  <1> USE RotatingFileAssumption
  <1> DEFINE W == {dir[i] : i \in 1 .. MaxBak}
             V == W \cup (archived \cup {query.file})
  <1>1. IsFiniteSet(W) /\ Cardinality(W) <= MaxBak /\ Cardinality(W) \in Nat
    <2>1. [i \in 1 .. MaxBak |-> dir[i]] \in Surjection(1 .. MaxBak, W)
      BY DEF Surjection
    <2>2. IsFiniteSet(1 .. MaxBak) /\ Cardinality(1 .. MaxBak) = MaxBak
      BY FS_Interval
    <2> HIDE DEF W
    <2>3. IsFiniteSet(W) /\ Cardinality(W) <= Cardinality(1 .. MaxBak)
      BY <2>1, <2>2, FS_Surjection
    <2>4. QED
      BY <2>2, <2>3, FS_CardinalityType
  <1>2. IsFiniteSet(archived) /\ left.archives \in Nat
    BY DEF TypeOK, FileTypes, StoreTypes, Budgets
  <1>3. /\ IsFiniteSet(archived \cup {query.file})
        /\ Cardinality(archived \cup {query.file}) <= Cardinality(archived) + 1
        /\ Cardinality(archived \cup {query.file}) \in Nat /\ Cardinality(archived) \in Nat
    <2>1. Cardinality(archived) \in Nat
      BY <1>2, FS_CardinalityType
    <2>2. /\ IsFiniteSet(archived \cup {query.file})
          /\ Cardinality(archived \cup {query.file}) =
               IF query.file \in archived THEN Cardinality(archived) ELSE Cardinality(archived) + 1
      BY <1>2, FS_AddElement
    <2>3. QED
      BY <2>1, <2>2
  <1> HIDE DEF W
  <1>4. /\ IsFiniteSet(V) /\ Cardinality(V) \in Nat
        /\ Cardinality(V) <= Cardinality(W) + Cardinality(archived \cup {query.file})
    <2>1. /\ IsFiniteSet(V)
          /\ Cardinality(V) = Cardinality(W) + Cardinality(archived \cup {query.file})
                                - Cardinality(W \cap (archived \cup {query.file}))
      BY <1>1, <1>3, FS_Union
    <2>2. Cardinality(W \cap (archived \cup {query.file})) \in Nat
      BY <1>1, FS_Subset, FS_CardinalityType
    <2>3. Cardinality(V) \in Nat
      BY <2>1, FS_CardinalityType
    <2> HIDE DEF V
    <2>4. QED
      BY <1>1, <1>3, <2>1, <2>2, <2>3
  <1> HIDE DEF V
  <1>5. ~(Inodes \subseteq V)
    <2> SUFFICES ASSUME Inodes \subseteq V PROVE FALSE
      OBVIOUS
    <2>1. IsFiniteSet(Inodes) /\ Cardinality(Inodes) <= Cardinality(V) /\ Cardinality(Inodes) \in Nat
      BY <1>4, FS_Subset, FS_CardinalityType
    <2>2. MaxBak + left.archives + Cardinality(archived) + 2 <= Cardinality(Inodes)
      BY <2>1 DEF NamesInv
    <2>3. QED
      BY <1>1, <1>2, <1>3, <1>4, <2>1, <2>2
  <1>6. PICK n \in Inodes : n \notin V
    BY <1>5
  <1>7. n \notin {dir[i] : i \in Names} \cup archived \cup {handle, query.file}
    <2>1. \A i \in Names : i = 0 \/ i \in 1 .. MaxBak
      BY DEF Names
    <2>2. \A i \in Names : dir[i] # n
      BY <1>6, <2>1 DEF V, W
    <2>3. QED
      BY <1>6, <2>2 DEF V
  <1>8. Free \in Inodes /\ Free \notin {dir[i] : i \in Names} \cup archived \cup {handle, query.file}
    BY <1>7 DEF Free
  <1>9. QED
    BY <1>8

-------------------------------------------------------------------------------
(* The size of a file *)

\* The partial sums of Written.
Sums(file) ==
  CHOOSE S : S = [i \in 0 .. Len(file) |-> IF i = 0 THEN 0 ELSE S[i - 1] + file[i].len]

\* There are partial sums, and they are natural numbers.
LEMMA SumsOf ==
  ASSUME NEW file \in Seq(Line)
  PROVE  /\ Sums(file) \in [0 .. Len(file) -> Nat]
         /\ Sums(file)[0] = 0
         /\ \A i \in 1 .. Len(file) : Sums(file)[i] = Sums(file)[i - 1] + file[i].len
         /\ Written(file) = Sums(file)[Len(file)]
  <1> DEFINE Is(S, n) == S = [i \in 0 .. n |-> IF i = 0 THEN 0 ELSE S[i - 1] + file[i].len]
             Some(n) == \E S \in [0 .. n -> Nat] : Is(S, n)
             T == {n \in Nat : n <= Len(file) => Some(n)}
  <1>1. Len(file) \in Nat /\ \A i \in 1 .. Len(file) : file[i].len \in Nat
    <2>1. Len(file) \in Nat /\ \A i \in 1 .. Len(file) : file[i] \in Line
      OBVIOUS
    <2>2. QED
      BY <2>1 DEF Line
  <1>2. 0 \in T
    <2>1. [i \in 0 .. 0 |-> 0] \in [0 .. 0 -> Nat] /\ Is([i \in 0 .. 0 |-> 0], 0)
      OBVIOUS
    <2>2. QED
      BY <2>1
  <1>3. ASSUME NEW n \in Nat, n \in T PROVE n + 1 \in T
    <2> SUFFICES ASSUME n + 1 <= Len(file) PROVE Some(n + 1)
      <3> HIDE DEF Some
      <3> QED
        OBVIOUS
    <2>1. PICK S \in [0 .. n -> Nat] : Is(S, n)
      BY <1>1, <1>3
    <2> DEFINE U == [i \in 0 .. n + 1 |-> IF i = n + 1 THEN S[n] + file[n + 1].len ELSE S[i]]
    <2>2. U \in [0 .. n + 1 -> Nat]
      BY <1>1
    <2>3. \A i \in 0 .. n + 1 : U[i] = IF i = 0 THEN 0 ELSE U[i - 1] + file[i].len
      BY <2>1
    <2>4. Is(U, n + 1)
      BY <2>2, <2>3
    <2>5. QED
      BY <2>2, <2>4
  <1>4. Len(file) \in T
    <2> HIDE DEF T
    <2>1. QED
      BY <1>1, <1>2, <1>3, SetInduction
  <1>5. PICK S \in [0 .. Len(file) -> Nat] : Is(S, Len(file))
    BY <1>1, <1>4
  <1>6. Is(Sums(file), Len(file))
    BY <1>5 DEF Sums
  <1>7. /\ Sums(file)[0] = 0
        /\ \A i \in 1 .. Len(file) : Sums(file)[i] = Sums(file)[i - 1] + file[i].len
    BY <1>1, <1>6
  <1>8. \A i \in 0 .. Len(file) : Sums(file)[i] \in Nat
    <2> DEFINE N == {n \in Nat : n <= Len(file) => Sums(file)[n] \in Nat}
    <2>1. 0 \in N
      BY <1>7
    <2>2. ASSUME NEW n \in Nat, n \in N PROVE n + 1 \in N
      BY <1>1, <1>7, <2>2
    <2> HIDE DEF N
    <2>3. \A n \in Nat : n \in N
      BY <2>1, <2>2, SetInduction
    <2>4. QED
      BY <1>1, <2>3 DEF N
  <1>9. Sums(file) \in [0 .. Len(file) -> Nat]
    BY <1>6, <1>8
  <1>10. Written(file) = Sums(file)[Len(file)]
    BY DEF Written, Sums
  <1>11. QED
    BY <1>7, <1>9, <1>10

\* A line more makes a file longer by its length.
LEMMA WrittenAppend ==
  ASSUME NEW file \in Seq(Line), NEW l \in Line
  PROVE  Written(file) \in Nat /\ Written(Append(file, l)) = Written(file) + l.len
  <1> DEFINE more == Append(file, l)
  <1>1. /\ more \in Seq(Line) /\ Len(more) = Len(file) + 1 /\ Len(file) \in Nat
        /\ \A i \in 1 .. Len(file) : more[i] = file[i]
        /\ more[Len(file) + 1] = l
    OBVIOUS
  <1> HIDE DEF more
  <1>2. /\ Sums(more)[0] = 0
        /\ \A i \in 1 .. Len(more) : Sums(more)[i] = Sums(more)[i - 1] + more[i].len
        /\ Written(more) = Sums(more)[Len(more)]
    BY <1>1, SumsOf
  <1>3. /\ Sums(file) \in [0 .. Len(file) -> Nat] /\ Sums(file)[0] = 0
        /\ \A i \in 1 .. Len(file) : Sums(file)[i] = Sums(file)[i - 1] + file[i].len
        /\ Written(file) = Sums(file)[Len(file)]
    BY SumsOf
  <1> DEFINE N == {n \in Nat : n <= Len(file) => Sums(more)[n] = Sums(file)[n]}
  <1>4. 0 \in N
    BY <1>2, <1>3
  <1>5. ASSUME NEW n \in Nat, n \in N PROVE n + 1 \in N
    <2> SUFFICES ASSUME n + 1 <= Len(file) PROVE Sums(more)[n + 1] = Sums(file)[n + 1]
      OBVIOUS
    <2>1. n + 1 \in 1 .. Len(file) /\ n + 1 \in 1 .. Len(more) /\ (n + 1) - 1 = n
      BY <1>1
    <2>2. Sums(more)[n + 1] = Sums(more)[n] + more[n + 1].len
      BY <1>2, <2>1
    <2>3. Sums(file)[n + 1] = Sums(file)[n] + file[n + 1].len
      BY <1>3, <2>1
    <2>4. QED
      BY <1>1, <1>5, <2>1, <2>2, <2>3
  <1>6. Len(file) \in N
    <2> HIDE DEF N
    <2>1. QED
      BY <1>1, <1>4, <1>5, SetInduction
  <1>7. Sums(more)[Len(file)] = Written(file) /\ Written(file) \in Nat
    BY <1>1, <1>3, <1>6
  <1>8. Sums(more)[Len(file) + 1] = Sums(more)[Len(file)] + l.len
    <2>1. Len(file) + 1 \in 1 .. Len(more) /\ (Len(file) + 1) - 1 = Len(file)
      BY <1>1
    <2>2. QED
      BY <1>1, <1>2, <2>1
  <1>9. QED
    BY <1>1, <1>2, <1>7, <1>8 DEF more

\* An empty file has no length.
LEMMA WrittenEmpty == Written(<<>>) = 0
  <1>1. <<>> \in Seq(Line) /\ Len(<<>>) = 0
    OBVIOUS
  <1>2. QED
    BY <1>1, SumsOf

-------------------------------------------------------------------------------
(* Every step keeps the types *)

\* Steps of a rotation are places in it.
LEMMA Places ==
  /\ Quiet \in Rotations /\ At("write", 0) \in Rotations /\ At("open", 0) \in Rotations
  /\ \A i \in 1 .. MaxBak : At("remove", i) \in Rotations /\ At("rename", i) \in Rotations
  /\ FirstStep \in Rotations
  /\ \A i \in 1 .. MaxBak : AfterRename(i) \in Rotations
  <1> USE RotatingFileAssumption DEF Rotations, Rotating, Names, Quiet, At
  <1>1. /\ Quiet \in Rotations /\ At("write", 0) \in Rotations /\ At("open", 0) \in Rotations
        /\ \A i \in 1 .. MaxBak : At("remove", i) \in Rotations /\ At("rename", i) \in Rotations
    OBVIOUS
  <1>2. FirstStep \in Rotations
    BY DEF FirstStep
  <1>3. ASSUME NEW i \in 1 .. MaxBak PROVE AfterRename(i) \in Rotations
    BY DEF AfterRename
  <1>4. QED
    BY <1>1, <1>2, <1>3

\* The steps of a rotation keep the types of the file's state.
LEMMA RotateTypes ==
  ASSUME FileTypes, ControlInv, RemoveOld \/ RenamePrev \/ ReopenFails
  PROVE  FileTypes'
  <1> USE RotatingFileAssumption
  <1>1. rot.i \in Names /\ rot \in Rotations
    BY DEF FileTypes, Rotations
  <1>2. CASE RemoveOld
    <2>1. rot.i \in 1 .. MaxBak
      BY <1>1, <1>2 DEF RemoveOld, ControlInv, Names
    <2>2. rot' \in Rotations
      BY <1>2, <2>1, Places DEF RemoveOld
    <2>3. dir' \in [Names -> Inodes \cup {None}]
      BY <1>2 DEF RemoveOld, FileTypes
    <2>4. failed' \in [Calls -> Nat]
      BY <1>2, FailsType DEF RemoveOld, FileTypes, Calls
    <2>5. QED
      BY <1>2, <2>2, <2>3, <2>4 DEF RemoveOld, FileTypes
  <1>3. CASE RenamePrev
    <2>1. rot.i \in 1 .. MaxBak /\ Prev(rot.i) \in Names
      BY <1>1, <1>3 DEF RenamePrev, ControlInv, Names, Prev
    <2>2. rot' \in Rotations
      BY <1>3, <2>1, Places DEF RenamePrev
    <2>3. dir' \in [Names -> Inodes \cup {None}]
      BY <1>3, <2>1 DEF RenamePrev, FileTypes
    <2>4. failed' \in [Calls -> Nat]
      BY <1>3, FailsType DEF RenamePrev, FileTypes, Calls
    <2>5. QED
      BY <1>3, <2>2, <2>3, <2>4 DEF RenamePrev, FileTypes
  <1>4. CASE ReopenFails
    <2>1. failed' \in [Calls -> Nat]
      BY <1>4, FailsType DEF ReopenFails, Calls
    <2>2. QED
      BY <1>4, <2>1, Places DEF ReopenFails, FileTypes
  <1>5. QED
    BY <1>2, <1>3, <1>4

\* The live file, emptied or created.
LEMMA OpenTypes ==
  ASSUME FileTypes, NEW file, dir[0] = None => file \in Inodes, Reopen(file) \/ NewRotatingFile(file)
  PROVE  FileTypes'
  <1> USE RotatingFileAssumption
  <1>1. 0 \in Names
    BY DEF Names
  <1> DEFINE live == IF dir[0] = None THEN file ELSE dir[0]
  <1>2. live \in Inodes
    BY <1>1 DEF FileTypes
  <1>3. dir' = [dir EXCEPT ![0] = live] /\ handle' = live /\ UNCHANGED <<archived, failed>>
    BY DEF Reopen, NewRotatingFile
  <1>4. rot' \in Rotations
    BY Places DEF Reopen, NewRotatingFile
  <1>5. data' = [data EXCEPT ![live] = <<>>] \/ data' = data
    BY DEF Reopen, NewRotatingFile
  <1>6. data' \in [Inodes -> Seq(Line)]
    <2>1. data \in [Inodes -> Seq(Line)] /\ <<>> \in Seq(Line)
      BY DEF FileTypes
    <2> HIDE DEF live
    <2>2. QED
      BY <1>2, <1>5, <2>1
  <1>7. size' \in Nat
    <2>1. CASE Reopen(file)
      BY <2>1 DEF Reopen
    <2>2. CASE NewRotatingFile(file)
      <3>1. data[live] \in Seq(Line)
        BY <1>2 DEF FileTypes
      <3>2. Written(data[live]) \in Nat
        <4> HIDE DEF live
        <4>1. Written(data[live]) = Sums(data[live])[Len(data[live])] /\ Len(data[live]) \in Nat
              /\ Sums(data[live]) \in [0 .. Len(data[live]) -> Nat]
          BY <3>1, SumsOf
        <4>2. QED
          BY <4>1
      <3>3. QED
        BY <2>2, <3>2 DEF NewRotatingFile, StatSize
    <2>3. QED
      BY <2>1, <2>2
  <1> HIDE DEF live
  <1>8. dir' \in [Names -> Inodes \cup {None}]
    BY <1>2, <1>3 DEF FileTypes
  <1>9. QED
    BY <1>2, <1>3, <1>4, <1>6, <1>7, <1>8 DEF FileTypes

\* The writes.
LEMMA WriteTypes ==
  ASSUME FileTypes, NEW ev \in Nat, NEW len \in Nat,
         WriteAll(ev, len) \/ WriteShort(ev, len) \/ WriteClosed
  PROVE  FileTypes'
  <1>1. CASE WriteAll(ev, len)
    <2>1. [ev |-> ev, len |-> len, whole |-> TRUE] \in Line
      BY DEF Line
    <2>2. /\ data' = [data EXCEPT ![handle] = Append(data[handle], [ev |-> ev, len |-> len, whole |-> TRUE])]
          /\ size' = size + len /\ rot' = Quiet /\ handle \in Inodes
          /\ UNCHANGED <<dir, archived, handle, failed>>
      BY <1>1 DEF WriteAll, FileTypes
    <2>3. data' \in [Inodes -> Seq(Line)]
      BY <2>1, <2>2 DEF FileTypes
    <2>4. QED
      BY <2>2, <2>3, Places DEF FileTypes
  <1>2. CASE WriteShort(ev, len)
    <2>1. [ev |-> ev, len |-> 1, whole |-> FALSE] \in Line
      BY DEF Line
    <2>2. PICK n \in {0, 1} :
            /\ data' = [data EXCEPT ![handle] =
                  IF n = 0 THEN data[handle]
                  ELSE Append(data[handle], [ev |-> ev, len |-> n, whole |-> FALSE])]
            /\ size' = size + n
      BY <1>2 DEF WriteShort
    <2>3. /\ rot' = Quiet /\ handle \in Inodes /\ UNCHANGED <<dir, archived, handle>> /\ Fails("write")
      BY <1>2 DEF WriteShort, FileTypes
    <2>4. data' \in [Inodes -> Seq(Line)]
      <3>1. data \in [Inodes -> Seq(Line)]
        BY DEF FileTypes
      <3>2. CASE n = 0
        BY <2>2, <2>3, <3>1, <3>2
      <3>3. CASE n = 1
        BY <2>1, <2>2, <2>3, <3>1, <3>3
      <3>4. QED
        BY <3>2, <3>3
    <2>5. failed' \in [Calls -> Nat]
      BY <2>3, FailsType DEF Calls
    <2>6. QED
      BY <2>2, <2>3, <2>4, <2>5, Places DEF FileTypes
  <1>3. CASE WriteClosed
    BY <1>3, Places DEF WriteClosed, FileTypes
  <1>4. QED
    BY <1>1, <1>2, <1>3

\* Opening and closing the store's file, and renaming it away.
LEMMA OtherFileTypes ==
  ASSUME FileTypes, (\E len \in Nat : WriteBegin(len)) \/ FileClose \/ FileCrash \/ ArchiveAuditFile
  PROVE  FileTypes'
  <1> USE RotatingFileAssumption
  <1>1. CASE \E len \in Nat : WriteBegin(len)
    BY <1>1, Places DEF WriteBegin, FileTypes
  <1>2. CASE FileClose
    BY <1>2 DEF FileClose, FileTypes
  <1>3. CASE FileCrash
    BY <1>3, Places DEF FileCrash, FileTypes
  <1>4. CASE ArchiveAuditFile
    <2>1. dir[0] \in Inodes /\ 0 \in Names
      BY <1>4 DEF ArchiveAuditFile, FileTypes, Names
    <2>2. archived' \in SUBSET Inodes /\ IsFiniteSet(archived')
      BY <1>4, <2>1, FS_AddElement DEF ArchiveAuditFile, FileTypes
    <2>3. QED
      BY <1>4, <2>1, <2>2 DEF ArchiveAuditFile, FileTypes
  <1>5. QED
    BY <1>1, <1>2, <1>3, <1>4

\* The idle values, and the lengths a line may have.
LEMMA Idles ==
  /\ Idle \in RecordCalls /\ NoQuery \in QueryCalls
  /\ Unsigned \in Nat /\ Signed \in Nat /\ None \notin Recorders /\ None \notin Inodes /\ MaxBak \in Nat
  BY RotatingFileAssumption, SupervisionStoreAssumption DEF Idle, NoQuery, RecordCalls, QueryCalls

\* Every step keeps the types.
LEMMA NextTypeOK == TypeOK /\ ControlInv /\ NamesInv /\ [Next]_vars => TypeOK'
  <1> SUFFICES ASSUME FileTypes, StoreTypes, ControlInv, NamesInv, [Next]_vars
               PROVE  FileTypes' /\ StoreTypes'
    BY DEF TypeOK
  <1> USE Idles
  <1>1. ASSUME NEW r \in Recorders, Record(r) PROVE FileTypes' /\ StoreTypes'
    <2>1. left' \in Budgets
      BY <1>1, SpendType DEF Record
    <2>2. stamp \in Nat /\ rec \in [Recorders -> RecordCalls]
      BY DEF StoreTypes
    <2>3. [pc |-> "signing", ev |-> stamp + 1, len |-> 0] \in RecordCalls
      BY <2>2 DEF RecordCalls
    <2>4. rec' \in [Recorders -> RecordCalls]
      BY <1>1, <2>2, <2>3 DEF Record
    <2>5. QED
      BY <1>1, <2>1, <2>2, <2>4 DEF Record, FileTypes, StoreTypes, fileVars
  <1>2. ASSUME NEW r \in Recorders, Sign(r) PROVE FileTypes' /\ StoreTypes'
    <2>1. PICK n \in Nat : rec' = [rec EXCEPT ![r] = [rec[r] EXCEPT !.pc = "locking", !.len = n]]
      BY <1>2 DEF Sign
    <2>2. rec \in [Recorders -> RecordCalls]
      BY DEF StoreTypes
    <2>3. [rec[r] EXCEPT !.pc = "locking", !.len = n] \in RecordCalls
      BY <2>2 DEF RecordCalls
    <2>4. rec' \in [Recorders -> RecordCalls]
      BY <2>1, <2>2, <2>3
    <2>5. QED
      BY <1>2, <2>4 DEF Sign, FileTypes, StoreTypes, fileVars
  <1>3. ASSUME NEW r \in Recorders, Lock(r) PROVE FileTypes' /\ StoreTypes'
    <2>1. rec \in [Recorders -> RecordCalls]
      BY DEF StoreTypes
    <2>2. rec[r].len \in Nat /\ [rec[r] EXCEPT !.pc = "writing"] \in RecordCalls
      BY <2>1 DEF RecordCalls
    <2>3. rec' = [rec EXCEPT ![r] = [rec[r] EXCEPT !.pc = "writing"]]
      BY <1>3 DEF Lock
    <2>4. rec' \in [Recorders -> RecordCalls]
      BY <2>1, <2>2, <2>3
    <2>5. FileTypes'
      BY <1>3, <2>2, OtherFileTypes DEF Lock
    <2>6. QED
      BY <1>3, <2>4, <2>5 DEF Lock, StoreTypes
  <1>4. CASE Rotate
    <2>1. CASE RemoveOld \/ RenamePrev
      BY <1>4, <2>1, RotateTypes DEF Rotate, storeVars, StoreTypes
    <2>2. CASE Reopen(Free)
      <3>1. dir[0] = None => Free \in Inodes
        BY <2>2, FreeFile DEF Reopen, NamesInv, Rotating, TypeOK
      <3>2. FileTypes'
        BY <2>2, <3>1, OpenTypes
      <3>3. QED
        BY <1>4, <3>2 DEF Rotate, storeVars, StoreTypes
    <2>3. QED
      BY <1>4, <2>1, <2>2 DEF Rotate
  <1>5. ASSUME NEW r \in Recorders, Ack(r) PROVE FileTypes' /\ StoreTypes'
    <2>1. rec \in [Recorders -> RecordCalls] /\ acked \in Seq(Nat)
      BY DEF StoreTypes
    <2>2. rec[r].len \in Nat /\ rec[r].ev \in Nat
      BY <2>1 DEF RecordCalls
    <2>3. FileTypes'
      BY <1>5, <2>2, WriteTypes DEF Ack
    <2>4. rec' \in [Recorders -> RecordCalls] /\ acked' \in Seq(Nat)
      BY <1>5, <2>1, <2>2 DEF Ack
    <2>5. QED
      BY <1>5, <2>3, <2>4 DEF Ack, StoreTypes
  <1>6. ASSUME NEW r \in Recorders, Fail(r) PROVE FileTypes' /\ StoreTypes'
    <2>1. rec \in [Recorders -> RecordCalls]
      BY DEF StoreTypes
    <2>2. rec[r].len \in Nat /\ rec[r].ev \in Nat
      BY <2>1 DEF RecordCalls
    <2>3. FileTypes'
      BY <1>6, <2>2, WriteTypes, RotateTypes DEF Fail
    <2>4. rec' \in [Recorders -> RecordCalls]
      BY <1>6, <2>1 DEF Fail
    <2>5. QED
      BY <1>6, <2>3, <2>4 DEF Fail, StoreTypes
  <1>7. CASE Close
    BY <1>7, OtherFileTypes DEF Close, StoreTypes
  <1>8. CASE Crash
    <2>1. FileTypes'
      BY <1>8, OtherFileTypes DEF Crash
    <2>2. rec' \in [Recorders -> RecordCalls] /\ query' \in QueryCalls /\ writer' = None
      BY <1>8 DEF Crash
    <2>3. up' \in BOOLEAN
      BY <1>8 DEF Crash
    <2>4. crashes' \in Nat /\ UNCHANGED <<acked, stamp, left>>
      BY <1>8 DEF Crash, StoreTypes
    <2>5. QED
      BY <2>1, <2>2, <2>3, <2>4 DEF StoreTypes
  <1>9. CASE NewSupervisionStore
    <2>1. dir[0] = None => Free \in Inodes
      BY <1>9, FreeFile DEF NewSupervisionStore, ControlInv, TypeOK
    <2>2. FileTypes'
      BY <1>9, <2>1, OpenTypes DEF NewSupervisionStore
    <2>3. left' \in Budgets
      BY <1>9, SpendType DEF NewSupervisionStore
    <2>4. QED
      BY <1>9, <2>2, <2>3 DEF NewSupervisionStore, StoreTypes
  <1>10. CASE Archive
    <2>1. FileTypes'
      BY <1>10, OtherFileTypes DEF Archive
    <2>2. left' \in Budgets
      BY <1>10, SpendType DEF Archive
    <2>3. QED
      BY <1>10, <2>1, <2>2 DEF Archive, StoreTypes
  <1>11. CASE QueryOpen
    <2>1. left' \in Budgets
      BY <1>11, SpendType DEF QueryOpen
    <2>2. PICK want \in Filters : query' = [NoQuery EXCEPT !.file = dir[0], !.want = want]
      BY <1>11 DEF QueryOpen
    <2>3. dir[0] \in Inodes
      BY <1>11 DEF QueryOpen, FileTypes, Names
    <2>4. query' = [file |-> dir[0], pos |-> 0, want |-> want, out |-> <<>>]
      BY <2>2 DEF NoQuery
    <2>5. query' \in QueryCalls
      BY <2>3, <2>4 DEF QueryCalls
    <2>6. QED
      BY <1>11, <2>1, <2>5 DEF QueryOpen, StoreTypes, FileTypes, fileVars
  <1>12. CASE QueryLine
    <2> DEFINE file == data[query.file]
               i == query.pos + 1
               more == IF Readable(file, i) /\ file[i].ev \in query.want
                       THEN Append(query.out, file[i].ev) ELSE query.out
    <2>1. query \in QueryCalls /\ query.file # None /\ i <= Len(file)
          /\ query' = [query EXCEPT !.pos = i, !.out = more]
      BY <1>12 DEF QueryLine, StoreTypes
    <2>2. query.file \in Inodes /\ i \in Nat /\ i > 0 /\ query.out \in Seq(Nat)
      BY <2>1 DEF QueryCalls
    <2>3. file \in Seq(Line)
      BY <2>2 DEF FileTypes
    <2>4. file[i] \in Line
      BY <2>1, <2>2, <2>3
    <2>5. more \in Seq(Nat)
      BY <2>2, <2>4 DEF Line
    <2> HIDE DEF more, i, file
    <2>6. query' \in QueryCalls
      BY <2>1, <2>2, <2>5 DEF QueryCalls
    <2>7. QED
      BY <1>12, <2>6 DEF QueryLine, StoreTypes, FileTypes, fileVars
  <1>13. CASE QueryEnd
    BY <1>13 DEF QueryEnd, StoreTypes, FileTypes, fileVars
  <1>14. CASE Seal \/ UNCHANGED vars
    BY <1>14 DEF Seal, vars, StoreTypes, FileTypes, fileVars, storeVars
  <1>15. QED
    BY <1>1, <1>2, <1>3, <1>4, <1>5, <1>6, <1>7, <1>8, <1>9, <1>10, <1>11, <1>12, <1>13, <1>14 DEF Next

-------------------------------------------------------------------------------
(* Who holds the mutex, and which file has which name *)

\* The first step of a rotation, and the one after a rename.
LEMMA Steps ==
  /\ FirstStep.at \in {"remove", "open"} /\ (FirstStep.at = "remove" => FirstStep.i > 0 /\ FirstStep.i = MaxBak)
  /\ (FirstStep.at = "open" => MaxBak = 0 /\ FirstStep.i = 0)
  /\ \A i \in 1 .. MaxBak :
       \/ i = 1 /\ AfterRename(i) = At("open", 0)
       \/ i > 1 /\ AfterRename(i) = At("remove", i - 1)
  BY RotatingFileAssumption DEF FirstStep, AfterRename, At

\* Every step keeps who holds the mutex.
LEMMA NextControl == TypeOK /\ ControlInv /\ [Next]_vars => ControlInv'
  <1> SUFFICES ASSUME FileTypes, StoreTypes, ControlInv, [Next]_vars PROVE ControlInv'
    BY DEF TypeOK
  <1> USE Idles
  <1>1. rec \in [Recorders -> RecordCalls] /\ rot \in Rotations /\ writer \in Recorders \cup {None}
    BY DEF FileTypes, StoreTypes
  <1>2. rot.i \in 0 .. MaxBak
    BY <1>1 DEF Rotations, Names
  <1>3. Quiet.at = "none"
    BY DEF Quiet
  <1>4. ASSUME NEW r \in Recorders, Record(r) PROVE ControlInv'
    <2>1. \A q \in Recorders : rec'[q] = rec[q] \/ (q = r /\ rec[r].pc = "idle")
      BY <1>1, <1>4 DEF Record
    <2>2. QED
      BY <1>4, <2>1 DEF Record, ControlInv, fileVars
  <1>5. ASSUME NEW r \in Recorders, Sign(r) PROVE ControlInv'
    <2>1. rec[r].pc = "signing" /\ \A q \in Recorders : rec'[q] = rec[q] \/ q = r
      BY <1>1, <1>5 DEF Sign
    <2>2. QED
      BY <1>5, <2>1 DEF Sign, ControlInv, fileVars
  <1>6. ASSUME NEW r \in Recorders, Lock(r) PROVE ControlInv'
    <2>1. rec[r].pc = "locking" /\ rec'[r].pc = "writing" /\ \A q \in Recorders : rec'[q] = rec[q] \/ q = r
      BY <1>1, <1>6 DEF Lock, RecordCalls
    <2>2. rot' = FirstStep \/ rot' = At("write", 0)
      BY <1>6 DEF Lock, WriteBegin
    <2>3. rot'.at # "none" /\ (rot'.at \in {"remove", "rename"} => rot'.i > 0) /\ (rot'.at = "open" => rot'.i = 0)
      BY <2>2, Steps DEF At
    <2>4. up' = up /\ up /\ writer' = r
      BY <1>6, <2>1 DEF Lock, ControlInv
    <2>5. QED
      BY <2>1, <2>3, <2>4 DEF ControlInv
  <1>7. CASE Rotate
    <2>1. rot.at # "none" /\ writer' = writer /\ rec' = rec /\ up' = up /\ query' = query
      BY <1>7 DEF Rotate, RemoveOld, RenamePrev, Reopen, storeVars
    <2>2. rot'.at # "none" /\ (rot'.at \in {"remove", "rename"} => rot'.i > 0) /\ (rot'.at = "open" => rot'.i = 0)
      <3>1. CASE RemoveOld
        BY <3>1 DEF RemoveOld, At, ControlInv
      <3>2. CASE RenamePrev
        <4>1. rot.i \in 1 .. MaxBak /\ rot' = AfterRename(rot.i)
          BY <1>2, <3>2 DEF RenamePrev, ControlInv
        <4>2. QED
          BY <4>1, Steps DEF At
      <3>3. CASE Reopen(Free)
        BY <3>3 DEF Reopen, At
      <3>4. QED
        BY <1>7, <3>1, <3>2, <3>3 DEF Rotate
    <2>3. up
      BY <1>3, <2>1 DEF ControlInv
    <2>4. QED
      BY <2>1, <2>2, <2>3 DEF ControlInv
  <1>8. ASSUME NEW r \in Recorders, Ack(r) \/ Fail(r) PROVE ControlInv'
    <2>1. writer' = None /\ rot' = Quiet /\ up' = up /\ writer = r /\ query' = query
      BY <1>8 DEF Ack, Fail, WriteAll, ReopenFails, WriteShort, WriteClosed
    <2>2. up
      BY <1>3, <2>1 DEF ControlInv
    <2>3. QED
      BY <1>3, <2>1, <2>2 DEF ControlInv
  <1>9. CASE Close
    BY <1>9 DEF Close, FileClose, ControlInv
  <1>10. CASE Crash
    <2>1. up' = FALSE /\ handle' = None /\ rot' = Quiet /\ writer' = None /\ query' = NoQuery
      BY <1>10 DEF Crash, FileCrash
    <2>2. \A r \in Recorders : rec'[r].pc = "idle"
      BY <1>10 DEF Crash, Idle
    <2>3. QED
      BY <1>3, <2>1, <2>2 DEF ControlInv
  <1>11. CASE NewSupervisionStore
    <2>1. up' = TRUE /\ ~up /\ rot' = Quiet /\ writer' = writer /\ rec' = rec
      BY <1>11 DEF NewSupervisionStore, NewRotatingFile
    <2>2. writer = None
      BY <1>3, <2>1 DEF ControlInv
    <2>3. QED
      BY <1>3, <2>1, <2>2 DEF ControlInv
  <1>12. CASE Archive
    BY <1>12 DEF Archive, ArchiveAuditFile, ControlInv
  <1>13. CASE QueryOpen
    BY <1>13 DEF QueryOpen, ControlInv, fileVars
  <1>14. CASE QueryLine \/ QueryEnd
    <2>1. query.file # None /\ up' = up /\ rec' = rec /\ writer' = writer /\ rot' = rot /\ handle' = handle
      BY <1>14 DEF QueryLine, QueryEnd, fileVars
    <2>2. up
      BY <2>1 DEF ControlInv, NoQuery
    <2>3. QED
      BY <2>1, <2>2 DEF ControlInv
  <1>15. CASE Seal \/ UNCHANGED vars
    BY <1>15 DEF Seal, vars, fileVars, storeVars, ControlInv
  <1>16. QED
    BY <1>4, <1>5, <1>6, <1>7, <1>8, <1>9, <1>10, <1>11, <1>12, <1>13, <1>14, <1>15 DEF Next

\* The steps that leave every name and every file where it is.
Resting ==
  /\ UNCHANGED <<dir, archived>>
  /\ handle' \in {handle, None}
  /\ left'.archives = left.archives
  /\ (rot'.at \in Rotating => rot' = rot \/ (rot' = FirstStep /\ handle' = None))
  /\ \A c \in Calls : failed'[c] >= failed[c]

\* Which steps move names: those of a rotation, a start and an archiver's.
LEMMA NamesMove ==
  ASSUME TypeOK, ControlInv, NamesInv, [Next]_vars
  PROVE  \/ Resting
         \/ RemoveOld /\ left' = left
         \/ RenamePrev /\ left' = left
         \/ (Reopen(Free) \/ NewRotatingFile(Free)) /\ left'.archives = left.archives
               /\ handle = None /\ \A c \in Calls : failed'[c] = failed[c]
         \/ ArchiveAuditFile /\ left'.archives = left.archives - 1 /\ left.archives > 0
  <1> USE DEF TypeOK
  <1>1. StoreTypes /\ FileTypes /\ failed \in [Calls -> Nat]
    BY DEF FileTypes
  <1>2. \A c \in Calls : failed[c] >= failed[c]
    BY <1>1
  <1>3. Quiet.at \notin Rotating /\ At("write", 0).at \notin Rotating
    BY DEF Quiet, At, Rotating
  <1>4. ASSUME NEW r \in Recorders, Record(r) PROVE Resting
    BY <1>1, <1>2, <1>4, SpendType DEF Record, Resting, fileVars
  <1>5. ASSUME NEW r \in Recorders, Sign(r) PROVE Resting
    BY <1>2, <1>5 DEF Sign, Resting, fileVars
  <1>6. ASSUME NEW r \in Recorders, Lock(r) PROVE Resting
    BY <1>2, <1>3, <1>6 DEF Lock, WriteBegin, Resting
  <1>7. ASSUME NEW r \in Recorders, Ack(r) PROVE Resting
    BY <1>2, <1>3, <1>7 DEF Ack, WriteAll, Resting
  <1>8. ASSUME NEW r \in Recorders, Fail(r) PROVE Resting
    <2>1. /\ UNCHANGED <<dir, archived, handle, left>> /\ rot' = Quiet
          /\ \/ Fails("open") \/ Fails("write") \/ failed' = failed
      BY <1>8 DEF Fail, ReopenFails, WriteShort, WriteClosed
    <2>2. \A c \in Calls : failed'[c] >= failed[c]
      BY <1>1, <2>1 DEF Fails
    <2>3. QED
      BY <1>3, <2>1, <2>2 DEF Resting
  <1>9. CASE Rotate
    <2>1. CASE RemoveOld \/ RenamePrev
      BY <1>9, <2>1 DEF Rotate, storeVars
    <2>2. CASE Reopen(Free)
      <3>1. failed' = failed /\ left' = left
        BY <1>9, <2>2 DEF Rotate, storeVars, Reopen
      <3>2. handle = None
        BY <2>2 DEF Reopen, NamesInv, Rotating
      <3>3. QED
        BY <2>2, <3>1, <3>2
    <2>3. QED
      BY <1>9, <2>1, <2>2 DEF Rotate
  <1>10. CASE Close
    BY <1>2, <1>10 DEF Close, FileClose, Resting
  <1>11. CASE Crash
    BY <1>2, <1>3, <1>11 DEF Crash, FileCrash, Resting
  <1>12. CASE NewSupervisionStore
    <2>1. NewRotatingFile(Free) /\ ~up /\ Spend("starts")
      BY <1>12 DEF NewSupervisionStore
    <2>2. handle = None /\ failed' = failed /\ left'.archives = left.archives
      BY <1>1, <2>1, SpendType DEF NewRotatingFile, ControlInv
    <2>3. QED
      BY <2>1, <2>2
  <1>13. CASE Archive
    BY <1>1, <1>13, SpendType DEF Archive
  <1>14. CASE QueryOpen
    BY <1>1, <1>2, <1>14, SpendType DEF QueryOpen, Resting, fileVars
  <1>15. CASE QueryLine \/ QueryEnd
    BY <1>2, <1>15 DEF QueryLine, QueryEnd, Resting, fileVars
  <1>16. CASE Seal \/ UNCHANGED vars
    BY <1>2, <1>16 DEF Seal, vars, fileVars, storeVars, Resting
  <1>17. QED
    BY <1>4, <1>5, <1>6, <1>7, <1>8, <1>9, <1>10, <1>11, <1>12, <1>13, <1>14, <1>15, <1>16 DEF Next

\* What the three steps of a rotation and the archiver do to the names.
LEMMA NamesAfter ==
  ASSUME TypeOK, ControlInv
  PROVE  /\ RemoveOld => /\ rot.i \in 1 .. MaxBak
                         /\ \A i \in Names : i # rot.i => dir'[i] = dir[i]
                         /\ dir'[rot.i] \in {dir[rot.i], None}
         /\ RenamePrev => /\ rot.i \in 1 .. MaxBak /\ rot.i - 1 \in Names
                          /\ \A i \in Names : i # rot.i /\ i # rot.i - 1 => dir'[i] = dir[i]
                          /\ \/ dir'[rot.i] = dir[rot.i] /\ dir'[rot.i - 1] = dir[rot.i - 1]
                             \/ dir'[rot.i] = dir[rot.i - 1] /\ dir'[rot.i - 1] = None
         /\ \A f : Reopen(f) \/ NewRotatingFile(f) =>
              /\ \A i \in Names : i # 0 => dir'[i] = dir[i]
              /\ dir'[0] = handle' /\ handle' = IF dir[0] = None THEN f ELSE dir[0]
         /\ ArchiveAuditFile => /\ \A i \in Names : i # 0 => dir'[i] = dir[i]
                                /\ dir'[0] = None /\ archived' = archived \cup {dir[0]}
                                /\ dir[0] \in Inodes
  <1> USE RotatingFileAssumption DEF Names
  <1>1. dir \in [Names -> Inodes \cup {None}] /\ rot.i \in Names /\ 0 \in Names
    BY DEF TypeOK, FileTypes, Rotations
  <1>2. ASSUME RemoveOld
        PROVE  /\ rot.i \in 1 .. MaxBak
               /\ \A i \in Names : i # rot.i => dir'[i] = dir[i]
               /\ dir'[rot.i] \in {dir[rot.i], None}
    BY <1>1, <1>2 DEF RemoveOld, ControlInv
  <1>3. ASSUME RenamePrev
        PROVE  /\ rot.i \in 1 .. MaxBak /\ rot.i - 1 \in Names
               /\ \A i \in Names : i # rot.i /\ i # rot.i - 1 => dir'[i] = dir[i]
               /\ \/ dir'[rot.i] = dir[rot.i] /\ dir'[rot.i - 1] = dir[rot.i - 1]
                  \/ dir'[rot.i] = dir[rot.i - 1] /\ dir'[rot.i - 1] = None
    <2>1. rot.i \in 1 .. MaxBak /\ rot.i - 1 \in Names /\ rot.i \in Names
      BY <1>1, <1>3 DEF RenamePrev, ControlInv
    <2>2. dir' = dir \/ dir' = [dir EXCEPT ![rot.i] = dir[rot.i - 1], ![rot.i - 1] = None]
      BY <1>3 DEF RenamePrev, Prev
    <2>3. QED
      BY <1>1, <2>1, <2>2
  <1>4. ASSUME NEW f, Reopen(f) \/ NewRotatingFile(f)
        PROVE  /\ \A i \in Names : i # 0 => dir'[i] = dir[i]
               /\ dir'[0] = handle' /\ handle' = IF dir[0] = None THEN f ELSE dir[0]
    BY <1>1, <1>4 DEF Reopen, NewRotatingFile
  <1>5. ASSUME ArchiveAuditFile
        PROVE  /\ \A i \in Names : i # 0 => dir'[i] = dir[i]
               /\ dir'[0] = None /\ archived' = archived \cup {dir[0]}
               /\ dir[0] \in Inodes
    BY <1>1, <1>5 DEF ArchiveAuditFile
  <1>6. QED
    BY <1>2, <1>3, <1>4, <1>5

\* Every step keeps a name to a file.
LEMMA NextNames == TypeOK /\ ControlInv /\ NamesInv /\ [Next]_vars => NamesInv'
  <1> SUFFICES ASSUME TypeOK, ControlInv, NamesInv, [Next]_vars PROVE NamesInv'
    OBVIOUS
  <1> USE RotatingFileAssumption
  <1>1. 0 \in Names /\ \A i \in Names : dir[i] \in Inodes \cup {None}
    BY DEF Names, TypeOK, FileTypes
  <1>2. CASE Resting
    <2>1. rot'.at \in Rotating => handle' = None
      BY <1>2 DEF Resting, NamesInv
    <2>2. QED
      BY <1>2, <2>1 DEF Resting, NamesInv
  <1>3. CASE RemoveOld /\ left' = left
    <2>1. /\ handle = None /\ handle' = None /\ archived' = archived /\ left' = left
          /\ \A i \in Names : dir'[i] \in {dir[i], None}
      BY <1>3, NamesAfter DEF RemoveOld, NamesInv, Rotating
    <2>2. None \notin archived
      BY DEF TypeOK, FileTypes
    <2>3. QED
      BY <2>1, <2>2 DEF NamesInv
  <1>4. CASE RenamePrev /\ left' = left
    <2>1. handle = None /\ handle' = None /\ archived' = archived /\ None \notin archived
      BY <1>4 DEF RenamePrev, NamesInv, Rotating, TypeOK, FileTypes
    <2>2. \A i, j \in Names : dir'[i] # None /\ dir'[i] = dir'[j] => i = j
      BY <1>4, NamesAfter DEF NamesInv
    <2>3. \A i \in Names : dir'[i] \notin archived'
      BY <1>4, <2>1, NamesAfter DEF NamesInv
    <2>4. QED
      BY <1>4, <2>1, <2>2, <2>3 DEF NamesInv
  <1>5. CASE (Reopen(Free) \/ NewRotatingFile(Free)) /\ left'.archives = left.archives /\ handle = None
    <2>1. /\ dir[0] = None => Free \in Inodes /\ Free \notin archived /\ \A i \in Names : dir[i] # Free
          /\ archived' = archived /\ rot'.at \notin Rotating
      BY <1>5, FreeFile DEF Reopen, NewRotatingFile, At, Quiet, Rotating
    <2>2. /\ \A i \in Names : i # 0 => dir'[i] = dir[i]
          /\ dir'[0] = handle' /\ handle' = IF dir[0] = None THEN Free ELSE dir[0]
      BY <1>5, NamesAfter
    <2>3. \A i, j \in Names : dir'[i] # None /\ dir'[i] = dir'[j] => i = j
      BY <1>1, <2>1, <2>2 DEF NamesInv
    <2>4. \A i \in Names : dir'[i] \notin archived'
      BY <1>1, <2>1, <2>2 DEF NamesInv
    <2>5. QED
      BY <1>5, <2>1, <2>2, <2>3, <2>4 DEF NamesInv
  <1>6. CASE ArchiveAuditFile /\ left'.archives = left.archives - 1 /\ left.archives > 0
    <2>1. /\ \A i \in Names : i # 0 => dir'[i] = dir[i]
          /\ dir'[0] = None /\ archived' = archived \cup {dir[0]}
          /\ dir[0] \in Inodes /\ None \notin Inodes /\ handle' = handle /\ rot' = rot
      BY <1>6, NamesAfter DEF ArchiveAuditFile
    <2>2. \A i, j \in Names : dir'[i] # None /\ dir'[i] = dir'[j] => i = j
      BY <2>1 DEF NamesInv
    <2>3. \A i \in Names : dir'[i] \notin archived'
      <3>1. None \notin archived
        BY DEF TypeOK, FileTypes
      <3>2. QED
        BY <1>1, <2>1, <3>1 DEF NamesInv
    <2>4. /\ IsFiniteSet(archived) /\ dir[0] \notin archived /\ left.archives \in Nat
          /\ Cardinality(archived) \in Nat
      BY <1>1, FS_CardinalityType DEF NamesInv, TypeOK, FileTypes, StoreTypes, Budgets
    <2>5. Cardinality(archived') = Cardinality(archived) + 1
      BY <2>1, <2>4, FS_AddElement
    <2>6. left.archives + Cardinality(archived) = left'.archives + Cardinality(archived')
      BY <1>6, <2>4, <2>5
    <2>7. IsFiniteSet(Inodes) =>
            MaxBak + left'.archives + Cardinality(archived') + 2 <= Cardinality(Inodes)
      <3>1. Cardinality(archived') \in Nat /\ left'.archives \in Nat
        BY <1>6, <2>4, <2>5
      <3>2. ASSUME IsFiniteSet(Inodes)
            PROVE  MaxBak + left'.archives + Cardinality(archived') + 2 <= Cardinality(Inodes)
        <4>1. Cardinality(Inodes) \in Nat
          BY <3>2, FS_CardinalityType
        <4>2. MaxBak + left.archives + Cardinality(archived) + 2 <= Cardinality(Inodes)
          BY <3>2 DEF NamesInv
        <4>3. QED
          BY <2>4, <2>6, <3>1, <4>1, <4>2
      <3>3. QED
        BY <3>2
    <2>8. QED
      BY <2>1, <2>2, <2>3, <2>7 DEF NamesInv
  <1>7. QED
    BY <1>2, <1>3, <1>4, <1>5, <1>6, NamesMove

\* A step that is not a failed rename leaves none behind that was not there.
LEMMA NoRenameBefore ==
  ASSUME TypeOK, ControlInv, NamesInv, [Next]_vars, NoRenameFailed'
  PROVE  NoRenameFailed
  <1>1. failed \in [Calls -> Nat] /\ "rename" \in Calls
    BY DEF TypeOK, FileTypes, Calls
  <1>2. failed'["rename"] >= failed["rename"]
    <2>1. CASE Resting
      BY <1>1, <2>1 DEF Resting
    <2>2. CASE RemoveOld
      BY <1>1, <2>2 DEF RemoveOld, Fails
    <2>3. CASE RenamePrev
      BY <1>1, <2>3 DEF RenamePrev, Fails
    <2>4. CASE ArchiveAuditFile
      BY <1>1, <2>4 DEF ArchiveAuditFile
    <2>5. QED
      BY <1>1, <2>1, <2>2, <2>3, <2>4, NamesMove
  <1>3. QED
    BY <1>1, <1>2 DEF NoRenameFailed

\* Without a failed rename, a rename leaves the name it moved from free.
LEMMA RenameFrees ==
  ASSUME TypeOK, ControlInv, RenamePrev, NoRenameFailed'
  PROVE  /\ rot.i \in 1 .. MaxBak /\ rot.i - 1 \in Names
         /\ failed' = failed
         /\ dir'[rot.i - 1] = None
         /\ dir'[rot.i] = IF dir[rot.i - 1] = None THEN dir[rot.i] ELSE dir[rot.i - 1]
         /\ rot' = AfterRename(rot.i)
  <1>1. dir \in [Names -> Inodes \cup {None}] /\ rot.i \in 1 .. MaxBak /\ rot.i - 1 \in Names /\ rot.i \in Names
    BY NamesAfter, RotatingFileAssumption DEF TypeOK, FileTypes, Names
  <1>2. failed \in [Calls -> Nat] /\ "rename" \in Calls
    BY DEF TypeOK, FileTypes, Calls
  <1>3. ~Fails("rename")
    BY <1>2 DEF Fails, NoRenameFailed
  <1>4. dir' = (IF dir[rot.i - 1] = None THEN dir
                ELSE [dir EXCEPT ![rot.i] = dir[rot.i - 1], ![rot.i - 1] = None])
        /\ failed' = failed /\ rot' = AfterRename(rot.i)
    BY <1>3 DEF RenamePrev, Prev
  <1>5. QED
    BY <1>1, <1>4

\* Every step keeps the next place of a rotation free.
LEMMA NextFree == TypeOK /\ ControlInv /\ NamesInv /\ FreeInv /\ [Next]_vars => FreeInv'
  <1> SUFFICES ASSUME TypeOK, ControlInv, NamesInv, FreeInv, [Next]_vars, NoRenameFailed'
               PROVE  /\ rot'.at \in {"remove", "rename"} /\ rot'.i < MaxBak => dir'[rot'.i] = None
                      /\ rot'.at = "open" /\ MaxBak > 0 => dir'[0] = None
    BY DEF FreeInv
  <1> USE RotatingFileAssumption
  <1>1. NoRenameFailed
    BY NoRenameBefore
  <1>2. rot.i \in Names /\ 0 \in Names
    BY DEF TypeOK, FileTypes, Rotations, Names
  <1>3. CASE Resting
    <2>1. rot'.at \in Rotating => rot' = rot \/ rot' = FirstStep
      BY <1>3 DEF Resting
    <2>2. QED
      BY <1>1, <1>3, <2>1, Steps DEF Resting, FreeInv, Rotating
  <1>4. CASE RemoveOld
    <2>1. rot' = At("rename", rot.i) /\ rot.at = "remove"
      BY <1>4 DEF RemoveOld
    <2>2. QED
      BY <1>1, <1>4, <2>1, NamesAfter DEF FreeInv, At
  <1>5. CASE RenamePrev
    <2>1. /\ rot.i \in 1 .. MaxBak /\ rot' = AfterRename(rot.i) /\ dir'[rot.i - 1] = None
      BY <1>5, RenameFrees
    <2>2. QED
      BY <2>1, Steps DEF At
  <1>6. CASE Reopen(Free) \/ NewRotatingFile(Free)
    BY <1>6 DEF Reopen, NewRotatingFile, At, Quiet
  <1>7. CASE ArchiveAuditFile
    <2>1. rot' = rot
      BY <1>7 DEF ArchiveAuditFile
    <2>2. \A i \in Names : dir[i] = None => dir'[i] = None
      BY <1>7, NamesAfter
    <2>3. QED
      BY <1>1, <1>2, <1>7, <2>1, <2>2, NamesAfter DEF FreeInv
  <1>8. QED
    BY <1>3, <1>4, <1>5, <1>6, <1>7, NamesMove

-------------------------------------------------------------------------------
(* What the steps do to the files and to the acknowledgements *)

\* A line is appended to the file n.
Appended(n, l) == data' = [data EXCEPT ![n] = Append(data[n], l)]

\* Every file is as it was or has been emptied.
Emptied == \A n \in Inodes : data'[n] = data[n] \/ data'[n] = <<>>

\* The lines of a file after one more was appended.
LEMMA AppendedLines ==
  ASSUME FileTypes, NEW n \in Inodes, NEW l \in Line, Appended(n, l)
  PROVE  /\ Len(data[n]) \in Nat /\ DOMAIN data[n] = 1 .. Len(data[n])
         /\ DOMAIN data'[n] = 1 .. Len(data[n]) + 1
         /\ \A p \in DOMAIN data[n] : data'[n][p] = data[n][p]
         /\ data'[n][Len(data[n]) + 1] = l
         /\ \A m \in Inodes : m # n => data'[m] = data[m]
         /\ data'[n] = Append(data[n], l)
  <1>1. data \in [Inodes -> Seq(Line)] /\ data[n] \in Seq(Line)
    BY DEF FileTypes
  <1>2. data'[n] = Append(data[n], l) /\ \A m \in Inodes : m # n => data'[m] = data[m]
    BY <1>1 DEF Appended
  <1>3. QED
    BY <1>1, <1>2

\* The acknowledged events after one more.
LEMMA AckedAppend ==
  ASSUME NEW x \in Nat, acked \in Seq(Nat), acked' = Append(acked, x)
  PROVE  /\ Len(acked) \in Nat /\ DOMAIN acked = 1 .. Len(acked)
         /\ DOMAIN acked' = 1 .. Len(acked) + 1
         /\ \A a \in DOMAIN acked : acked'[a] = acked[a]
         /\ acked'[Len(acked) + 1] = x
         /\ Acked' = Acked \cup {x}
  <1>1. /\ Len(acked) \in Nat /\ DOMAIN acked = 1 .. Len(acked)
        /\ DOMAIN acked' = 1 .. Len(acked) + 1
        /\ \A a \in DOMAIN acked : acked'[a] = acked[a]
        /\ acked'[Len(acked) + 1] = x
    OBVIOUS
  <1>2. \A a : a \in DOMAIN acked' <=> a \in DOMAIN acked \/ a = Len(acked) + 1
    BY <1>1
  <1>3. Acked' = Acked \cup {x}
    BY <1>1, <1>2 DEF Acked
  <1>4. QED
    BY <1>1, <1>3

\* The calls of the recorders keep their events, or end.
CallsGoOn ==
  \A r \in Recorders :
    rec'[r].pc = "idle" \/ (rec[r].pc # "idle" /\ rec'[r].ev = rec[r].ev)

\* The steps that write no line and take no time stamp.
Unwritten ==
  /\ Emptied /\ acked' = acked /\ stamp' = stamp /\ CallsGoOn
  /\ data' = data \/ ((Reopen(Free) \/ NewRotatingFile(Free)) /\ handle = None)

\* A recorder's line is appended to the open file and its call ends.
WritesLine(r, l) ==
  /\ handle \in Inodes /\ Appended(handle, l) /\ l \in Line /\ l.ev = rec[r].ev
  /\ rec[r].pc = "writing" /\ stamp' = stamp
  /\ rec'[r].pc = "idle" /\ \A q \in Recorders : q # r => rec'[q] = rec[q]
  /\ UNCHANGED <<dir, archived, handle, query, crashes>>
  /\ rot.at = "write" /\ rot' = Quiet

\* The two kinds of line that are written.
Acknowledges(r) ==
  \E l : WritesLine(r, l) /\ l.whole /\ acked' = Append(acked, rec[r].ev) /\ failed' = failed
         /\ size' = size + l.len
Breaks(r) ==
  \E l : WritesLine(r, l) /\ ~l.whole /\ acked' = acked /\ Fails("write") /\ size' = size + l.len

\* A step records a line, or a fragment, or takes a time stamp, or none of it.
LEMMA LinesMove ==
  ASSUME TypeOK, ControlInv, NamesInv, [Next]_vars
  PROVE  \/ Unwritten
         \/ \E r \in Recorders : Record(r) \/ Acknowledges(r) \/ Breaks(r)
  <1> USE Idles DEF TypeOK
  <1>1. rec \in [Recorders -> RecordCalls] /\ data \in [Inodes -> Seq(Line)]
    BY DEF FileTypes, StoreTypes
  <1>2. Idle.pc = "idle"
    BY DEF Idle
  <1>3. ASSUME NEW r \in Recorders, Sign(r) PROVE Unwritten
    <2>1. \A q \in Recorders : rec'[q] = rec[q] \/ (rec[q].pc # "idle" /\ rec'[q].ev = rec[q].ev)
      BY <1>1, <1>3 DEF Sign, RecordCalls
    <2>2. QED
      BY <1>3, <2>1 DEF Sign, Unwritten, Emptied, CallsGoOn, fileVars
  <1>4. ASSUME NEW r \in Recorders, Lock(r) PROVE Unwritten
    <2>1. \A q \in Recorders : rec'[q] = rec[q] \/ (rec[q].pc # "idle" /\ rec'[q].ev = rec[q].ev)
      BY <1>1, <1>4 DEF Lock, RecordCalls
    <2>2. QED
      BY <1>4, <2>1 DEF Lock, WriteBegin, Unwritten, Emptied, CallsGoOn
  <1>5. CASE Rotate
    <2>1. Emptied
      <3>1. CASE RemoveOld \/ RenamePrev
        BY <3>1 DEF RemoveOld, RenamePrev, Emptied
      <3>2. CASE Reopen(Free)
        <4>1. data' = [data EXCEPT ![IF dir[0] = None THEN Free ELSE dir[0]] = <<>>]
          BY <3>2 DEF Reopen
        <4>2. QED
          BY <1>1, <4>1 DEF Emptied
      <3>3. QED
        BY <1>5, <3>1, <3>2 DEF Rotate
    <2>2. data' = data \/ (Reopen(Free) /\ handle = None)
      BY <1>5 DEF Rotate, RemoveOld, RenamePrev, Reopen, NamesInv, Rotating
    <2>3. QED
      BY <1>5, <2>1, <2>2 DEF Rotate, storeVars, Unwritten, CallsGoOn
  <1>6. ASSUME NEW r \in Recorders, Ack(r) PROVE Acknowledges(r)
    <2> DEFINE l == [ev |-> rec[r].ev, len |-> rec[r].len, whole |-> TRUE]
    <2>1. rec[r].ev \in Nat /\ rec[r].len \in Nat
      BY <1>1 DEF RecordCalls
    <2>2. l \in Line /\ l.ev = rec[r].ev /\ l.len = rec[r].len /\ l.whole
      BY <2>1 DEF Line
    <2>3. /\ handle \in Inodes /\ Appended(handle, l) /\ rot.at = "write" /\ rot' = Quiet
          /\ UNCHANGED <<dir, archived, handle, query, crashes>> /\ failed' = failed
      BY <1>6 DEF Ack, WriteAll, Appended, FileTypes
    <2>4. rec[r].pc = "writing" /\ stamp' = stamp /\ acked' = Append(acked, rec[r].ev)
      BY <1>6 DEF Ack, ControlInv
    <2>5. rec'[r].pc = "idle" /\ \A q \in Recorders : q # r => rec'[q] = rec[q]
      BY <1>1, <1>2, <1>6 DEF Ack
    <2>6. size' = size + l.len
      BY <1>6, <2>2 DEF Ack, WriteAll
    <2> HIDE DEF l
    <2>7. QED
      BY <2>2, <2>3, <2>4, <2>5, <2>6 DEF Acknowledges, WritesLine
  <1>7. ASSUME NEW r \in Recorders, Fail(r) PROVE Unwritten \/ Breaks(r)
    <2>1. acked' = acked /\ stamp' = stamp /\ writer = r /\ rec[r].pc = "writing"
      BY <1>7 DEF Fail, ControlInv
    <2>2. rec'[r].pc = "idle" /\ \A q \in Recorders : q # r => rec'[q] = rec[q]
      BY <1>1, <1>2, <1>7 DEF Fail
    <2>3. data' = data => Unwritten
      BY <2>1, <2>2 DEF Unwritten, Emptied, CallsGoOn
    <2>4. CASE WriteShort(rec[r].ev, rec[r].len)
      <3> DEFINE l == [ev |-> rec[r].ev, len |-> 1, whole |-> FALSE]
      <3>1. rec[r].ev \in Nat
        BY <1>1 DEF RecordCalls
      <3>2. l \in Line /\ l.ev = rec[r].ev /\ l.len = 1 /\ ~l.whole
        BY <3>1 DEF Line
      <3>3. handle \in Inodes
        BY <2>4 DEF WriteShort, FileTypes
      <3>4. data' = data \/ (Appended(handle, l) /\ size' = size + 1)
        <4>1. PICK n \in {0, 1} :
                /\ data' = [data EXCEPT ![handle] =
                      IF n = 0 THEN data[handle]
                      ELSE Append(data[handle], [ev |-> rec[r].ev, len |-> n, whole |-> FALSE])]
                /\ size' = size + n
          BY <2>4 DEF WriteShort
        <4>2. CASE n = 0
          BY <1>1, <3>3, <4>1, <4>2
        <4>3. CASE n = 1
          BY <4>1, <4>3 DEF Appended
        <4>4. QED
          BY <4>2, <4>3
      <3>5. /\ Fails("write") /\ rot.at = "write" /\ rot' = Quiet
            /\ UNCHANGED <<dir, archived, handle, query, crashes>>
        BY <1>7, <2>4 DEF WriteShort, Fail
      <3> HIDE DEF l
      <3>6. QED
        BY <2>1, <2>2, <2>3, <3>2, <3>3, <3>4, <3>5 DEF Breaks, WritesLine
    <2>5. CASE ReopenFails \/ WriteClosed
      BY <2>3, <2>5 DEF ReopenFails, WriteClosed
    <2>6. QED
      BY <1>7, <2>4, <2>5 DEF Fail
  <1>8. CASE Close
    BY <1>8 DEF Close, FileClose, Unwritten, Emptied, CallsGoOn
  <1>9. CASE Crash
    BY <1>2, <1>9 DEF Crash, FileCrash, Unwritten, Emptied, CallsGoOn
  <1>10. CASE NewSupervisionStore
    <2>1. Emptied
      <3>1. \/ data' = data
            \/ data' = [data EXCEPT ![IF dir[0] = None THEN Free ELSE dir[0]] = <<>>]
        BY <1>10 DEF NewSupervisionStore, NewRotatingFile
      <3>2. QED
        BY <1>1, <3>1 DEF Emptied
    <2>2. QED
      BY <1>10, <2>1 DEF NewSupervisionStore, Unwritten, CallsGoOn, ControlInv
  <1>11. CASE Archive
    BY <1>11 DEF Archive, ArchiveAuditFile, Unwritten, Emptied, CallsGoOn
  <1>12. CASE QueryOpen \/ QueryLine \/ QueryEnd
    BY <1>12 DEF QueryOpen, QueryLine, QueryEnd, Unwritten, Emptied, CallsGoOn, fileVars
  <1>13. CASE Seal \/ UNCHANGED vars
    BY <1>13 DEF Seal, vars, fileVars, storeVars, Unwritten, Emptied, CallsGoOn
  <1>14. QED
    BY <1>3, <1>4, <1>5, <1>6, <1>7, <1>8, <1>9, <1>10, <1>11, <1>12, <1>13 DEF Next

\* Every step keeps what events and lines say of each other.
LEMMA NextEvents == TypeOK /\ ControlInv /\ NamesInv /\ EventsInv /\ [Next]_vars => EventsInv'
  <1> SUFFICES ASSUME TypeOK, ControlInv, NamesInv, EventsInv, [Next]_vars PROVE EventsInv'
    OBVIOUS
  <1>1. /\ stamp \in Nat /\ rec \in [Recorders -> RecordCalls] /\ acked \in Seq(Nat)
        /\ data \in [Inodes -> Seq(Line)]
    BY DEF TypeOK, FileTypes, StoreTypes
  <1>2. \A n \in Inodes : \A p \in DOMAIN data[n] : data[n][p] \in Line /\ data[n][p].ev \in Nat
    <2>1. \A n \in Inodes : data[n] \in Seq(Line)
      BY <1>1
    <2>2. \A n \in Inodes : \A p \in DOMAIN data[n] : data[n][p] \in Line
      BY <2>1
    <2>3. QED
      BY <2>2 DEF Line
  <1>3. \A r \in Recorders : rec[r].ev \in Nat
    BY <1>1 DEF RecordCalls
  <1>4. Acked \subseteq Nat
    BY <1>1 DEF Acked
  <1>5. CASE Unwritten
    <2>1. acked' = acked /\ stamp' = stamp /\ Acked' = Acked
      BY <1>5 DEF Unwritten, Acked
    <2>2. \A n \in Inodes : \A p \in DOMAIN data'[n] : p \in DOMAIN data[n] /\ data'[n][p] = data[n][p]
      BY <1>5 DEF Unwritten, Emptied
    <2>3. CallsGoOn
      BY <1>5 DEF Unwritten
    <2>4. QED
      BY <2>1, <2>2, <2>3 DEF EventsInv, CallsGoOn
  <1>6. ASSUME NEW r \in Recorders, Record(r) PROVE EventsInv'
    <2>1. acked' = acked /\ stamp' = stamp + 1 /\ Acked' = Acked /\ data' = data
      BY <1>6 DEF Record, fileVars, Acked
    <2>2. \A q \in Recorders :
            \/ rec'[q] = rec[q]
            \/ q = r /\ rec'[r].ev = stamp + 1 /\ rec[r].pc = "idle"
      BY <1>1, <1>6 DEF Record
    <2>3. \A e \in Acked : e <= stamp /\ e # stamp + 1 /\ e <= stamp + 1
      BY <1>1, <1>4 DEF EventsInv
    <2>4. \A n \in Inodes : \A p \in DOMAIN data[n] :
             data[n][p].ev <= stamp + 1 /\ data[n][p].ev # stamp + 1
      BY <1>1, <1>2 DEF EventsInv
    <2>5. \A q \in Recorders : rec[q].pc # "idle" => rec[q].ev <= stamp + 1 /\ rec[q].ev # stamp + 1
      BY <1>1, <1>3 DEF EventsInv
    <2>6. \A q \in Recorders : rec'[q].pc # "idle" =>
             /\ rec'[q].ev <= stamp' /\ rec'[q].ev \notin Acked'
             /\ \A n \in Inodes : \A p \in DOMAIN data'[n] : data'[n][p].ev # rec'[q].ev
      BY <1>1, <2>1, <2>2, <2>3, <2>4, <2>5 DEF EventsInv
    <2>7. \A q, s \in Recorders :
             q # s /\ rec'[q].pc # "idle" /\ rec'[s].pc # "idle" => rec'[q].ev # rec'[s].ev
      BY <2>2, <2>5 DEF EventsInv
    <2>8. QED
      BY <2>1, <2>3, <2>4, <2>6, <2>7 DEF EventsInv
  <1>7. ASSUME NEW r \in Recorders, NEW l, WritesLine(r, l),
               \/ l.whole /\ acked' = Append(acked, rec[r].ev)
               \/ ~l.whole /\ acked' = acked
        PROVE  EventsInv'
    <2> DEFINE x == rec[r].ev
               h == handle
    <2>1. /\ h \in Inodes /\ l \in Line /\ l.ev = x /\ stamp' = stamp /\ rec[r].pc # "idle" /\ x \in Nat
          /\ rec'[r].pc = "idle" /\ \A q \in Recorders : q # r => rec'[q] = rec[q]
          /\ Appended(h, l)
      BY <1>3, <1>7 DEF WritesLine
    <2>2. x <= stamp /\ x \notin Acked /\ \A n \in Inodes : \A p \in DOMAIN data[n] : data[n][p].ev # x
      BY <2>1 DEF EventsInv
    <2>3. \A n \in Inodes : \A p \in DOMAIN data'[n] :
             \/ p \in DOMAIN data[n] /\ data'[n][p] = data[n][p]
             \/ data'[n][p] = l
      <3>1. /\ Len(data[h]) \in Nat /\ DOMAIN data[h] = 1 .. Len(data[h])
            /\ DOMAIN data'[h] = 1 .. Len(data[h]) + 1
            /\ \A p \in DOMAIN data[h] : data'[h][p] = data[h][p]
            /\ data'[h][Len(data[h]) + 1] = l
            /\ \A m \in Inodes : m # h => data'[m] = data[m]
        BY <2>1, AppendedLines DEF TypeOK
      <3>2. \A p \in DOMAIN data'[h] : p \in DOMAIN data[h] \/ p = Len(data[h]) + 1
        BY <3>1
      <3>3. QED
        BY <3>1, <3>2
    <2>4. Acked' = IF l.whole THEN Acked \cup {x} ELSE Acked
      BY <1>1, <1>7, <2>1, AckedAppend, ZenonT(30) DEF Acked
    <2>5. \A a, b \in DOMAIN acked' : acked'[a] = acked'[b] => a = b
      <3>1. CASE acked' = acked
        BY <3>1 DEF EventsInv
      <3>2. CASE acked' = Append(acked, x)
        <4>1. /\ \A a \in DOMAIN acked' : a \in DOMAIN acked \/ a = Len(acked) + 1
              /\ \A a \in DOMAIN acked : acked'[a] = acked[a]
              /\ acked'[Len(acked) + 1] = x
          BY <1>1, <2>1, <3>2, AckedAppend
        <4>2. \A a \in DOMAIN acked : acked[a] # x
          BY <2>2 DEF Acked
        <4>3. QED
          BY <4>1, <4>2 DEF EventsInv
      <3>3. QED
        BY <1>7, <3>1, <3>2
    <2> HIDE DEF x, h
    <2>6. \A n \in Inodes : \A p \in DOMAIN data'[n] :
            /\ data'[n][p].ev <= stamp'
            /\ data'[n][p].whole <=> data'[n][p].ev \in Acked'
      BY <2>1, <2>2, <2>3, <2>4 DEF EventsInv
    <2>7. \A q \in Recorders : rec'[q].pc # "idle" =>
            /\ rec'[q].ev <= stamp' /\ rec'[q].ev \notin Acked'
            /\ rec'[q].ev # x
            /\ \A n \in Inodes : \A p \in DOMAIN data'[n] : data'[n][p].ev # rec'[q].ev
      <3>1. \A q \in Recorders : rec'[q].pc # "idle" => q # r /\ rec'[q] = rec[q] /\ rec[q].ev # x
        BY <2>1 DEF EventsInv, x
      <3>2. QED
        BY <2>1, <2>3, <2>4, <3>1 DEF EventsInv
    <2>8. \A q, s \in Recorders :
             q # s /\ rec'[q].pc # "idle" /\ rec'[s].pc # "idle" => rec'[q].ev # rec'[s].ev
      BY <2>1 DEF EventsInv
    <2>9. \A e \in Acked' : e <= stamp'
      BY <2>1, <2>2, <2>4 DEF EventsInv
    <2>10. QED
      BY <2>5, <2>6, <2>7, <2>8, <2>9 DEF EventsInv
  <1>8. QED
    BY <1>5, <1>6, <1>7, LinesMove DEF Acknowledges, Breaks

-------------------------------------------------------------------------------
(* The order of the acknowledgements *)

\* Older is a strict order, total on the acknowledged events.
LEMMA OlderOrder ==
  ASSUME acked \in Seq(Nat), EventsInv
  PROVE  /\ \A e, f : Older(e, f) => e \in Acked /\ f \in Acked /\ ~Older(f, e) /\ e # f
         /\ \A e, f, g : Older(e, f) /\ Older(f, g) => Older(e, g)
         /\ \A e, f \in Acked : e # f => Older(e, f) \/ Older(f, e)
  <1>1. DOMAIN acked \subseteq Nat
    OBVIOUS
  <1>2. \A a, b \in DOMAIN acked : acked[a] = acked[b] => a = b
    BY DEF EventsInv
  <1>3. \A e, f : Older(e, f) => e \in Acked /\ f \in Acked /\ ~Older(f, e) /\ e # f
    BY <1>1, <1>2 DEF Older, Acked
  <1>4. ASSUME NEW e, NEW f, NEW g, Older(e, f), Older(f, g) PROVE Older(e, g)
    <2>1. PICK i, j \in DOMAIN acked : i < j /\ acked[i] = e /\ acked[j] = f
      BY <1>4 DEF Older
    <2>2. PICK k, l \in DOMAIN acked : k < l /\ acked[k] = f /\ acked[l] = g
      BY <1>4 DEF Older
    <2>3. j = k
      BY <1>2, <2>1, <2>2
    <2>4. i < l
      BY <1>1, <2>1, <2>2, <2>3
    <2>5. QED
      BY <2>1, <2>2, <2>4 DEF Older
  <1>5. ASSUME NEW e \in Acked, NEW f \in Acked, e # f PROVE Older(e, f) \/ Older(f, e)
    <2>1. PICK i \in DOMAIN acked : acked[i] = e
      BY DEF Acked
    <2>2. PICK j \in DOMAIN acked : acked[j] = f
      BY DEF Acked
    <2>3. i < j \/ j < i
      BY <1>1, <1>5, <2>1, <2>2
    <2>4. QED
      BY <2>1, <2>2, <2>3 DEF Older
  <1>6. QED
    BY <1>3, <1>4, <1>5

\* A new acknowledgement is younger than all others.
LEMMA OlderAppend ==
  ASSUME acked \in Seq(Nat), NEW x \in Nat, x \notin Acked, acked' = Append(acked, x)
  PROVE  \A e, f : Older(e, f)' <=> Older(e, f) \/ (e \in Acked /\ f = x)
  <1>1. /\ Len(acked) \in Nat /\ DOMAIN acked = 1 .. Len(acked)
        /\ DOMAIN acked' = 1 .. Len(acked) + 1
        /\ \A a \in DOMAIN acked : acked'[a] = acked[a]
        /\ acked'[Len(acked) + 1] = x
    BY AckedAppend
  <1>2. ASSUME NEW e, NEW f, Older(e, f)' PROVE Older(e, f) \/ (e \in Acked /\ f = x)
    <2>1. PICK i, j \in DOMAIN acked' : i < j /\ acked'[i] = e /\ acked'[j] = f
      BY <1>2 DEF Older
    <2>2. i \in DOMAIN acked /\ (j \in DOMAIN acked \/ j = Len(acked) + 1)
      BY <1>1, <2>1
    <2>3. QED
      BY <1>1, <2>1, <2>2 DEF Older, Acked
  <1>3. ASSUME NEW e, NEW f, Older(e, f) PROVE Older(e, f)'
    <2>1. PICK i, j \in DOMAIN acked : i < j /\ acked[i] = e /\ acked[j] = f
      BY <1>3 DEF Older
    <2>2. i \in DOMAIN acked' /\ j \in DOMAIN acked'
      BY <1>1, <2>1
    <2>3. QED
      BY <1>1, <2>1, <2>2 DEF Older
  <1>4. ASSUME NEW e \in Acked PROVE Older(e, x)'
    <2>1. PICK i \in DOMAIN acked : acked[i] = e
      BY DEF Acked
    <2>2. i \in DOMAIN acked' /\ Len(acked) + 1 \in DOMAIN acked' /\ i < Len(acked) + 1
      BY <1>1, <2>1
    <2>3. QED
      BY <1>1, <2>1, <2>2 DEF Older
  <1>5. QED
    BY <1>2, <1>3, <1>4

\* The events of a file after a step.
LEMMA EventsAfter ==
  ASSUME FileTypes, EventsInv
  PROVE  /\ \A n \in Inodes : Events(n) \subseteq Acked
         /\ \A n : data'[n] = data[n] => Events(n)' = Events(n)
         /\ \A n : data'[n] = <<>> => Events(n)' = {}
         /\ \A n \in Inodes, l \in Line : Appended(n, l) =>
              Events(n)' = IF l.whole THEN Events(n) \cup {l.ev} ELSE Events(n)
  <1>1. \A n \in Inodes : Events(n) \subseteq Acked
    BY DEF Events, EventsInv
  <1>2. \A n : data'[n] = data[n] => Events(n)' = Events(n)
    BY DEF Events
  <1>3. \A n : data'[n] = <<>> => Events(n)' = {}
    BY DEF Events
  <1>4. ASSUME NEW n \in Inodes, NEW l \in Line, Appended(n, l)
        PROVE  Events(n)' = IF l.whole THEN Events(n) \cup {l.ev} ELSE Events(n)
    <2>1. /\ Len(data[n]) \in Nat /\ DOMAIN data[n] = 1 .. Len(data[n])
          /\ DOMAIN data'[n] = 1 .. Len(data[n]) + 1
          /\ \A p \in DOMAIN data[n] : data'[n][p] = data[n][p]
          /\ data'[n][Len(data[n]) + 1] = l
      BY <1>4, AppendedLines
    <2>2. \A p : p \in DOMAIN data'[n] <=> p \in DOMAIN data[n] \/ p = Len(data[n]) + 1
      BY <2>1
    <2>3. \A e : e \in Events(n)' <=> \E p \in DOMAIN data'[n] : data'[n][p].whole /\ data'[n][p].ev = e
      BY DEF Events
    <2>4. \A e : e \in Events(n) <=> \E p \in DOMAIN data[n] : data[n][p].whole /\ data[n][p].ev = e
      BY DEF Events
    <2>5. \A e : e \in Events(n)' <=> e \in Events(n) \/ (l.whole /\ e = l.ev)
      BY <2>1, <2>2, <2>3, <2>4
    <2>6. QED
      BY <2>5
  <1>5. QED
    BY <1>1, <1>2, <1>3, <1>4

\* The names keep their order: two files that have names have them in the order
\* in which they had them, and what takes a new name is empty.
Shifted ==
  /\ \A i, j \in Names : i < j /\ dir'[i] # None /\ dir'[j] # None =>
       \/ data'[dir'[i]] = <<>>
       \/ \E k, l \in Names : k < l /\ dir[k] = dir'[i] /\ dir[l] = dir'[j]
  /\ dir'[0] # None => dir'[0] = dir[0] \/ data'[dir'[0]] = <<>>
  /\ handle' # None => handle' = handle \/ handle' = dir'[0]

\* Every step shifts the names.
LEMMA NextShifted == TypeOK /\ ControlInv /\ NamesInv /\ [Next]_vars => Shifted
  <1> SUFFICES ASSUME TypeOK, ControlInv, NamesInv, [Next]_vars PROVE Shifted
    OBVIOUS
  <1> USE RotatingFileAssumption
  <1>1. 0 \in Names /\ Names \subseteq Nat /\ data \in [Inodes -> Seq(Line)]
    BY DEF Names, TypeOK, FileTypes
  <1>2. CASE Resting
    BY <1>2 DEF Resting, Shifted
  <1>3. CASE RemoveOld
    <2>1. \A i \in Names : dir'[i] # None => dir'[i] = dir[i]
      BY <1>3, NamesAfter
    <2>2. handle' = handle
      BY <1>3 DEF RemoveOld
    <2>3. QED
      BY <1>1, <2>1, <2>2 DEF Shifted
  <1>4. CASE RenamePrev
    <2> DEFINE o == rot.i
    <2>1. /\ o \in 1 .. MaxBak /\ o - 1 \in Names
          /\ \A i \in Names : i # o /\ i # o - 1 => dir'[i] = dir[i]
          /\ \/ dir'[o] = dir[o] /\ dir'[o - 1] = dir[o - 1]
             \/ dir'[o] = dir[o - 1] /\ dir'[o - 1] = None
          /\ handle' = handle
      BY <1>4, NamesAfter DEF RenamePrev
    <2> HIDE DEF o
    <2>2. o \in Nat /\ o > 0 /\ o \in Names
      BY <2>1 DEF Names
    <2>3. ASSUME NEW i \in Names, NEW j \in Names, i < j, dir'[i] # None, dir'[j] # None
          PROVE  \E k, l \in Names : k < l /\ dir[k] = dir'[i] /\ dir[l] = dir'[j]
      <3>1. i \in Nat /\ j \in Nat
        BY <1>1
      <3>2. CASE dir'[o] = dir[o] /\ dir'[o - 1] = dir[o - 1]
        BY <2>1, <2>3, <3>2
      <3>3. CASE dir'[o] = dir[o - 1] /\ dir'[o - 1] = None
        <4>1. i # o - 1 /\ j # o - 1
          BY <2>3, <3>3
        <4>2. CASE i = o
          BY <2>1, <2>2, <2>3, <3>1, <3>3, <4>1, <4>2
        <4>3. CASE j = o
          <5>1. i < o - 1
            BY <2>2, <2>3, <3>1, <4>1, <4>3
          <5>2. QED
            BY <2>1, <2>2, <2>3, <3>1, <3>3, <4>1, <4>3, <5>1
        <4>4. CASE i # o /\ j # o
          BY <2>1, <2>3, <4>1, <4>4
        <4>5. QED
          BY <4>2, <4>3, <4>4
      <3>4. QED
        BY <2>1, <3>2, <3>3
    <2>4. dir'[0] # None => dir'[0] = dir[0]
      BY <1>1, <2>1, <2>2
    <2>5. QED
      BY <2>1, <2>3, <2>4 DEF Shifted
  <1>5. CASE (Reopen(Free) \/ NewRotatingFile(Free)) /\ handle = None
    <2>1. /\ \A i \in Names : i # 0 => dir'[i] = dir[i]
          /\ dir'[0] = handle' /\ handle' = IF dir[0] = None THEN Free ELSE dir[0]
      BY <1>5, NamesAfter
    <2>2. dir'[0] = dir[0] \/ data'[dir'[0]] = <<>>
      <3>1. CASE dir[0] # None
        BY <2>1, <3>1
      <3>2. CASE dir[0] = None
        <4>1. Free \in Inodes /\ dir'[0] = Free
          BY <1>5, <2>1, <3>2, FreeFile
        <4>2. data' = [data EXCEPT ![Free] = <<>>]
          BY <1>5, <3>2 DEF Reopen, NewRotatingFile
        <4>3. QED
          BY <1>1, <4>1, <4>2
      <3>3. QED
        BY <3>1, <3>2
    <2>3. CASE dir'[0] = dir[0]
      BY <1>1, <2>1, <2>3 DEF Shifted
    <2>4. CASE data'[dir'[0]] = <<>>
      <3>1. \A i, j \in Names : i < j => j # 0
        BY <1>1
      <3>2. QED
        BY <1>1, <2>1, <2>4, <3>1 DEF Shifted
    <2>5. QED
      BY <2>2, <2>3, <2>4
  <1>6. CASE ArchiveAuditFile
    <2>1. (\A i \in Names : dir'[i] # None => dir'[i] = dir[i]) /\ handle' = handle
      BY <1>6, NamesAfter DEF ArchiveAuditFile
    <2>2. QED
      BY <1>1, <2>1 DEF Shifted
  <1>7. QED
    BY <1>2, <1>3, <1>4, <1>5, <1>6, NamesMove

\* Every step keeps the files in order.
LEMMA NextOrder ==
  TypeOK /\ ControlInv /\ NamesInv /\ EventsInv /\ OrderInv /\ [Next]_vars => OrderInv'
  <1> SUFFICES ASSUME TypeOK, ControlInv, NamesInv, EventsInv, OrderInv, [Next]_vars
               PROVE  OrderInv'
    OBVIOUS
  <1>1. TypeOK' /\ Shifted
    BY NextTypeOK, NextShifted
  <1>2. /\ FileTypes /\ acked \in Seq(Nat) /\ 0 \in Names
        /\ \A i \in Names : dir[i] \in Inodes \cup {None} /\ dir'[i] \in Inodes \cup {None}
        /\ handle \in Inodes \cup {None} /\ handle' \in Inodes \cup {None}
    BY <1>1, RotatingFileAssumption DEF TypeOK, FileTypes, StoreTypes, Names
  <1>3. \A n \in Inodes : Events(n) \subseteq Acked
    BY <1>2, EventsAfter
  <1>4. ASSUME Emptied, acked' = acked PROVE OrderInv'
    <2>1. Acked' = Acked /\ \A e, f : Older(e, f)' <=> Older(e, f)
      BY <1>4 DEF Acked, Older
    <2>2. \A n \in Inodes : (data'[n] = data[n] /\ Events(n)' = Events(n)) \/ (data'[n] = <<>> /\ Events(n)' = {})
      BY <1>2, <1>4, EventsAfter DEF Emptied
    <2>3. ASSUME NEW n \in Inodes PROVE Ordered(n)' /\ Stretch(n)' /\ (Latest(n) => Latest(n)')
      <3>1. CASE data'[n] = data[n] /\ Events(n)' = Events(n)
        <4>1. Ordered(n) /\ Stretch(n)
          BY DEF OrderInv
        <4>2. Ordered(n)'
          BY <2>1, <3>1, <4>1 DEF Ordered
        <4>3. QED
          BY <2>1, <3>1, <4>1, <4>2 DEF Stretch, Latest
      <3>2. CASE data'[n] = <<>> /\ Events(n)' = {}
        BY <3>2 DEF Ordered, Stretch, Latest
      <3>3. QED
        BY <2>2, <3>1, <3>2
    <2>4. dir'[0] # None => Latest(dir[0])'
      <3>1. CASE dir'[0] = dir[0] /\ dir[0] # None
        <4>1. PICK n \in Inodes : n = dir[0]
          BY <1>2, <3>1
        <4>2. Latest(n)'
          BY <2>3, <3>1, <4>1 DEF OrderInv
        <4>3. QED
          BY <3>1, <4>1, <4>2 DEF Latest, Events
      <3>2. CASE dir'[0] # None /\ data'[dir'[0]] = <<>>
        BY <1>2, <3>2 DEF Latest, Events
      <3>3. QED
        BY <1>1, <3>1, <3>2 DEF Shifted
    <2>5. handle' # None => Latest(handle)'
      <3>1. CASE handle' = handle /\ handle # None
        <4>1. PICK n \in Inodes : n = handle
          BY <1>2, <3>1
        <4>2. Latest(n)'
          BY <2>3, <3>1, <4>1 DEF OrderInv
        <4>3. QED
          BY <3>1, <4>1, <4>2 DEF Latest, Events
      <3>2. CASE handle' = dir'[0] /\ handle' # None
        BY <2>4, <3>2 DEF Latest, Events
      <3>3. QED
        BY <1>1, <3>1, <3>2 DEF Shifted
    <2>6. FilesInOrder'
      <3> SUFFICES ASSUME NEW i \in Names, NEW j \in Names, i < j, dir'[i] # None, dir'[j] # None,
                          NEW e \in Events(dir[j])', NEW f \in Events(dir[i])'
                   PROVE  Older(e, f)'
        BY DEF FilesInOrder
      <3>m. PICK m \in Inodes : m = dir'[i]
        BY <1>2
      <3>n. PICK n \in Inodes : n = dir'[j]
        BY <1>2
      <3>2. e \in Events(n)' /\ f \in Events(m)'
        BY <3>m, <3>n DEF Events
      <3>3. e \in Events(n) /\ f \in Events(m) /\ data'[m] # <<>>
        BY <1>2, <2>2, <3>2, EventsAfter
      <3>4. PICK k, l \in Names : k < l /\ dir[k] = m /\ dir[l] = n
        BY <1>1, <3>3, <3>m, <3>n DEF Shifted
      <3>5. dir[k] # None /\ dir[l] # None
        BY <3>4, RotatingFileAssumption
      <3>6. Older(e, f)
        BY <3>3, <3>4, <3>5 DEF OrderInv, FilesInOrder
      <3>7. QED
        BY <2>1, <3>6
    <2>7. QED
      BY <2>3, <2>4, <2>5, <2>6 DEF OrderInv
  <1>5. ASSUME NEW r \in Recorders, NEW l, WritesLine(r, l),
               \/ l.whole /\ acked' = Append(acked, rec[r].ev)
               \/ ~l.whole /\ acked' = acked
        PROVE  OrderInv'
    <2>h. PICK h \in Inodes : h = handle
      BY <1>5 DEF WritesLine
    <2>x. PICK x \in Nat : x = rec[r].ev
      BY <1>5 DEF WritesLine, TypeOK, StoreTypes, RecordCalls
    <2>1. /\ l \in Line /\ l.ev = x
          /\ Appended(h, l) /\ dir' = dir /\ handle' = h /\ rec[r].pc # "idle"
      BY <1>5, <2>h, <2>x DEF WritesLine
    <2>2. x \notin Acked
      BY <2>1, <2>x DEF EventsInv
    <2>3. /\ \A e, f : Older(e, f)' <=> Older(e, f) \/ (l.whole /\ e \in Acked /\ f = x)
          /\ Acked' = IF l.whole THEN Acked \cup {x} ELSE Acked
      <3>1. CASE l.whole /\ acked' = Append(acked, x)
        BY <1>2, <2>2, <3>1, OlderAppend, AckedAppend
      <3>2. CASE ~l.whole /\ acked' = acked
        BY <3>2 DEF Older, Acked
      <3>3. QED
        BY <1>5, <2>x, <3>1, <3>2
    <2>4. /\ Len(data[h]) \in Nat /\ DOMAIN data[h] = 1 .. Len(data[h])
          /\ DOMAIN data'[h] = 1 .. Len(data[h]) + 1
          /\ \A p \in DOMAIN data[h] : data'[h][p] = data[h][p]
          /\ data'[h][Len(data[h]) + 1] = l
          /\ \A m \in Inodes : m # h => data'[m] = data[m]
      BY <1>2, <2>1, AppendedLines
    <2>5. /\ Events(h)' = IF l.whole THEN Events(h) \cup {x} ELSE Events(h)
          /\ \A m \in Inodes : m # h => Events(m)' = Events(m)
      <3>1. Events(h)' = IF l.whole THEN Events(h) \cup {l.ev} ELSE Events(h)
        BY <1>2, <2>1, EventsAfter
      <3>2. \A m \in Inodes : m # h => Events(m)' = Events(m)
        BY <1>2, <2>4, EventsAfter
      <3>3. QED
        BY <2>1, <3>1, <3>2
    <2>6. \A e, f : Older(e, f) => e \in Acked /\ f \in Acked
      BY <1>2, OlderOrder
    <2>7. ASSUME NEW n \in Inodes PROVE Ordered(n)'
      <3>1. CASE n # h
        BY <2>3, <2>4, <3>1 DEF Ordered, OrderInv
      <3>2. CASE n = h
        <4> SUFFICES ASSUME NEW p \in DOMAIN data'[h], NEW q \in DOMAIN data'[h], p < q,
                            data'[h][p].whole, data'[h][q].whole
                     PROVE  Older(data[h][p].ev, data[h][q].ev)'
          BY <3>2 DEF Ordered
        <4>a. PICK e, f : e = data'[h][p].ev /\ f = data'[h][q].ev
          OBVIOUS
        <4> SUFFICES Older(e, f)'
          BY <4>a DEF Older
        <4>1. p \in DOMAIN data[h] /\ (q \in DOMAIN data[h] \/ q = Len(data[h]) + 1)
          BY <2>4
        <4>2. data'[h][p] = data[h][p] /\ data[h][p].ev \in Acked
          BY <2>1, <2>4, <4>1 DEF EventsInv
        <4>3. CASE q \in DOMAIN data[h]
          <5>1. Older(data[h][p].ev, data[h][q].ev)
            BY <2>1, <2>4, <4>1, <4>2, <4>3 DEF OrderInv, Ordered
          <5>2. QED
            BY <2>3, <2>4, <4>a, <4>2, <4>3, <5>1
        <4>4. CASE q = Len(data[h]) + 1
          BY <2>1, <2>3, <2>4, <4>a, <4>2, <4>4
        <4>5. QED
          BY <4>1, <4>3, <4>4
      <3>3. QED
        BY <3>1, <3>2
    <2>8. Latest(h) /\ Latest(h)'
      <3>1. Latest(h)
        BY <2>h, RotatingFileAssumption DEF OrderInv
      <3>2. QED
        BY <1>3, <2>1, <2>2, <2>3, <2>5, <2>6, <3>1 DEF Latest
    <2>9. ASSUME NEW n \in Inodes PROVE Stretch(n)'
      <3>1. Stretch(n) /\ Events(n) \subseteq Acked
        BY <1>3 DEF OrderInv
      <3>2. CASE n # h
        BY <2>2, <2>3, <2>5, <2>6, <3>1, <3>2 DEF Stretch
      <3>3. CASE n = h
        BY <2>8, <3>3 DEF Stretch, Latest
      <3>4. QED
        BY <3>2, <3>3
    <2>10. dir[0] # None => dir[0] = h
      BY <2>h, RotatingFileAssumption DEF NamesInv
    <2>11. \A i \in Names : i # 0 /\ dir[i] # None => dir[i] # h
      <3>1. \/ h = dir[0]
            \/ h \in archived
        BY <2>h, RotatingFileAssumption DEF NamesInv
      <3>2. QED
        BY <1>2, <3>1 DEF NamesInv
    <2>12. FilesInOrder'
      <3> SUFFICES ASSUME NEW i \in Names, NEW j \in Names, i < j, dir[i] # None, dir[j] # None,
                          NEW e \in Events(dir[j])', NEW f \in Events(dir[i])'
                   PROVE  Older(e, f)'
        BY <2>1 DEF FilesInOrder
      <3>m. PICK m \in Inodes : m = dir[i]
        BY <1>2
      <3>n. PICK n \in Inodes : n = dir[j]
        BY <1>2
      <3>2. e \in Events(n)' /\ f \in Events(m)'
        BY <2>1, <3>m, <3>n DEF Events
      <3>3. n # h
        <4>1. j # 0
          BY RotatingFileAssumption DEF Names
        <4>2. QED
          BY <2>11, <3>n, <4>1
      <3>4. \A g \in Events(n), k \in Events(m) : Older(g, k)
        BY <3>m, <3>n DEF OrderInv, FilesInOrder
      <3>5. e \in Events(n) /\ e \in Acked
        BY <1>3, <2>5, <3>2, <3>3
      <3>6. f \in Events(m) \/ (l.whole /\ f = x)
        BY <2>5, <3>2
      <3>7. QED
        BY <2>3, <3>4, <3>5, <3>6
    <2>13. dir'[0] # None => Latest(dir[0])'
      BY <2>1, <2>8, <2>10 DEF Latest, Events
    <2>14. Latest(handle)'
      BY <2>1, <2>8 DEF Latest, Events
    <2>15. QED
      BY <2>7, <2>9, <2>12, <2>13, <2>14 DEF OrderInv
  <1>6. ASSUME NEW r \in Recorders, Record(r) PROVE OrderInv'
    BY <1>4, <1>6 DEF Record, fileVars, Emptied
  <1>7. QED
    BY <1>4, <1>5, <1>6, LinesMove DEF Unwritten, Acknowledges, Breaks

-------------------------------------------------------------------------------
(* The size, and the fragments *)

\* Every step, by what it does to names and lines.
LEMMA Moves ==
  ASSUME TypeOK, ControlInv, NamesInv, [Next]_vars
  PROVE  \/ Resting /\ data' = data /\ acked' = acked
         \/ RemoveOld /\ acked' = acked
         \/ RenamePrev /\ acked' = acked
         \/ (Reopen(Free) \/ NewRotatingFile(Free)) /\ handle = None /\ acked' = acked
         \/ ArchiveAuditFile /\ acked' = acked
         \/ \E r \in Recorders : Resting /\ (Acknowledges(r) \/ Breaks(r))
  <1>1. CASE Unwritten \/ \E r \in Recorders : Record(r)
    <2>1. acked' = acked /\ (data' = data \/ ((Reopen(Free) \/ NewRotatingFile(Free)) /\ handle = None))
      BY <1>1 DEF Unwritten, Record, fileVars
    <2>2. QED
      BY <2>1, NamesMove
  <1>2. ASSUME NEW r \in Recorders, Acknowledges(r) \/ Breaks(r) PROVE Resting
    <2>1. PICK l : WritesLine(r, l)
      BY <1>2 DEF Acknowledges, Breaks
    <2>2. handle \in Inodes /\ rot.at = "write" /\ dir' = dir /\ None \notin Inodes
      BY <2>1, RotatingFileAssumption DEF WritesLine
    <2>3. ~RemoveOld /\ ~RenamePrev
      BY <2>2 DEF RemoveOld, RenamePrev
    <2>4. ~ArchiveAuditFile
      <3> SUFFICES ASSUME ArchiveAuditFile PROVE FALSE
        OBVIOUS
      <3>1. dir'[0] = None /\ dir[0] # None
        BY NamesAfter DEF ArchiveAuditFile
      <3>2. QED
        BY <2>2, <3>1
    <2>5. QED
      BY <2>2, <2>3, <2>4, NamesMove
  <1>3. QED
    BY <1>1, <1>2, LinesMove

\* Every step keeps the size that of the open file.
LEMMA NextSize ==
  TypeOK /\ ControlInv /\ NamesInv /\ SizeIsFileSize /\ [Next]_vars => SizeIsFileSize'
  <1> SUFFICES ASSUME TypeOK, ControlInv, NamesInv, SizeIsFileSize, [Next]_vars, handle' # None
               PROVE  size' = Written(data'[handle'])
    BY DEF SizeIsFileSize
  <1>1. data \in [Inodes -> Seq(Line)] /\ size \in Nat /\ handle \in Inodes \cup {None}
    BY DEF TypeOK, FileTypes
  <1>2. ASSUME UNCHANGED <<data, handle, size>> PROVE size' = Written(data'[handle'])
    BY <1>2 DEF SizeIsFileSize
  <1>3. ASSUME NEW r \in Recorders, Record(r) \/ Sign(r) \/ Lock(r) PROVE size' = Written(data'[handle'])
    BY <1>2, <1>3 DEF Record, Sign, Lock, WriteBegin, fileVars
  <1>4. ASSUME NEW file, Reopen(file) \/ NewRotatingFile(file), dir[0] = None => file \in Inodes
        PROVE  size' = Written(data'[handle'])
    <2> DEFINE live == IF dir[0] = None THEN file ELSE dir[0]
    <2>1. live \in Inodes
      BY <1>4, RotatingFileAssumption DEF TypeOK, FileTypes, Names
    <2>2. /\ handle' = live
          /\ \/ data' = [data EXCEPT ![live] = <<>>] /\ size' = 0
             \/ data' = data /\ size' = Written(data[live])
      BY <1>4 DEF Reopen, NewRotatingFile, StatSize
    <2> HIDE DEF live
    <2>3. QED
      BY <1>1, <2>1, <2>2, WrittenEmpty
  <1>5. CASE Rotate
    <2>1. CASE RemoveOld \/ RenamePrev
      BY <1>2, <2>1 DEF RemoveOld, RenamePrev
    <2>2. CASE Reopen(Free)
      <3>1. handle = None
        BY <2>2 DEF Reopen, NamesInv, Rotating
      <3>2. QED
        BY <1>4, <2>2, <3>1, FreeFile
    <2>3. QED
      BY <1>5, <2>1, <2>2 DEF Rotate
  <1>7. ASSUME NEW r \in Recorders, Ack(r) PROVE size' = Written(data'[handle'])
    <2>1. /\ handle \in Inodes /\ size' = size + rec[r].len /\ handle' = handle
          /\ data' = [data EXCEPT ![handle] =
                        Append(data[handle], [ev |-> rec[r].ev, len |-> rec[r].len, whole |-> TRUE])]
      BY <1>1, <1>7 DEF Ack, WriteAll
    <2>2. rec[r].ev \in Nat /\ rec[r].len \in Nat
      BY DEF TypeOK, StoreTypes, RecordCalls
    <2>3. [ev |-> rec[r].ev, len |-> rec[r].len, whole |-> TRUE] \in Line
      BY <2>2 DEF Line
    <2>4. data[handle] \in Seq(Line) /\ size = Written(data[handle])
      BY <1>1, <2>1, RotatingFileAssumption DEF SizeIsFileSize
    <2>5. Written(Append(data[handle], [ev |-> rec[r].ev, len |-> rec[r].len, whole |-> TRUE]))
            = Written(data[handle]) + rec[r].len
      BY <2>3, <2>4, WrittenAppend
    <2>6. QED
      BY <1>1, <2>1, <2>4, <2>5
  <1>8. ASSUME NEW r \in Recorders, Fail(r) PROVE size' = Written(data'[handle'])
    <2>1. CASE ReopenFails \/ WriteClosed
      BY <1>2, <2>1 DEF ReopenFails, WriteClosed
    <2>2. CASE WriteShort(rec[r].ev, rec[r].len)
      <3>1. PICK n \in {0, 1} :
              /\ data' = [data EXCEPT ![handle] =
                    IF n = 0 THEN data[handle]
                    ELSE Append(data[handle], [ev |-> rec[r].ev, len |-> n, whole |-> FALSE])]
              /\ size' = size + n
        BY <2>2 DEF WriteShort
      <3>2. handle \in Inodes /\ handle' = handle
        BY <1>1, <2>2 DEF WriteShort
      <3>3. CASE n = 0
        <4>1. data' = data /\ size' = size
          BY <1>1, <3>1, <3>2, <3>3
        <4>2. QED
          BY <1>2, <3>2, <4>1
      <3>4. CASE n = 1
        <4>1. rec[r].ev \in Nat
          BY DEF TypeOK, StoreTypes, RecordCalls
        <4>2. [ev |-> rec[r].ev, len |-> 1, whole |-> FALSE] \in Line
          BY <4>1 DEF Line
        <4>3. data[handle] \in Seq(Line) /\ size = Written(data[handle])
          BY <1>1, <3>2, RotatingFileAssumption DEF SizeIsFileSize
        <4>4. Written(Append(data[handle], [ev |-> rec[r].ev, len |-> 1, whole |-> FALSE]))
                = Written(data[handle]) + 1
          BY <4>2, <4>3, WrittenAppend
        <4>5. QED
          BY <1>1, <3>1, <3>2, <3>4, <4>3, <4>4
      <3>5. QED
        BY <3>3, <3>4
    <2>3. QED
      BY <1>8, <2>1, <2>2 DEF Fail
  <1>9. CASE Close
    BY <1>9 DEF Close, FileClose
  <1>10. CASE Crash
    BY <1>10 DEF Crash, FileCrash
  <1>11. CASE NewSupervisionStore
    <2>1. NewRotatingFile(Free) /\ handle = None
      BY <1>11 DEF NewSupervisionStore, ControlInv
    <2>2. QED
      BY <1>4, <2>1, FreeFile
  <1>12. CASE Archive
    BY <1>2, <1>12 DEF Archive, ArchiveAuditFile
  <1>13. CASE QueryOpen \/ QueryLine \/ QueryEnd
    BY <1>2, <1>13 DEF QueryOpen, QueryLine, QueryEnd, fileVars
  <1>14. CASE Seal \/ UNCHANGED vars
    BY <1>2, <1>14 DEF Seal, vars, fileVars
  <1>15. QED
    BY <1>3, <1>5, <1>7, <1>8, <1>9, <1>10, <1>11, <1>12, <1>13, <1>14 DEF Next

\* What a fragment is.
LEMMA FragmentsAre ==
  /\ \A q : q \in Fragments <=> \E n \in Inodes : \E p \in DOMAIN data[n] : ~data[n][p].whole /\ q = <<n, p>>
  /\ \A q : q \in Fragments' <=> \E n \in Inodes : \E p \in DOMAIN data'[n] : ~data'[n][p].whole /\ q = <<n, p>>
  BY DEF Fragments

\* Every step keeps fragments and short writes in balance.
LEMMA NextFragments ==
  TypeOK /\ ControlInv /\ NamesInv /\ FragmentsInv /\ [Next]_vars => FragmentsInv'
  <1> SUFFICES ASSUME TypeOK, ControlInv, NamesInv, FragmentsInv, [Next]_vars PROVE FragmentsInv'
    OBVIOUS
  <1>1. /\ IsFiniteSet(Fragments) /\ Cardinality(Fragments) <= failed["write"]
        /\ Cardinality(Fragments) \in Nat /\ failed["write"] \in Nat
    BY FS_CardinalityType DEF FragmentsInv, TypeOK, FileTypes, Calls
  <1>2. failed'["write"] \in Nat
    BY NextTypeOK DEF TypeOK, FileTypes, Calls
  <1>3. ASSUME Fragments' \subseteq Fragments, failed'["write"] >= failed["write"] PROVE FragmentsInv'
    <2>1. /\ IsFiniteSet(Fragments') /\ Cardinality(Fragments') <= Cardinality(Fragments)
          /\ Cardinality(Fragments') \in Nat
      BY <1>1, <1>3, FS_Subset, FS_CardinalityType
    <2>2. QED
      BY <1>1, <1>2, <1>3, <2>1 DEF FragmentsInv
  <1>4. failed'["write"] >= failed["write"] \/ \E r \in Recorders : Breaks(r)
    <2>1. CASE Resting
      BY <2>1 DEF Resting, Calls
    <2>2. CASE RemoveOld \/ RenamePrev \/ ArchiveAuditFile
      <3>1. failed \in [Calls -> Nat] /\ "write" \in Calls
        BY DEF TypeOK, FileTypes, Calls
      <3>2. failed' = failed \/ Fails("remove") \/ Fails("rename")
        BY <2>2 DEF RemoveOld, RenamePrev, ArchiveAuditFile
      <3>3. QED
        BY <1>1, <3>1, <3>2 DEF Fails
    <2>3. CASE Reopen(Free) \/ NewRotatingFile(Free)
      BY <1>1, <2>3 DEF Reopen, NewRotatingFile
    <2>4. QED
      BY <2>1, <2>2, <2>3, NamesMove
  <1>5. CASE Unwritten \/ \E r \in Recorders : Record(r)
    <2>1. Emptied
      BY <1>5 DEF Unwritten, Record, fileVars, Emptied
    <2>2. Fragments' \subseteq Fragments
      BY <2>1, FragmentsAre DEF Emptied
    <2>3. CASE failed'["write"] >= failed["write"]
      BY <1>3, <2>2, <2>3
    <2>4. CASE \E r \in Recorders : Breaks(r)
      <3>1. Fails("write")
        BY <2>4 DEF Breaks
      <3>2. failed'["write"] >= failed["write"]
        BY <1>1, <3>1, FailsType DEF TypeOK, Calls
      <3>3. QED
        BY <1>3, <2>2, <3>2
    <2>5. QED
      BY <1>4, <2>3, <2>4
  <1>6. ASSUME NEW r \in Recorders, NEW l, WritesLine(r, l),
               (l.whole /\ failed' = failed) \/ (~l.whole /\ Fails("write"))
        PROVE  FragmentsInv'
    <2>1. handle \in Inodes /\ l \in Line /\ Appended(handle, l)
      BY <1>6 DEF WritesLine
    <2> DEFINE h == handle
               end == Len(data[h]) + 1
    <2>2. /\ Len(data[h]) \in Nat /\ DOMAIN data[h] = 1 .. Len(data[h])
          /\ DOMAIN data'[h] = 1 .. Len(data[h]) + 1
          /\ \A p \in DOMAIN data[h] : data'[h][p] = data[h][p]
          /\ data'[h][Len(data[h]) + 1] = l
          /\ \A m \in Inodes : m # h => data'[m] = data[m]
      BY <2>1, AppendedLines DEF TypeOK
    <2>3. /\ \A p \in DOMAIN data'[h] : p \in DOMAIN data[h] \/ p = end
          /\ data'[h][end] = l /\ end \notin DOMAIN data[h]
      BY <2>2
    <2>4. h \in Inodes
      BY <2>1
    <2> HIDE DEF h, end
    <2>5. Fragments' \subseteq IF l.whole THEN Fragments ELSE Fragments \cup {<<h, end>>}
      BY <2>2, <2>3, <2>4, FragmentsAre
    <2>6. CASE l.whole
      <3>1. failed'["write"] >= failed["write"]
        BY <1>1, <1>6, <2>6
      <3>2. QED
        BY <1>3, <2>5, <2>6, <3>1
    <2>7. CASE ~l.whole
      <3>1. failed'["write"] = failed["write"] + 1
        BY <1>6, <2>7, FailsType DEF TypeOK, Calls
      <3>2. <<h, end>> \notin Fragments
        <4> SUFFICES ASSUME <<h, end>> \in Fragments PROVE FALSE
          OBVIOUS
        <4>1. PICK n \in Inodes : \E p \in DOMAIN data[n] : <<h, end>> = <<n, p>>
          BY FragmentsAre
        <4>2. QED
          BY <2>3, <4>1
      <3>3. /\ IsFiniteSet(Fragments \cup {<<h, end>>})
            /\ Cardinality(Fragments \cup {<<h, end>>}) = Cardinality(Fragments) + 1
        BY <1>1, <3>2, FS_AddElement
      <3>4. /\ IsFiniteSet(Fragments') /\ Cardinality(Fragments') \in Nat
            /\ Cardinality(Fragments') <= Cardinality(Fragments \cup {<<h, end>>})
        BY <2>5, <2>7, <3>3, FS_Subset, FS_CardinalityType
      <3>5. QED
        BY <1>1, <1>2, <3>1, <3>3, <3>4 DEF FragmentsInv
    <2>8. QED
      BY <2>6, <2>7
  <1>7. QED
    BY <1>5, <1>6, LinesMove DEF Acknowledges, Breaks

-------------------------------------------------------------------------------
(* What is kept *)

\* The events of a file, by its content.
Whole(file) == {file[i].ev : i \in {j \in DOMAIN file : file[j].whole}}

\* What is in the files and in the archive, before and after a step.
LEMMA FilesAre ==
  /\ \A e : e \in InFiles <=> \E i \in Names : dir[i] # None /\ e \in Whole(data[dir[i]])
  /\ \A e : e \in InArchive <=> \E n \in archived : e \in Whole(data[n])
  /\ \A e : e \in InFiles' <=> \E i \in Names : dir'[i] # None /\ e \in Whole(data'[dir'[i]])
  /\ \A e : e \in InArchive' <=> \E n \in archived' : e \in Whole(data'[n])
  BY DEF InFiles, InArchive, Events, Whole

\* The events of a file with one more line, and of an empty one.
LEMMA WholeAfter ==
  /\ Whole(<<>>) = {}
  /\ \A file \in Seq(Line), l \in Line :
       Whole(Append(file, l)) = IF l.whole THEN Whole(file) \cup {l.ev} ELSE Whole(file)
  <1>1. Whole(<<>>) = {}
    BY DEF Whole
  <1>2. ASSUME NEW file \in Seq(Line), NEW l \in Line
        PROVE  Whole(Append(file, l)) = IF l.whole THEN Whole(file) \cup {l.ev} ELSE Whole(file)
    <2> DEFINE more == Append(file, l)
    <2>1. /\ \A p : p \in DOMAIN more <=> p \in DOMAIN file \/ p = Len(file) + 1
          /\ \A p \in DOMAIN file : more[p] = file[p]
          /\ more[Len(file) + 1] = l
      OBVIOUS
    <2> HIDE DEF more
    <2>2. \A e : e \in Whole(more) <=> \E p \in DOMAIN more : more[p].whole /\ more[p].ev = e
      BY DEF Whole
    <2>3. \A e : e \in Whole(file) <=> \E p \in DOMAIN file : file[p].whole /\ file[p].ev = e
      BY DEF Whole
    <2>4. \A e : e \in Whole(more) <=> e \in Whole(file) \/ (l.whole /\ e = l.ev)
      BY <2>1, <2>2, <2>3
    <2>5. Whole(more) = IF l.whole THEN Whole(file) \cup {l.ev} ELSE Whole(file)
      BY <2>4
    <2>6. QED
      BY <2>5 DEF more
  <1>3. QED
    BY <1>1, <1>2

\* The oldest backup loses its name to a rotation.
Drops ==
  /\ RemoveOld \/ RenamePrev
  /\ rot.i = MaxBak /\ dir[MaxBak] # None
  /\ InArchive' = InArchive
  /\ \A e : e \in InFiles' <=> \E i \in Names : i < MaxBak /\ dir[i] # None /\ e \in Whole(data[dir[i]])

\* Without backups a rotation empties the one file there is.
Truncates == Reopen(Free) /\ MaxBak = 0 /\ InFiles' = {} /\ InArchive' = InArchive

\* How a step changes what is kept, unless a rename failed.
LEMMA KeptMove ==
  ASSUME TypeOK, ControlInv, NamesInv, FreeInv, [Next]_vars, NoRenameFailed'
  PROVE  \/ /\ acked' = acked
            /\ \/ InFiles' = InFiles /\ InArchive' = InArchive
               \/ InFiles' \subseteq InFiles /\ InFiles' \cup InArchive' = InFiles \cup InArchive
               \/ Drops \/ Truncates
         \/ \E r \in Recorders :
              /\ Acknowledges(r)
              /\ InFiles' \subseteq InFiles \cup {rec[r].ev}
              /\ InFiles' \cup InArchive' = InFiles \cup InArchive \cup {rec[r].ev}
  <1> USE RotatingFileAssumption
  <1>1. NoRenameFailed
    BY NoRenameBefore
  <1>2. /\ data \in [Inodes -> Seq(Line)] /\ dir \in [Names -> Inodes \cup {None}]
        /\ archived \subseteq Inodes /\ rot.i \in Names /\ Names \subseteq Nat /\ 0 \in Names /\ MaxBak \in Names
    BY DEF TypeOK, FileTypes, Rotations, Names
  <1>3. CASE Resting /\ data' = data /\ acked' = acked
    <2>1. InFiles' = InFiles /\ InArchive' = InArchive
      BY <1>3 DEF InFiles, InArchive, Events, Resting
    <2>2. QED
      BY <1>3, <2>1
  <1>4. CASE RemoveOld /\ acked' = acked
    <2>1. data' = data /\ archived' = archived /\ rot.at = "remove"
      BY <1>4 DEF RemoveOld
    <2>2. /\ rot.i \in 1 .. MaxBak
          /\ \A i \in Names : i # rot.i => dir'[i] = dir[i]
          /\ dir'[rot.i] \in {dir[rot.i], None}
      BY <1>4, NamesAfter
    <2>3. InArchive' = InArchive
      BY <2>1, FilesAre
    <2>4. CASE dir'[rot.i] = dir[rot.i]
      <3>1. \A i \in Names : dir'[i] = dir[i]
        BY <2>2, <2>4
      <3>2. InFiles' = InFiles
        BY <2>1, <3>1, FilesAre
      <3>3. QED
        BY <1>4, <2>3, <3>2
    <2>5. CASE dir'[rot.i] = None /\ dir[rot.i] # None
      <3>1. rot.i = MaxBak
        BY <1>1, <2>1, <2>2, <2>5 DEF FreeInv
      <3>2. \A i \in Names : dir'[i] # None <=> i < MaxBak /\ dir[i] # None
        BY <1>2, <2>2, <2>5, <3>1 DEF Names
      <3>3. \A i \in Names : i < MaxBak => dir'[i] = dir[i]
        BY <1>2, <2>2, <3>1
      <3>4. \A e : e \in InFiles' <=> \E i \in Names : i < MaxBak /\ dir[i] # None /\ e \in Whole(data[dir[i]])
        BY <2>1, <3>2, <3>3, FilesAre
      <3>5. Drops
        BY <1>4, <2>3, <2>5, <3>1, <3>4 DEF Drops
      <3>6. QED
        BY <1>4, <3>5
    <2>6. QED
      BY <2>2, <2>4, <2>5
  <1>5. CASE RenamePrev /\ acked' = acked
    <2> DEFINE o == rot.i
    <2>1. data' = data /\ archived' = archived /\ rot.at = "rename"
      BY <1>5 DEF RenamePrev
    <2>2. /\ o \in 1 .. MaxBak /\ o - 1 \in Names
          /\ \A i \in Names : i # o /\ i # o - 1 => dir'[i] = dir[i]
          /\ dir'[o - 1] = None
          /\ dir'[o] = IF dir[o - 1] = None THEN dir[o] ELSE dir[o - 1]
      BY <1>5, NamesAfter, RenameFrees
    <2>3. InArchive' = InArchive
      BY <2>1, FilesAre
    <2>4. o < MaxBak => dir[o] = None
      BY <1>1, <2>1 DEF FreeInv
    <2>5. rot.i = o /\ o \in Nat /\ o > 0 /\ o <= MaxBak /\ o \in Names /\ o - 1 # o
      BY <2>2 DEF Names
    <2> HIDE DEF o
    <2>6. CASE dir[o - 1] = None
      <3>1. \A i \in Names : dir'[i] = dir[i]
        BY <2>2, <2>6
      <3>2. InFiles' = InFiles
        BY <2>1, <3>1, FilesAre
      <3>3. QED
        BY <1>5, <2>3, <3>2
    <2>7. CASE dir[o - 1] # None /\ dir[o] = None
      <3>1. ASSUME NEW e \in InFiles' PROVE e \in InFiles
        <4>1. PICK i \in Names : dir'[i] # None /\ e \in Whole(data[dir'[i]])
          BY <2>1, FilesAre
        <4>2. \E k \in Names : dir[k] = dir'[i]
          BY <2>2, <2>7, <4>1
        <4>3. QED
          BY <4>1, <4>2, FilesAre
      <3>2. ASSUME NEW e \in InFiles PROVE e \in InFiles'
        <4>1. PICK i \in Names : dir[i] # None /\ e \in Whole(data[dir[i]])
          BY FilesAre
        <4>2. \E k \in Names : dir'[k] = dir[i]
          BY <2>2, <2>5, <2>7, <4>1
        <4>3. QED
          BY <2>1, <4>1, <4>2, FilesAre
      <3>3. QED
        BY <1>5, <2>3, <3>1, <3>2
    <2>8. CASE dir[o - 1] # None /\ dir[o] # None
      <3>1. o = MaxBak
        BY <2>4, <2>5, <2>8
      <3>2. ASSUME NEW e \in InFiles'
            PROVE  \E i \in Names : i < MaxBak /\ dir[i] # None /\ e \in Whole(data[dir[i]])
        <4>1. PICK i \in Names : dir'[i] # None /\ e \in Whole(data[dir'[i]])
          BY <2>1, FilesAre
        <4>2. CASE i = o
          BY <2>2, <2>5, <2>8, <3>1, <4>1, <4>2
        <4>3. CASE i # o
          <5>1. i # o - 1 /\ dir'[i] = dir[i]
            BY <2>2, <4>1, <4>3
          <5>2. i < MaxBak
            BY <1>2, <3>1, <4>3 DEF Names
          <5>3. QED
            BY <4>1, <5>1, <5>2
        <4>4. QED
          BY <4>2, <4>3
      <3>3. ASSUME NEW e, NEW i \in Names, i < MaxBak, dir[i] # None, e \in Whole(data[dir[i]])
            PROVE  e \in InFiles'
        <4>1. i # o
          BY <1>2, <3>1, <3>3
        <4>2. \E k \in Names : dir'[k] = dir[i]
          BY <2>2, <2>5, <2>8, <3>3, <4>1
        <4>3. QED
          BY <2>1, <3>3, <4>2, FilesAre
      <3>4. Drops
        BY <1>5, <2>3, <2>5, <2>8, <3>1, <3>2, <3>3 DEF Drops
      <3>5. QED
        BY <1>5, <3>4
    <2>9. QED
      BY <2>6, <2>7, <2>8
  <1>6. CASE (Reopen(Free) \/ NewRotatingFile(Free)) /\ handle = None /\ acked' = acked
    <2>1. /\ \A i \in Names : i # 0 => dir'[i] = dir[i]
          /\ dir'[0] = IF dir[0] = None THEN Free ELSE dir[0]
          /\ archived' = archived
      BY <1>6, NamesAfter DEF Reopen, NewRotatingFile
    <2>2. CASE dir[0] = None
      <3>1. /\ Free \in Inodes /\ Free \notin archived /\ \A i \in Names : dir[i] # Free
            /\ data' = [data EXCEPT ![Free] = <<>>]
        BY <1>6, <2>2, FreeFile DEF Reopen, NewRotatingFile
      <3>2. data'[Free] = <<>> /\ \A n \in Inodes : n # Free => data'[n] = data[n]
        BY <1>2, <3>1
      <3>3. \A i \in Names : i # 0 /\ dir[i] # None => dir[i] \in Inodes /\ data'[dir[i]] = data[dir[i]]
        BY <1>2, <3>1, <3>2
      <3>4. InFiles' = InFiles
        <4>1. ASSUME NEW e \in InFiles' PROVE e \in InFiles
          <5>1. PICK i \in Names : dir'[i] # None /\ e \in Whole(data'[dir'[i]])
            BY FilesAre
          <5>2. i # 0
            BY <2>1, <2>2, <3>2, <5>1, WholeAfter
          <5>3. QED
            BY <2>1, <3>3, <5>1, <5>2, FilesAre
        <4>2. ASSUME NEW e \in InFiles PROVE e \in InFiles'
          <5>1. PICK i \in Names : dir[i] # None /\ e \in Whole(data[dir[i]])
            BY FilesAre
          <5>2. QED
            BY <2>1, <2>2, <3>3, <5>1, FilesAre
        <4>3. QED
          BY <4>1, <4>2
      <3>5. InArchive' = InArchive
        <4>1. \A n \in archived : data'[n] = data[n]
          BY <1>2, <3>1, <3>2
        <4>2. QED
          BY <2>1, <4>1, FilesAre
      <3>6. QED
        BY <1>6, <3>4, <3>5
    <2>3. CASE dir[0] # None /\ data' = data
      <3>1. \A i \in Names : dir'[i] = dir[i]
        BY <2>1, <2>3
      <3>2. InFiles' = InFiles /\ InArchive' = InArchive
        BY <2>1, <2>3, <3>1, FilesAre
      <3>3. QED
        BY <1>6, <3>2
    <2>4. CASE dir[0] # None /\ Reopen(Free)
      <3>1. MaxBak = 0
        BY <1>1, <2>4 DEF FreeInv, Reopen
      <3>2. data' = [data EXCEPT ![dir[0]] = <<>>] /\ dir[0] \in Inodes
        BY <1>2, <2>4 DEF Reopen
      <3>3. data'[dir'[0]] = <<>>
        BY <1>2, <2>1, <2>4, <3>2
      <3>4. \A i \in Names : i = 0
        BY <3>1 DEF Names
      <3>5. InFiles' = {}
        BY <3>3, <3>4, FilesAre, WholeAfter
      <3>6. \A n \in archived : data'[n] = data[n]
        BY <1>2, <3>2 DEF NamesInv
      <3>7. InArchive' = InArchive
        BY <2>1, <3>6, FilesAre
      <3>8. QED
        BY <1>6, <2>4, <3>1, <3>5, <3>7 DEF Truncates
    <2>5. QED
      BY <1>6, <2>2, <2>3, <2>4 DEF NewRotatingFile
  <1>7. CASE ArchiveAuditFile /\ acked' = acked
    <2>1. /\ \A i \in Names : i # 0 => dir'[i] = dir[i]
          /\ dir'[0] = None /\ archived' = archived \cup {dir[0]} /\ dir[0] \in Inodes /\ data' = data
      BY <1>7, NamesAfter DEF ArchiveAuditFile
    <2>2. ASSUME NEW e \in InFiles' PROVE e \in InFiles
      BY <2>1, FilesAre
    <2>3. ASSUME NEW e \in InFiles PROVE e \in InFiles' \cup InArchive'
      <3>1. PICK i \in Names : dir[i] # None /\ e \in Whole(data[dir[i]])
        BY FilesAre
      <3>2. QED
        BY <2>1, <3>1, FilesAre
    <2>4. ASSUME NEW e \in InArchive PROVE e \in InArchive'
      BY <2>1, FilesAre
    <2>5. ASSUME NEW e \in InArchive' PROVE e \in InFiles \cup InArchive
      BY <1>2, <2>1, FilesAre
    <2>6. QED
      BY <1>7, <2>2, <2>3, <2>4, <2>5
  <1>8. ASSUME NEW r \in Recorders, Resting, NEW l, WritesLine(r, l)
        PROVE  /\ \A e : e \in InFiles' => e \in InFiles \/ (l.whole /\ e = rec[r].ev)
               /\ \A e : e \in InFiles => e \in InFiles'
               /\ \A e : e \in InArchive' => e \in InArchive \/ (l.whole /\ e = rec[r].ev)
               /\ \A e : e \in InArchive => e \in InArchive'
               /\ l.whole => rec[r].ev \in InFiles' \cup InArchive'
    <2> DEFINE h == handle
               x == rec[r].ev
    <2>1. /\ h \in Inodes /\ l \in Line /\ l.ev = x /\ Appended(h, l) /\ dir' = dir /\ archived' = archived
      BY <1>8 DEF WritesLine
    <2>2. data'[h] = Append(data[h], l) /\ \A m \in Inodes : m # h => data'[m] = data[m]
      BY <2>1, AppendedLines DEF TypeOK
    <2>3. Whole(data'[h]) = IF l.whole THEN Whole(data[h]) \cup {x} ELSE Whole(data[h])
      BY <1>2, <2>1, <2>2, WholeAfter
    <2>4. (dir[0] # None /\ dir[0] = h) \/ h \in archived
      BY <2>1 DEF NamesInv
    <2> HIDE DEF h, x
    <2>5. \A i \in Names : dir[i] # None => dir[i] \in Inodes
      BY <1>2
    <2>6. \A n \in Inodes : \A e :
            /\ e \in Whole(data'[n]) => e \in Whole(data[n]) \/ (l.whole /\ e = x)
            /\ e \in Whole(data[n]) => e \in Whole(data'[n])
      BY <2>2, <2>3
    <2>7. \A e : /\ e \in InFiles' => e \in InFiles \/ (l.whole /\ e = x)
                 /\ e \in InFiles => e \in InFiles'
      BY <2>1, <2>5, <2>6, FilesAre
    <2>8. \A e : /\ e \in InArchive' => e \in InArchive \/ (l.whole /\ e = x)
                 /\ e \in InArchive => e \in InArchive'
      BY <1>2, <2>1, <2>6, FilesAre
    <2>9. l.whole => x \in InFiles' \cup InArchive'
      BY <1>2, <2>1, <2>3, <2>4, FilesAre
    <2>10. QED
      BY <2>7, <2>8, <2>9 DEF x
  <1>9. ASSUME NEW r \in Recorders, Resting, Acknowledges(r)
        PROVE  /\ InFiles' \subseteq InFiles \cup {rec[r].ev}
               /\ InFiles' \cup InArchive' = InFiles \cup InArchive \cup {rec[r].ev}
    <2>1. PICK l : WritesLine(r, l) /\ l.whole
      BY <1>9 DEF Acknowledges
    <2>2. QED
      BY <1>8, <1>9, <2>1
  <1>10. ASSUME NEW r \in Recorders, Resting, Breaks(r)
         PROVE  InFiles' = InFiles /\ InArchive' = InArchive /\ acked' = acked
    <2>1. PICK l : WritesLine(r, l) /\ ~l.whole
      BY <1>10 DEF Breaks
    <2>2. acked' = acked
      BY <1>10 DEF Breaks
    <2>3. QED
      BY <1>8, <1>10, <2>1, <2>2
  <1>11. QED
    BY <1>3, <1>4, <1>5, <1>6, <1>7, <1>9, <1>10, Moves

\* Every step keeps the younger events as long as the older ones.
LEMMA NextKept ==
  /\ TypeOK /\ ControlInv /\ NamesInv /\ FreeInv /\ EventsInv /\ OrderInv /\ KeptInv
  /\ [Next]_vars
  => KeptInv'
  <1> SUFFICES ASSUME TypeOK, ControlInv, NamesInv, FreeInv, EventsInv, OrderInv, KeptInv, [Next]_vars,
                      NoRenameFailed',
                      NEW e \in Acked', NEW f \in Acked', Older(e, f)', e \in InFiles'
               PROVE  f \in InFiles' \cup InArchive'
    BY DEF KeptInv
  <1>1. acked \in Seq(Nat) /\ Names \subseteq Nat /\ MaxBak \in Names
    BY RotatingFileAssumption DEF TypeOK, StoreTypes, Names
  <1>2. \A g, k : Older(g, k) => g \in Acked /\ k \in Acked /\ ~Older(k, g)
    BY <1>1, OlderOrder
  <1>3. \A g, k : Older(g, k) /\ g \in InFiles => k \in InFiles \cup InArchive
    BY <1>2, NoRenameBefore DEF KeptInv
  <1>4. CASE acked' = acked
    <2>1. Older(e, f)
      BY <1>4 DEF Older
    <2>2. CASE InFiles' = InFiles /\ InArchive' = InArchive
      BY <1>3, <2>1, <2>2
    <2>3. CASE InFiles' \subseteq InFiles /\ InFiles' \cup InArchive' = InFiles \cup InArchive
      BY <1>3, <2>1, <2>3
    <2>4. CASE Drops
      <3>1. PICK i \in Names : i < MaxBak /\ dir[i] # None /\ e \in Whole(data[dir[i]])
        BY <2>4 DEF Drops
      <3>2. e \in Events(dir[i]) /\ e \in InFiles
        BY <3>1, FilesAre DEF Events, Whole
      <3>3. f \in InFiles \cup InArchive
        BY <1>3, <2>1, <3>2
      <3>4. CASE f \in InFiles
        <4>1. PICK j \in Names : dir[j] # None /\ f \in Whole(data[dir[j]])
          BY <3>4, FilesAre
        <4>2. f \in Events(dir[j])
          BY <4>1 DEF Events, Whole
        <4>3. j # MaxBak
          BY <1>1, <1>2, <2>1, <3>1, <3>2, <4>1, <4>2 DEF OrderInv, FilesInOrder
        <4>4. j < MaxBak
          BY <1>1, <4>3 DEF Names
        <4>5. QED
          BY <2>4, <4>1, <4>4 DEF Drops
      <3>5. CASE f \in InArchive
        BY <2>4, <3>5 DEF Drops
      <3>6. QED
        BY <3>3, <3>4, <3>5
    <2>5. CASE Truncates
      BY <2>5 DEF Truncates
    <2>6. CASE \E r \in Recorders : Acknowledges(r)
      <3>1. acked' # acked
        <4>1. PICK r \in Recorders : acked' = Append(acked, rec[r].ev)
          BY <2>6 DEF Acknowledges
        <4>2. Len(Append(acked, rec[r].ev)) # Len(acked)
          BY <1>1
        <4>3. QED
          BY <4>1, <4>2
      <3>2. QED
        BY <1>4, <3>1
    <2>7. QED
      BY <2>2, <2>3, <2>4, <2>5, <2>6, KeptMove
  <1>5. ASSUME NEW r \in Recorders, Acknowledges(r),
               InFiles' \subseteq InFiles \cup {rec[r].ev},
               InFiles' \cup InArchive' = InFiles \cup InArchive \cup {rec[r].ev}
        PROVE  f \in InFiles' \cup InArchive'
    <2>1. rec[r].pc # "idle" /\ acked' = Append(acked, rec[r].ev) /\ rec[r].ev \in Nat
      BY <1>5 DEF Acknowledges, WritesLine, TypeOK, StoreTypes, RecordCalls
    <2>2. rec[r].ev \notin Acked
      BY <2>1 DEF EventsInv
    <2>3. Older(e, f) \/ (e \in Acked /\ f = rec[r].ev)
      BY <1>1, <2>1, <2>2, OlderAppend
    <2>4. e \in InFiles
      BY <1>2, <1>5, <2>2, <2>3
    <2>5. QED
      BY <1>3, <1>5, <2>3, <2>4
  <1>6. QED
    BY <1>4, <1>5, KeptMove

\* What is gone was gone before, or a rotation has just dropped it.
LEMMA NextGone ==
  ASSUME TypeOK, ControlInv, NamesInv, FreeInv, [Next]_vars, NoRenameFailed', Gone' # {}
  PROVE  Gone # {} \/ Drops \/ Truncates
  <1>1. Gone = Acked \ (InFiles \cup InArchive)
    BY DEF Gone, Acked
  <1>2. Gone' = Acked' \ (InFiles' \cup InArchive')
    BY DEF Gone, Acked
  <1>3. CASE acked' = acked /\ InFiles' \cup InArchive' = InFiles \cup InArchive
    <2>1. Acked' = Acked
      BY <1>3 DEF Acked
    <2>2. QED
      BY <1>1, <1>2, <1>3, <2>1
  <1>4. ASSUME NEW r \in Recorders, Acknowledges(r),
               InFiles' \cup InArchive' = InFiles \cup InArchive \cup {rec[r].ev}
        PROVE  Gone # {}
    <2>1. acked' = Append(acked, rec[r].ev) /\ rec[r].ev \in Nat /\ acked \in Seq(Nat)
      BY <1>4 DEF Acknowledges, TypeOK, StoreTypes, RecordCalls
    <2>2. Acked' = Acked \cup {rec[r].ev}
      BY <2>1, AckedAppend
    <2>3. QED
      BY <1>1, <1>2, <1>4, <2>2
  <1>5. QED
    BY <1>3, <1>4, KeptMove

-------------------------------------------------------------------------------
(* The names that are missing *)

\* A part of a finite set is no larger; with one element more it is larger by
\* one at most, and not at all if another one left.
LEMMA Sizes ==
  ASSUME NEW S, NEW T, NEW c, IsFiniteSet(S)
  PROVE  /\ Cardinality(S) \in Nat
         /\ T \subseteq S => IsFiniteSet(T) /\ Cardinality(T) \in Nat /\ Cardinality(T) <= Cardinality(S)
         /\ T \subseteq S \cup {c} =>
              IsFiniteSet(T) /\ Cardinality(T) \in Nat /\ Cardinality(T) <= Cardinality(S) + 1
         /\ \A p \in S : T \subseteq (S \ {p}) \cup {c} =>
              IsFiniteSet(T) /\ Cardinality(T) \in Nat /\ Cardinality(T) <= Cardinality(S)
  <1>1. Cardinality(S) \in Nat
    BY FS_CardinalityType
  <1>2. ASSUME NEW U, IsFiniteSet(U), NEW V, V \subseteq U
        PROVE  IsFiniteSet(V) /\ Cardinality(V) \in Nat /\ Cardinality(V) <= Cardinality(U)
    BY <1>2, FS_Subset, FS_CardinalityType
  <1>3. ASSUME NEW U, IsFiniteSet(U)
        PROVE  IsFiniteSet(U \cup {c}) /\ Cardinality(U \cup {c}) <= Cardinality(U) + 1
               /\ Cardinality(U) \in Nat /\ Cardinality(U \cup {c}) \in Nat
    <2>1. Cardinality(U) \in Nat
      BY <1>3, FS_CardinalityType
    <2>2. /\ IsFiniteSet(U \cup {c})
          /\ Cardinality(U \cup {c}) = IF c \in U THEN Cardinality(U) ELSE Cardinality(U) + 1
      BY <1>3, FS_AddElement
    <2>3. QED
      BY <2>1, <2>2
  <1>4. ASSUME NEW p \in S
        PROVE  IsFiniteSet(S \ {p}) /\ Cardinality(S \ {p}) = Cardinality(S) - 1
    BY FS_RemoveElement
  <1>5. ASSUME T \subseteq S \cup {c}
        PROVE  IsFiniteSet(T) /\ Cardinality(T) \in Nat /\ Cardinality(T) <= Cardinality(S) + 1
    <2>1. IsFiniteSet(S \cup {c}) /\ Cardinality(S \cup {c}) <= Cardinality(S) + 1 /\ Cardinality(S \cup {c}) \in Nat
      BY <1>3
    <2>2. IsFiniteSet(T) /\ Cardinality(T) \in Nat /\ Cardinality(T) <= Cardinality(S \cup {c})
      BY <1>2, <1>5, <2>1
    <2>3. QED
      BY <1>1, <2>1, <2>2
  <1>6. ASSUME NEW p \in S, T \subseteq (S \ {p}) \cup {c}
        PROVE  IsFiniteSet(T) /\ Cardinality(T) \in Nat /\ Cardinality(T) <= Cardinality(S)
    <2>1. IsFiniteSet(S \ {p}) /\ Cardinality(S \ {p}) = Cardinality(S) - 1
      BY <1>4
    <2>2. /\ IsFiniteSet((S \ {p}) \cup {c}) /\ Cardinality((S \ {p}) \cup {c}) \in Nat
          /\ Cardinality((S \ {p}) \cup {c}) <= Cardinality(S \ {p}) + 1 /\ Cardinality(S \ {p}) \in Nat
      BY <1>3, <2>1
    <2>3. IsFiniteSet(T) /\ Cardinality(T) \in Nat /\ Cardinality(T) <= Cardinality((S \ {p}) \cup {c})
      BY <1>2, <1>6, <2>2
    <2>4. QED
      BY <1>1, <2>1, <2>2, <2>3
  <1>7. QED
    BY <1>1, <1>2, <1>5, <1>6

\* The failures, crashes and archived files are counted and never forgotten; a
\* rotation that is cut short leaves its hole behind but is one of them.
LEMMA HolesMove ==
  ASSUME TypeOK, ControlInv, NamesInv, [Next]_vars
  PROVE  /\ Excused \in Nat /\ Excused' \in Nat /\ Excused' >= Excused
         /\ \/ dir' = dir /\ Holes' \subseteq Holes
            \/ dir' = dir /\ Holes' \subseteq Holes \cup {rot.i} /\ Excused' = Excused + 1
            \/ RemoveOld
            \/ RenamePrev
            \/ Reopen(Free) /\ handle = None
            \/ NewRotatingFile(Free) /\ handle = None /\ rot = Quiet
            \/ ArchiveAuditFile /\ Excused' = Excused + 1
  <1>1. FileTypes /\ StoreTypes /\ IsFiniteSet(archived) /\ crashes \in Nat
    BY DEF TypeOK, FileTypes, StoreTypes
  <1>2. Cardinality(archived) \in Nat
    BY <1>1, FS_CardinalityType
  <1>3. Faults \in Nat
    BY <1>1 DEF FileTypes, Faults, Calls
  <1>4. Excused \in Nat /\ Excused = Faults + crashes + Cardinality(archived)
        /\ Excused' = Faults' + crashes' + Cardinality(archived')
    BY <1>1, <1>2, <1>3 DEF Excused
  <1>5. ASSUME UNCHANGED <<failed, crashes, archived>> PROVE Excused' = Excused
    BY <1>5 DEF Excused, Faults
  <1>6. ASSUME Fails("remove") \/ Fails("rename") \/ Fails("open") \/ Fails("write"),
               UNCHANGED <<crashes, archived>>
        PROVE  Excused' = Excused + 1
    <2>1. Faults' = Faults + 1
      BY <1>1, <1>6, FailsType DEF Calls
    <2>2. QED
      BY <1>1, <1>2, <1>3, <1>4, <1>6, <2>1
  <1>7. Quiet.at \notin Rotating /\ "write" \notin Rotating
    BY DEF Quiet, Rotating
  <1>8. Holes' = {i \in Names : dir'[i] = None} \ Bubble'
    BY DEF Holes
  <1>9. ASSUME dir' = dir, Bubble = {} PROVE Holes' \subseteq Holes
    BY <1>8, <1>9 DEF Holes
  <1>10. ASSUME dir' = dir, Bubble \subseteq {rot.i} PROVE Holes' \subseteq Holes \cup {rot.i}
    BY <1>8, <1>10 DEF Holes
  <1>11. Bubble \subseteq {rot.i} /\ (rot.at \notin Rotating => Bubble = {})
    BY DEF Bubble
  <1>12. ASSUME UNCHANGED <<dir, rot>> PROVE Holes' \subseteq Holes
    BY <1>12 DEF Holes, Bubble
  <1>13. ASSUME NEW r \in Recorders, Record(r) \/ Sign(r)
         PROVE  dir' = dir /\ Holes' \subseteq Holes /\ Excused' = Excused
    BY <1>5, <1>12, <1>13 DEF Record, Sign, fileVars
  <1>14. ASSUME NEW r \in Recorders, Lock(r)
         PROVE  dir' = dir /\ Holes' \subseteq Holes /\ Excused' = Excused
    BY <1>5, <1>7, <1>9, <1>11, <1>14 DEF Lock, WriteBegin
  <1>15. ASSUME NEW r \in Recorders, Ack(r)
         PROVE  dir' = dir /\ Holes' \subseteq Holes /\ Excused' = Excused
    BY <1>5, <1>7, <1>9, <1>11, <1>15 DEF Ack, WriteAll
  <1>16. ASSUME NEW r \in Recorders, Fail(r)
         PROVE  /\ dir' = dir
                /\ \/ Holes' \subseteq Holes /\ Excused' = Excused
                   \/ Holes' \subseteq Holes \cup {rot.i} /\ Excused' = Excused + 1
    <2>1. CASE ReopenFails
      BY <1>6, <1>10, <1>11, <1>16, <2>1 DEF Fail, ReopenFails
    <2>2. CASE WriteShort(rec[r].ev, rec[r].len)
      BY <1>6, <1>10, <1>11, <1>16, <2>2 DEF Fail, WriteShort
    <2>3. CASE WriteClosed
      BY <1>5, <1>7, <1>9, <1>11, <1>16, <2>3 DEF Fail, WriteClosed
    <2>4. QED
      BY <1>16, <2>1, <2>2, <2>3 DEF Fail
  <1>17. CASE Rotate
    <2>1. crashes' = crashes /\ archived' = archived
      BY <1>17 DEF Rotate, storeVars, RemoveOld, RenamePrev, Reopen
    <2>2. CASE RemoveOld \/ RenamePrev
      <3>1. failed' = failed \/ Fails("remove") \/ Fails("rename")
        BY <2>2 DEF RemoveOld, RenamePrev
      <3>2. QED
        BY <1>4, <1>5, <1>6, <2>1, <2>2, <3>1
    <2>3. CASE Reopen(Free)
      <3>1. failed' = failed /\ handle = None
        BY <2>3 DEF Reopen, NamesInv, Rotating
      <3>2. QED
        BY <1>4, <1>5, <2>1, <2>3, <3>1
    <2>4. QED
      BY <1>17, <2>2, <2>3 DEF Rotate
  <1>18. CASE Close
    <2>1. UNCHANGED <<failed, crashes, archived, dir, rot>>
      BY <1>18 DEF Close, FileClose
    <2>2. QED
      BY <1>4, <1>5, <1>12, <2>1
  <1>19. CASE Crash
    <2>1. crashes' = crashes + 1 /\ failed' = failed /\ archived' = archived /\ dir' = dir
      BY <1>19 DEF Crash, FileCrash
    <2>2. Excused' = Excused + 1
      <3>1. Faults' = Faults
        BY <2>1 DEF Faults
      <3>2. QED
        BY <1>1, <1>2, <1>3, <1>4, <2>1, <3>1
    <2>3. QED
      BY <1>4, <1>10, <1>11, <2>1, <2>2
  <1>20. CASE NewSupervisionStore
    <2>1. NewRotatingFile(Free) /\ handle = None /\ rot = Quiet /\ crashes' = crashes
      BY <1>20 DEF NewSupervisionStore, ControlInv
    <2>2. failed' = failed /\ archived' = archived
      BY <2>1 DEF NewRotatingFile
    <2>3. QED
      BY <1>4, <1>5, <2>1, <2>2
  <1>21. CASE Archive
    <2>1. ArchiveAuditFile /\ crashes' = crashes /\ failed' = failed /\ archived' = archived \cup {dir[0]}
      BY <1>21 DEF Archive, ArchiveAuditFile
    <2>2. dir[0] \notin archived
      BY RotatingFileAssumption DEF NamesInv, Names
    <2>3. Cardinality(archived') = Cardinality(archived) + 1
      BY <1>1, <2>1, <2>2, FS_AddElement
    <2>4. Faults' = Faults
      BY <2>1 DEF Faults
    <2>5. Excused' = Excused + 1
      BY <1>1, <1>2, <1>3, <1>4, <2>1, <2>3, <2>4
    <2>6. QED
      BY <1>4, <2>1, <2>5
  <1>22. CASE QueryOpen \/ QueryLine \/ QueryEnd \/ Seal \/ UNCHANGED vars
    <2>1. UNCHANGED <<failed, crashes, archived, dir, rot>>
      BY <1>22 DEF QueryOpen, QueryLine, QueryEnd, Seal, vars, fileVars, storeVars
    <2>2. QED
      BY <1>4, <1>5, <1>12, <2>1
  <1>23. QED
    BY <1>4, <1>13, <1>14, <1>15, <1>16, <1>17, <1>18, <1>19, <1>20, <1>21, <1>22 DEF Next

\* Every step keeps the missing names accounted for.
LEMMA NextHoles ==
  TypeOK /\ ControlInv /\ NamesInv /\ FreeInv /\ HolesInv /\ [Next]_vars => HolesInv'
  <1> DEFINE Below(j) == {i \in Holes : i < j}
             BelowAfter(j) == {i \in Holes' : i < j}
  <1> SUFFICES ASSUME TypeOK, ControlInv, NamesInv, FreeInv, HolesInv, [Next]_vars, NoRenameFailed'
               PROVE  /\ \A j \in Names : dir'[j] # None => Cardinality(BelowAfter(j)) <= Excused'
                      /\ Gone' # {} => Cardinality(Holes') <= Excused'
    BY DEF HolesInv
  <1> USE RotatingFileAssumption
  <1>1. NoRenameFailed
    BY NoRenameBefore
  <1>2. Excused \in Nat /\ Excused' \in Nat /\ Excused' >= Excused
    BY HolesMove
  <1>3. /\ Names \subseteq Nat /\ 0 \in Names /\ MaxBak \in Names /\ rot.i \in Names
        /\ \A i \in Names : i <= MaxBak /\ dir[i] \in Inodes \cup {None}
    BY DEF Names, TypeOK, FileTypes, Rotations
  <1>4. /\ \A i : i \in Holes <=> i \in Names /\ dir[i] = None /\ i \notin Bubble
        /\ \A i : i \in Holes' <=> i \in Names /\ dir'[i] = None /\ i \notin Bubble'
    BY DEF Holes
  <1>5. IsFiniteSet(Holes) /\ \A j : IsFiniteSet(Below(j))
    <2>1. IsFiniteSet(Names)
      BY FS_Interval DEF Names
    <2>2. Holes \subseteq Names /\ \A j : Below(j) \subseteq Names
      BY <1>4
    <2>3. QED
      BY <2>1, <2>2, FS_Subset
  <1>6. /\ \A j \in Names : dir[j] # None => Cardinality(Below(j)) <= Excused
        /\ Gone # {} => Cardinality(Holes) <= Excused
    BY <1>1 DEF HolesInv
  <1>7. /\ Cardinality(Holes) \in Nat /\ \A j : Cardinality(Below(j)) \in Nat
    BY <1>5, FS_CardinalityType
  <1>8. Bubble = (IF rot.at \in Rotating THEN {rot.i} ELSE {}) /\ Bubble' = (IF rot'.at \in Rotating THEN {rot'.i} ELSE {})
    BY DEF Bubble
  <1>9. dir[MaxBak] # None => Cardinality(Holes) <= Excused
    <2> SUFFICES ASSUME dir[MaxBak] # None PROVE Cardinality(Holes) <= Excused
      OBVIOUS
    <2>1. Holes \subseteq Below(MaxBak)
      <3>1. ASSUME NEW i \in Names, i # MaxBak PROVE i < MaxBak
        <4>1. i \in Nat /\ MaxBak \in Nat /\ i <= MaxBak
          BY <1>3
        <4>2. QED
          BY <3>1, <4>1
      <3>2. QED
        BY <1>4, <3>1
    <2> HIDE DEF Below
    <2>2. Cardinality(Holes) <= Cardinality(Below(MaxBak))
      BY <1>5, <2>1, Sizes
    <2>3. QED
      BY <1>2, <1>3, <1>6, <1>7, <2>2
  <1> HIDE DEF Below, BelowAfter
  <1>10. ASSUME Holes' \subseteq Holes, Gone' # {} => Gone # {} \/ Cardinality(Holes) <= Excused,
                NEW J, \A j \in J : j \in Names /\ dir[j] # None
         PROVE  /\ \A j \in J : Cardinality(BelowAfter(j)) <= Excused'
                /\ Gone' # {} => Cardinality(Holes') <= Excused'
    <2>1. ASSUME NEW j \in J PROVE Cardinality(BelowAfter(j)) <= Excused'
      <3>1. BelowAfter(j) \subseteq Below(j)
        BY <1>10 DEF Below, BelowAfter
      <3>2. Cardinality(BelowAfter(j)) \in Nat /\ Cardinality(BelowAfter(j)) <= Cardinality(Below(j))
        BY <1>5, <3>1, Sizes
      <3>3. Cardinality(Below(j)) <= Excused
        BY <1>6, <1>10
      <3>4. QED
        BY <1>2, <1>7, <3>2, <3>3
    <2>2. Cardinality(Holes') \in Nat /\ Cardinality(Holes') <= Cardinality(Holes)
      BY <1>5, <1>10, Sizes
    <2>3. QED
      BY <1>2, <1>6, <1>7, <1>10, <2>1, <2>2
  <1>11. ASSUME NEW c, Holes' \subseteq Holes \cup {c}, Gone' # {} => Gone # {}, Excused' = Excused + 1,
                \A j \in Names : dir'[j] # None => dir[j] # None
         PROVE  /\ \A j \in Names : dir'[j] # None => Cardinality(BelowAfter(j)) <= Excused'
                /\ Gone' # {} => Cardinality(Holes') <= Excused'
    <2>1. ASSUME NEW j \in Names, dir'[j] # None PROVE Cardinality(BelowAfter(j)) <= Excused'
      <3>1. BelowAfter(j) \subseteq Below(j) \cup {c}
        BY <1>11 DEF Below, BelowAfter
      <3>2. Cardinality(BelowAfter(j)) \in Nat /\ Cardinality(BelowAfter(j)) <= Cardinality(Below(j)) + 1
        BY <1>5, <3>1, Sizes
      <3>3. Cardinality(Below(j)) <= Excused
        BY <1>6, <1>11, <2>1
      <3>4. QED
        BY <1>2, <1>7, <1>11, <3>2, <3>3
    <2>2. Cardinality(Holes') \in Nat /\ Cardinality(Holes') <= Cardinality(Holes) + 1
      BY <1>5, <1>11, Sizes
    <2>3. QED
      BY <1>2, <1>6, <1>7, <1>11, <2>1, <2>2
  <1>12. Gone' # {} => Gone # {} \/ Drops \/ Truncates
    BY NextGone
  <1>13. CASE RemoveOld
    <2>1. rot.at = "remove" /\ rot' = At("rename", rot.i) /\ ~Truncates
      BY <1>13 DEF RemoveOld, Truncates, Reopen
    <2>2. Bubble = {rot.i} /\ Bubble' = {rot.i}
      BY <1>8, <2>1 DEF Rotating, At
    <2>3. \A i \in Names : i # rot.i => dir'[i] = dir[i]
      BY <1>13, NamesAfter
    <2>4. Holes' \subseteq Holes
      BY <1>4, <2>2, <2>3
    <2>5. Drops => Cardinality(Holes) <= Excused
      BY <1>4, <1>9, <2>2 DEF Drops
    <2>6. \A j \in Names : dir'[j] # None => dir[j] # None
      BY <1>13, NamesAfter
    <2> DEFINE J == {j \in Names : dir'[j] # None}
    <2>7. \A j \in J : j \in Names /\ dir[j] # None
      BY <2>6
    <2>8. \A j \in J : Cardinality(BelowAfter(j)) <= Excused'
      <3> HIDE DEF J
      <3> QED
        BY <1>10, <1>12, <2>1, <2>4, <2>5, <2>7
    <2>9. Gone' # {} => Cardinality(Holes') <= Excused'
      <3> HIDE DEF J
      <3> QED
        BY <1>10, <1>12, <2>1, <2>4, <2>5, <2>7
    <2>10. QED
      BY <2>8, <2>9
  <1>14. CASE RenamePrev
    <2>o. PICK o \in Names : o = rot.i
      BY <1>3
    <2>1. /\ o \in 1 .. MaxBak /\ o - 1 \in Names /\ dir'[o - 1] = None
          /\ dir'[o] = IF dir[o - 1] = None THEN dir[o] ELSE dir[o - 1]
          /\ rot' = AfterRename(o) /\ rot.at = "rename" /\ ~Truncates
      BY <1>14, <2>o, RenameFrees DEF RenamePrev, Truncates, Reopen
    <2>2. \A i \in Names : i # o /\ i # o - 1 => dir'[i] = dir[i]
      BY <1>14, <2>o, NamesAfter
    <2>3. Bubble = {o} /\ Bubble' = {o - 1}
      <3>1. rot'.at \in Rotating /\ rot'.i = o - 1
        BY <2>1, Steps DEF At, Rotating
      <3>2. QED
        BY <1>8, <2>o, <2>1, <3>1 DEF Rotating
    <2>4. o \in Nat /\ o - 1 \in Nat /\ o - 1 < o /\ o - 1 # o
      BY <2>1
    <2>5. Drops => Cardinality(Holes) <= Excused
      BY <1>4, <1>9, <2>o, <2>3 DEF Drops
    <2>6. CASE dir[o - 1] # None
      <3>1. Holes' \subseteq Holes
        BY <1>4, <2>1, <2>2, <2>3, <2>6
      <3> DEFINE J == {j \in Names : dir'[j] # None} \ {o}
      <3>2. \A j \in J : j \in Names /\ dir[j] # None
        BY <2>1, <2>2
      <3>3. \A j \in J : Cardinality(BelowAfter(j)) <= Excused'
        <4> HIDE DEF J
        <4> QED
          BY <1>10, <1>12, <2>1, <2>5, <3>1, <3>2
      <3>4. Gone' # {} => Cardinality(Holes') <= Excused'
        <4> HIDE DEF J
        <4> QED
          BY <1>10, <1>12, <2>1, <2>5, <3>1, <3>2
      <3>5. Cardinality(BelowAfter(o)) <= Excused'
        <4>1. o - 1 \notin Holes /\ \A i \in Names : i < o /\ i # o - 1 => i < o - 1
          BY <1>3, <1>4, <2>4, <2>6
        <4>2. BelowAfter(o) \subseteq Below(o - 1)
          BY <1>4, <3>1, <4>1 DEF BelowAfter, Below
        <4>3. Cardinality(BelowAfter(o)) \in Nat /\ Cardinality(BelowAfter(o)) <= Cardinality(Below(o - 1))
          BY <1>5, <4>2, Sizes
        <4>4. Cardinality(Below(o - 1)) <= Excused
          BY <1>6, <2>1, <2>6
        <4>5. QED
          BY <1>2, <1>7, <4>3, <4>4
      <3>6. QED
        BY <3>3, <3>4, <3>5
    <2>7. CASE dir[o - 1] = None
      <3>1. o - 1 \in Holes /\ Holes' \subseteq (Holes \ {o - 1}) \cup {o}
        BY <1>4, <2>1, <2>2, <2>3, <2>4, <2>7
      <3>2. \A i \in Names : dir'[i] = dir[i]
        BY <2>1, <2>2, <2>7
      <3>3. ASSUME NEW j \in Names, dir'[j] # None PROVE Cardinality(BelowAfter(j)) <= Excused'
        <4>1. dir[j] # None /\ j # o - 1 /\ j \in Nat
          BY <1>3, <2>7, <3>2, <3>3
        <4>2. CASE j > o
          <5>1. o - 1 \in Below(j) /\ BelowAfter(j) \subseteq (Below(j) \ {o - 1}) \cup {o}
            BY <2>4, <3>1, <4>1, <4>2 DEF Below, BelowAfter
          <5>2. Cardinality(BelowAfter(j)) \in Nat /\ Cardinality(BelowAfter(j)) <= Cardinality(Below(j))
            BY <1>5, <5>1, Sizes
          <5>3. QED
            BY <1>2, <1>6, <1>7, <4>1, <5>2
        <4>3. CASE j <= o
          <5>1. BelowAfter(j) \subseteq Below(j)
            BY <1>3, <1>4, <2>4, <3>1, <4>1, <4>3 DEF Below, BelowAfter
          <5>2. Cardinality(BelowAfter(j)) \in Nat /\ Cardinality(BelowAfter(j)) <= Cardinality(Below(j))
            BY <1>5, <5>1, Sizes
          <5>3. QED
            BY <1>2, <1>6, <1>7, <4>1, <5>2
        <4>4. QED
          BY <2>4, <4>1, <4>2, <4>3
      <3>4. ASSUME Gone' # {} PROVE Cardinality(Holes') <= Excused'
        <4>1. Cardinality(Holes') \in Nat /\ Cardinality(Holes') <= Cardinality(Holes)
          BY <1>5, <3>1, Sizes
        <4>2. Cardinality(Holes) <= Excused
          BY <1>6, <1>12, <2>1, <2>5, <3>4
        <4>3. QED
          BY <1>2, <1>7, <4>1, <4>2
      <3>5. QED
        BY <3>3, <3>4
    <2>8. QED
      BY <2>6, <2>7
  <1>15. CASE (Reopen(Free) \/ NewRotatingFile(Free)) /\ handle = None /\ (Reopen(Free) \/ rot = Quiet)
    <2>1. /\ \A i \in Names : i # 0 => dir'[i] = dir[i]
          /\ dir'[0] # None
          /\ rot'.at \notin Rotating /\ Bubble \subseteq {0}
      <3>1. /\ \A i \in Names : i # 0 => dir'[i] = dir[i]
            /\ dir'[0] = IF dir[0] = None THEN Free ELSE dir[0]
        BY <1>15, NamesAfter
      <3>2. dir[0] = None => Free \in Inodes
        BY <1>15, FreeFile
      <3>3. rot'.at \notin Rotating
        BY <1>15 DEF Reopen, NewRotatingFile, At, Quiet, Rotating
      <3>4. rot.i = 0
        BY <1>15 DEF Reopen, ControlInv, Quiet
      <3>5. QED
        BY <1>8, <3>1, <3>2, <3>3, <3>4
    <2>2. Holes' \subseteq Holes
      BY <1>4, <1>8, <2>1
    <2>3. ~Drops
      <3>1. rot.at = "open" \/ rot.at = "none"
        BY <1>15 DEF Reopen, Quiet
      <3>2. QED
        BY <3>1 DEF Drops, RemoveOld, RenamePrev
    <2>4. Truncates => Cardinality(Holes) <= Excused
      <3> SUFFICES ASSUME Truncates PROVE Cardinality(Holes) <= Excused
        OBVIOUS
      <3>1. MaxBak = 0 /\ rot.at = "open"
        BY DEF Truncates, Reopen
      <3>2. Holes = {}
        <4>1. Bubble = {0}
          BY <1>8, <3>1 DEF ControlInv, Rotating
        <4>2. QED
          BY <1>4, <3>1, <4>1 DEF Names
      <3>3. QED
        BY <1>2, <3>2, FS_EmptySet
    <2> DEFINE J == {j \in Names : dir'[j] # None} \ {0}
    <2>5. \A j \in J : j \in Names /\ dir[j] # None
      BY <2>1
    <2>6. \A j \in J : Cardinality(BelowAfter(j)) <= Excused'
      <3> HIDE DEF J
      <3> QED
        BY <1>10, <1>12, <2>2, <2>3, <2>4, <2>5
    <2>7. Gone' # {} => Cardinality(Holes') <= Excused'
      <3> HIDE DEF J
      <3> QED
        BY <1>10, <1>12, <2>2, <2>3, <2>4, <2>5
    <2>8. Cardinality(BelowAfter(0)) <= Excused'
      <3>1. BelowAfter(0) = {}
        <4>1. \A i \in Names : ~(i < 0)
          BY <1>3
        <4>2. QED
          BY <1>4, <4>1 DEF BelowAfter
      <3>2. QED
        BY <1>2, <3>1, FS_EmptySet
    <2>9. QED
      BY <2>6, <2>7, <2>8
  <1>16. CASE ArchiveAuditFile /\ Excused' = Excused + 1
    <2>1. /\ \A i \in Names : i # 0 => dir'[i] = dir[i]
          /\ dir'[0] = None /\ dir[0] # None /\ rot' = rot /\ archived' # archived
      <3>1. dir'[0] = None /\ dir[0] # None /\ rot' = rot /\ archived' = archived \cup {dir[0]}
        BY <1>16, NamesAfter DEF ArchiveAuditFile
      <3>2. QED
        BY <1>3, <1>16, <3>1, NamesAfter DEF NamesInv
    <2>2. Bubble' = Bubble
      BY <1>8, <2>1
    <2>3. Holes' \subseteq Holes \cup {0}
      BY <1>4, <2>1, <2>2
    <2>4. ~Drops /\ ~Truncates
      BY <2>1 DEF Drops, Truncates, RemoveOld, RenamePrev, Reopen
    <2>5. \A j \in Names : dir'[j] # None => dir[j] # None
      BY <2>1
    <2>6. QED
      BY <1>11, <1>12, <1>16, <2>3, <2>4, <2>5
  <1>17. CASE dir' = dir /\ Holes' \subseteq Holes /\ ~RemoveOld /\ ~RenamePrev /\ ~Reopen(Free)
    <2>1. Gone' # {} => Gone # {}
      BY <1>12, <1>17 DEF Drops, Truncates
    <2> DEFINE J == {j \in Names : dir[j] # None}
    <2>2. \A j \in J : j \in Names /\ dir[j] # None
      OBVIOUS
    <2>3. \A j \in J : Cardinality(BelowAfter(j)) <= Excused'
      <3> HIDE DEF J
      <3> QED
        BY <1>10, <1>17, <2>1, <2>2
    <2>4. Gone' # {} => Cardinality(Holes') <= Excused'
      <3> HIDE DEF J
      <3> QED
        BY <1>10, <1>17, <2>1, <2>2
    <2>5. QED
      BY <1>17, <2>3, <2>4
  <1>18. CASE /\ dir' = dir /\ Holes' \subseteq Holes \cup {rot.i} /\ Excused' = Excused + 1
              /\ ~RemoveOld /\ ~RenamePrev /\ ~Reopen(Free)
    <2>1. Gone' # {} => Gone # {}
      BY <1>12, <1>18 DEF Drops, Truncates
    <2>2. QED
      BY <1>11, <1>18, <2>1
  <1>19. Reopen(Free) => handle = None
    BY DEF Reopen, NamesInv, Rotating
  <1>20. QED
    BY <1>13, <1>14, <1>15, <1>16, <1>17, <1>18, <1>19, HolesMove

-------------------------------------------------------------------------------
(* A query *)

\* The file a query reads is only ever appended to.
LEMMA QueriedFile ==
  ASSUME TypeOK, ControlInv, NamesInv, FreeInv, [Next]_vars, NoRenameFailed', MaxBak > 0,
         NEW n \in Inodes, n = query.file
  PROVE  /\ Len(data[n]) \in Nat /\ Len(data'[n]) \in Nat /\ Len(data[n]) <= Len(data'[n])
         /\ \A p \in 1 .. Len(data[n]) : data'[n][p] = data[n][p]
         /\ \A e, f : Older(e, f) => Older(e, f)'
  <1> USE RotatingFileAssumption
  <1>1. data \in [Inodes -> Seq(Line)] /\ data[n] \in Seq(Line) /\ Len(data[n]) \in Nat /\ acked \in Seq(Nat)
    BY DEF TypeOK, FileTypes, StoreTypes
  <1>2. ASSUME data'[n] = data[n]
        PROVE  /\ Len(data[n]) \in Nat /\ Len(data'[n]) \in Nat /\ Len(data[n]) <= Len(data'[n])
               /\ \A p \in 1 .. Len(data[n]) : data'[n][p] = data[n][p]
    BY <1>1, <1>2
  <1>3. ASSUME acked' = acked PROVE \A e, f : Older(e, f) => Older(e, f)'
    BY <1>3 DEF Older
  <1>4. CASE Resting /\ data' = data /\ acked' = acked
    BY <1>2, <1>3, <1>4
  <1>5. CASE (RemoveOld \/ RenamePrev \/ ArchiveAuditFile) /\ acked' = acked
    <2>1. data' = data
      BY <1>5 DEF RemoveOld, RenamePrev, ArchiveAuditFile
    <2>2. QED
      BY <1>2, <1>3, <1>5, <2>1
  <1>6. CASE (Reopen(Free) \/ NewRotatingFile(Free)) /\ handle = None /\ acked' = acked
    <2>1. Reopen(Free) => dir[0] = None
      BY NoRenameBefore DEF Reopen, FreeInv
    <2>2. CASE dir[0] = None
      <3>1. Free \in Inodes /\ Free # n /\ data' = [data EXCEPT ![Free] = <<>>]
        BY <1>6, <2>2, FreeFile DEF Reopen, NewRotatingFile
      <3>2. data'[n] = data[n]
        BY <1>1, <3>1
      <3>3. QED
        BY <1>2, <1>3, <1>6, <3>2
    <2>3. CASE dir[0] # None
      <3>1. data' = data
        BY <1>6, <2>1, <2>3 DEF NewRotatingFile
      <3>2. QED
        BY <1>2, <1>3, <1>6, <3>1
    <2>4. QED
      BY <2>2, <2>3
  <1>7. ASSUME NEW r \in Recorders, Acknowledges(r) \/ Breaks(r)
        PROVE  /\ Len(data[n]) \in Nat /\ Len(data'[n]) \in Nat /\ Len(data[n]) <= Len(data'[n])
               /\ \A p \in 1 .. Len(data[n]) : data'[n][p] = data[n][p]
               /\ \A e, f : Older(e, f) => Older(e, f)'
    <2>1. PICK l : WritesLine(r, l)
      BY <1>7 DEF Acknowledges, Breaks
    <2>2. handle \in Inodes /\ l \in Line /\ Appended(handle, l)
      BY <2>1 DEF WritesLine
    <2>3. /\ Len(data[n]) \in Nat /\ Len(data'[n]) \in Nat /\ Len(data[n]) <= Len(data'[n])
          /\ \A p \in 1 .. Len(data[n]) : data'[n][p] = data[n][p]
      <3>1. CASE n = handle
        <4>1. data'[n] = Append(data[n], l)
          BY <2>2, <3>1, AppendedLines DEF TypeOK
        <4>2. QED
          BY <1>1, <2>2, <4>1
      <3>2. CASE n # handle
        <4>1. data'[n] = data[n]
          BY <2>2, <3>2, AppendedLines DEF TypeOK
        <4>2. QED
          BY <1>2, <4>1
      <3>3. QED
        BY <3>1, <3>2
    <2>4. \A e, f : Older(e, f) => Older(e, f)'
      <3>1. acked' = acked \/ (acked' = Append(acked, rec[r].ev) /\ rec[r].ev \in Nat)
        BY <1>7 DEF Acknowledges, Breaks, TypeOK, StoreTypes, RecordCalls
      <3>2. CASE acked' = Append(acked, rec[r].ev) /\ rec[r].ev \in Nat
        <4>1. /\ DOMAIN acked = 1 .. Len(acked) /\ Len(acked) \in Nat
              /\ DOMAIN acked' = 1 .. Len(acked) + 1
              /\ \A a \in DOMAIN acked : acked'[a] = acked[a]
          BY <1>1, <3>2, AckedAppend
        <4>2. DOMAIN acked \subseteq DOMAIN acked'
          BY <4>1
        <4>3. QED
          BY <4>1, <4>2 DEF Older
      <3>3. QED
        BY <1>3, <3>1, <3>2
    <2>5. QED
      BY <2>3, <2>4
  <1>8. QED
    BY <1>4, <1>5, <1>6, <1>7, Moves

\* A query goes on as it was, ends, begins or takes a line.
LEMMA QueryMove ==
  ASSUME [Next]_vars
  PROVE  query' = query \/ query' = NoQuery \/ QueryOpen \/ QueryLine
  <1>1. CASE Rotate \/ Seal \/ UNCHANGED vars
    BY <1>1 DEF Rotate, Seal, vars, storeVars
  <1>2. CASE \E r \in Recorders : Record(r) \/ Sign(r) \/ Lock(r) \/ Ack(r) \/ Fail(r)
    BY <1>2 DEF Record, Sign, Lock, Ack, Fail
  <1>3. CASE Close \/ Crash \/ NewSupervisionStore \/ Archive \/ QueryEnd
    BY <1>3 DEF Close, Crash, NewSupervisionStore, Archive, QueryEnd
  <1>4. QED
    BY <1>1, <1>2, <1>3 DEF Next

\* Every step keeps what a query has found.
LEMMA NextQuery ==
  TypeOK /\ ControlInv /\ NamesInv /\ FreeInv /\ OrderInv /\ QueryInv /\ [Next]_vars => QueryInv'
  <1> DEFINE Found(file, q) ==
               /\ q.pos <= Len(file)
               /\ \A k \in DOMAIN q.out : \E p \in 1 .. q.pos : Readable(file, p) /\ file[p].ev = q.out[k]
               /\ \A p \in 1 .. q.pos : Readable(file, p) /\ file[p].ev \in q.want =>
                    \E k \in DOMAIN q.out : q.out[k] = file[p].ev
  <1> SUFFICES ASSUME TypeOK, ControlInv, NamesInv, FreeInv, OrderInv, QueryInv, [Next]_vars,
                      MaxBak > 0, NoRenameFailed', query'.file # None
               PROVE  /\ Found(data'[query'.file], query')
                      /\ \A k, l \in DOMAIN query'.out : k < l => Older(query.out[k], query.out[l])'
    BY DEF QueryInv
  <1>1. NoRenameFailed /\ query \in QueryCalls /\ data \in [Inodes -> Seq(Line)] /\ 0 \in Names
    BY NoRenameBefore, RotatingFileAssumption DEF TypeOK, StoreTypes, FileTypes, Names
  <1>2. ASSUME query.file # None
        PROVE  /\ Found(data[query.file], query)
               /\ \A k, l \in DOMAIN query.out : k < l => Older(query.out[k], query.out[l])
    BY <1>1, <1>2 DEF QueryInv
  <1>3. NoQuery.file = None
    BY DEF NoQuery
  <1>4. CASE query' = query
    <2>1. PICK n \in Inodes : n = query.file
      BY <1>1, <1>4 DEF QueryCalls
    <2>2. PICK q \in QueryCalls : q = query
      BY <1>1
    <2>3. Found(data[n], q) /\ \A k, l \in DOMAIN q.out : k < l => Older(q.out[k], q.out[l])
      BY <1>2, <1>4, <2>1, <2>2
    <2>4. /\ Len(data[n]) \in Nat /\ Len(data'[n]) \in Nat /\ Len(data[n]) <= Len(data'[n])
          /\ \A p \in 1 .. Len(data[n]) : data'[n][p] = data[n][p]
          /\ \A e, f : Older(e, f) => Older(e, f)'
      BY <2>1, QueriedFile
    <2>5. q.pos \in Nat
      BY <2>2 DEF QueryCalls
    <2>6. \A p \in 1 .. q.pos : data'[n][p] = data[n][p] /\ (Readable(data'[n], p) <=> Readable(data[n], p))
      <3>1. \A p \in 1 .. q.pos : p \in 1 .. Len(data[n]) /\ (p = 1 \/ p - 1 \in 1 .. Len(data[n]))
        BY <2>3, <2>4, <2>5
      <3>2. QED
        BY <2>4, <3>1 DEF Readable
    <2>7. Found(data'[n], q)
      BY <2>3, <2>4, <2>5, <2>6, SMTT(30)
    <2>8. \A k, l \in DOMAIN q.out : k < l => Older(q.out[k], q.out[l])'
      BY <2>3, <2>4
    <2>9. QED
      BY <1>4, <2>1, <2>2, <2>7, <2>8
  <1>5. CASE QueryOpen
    <2>1. PICK want \in Filters : query' = [NoQuery EXCEPT !.file = dir[0], !.want = want]
      BY <1>5 DEF QueryOpen
    <2>2. query'.pos = 0 /\ query'.out = <<>> /\ query'.file = dir[0] /\ dir[0] \in Inodes /\ data' = data
      BY <1>1, <1>5, <2>1 DEF QueryOpen, NoQuery, TypeOK, FileTypes, fileVars
    <2>3. Len(data[dir[0]]) \in Nat
      BY <1>1, <2>2
    <2>4. DOMAIN query'.out = {} /\ \A p \in 1 .. 0 : FALSE
      BY <2>2
    <2>5. QED
      BY <2>2, <2>3, <2>4
  <1>6. CASE QueryLine
    <2>1. PICK n \in Inodes : n = query.file /\ query.file # None
      BY <1>1, <1>6 DEF QueryLine, QueryCalls
    <2>2. PICK q \in QueryCalls : q = query
      BY <1>1
    <2>3. PICK file \in Seq(Line) : file = data[n]
      BY <1>1
    <2> DEFINE i == q.pos + 1
               takes == Readable(file, i) /\ file[i].ev \in q.want
               more == IF takes THEN Append(q.out, file[i].ev) ELSE q.out
    <2>4. /\ i <= Len(file) /\ data' = data /\ acked' = acked
          /\ query' = [q EXCEPT !.pos = i, !.out = more]
      BY <1>6, <2>1, <2>2, <2>3 DEF QueryLine, fileVars
    <2>5. q.pos \in Nat /\ q.out \in Seq(Nat) /\ Len(file) \in Nat /\ q.want = query.want
      BY <2>2, <2>3 DEF QueryCalls
    <2>6. i \in Nat /\ i > 0 /\ i \in DOMAIN file
      BY <2>3, <2>4, <2>5
    <2>7. file[i].ev \in Nat
      <3>1. file[i] \in Line
        BY <2>3, <2>6
      <3>2. QED
        BY <3>1 DEF Line
    <2>8. Found(file, q) /\ \A k, l \in DOMAIN q.out : k < l => Older(q.out[k], q.out[l])
      BY <1>2, <2>1, <2>2, <2>3
    <2>9. query'.pos = i /\ query'.out = more /\ query'.file = n /\ query'.want = q.want
      BY <2>1, <2>2, <2>4 DEF QueryCalls
    <2>10. \A p : p \in 1 .. i <=> p \in 1 .. q.pos \/ p = i
      BY <2>5, <2>6
    <2>11. \A p \in 1 .. q.pos : p < i /\ p \in DOMAIN file
      BY <2>3, <2>5, <2>6
    <2>12. Ordered(n)
      BY DEF OrderInv
    <2>13. CASE ~takes
      <3>1. more = q.out
        BY <2>13
      <3>2. Found(file, query')
        BY <2>4, <2>8, <2>9, <2>10, <2>13, <3>1
      <3> HIDE DEF more, takes
      <3>3. \A k, l \in DOMAIN query'.out : k < l => Older(query.out[k], query.out[l])'
        <4>1. \A k, l \in DOMAIN q.out : k < l => Older(q.out[k], q.out[l])
          BY <2>8
        <4>2. query'.out = q.out /\ acked' = acked
          BY <2>4, <2>9, <3>1
        <4>3. QED
          BY <4>1, <4>2 DEF Older
      <3>4. data'[query'.file] = file
        BY <2>3, <2>4, <2>9
      <3> HIDE DEF Found
      <3>5. QED
        BY <3>2, <3>3, <3>4
    <2>14. CASE takes
      <3>1. /\ Len(q.out) \in Nat /\ DOMAIN q.out = 1 .. Len(q.out)
            /\ DOMAIN more = 1 .. Len(q.out) + 1
            /\ \A k \in DOMAIN q.out : more[k] = q.out[k]
            /\ more[Len(q.out) + 1] = file[i].ev
        BY <2>5, <2>7, <2>14
      <3>2. \A k : k \in DOMAIN more <=> k \in DOMAIN q.out \/ k = Len(q.out) + 1
        BY <3>1
      <3> HIDE DEF more
      <3>3. \A k \in DOMAIN more : \E p \in 1 .. i : Readable(file, p) /\ file[p].ev = more[k]
        BY <2>8, <2>10, <2>14, <3>1, <3>2
      <3>4. \A p \in 1 .. i : Readable(file, p) /\ file[p].ev \in q.want =>
              \E k \in DOMAIN more : more[k] = file[p].ev
        BY <2>8, <2>10, <3>1, <3>2
      <3>5. Found(file, query')
        BY <2>4, <2>9, <3>3, <3>4
      <3>6. ASSUME NEW k \in DOMAIN more, NEW l \in DOMAIN more, k < l PROVE Older(more[k], more[l])
        <4>1. k \in DOMAIN q.out /\ more[k] = q.out[k]
          BY <3>1, <3>6
        <4>2. CASE l \in DOMAIN q.out
          BY <2>8, <3>1, <3>6, <4>1, <4>2
        <4>3. CASE l = Len(q.out) + 1
          <5>1. PICK p \in 1 .. q.pos : Readable(file, p) /\ file[p].ev = q.out[k]
            BY <2>8, <4>1
          <5>2. file[p].whole /\ file[i].whole /\ p < i /\ p \in DOMAIN file
            BY <2>11, <2>14, <5>1 DEF Readable
          <5>3. Older(file[p].ev, file[i].ev)
            BY <2>3, <2>6, <2>12, <5>2 DEF Ordered
          <5>4. QED
            BY <3>1, <4>1, <4>3, <5>1, <5>3
        <4>4. QED
          BY <3>2, <4>2, <4>3
      <3>7. \A k, l \in DOMAIN query'.out : k < l => Older(query.out[k], query.out[l])'
        BY <2>4, <2>9, <3>6 DEF Older
      <3>8. QED
        BY <2>3, <2>4, <2>9, <3>5, <3>7
    <2>15. QED
      BY <2>13, <2>14
  <1>7. QED
    BY <1>3, <1>4, <1>5, <1>6, QueryMove

-------------------------------------------------------------------------------
(* The initial states *)

\* What an earlier process left satisfies the invariant.
LEMMA InitInv == Init => StoreInv
  <1> SUFFICES ASSUME Init PROVE StoreInv
    OBVIOUS
  <1> USE RotatingFileAssumption
  <1>1. PICK s \in Scenarios :
          /\ data = s.data /\ dir = s.dir /\ archived = {} /\ handle = None /\ size = 0
          /\ rot = Quiet /\ failed = s.failed
          /\ up = FALSE /\ rec = [r \in Recorders |-> Idle] /\ writer = None
          /\ acked = s.acked /\ stamp = s.stamp /\ query = NoQuery
          /\ crashes = 0 /\ left = s.left
    BY DEF Init
  <1>2. LeftBehind(s) /\ (IsFiniteSet(Inodes) => MaxBak + s.left.archives + 2 <= Cardinality(Inodes))
    BY SupervisionStoreAssumption
  <1> DEFINE named == {i \in Names : dir[i] # None}
             places == {q \in named \X (1 .. stamp) : q[2] \in DOMAIN data[dir[q[1]]] /\ ~data[dir[q[1]]][q[2]].whole}
  <1>3. /\ data \in [Inodes -> Seq(Line)] /\ dir \in [Names -> Inodes \cup {None}]
        /\ stamp \in Nat /\ acked \in Seq(1 .. stamp)
        /\ failed \in [Calls -> Nat] /\ left \in Budgets
        /\ \A i, j \in named : dir[i] = dir[j] => i = j
        /\ \A i, j \in Names : i < j /\ j \in named => i \in named
        /\ \A n \in Inodes \ {dir[i] : i \in named} : data[n] = <<>>
        /\ \A a, b \in DOMAIN acked : acked[a] = acked[b] => a = b
        /\ \A a \in DOMAIN acked : \E i \in named : \E p \in DOMAIN data[dir[i]] : data[dir[i]][p].ev = acked[a]
        /\ \A i \in named : \A p \in DOMAIN data[dir[i]] :
             /\ p <= stamp /\ data[dir[i]][p].ev <= stamp
             /\ data[dir[i]][p].whole <=> \E a \in DOMAIN acked : acked[a] = data[dir[i]][p].ev
        /\ \A a, b \in DOMAIN acked : a <= b =>
             \A i, j \in named : \A p \in DOMAIN data[dir[i]], q \in DOMAIN data[dir[j]] :
               data[dir[i]][p].ev = acked[a] /\ data[dir[j]][q].ev = acked[b] => i > j \/ (i = j /\ p <= q)
        /\ Cardinality(places) <= failed["write"]
    <2>1. LeftBehind(s)
      BY <1>2
    <2>2. /\ s.data = data /\ s.dir = dir /\ s.stamp = stamp /\ s.acked = acked
          /\ s.failed = failed /\ s.left = left
      BY <1>1
    <2>3. QED
      BY <2>1, <2>2 DEF LeftBehind, Budgets
  <1>4. acked \in Seq(Nat) /\ DOMAIN acked \subseteq Nat /\ \A a \in DOMAIN acked : acked[a] \in 1 .. stamp
    BY <1>3
  <1>5. IsFiniteSet({}) /\ Cardinality({}) = 0
    BY FS_EmptySet
  <1>6. TypeOK
    <2>1. FileTypes
      BY <1>1, <1>3, <1>5, Places DEF FileTypes
    <2>2. up \in BOOLEAN
      BY <1>1
    <2>3. rec \in [Recorders -> RecordCalls] /\ query \in QueryCalls /\ writer = None /\ crashes \in Nat
      BY <1>1, Idles
    <2>4. StoreTypes
      BY <1>3, <1>4, <2>2, <2>3 DEF StoreTypes
    <2>5. QED
      BY <2>1, <2>4 DEF TypeOK
  <1>7. ControlInv
    BY <1>1, Idles DEF ControlInv, Quiet, Idle
  <1>8. NamesInv /\ FreeInv
    <2>1. rot.at = "none"
      BY <1>1 DEF Quiet
    <2>2. FreeInv
      BY <2>1 DEF FreeInv
    <2>3. IsFiniteSet(Inodes) => MaxBak + left.archives + Cardinality(archived) + 2 <= Cardinality(Inodes)
      <3> SUFFICES ASSUME IsFiniteSet(Inodes)
                   PROVE  MaxBak + left.archives + Cardinality(archived) + 2 <= Cardinality(Inodes)
        OBVIOUS
      <3>1. Cardinality(archived) = 0 /\ left.archives \in Nat /\ Cardinality(Inodes) \in Nat
        BY <1>1, <1>3, <1>5, FS_CardinalityType DEF Budgets
      <3>2. MaxBak + left.archives + 2 <= Cardinality(Inodes)
        BY <1>1, <1>2
      <3>3. QED
        BY <3>1, <3>2
    <2>4. \A i, j \in Names : dir[i] # None /\ dir[i] = dir[j] => i = j
      BY <1>3
    <2>5. rot.at \notin Rotating /\ \A i \in Names : dir[i] \notin archived
      BY <1>1, <2>1 DEF Rotating
    <2>6. QED
      BY <1>1, <2>2, <2>3, <2>4, <2>5 DEF NamesInv
  <1>9. \A n \in Inodes : \A p \in DOMAIN data[n] : \E i \in named : n = dir[i]
    <2>1. \A n \in Inodes : data[n] = <<>> \/ \E i \in named : n = dir[i]
      BY <1>3
    <2>2. QED
      BY <2>1
  <1>10. \A e : e \in Acked <=> \E a \in DOMAIN acked : acked[a] = e
    BY DEF Acked
  <1>11. EventsInv
    <2>1. \A e \in Acked : e <= stamp
      BY <1>3, <1>4, <1>10
    <2>2. \A n \in Inodes : \A p \in DOMAIN data[n] :
            data[n][p].ev <= stamp /\ (data[n][p].whole <=> data[n][p].ev \in Acked)
      BY <1>3, <1>9, <1>10
    <2>3. \A r \in Recorders : rec[r].pc = "idle"
      BY <1>1 DEF Idle
    <2>4. QED
      BY <1>3, <2>1, <2>2, <2>3 DEF EventsInv
  <1> DEFINE At2(e, i, p) == i \in named /\ p \in DOMAIN data[dir[i]] /\ data[dir[i]][p].ev = e
  <1>12. \A e, f \in Acked : \A i, p, j, q : (e = f \/ Older(e, f)) /\ At2(e, i, p) /\ At2(f, j, q)
            => i > j \/ (i = j /\ p <= q)
    <2> SUFFICES ASSUME NEW e \in Acked, NEW f \in Acked, NEW i, NEW p, NEW j, NEW q,
                        e = f \/ Older(e, f), At2(e, i, p), At2(f, j, q)
                 PROVE  i > j \/ (i = j /\ p <= q)
      OBVIOUS
    <2>1. PICK a, b \in DOMAIN acked : a <= b /\ acked[a] = e /\ acked[b] = f
      <3>1. CASE e = f
        BY <1>4, <1>10, <3>1
      <3>2. CASE Older(e, f)
        BY <1>4, <3>2 DEF Older
      <3>3. QED
        BY <3>1, <3>2
    <2>2. QED
      BY <1>3, <2>1, SMTT(30)
  <1>13. \A e \in Acked : \E i, p : At2(e, i, p)
    BY <1>3, <1>10, SMTT(30)
  <1>14. \A i \in named : dir[i] \in Inodes /\ i \in Nat /\ DOMAIN data[dir[i]] \subseteq Nat
    <2>1. \A i \in named : dir[i] \in Inodes /\ i \in Nat
      BY <1>3 DEF Names
    <2>2. \A i \in named : data[dir[i]] \in Seq(Line)
      BY <1>3, <2>1
    <2>3. QED
      BY <2>1, <2>2
  <1>15. \A i \in named : \A e : e \in Events(dir[i]) <=> \E p : At2(e, i, p) /\ e \in Acked
    BY <1>3, <1>10 DEF Events
  <1>16. \A n \in Inodes : \A e \in Events(n) : \E i \in named : n = dir[i]
    BY <1>9 DEF Events
  <1>17. /\ \A e, f \in Acked : e # f => Older(e, f) \/ Older(f, e)
         /\ \A e, f : Older(e, f) => e \in Acked /\ f \in Acked
    BY <1>4, <1>11, OlderOrder
  <1>18. \A i \in named : \A p \in DOMAIN data[dir[i]] :
           data[dir[i]][p].whole => At2(data[dir[i]][p].ev, i, p) /\ data[dir[i]][p].ev \in Acked
    BY <1>3, <1>10
  <1> HIDE DEF At2, named
  <1>19. \A e, i, p : At2(e, i, p) => i \in named /\ i \in Nat /\ p \in Nat
    BY <1>14 DEF At2
  <1>20. ASSUME NEW n \in Inodes PROVE Ordered(n) /\ Stretch(n)
    <2>1. ASSUME NEW p \in DOMAIN data[n], NEW q \in DOMAIN data[n], p < q, data[n][p].whole, data[n][q].whole
          PROVE  Older(data[n][p].ev, data[n][q].ev)
      <3>1. PICK i \in named : n = dir[i]
        BY <1>9
      <3>2. /\ At2(data[n][p].ev, i, p) /\ data[n][p].ev \in Acked
            /\ At2(data[n][q].ev, i, q) /\ data[n][q].ev \in Acked
        BY <1>18, <2>1, <3>1
      <3>3. ~(i > i \/ (i = i /\ q <= p))
        BY <1>19, <2>1, <3>2
      <3>4. QED
        BY <1>12, <1>17, <3>2, <3>3
    <2>2. ASSUME NEW e \in Events(n), NEW f \in Events(n), NEW g \in Acked, Older(e, g), Older(g, f)
          PROVE  g \in Events(n)
      <3>1. PICK i \in named : n = dir[i]
        BY <1>16
      <3>2. PICK p, q, k, m : At2(e, i, p) /\ At2(f, i, q) /\ At2(g, k, m)
        BY <1>13, <1>15, <3>1
      <3>3. (i > k \/ i = k) /\ (k > i \/ k = i)
        BY <1>12, <1>17, <2>2, <3>2
      <3>4. i = k
        BY <1>19, <3>2, <3>3
      <3>5. QED
        BY <1>15, <3>1, <3>2, <3>4
    <2>3. QED
      BY <2>1, <2>2 DEF Ordered, Stretch
  <1>21. 0 \in named => Latest(dir[0])
    <2> SUFFICES ASSUME 0 \in named, NEW e \in Events(dir[0]), NEW g \in Acked, Older(e, g)
                 PROVE  g \in Events(dir[0])
      BY DEF Latest
    <2>1. PICK p, k, m : At2(e, 0, p) /\ At2(g, k, m)
      BY <1>13, <1>15
    <2>2. 0 > k \/ 0 = k
      BY <1>12, <1>17, <2>1
    <2>3. k = 0
      BY <1>19, <2>1, <2>2
    <2>4. QED
      BY <1>15, <2>1, <2>3
  <1>22. FilesInOrder
    <2> SUFFICES ASSUME NEW i \in Names, NEW j \in Names, i < j, dir[i] # None, dir[j] # None,
                        NEW e \in Events(dir[j]), NEW f \in Events(dir[i])
                 PROVE  Older(e, f)
      BY DEF FilesInOrder
    <2>1. i \in named /\ j \in named
      BY DEF named
    <2>2. PICK p, q : At2(e, j, p) /\ At2(f, i, q) /\ e \in Acked /\ f \in Acked
      BY <1>15, <2>1
    <2>3. ~(i > j \/ i = j)
      BY <1>14, <2>1
    <2>4. QED
      BY <1>12, <1>17, <2>2, <2>3
  <1>23. OrderInv
    BY <1>1, <1>20, <1>21, <1>22 DEF OrderInv, named, Names
  <1>24. Acked \subseteq InFiles
    <2> SUFFICES ASSUME NEW e \in Acked PROVE e \in InFiles
      OBVIOUS
    <2>1. PICK i, p : At2(e, i, p)
      BY <1>13
    <2>2. i \in named /\ e \in Events(dir[i])
      BY <1>15, <1>19, <2>1
    <2>3. QED
      BY <2>2 DEF InFiles, named
  <1>25. KeptInv
    BY <1>24 DEF KeptInv
  <1>26. HolesInv
    <2>1. Gone = {}
      BY <1>24 DEF Gone, Acked
    <2>2. Excused \in Nat
      <3>1. Faults \in Nat
        BY <1>3 DEF Faults, Calls
      <3>2. QED
        BY <1>1, <1>5, <3>1 DEF Excused
    <2>3. ASSUME NEW j \in Names, dir[j] # None PROVE Cardinality({i \in Holes : i < j}) <= Excused
      <3>1. \A i \in Names : i < j => dir[i] # None
        BY <1>3, <2>3 DEF named
      <3>2. {i \in Holes : i < j} = {}
        BY <3>1 DEF Holes
      <3>3. QED
        BY <1>5, <2>2, <3>2
    <2>4. QED
      BY <2>1, <2>3 DEF HolesInv
  <1>27. FragmentsInv
    <2> DEFINE F == [q \in places |-> <<dir[q[1]], q[2]>>]
    <2>1. IsFiniteSet(places)
      <3>1. IsFiniteSet(Names) /\ IsFiniteSet(1 .. stamp)
        <4>1. stamp \in Nat
          BY <1>3
        <4>2. QED
          BY <4>1, FS_Interval DEF Names
      <3>2. IsFiniteSet(named)
        BY <3>1, FS_Subset DEF named
      <3>3. IsFiniteSet(named \X (1 .. stamp))
        BY <3>1, <3>2, FS_Product
      <3>4. QED
        BY <3>3, FS_Subset
    <2>2. \A q \in places : /\ q[1] \in named /\ dir[q[1]] \in Inodes
                            /\ q[2] \in DOMAIN data[dir[q[1]]] /\ ~data[dir[q[1]]][q[2]].whole
      BY <1>14
    <2>3. \A i \in named : \A p \in DOMAIN data[dir[i]] : ~data[dir[i]][p].whole => <<i, p>> \in places
      <3>1. \A i \in named : \A p \in DOMAIN data[dir[i]] : p \in 1 .. stamp
        <4>1. \A i \in named : data[dir[i]] \in Seq(Line)
          BY <1>3, <1>14
        <4>2. \A i \in named : \A p \in DOMAIN data[dir[i]] : p \in Nat /\ p > 0
          BY <4>1
        <4>3. QED
          BY <1>3, <4>2
      <3>2. QED
        BY <3>1
    <2> HIDE DEF places
    <2>4. F \in Surjection(places, Fragments)
      <3>1. \A q \in places : F[q] \in Fragments
        BY <2>2, FragmentsAre
      <3>2. \A x \in Fragments : \E q \in places : F[q] = x
        <4> SUFFICES ASSUME NEW x \in Fragments PROVE \E q \in places : F[q] = x
          OBVIOUS
        <4>1. PICK n \in Inodes : \E p \in DOMAIN data[n] : ~data[n][p].whole /\ x = <<n, p>>
          BY FragmentsAre
        <4>2. PICK p \in DOMAIN data[n] : ~data[n][p].whole /\ x = <<n, p>>
          BY <4>1
        <4>3. PICK i \in named : n = dir[i]
          BY <1>9
        <4>4. <<i, p>> \in places /\ F[<<i, p>>] = x
          BY <2>3, <4>2, <4>3
        <4>5. QED
          BY <4>4
      <3>3. QED
        BY <3>1, <3>2 DEF Surjection
    <2> HIDE DEF F
    <2>5. IsFiniteSet(Fragments) /\ Cardinality(Fragments) <= Cardinality(places)
      BY <2>1, <2>4, FS_Surjection
    <2>6. Cardinality(Fragments) \in Nat /\ Cardinality(places) \in Nat /\ failed["write"] \in Nat
      BY <1>3, <2>1, <2>5, FS_CardinalityType DEF Calls
    <2>7. Cardinality(places) <= failed["write"]
      BY <1>3
    <2>8. QED
      BY <2>5, <2>6, <2>7 DEF FragmentsInv
  <1>28. QueryInv /\ SizeIsFileSize
    BY <1>1 DEF QueryInv, SizeIsFileSize, NoQuery
  <1>29. QED
    BY <1>6, <1>7, <1>8, <1>11, <1>23, <1>25, <1>26, <1>27, <1>28 DEF StoreInv

\* Every step keeps the invariant.
LEMMA NextInv == StoreInv /\ [Next]_vars => StoreInv'
  BY NextTypeOK, NextControl, NextNames, NextFree, NextEvents, NextOrder, NextKept, NextHoles,
     NextFragments, NextQuery, NextSize DEF StoreInv

\* The invariant holds in every reachable state.
LEMMA Reachable == Spec => []StoreInv
  BY InitInv, NextInv, PTL DEF Spec

-------------------------------------------------------------------------------
(* What the invariant shows *)

\* The acknowledged events that cannot be read are those glued to a fragment.
LEMMA LostToFragments ==
  ASSUME StoreInv
  PROVE  OneLostPerShortWrite
  <1> DEFINE kept == archived \cup ({dir[i] : i \in Names} \ {None})
             unreadable == {p \in kept \X (1 .. stamp) :
                              \E i \in DOMAIN data[p[1]] :
                                data[p[1]][i].ev = p[2] /\ ~Readable(data[p[1]], i)}
             lost == {p \in unreadable : \E i \in DOMAIN acked : acked[i] = p[2]}
             G == [q \in Fragments |-> <<q[1], data[q[1]][q[2] + 1].ev>>]
             image == {G[q] : q \in Fragments}
  <1>1. /\ IsFiniteSet(Fragments) /\ Cardinality(Fragments) <= failed["write"]
        /\ Cardinality(Fragments) \in Nat /\ failed["write"] \in Nat
    BY FS_CardinalityType DEF StoreInv, FragmentsInv, TypeOK, FileTypes, Calls
  <1>2. kept \subseteq Inodes
    BY RotatingFileAssumption DEF StoreInv, TypeOK, FileTypes
  <1>3. lost \subseteq image
    <2> SUFFICES ASSUME NEW x \in lost PROVE x \in image
      OBVIOUS
    <2>1. PICK n \in Inodes, e \in 1 .. stamp : x = <<n, e>>
      BY <1>2
    <2>2. PICK i \in DOMAIN data[n] : data[n][i].ev = e /\ ~Readable(data[n], i)
      BY <2>1
    <2>3. e \in Acked
      BY <2>1 DEF Acked
    <2>4. data[n][i].whole
      BY <2>2, <2>3 DEF StoreInv, EventsInv
    <2>5. i # 1 /\ ~data[n][i - 1].whole
      BY <2>2, <2>4 DEF Readable
    <2>6. data[n] \in Seq(Line)
      BY DEF StoreInv, TypeOK, FileTypes
    <2>7. i - 1 \in DOMAIN data[n] /\ (i - 1) + 1 = i
      BY <2>5, <2>6
    <2>8. <<n, i - 1>> \in Fragments
      BY <2>5, <2>7, FragmentsAre
    <2>9. G[<<n, i - 1>>] = <<n, e>>
      BY <2>2, <2>7, <2>8
    <2>10. QED
      BY <2>1, <2>8, <2>9
  <1>4. IsFiniteSet(image) /\ Cardinality(image) <= Cardinality(Fragments)
    <2>1. G \in Surjection(Fragments, image)
      BY DEF Surjection
    <2> HIDE DEF G, image
    <2>2. QED
      BY <1>1, <2>1, FS_Surjection
  <1> HIDE DEF image, lost
  <1>5. Cardinality(image) \in Nat /\ Cardinality(lost) \in Nat /\ Cardinality(lost) <= Cardinality(image)
    BY <1>3, <1>4, Sizes
  <1>6. Cardinality(lost) <= failed["write"]
    BY <1>1, <1>4, <1>5
  <1>7. QED
    BY <1>6 DEF OneLostPerShortWrite, lost

\* Retention, from the invariant.
LEMMA InvRetention == StoreInv => Retention
  <1> SUFFICES ASSUME StoreInv PROVE Retention
    OBVIOUS
  <1>1. FilesInOrder /\ SizeIsFileSize
    BY DEF StoreInv, OrderInv
  <1>2. OldestGoFirst
    <2> SUFFICES ASSUME failed["rename"] = 0, NEW i \in DOMAIN acked, NEW j \in DOMAIN acked,
                        i < j, acked[i] \in InFiles
                 PROVE  acked[j] \in InFiles \cup InArchive
      BY DEF OldestGoFirst
    <2>1. acked[i] \in Acked /\ acked[j] \in Acked /\ Older(acked[i], acked[j])
      BY DEF Acked, Older
    <2>2. QED
      BY <2>1 DEF StoreInv, KeptInv, NoRenameFailed
  <1>3. DropsOnlyWhenFull
    <2> SUFFICES ASSUME failed["rename"] = 0, rot = Quiet, Gone # {}
                 PROVE  Cardinality({i \in Names : dir[i] = None}) <= Faults + crashes + Cardinality(archived)
      BY DEF DropsOnlyWhenFull
    <2>1. Holes = {i \in Names : dir[i] = None}
      BY DEF Holes, Bubble, Rotating, Quiet
    <2>2. Cardinality(Holes) <= Excused
      BY DEF StoreInv, HolesInv, NoRenameFailed
    <2>3. QED
      BY <2>1, <2>2 DEF Excused
  <1>4. OneLostPerShortWrite
    BY LostToFragments
  <1>5. QED
    BY <1>1, <1>2, <1>3, <1>4 DEF Retention

\* What retention promises holds for any number of backups, recorders, failed
\* calls, crashes and archivers: the backups stay in order, the oldest events
\* are given up first and only when every missing name is accounted for, a short
\* write costs one event, and the file is rotated by its true size.
THEOREM RetentionHolds == Spec => []Retention
  BY Reachable, InvRetention, PTL

\* A query's result, from the invariant.
LEMMA InvQuery == MaxBak > 0 /\ StoreInv => QueryHasNoGaps
  <1> SUFFICES ASSUME MaxBak > 0, StoreInv, failed["rename"] = 0, query.file # None
               PROVE  QueryHasNoGaps
    BY DEF QueryHasNoGaps
  <1> DEFINE file == data[query.file]
             found == {query.out[k] : k \in DOMAIN query.out}
             glued == {file[p].ev : p \in {q \in DOMAIN file : ~Readable(file, q)}}
  <1>1. query.file \in Inodes /\ query.pos \in Nat /\ query \in QueryCalls
    BY DEF StoreInv, TypeOK, StoreTypes, QueryCalls
  <1>2. file \in Seq(Line)
    BY <1>1 DEF StoreInv, TypeOK, FileTypes
  <1>3. /\ query.pos <= Len(file)
        /\ \A k \in DOMAIN query.out : \E p \in 1 .. query.pos :
             Readable(file, p) /\ file[p].ev = query.out[k]
        /\ \A p \in 1 .. query.pos : Readable(file, p) /\ file[p].ev \in query.want =>
             \E k \in DOMAIN query.out : query.out[k] = file[p].ev
        /\ \A k, l \in DOMAIN query.out : k < l => Older(query.out[k], query.out[l])
    BY DEF StoreInv, QueryInv, NoRenameFailed
  <1>4. Ordered(query.file) /\ Stretch(query.file)
    BY <1>1 DEF StoreInv, OrderInv
  <1>5. acked \in Seq(Nat) /\ EventsInv
    BY DEF StoreInv, TypeOK, StoreTypes
  <1>6. \A e, f : Older(e, f) => e \in Acked /\ f \in Acked /\ ~Older(f, e) /\ e # f
    BY <1>5, OlderOrder
  <1>7. 1 .. query.pos \subseteq DOMAIN file /\ DOMAIN file \subseteq Nat
    BY <1>1, <1>2, <1>3
  <1> HIDE DEF file
  <1>8. ASSUME NEW e \in found, NEW f \in found, NEW i \in DOMAIN acked,
               Older(e, acked[i]), Older(acked[i], f), acked[i] \in query.want
        PROVE  acked[i] \in found \cup glued
    <2>1. PICK g \in Acked : g = acked[i]
      BY DEF Acked
    <2>2. PICK p \in 1 .. query.pos : Readable(file, p) /\ file[p].ev = e
      BY <1>3
    <2>3. PICK q \in 1 .. query.pos : Readable(file, q) /\ file[q].ev = f
      BY <1>3
    <2>4. e \in Events(query.file) /\ f \in Events(query.file)
      BY <1>7, <2>2, <2>3 DEF Events, Readable, file
    <2>5. g \in Events(query.file)
      BY <1>4, <1>8, <2>1, <2>4 DEF Stretch
    <2>6. PICK m \in DOMAIN file : file[m].whole /\ file[m].ev = g
      BY <2>5 DEF Events, file
    <2>7. CASE ~Readable(file, m)
      BY <2>1, <2>6, <2>7
    <2>8. CASE Readable(file, m)
      <3>1. file[q].whole /\ q \in DOMAIN file
        BY <1>7, <2>3 DEF Readable
      <3>2. ~(q < m)
        BY <1>4, <1>6, <1>8, <2>1, <2>3, <2>6, <3>1 DEF Ordered, file
      <3>3. m \in 1 .. query.pos
        <4>1. m \in Nat /\ m > 0
          BY <1>2, <2>6 DEF file
        <4>2. q \in Nat /\ q <= query.pos
          BY <1>1, <2>3
        <4>3. QED
          BY <1>1, <3>2, <4>1, <4>2
      <3>4. \E k \in DOMAIN query.out : query.out[k] = file[m].ev
        BY <1>3, <1>8, <2>1, <2>6, <2>8, <3>3
      <3>5. QED
        BY <2>1, <2>6, <3>4
    <2>9. QED
      BY <2>7, <2>8
  <1>9. QED
    BY <1>3, <1>8 DEF QueryHasNoGaps, file

\* A query that reads while files are rotated away, appended to, archived or
\* left by a crash returns a gapless stretch of one file in its order, whatever
\* the store's size, as long as it keeps at least one backup.
THEOREM QueriesHaveNoGaps ==
  ASSUME MaxBak > 0
  PROVE  Spec => []QueryHasNoGaps
  <1>1. StoreInv => QueryHasNoGaps
    BY InvQuery
  <1>2. QED
    BY <1>1, Reachable, PTL

-------------------------------------------------------------------------------
(* The Merkle tree *)

\* A function on 1 .. n is a sequence of length n.
LEMMA FunctionLen ==
  ASSUME NEW n \in Nat, NEW f, f = [i \in 1 .. n |-> f[i]]
  PROVE  Len(f) = n
  <1> DEFINE S == {f[i] : i \in 1 .. n}
  <1>1. f \in [1 .. n -> S]
    OBVIOUS
  <1> HIDE DEF S
  <1>2. f \in Seq(S)
    BY <1>1, SeqDef
  <1>3. DOMAIN f = 1 .. Len(f) /\ DOMAIN f = 1 .. n /\ Len(f) \in Nat
    BY <1>1, <1>2, LenProperties
  <1>4. QED
    BY <1>3

\* How many nodes each level has.
LEMMA WidthsOf ==
  ASSUME NEW n \in Nat
  PROVE  /\ Widths(n) \in [0 .. n -> Nat]
         /\ Widths(n)[0] = n
         /\ \A h \in 1 .. n : Widths(n)[h] = (Widths(n)[h - 1] + 1) \div 2
  <1> DEFINE Is(W, m) == W = [h \in 0 .. m |-> IF h = 0 THEN n ELSE (W[h - 1] + 1) \div 2]
             Some(m) == \E W \in [0 .. m -> Nat] : Is(W, m)
             T == {m \in Nat : Some(m)}
  <1>1. 0 \in T
    <2>1. [h \in 0 .. 0 |-> n] \in [0 .. 0 -> Nat] /\ Is([h \in 0 .. 0 |-> n], 0)
      OBVIOUS
    <2>2. QED
      BY <2>1
  <1>2. ASSUME NEW m \in Nat, m \in T PROVE m + 1 \in T
    <2>1. PICK W \in [0 .. m -> Nat] : Is(W, m)
      BY <1>2
    <2> DEFINE U == [h \in 0 .. m + 1 |-> IF h = m + 1 THEN (W[m] + 1) \div 2 ELSE W[h]]
    <2>2. (W[m] + 1) \div 2 \in Nat
      OBVIOUS
    <2>3. U \in [0 .. m + 1 -> Nat]
      BY <2>2
    <2>4. \A h \in 0 .. m + 1 : U[h] = IF h = 0 THEN n ELSE (U[h - 1] + 1) \div 2
      BY <2>1
    <2>5. Is(U, m + 1)
      BY <2>3, <2>4
    <2> HIDE DEF U, Is
    <2>6. Some(m + 1)
      BY <2>3, <2>5
    <2>7. QED
      BY <2>6
  <1>3. n \in T
    <2> HIDE DEF T
    <2>1. QED
      BY <1>1, <1>2, SetInduction
  <1>4. PICK W \in [0 .. n -> Nat] : Is(W, n)
    BY <1>3
  <1>5. Is(Widths(n), n)
    BY <1>4 DEF Widths
  <1>6. /\ Widths(n)[0] = n
        /\ \A h \in 1 .. n : Widths(n)[h] = (Widths(n)[h - 1] + 1) \div 2
    BY <1>5
  <1>7. \A h \in Nat : h \in {k \in Nat : k <= n => Widths(n)[k] \in Nat}
    <2> DEFINE N == {k \in Nat : k <= n => Widths(n)[k] \in Nat}
    <2>1. 0 \in N
      BY <1>6
    <2>2. ASSUME NEW k \in Nat, k \in N PROVE k + 1 \in N
      BY <1>6, <2>2, SMTT(30)
    <2> HIDE DEF N
    <2>3. \A k \in Nat : k \in N
      BY <2>1, <2>2, SetInduction
    <2>4. QED
      BY <2>3 DEF N
  <1>8. DOMAIN Widths(n) = 0 .. n /\ Widths(n) = [h \in 0 .. n |-> Widths(n)[h]]
    BY <1>5
  <1>9. Widths(n) \in [0 .. n -> Nat]
    BY <1>7, <1>8
  <1>10. QED
    BY <1>6, <1>7, <1>9

\* The tree is finished when one node is left.
LEMMA HeightOf ==
  ASSUME NEW n \in Nat, n > 0
  PROVE  /\ Height(n) \in 0 .. n
         /\ Widths(n)[Height(n)] = 1
         /\ \A h \in 0 .. n : Widths(n)[h] > 0
         /\ \A h \in 0 .. n : h < Height(n) => Widths(n)[h] > 1
  <1> DEFINE W == Widths(n)
             T == {h \in Nat : h <= n => W[h] > 0 /\ (W[h] <= 1 \/ W[h] <= n - h)}
  <1>1. /\ W \in [0 .. n -> Nat] /\ W[0] = n
        /\ \A h \in 1 .. n : W[h] = (W[h - 1] + 1) \div 2
    BY WidthsOf
  <1> HIDE DEF W
  <1>2. 0 \in T
    BY <1>1
  <1>3. ASSUME NEW h \in Nat, h \in T PROVE h + 1 \in T
    <2> SUFFICES ASSUME h + 1 <= n
                 PROVE  W[h + 1] > 0 /\ (W[h + 1] <= 1 \/ W[h + 1] <= n - (h + 1))
      OBVIOUS
    <2>1. W[h] \in Nat /\ W[h] > 0 /\ (W[h] <= 1 \/ W[h] <= n - h) /\ W[h + 1] = (W[h] + 1) \div 2
      BY <1>1, <1>3, SMTT(30)
    <2>2. QED
      BY <2>1
  <1>4. \A h \in Nat : h \in T
    <2> HIDE DEF T
    <2>1. QED
      BY <1>2, <1>3, SetInduction
  <1>5. \A h \in 0 .. n : W[h] > 0
    BY <1>4
  <1> DEFINE E == {h \in 0 .. n : W[h] <= 1}
  <1>6. n \in E
    BY <1>1, <1>4
  <1>7. PICK h \in E : \A k \in E : h <= k
    <2>1. E \subseteq Nat /\ E # {}
      BY <1>6
    <2> HIDE DEF E
    <2>2. QED
      BY <2>1, SmallestIn
  <1>8. h \in 0 .. n /\ W[h] <= 1 /\ \A k \in 0 .. n : k < h => W[k] > 1
    BY <1>1, <1>7
  <1>9. /\ Height(n) \in 0 .. n /\ W[Height(n)] <= 1
        /\ \A k \in 0 .. n : k < Height(n) => W[k] > 1
    BY <1>8 DEF Height, W
  <1>10. W[Height(n)] = 1
    BY <1>1, <1>5, <1>9
  <1>11. QED
    BY <1>5, <1>9, <1>10 DEF W

\* Powers of two, each more than its exponent.
LEMMA PowersOf ==
  ASSUME NEW n \in Nat
  PROVE  /\ Powers(n) \in [0 .. n -> Nat]
         /\ Powers(n)[0] = 1
         /\ \A h \in 1 .. n : Powers(n)[h] = 2 * Powers(n)[h - 1]
         /\ \A h \in 0 .. n : Powers(n)[h] > h
  <1> DEFINE Is(D, m) == D = [h \in 0 .. m |-> IF h = 0 THEN 1 ELSE 2 * D[h - 1]]
             Some(m) == \E D \in [0 .. m -> Nat] : Is(D, m)
             T == {m \in Nat : Some(m)}
  <1>1. 0 \in T
    <2>1. [h \in 0 .. 0 |-> 1] \in [0 .. 0 -> Nat] /\ Is([h \in 0 .. 0 |-> 1], 0)
      OBVIOUS
    <2>2. QED
      BY <2>1
  <1>2. ASSUME NEW m \in Nat, m \in T PROVE m + 1 \in T
    <2>1. PICK D \in [0 .. m -> Nat] : Is(D, m)
      BY <1>2
    <2> DEFINE U == [h \in 0 .. m + 1 |-> IF h = m + 1 THEN 2 * D[m] ELSE D[h]]
    <2>2. U \in [0 .. m + 1 -> Nat]
      OBVIOUS
    <2>3. \A h \in 0 .. m + 1 : U[h] = IF h = 0 THEN 1 ELSE 2 * U[h - 1]
      BY <2>1
    <2>4. Is(U, m + 1)
      BY <2>2, <2>3
    <2> HIDE DEF U, Is
    <2>5. Some(m + 1)
      BY <2>2, <2>4
    <2>6. QED
      BY <2>5
  <1>3. n \in T
    <2> HIDE DEF T
    <2>1. QED
      BY <1>1, <1>2, SetInduction
  <1>4. PICK D \in [0 .. n -> Nat] : Is(D, n)
    BY <1>3
  <1>5. Is(Powers(n), n)
    BY <1>4 DEF Powers
  <1>6. /\ Powers(n)[0] = 1
        /\ \A h \in 1 .. n : Powers(n)[h] = 2 * Powers(n)[h - 1]
    BY <1>5
  <1>7. \A h \in Nat : h \in {k \in Nat : k <= n => Powers(n)[k] \in Nat /\ Powers(n)[k] > k}
    <2> DEFINE N == {k \in Nat : k <= n => Powers(n)[k] \in Nat /\ Powers(n)[k] > k}
    <2>1. 0 \in N
      BY <1>6
    <2>2. ASSUME NEW k \in Nat, k \in N PROVE k + 1 \in N
      BY <1>6, <2>2
    <2> HIDE DEF N
    <2>3. \A k \in Nat : k \in N
      BY <2>1, <2>2, SetInduction
    <2>4. QED
      BY <2>3 DEF N
  <1>8. DOMAIN Powers(n) = 0 .. n /\ Powers(n) = [h \in 0 .. n |-> Powers(n)[h]]
    BY <1>5
  <1>9. Powers(n) \in [0 .. n -> Nat]
    BY <1>7, <1>8
  <1>10. QED
    BY <1>6, <1>7, <1>9

\* The bound that Verify computes is never below the height of the tree.
LEMMA MaxProofCovers ==
  ASSUME NEW n \in Nat, n > 0
  PROVE  MaxProof(n) \in 0 .. n /\ Height(n) <= MaxProof(n)
  <1> DEFINE W == Widths(n)
             D == Powers(n)
             M == MaxProof(n)
  <1>1. /\ W \in [0 .. n -> Nat] /\ W[0] = n
        /\ \A h \in 1 .. n : W[h] = (W[h - 1] + 1) \div 2
    BY WidthsOf
  <1>2. /\ D \in [0 .. n -> Nat] /\ D[0] = 1
        /\ \A h \in 1 .. n : D[h] = 2 * D[h - 1]
        /\ \A h \in 0 .. n : D[h] > h
    BY PowersOf
  <1>3. Height(n) \in 0 .. n /\ \A h \in 0 .. n : h < Height(n) => W[h] > 1
    BY HeightOf
  <1> HIDE DEF W, D
  <1>4. M \in 0 .. n /\ D[M] >= n
    <2> DEFINE E == {h \in 0 .. n : D[h] >= n}
    <2>1. n \in E
      BY <1>2
    <2>2. PICK h \in E : \A k \in E : h <= k
      <3>1. E \subseteq Nat /\ E # {}
        BY <2>1
      <3> HIDE DEF E
      <3>2. QED
        BY <3>1, SmallestIn
    <2>3. h \in 0 .. n /\ D[h] >= n /\ \A k \in 0 .. n : k < h => D[k] < n
      BY <1>2, <2>2
    <2>4. QED
      BY <2>3 DEF MaxProof, D
  <1> HIDE DEF M
  <1> DEFINE T == {k \in Nat : k <= M => W[k] <= D[M - k]}
  <1>5. 0 \in T
    BY <1>1, <1>2, <1>4
  <1>6. ASSUME NEW k \in Nat, k \in T PROVE k + 1 \in T
    <2> SUFFICES ASSUME k + 1 <= M PROVE W[k + 1] <= D[M - (k + 1)]
      OBVIOUS
    <2>1. k \in 0 .. n /\ k + 1 \in 1 .. n /\ M - k \in 1 .. n /\ M - (k + 1) \in 0 .. n
      BY <1>4
    <2>2. W[k] <= D[M - k] /\ W[k] \in Nat
      <3>1. k <= M
        BY <1>4
      <3>2. W[k] <= D[M - k]
        BY <1>6, <3>1
      <3>3. W[k] \in Nat
        BY <1>1, <2>1
      <3>4. QED
        BY <3>2, <3>3
    <2>3. W[k + 1] = (W[k] + 1) \div 2
      BY <1>1, <2>1
    <2>4. D[M - k] = 2 * D[M - (k + 1)] /\ D[M - (k + 1)] \in Nat
      <3>1. (M - k) - 1 = M - (k + 1)
        BY <1>4
      <3>2. QED
        BY <1>2, <2>1, <3>1
    <2>5. QED
      BY <2>2, <2>3, <2>4
  <1>7. M \in T
    <2> HIDE DEF T
    <2>1. M \in Nat
      BY <1>4
    <2>2. QED
      BY <1>5, <1>6, <2>1, SetInduction
  <1>8. W[M] <= 1
    <2>1. M \in Nat /\ M - M = 0
      BY <1>4
    <2>2. QED
      BY <1>2, <1>7, <2>1
  <1>9. ~(M < Height(n))
    BY <1>1, <1>3, <1>4, <1>8
  <1>10. QED
    BY <1>3, <1>4, <1>9 DEF M

\* The levels, from the leaves up.
LEMMA LevelsOf ==
  ASSUME NEW S, NEW leaves \in Seq(S), leaves # <<>>
  PROVE  /\ DOMAIN Levels(leaves) = 0 .. Height(Len(leaves))
         /\ Levels(leaves)[0] = [i \in 1 .. Len(leaves) |-> HashLeaf(leaves[i])]
         /\ \A h \in 1 .. Height(Len(leaves)) : Levels(leaves)[h] = NextLevel(Levels(leaves)[h - 1])
  <1> DEFINE First == [i \in DOMAIN leaves |-> HashLeaf(leaves[i])]
             Is(L, m) == L = [h \in 0 .. m |-> IF h = 0 THEN First ELSE NextLevel(L[h - 1])]
             Some(m) == \E L : Is(L, m)
             T == {m \in Nat : Some(m)}
  <1>1. Len(leaves) \in Nat /\ Len(leaves) > 0 /\ DOMAIN leaves = 1 .. Len(leaves)
    OBVIOUS
  <1>2. First = [i \in 1 .. Len(leaves) |-> HashLeaf(leaves[i])]
    BY <1>1
  <1> HIDE DEF First
  <1>3. Height(Len(leaves)) \in Nat
    BY <1>1, HeightOf
  <1>4. 0 \in T
    <2>1. Is([h \in 0 .. 0 |-> First], 0)
      OBVIOUS
    <2> HIDE DEF Is
    <2>2. Some(0)
      BY <2>1
    <2>3. QED
      BY <2>2
  <1>5. ASSUME NEW m \in Nat, m \in T PROVE m + 1 \in T
    <2>1. PICK L : Is(L, m)
      BY <1>5
    <2> DEFINE U == [h \in 0 .. m + 1 |-> IF h = m + 1 THEN NextLevel(L[m]) ELSE L[h]]
    <2>2. \A h \in 0 .. m + 1 : U[h] = IF h = 0 THEN First ELSE NextLevel(U[h - 1])
      <3>1. U[0] = First
        BY <2>1
      <3>2. ASSUME NEW h \in 1 .. m PROVE U[h] = NextLevel(U[h - 1])
        <4>1. U[h] = L[h] /\ U[h - 1] = L[h - 1]
          OBVIOUS
        <4>2. L[h] = NextLevel(L[h - 1])
          BY <2>1
        <4>3. QED
          BY <4>1, <4>2
      <3>3. U[m + 1] = NextLevel(U[m])
        OBVIOUS
      <3>4. QED
        BY <3>1, <3>2, <3>3
    <2>3. Is(U, m + 1)
      BY <2>2
    <2> HIDE DEF U, Is
    <2>4. Some(m + 1)
      BY <2>3
    <2>5. QED
      BY <2>4
  <1>6. Height(Len(leaves)) \in T
    <2> HIDE DEF T
    <2>1. QED
      BY <1>3, <1>4, <1>5, SetInduction
  <1>7. PICK L : Is(L, Height(Len(leaves)))
    BY <1>6
  <1>8. Is(Levels(leaves), Height(Len(leaves)))
    BY <1>7 DEF Levels, First
  <1> HIDE DEF T, Some
  <1> DEFINE L2 == Levels(leaves)
             H2 == Height(Len(leaves))
  <1>9. L2 = [h \in 0 .. H2 |-> IF h = 0 THEN First ELSE NextLevel(L2[h - 1])]
    BY <1>8
  <1>10. H2 \in Nat
    BY <1>3
  <1> HIDE DEF L2, H2
  <1>11. /\ DOMAIN L2 = 0 .. H2
         /\ L2[0] = First
         /\ \A h \in 1 .. H2 : L2[h] = NextLevel(L2[h - 1])
    BY <1>9, <1>10
  <1>12. QED
    BY <1>2, <1>11 DEF L2, H2

\* What level h of a tree with levels L of widths W looks like.
LevelShape(L, W, h) ==
  /\ W[h] \in Nat /\ DOMAIN L[h] = 1 .. W[h] /\ Len(L[h]) = W[h]
  /\ h > 0 => \A i \in 1 .. W[h] :
       /\ 2 * i <= W[h - 1] => L[h][i] = HashNode(L[h - 1][2 * i - 1], L[h - 1][2 * i])
       /\ 2 * i > W[h - 1] => L[h][i] = L[h - 1][2 * i - 1]

\* A level is as wide as Widths says, and each of its nodes is the hash of the
\* two below it, or the lone last one.
LEMMA LevelNodes ==
  ASSUME NEW S, NEW leaves \in Seq(S), leaves # <<>>, NEW h \in 0 .. Height(Len(leaves))
  PROVE  LevelShape(Levels(leaves), Widths(Len(leaves)), h)
  <1> DEFINE L == Levels(leaves)
             W == Widths(Len(leaves))
             H == Height(Len(leaves))
             Fine(k) == DOMAIN L[k] = 1 .. W[k] /\ Len(L[k]) = W[k] /\ L[k] = [i \in 1 .. W[k] |-> L[k][i]]
             T == {k \in Nat : k <= H => Fine(k)}
  <1>1. Len(leaves) \in Nat /\ Len(leaves) > 0
    OBVIOUS
  <1>2. H \in 0 .. Len(leaves)
    BY <1>1, HeightOf
  <1>3. /\ W \in [0 .. Len(leaves) -> Nat] /\ W[0] = Len(leaves)
        /\ \A k \in 1 .. Len(leaves) : W[k] = (W[k - 1] + 1) \div 2
    BY <1>1, WidthsOf
  <1>4. /\ L[0] = [i \in 1 .. Len(leaves) |-> HashLeaf(leaves[i])]
        /\ \A k \in 1 .. H : L[k] = NextLevel(L[k - 1])
    BY LevelsOf
  <1> HIDE DEF L, W, H
  <1>5. 0 \in T
    <2>1. DOMAIN L[0] = 1 .. W[0] /\ L[0] = [i \in 1 .. W[0] |-> L[0][i]]
      BY <1>3, <1>4
    <2>2. Len(L[0]) = W[0]
      BY <1>1, <1>3, <2>1, FunctionLen
    <2>3. QED
      BY <2>1, <2>2
  <1>6. ASSUME NEW k \in Nat, k \in T PROVE k + 1 \in T
    <2> SUFFICES ASSUME k + 1 <= H PROVE Fine(k + 1)
      <3> HIDE DEF Fine
      <3> QED
        OBVIOUS
    <2>1. Len(L[k]) = W[k] /\ k + 1 \in 1 .. H /\ k + 1 \in 1 .. Len(leaves)
      BY <1>2, <1>6
    <2>2. L[k + 1] = NextLevel(L[k]) /\ W[k + 1] = (W[k] + 1) \div 2 /\ W[k + 1] \in Nat
      BY <1>3, <1>4, <2>1
    <2>3. DOMAIN L[k + 1] = 1 .. W[k + 1] /\ L[k + 1] = [i \in 1 .. W[k + 1] |-> L[k + 1][i]]
      BY <2>1, <2>2 DEF NextLevel
    <2>4. Len(L[k + 1]) = W[k + 1]
      BY <2>2, <2>3, FunctionLen
    <2>5. QED
      BY <2>3, <2>4
  <1>7. \A k \in Nat : k \in T
    <2> HIDE DEF T
    <2>1. QED
      BY <1>5, <1>6, SetInduction
  <1>8. h \in 0 .. H
    BY DEF H
  <1>9. W[h] \in Nat /\ DOMAIN L[h] = 1 .. W[h] /\ Len(L[h]) = W[h]
    <2>1. W[h] \in Nat
      BY <1>2, <1>3, <1>8
    <2>2. Fine(h)
      <3> HIDE DEF Fine
      <3> QED
        BY <1>2, <1>7, <1>8
    <2>3. QED
      BY <2>1, <2>2
  <1>10. ASSUME h > 0, NEW i \in 1 .. W[h]
         PROVE  /\ 2 * i <= W[h - 1] => L[h][i] = HashNode(L[h - 1][2 * i - 1], L[h - 1][2 * i])
                /\ 2 * i > W[h - 1] => L[h][i] = L[h - 1][2 * i - 1]
    <2>1. h - 1 \in Nat /\ h - 1 <= H /\ h \in 1 .. H /\ h \in 1 .. Len(leaves)
      BY <1>2, <1>8, <1>10
    <2>2. Len(L[h - 1]) = W[h - 1]
      BY <1>7, <2>1
    <2>3. L[h] = NextLevel(L[h - 1])
      BY <1>4, <2>1
    <2>4. W[h] = (W[h - 1] + 1) \div 2 /\ W[h - 1] \in Nat
      <3>1. h - 1 \in 0 .. Len(leaves)
        BY <1>2, <2>1
      <3>2. QED
        BY <1>3, <2>1, <3>1
    <2>5. L[h][i] = IF 2 * i <= W[h - 1] THEN HashNode(L[h - 1][2 * i - 1], L[h - 1][2 * i])
                    ELSE L[h - 1][2 * i - 1]
      BY <2>2, <2>3, <2>4 DEF NextLevel
    <2> HIDE DEF T, Fine
    <2>6. QED
      BY <2>4, <2>5
  <1>11. QED
    BY <1>9, <1>10 DEF L, W, LevelShape

\* All the nodes of a tree.
TreeNodes(leaves) == UNION {{Levels(leaves)[h][i] : i \in DOMAIN Levels(leaves)[h]} : h \in 0 .. Height(Len(leaves))}

\* A node is the hash of a leaf, or of two nodes.
LEMMA NodesAreHashes ==
  ASSUME NEW S, NEW leaves \in Seq(S), leaves # <<>>, NEW x \in TreeNodes(leaves)
  PROVE  \/ \E k \in DOMAIN leaves : x = HashLeaf(leaves[k])
         \/ \E a, b \in TreeNodes(leaves) : x = HashNode(a, b)
  <1> DEFINE L == Levels(leaves)
             W == Widths(Len(leaves))
             H == Height(Len(leaves))
             Hash(y) == \/ \E k \in DOMAIN leaves : y = HashLeaf(leaves[k])
                        \/ \E a, b \in TreeNodes(leaves) : y = HashNode(a, b)
             T == {h \in Nat : h <= H => \A i \in DOMAIN L[h] : Hash(L[h][i])}
  <1>1. Len(leaves) \in Nat /\ Len(leaves) > 0 /\ DOMAIN leaves = 1 .. Len(leaves)
    OBVIOUS
  <1>2. H \in 0 .. Len(leaves)
    BY <1>1, HeightOf
  <1>3. L[0] = [i \in 1 .. Len(leaves) |-> HashLeaf(leaves[i])]
    BY LevelsOf
  <1>4. \A h \in 0 .. H : LevelShape(L, W, h)
    BY LevelNodes
  <1>5. \A h \in 1 .. H : W[h] = (W[h - 1] + 1) \div 2
    BY <1>1, <1>2, WidthsOf
  <1>6. \A h \in 0 .. H : \A i \in DOMAIN L[h] : L[h][i] \in TreeNodes(leaves)
    BY DEF TreeNodes
  <1> HIDE DEF L, W, H
  <1>7. 0 \in T
    <2>1. DOMAIN L[0] = DOMAIN leaves /\ \A i \in DOMAIN L[0] : L[0][i] = HashLeaf(leaves[i])
      BY <1>1, <1>3
    <2>2. QED
      BY <2>1
  <1>8. ASSUME NEW h \in Nat, h \in T PROVE h + 1 \in T
    <2> SUFFICES ASSUME h + 1 <= H, NEW i \in DOMAIN L[h + 1] PROVE Hash(L[h + 1][i])
      <3> HIDE DEF Hash
      <3> QED
        OBVIOUS
    <2>1. h \in 0 .. H /\ h + 1 \in 1 .. H /\ h + 1 \in 0 .. H /\ (h + 1) - 1 = h /\ h + 1 > 0
      BY <1>2
    <2>2. W[h] \in Nat /\ DOMAIN L[h] = 1 .. W[h] /\ DOMAIN L[h + 1] = 1 .. W[h + 1]
      BY <1>4, <2>1 DEF LevelShape
    <2>3. /\ 2 * i <= W[h] => L[h + 1][i] = HashNode(L[h][2 * i - 1], L[h][2 * i])
          /\ 2 * i > W[h] => L[h + 1][i] = L[h][2 * i - 1]
      <3>1. LevelShape(L, W, h + 1) /\ i \in 1 .. W[h + 1]
        BY <1>4, <2>1, <2>2
      <3> HIDE DEF T
      <3>2. QED
        BY <2>1, <3>1 DEF LevelShape
    <2>4. i \in 1 .. (W[h] + 1) \div 2
      BY <1>5, <2>1, <2>2
    <2>5. 2 * i - 1 \in DOMAIN L[h] /\ (2 * i <= W[h] => 2 * i \in DOMAIN L[h])
      BY <2>2, <2>4
    <2>6. CASE 2 * i <= W[h]
      <3>1. L[h][2 * i - 1] \in TreeNodes(leaves) /\ L[h][2 * i] \in TreeNodes(leaves)
        BY <1>6, <2>1, <2>5, <2>6
      <3>2. QED
        BY <2>3, <2>6, <3>1
    <2>7. CASE 2 * i > W[h]
      <3>1. Hash(L[h][2 * i - 1])
        <4> HIDE DEF Hash
        <4> QED
          BY <1>2, <1>8, <2>1, <2>5
      <3> HIDE DEF Hash
      <3>2. QED
        BY <2>3, <2>7, <3>1
    <2>8. QED
      BY <2>2, <2>4, <2>6, <2>7
  <1>9. \A h \in Nat : h \in T
    <2> HIDE DEF T
    <2>1. QED
      BY <1>7, <1>8, SetInduction
  <1>10. PICK h \in 0 .. H : \E i \in DOMAIN L[h] : x = L[h][i]
    BY DEF TreeNodes, L, H
  <1>11. Hash(x)
    <2>1. h \in Nat /\ h <= H
      BY <1>2
    <2> HIDE DEF Hash
    <2>2. QED
      BY <1>9, <1>10, <2>1
  <1>12. QED
    BY <1>11

\* The root of a tree that has leaves is one of its nodes.
LEMMA RootIsNode ==
  ASSUME NEW S, NEW leaves \in Seq(S), leaves # <<>>
  PROVE  RootHex(leaves) \in TreeNodes(leaves) /\ RootHex(leaves) # RootHex(<<>>)
  <1> DEFINE n == Len(leaves)
             H == Height(n)
  <1>1. n \in Nat /\ n > 0
    OBVIOUS
  <1>2. H \in 0 .. n /\ Widths(n)[H] = 1 /\ H \in 0 .. H
    BY <1>1, HeightOf
  <1>3. DOMAIN Levels(leaves)[H] = 1 .. 1
    BY <1>2, LevelNodes DEF LevelShape
  <1>4. RootHex(leaves) = Levels(leaves)[H][1]
    BY DEF RootHex
  <1>5. RootHex(leaves) \in TreeNodes(leaves)
    BY <1>2, <1>3, <1>4 DEF TreeNodes
  <1>6. \/ \E x : RootHex(leaves) = HashLeaf(x)
        \/ \E a, b : RootHex(leaves) = HashNode(a, b)
    BY <1>5, NodesAreHashes
  <1>7. RootHex(<<>>) = <<"">>
    BY DEF RootHex
  <1>8. \A x, a, b : HashLeaf(x) # <<"">> /\ HashNode(a, b) # <<"">>
    BY DEF HashLeaf, HashNode
  <1>9. QED
    BY <1>5, <1>6, <1>7, <1>8

\* Hashing up a proof, step by step.
LEMMA HashUpOf ==
  ASSUME NEW leaf, NEW S, NEW proof \in Seq(S)
  PROVE  LET H == HashUp(leaf, proof)
         IN /\ H[0] = HashLeaf(leaf)
            /\ \A i \in 1 .. Len(proof) :
                 H[i] = IF proof[i].left THEN HashNode(proof[i].sibling, H[i - 1])
                        ELSE HashNode(H[i - 1], proof[i].sibling)
  <1> DEFINE Up(i, x) == IF proof[i].left THEN HashNode(proof[i].sibling, x)
                         ELSE HashNode(x, proof[i].sibling)
             Is(H, m) == H = [i \in 0 .. m |-> IF i = 0 THEN HashLeaf(leaf) ELSE Up(i, H[i - 1])]
             Some(m) == \E H : Is(H, m)
             T == {m \in Nat : Some(m)}
             G == HashUp(leaf, proof)
  <1>1. Len(proof) \in Nat
    OBVIOUS
  <1>2. (\E H : Is(H, Len(proof))) => Is(G, Len(proof))
    BY DEF HashUp
  <1> HIDE DEF Up, G
  <1>3. 0 \in T
    <2>1. Is([i \in 0 .. 0 |-> HashLeaf(leaf)], 0)
      OBVIOUS
    <2> HIDE DEF Is
    <2>2. Some(0)
      BY <2>1
    <2>3. QED
      BY <2>2
  <1>4. ASSUME NEW m \in Nat, m \in T PROVE m + 1 \in T
    <2>1. PICK H : Is(H, m)
      BY <1>4
    <2> DEFINE U == [i \in 0 .. m + 1 |-> IF i = m + 1 THEN Up(m + 1, H[m]) ELSE H[i]]
    <2>2. \A i \in 0 .. m + 1 : U[i] = IF i = 0 THEN HashLeaf(leaf) ELSE Up(i, U[i - 1])
      <3>1. U[0] = HashLeaf(leaf)
        <4>1. U[0] = H[0]
          OBVIOUS
        <4>2. H[0] = HashLeaf(leaf)
          BY <2>1
        <4>3. QED
          BY <4>1, <4>2
      <3>2. ASSUME NEW i \in 1 .. m PROVE U[i] = Up(i, U[i - 1])
        <4>1. U[i] = H[i] /\ U[i - 1] = H[i - 1]
          OBVIOUS
        <4>2. H[i] = Up(i, H[i - 1])
          BY <2>1
        <4>3. QED
          BY <4>1, <4>2
      <3>3. U[m + 1] = Up(m + 1, U[m])
        OBVIOUS
      <3>4. QED
        BY <3>1, <3>2, <3>3
    <2>3. Is(U, m + 1)
      BY <2>2
    <2> HIDE DEF U, Is
    <2>4. Some(m + 1)
      BY <2>3
    <2>5. QED
      BY <2>4
  <1>5. Len(proof) \in T
    <2> HIDE DEF T
    <2>1. QED
      BY <1>1, <1>3, <1>4, SetInduction
  <1>6. Is(G, Len(proof))
    <2> HIDE DEF Is
    <2>1. QED
      BY <1>2, <1>5
  <1>7. G[0] = HashLeaf(leaf) /\ \A i \in 1 .. Len(proof) : G[i] = Up(i, G[i - 1])
    <2> DEFINE n == Len(proof)
    <2>1. n \in Nat /\ G = [i \in 0 .. n |-> IF i = 0 THEN HashLeaf(leaf) ELSE Up(i, G[i - 1])]
      BY <1>1, <1>6
    <2> HIDE DEF n, T, Some
    <2>2. G[0] = HashLeaf(leaf)
      BY <2>1
    <2>3. ASSUME NEW i \in 1 .. n PROVE G[i] = Up(i, G[i - 1])
      BY <2>1
    <2>4. QED
      BY <2>2, <2>3 DEF n
  <1>8. QED
    BY <1>7 DEF Up, G

\* One step more.
LEMMA HashUpAppend ==
  ASSUME NEW leaf, NEW S, NEW proof \in Seq(S), NEW step \in S
  PROVE  LET x == HashUp(leaf, proof)[Len(proof)]
             more == Append(proof, step)
         IN HashUp(leaf, more)[Len(more)] =
              IF step.left THEN HashNode(step.sibling, x) ELSE HashNode(x, step.sibling)
  <1> DEFINE more == Append(proof, step)
             G == HashUp(leaf, proof)
             H == HashUp(leaf, more)
             n == Len(proof)
             T == {i \in Nat : i <= n => H[i] = G[i]}
  <1>1. /\ more \in Seq(S) /\ Len(more) = n + 1 /\ n \in Nat /\ more[n + 1] = step
        /\ \A i \in 1 .. n : more[i] = proof[i]
    OBVIOUS
  <1> HIDE DEF more
  <1>2. /\ G[0] = HashLeaf(leaf)
        /\ \A i \in 1 .. n : G[i] = IF proof[i].left THEN HashNode(proof[i].sibling, G[i - 1])
                                    ELSE HashNode(G[i - 1], proof[i].sibling)
    BY HashUpOf
  <1>3. /\ H[0] = HashLeaf(leaf)
        /\ \A i \in 1 .. n + 1 : H[i] = IF more[i].left THEN HashNode(more[i].sibling, H[i - 1])
                                        ELSE HashNode(H[i - 1], more[i].sibling)
    BY <1>1, HashUpOf
  <1> HIDE DEF G, H, n
  <1>4. 0 \in T
    BY <1>2, <1>3
  <1>5. ASSUME NEW i \in Nat, i \in T PROVE i + 1 \in T
    <2> SUFFICES ASSUME i + 1 <= n PROVE H[i + 1] = G[i + 1]
      OBVIOUS
    <2>1. i + 1 \in 1 .. n /\ i + 1 \in 1 .. n + 1 /\ (i + 1) - 1 = i /\ H[i] = G[i]
      BY <1>1, <1>5
    <2>2. more[i + 1] = proof[i + 1]
      BY <1>1, <2>1
    <2>3. QED
      BY <1>2, <1>3, <2>1, <2>2
  <1>6. n \in T
    <2> HIDE DEF T
    <2>1. QED
      BY <1>1, <1>4, <1>5, SetInduction
  <1>7. H[n] = G[n]
    BY <1>1, <1>6
  <1>8. n + 1 \in 1 .. n + 1 /\ (n + 1) - 1 = n
    BY <1>1
  <1>9. H[n + 1] = IF step.left THEN HashNode(step.sibling, G[n]) ELSE HashNode(G[n], step.sibling)
    BY <1>1, <1>3, <1>7, <1>8
  <1>10. QED
    BY <1>1, <1>9 DEF more, G, H, n

\* VerifyProof cannot be misled: no sequence of steps whatever, of any length,
\* leads from an entry that is not in the tree to the tree's root.
THEOREM ProofSound ==
  ASSUME NEW S, NEW leaves \in Seq(S), NEW leaf, NEW R, NEW proof \in Seq(R),
         HashUp(leaf, proof)[Len(proof)] = RootHex(leaves)
  PROVE  \E k \in DOMAIN leaves : leaves[k] = leaf
  <1> DEFINE H == HashUp(leaf, proof)
             n == Len(proof)
             T == {d \in Nat : d <= n => H[n - d] \in TreeNodes(leaves)}
  <1>1. n \in Nat
    OBVIOUS
  <1>2. /\ H[0] = HashLeaf(leaf)
        /\ \A i \in 1 .. n : H[i] = IF proof[i].left THEN HashNode(proof[i].sibling, H[i - 1])
                                    ELSE HashNode(H[i - 1], proof[i].sibling)
    BY HashUpOf
  <1>3. H[n] = RootHex(leaves)
    OBVIOUS
  <1> HIDE DEF H, n
  <1>4. \A x, y, a, b : /\ HashLeaf(x) # HashNode(a, b) /\ HashLeaf(x) # <<"">> /\ HashNode(a, b) # <<"">>
                        /\ HashLeaf(x) = HashLeaf(y) => x = y
    BY DEF HashLeaf, HashNode
  <1>5. \A a, b, c, d : HashNode(a, b) = HashNode(c, d) => a = c /\ b = d
    BY DEF HashNode
  <1>6. leaves # <<>>
    <2> SUFFICES ASSUME leaves = <<>> PROVE FALSE
      OBVIOUS
    <2>1. H[n] = <<"">>
      BY <1>3 DEF RootHex
    <2>2. CASE n = 0
      BY <1>2, <1>4, <2>1, <2>2
    <2>3. CASE n # 0
      <3>1. n \in 1 .. n
        BY <1>1, <2>3
      <3>2. QED
        <4>1. \/ H[n] = HashNode(proof[n].sibling, H[n - 1])
              \/ H[n] = HashNode(H[n - 1], proof[n].sibling)
          BY <1>2, <3>1
        <4>2. QED
          BY <1>4, <2>1, <4>1
    <2>4. QED
      BY <2>2, <2>3
  <1>7. 0 \in T
    <2>1. RootHex(leaves) \in TreeNodes(leaves)
      BY <1>6, RootIsNode
    <2>2. n - 0 = n
      BY <1>1
    <2>3. QED
      BY <1>3, <2>1, <2>2
  <1>8. ASSUME NEW d \in Nat, d \in T PROVE d + 1 \in T
    <2> SUFFICES ASSUME d + 1 <= n PROVE H[n - (d + 1)] \in TreeNodes(leaves)
      OBVIOUS
    <2>1. n - d \in 1 .. n /\ (n - d) - 1 = n - (d + 1)
      BY <1>1
    <2>2. H[n - d] \in TreeNodes(leaves)
      BY <1>1, <1>8
    <2>3. \/ H[n - d] = HashNode(proof[n - d].sibling, H[n - (d + 1)])
          \/ H[n - d] = HashNode(H[n - (d + 1)], proof[n - d].sibling)
      BY <1>2, <2>1
    <2>4. PICK a, b \in TreeNodes(leaves) : H[n - d] = HashNode(a, b)
      <3>1. \/ \E k \in DOMAIN leaves : H[n - d] = HashLeaf(leaves[k])
            \/ \E a, b \in TreeNodes(leaves) : H[n - d] = HashNode(a, b)
        BY <1>6, <2>2, NodesAreHashes
      <3>2. ASSUME NEW k \in DOMAIN leaves, H[n - d] = HashLeaf(leaves[k]) PROVE FALSE
        <4>1. \A x, a, b : HashLeaf(x) # HashNode(a, b)
          BY <1>4
        <4>2. QED
          BY <2>3, <3>2, <4>1, Zenon
      <3>3. QED
        BY <3>1, <3>2
    <2>5. QED
      BY <1>5, <2>3, <2>4
  <1>9. n \in T
    <2> HIDE DEF T
    <2>1. QED
      BY <1>1, <1>7, <1>8, SetInduction
  <1>10. HashLeaf(leaf) \in TreeNodes(leaves)
    <2>1. n - n = 0
      BY <1>1
    <2>2. QED
      BY <1>1, <1>2, <1>9, <2>1
  <1>11. \E k \in DOMAIN leaves : HashLeaf(leaf) = HashLeaf(leaves[k])
    <2>1. \/ \E k \in DOMAIN leaves : HashLeaf(leaf) = HashLeaf(leaves[k])
          \/ \E a, b \in TreeNodes(leaves) : HashLeaf(leaf) = HashNode(a, b)
      BY <1>6, <1>10, NodesAreHashes
    <2>2. QED
      BY <1>4, <2>1
  <1>12. QED
    BY <1>4, <1>11

\* The steps a proof over a tree can have.
TreeSteps(leaves) == [sibling : TreeNodes(leaves), left : BOOLEAN]

\* The way up from a leaf, level by level.
LEMMA PathOf ==
  ASSUME NEW leaves, NEW leafIndex, Height(Len(leaves)) \in Nat
  PROVE  LET P == Path(leaves, leafIndex)
         IN /\ P[0].idx = leafIndex /\ P[0].proof = <<>>
            /\ \A h \in 1 .. Height(Len(leaves)) :
                 /\ P[h].idx = P[h - 1].idx \div 2
                 /\ P[h].proof = ProofStep(Levels(leaves)[h - 1], P[h - 1].idx, P[h - 1].proof)
  <1> DEFINE Up(h, p) == [idx |-> p.idx \div 2, proof |-> ProofStep(Levels(leaves)[h - 1], p.idx, p.proof)]
             Start == [idx |-> leafIndex, proof |-> <<>>]
             Is(P, m) == P = [h \in 0 .. m |-> IF h = 0 THEN Start ELSE Up(h, P[h - 1])]
             Some(m) == \E P : Is(P, m)
             T == {m \in Nat : Some(m)}
             G == Path(leaves, leafIndex)
             n == Height(Len(leaves))
  <1>1. n \in Nat
    OBVIOUS
  <1>2. (\E P : Is(P, n)) => Is(G, n)
    BY DEF Path
  <1>3. Start.idx = leafIndex /\ Start.proof = <<>>
    OBVIOUS
  <1>4. \A h, p : /\ Up(h, p).idx = p.idx \div 2
                  /\ Up(h, p).proof = ProofStep(Levels(leaves)[h - 1], p.idx, p.proof)
    OBVIOUS
  <1> HIDE DEF Up, G, n, Start
  <1>5. 0 \in T
    <2>1. Is([h \in 0 .. 0 |-> Start], 0)
      OBVIOUS
    <2> HIDE DEF Is
    <2>2. Some(0)
      BY <2>1
    <2>3. QED
      BY <2>2
  <1>6. ASSUME NEW m \in Nat, m \in T PROVE m + 1 \in T
    <2>1. PICK P : Is(P, m)
      BY <1>6
    <2> DEFINE U == [h \in 0 .. m + 1 |-> IF h = m + 1 THEN Up(m + 1, P[m]) ELSE P[h]]
    <2>2. \A h \in 0 .. m + 1 : U[h] = IF h = 0 THEN Start ELSE Up(h, U[h - 1])
      <3>1. U[0] = Start
        <4>1. U[0] = P[0]
          OBVIOUS
        <4>2. P[0] = Start
          BY <2>1
        <4>3. QED
          BY <4>1, <4>2
      <3>2. ASSUME NEW h \in 1 .. m PROVE U[h] = Up(h, U[h - 1])
        <4>1. U[h] = P[h] /\ U[h - 1] = P[h - 1]
          OBVIOUS
        <4>2. P[h] = Up(h, P[h - 1])
          BY <2>1
        <4>3. QED
          BY <4>1, <4>2
      <3>3. U[m + 1] = Up(m + 1, U[m])
        OBVIOUS
      <3> HIDE DEF U
      <3>4. \A h \in 0 .. m + 1 : h = 0 \/ h \in 1 .. m \/ (h = m + 1 /\ h - 1 = m /\ h # 0)
        OBVIOUS
      <3>5. QED
        BY <3>1, <3>2, <3>3, <3>4
    <2>3. Is(U, m + 1)
      BY <2>2
    <2> HIDE DEF U, Is
    <2>4. Some(m + 1)
      BY <2>3
    <2>5. QED
      BY <2>4
  <1>7. n \in T
    <2> HIDE DEF T
    <2>1. QED
      BY <1>1, <1>5, <1>6, SetInduction
  <1>8. Is(G, n)
    <2> HIDE DEF Is
    <2>1. QED
      BY <1>2, <1>7
  <1>9. G = [h \in 0 .. n |-> IF h = 0 THEN Start ELSE Up(h, G[h - 1])]
    BY <1>8
  <1> HIDE DEF T, Some, Is
  <1>10. G[0] = Start
    BY <1>1, <1>9
  <1>11. ASSUME NEW h \in 1 .. n PROVE G[h] = Up(h, G[h - 1])
    BY <1>1, <1>9
  <1>12. QED
    BY <1>3, <1>4, <1>10, <1>11 DEF G, n

\* What Proof computes for an entry leads from it to the root, and the bound
\* that Verify takes from the batch's size lets it through, for a tree of any size.
THEOREM ProofComplete ==
  ASSUME NEW S, NEW leaves \in Seq(S), NEW e \in DOMAIN leaves
  PROVE  /\ Proof(leaves, e - 1) \in Seq(TreeSteps(leaves))
         /\ VerifyProof(leaves[e], Proof(leaves, e - 1), RootHex(leaves), Len(leaves))
  <1> DEFINE n == Len(leaves)
             H == Height(n)
             L == Levels(leaves)
             W == Widths(n)
             P == Path(leaves, e - 1)
             PathSteps == TreeSteps(leaves)
             Up(proof) == HashUp(leaves[e], proof)[Len(proof)]
             Good(h) == /\ P[h].idx \in Nat /\ P[h].idx < W[h]
                        /\ P[h].proof \in Seq(PathSteps) /\ Len(P[h].proof) <= h
                        /\ Up(P[h].proof) = L[h][P[h].idx + 1]
             T == {h \in Nat : h <= H => Good(h)}
  <1>1. n \in Nat /\ n > 0 /\ e \in 1 .. n /\ leaves # <<>>
    OBVIOUS
  <1>2. H \in 0 .. n /\ W[H] = 1
    BY <1>1, HeightOf
  <1>3. W \in [0 .. n -> Nat] /\ W[0] = n /\ \A h \in 1 .. n : W[h] = (W[h - 1] + 1) \div 2
    BY <1>1, WidthsOf
  <1>4. L[0] = [i \in 1 .. n |-> HashLeaf(leaves[i])]
    BY <1>1, LevelsOf
  <1>5. \A h \in 0 .. H : LevelShape(L, W, h)
    BY <1>1, LevelNodes
  <1>6. /\ P[0].idx = e - 1 /\ P[0].proof = <<>>
        /\ \A h \in 1 .. H : /\ P[h].idx = P[h - 1].idx \div 2
                             /\ P[h].proof = ProofStep(L[h - 1], P[h - 1].idx, P[h - 1].proof)
    <2>1. Height(Len(leaves)) \in Nat
      BY <1>2
    <2>2. QED
      BY <2>1, PathOf
  <1>7. \A h \in 0 .. H : \A i \in DOMAIN L[h] : \A b \in BOOLEAN : [sibling |-> L[h][i], left |-> b] \in PathSteps
    <2>1. \A h \in 0 .. H : \A i \in DOMAIN L[h] : L[h][i] \in TreeNodes(leaves)
      BY DEF TreeNodes
    <2> HIDE DEF L, H
    <2>2. QED
      BY <2>1 DEF TreeSteps
  <1>8. \A proof \in Seq(PathSteps), s \in PathSteps :
          Up(Append(proof, s)) = IF s.left THEN HashNode(s.sibling, Up(proof)) ELSE HashNode(Up(proof), s.sibling)
    BY HashUpAppend
  <1>9. Up(<<>>) = HashLeaf(leaves[e])
    <2>1. <<>> \in Seq(PathSteps) /\ Len(<<>>) = 0
      OBVIOUS
    <2>2. HashUp(leaves[e], <<>>)[0] = HashLeaf(leaves[e])
      BY <2>1, HashUpOf
    <2>3. QED
      BY <2>1, <2>2
  <1> HIDE DEF n, H, L, W, P, PathSteps, Up
  <1>10. 0 \in T
    <2>1. P[0].idx \in Nat /\ P[0].idx < W[0] /\ P[0].idx + 1 = e
      <3>1. e - 1 \in Nat /\ e - 1 < n /\ (e - 1) + 1 = e
        BY <1>1
      <3>2. QED
        BY <1>3, <1>6, <3>1
    <2>2. L[0][e] = HashLeaf(leaves[e])
      BY <1>1, <1>4
    <2>3. P[0].proof \in Seq(PathSteps) /\ Len(P[0].proof) <= 0
      BY <1>6
    <2>4. Up(P[0].proof) = HashLeaf(leaves[e])
      BY <1>6, <1>9
    <2>5. QED
      BY <2>1, <2>2, <2>3, <2>4
  <1>11. ASSUME NEW h \in Nat, h \in T PROVE h + 1 \in T
    <2> SUFFICES ASSUME h + 1 <= H PROVE Good(h + 1)
      <3> HIDE DEF Good
      <3> QED
        OBVIOUS
    <2> DEFINE idx == P[h].idx
               proof == P[h].proof
               w == W[h]
               j == P[h + 1].idx + 1
    <2>1. h \in 0 .. H /\ h + 1 \in 1 .. H /\ h + 1 \in 0 .. H /\ h + 1 \in 1 .. n /\ (h + 1) - 1 = h
      BY <1>1, <1>2
    <2>2. /\ idx \in Nat /\ idx < w /\ proof \in Seq(PathSteps) /\ Len(proof) <= h
          /\ Up(proof) = L[h][idx + 1]
      BY <1>2, <1>11, <2>1
    <2>3. w \in Nat /\ DOMAIN L[h] = 1 .. w /\ Len(L[h]) = w
      BY <1>5, <2>1 DEF LevelShape
    <2>4. P[h + 1].idx = idx \div 2 /\ P[h + 1].proof = ProofStep(L[h], idx, proof)
      BY <1>6, <2>1
    <2>5. W[h + 1] = (w + 1) \div 2
      BY <1>3, <2>1
    <2>6. ASSUME NEW i \in 1 .. W[h + 1]
          PROVE  /\ 2 * i <= w => L[h + 1][i] = HashNode(L[h][2 * i - 1], L[h][2 * i])
                 /\ 2 * i > w => L[h + 1][i] = L[h][2 * i - 1]
      <3>1. LevelShape(L, W, h + 1)
        BY <1>5, <2>1
      <3> HIDE DEF T, Good
      <3>2. QED
        BY <2>1, <3>1 DEF LevelShape
    <2> HIDE DEF T, Good
    <2> HIDE DEF idx, proof, w
    <2>7. j \in 1 .. W[h + 1] /\ P[h + 1].idx \in Nat /\ P[h + 1].idx < W[h + 1]
      <3>1. idx \div 2 \in Nat /\ idx \div 2 < (w + 1) \div 2 /\ (w + 1) \div 2 \in Nat
        BY <2>2, <2>3
      <3>2. QED
        BY <2>4, <2>5, <3>1
    <2>8. /\ idx % 2 = 1 => 2 * j = idx + 1
          /\ idx % 2 # 1 => 2 * j = idx + 2
      <3>1. /\ idx % 2 = 1 => 2 * (idx \div 2 + 1) = idx + 1
            /\ idx % 2 # 1 => 2 * (idx \div 2 + 1) = idx + 2
        BY <2>2
      <3>2. QED
        BY <2>4, <3>1
    <2> HIDE DEF j
    <2>9. CASE idx % 2 = 1
      <3> DEFINE s == [sibling |-> L[h][idx], left |-> TRUE]
      <3>1. idx \in DOMAIN L[h]
        BY <2>2, <2>3, <2>9
      <3>2. s \in PathSteps /\ P[h + 1].proof = Append(proof, s)
        BY <1>7, <2>1, <2>4, <2>9, <3>1 DEF ProofStep
      <3>3. s.left /\ s.sibling = L[h][idx]
        OBVIOUS
      <3> HIDE DEF s
      <3>4. Up(P[h + 1].proof) = HashNode(L[h][idx], L[h][idx + 1])
        BY <1>8, <2>2, <3>2, <3>3
      <3>5. 2 * j <= w /\ 2 * j - 1 = idx /\ 2 * j = idx + 1
        BY <2>2, <2>3, <2>8, <2>9
      <3>6. Up(P[h + 1].proof) = L[h + 1][j]
        BY <2>6, <2>7, <3>4, <3>5
      <3>7. P[h + 1].proof \in Seq(PathSteps) /\ Len(P[h + 1].proof) <= h + 1
        BY <2>2, <3>2
      <3>8. QED
        BY <2>7, <3>6, <3>7 DEF j, Good
    <2>10. CASE idx % 2 # 1 /\ idx + 1 < w
      <3> DEFINE s == [sibling |-> L[h][idx + 2], left |-> FALSE]
      <3>1. idx + 2 \in DOMAIN L[h]
        BY <2>2, <2>3, <2>10
      <3>2. s \in PathSteps /\ P[h + 1].proof = Append(proof, s)
        BY <1>7, <2>1, <2>3, <2>4, <2>10, <3>1 DEF ProofStep
      <3>3. ~s.left /\ s.sibling = L[h][idx + 2]
        OBVIOUS
      <3> HIDE DEF s
      <3>4. Up(P[h + 1].proof) = HashNode(L[h][idx + 1], L[h][idx + 2])
        BY <1>8, <2>2, <3>2, <3>3
      <3>5. 2 * j <= w /\ 2 * j - 1 = idx + 1 /\ 2 * j = idx + 2
        BY <2>2, <2>3, <2>8, <2>10
      <3>6. Up(P[h + 1].proof) = L[h + 1][j]
        BY <2>6, <2>7, <3>4, <3>5
      <3>7. P[h + 1].proof \in Seq(PathSteps) /\ Len(P[h + 1].proof) <= h + 1
        BY <2>2, <3>2
      <3>8. QED
        BY <2>7, <3>6, <3>7 DEF j, Good
    <2>11. CASE idx % 2 # 1 /\ ~(idx + 1 < w)
      <3>1. P[h + 1].proof = proof
        BY <2>3, <2>4, <2>11 DEF ProofStep
      <3>2. 2 * j > w /\ 2 * j - 1 = idx + 1
        BY <2>2, <2>3, <2>8, <2>11
      <3>3. Up(P[h + 1].proof) = L[h + 1][j]
        BY <2>2, <2>6, <2>7, <3>1, <3>2
      <3>4. P[h + 1].proof \in Seq(PathSteps) /\ Len(P[h + 1].proof) <= h + 1
        BY <2>2, <3>1
      <3>5. QED
        BY <2>7, <3>3, <3>4 DEF j, Good
    <2>12. QED
      BY <2>9, <2>10, <2>11
  <1>12. Good(H)
    <2> HIDE DEF T, Good
    <2>1. H \in T
      BY <1>2, <1>10, <1>11, SetInduction
    <2>2. QED
      BY <1>2, <2>1 DEF T
  <1>13. P[H].idx = 0
    BY <1>2, <1>12
  <1>14. Up(P[H].proof) = RootHex(leaves)
    BY <1>1, <1>12, <1>13 DEF RootHex, L, H, n
  <1>15. Len(P[H].proof) <= MaxProof(n)
    <2>1. MaxProof(n) \in 0 .. n /\ H <= MaxProof(n)
      BY <1>1, MaxProofCovers DEF H
    <2>2. QED
      BY <1>2, <1>12, <2>1
  <1>16. QED
    BY <1>12, <1>14, <1>15 DEF VerifyProof, Proof, P, H, n, Up, PathSteps

-------------------------------------------------------------------------------
(* The chain of sealed batches *)

Roots == {RootHex(b) : b \in Batches} \cup {RootHex(<<>>)}
SealedTrees == {Sealed(p, b) : p \in Roots, b \in Batches}

\* Each batch continues the one before it; the first one continues nothing, and
\* so would any batch that a sealer holds a root for while there is none yet.
ChainInv ==
  /\ trees \in Seq(SealedTrees)
  /\ held \in [Sealers -> Roots \cup {NoRoot}]
  /\ VerifyContinuity(trees)
  /\ trees # <<>> => trees[1].previous = RootHex(<<>>)
  /\ trees = <<>> => \A s \in Sealers : held[s] \in {NoRoot, RootHex(<<>>)}

\* What a sealed batch says of its entries.
LEMMA SealedFacts ==
  ASSUME NEW t \in SealedTrees
  PROVE  /\ t.entries \in Seq(Leaves) /\ t.root = RootHex(t.entries)
         /\ t.size = Len(t.entries) /\ t.root \in Roots
  <1>1. PICK p \in Roots, b \in Batches : t = Sealed(p, b)
    BY DEF SealedTrees
  <1>2. t.entries = b /\ t.root = RootHex(b) /\ t.size = Len(b)
    BY <1>1 DEF Sealed
  <1>3. b \in Seq(Leaves) /\ RootHex(b) \in Roots
    BY AuditChainAssumption DEF Roots
  <1>4. QED
    BY <1>2, <1>3

\* The calls of the chain keep the invariant, in whatever order they come.
LEMMA ChainStep == ChainInv /\ ChainNext => ChainInv'
  <1> SUFFICES ASSUME ChainInv, ChainNext PROVE ChainInv'
    OBVIOUS
  <1>1. PICK s \in Sealers : ReadLatestRoot(s) \/ \E b \in Batches : SealChecked(s, b)
    BY DEF ChainNext
  <1>2. trees \in Seq(SealedTrees) /\ Len(trees) \in Nat /\ held \in [Sealers -> Roots \cup {NoRoot}]
    BY DEF ChainInv
  <1>3. CASE ReadLatestRoot(s)
    <2>1. trees' = trees /\ held' = [held EXCEPT ![s] = LatestRoot]
      BY <1>3 DEF ReadLatestRoot
    <2>2. LatestRoot \in Roots /\ (trees = <<>> => LatestRoot = RootHex(<<>>))
      <3>1. CASE trees = <<>>
        BY <3>1 DEF LatestRoot, Roots
      <3>2. CASE trees # <<>>
        <4>1. trees[Len(trees)] \in SealedTrees
          BY <1>2, <3>2
        <4>2. QED
          BY <3>2, <4>1, SealedFacts DEF LatestRoot
      <3>3. QED
        BY <3>1, <3>2
    <2>3. held' \in [Sealers -> Roots \cup {NoRoot}]
      BY <1>2, <2>1, <2>2
    <2>4. trees = <<>> => \A x \in Sealers : held'[x] \in {NoRoot, RootHex(<<>>)}
      BY <1>2, <2>1, <2>2 DEF ChainInv
    <2>5. QED
      BY <2>1, <2>3, <2>4 DEF ChainInv, VerifyContinuity
  <1>4. ASSUME NEW b \in Batches, SealChecked(s, b) PROVE ChainInv'
    <2> DEFINE t == Sealed(held[s], b)
    <2>1. /\ held[s] # NoRoot /\ held' = [held EXCEPT ![s] = NoRoot]
          /\ trees' = IF Links(held[s]) THEN Append(trees, t) ELSE trees
      BY <1>4 DEF SealChecked
    <2>2. held' \in [Sealers -> Roots \cup {NoRoot}]
      BY <1>2, <2>1
    <2>3. \A x \in Sealers : held'[x] = NoRoot \/ held'[x] = held[x]
      BY <1>2, <2>1
    <2>4. CASE ~Links(held[s])
      <3>1. trees' = trees
        BY <2>1, <2>4
      <3>2. QED
        BY <2>2, <2>3, <3>1 DEF ChainInv, VerifyContinuity
    <2>5. CASE Links(held[s])
      <3>1. t \in SealedTrees
        BY <1>2, <2>1 DEF SealedTrees
      <3>2. t.previous = held[s]
        BY DEF Sealed
      <3> HIDE DEF t
      <3>3. /\ trees' = Append(trees, t) /\ trees' \in Seq(SealedTrees) /\ trees' # <<>>
            /\ Len(trees') = Len(trees) + 1 /\ trees'[Len(trees) + 1] = t
            /\ \A i \in 1 .. Len(trees) : trees'[i] = trees[i]
        BY <1>2, <2>1, <2>5, <3>1
      <3>4. VerifyContinuity(trees')
        <4> SUFFICES ASSUME NEW i \in 2 .. Len(trees) + 1 PROVE trees'[i].previous = trees'[i - 1].root
          BY <3>3 DEF VerifyContinuity
        <4>1. CASE i \in 2 .. Len(trees)
          <5>1. trees[i].previous = trees[i - 1].root
            BY <4>1 DEF ChainInv, VerifyContinuity
          <5>2. i \in 1 .. Len(trees) /\ i - 1 \in 1 .. Len(trees)
            BY <1>2, <4>1
          <5>3. QED
            BY <3>3, <5>1, <5>2
        <4>2. CASE i = Len(trees) + 1
          <5>1. Len(trees) \in 1 .. Len(trees) /\ trees # <<>> /\ i - 1 = Len(trees)
            BY <1>2, <4>2
          <5>2. t.previous = trees[Len(trees)].root
            BY <2>5, <3>2, <5>1 DEF Links
          <5>3. QED
            BY <3>3, <4>2, <5>1, <5>2
        <4>3. QED
          BY <1>2, <4>1, <4>2
      <3>5. trees'[1].previous = RootHex(<<>>)
        <4>1. CASE trees = <<>>
          <5>1. Len(trees) + 1 = 1
            BY <4>1
          <5>2. held[s] = RootHex(<<>>)
            BY <2>1, <4>1 DEF ChainInv
          <5>3. QED
            BY <3>2, <3>3, <5>1, <5>2
        <4>2. CASE trees # <<>>
          <5>1. 1 \in 1 .. Len(trees)
            BY <1>2, <4>2
          <5>2. QED
            BY <3>3, <4>2, <5>1 DEF ChainInv
        <4>3. QED
          BY <4>1, <4>2
      <3>6. QED
        BY <2>2, <3>3, <3>4, <3>5 DEF ChainInv, VerifyContinuity
    <2>6. QED
      BY <2>4, <2>5
  <1>5. QED
    BY <1>1, <1>3, <1>4

\* Distinct roots leave one place for each batch.
LEMMA InvContinuous == ChainInv => ChainContinuous
  <1> SUFFICES ASSUME ChainInv PROVE ChainContinuous
    OBVIOUS
  <1>1. trees \in Seq(SealedTrees) /\ Len(trees) \in Nat /\ DOMAIN trees = 1 .. Len(trees)
    BY DEF ChainInv
  <1>2. VerifyContinuity(trees)
    BY DEF ChainInv
  <1>3. ASSUME \A i, j \in DOMAIN trees : trees[i].size > 0 /\ (i # j => trees[i].root # trees[j].root),
               NEW i \in DOMAIN trees, NEW j \in DOMAIN trees
        PROVE  VerifyContinuity(<<trees[i], trees[j]>>) <=> j = i + 1
    <2>1. VerifyContinuity(<<trees[i], trees[j]>>) <=> trees[j].previous = trees[i].root
      BY DEF VerifyContinuity
    <2>2. CASE j = 1
      <3>1. trees # <<>> /\ j # i + 1
        BY <1>1, <2>2
      <3>2. trees[j].previous = RootHex(<<>>)
        BY <2>2, <3>1 DEF ChainInv
      <3>3. trees[i] \in SealedTrees /\ trees[i].size > 0
        BY <1>1, <1>3
      <3>4. /\ trees[i].entries \in Seq(Leaves) /\ trees[i].root = RootHex(trees[i].entries)
            /\ Len(trees[i].entries) > 0
        BY <3>3, SealedFacts
      <3>5. trees[i].entries # <<>>
        BY <3>4
      <3>6. trees[i].root # RootHex(<<>>)
        BY <3>4, <3>5, RootIsNode
      <3>7. QED
        BY <2>1, <3>1, <3>2, <3>6
    <2>3. CASE j # 1
      <3>1. j \in 2 .. Len(trees) /\ j - 1 \in DOMAIN trees
        BY <1>1, <2>3
      <3>2. trees[j].previous = trees[j - 1].root
        BY <1>2, <3>1 DEF VerifyContinuity
      <3>3. trees[j].previous = trees[i].root <=> i = j - 1
        BY <1>3, <3>1, <3>2
      <3>4. i = j - 1 <=> j = i + 1
        BY <1>1
      <3>5. QED
        BY <2>1, <3>3, <3>4
    <2>4. QED
      BY <2>2, <2>3
  <1>4. QED
    BY <1>2, <1>3 DEF ChainContinuous

\* The Merkle lemmas, for the batches of a chain.
LEMMA InvProofs == ChainInv => ProofsSound
  <1> SUFFICES ASSUME ChainInv, NEW b \in DOMAIN trees, NEW c \in DOMAIN trees,
                      NEW i \in DOMAIN trees[c].entries, NEW leaf \in Leaves
               PROVE  LET proof == Proof(trees[c].entries, i - 1)
                      IN /\ b = c /\ leaf = trees[c].entries[i] => Verify(b, leaf, proof)
                         /\ Verify(b, leaf, proof) =>
                              \E k \in DOMAIN trees[b].entries : trees[b].entries[k] = leaf
    BY DEF ProofsSound
  <1>1. trees[b] \in SealedTrees /\ trees[c] \in SealedTrees
    BY DEF ChainInv
  <1>2. PICK B \in Seq(Leaves) : B = trees[b].entries /\ trees[b].root = RootHex(B) /\ trees[b].size = Len(B)
    BY <1>1, SealedFacts
  <1>3. PICK C \in Seq(Leaves) : C = trees[c].entries /\ trees[c].root = RootHex(C) /\ trees[c].size = Len(C)
    BY <1>1, SealedFacts
  <1>4. i \in DOMAIN C
    BY <1>3
  <1> DEFINE proof == Proof(C, i - 1)
  <1>5. proof \in Seq(TreeSteps(C)) /\ VerifyProof(C[i], proof, RootHex(C), Len(C))
    BY <1>4, ProofComplete
  <1> HIDE DEF proof
  <1>6. b = c /\ leaf = C[i] => Verify(b, leaf, proof)
    BY <1>3, <1>5 DEF Verify
  <1>7. ASSUME Verify(b, leaf, proof) PROVE \E k \in DOMAIN B : B[k] = leaf
    <2>1. HashUp(leaf, proof)[Len(proof)] = RootHex(B)
      BY <1>2, <1>7 DEF Verify, VerifyProof
    <2>2. QED
      BY <1>5, <2>1, ProofSound
  <1>8. QED
    BY <1>2, <1>3, <1>6, <1>7 DEF proof

\* The chain's invariant holds in every reachable state: only the sealers'
\* calls touch the chain.
LEMMA ChainReachable == Spec => []ChainInv
  <1>1. Init => ChainInv
    <2> SUFFICES ASSUME Init PROVE ChainInv
      OBVIOUS
    <2>1. trees = <<>> /\ held = [x \in Sealers |-> NoRoot]
      BY DEF Init
    <2>2. QED
      BY <2>1 DEF ChainInv, VerifyContinuity
  <1>2. ChainInv /\ [Next]_vars => ChainInv'
    <2> SUFFICES ASSUME ChainInv, [Next]_vars PROVE ChainInv'
      OBVIOUS
    <2>1. CASE Seal
      BY <2>1, ChainStep DEF Seal
    <2>2. CASE UNCHANGED chainVars
      BY <2>2 DEF chainVars, ChainInv, VerifyContinuity
    <2>3. Seal \/ UNCHANGED chainVars
      BY DEF Next, vars, Record, Sign, Lock, Ack, Fail, Rotate, Close, Crash, NewSupervisionStore,
             Archive, QueryOpen, QueryLine, QueryEnd
    <2>4. QED
      BY <2>1, <2>2, <2>3
  <1>3. QED
    BY <1>1, <1>2, PTL DEF Spec

\* However the sealers interleave, whatever the size of their batches and however
\* many they seal: the chain is continuous, a selection of it that looks
\* continuous is a gapless stretch in its order, every entry has a proof that
\* Verify accepts within its bound, and a proof shows no entry but those sealed.
THEOREM ChainHolds == Spec => []ChainTamperEvident
  <1>1. ChainInv => ChainTamperEvident
    BY InvContinuous, InvProofs DEF ChainTamperEvident
  <1>2. QED
    BY <1>1, ChainReachable, PTL

-------------------------------------------------------------------------------
(* Reading a log back *)

\* The values F of a loop: it starts with a, and g makes a value of the last one.
Loop(F, N, a, g) == F[0] = a /\ \A n \in 1 .. N : F[n] = g[<<n, F[n - 1]>>]

\* A loop of N rounds that stays within D has values.
LEMMA LoopExists ==
  ASSUME NEW N \in Nat, NEW D, NEW a \in D, NEW g \in [(1 .. N) \X D -> D]
  PROVE  \E F \in [0 .. N -> D] : Loop(F, N, a, g)
  <1> USE DEF Loop
  <1> DEFINE Is(F, m) == Loop(F, m, a, g)
             Some(m) == \E F \in [0 .. m -> D] : Is(F, m)
             T == {m \in Nat : m <= N => Some(m)}
  <1>1. 0 \in T
    <2>1. [n \in 0 .. 0 |-> a] \in [0 .. 0 -> D] /\ Is([n \in 0 .. 0 |-> a], 0)
      OBVIOUS
    <2> HIDE DEF Is
    <2>2. Some(0)
      BY <2>1
    <2>3. QED
      BY <2>2
  <1>2. ASSUME NEW m \in Nat, m \in T PROVE m + 1 \in T
    <2> SUFFICES ASSUME m + 1 <= N PROVE Some(m + 1)
      <3> HIDE DEF Some
      <3> QED
        OBVIOUS
    <2>1. PICK F \in [0 .. m -> D] : Is(F, m)
      BY <1>2
    <2> DEFINE U == [n \in 0 .. m + 1 |-> IF n = m + 1 THEN g[<<m + 1, F[m]>>] ELSE F[n]]
    <2>2. m + 1 \in 1 .. N /\ F[m] \in D
      OBVIOUS
    <2>3. g[<<m + 1, F[m]>>] \in D
      BY <2>2
    <2>4. U \in [0 .. m + 1 -> D]
      BY <2>3
    <2>5. U[0] = a
      BY <2>1
    <2>6. ASSUME NEW n \in 1 .. m + 1 PROVE U[n] = g[<<n, U[n - 1]>>]
      <3>1. CASE n = m + 1
        BY <3>1
      <3>2. CASE n # m + 1
        <4>1. n \in 1 .. m /\ U[n] = F[n] /\ U[n - 1] = F[n - 1]
          BY <3>2
        <4>2. QED
          BY <2>1, <4>1
      <3>3. QED
        BY <3>1, <3>2
    <2>7. Is(U, m + 1)
      BY <2>5, <2>6
    <2> HIDE DEF U, Is
    <2>8. QED
      BY <2>4, <2>7
  <1>3. N \in T
    <2> HIDE DEF T
    <2>1. QED
      BY <1>1, <1>2, SetInduction
  <1>4. QED
    BY <1>3

\* Such a record has a value of D for every round.
LEMMA LoopStays ==
  ASSUME NEW N \in Nat, NEW D, NEW F, F[0] \in D,
         \A n \in 1 .. N : F[n - 1] \in D => F[n] \in D
  PROVE  \A n \in 0 .. N : F[n] \in D
  <1> DEFINE T == {n \in Nat : n <= N => F[n] \in D}
  <1>1. 0 \in T
    OBVIOUS
  <1>2. ASSUME NEW n \in Nat, n \in T PROVE n + 1 \in T
    <2> SUFFICES ASSUME n + 1 <= N PROVE F[n + 1] \in D
      OBVIOUS
    <2>1. n + 1 \in 1 .. N /\ (n + 1) - 1 = n /\ F[n] \in D
      BY <1>2
    <2>2. QED
      BY <2>1
  <1> HIDE DEF T
  <1>3. \A n \in Nat : n \in T
    BY <1>1, <1>2, SetInduction
  <1>4. QED
    BY <1>3 DEF T

\* The bytes of a file: which byte of which of its writes.
FileBytes(file) == (DOMAIN file) \X Nat

\* A byte is one of a file's if its write is.
LEMMA ByteOf ==
  ASSUME NEW file, NEW i \in DOMAIN file, NEW k \in Nat
  PROVE  <<i, k>> \in FileBytes(file)
  BY DEF FileBytes

\* The bytes of the first writes.
LEMMA FirstBytesOf ==
  ASSUME NEW file \in Seq(Line)
  PROVE  /\ FirstBytes(file) \in [0 .. Len(file) -> Seq(FileBytes(file))]
         /\ FirstBytes(file)[0] = <<>>
         /\ \A i \in 1 .. Len(file) :
              FirstBytes(file)[i] = FirstBytes(file)[i - 1] \o LineBytes(file, i)
  <1> DEFINE N == Len(file)
             D == Seq(FileBytes(file))
             a == <<>>
             g == [p \in (1 .. N) \X D |-> p[2] \o LineBytes(file, p[1])]
  <1>1. N \in Nat /\ DOMAIN file = 1 .. N
    OBVIOUS
  <1>2. ASSUME NEW i \in 1 .. N PROVE LineBytes(file, i) \in D
    <2>1. file[i].len \in Nat
      <3>1. file[i] \in Line
        BY <1>1
      <3>2. QED
        BY <3>1 DEF Line
    <2> HIDE DEF D, N
    <2>2. \A k \in 1 .. file[i].len : <<i, k>> \in FileBytes(file)
      <3>1. \A k \in 1 .. file[i].len : k \in Nat
        BY <2>1
      <3>2. i \in DOMAIN file
        BY <1>1
      <3>3. \A k \in Nat : <<i, k>> \in FileBytes(file)
        BY <3>2, ByteOf
      <3>4. QED
        BY <3>1, <3>3
    <2>3. LineBytes(file, i) \in [1 .. file[i].len -> FileBytes(file)]
      BY <2>2 DEF LineBytes
    <2>4. QED
      BY <2>1, <2>3, SeqDef DEF D
  <1>3. a \in D
    OBVIOUS
  <1>4. \A i \in 1 .. N, s \in D : s \o LineBytes(file, i) \in D
    <2>1. \A s, t \in D : s \o t \in D
      OBVIOUS
    <2> HIDE DEF D, N
    <2>2. QED
      BY <1>2, <2>1
  <1> HIDE DEF D, N
  <1>5. g \in [(1 .. N) \X D -> D]
    BY <1>4
  <1>6. \A i \in 1 .. N, s \in D : g[<<i, s>>] = s \o LineBytes(file, i)
    OBVIOUS
  <1> HIDE DEF g, a
  <1>7. PICK F \in [0 .. N -> D] : Loop(F, N, a, g)
    BY <1>1, <1>3, <1>5, LoopExists
  <1>8. \A n \in 1 .. N : F[n] = F[n - 1] \o LineBytes(file, n)
    <2> SUFFICES ASSUME NEW n \in 1 .. N PROVE F[n] = F[n - 1] \o LineBytes(file, n)
      OBVIOUS
    <2>1. n - 1 \in 0 .. N
      BY <1>1
    <2>2. F[n - 1] \in D
      BY <2>1
    <2>3. QED
      BY <1>6, <1>7, <2>2 DEF Loop
  <1> DEFINE Is(B) == B = [i \in 0 .. N |-> IF i = 0 THEN a ELSE B[i - 1] \o LineBytes(file, i)]
  <1>9. Is(F)
    <2>1. \A i \in 0 .. N : F[i] = IF i = 0 THEN a ELSE F[i - 1] \o LineBytes(file, i)
      BY <1>1, <1>7, <1>8 DEF Loop
    <2>2. QED
      BY <2>1
  <1>10. Is(FirstBytes(file))
    BY <1>9 DEF FirstBytes, N, a
  <1> DEFINE B == FirstBytes(file)
  <1>11. DOMAIN B = 0 .. N /\ B = [i \in 0 .. N |-> B[i]]
    BY <1>10
  <1>12. B[0] = a /\ \A i \in 1 .. N : B[i] = B[i - 1] \o LineBytes(file, i)
    <2> HIDE DEF B
    <2>1. 0 \in 0 .. N /\ \A i \in 1 .. N : i \in 0 .. N /\ i # 0
      BY <1>1
    <2>2. QED
      BY <1>10, <2>1 DEF B
  <1> HIDE DEF B, Is
  <1>13. \A i \in 1 .. N : B[i - 1] \in D => B[i] \in D
    BY <1>4, <1>12
  <1>14. \A i \in 0 .. N : B[i] \in D
    BY <1>1, <1>3, <1>12, <1>13, LoopStays
  <1>15. B \in [0 .. N -> D]
    BY <1>11, <1>14
  <1>16. QED
    BY <1>12, <1>15 DEF B, N, D, a

\* Which byte stands where: those of write i follow the bytes before it.
LEMMA BytesOf ==
  ASSUME NEW file \in Seq(Line)
  PROVE  /\ Bytes(file) \in Seq(FileBytes(file))
         /\ Len(Bytes(file)) = Written(file) /\ Written(file) \in Nat
         /\ \A i \in 1 .. Len(file) : \A k \in 1 .. file[i].len :
              /\ Sums(file)[i - 1] + k \in 1 .. Len(Bytes(file))
              /\ Bytes(file)[Sums(file)[i - 1] + k] = <<i, k>>
         /\ \A q \in 1 .. Len(Bytes(file)) :
              \E i \in 1 .. Len(file) : \E k \in 1 .. file[i].len : q = Sums(file)[i - 1] + k
  <1> DEFINE N == Len(file)
             B == FirstBytes(file)
             X == Sums(file)
             Placed(n) == \A i \in 1 .. n : \A k \in 1 .. file[i].len :
                            X[i - 1] + k \in 1 .. X[n] /\ B[n][X[i - 1] + k] = <<i, k>>
             Covered(n) == \A q \in 1 .. X[n] :
                             \E i \in 1 .. n : \E k \in 1 .. file[i].len : q = X[i - 1] + k
             T == {n \in Nat : n <= N => Len(B[n]) = X[n] /\ Placed(n) /\ Covered(n)}
  <1>1. N \in Nat /\ \A i \in 1 .. N : file[i].len \in Nat
    <2>1. Len(file) \in Nat /\ \A i \in 1 .. Len(file) : file[i] \in Line
      OBVIOUS
    <2>2. QED
      BY <2>1 DEF Line
  <1>2. /\ X \in [0 .. N -> Nat] /\ X[0] = 0
        /\ \A i \in 1 .. N : X[i] = X[i - 1] + file[i].len
        /\ Written(file) = X[N]
    BY SumsOf
  <1>3. /\ B \in [0 .. N -> Seq(FileBytes(file))] /\ B[0] = <<>>
        /\ \A i \in 1 .. N : B[i] = B[i - 1] \o LineBytes(file, i)
    BY FirstBytesOf
  <1> HIDE DEF N, B, X
  <1>4. 0 \in T
    <2>1. Len(B[0]) = X[0]
      BY <1>2, <1>3
    <2>2. QED
      BY <1>2, <2>1
  <1>5. ASSUME NEW n \in Nat, n \in T PROVE n + 1 \in T
    <2> DEFINE m == n + 1
    <2> SUFFICES ASSUME m <= N PROVE Len(B[m]) = X[m] /\ Placed(m) /\ Covered(m)
      <3> HIDE DEF Placed, Covered
      <3> QED
        OBVIOUS
    <2>1. /\ n \in 0 .. N /\ m \in 1 .. N /\ m - 1 = n /\ X[n] \in Nat /\ file[m].len \in Nat
          /\ X[m] = X[n] + file[m].len
      <3>1. n \in 0 .. N /\ m \in 1 .. N /\ m - 1 = n
        BY <1>1
      <3> HIDE DEF m
      <3>2. QED
        BY <1>1, <1>2, <3>1
    <2>2. Len(B[n]) = X[n] /\ Placed(n) /\ Covered(n)
      <3> HIDE DEF Placed, Covered
      <3> QED
        BY <1>1, <1>5, <2>1
    <2> DEFINE L == LineBytes(file, m)
    <2>3. L \in Seq(FileBytes(file)) /\ Len(L) = file[m].len /\ \A k \in 1 .. file[m].len : L[k] = <<m, k>>
      <3>1. L = [k \in 1 .. file[m].len |-> L[k]] /\ \A k \in 1 .. file[m].len : L[k] = <<m, k>>
        BY DEF LineBytes
      <3>2. Len(L) = file[m].len
        BY <2>1, <3>1, FunctionLen
      <3>3. m \in DOMAIN file /\ \A k \in 1 .. file[m].len : k \in Nat
        BY <2>1 DEF N
      <3>4. \A k \in 1 .. file[m].len : <<m, k>> \in FileBytes(file)
        BY <3>3, ByteOf
      <3>5. L \in [1 .. file[m].len -> FileBytes(file)]
        BY <3>1, <3>4
      <3>6. L \in Seq(FileBytes(file))
        <4> DEFINE w == file[m].len
                   S == FileBytes(file)
        <4>1. w \in Nat /\ L \in [1 .. w -> S]
          BY <2>1, <3>5
        <4> HIDE DEF w, S, L, m
        <4>2. L \in Seq(S)
          BY <4>1, SeqDef
        <4>3. QED
          BY <4>2 DEF S
      <3>7. QED
        BY <3>1, <3>2, <3>6
    <2>4. B[m] = B[n] \o L /\ B[n] \in Seq(FileBytes(file))
      BY <1>3, <2>1
    <2> HIDE DEF L, m
    <2>5. /\ Len(B[m]) = X[m]
          /\ \A q \in 1 .. X[n] : B[m][q] = B[n][q]
          /\ \A k \in 1 .. file[m].len : B[m][X[n] + k] = <<m, k>>
      <3>1. /\ Len(B[n] \o L) = Len(B[n]) + Len(L)
            /\ \A q \in 1 .. Len(B[n]) : (B[n] \o L)[q] = B[n][q]
            /\ \A k \in 1 .. Len(L) : (B[n] \o L)[Len(B[n]) + k] = L[k]
        <4> DEFINE s == B[n]
                   S == FileBytes(file)
        <4>1. s \in Seq(S) /\ L \in Seq(S)
          BY <2>3, <2>4
        <4> HIDE DEF s, S
        <4>2. /\ Len(s \o L) = Len(s) + Len(L)
              /\ \A q \in 1 .. Len(s) : (s \o L)[q] = s[q]
              /\ \A k \in 1 .. Len(L) : (s \o L)[Len(s) + k] = L[k]
          BY <4>1
        <4>3. QED
          BY <4>2 DEF s
      <3>2. QED
        BY <2>1, <2>2, <2>3, <2>4, <3>1
    <2>6. \A i \in 1 .. m : i \in 1 .. n \/ i = m
      BY <2>1
    <2>7. Placed(m)
      <3> SUFFICES ASSUME NEW i \in 1 .. m, NEW k \in 1 .. file[i].len
                   PROVE  X[i - 1] + k \in 1 .. X[m] /\ B[m][X[i - 1] + k] = <<i, k>>
        OBVIOUS
      <3>1. CASE i = m
        BY <2>1, <2>5, <3>1
      <3>2. CASE i \in 1 .. n
        <4>1. X[i - 1] + k \in 1 .. X[n] /\ B[n][X[i - 1] + k] = <<i, k>>
          BY <2>2, <3>2
        <4> DEFINE q == X[i - 1] + k
        <4>2. q \in 1 .. X[n] /\ B[n][q] = <<i, k>>
          BY <4>1
        <4> HIDE DEF q
        <4>3. q \in 1 .. X[m] /\ B[m][q] = <<i, k>>
          <5>1. B[m][q] = B[n][q]
            BY <2>5, <4>2
          <5>2. q \in 1 .. X[m]
            BY <2>1, <4>2
          <5>3. QED
            BY <4>2, <5>1, <5>2
        <4>4. QED
          BY <4>3 DEF q
      <3>3. QED
        BY <2>6, <3>1, <3>2
    <2>8. Covered(m)
      <3> SUFFICES ASSUME NEW q \in 1 .. X[m]
                   PROVE  \E i \in 1 .. m : \E k \in 1 .. file[i].len : q = X[i - 1] + k
        OBVIOUS
      <3>1. CASE q <= X[n]
        <4>1. PICK i \in 1 .. n : \E k \in 1 .. file[i].len : q = X[i - 1] + k
          <5>1. q \in 1 .. X[n]
            BY <2>1, <3>1
          <5>2. QED
            BY <2>2, <5>1
        <4>2. i \in 1 .. m
          BY <2>1
        <4>3. QED
          BY <4>1, <4>2
      <3>2. CASE q > X[n]
        <4>1. q - X[n] \in 1 .. file[m].len /\ q = X[m - 1] + (q - X[n]) /\ m \in 1 .. m
          BY <2>1, <3>2
        <4>2. QED
          BY <4>1
      <3>3. QED
        BY <2>1, <3>1, <3>2
    <2>9. QED
      BY <2>5, <2>7, <2>8
  <1>6. N \in T
    <2> HIDE DEF T
    <2>1. QED
      BY <1>1, <1>4, <1>5, SetInduction
  <1>7. Len(B[N]) = X[N] /\ Placed(N) /\ Covered(N)
    <2> HIDE DEF Placed, Covered
    <2>1. QED
      BY <1>1, <1>6
  <1>8. B[N] \in Seq(FileBytes(file)) /\ X[N] \in Nat
    BY <1>1, <1>2, <1>3
  <1>9. Bytes(file) = B[N]
    BY DEF Bytes, B, N
  <1> HIDE DEF T
  <1>10. Len(Bytes(file)) = X[N] /\ X[N] = Written(file)
    BY <1>2, <1>7, <1>9
  <1>11. \A i \in 1 .. N : \A k \in 1 .. file[i].len :
           X[i - 1] + k \in 1 .. Len(Bytes(file)) /\ Bytes(file)[X[i - 1] + k] = <<i, k>>
    <2>1. Placed(N)
      BY <1>7
    <2>2. QED
      BY <2>1, <1>9, <1>10, Zenon
  <1>12. \A q \in 1 .. Len(Bytes(file)) : \E i \in 1 .. N : \E k \in 1 .. file[i].len : q = X[i - 1] + k
    <2>1. Covered(N)
      BY <1>7
    <2>2. QED
      BY <2>1, <1>10, Zenon
  <1>13. QED
    BY <1>8, <1>9, <1>10, <1>11, <1>12, Zenon DEF X, N

\* What stands before write i.
LEMMA StartOfLine ==
  ASSUME NEW file \in Seq(Line), NEW i \in 1 .. Len(file)
  PROVE  StartOf(file, i) = Sums(file)[i - 1]
  <1> DEFINE part == SubSeq(file, 1, i - 1)
  <1>1. /\ part \in Seq(Line) /\ Len(part) = i - 1 /\ Len(file) \in Nat
        /\ \A j \in 1 .. i - 1 : part[j] = file[j]
    OBVIOUS
  <1> HIDE DEF part
  <1>2. /\ Sums(part)[0] = 0 /\ Written(part) = Sums(part)[Len(part)]
        /\ \A j \in 1 .. Len(part) : Sums(part)[j] = Sums(part)[j - 1] + part[j].len
    BY <1>1, SumsOf
  <1>3. /\ Sums(file)[0] = 0
        /\ \A j \in 1 .. Len(file) : Sums(file)[j] = Sums(file)[j - 1] + file[j].len
    BY SumsOf
  <1> DEFINE T == {n \in Nat : n <= i - 1 => Sums(part)[n] = Sums(file)[n]}
  <1>4. 0 \in T
    BY <1>2, <1>3
  <1>5. ASSUME NEW n \in Nat, n \in T PROVE n + 1 \in T
    <2> SUFFICES ASSUME n + 1 <= i - 1 PROVE Sums(part)[n + 1] = Sums(file)[n + 1]
      OBVIOUS
    <2>1. /\ n + 1 \in 1 .. i - 1 /\ n + 1 \in 1 .. Len(part) /\ n + 1 \in 1 .. Len(file)
          /\ (n + 1) - 1 = n /\ Sums(part)[n] = Sums(file)[n]
      BY <1>1, <1>5
    <2>2. Sums(part)[n + 1] = Sums(part)[n] + part[n + 1].len
      BY <1>2, <2>1
    <2>3. Sums(file)[n + 1] = Sums(file)[n] + file[n + 1].len
      BY <1>3, <2>1
    <2>4. QED
      BY <1>1, <2>1, <2>2, <2>3
  <1>6. i - 1 \in Nat
    BY <1>1
  <1>7. i - 1 \in T
    <2> HIDE DEF T
    <2>1. QED
      BY <1>4, <1>5, <1>6, SetInduction
  <1>8. QED
    BY <1>1, <1>2, <1>6, <1>7 DEF StartOf, part

\* What one byte makes of the pieces: a newline opens another one, any other
\* byte is put at the end of the last.
CutShape(cut, pieces, b, newline) ==
  LET n == Len(pieces)
  IN /\ n \in Nat /\ n > 0
     /\ \A k \in 1 .. n - 1 : cut[k] = pieces[k]
     /\ newline => Len(cut) = n + 1 /\ cut[n] = pieces[n] /\ cut[n + 1] = <<>>
     /\ ~newline => Len(cut) = n /\ cut[n] = Append(pieces[n], b)

\* Cut has that shape.
LEMMA CutOf ==
  ASSUME NEW file, NEW S, NEW pieces \in Seq(Seq(S)), pieces # <<>>, NEW b \in S
  PROVE  /\ Cut(file, pieces, b) \in Seq(Seq(S)) /\ Cut(file, pieces, b) # <<>>
         /\ CutShape(Cut(file, pieces, b), pieces, b, IsNewline(file, b))
  <1> DEFINE cut == Cut(file, pieces, b)
             n == Len(pieces)
             D == Seq(S)
             last == Append(pieces[n], b)
  <1>1. n \in Nat /\ n > 0 /\ pieces[n] \in D
    OBVIOUS
  <1>2. CASE IsNewline(file, b)
    <2>1. cut = Append(pieces, <<>>)
      BY <1>2 DEF Cut
    <2>2. <<>> \in D
      OBVIOUS
    <2> HIDE DEF cut, D
    <2>3. /\ cut \in Seq(D) /\ cut # <<>> /\ Len(cut) = n + 1 /\ cut[n + 1] = <<>>
          /\ \A k \in 1 .. n : cut[k] = pieces[k]
      BY <1>1, <2>1, <2>2 DEF D
    <2>4. cut[n] = pieces[n] /\ \A k \in 1 .. n - 1 : cut[k] = pieces[k]
      BY <1>1, <2>3
    <2> HIDE DEF n
    <2>5. QED
      BY <1>1, <1>2, <2>3, <2>4 DEF cut, D, n, CutShape
  <1>3. CASE ~IsNewline(file, b)
    <2>1. cut = [pieces EXCEPT ![n] = last]
      BY <1>3 DEF Cut
    <2>2. last \in D
      BY <1>1
    <2> HIDE DEF cut, last, D
    <2>3. /\ cut \in Seq(D) /\ Len(cut) = n /\ cut[n] = last
          /\ \A k \in 1 .. n - 1 : cut[k] = pieces[k]
      BY <1>1, <2>1, <2>2, ExceptSeq DEF D
    <2>4. cut # <<>>
      BY <1>1, <2>3
    <2>5. QED
      BY <1>1, <1>3, <2>3, <2>4 DEF cut, D, last, CutShape
  <1>4. QED
    BY <1>2, <1>3

\* The pieces of every prefix of a text.
LEMMA PiecesOf ==
  ASSUME NEW file, NEW S, NEW text \in Seq(S)
  PROVE  LET P == Pieces(file, text)
         IN /\ P[0] = <<<<>>>>
            /\ \A n \in 0 .. Len(text) : P[n] \in Seq(Seq(S)) /\ P[n] # <<>>
            /\ \A n \in 1 .. Len(text) : P[n] = Cut(file, P[n - 1], text[n])
  <1> DEFINE N == Len(text)
             D == {p \in Seq(Seq(S)) : p # <<>>}
             a == <<<<>>>>
             g == [p \in (1 .. N) \X D |-> Cut(file, p[2], text[p[1]])]
  <1>1. N \in Nat /\ \A n \in 1 .. N : text[n] \in S
    OBVIOUS
  <1>2. \A n \in 1 .. N : \A p \in D : Cut(file, p, text[n]) \in D
    <2> SUFFICES ASSUME NEW n \in 1 .. N, NEW p \in D PROVE Cut(file, p, text[n]) \in D
      OBVIOUS
    <2> DEFINE b == text[n]
    <2>1. p \in Seq(Seq(S)) /\ p # <<>> /\ b \in S
      BY <1>1
    <2> HIDE DEF D, b
    <2>2. Cut(file, p, b) \in Seq(Seq(S)) /\ Cut(file, p, b) # <<>>
      BY <2>1, CutOf
    <2>3. QED
      BY <2>2 DEF D, b
  <1>3. a \in D
    <2>1. <<>> \in Seq(S)
      OBVIOUS
    <2>2. QED
      BY <2>1
  <1> HIDE DEF D, N, a
  <1>4. g \in [(1 .. N) \X D -> D]
    BY <1>2
  <1>5. \A n \in 1 .. N, p \in D : g[<<n, p>>] = Cut(file, p, text[n])
    OBVIOUS
  <1> HIDE DEF g
  <1>6. PICK F \in [0 .. N -> D] : Loop(F, N, a, g)
    BY <1>1, <1>3, <1>4, LoopExists
  <1>7. \A n \in 1 .. N : F[n] = Cut(file, F[n - 1], text[n])
    <2> SUFFICES ASSUME NEW n \in 1 .. N PROVE F[n] = Cut(file, F[n - 1], text[n])
      OBVIOUS
    <2>1. n - 1 \in 0 .. N
      BY <1>1
    <2>2. F[n - 1] \in D
      BY <2>1
    <2>3. QED
      BY <1>5, <1>6, <2>2 DEF Loop
  <1> DEFINE Is(P) == P = [n \in 0 .. N |-> IF n = 0 THEN a ELSE Cut(file, P[n - 1], text[n])]
             P == Pieces(file, text)
  <1>8. Is(F)
    <2>1. \A n \in 0 .. N : F[n] = IF n = 0 THEN a ELSE Cut(file, F[n - 1], text[n])
      BY <1>1, <1>6, <1>7 DEF Loop
    <2>2. QED
      BY <2>1
  <1>9. Is(P)
    BY <1>8 DEF Pieces, N, a
  <1> HIDE DEF P
  <1>10. P[0] = a /\ \A n \in 1 .. N : P[n] = Cut(file, P[n - 1], text[n])
    <2>1. 0 \in 0 .. N /\ \A n \in 1 .. N : n \in 0 .. N /\ n # 0
      BY <1>1
    <2>2. QED
      BY <1>9, <2>1
  <1> HIDE DEF Is
  <1>11. \A n \in 1 .. N : P[n - 1] \in D => P[n] \in D
    BY <1>2, <1>10
  <1>12. \A n \in 0 .. N : P[n] \in D
    BY <1>1, <1>3, <1>10, <1>11, LoopStays
  <1>13. QED
    BY <1>10, <1>12 DEF D, N, P, a

\* Byte by byte.
LEMMA PiecesShape ==
  ASSUME NEW file, NEW S, NEW text \in Seq(S)
  PROVE  /\ Len(text) \in Nat
         /\ Pieces(file, text)[0] = <<<<>>>>
         /\ \A n \in 0 .. Len(text) :
              Pieces(file, text)[n] \in Seq(Seq(S)) /\ Len(Pieces(file, text)[n]) \in Nat \ {0}
         /\ \A n \in 1 .. Len(text) :
              CutShape(Pieces(file, text)[n], Pieces(file, text)[n - 1], text[n], IsNewline(file, text[n]))
  <1> DEFINE N == Len(text)
             P == Pieces(file, text)
  <1>1. /\ P[0] = <<<<>>>>
        /\ \A n \in 0 .. N : P[n] \in Seq(Seq(S)) /\ P[n] # <<>>
        /\ \A n \in 1 .. N : P[n] = Cut(file, P[n - 1], text[n])
    BY PiecesOf
  <1>2. N \in Nat /\ \A n \in 1 .. N : text[n] \in S
    OBVIOUS
  <1> HIDE DEF N, P
  <1>3. ASSUME NEW n \in 0 .. N PROVE Len(P[n]) \in Nat \ {0}
    <2>1. P[n] \in Seq(Seq(S)) /\ P[n] # <<>>
      BY <1>1
    <2>2. QED
      BY <2>1
  <1>4. ASSUME NEW n \in 1 .. N PROVE CutShape(P[n], P[n - 1], text[n], IsNewline(file, text[n]))
    <2>1. n - 1 \in 0 .. N
      BY <1>2
    <2>2. P[n - 1] \in Seq(Seq(S)) /\ P[n - 1] # <<>> /\ text[n] \in S /\ P[n] = Cut(file, P[n - 1], text[n])
      BY <1>1, <1>2, <2>1
    <2>3. QED
      BY <2>2, CutOf
  <1>5. QED
    BY <1>1, <1>2, <1>3, <1>4 DEF N, P

\* More text leaves all pieces but the last as they are.
Extends(more, pieces) ==
  Len(pieces) <= Len(more) /\ \A k \in 1 .. Len(pieces) - 1 : more[k] = pieces[k]

\* Only the last piece still changes.
LEMMA PiecesGrow ==
  ASSUME NEW file, NEW S, NEW text \in Seq(S), NEW i \in 0 .. Len(text), NEW j \in i .. Len(text)
  PROVE  Extends(Pieces(file, text)[j], Pieces(file, text)[i])
  <1> DEFINE N == Len(text)
             P == Pieces(file, text)
             l == Len(P[i])
             Grown(m) == l <= Len(P[m]) /\ \A k \in 1 .. l - 1 : P[m][k] = P[i][k]
             T == {d \in Nat : i + d <= N => Grown(i + d)}
  <1>1. N \in Nat /\ i \in 0 .. N /\ j \in i .. N
    OBVIOUS
  <1>2. /\ \A n \in 0 .. N : Len(P[n]) \in Nat \ {0}
        /\ \A n \in 1 .. N : CutShape(P[n], P[n - 1], text[n], IsNewline(file, text[n]))
    BY PiecesShape
  <1> HIDE DEF N, P
  <1>3. l \in Nat
    BY <1>1, <1>2
  <1>4. 0 \in T
    BY <1>1, <1>3
  <1>5. ASSUME NEW d \in Nat, d \in T PROVE d + 1 \in T
    <2> DEFINE m == i + d
    <2> SUFFICES ASSUME m + 1 <= N PROVE Grown(m + 1)
      BY <1>1
    <2>1. m \in 0 .. N /\ m + 1 \in 1 .. N /\ (m + 1) - 1 = m
      BY <1>1
    <2>2. Grown(m)
      BY <1>5, <2>1
    <2> HIDE DEF m
    <2>3. CutShape(P[m + 1], P[m], text[m + 1], IsNewline(file, text[m + 1])) /\ Len(P[m]) \in Nat
      BY <1>2, <2>1
    <2>4. Len(P[m + 1]) \in Nat /\ Len(P[m + 1]) >= Len(P[m]) /\ \A k \in 1 .. Len(P[m]) - 1 : P[m + 1][k] = P[m][k]
      BY <2>3 DEF CutShape
    <2> HIDE DEF l
    <2>5. QED
      BY <1>3, <2>2, <2>3, <2>4
  <1>6. j - i \in Nat /\ i + (j - i) = j /\ j <= N
    BY <1>1
  <1>7. j - i \in T
    <2> HIDE DEF T
    <2>1. QED
      BY <1>4, <1>5, <1>6, SetInduction
  <1>8. Grown(j)
    <2> HIDE DEF Grown
    <2>1. QED
      BY <1>6, <1>7
  <1>9. QED
    BY <1>8 DEF P, Extends

\* A line, or what there is of it, lies between s and q.
OneLine(file, text, s, q) ==
  /\ s = 0 \/ IsNewline(file, text[s])
  /\ \A r \in s + 1 .. q : ~IsNewline(file, text[r])

\* After a newline the last piece is the text since.
LEMMA LastPiece ==
  ASSUME NEW file, NEW S, NEW text \in Seq(S), NEW s \in 0 .. Len(text), NEW q \in s .. Len(text),
         OneLine(file, text, s, q)
  PROVE  /\ Len(Pieces(file, text)[q]) = Len(Pieces(file, text)[s])
         /\ Pieces(file, text)[q][Len(Pieces(file, text)[s])] = SubSeq(text, s + 1, q)
  <1> DEFINE N == Len(text)
             P == Pieces(file, text)
             l == Len(P[s])
             Ends(m) == Len(P[m]) = l /\ P[m][l] = SubSeq(text, s + 1, m)
             T == {d \in Nat : s + d <= q => Ends(s + d)}
  <1>1. N \in Nat /\ s \in 0 .. N /\ q \in s .. N
    OBVIOUS
  <1>2. /\ P[0] = <<<<>>>>
        /\ \A n \in 0 .. N : Len(P[n]) \in Nat \ {0}
        /\ \A n \in 1 .. N : CutShape(P[n], P[n - 1], text[n], IsNewline(file, text[n]))
    BY PiecesShape
  <1> HIDE DEF N, P
  <1>3. l \in Nat \ {0}
    BY <1>1, <1>2
  <1>4. P[s][l] = <<>>
    <2>1. CASE s = 0
      <3>1. Len(P[0]) = 1 /\ P[0][1] = <<>>
        BY <1>2
      <3>2. QED
        BY <2>1, <3>1
    <2>2. CASE s # 0
      <3>1. s \in 1 .. N /\ IsNewline(file, text[s])
        BY <1>1, <2>2 DEF OneLine
      <3>2. CutShape(P[s], P[s - 1], text[s], IsNewline(file, text[s]))
        BY <1>2, <3>1
      <3>3. QED
        BY <3>1, <3>2 DEF CutShape
    <2>3. QED
      BY <2>1, <2>2
  <1>5. SubSeq(text, s + 1, s) = <<>>
    BY <1>1, SubSeqEmpty
  <1>6. 0 \in T
    <2>1. s + 0 = s
      BY <1>1
    <2>2. QED
      BY <1>4, <1>5, <2>1
  <1>7. ASSUME NEW d \in Nat, d \in T PROVE d + 1 \in T
    <2> DEFINE m == s + d
    <2> SUFFICES ASSUME m + 1 <= q PROVE Ends(m + 1)
      BY <1>1
    <2>1. m \in s .. q /\ m + 1 \in 1 .. N /\ (m + 1) - 1 = m /\ m + 1 \in s + 1 .. q
      BY <1>1
    <2>2. Ends(m)
      BY <1>7, <2>1
    <2> HIDE DEF m
    <2>3. /\ CutShape(P[m + 1], P[m], text[m + 1], IsNewline(file, text[m + 1]))
          /\ ~IsNewline(file, text[m + 1])
      BY <1>2, <2>1 DEF OneLine
    <2>4. Len(P[m + 1]) = Len(P[m]) /\ P[m + 1][Len(P[m])] = Append(P[m][Len(P[m])], text[m + 1])
      BY <2>3 DEF CutShape
    <2>5. Append(SubSeq(text, s + 1, m), text[m + 1]) = SubSeq(text, s + 1, m + 1)
      <3>1. s \in Nat /\ m \in Nat /\ s <= m /\ m + 1 <= Len(text)
        BY <1>1, <2>1 DEF N
      <3>2. QED
        BY <3>1
    <2> HIDE DEF l
    <2>6. QED
      BY <2>2, <2>4, <2>5
  <1>8. q - s \in Nat /\ s + (q - s) = q
    BY <1>1
  <1>9. q - s \in T
    <2> HIDE DEF T
    <2>1. QED
      BY <1>6, <1>7, <1>8, SetInduction
  <1>10. Ends(q)
    <2> HIDE DEF Ends
    <2>1. q <= q
      BY <1>1
    <2>2. QED
      BY <1>8, <1>9, <2>1
  <1>11. QED
    BY <1>10 DEF P

\* The pieces after a newline are the pieces of the text after it.
LEMMA SplitSuffix ==
  ASSUME NEW file, NEW S, NEW text \in Seq(S), NEW p \in 1 .. Len(text), IsNewline(file, text[p])
  PROVE  LET c == Len(Pieces(file, text)[p]) - 1
             lines == Split(file, text)
         IN /\ c \in 1 .. Len(lines) /\ Len(lines) \in Nat
            /\ Len(Pieces(file, text)[p - 1]) = c
            /\ Split(file, SubSeq(text, p + 1, Len(text))) = SubSeq(lines, c + 1, Len(lines))
  <1> DEFINE N == Len(text)
             P == Pieces(file, text)
             rest == SubSeq(text, p + 1, N)
             M == Len(rest)
             Q == Pieces(file, rest)
             c == Len(P[p]) - 1
             Same(j) == Len(P[p + j]) = c + Len(Q[j]) /\ \A k \in 1 .. Len(Q[j]) : P[p + j][c + k] = Q[j][k]
             T == {j \in Nat : j <= M => Same(j)}
  <1>1. N \in Nat /\ p \in 1 .. N
    OBVIOUS
  <1>2. /\ rest \in Seq(S) /\ M = N - p
        /\ \A j \in 1 .. M : rest[j] = text[p + j]
    <2>1. \A r \in p + 1 .. N : text[r] \in S
      BY <1>1
    <2>2. p + 1 \in Int /\ N \in Int
      BY <1>1
    <2>3. /\ rest \in Seq(S) /\ M = IF p + 1 <= N THEN N - (p + 1) + 1 ELSE 0
          /\ \A j \in 1 .. N - (p + 1) + 1 : rest[j] = text[(p + 1) + j - 1]
      BY <2>1, <2>2, SubSeqProperties
    <2> HIDE DEF rest, M
    <2>4. M = N - p
      BY <1>1, <2>3
    <2>5. \A j \in 1 .. M : j \in 1 .. N - (p + 1) + 1 /\ (p + 1) + j - 1 = p + j
      BY <1>1, <2>4
    <2>6. QED
      BY <2>3, <2>4, <2>5
  <1>3. /\ \A n \in 0 .. N : P[n] \in Seq(Seq(S)) /\ Len(P[n]) \in Nat \ {0}
        /\ \A n \in 1 .. N : CutShape(P[n], P[n - 1], text[n], IsNewline(file, text[n]))
    BY PiecesShape
  <1>4. /\ Q[0] = <<<<>>>>
        /\ \A n \in 0 .. M : Q[n] \in Seq(Seq(S)) /\ Len(Q[n]) \in Nat \ {0}
        /\ \A n \in 1 .. M : CutShape(Q[n], Q[n - 1], rest[n], IsNewline(file, rest[n]))
    <2> HIDE DEF rest
    <2>1. QED
      BY <1>2, PiecesShape
  <1> HIDE DEF N, P, rest, M, Q
  <1>5. c \in Nat /\ Len(P[p - 1]) = c /\ c > 0 /\ P[p][c + 1] = <<>>
    <2>1. CutShape(P[p], P[p - 1], text[p], IsNewline(file, text[p])) /\ IsNewline(file, text[p])
      BY <1>1, <1>3
    <2>2. QED
      BY <2>1 DEF CutShape
  <1>6. 0 \in T
    <2>1. Len(Q[0]) = 1 /\ Q[0][1] = <<>> /\ p + 0 = p /\ Len(P[p]) = c + 1
      BY <1>1, <1>3, <1>4
    <2>2. \A k \in 1 .. 1 : k = 1
      OBVIOUS
    <2> HIDE DEF c
    <2>3. QED
      BY <1>5, <2>1, <2>2
  <1>7. ASSUME NEW j \in Nat, j \in T PROVE j + 1 \in T
    <2> DEFINE m == p + j
               b == text[m + 1]
    <2> SUFFICES ASSUME j + 1 <= M PROVE Same(j + 1)
      <3> HIDE DEF Same
      <3> QED
        OBVIOUS
    <2>1. /\ m \in 0 .. N /\ m + 1 \in 1 .. N /\ (m + 1) - 1 = m /\ p + (j + 1) = m + 1
          /\ j \in 0 .. M /\ j + 1 \in 1 .. M /\ (j + 1) - 1 = j /\ p + j = m
      BY <1>1, <1>2
    <2>2. Same(j)
      <3> HIDE DEF Same
      <3> QED
        BY <1>7, <2>1
    <2>3. rest[j + 1] = b
      BY <1>2, <2>1
    <2> HIDE DEF m, b
    <2>4. CutShape(P[m + 1], P[m], b, IsNewline(file, b)) /\ Len(P[m + 1]) \in Nat
      BY <1>3, <2>1 DEF b
    <2>5. CutShape(Q[j + 1], Q[j], b, IsNewline(file, b)) /\ Len(Q[j]) \in Nat \ {0}
      BY <1>4, <2>1, <2>3
    <2> DEFINE u == P[m]  v == P[m + 1]  x == Q[j]  y == Q[j + 1]
    <2>6. Len(u) = c + Len(x) /\ \A k \in 1 .. Len(x) : u[c + k] = x[k]
      BY <2>1, <2>2
    <2>7. CutShape(v, u, b, IsNewline(file, b)) /\ CutShape(y, x, b, IsNewline(file, b)) /\ Len(x) \in Nat \ {0}
      BY <2>4, <2>5
    <2> HIDE DEF u, v, x, y, c
    <2>8. Len(v) = c + Len(y) /\ \A k \in 1 .. Len(y) : v[c + k] = y[k]
      <3>1. CASE IsNewline(file, b)
        <4>1. /\ Len(v) = Len(u) + 1 /\ v[Len(u)] = u[Len(u)] /\ v[Len(u) + 1] = <<>>
              /\ Len(y) = Len(x) + 1 /\ y[Len(x)] = x[Len(x)] /\ y[Len(x) + 1] = <<>>
              /\ \A k \in 1 .. Len(u) - 1 : v[k] = u[k]
              /\ \A k \in 1 .. Len(x) - 1 : y[k] = x[k]
          BY <2>7, <3>1 DEF CutShape
        <4>2. \A k \in 1 .. Len(x) - 1 : v[c + k] = y[k]
          <5> SUFFICES ASSUME NEW k \in 1 .. Len(x) - 1 PROVE v[c + k] = y[k]
            OBVIOUS
          <5>1. c + k \in 1 .. Len(u) - 1 /\ k \in 1 .. Len(x)
            BY <1>5, <2>6, <2>7
          <5>2. v[c + k] = u[c + k] /\ u[c + k] = x[k] /\ y[k] = x[k]
            BY <2>6, <4>1, <5>1
          <5>3. QED
            BY <5>2
        <4>3. v[c + Len(x)] = y[Len(x)] /\ v[c + (Len(x) + 1)] = y[Len(x) + 1]
          BY <1>5, <2>6, <2>7, <4>1
        <4>4. \A k \in 1 .. Len(y) : k \in 1 .. Len(x) - 1 \/ k = Len(x) \/ k = Len(x) + 1
          BY <2>7, <4>1
        <4>5. Len(v) = c + Len(y)
          BY <1>5, <2>6, <2>7, <4>1
        <4>6. QED
          BY <4>2, <4>3, <4>4, <4>5
      <3>2. CASE ~IsNewline(file, b)
        <4>1. /\ Len(v) = Len(u) /\ v[Len(u)] = Append(u[Len(u)], b)
              /\ Len(y) = Len(x) /\ y[Len(x)] = Append(x[Len(x)], b)
              /\ \A k \in 1 .. Len(u) - 1 : v[k] = u[k]
              /\ \A k \in 1 .. Len(x) - 1 : y[k] = x[k]
          BY <2>7, <3>2 DEF CutShape
        <4>2. \A k \in 1 .. Len(x) - 1 : v[c + k] = y[k]
          <5> SUFFICES ASSUME NEW k \in 1 .. Len(x) - 1 PROVE v[c + k] = y[k]
            OBVIOUS
          <5>1. c + k \in 1 .. Len(u) - 1 /\ k \in 1 .. Len(x)
            BY <1>5, <2>6, <2>7
          <5>2. v[c + k] = u[c + k] /\ u[c + k] = x[k] /\ y[k] = x[k]
            BY <2>6, <4>1, <5>1
          <5>3. QED
            BY <5>2
        <4>3. v[c + Len(x)] = y[Len(x)]
          <5>1. u[c + Len(x)] = x[Len(x)]
            BY <2>6, <2>7
          <5>2. QED
            BY <2>6, <4>1, <5>1
        <4>4. \A k \in 1 .. Len(y) : k \in 1 .. Len(x) - 1 \/ k = Len(x)
          BY <2>7, <4>1
        <4>5. QED
          BY <2>6, <4>1, <4>2, <4>3, <4>4
      <3>3. QED
        BY <3>1, <3>2
    <2>9. QED
      BY <2>1, <2>8 DEF v, y
  <1>8. M \in Nat /\ p + M = N
    BY <1>1, <1>2
  <1>9. M \in T
    <2> HIDE DEF T
    <2>1. QED
      BY <1>6, <1>7, <1>8, SetInduction
  <1>10. Len(P[N]) = c + Len(Q[M]) /\ \A k \in 1 .. Len(Q[M]) : P[N][c + k] = Q[M][k]
    <2>1. Same(M)
      <3> HIDE DEF Same
      <3> QED
        BY <1>8, <1>9
    <2>2. QED
      BY <1>8, <2>1
  <1> DEFINE lines == P[N]
             tail == Q[M]
  <1>11. /\ lines \in Seq(Seq(S)) /\ tail \in Seq(Seq(S)) /\ Len(lines) \in Nat /\ Len(tail) \in Nat
         /\ Len(tail) > 0 /\ Len(lines) = c + Len(tail) /\ \A k \in 1 .. Len(tail) : lines[c + k] = tail[k]
    <2>1. N \in 0 .. N /\ M \in 0 .. M
      BY <1>1, <1>8
    <2>2. /\ P[N] \in Seq(Seq(S)) /\ Len(P[N]) \in Nat \ {0}
          /\ Q[M] \in Seq(Seq(S)) /\ Len(Q[M]) \in Nat \ {0}
      BY <1>3, <1>4, <2>1
    <2> HIDE DEF c
    <2>3. QED
      BY <1>10, <2>2
  <1> HIDE DEF lines, tail, c, T
  <1> DEFINE D == Seq(S)
  <1> HIDE DEF D
  <1>12. tail = SubSeq(lines, c + 1, Len(lines))
    <2>1. /\ SubSeq(lines, c + 1, Len(lines)) \in Seq(D)
          /\ Len(SubSeq(lines, c + 1, Len(lines))) = Len(tail)
          /\ \A k \in 1 .. Len(tail) : SubSeq(lines, c + 1, Len(lines))[k] = lines[c + k]
      BY <1>5, <1>11 DEF D
    <2>2. \A k \in 1 .. Len(tail) : tail[k] = SubSeq(lines, c + 1, Len(lines))[k]
      BY <1>11, <2>1
    <2>3. tail \in Seq(D)
      BY <1>11 DEF D
    <2>4. QED
      BY <2>1, <2>2, <2>3, SeqEqual
  <1>13. c \in 1 .. Len(lines)
    BY <1>5, <1>11
  <1>14. lines = Split(file, text) /\ tail = Split(file, SubSeq(text, p + 1, Len(text)))
    BY DEF Split, lines, tail, N, M, P, Q, rest
  <1>15. QED
    BY <1>5, <1>11, <1>12, <1>13, <1>14 DEF c, P

\* What parses is one of the file's whole lines.
LEMMA ParsedOf ==
  ASSUME NEW file \in Seq(Line), NEW text \in Seq(FileBytes(file)), Parses(file, text)
  PROVE  /\ text[1][1] \in DOMAIN file /\ file[text[1][1]].whole
         /\ Parsed(file, text) \in Nat /\ Parsed(file, text) = file[text[1][1]].ev
  <1> DEFINE S == FileBytes(file)
             b == text[1]
  <1>1. b \in S
    <2>1. text \in Seq(S) /\ text # <<>>
      BY DEF Parses
    <2> HIDE DEF S
    <2>2. QED
      BY <2>1
  <1> HIDE DEF b
  <1>2. b[1] \in DOMAIN file
    BY <1>1 DEF FileBytes
  <1>3. file[b[1]] \in Line
    BY <1>2
  <1>4. file[b[1]].ev \in Nat
    BY <1>3 DEF Line
  <1>5. QED
    BY <1>2, <1>4 DEF b, Parses, Parsed

\* The loop over the lines finds the matching ones and nothing else.
LEMMA EntriesOf ==
  ASSUME NEW file \in Seq(Line), NEW pieces \in Seq(Seq(FileBytes(file))), NEW since \in Nat
  PROVE  /\ Entries(file, pieces, since) \in Seq(Nat)
         /\ \A e \in DOMAIN Entries(file, pieces, since) : \E k \in 1 .. Len(pieces) :
              /\ Matches(file, pieces[k], since)
              /\ Entries(file, pieces, since)[e] = Parsed(file, pieces[k])
         /\ \A k \in 1 .. Len(pieces) : Matches(file, pieces[k], since) =>
              \E e \in DOMAIN Entries(file, pieces, since) :
                Entries(file, pieces, since)[e] = Parsed(file, pieces[k])
  <1> DEFINE N == Len(pieces)
             D == Seq(Nat)
             a == <<>>
             Is(k) == Matches(file, pieces[k], since)
             Val(k) == Parsed(file, pieces[k])
             g == [p \in (1 .. N) \X D |-> Collect(file, p[2], pieces[p[1]], since)]
  <1>1. N \in Nat /\ \A k \in 1 .. N : pieces[k] \in Seq(FileBytes(file))
    OBVIOUS
  <1>2. \A k \in 1 .. N : Is(k) => Val(k) \in Nat
    <2> SUFFICES ASSUME NEW k \in 1 .. N, Is(k) PROVE Val(k) \in Nat
      OBVIOUS
    <2>1. pieces[k] \in Seq(FileBytes(file)) /\ Parses(file, pieces[k])
      BY <1>1 DEF Matches
    <2>2. QED
      BY <2>1, ParsedOf
  <1>3. \A k \in 1 .. N : \A s \in D :
          /\ Is(k) => Collect(file, s, pieces[k], since) = Append(s, Val(k))
          /\ ~Is(k) => Collect(file, s, pieces[k], since) = s
    BY DEF Collect
  <1>4. a \in D
    OBVIOUS
  <1> HIDE DEF N, Is, Val
  <1>5. \A k \in 1 .. N : \A s \in D : Collect(file, s, pieces[k], since) \in D
    <2> SUFFICES ASSUME NEW k \in 1 .. N, NEW s \in D PROVE Collect(file, s, pieces[k], since) \in D
      OBVIOUS
    <2>1. CASE Is(k)
      <3>1. Val(k) \in Nat /\ Collect(file, s, pieces[k], since) = Append(s, Val(k))
        BY <1>2, <1>3, <2>1
      <3>2. QED
        BY <3>1
    <2>2. CASE ~Is(k)
      <3>1. Collect(file, s, pieces[k], since) = s
        BY <1>3, <2>2
      <3>2. QED
        BY <3>1
    <2>3. QED
      BY <2>1, <2>2
  <1> HIDE DEF D, a
  <1>6. g \in [(1 .. N) \X D -> D]
    BY <1>5
  <1>7. \A k \in 1 .. N, s \in D : g[<<k, s>>] = Collect(file, s, pieces[k], since)
    OBVIOUS
  <1> HIDE DEF g
  <1>8. PICK F \in [0 .. N -> D] : Loop(F, N, a, g)
    BY <1>1, <1>4, <1>6, LoopExists
  <1>9. \A k \in 1 .. N : F[k] = Collect(file, F[k - 1], pieces[k], since)
    <2> SUFFICES ASSUME NEW k \in 1 .. N PROVE F[k] = Collect(file, F[k - 1], pieces[k], since)
      OBVIOUS
    <2>1. k - 1 \in 0 .. N
      BY <1>1
    <2>2. F[k - 1] \in D
      BY <2>1
    <2>3. QED
      BY <1>7, <1>8, <2>2 DEF Loop
  <1> DEFINE Of(E) == E = [n \in 0 .. N |-> IF n = 0 THEN a ELSE Collect(file, E[n - 1], pieces[n], since)]
             E == Collected(file, pieces, since)
  <1>10. Of(F)
    <2>1. \A n \in 0 .. N : F[n] = IF n = 0 THEN a ELSE Collect(file, F[n - 1], pieces[n], since)
      BY <1>1, <1>8, <1>9 DEF Loop
    <2>2. QED
      BY <2>1
  <1>11. Of(E)
    BY <1>10 DEF Collected, N, a
  <1> HIDE DEF E
  <1>12. E[0] = a /\ \A n \in 1 .. N : E[n] = Collect(file, E[n - 1], pieces[n], since)
    <2>1. 0 \in 0 .. N /\ \A n \in 1 .. N : n \in 0 .. N /\ n # 0
      BY <1>1
    <2>2. QED
      BY <1>11, <2>1
  <1> HIDE DEF Of
  <1>13. \A n \in 1 .. N : E[n - 1] \in D => E[n] \in D
    BY <1>5, <1>12
  <1>14. \A n \in 0 .. N : E[n] \in D
    BY <1>1, <1>4, <1>12, <1>13, LoopStays
  <1> DEFINE Sound(n) == \A e \in DOMAIN E[n] : \E k \in 1 .. n : Is(k) /\ E[n][e] = Val(k)
             Full(n) == \A k \in 1 .. n : Is(k) => \E e \in DOMAIN E[n] : E[n][e] = Val(k)
             T == {n \in Nat : n <= N => Sound(n) /\ Full(n)}
  <1>15. 0 \in T
    <2>1. DOMAIN E[0] = {} /\ 1 .. 0 = {}
      BY <1>12 DEF a
    <2>2. QED
      BY <2>1
  <1>16. ASSUME NEW n \in Nat, n \in T PROVE n + 1 \in T
    <2> DEFINE m == n + 1
    <2> SUFFICES ASSUME m <= N PROVE Sound(m) /\ Full(m)
      <3> HIDE DEF Sound, Full
      <3> QED
        OBVIOUS
    <2>1. n \in 0 .. N /\ m \in 1 .. N /\ m - 1 = n /\ m \in 1 .. m
      BY <1>1
    <2>2. Sound(n) /\ Full(n)
      <3> HIDE DEF Sound, Full
      <3> QED
        BY <1>1, <1>16, <2>1
    <2>3. (\A k \in 1 .. n : k \in 1 .. m) /\ (\A k \in 1 .. m : k \in 1 .. n \/ k = m)
      OBVIOUS
    <2> HIDE DEF m
    <2>4. E[n] \in D /\ E[m] = Collect(file, E[n], pieces[m], since)
      BY <1>12, <1>14, <2>1
    <2>5. CASE Is(m)
      <3>1. E[m] = Append(E[n], Val(m)) /\ Val(m) \in Nat
        BY <1>2, <1>3, <2>1, <2>4, <2>5
      <3> DEFINE s == E[n]  t == E[m]  l == Len(E[n]) + 1
      <3>2. /\ DOMAIN t = DOMAIN s \cup {l} /\ t[l] = Val(m)
            /\ \A e \in DOMAIN s : t[e] = s[e]
        <4>1. s \in Seq(Nat) /\ t = Append(s, Val(m))
          BY <2>4, <3>1 DEF D
        <4> HIDE DEF s, t
        <4>2. QED
          BY <3>1, <4>1 DEF s
      <3>3. Sound(m)
        BY <2>1, <2>2, <2>3, <2>5, <3>2
      <3>4. Full(m)
        BY <2>2, <2>3, <3>2
      <3>5. QED
        BY <3>3, <3>4
    <2>6. CASE ~Is(m)
      <3>1. E[m] = E[n]
        BY <1>3, <2>1, <2>4, <2>6
      <3>2. QED
        BY <2>2, <2>3, <2>6, <3>1
    <2>7. QED
      BY <2>5, <2>6
  <1>17. N \in T
    <2> HIDE DEF T
    <2>1. QED
      BY <1>1, <1>15, <1>16, SetInduction
  <1>18. Sound(N) /\ Full(N) /\ E[N] \in D
    <2> HIDE DEF Sound, Full
    <2>1. QED
      BY <1>1, <1>14, <1>17
  <1>19. Entries(file, pieces, since) = E[N]
    BY DEF Entries, E, N
  <1> HIDE DEF T
  <1>20. QED
    BY <1>18, <1>19 DEF D, Is, Val, N

\* Without an offset or a limit a page is everything.
LEMMA PageAll ==
  ASSUME NEW S, NEW s \in Seq(S)
  PROVE  Page(s, 0, 0) = s
  <1>1. Len(s) \in Nat /\ 0 + 1 = 1
    OBVIOUS
  <1>2. SubSeq(s, 1, Len(s)) = s
    OBVIOUS
  <1>3. QED
    BY <1>1, <1>2 DEF Page

\* NewlineFrom finds the first newline from p on, or the end.
LEMMA NewlineFromOf ==
  ASSUME NEW file, NEW S, NEW bytes \in Seq(S), NEW p \in Nat
  PROVE  /\ NewlineFrom(file, bytes, p) \in 0 .. Len(bytes)
         /\ p <= Len(bytes) => NewlineFrom(file, bytes, p) >= p
         /\ NewlineFrom(file, bytes, p) < Len(bytes) =>
              IsNewline(file, bytes[NewlineFrom(file, bytes, p) + 1])
         /\ \A r \in p + 1 .. NewlineFrom(file, bytes, p) : ~IsNewline(file, bytes[r])
  <1> DEFINE N == Len(bytes)
             at == {q \in p .. N - 1 : IsNewline(file, bytes[q + 1])}
             n == NewlineFrom(file, bytes, p)
  <1>1. N \in Nat /\ p \in Nat
    OBVIOUS
  <1>2. n = IF at = {} THEN N ELSE CHOOSE q \in at : \A r \in at : q <= r
    BY DEF NewlineFrom
  <1> HIDE DEF N, n
  <1>3. \A r \in p + 1 .. N : IsNewline(file, bytes[r]) => r - 1 \in at
    <2> SUFFICES ASSUME NEW r \in p + 1 .. N, IsNewline(file, bytes[r]) PROVE r - 1 \in at
      OBVIOUS
    <2>1. r - 1 \in p .. N - 1 /\ (r - 1) + 1 = r
      BY <1>1
    <2>2. QED
      BY <2>1
  <1>4. CASE at = {}
    <2>1. n = N
      BY <1>2, <1>4
    <2>2. \A r \in p + 1 .. n : ~IsNewline(file, bytes[r])
      BY <1>3, <1>4, <2>1
    <2>3. QED
      BY <1>1, <2>1, <2>2 DEF n, N
  <1>5. CASE at # {}
    <2>1. at \subseteq Nat
      BY <1>1
    <2> DEFINE A == at
    <2> HIDE DEF A
    <2>2. \E q \in A : \A r \in A : q <= r
      BY <1>5, <2>1, SmallestIn DEF A
    <2>3. n = CHOOSE q \in A : \A r \in A : q <= r
      BY <1>2, <1>5 DEF A
    <2>4. n \in A /\ \A r \in A : n <= r
      BY <2>2, <2>3
    <2>5. n \in p .. N - 1 /\ IsNewline(file, bytes[n + 1])
      BY <2>4 DEF A
    <2>6. \A r \in p + 1 .. n : ~IsNewline(file, bytes[r])
      <3> SUFFICES ASSUME NEW r \in p + 1 .. n, IsNewline(file, bytes[r]) PROVE FALSE
        OBVIOUS
      <3>1. r \in p + 1 .. N /\ r - 1 < n
        BY <1>1, <2>5
      <3>2. r - 1 \in A
        BY <1>3, <3>1 DEF A
      <3>3. n <= r - 1 /\ r \in Nat /\ n \in Nat
        BY <1>1, <2>4, <2>5, <3>2
      <3>4. QED
        BY <3>1, <3>3
    <2>7. n \in 0 .. N /\ n >= p
      BY <1>1, <2>5
    <2>8. QED
      BY <2>5, <2>6, <2>7 DEF n, N
  <1>6. QED
    BY <1>4, <1>5

\* No line of the file is empty: a whole one has bytes before its newline.
LongLines(file) == \A i \in DOMAIN file : file[i].whole => file[i].len > 1

\* Two newlines never follow one another.
LEMMA NoEmptyLine ==
  ASSUME NEW file \in Seq(Line), LongLines(file),
         NEW q \in 1 .. Len(Bytes(file)) - 1, IsNewline(file, Bytes(file)[q + 1])
  PROVE  ~IsNewline(file, Bytes(file)[q])
  <1> DEFINE N == Len(file)
             B == Bytes(file)
             X == Sums(file)
  <1>1. /\ Len(B) \in Nat
        /\ \A i \in 1 .. N : \A k \in 1 .. file[i].len : B[X[i - 1] + k] = <<i, k>>
        /\ \A r \in 1 .. Len(B) : \E i \in 1 .. N : \E k \in 1 .. file[i].len : r = X[i - 1] + k
    BY BytesOf
  <1>2. N \in Nat /\ (\A i \in 1 .. N : file[i] \in Line) /\ DOMAIN file = 1 .. N
    OBVIOUS
  <1>3. X \in [0 .. N -> Nat]
    BY SumsOf
  <1>4. q \in 1 .. Len(B) - 1 /\ IsNewline(file, B[q + 1])
    OBVIOUS
  <1> HIDE DEF N, B, X
  <1>5. q + 1 \in 1 .. Len(B) /\ q \in Nat
    BY <1>1, <1>4
  <1>6. PICK i \in 1 .. N : \E k \in 1 .. file[i].len : q + 1 = X[i - 1] + k
    BY <1>1, <1>5
  <1>7. PICK k \in 1 .. file[i].len : q + 1 = X[i - 1] + k
    BY <1>6
  <1>8. file[i].len \in Nat /\ X[i - 1] \in Nat
    <2>1. file[i] \in Line /\ i - 1 \in 0 .. N
      BY <1>2
    <2>2. QED
      BY <1>3, <2>1 DEF Line
  <1>9. B[q + 1] = <<i, k>>
    BY <1>1, <1>7
  <1>10. file[i].whole /\ k = file[i].len
    BY <1>4, <1>9 DEF IsNewline
  <1>11. k > 1
    BY <1>2, <1>10 DEF LongLines
  <1>12. k - 1 \in 1 .. file[i].len /\ q = X[i - 1] + (k - 1) /\ k - 1 # file[i].len
    <2> DEFINE x == X[i - 1]
               w == file[i].len
    <2>1. q \in Nat /\ x \in Nat /\ w \in Nat /\ q + 1 = x + k /\ k = w /\ k > 1
      BY <1>5, <1>7, <1>8, <1>10, <1>11
    <2> HIDE DEF x, w
    <2>2. k - 1 \in 1 .. w /\ q = x + (k - 1) /\ k - 1 # w
      BY <2>1
    <2>3. QED
      BY <2>2 DEF x, w
  <1>13. B[q] = <<i, k - 1>>
    BY <1>1, <1>12
  <1>14. QED
    BY <1>12, <1>13 DEF IsNewline, B

\* One round of the search: the upper end moves down, or the lower one up.
LEMMA ProbeOf ==
  ASSUME NEW file, NEW S, NEW bytes \in Seq(S), NEW target,
         NEW lo \in 0 .. Len(bytes) + 1, NEW hi \in 0 .. Len(bytes), lo < hi
  PROVE  LET mid == (lo + hi) \div 2
             start == NewlineFrom(file, bytes, mid) + 1
             end == NewlineFrom(file, bytes, start)
             text == SubSeq(bytes, start + 1, end)
             p == Probe(file, bytes, target, lo, hi)
         IN \/ p = <<lo, mid>> /\ mid \in lo .. hi - 1
            \/ p = <<mid + 1, hi>> /\ mid + 1 \in lo + 1 .. hi /\ start < Len(bytes) /\ text = <<>>
            \/ /\ p = <<end + 1, hi>> /\ end + 1 \in lo + 1 .. Len(bytes) + 1 /\ start < Len(bytes)
               /\ (~Parses(file, text) \/ Parsed(file, text) < target)
  <1> DEFINE N == Len(bytes)
             mid == (lo + hi) \div 2
             start == NewlineFrom(file, bytes, mid) + 1
             end == NewlineFrom(file, bytes, start)
             text == SubSeq(bytes, start + 1, end)
             p == Probe(file, bytes, target, lo, hi)
             old == ~Parses(file, text) \/ Parsed(file, text) < target
  <1>1. N \in Nat /\ lo \in 0 .. N + 1 /\ hi \in 0 .. N
    OBVIOUS
  <1>2. mid \in Nat /\ mid \in lo .. hi - 1
    BY <1>1
  <1>3. p = IF start >= N THEN <<lo, mid>>
            ELSE IF text = <<>> THEN <<mid + 1, hi>>
            ELSE IF old THEN <<end + 1, hi>> ELSE <<lo, mid>>
    BY DEF Probe
  <1>4. start \in Nat /\ start >= mid + 1
    <2> HIDE DEF mid
    <2>1. NewlineFrom(file, bytes, mid) \in 0 .. N /\ (mid <= N => NewlineFrom(file, bytes, mid) >= mid)
      BY <1>2, NewlineFromOf
    <2>2. QED
      BY <1>1, <1>2, <2>1
  <1>5. end \in 0 .. N /\ (start <= N => end >= start)
    <2> HIDE DEF start
    <2>1. QED
      BY <1>4, NewlineFromOf
  <1> HIDE DEF mid, start, end, text, p, N, old
  <1>6. CASE start >= N
    BY <1>2, <1>3, <1>6 DEF mid, p
  <1>7. CASE start < N /\ text = <<>>
    <2>1. ~(start >= N)
      BY <1>1, <1>4, <1>7
    <2>2. p = <<mid + 1, hi>> /\ mid + 1 \in lo + 1 .. hi
      BY <1>1, <1>2, <1>3, <1>7, <2>1
    <2>3. QED
      BY <1>7, <2>2 DEF mid, p, start, end, text, N
  <1>8. CASE start < N /\ text # <<>> /\ old
    <2>1. ~(start >= N)
      BY <1>1, <1>4, <1>8
    <2>2. p = <<end + 1, hi>> /\ end + 1 \in lo + 1 .. N + 1
      BY <1>1, <1>2, <1>3, <1>4, <1>5, <1>8, <2>1
    <2>3. QED
      BY <1>8, <2>2 DEF mid, p, start, end, text, N, old
  <1>9. CASE start < N /\ text # <<>> /\ ~old
    <2>1. ~(start >= N)
      BY <1>1, <1>4, <1>9
    <2>2. p = <<lo, mid>>
      BY <1>3, <1>9, <2>1
    <2>3. QED
      BY <1>2, <2>2 DEF mid, p
  <1>10. QED
    BY <1>1, <1>4, <1>6, <1>7, <1>8, <1>9

\* Where the search may begin to read: at the start of the file, or after a line
\* that is not asked for.
GoodStart(file, target, lo) ==
  LET bytes == Bytes(file)
      lines == Split(file, bytes)
  IN \/ lo = 0
     \/ \E m \in 1 .. Len(lines) :
          /\ ~Matches(file, lines[m], target)
          /\ \/ lo \in 1 .. Len(bytes) /\ IsNewline(file, bytes[lo]) /\ m = Len(Pieces(file, bytes)[lo]) - 1
             \/ lo = Len(bytes) + 1 /\ m = Len(lines)

\* The line between two newlines is one of the lines, and so is the last one.
LEMMA LineBetween ==
  ASSUME NEW file, NEW S, NEW bytes \in Seq(S), NEW s \in 0 .. Len(bytes), NEW e \in s .. Len(bytes),
         OneLine(file, bytes, s, e),
         e < Len(bytes) => IsNewline(file, bytes[e + 1])
  PROVE  LET lines == Split(file, bytes)
             m == Len(Pieces(file, bytes)[s])
         IN /\ m \in 1 .. Len(lines) /\ lines[m] = SubSeq(bytes, s + 1, e)
            /\ e < Len(bytes) => m = Len(Pieces(file, bytes)[e + 1]) - 1
            /\ e = Len(bytes) => m = Len(lines)
  <1> DEFINE N == Len(bytes)
             P == Pieces(file, bytes)
             lines == Split(file, bytes)
             m == Len(P[s])
             text == SubSeq(bytes, s + 1, e)
  <1>1. N \in Nat /\ s \in 0 .. N /\ e \in s .. N
    OBVIOUS
  <1>2. /\ \A n \in 0 .. N : Len(P[n]) \in Nat \ {0}
        /\ \A n \in 1 .. N : CutShape(P[n], P[n - 1], bytes[n], IsNewline(file, bytes[n]))
    BY PiecesShape
  <1>3. Len(P[e]) = m /\ P[e][m] = text
    BY LastPiece
  <1>4. lines = P[N]
    BY DEF Split
  <1> HIDE DEF P, lines, text
  <1>5. m \in Nat \ {0}
    BY <1>1, <1>2
  <1>6. CASE e = N
    <2> HIDE DEF N
    <2>1. Len(lines) = m /\ lines[m] = text
      BY <1>3, <1>4, <1>6
    <2> HIDE DEF m
    <2>2. m \in 1 .. Len(lines)
      BY <1>5, <2>1
    <2>3. ~(e < N)
      BY <1>1, <1>6
    <2>4. QED
      BY <2>1, <2>2, <2>3 DEF P, lines, text, m, N
  <1>7. CASE e < N
    <2>1. e + 1 \in 1 .. N /\ e + 1 \in 0 .. N /\ (e + 1) - 1 = e /\ IsNewline(file, bytes[e + 1]) /\ N \in e + 1 .. N
      BY <1>1, <1>7
    <2>2. CutShape(P[e + 1], P[e], bytes[e + 1], IsNewline(file, bytes[e + 1]))
      <3> HIDE DEF N
      <3> QED
        BY <1>2, <2>1
    <2>3. Len(P[e + 1]) = m + 1 /\ P[e + 1][m] = text
      BY <1>3, <2>1, <2>2 DEF CutShape
    <2>4. /\ Len(P[e + 1]) <= Len(P[N])
          /\ \A k \in 1 .. Len(P[e + 1]) - 1 : P[N][k] = P[e + 1][k]
      <3>1. Extends(P[N], P[e + 1])
        BY <2>1, PiecesGrow DEF P
      <3>2. QED
        BY <3>1 DEF Extends
    <2>5. Len(P[N]) \in Nat
      BY <1>1, <1>2
    <2> HIDE DEF m, N
    <2>6. m \in 1 .. Len(lines) /\ lines[m] = text /\ m = Len(P[e + 1]) - 1
      BY <1>4, <1>5, <2>3, <2>4, <2>5
    <2>7. e # N
      BY <1>1, <1>7
    <2>8. QED
      BY <2>6, <2>7 DEF P, lines, text, m, N
  <1>8. QED
    BY <1>1, <1>6, <1>7

\* The search keeps to such a place.
LEMMA ProbeStart ==
  ASSUME NEW file \in Seq(Line), LongLines(file), NEW target \in Nat,
         NEW lo \in 0 .. Len(Bytes(file)) + 1, NEW hi \in 0 .. Len(Bytes(file)), lo < hi,
         GoodStart(file, target, lo)
  PROVE  GoodStart(file, target, Probe(file, Bytes(file), target, lo, hi)[1])
  <1> DEFINE S == FileBytes(file)
             bytes == Bytes(file)
             N == Len(bytes)
             P == Pieces(file, bytes)
             lines == Split(file, bytes)
             mid == (lo + hi) \div 2
             start == NewlineFrom(file, bytes, mid) + 1
             end == NewlineFrom(file, bytes, start)
             text == SubSeq(bytes, start + 1, end)
             p == Probe(file, bytes, target, lo, hi)
  <1>1. bytes \in Seq(S) /\ N \in Nat
    BY BytesOf
  <1>2. \/ p = <<lo, mid>> /\ mid \in lo .. hi - 1
        \/ p = <<mid + 1, hi>> /\ mid + 1 \in lo + 1 .. hi /\ start < N /\ text = <<>>
        \/ /\ p = <<end + 1, hi>> /\ end + 1 \in lo + 1 .. N + 1 /\ start < N
           /\ ~Parses(file, text) \/ Parsed(file, text) < target
    <2> HIDE DEF bytes
    <2>1. lo \in 0 .. Len(bytes) + 1 /\ hi \in 0 .. Len(bytes)
      BY DEF bytes
    <2>2. QED
      BY <1>1, <2>1, ProbeOf
  <1>3. mid \in Nat /\ mid < N
    BY <1>1
  <1> HIDE DEF bytes, mid, S
  <1>4. start \in Nat /\ start >= 1 /\ start <= N + 1 /\ (start < N => IsNewline(file, bytes[start]))
    <2> DEFINE n == NewlineFrom(file, bytes, mid)
    <2>1. n \in 0 .. N /\ (n < N => IsNewline(file, bytes[n + 1]))
      BY <1>1, <1>3, NewlineFromOf
    <2> HIDE DEF n
    <2>2. n + 1 \in Nat /\ n + 1 >= 1 /\ n + 1 <= N + 1 /\ (n + 1 < N => n < N)
      BY <1>1, <2>1
    <2>3. QED
      BY <2>1, <2>2 DEF n
  <1> HIDE DEF start
  <1>5. /\ end \in 0 .. N /\ (start <= N => end >= start)
        /\ end < N => IsNewline(file, bytes[end + 1])
        /\ \A r \in start + 1 .. end : ~IsNewline(file, bytes[r])
    BY <1>1, <1>4, NewlineFromOf
  <1> HIDE DEF end, p
  <1>6. CASE p = <<lo, mid>>
    <2>1. p[1] = lo
      BY <1>6
    <2>2. QED
      BY <2>1 DEF p, bytes
  <1>7. CASE start < N /\ text = <<>>
    <2>1. end > start => Len(text) = end - start
      <3>1. \A r \in start + 1 .. end : bytes[r] \in S
        BY <1>1, <1>4, <1>5
      <3>2. start + 1 \in Int /\ end \in Int
        BY <1>4, <1>5
      <3>3. Len(text) = IF start + 1 <= end THEN end - (start + 1) + 1 ELSE 0
        BY <3>1, <3>2, SubSeqProperties
      <3> HIDE DEF text
      <3>4. QED
        BY <1>1, <1>4, <1>5, <3>3
    <2> HIDE DEF text
    <2>2. Len(text) = 0
      BY <1>7
    <2>3. end = start
      BY <1>1, <1>4, <1>5, <1>7, <2>1, <2>2
    <2>4. start \in 1 .. N - 1 /\ IsNewline(file, bytes[start + 1]) /\ IsNewline(file, bytes[start])
      BY <1>1, <1>4, <1>5, <1>7, <2>3
    <2>5. FALSE
      BY <2>4, NoEmptyLine DEF bytes
    <2>6. QED
      BY <2>5
  <1>8. CASE p = <<end + 1, hi>> /\ start < N /\ (~Parses(file, text) \/ Parsed(file, text) < target)
    <2>1. ~Matches(file, text, target)
      <3> SUFFICES ASSUME Parses(file, text), Parsed(file, text) >= target PROVE FALSE
        BY DEF Matches
      <3>1. text \in Seq(S)
        <4>1. \A r \in start + 1 .. end : bytes[r] \in S
          BY <1>1, <1>4, <1>5
        <4>2. start + 1 \in Int /\ end \in Int
          BY <1>4, <1>5
        <4>3. QED
          BY <4>1, <4>2, SubSeqProperties
      <3> HIDE DEF text
      <3>2. Parsed(file, text) \in Nat
        BY <3>1, ParsedOf DEF S
      <3>3. QED
        BY <1>8, <3>2
    <2> DEFINE m == Len(P[start])
    <2>2. start \in 0 .. N /\ end \in start .. N /\ IsNewline(file, bytes[start])
      BY <1>1, <1>4, <1>5, <1>8
    <2>3. /\ m \in 1 .. Len(lines) /\ lines[m] = text
          /\ end < N => m = Len(P[end + 1]) - 1
          /\ end = N => m = Len(lines)
      <3>1. OneLine(file, bytes, start, end)
        BY <1>5, <2>2 DEF OneLine
      <3>2. QED
        BY <1>1, <1>5, <2>2, <3>1, LineBetween
    <2> HIDE DEF m, lines, P, text, N
    <2>4. p[1] = end + 1 /\ (end < N => end + 1 \in 1 .. N) /\ (end < N \/ end = N)
      BY <1>1, <1>5, <1>8
    <2>5. \/ p[1] \in 1 .. N /\ IsNewline(file, bytes[p[1]]) /\ m = Len(P[p[1]]) - 1
          \/ p[1] = N + 1 /\ m = Len(lines)
      BY <1>5, <2>3, <2>4
    <2>6. QED
      BY <2>1, <2>3, <2>5 DEF GoodStart, p, bytes, N, P, lines
  <1>9. QED
    BY <1>2, <1>6, <1>7, <1>8

\* The search: every round keeps the interval within the file and its lower end
\* where reading may begin, and there are rounds enough for the ends to meet.
LEMMA SearchOf ==
  ASSUME NEW file \in Seq(Line), LongLines(file), NEW target \in Nat
  PROVE  LET N == Len(Bytes(file))
             I == Intervals(file, target)
         IN /\ I[N][1] \in 0 .. N + 1 /\ GoodStart(file, target, I[N][1])
            /\ I[N][2] \in 0 .. N /\ I[N][1] >= I[N][2]
  <1> DEFINE bytes == Bytes(file)
             N == Len(bytes)
             D == (0 .. N + 1) \X (0 .. N)
             Round(p) == IF p[1] >= p[2] THEN p ELSE Probe(file, bytes, target, p[1], p[2])
             a == <<0, N>>
             g == [p \in (1 .. N) \X D |-> Round(p[2])]
  <1>1. bytes \in Seq(FileBytes(file)) /\ N \in Nat
    BY BytesOf
  <1>2. a \in D
    BY <1>1
  <1>3. ASSUME NEW p \in D
        PROVE  /\ Round(p) \in D
               /\ p[1] >= p[2] => Round(p) = p
               /\ p[1] < p[2] => Round(p)[2] - Round(p)[1] < p[2] - p[1]
               /\ GoodStart(file, target, p[1]) => GoodStart(file, target, Round(p)[1])
    <2> DEFINE lo == p[1]
               hi == p[2]
               next == Probe(file, bytes, target, lo, hi)
               mid == (lo + hi) \div 2
               start == NewlineFrom(file, bytes, mid) + 1
               end == NewlineFrom(file, bytes, start)
               text == SubSeq(bytes, start + 1, end)
    <2>1. lo \in 0 .. N + 1 /\ hi \in 0 .. N
      OBVIOUS
    <2>2. CASE lo >= hi
      <3>1. Round(p) = p /\ ~(lo < hi)
        BY <1>1, <2>1, <2>2
      <3> HIDE DEF Round
      <3>2. QED
        BY <2>2, <3>1
    <2>3. CASE lo < hi
      <3>1. ~(lo >= hi)
        BY <1>1, <2>1, <2>3
      <3>2. Round(p) = next
        BY <3>1
      <3> HIDE DEF bytes, lo, hi
      <3>3. \/ next = <<lo, mid>> /\ mid \in lo .. hi - 1
            \/ next = <<mid + 1, hi>> /\ mid + 1 \in lo + 1 .. hi
            \/ next = <<end + 1, hi>> /\ end + 1 \in lo + 1 .. N + 1
        <4> DEFINE S == FileBytes(file)
        <4>1. bytes \in Seq(S) /\ lo \in 0 .. Len(bytes) + 1 /\ hi \in 0 .. Len(bytes)
          BY <1>1, <2>1
        <4> HIDE DEF S
        <4>2. \/ next = <<lo, mid>> /\ mid \in lo .. hi - 1
              \/ next = <<mid + 1, hi>> /\ mid + 1 \in lo + 1 .. hi /\ start < Len(bytes) /\ text = <<>>
              \/ /\ next = <<end + 1, hi>> /\ end + 1 \in lo + 1 .. Len(bytes) + 1 /\ start < Len(bytes)
                 /\ ~Parses(file, text) \/ Parsed(file, text) < target
          BY <2>3, <4>1, ProbeOf
        <4> HIDE DEF next, mid, start, end, text
        <4>3. QED
          BY <4>2
      <3> HIDE DEF next, mid, start, end, text, Round, N
      <3>4. next \in D /\ next[2] - next[1] < hi - lo
        BY <1>1, <2>1, <2>3, <3>3
      <3>5. GoodStart(file, target, lo) => GoodStart(file, target, next[1])
        BY <2>1, <2>3, ProbeStart DEF next, bytes, N
      <3> HIDE DEF D
      <3>6. QED
        BY <3>1, <3>2, <3>4, <3>5 DEF lo, hi
    <2>4. QED
      BY <1>1, <2>1, <2>2, <2>3
  <1> HIDE DEF D, N, bytes, Round, a
  <1>4. g \in [(1 .. N) \X D -> D]
    BY <1>3
  <1>5. \A r \in 1 .. N, p \in D : g[<<r, p>>] = Round(p)
    OBVIOUS
  <1> HIDE DEF g
  <1>6. PICK F \in [0 .. N -> D] : Loop(F, N, a, g)
    BY <1>1, <1>2, <1>4, LoopExists
  <1>7. \A r \in 1 .. N : F[r] = Round(F[r - 1])
    <2> SUFFICES ASSUME NEW r \in 1 .. N PROVE F[r] = Round(F[r - 1])
      OBVIOUS
    <2>1. r - 1 \in 0 .. N
      BY <1>1
    <2>2. F[r - 1] \in D
      BY <2>1
    <2>3. QED
      BY <1>5, <1>6, <2>2 DEF Loop
  <1> DEFINE Is(I) == I = [r \in 0 .. N |-> IF r = 0 THEN a ELSE Round(I[r - 1])]
             I == Intervals(file, target)
  <1>8. Is(F)
    <2>1. \A r \in 0 .. N : F[r] = IF r = 0 THEN a ELSE Round(F[r - 1])
      BY <1>1, <1>6, <1>7 DEF Loop
    <2>2. QED
      BY <2>1
  <1>9. Is(I)
    BY <1>8 DEF Intervals, N, a, bytes, Round
  <1> HIDE DEF I
  <1>10. I[0] = a /\ \A r \in 1 .. N : I[r] = Round(I[r - 1])
    <2>1. 0 \in 0 .. N /\ \A r \in 1 .. N : r \in 0 .. N /\ r # 0
      BY <1>1
    <2>2. QED
      BY <1>9, <2>1
  <1> HIDE DEF Is
  <1>11. \A r \in 1 .. N : I[r - 1] \in D => I[r] \in D
    BY <1>3, <1>10
  <1>12. \A r \in 0 .. N : I[r] \in D
    BY <1>1, <1>2, <1>10, <1>11, LoopStays
  <1> DEFINE Fine(r) == GoodStart(file, target, I[r][1]) /\ (I[r][1] >= I[r][2] \/ I[r][2] - I[r][1] <= N - r)
             T == {r \in Nat : r <= N => Fine(r)}
  <1>13. 0 \in T
    <2>1. I[0][1] = 0 /\ I[0][2] = N
      BY <1>10 DEF a
    <2>2. GoodStart(file, target, 0)
      BY DEF GoodStart
    <2>3. I[0][2] - I[0][1] <= N - 0
      BY <1>1, <2>1
    <2>4. QED
      BY <2>1, <2>2, <2>3
  <1>14. ASSUME NEW r \in Nat, r \in T PROVE r + 1 \in T
    <2> SUFFICES ASSUME r + 1 <= N PROVE Fine(r + 1)
      <3> HIDE DEF Fine
      <3> QED
        OBVIOUS
    <2>1. r \in 0 .. N /\ r + 1 \in 1 .. N /\ (r + 1) - 1 = r /\ r + 1 \in 0 .. N
      BY <1>1
    <2>2. Fine(r)
      <3> HIDE DEF Fine
      <3> QED
        BY <1>1, <1>14, <2>1
    <2>3. I[r] \in D /\ I[r + 1] \in D /\ I[r + 1] = Round(I[r])
      BY <1>10, <1>12, <2>1
    <2>4. /\ I[r][1] >= I[r][2] => I[r + 1] = I[r]
          /\ I[r][1] < I[r][2] => I[r + 1][2] - I[r + 1][1] < I[r][2] - I[r][1]
          /\ GoodStart(file, target, I[r][1]) => GoodStart(file, target, I[r + 1][1])
      BY <1>3, <2>3
    <2>5. /\ I[r][1] \in Nat /\ I[r][2] \in Nat /\ I[r + 1][1] \in Nat /\ I[r + 1][2] \in Nat
      BY <1>1, <2>3 DEF D
    <2>6. I[r + 1][1] >= I[r + 1][2] \/ I[r + 1][2] - I[r + 1][1] <= N - (r + 1)
      <3> DEFINE w == I[r][1]  x == I[r][2]  y == I[r + 1][1]  z == I[r + 1][2]
      <3>1. /\ w \in Nat /\ x \in Nat /\ y \in Nat /\ z \in Nat
            /\ w >= x \/ x - w <= N - r
            /\ w >= x => y = w /\ z = x
            /\ w < x => z - y < x - w
        BY <2>2, <2>4, <2>5
      <3> HIDE DEF w, x, y, z
      <3>2. y >= z \/ z - y <= N - (r + 1)
        BY <1>1, <3>1
      <3>3. QED
        BY <3>2 DEF y, z
    <2>7. QED
      BY <2>2, <2>4, <2>6
  <1>15. N \in T
    <2> HIDE DEF T
    <2>1. QED
      BY <1>1, <1>13, <1>14, SetInduction
  <1>16. Fine(N) /\ I[N] \in D
    <2> HIDE DEF Fine
    <2>1. QED
      BY <1>1, <1>12, <1>15
  <1>17. I[N][1] \in 0 .. N + 1 /\ I[N][2] \in 0 .. N
    BY <1>16 DEF D
  <1>18. I[N][1] >= I[N][2]
    BY <1>1, <1>16, <1>17
  <1>19. QED
    BY <1>16, <1>17, <1>18 DEF I, N, bytes

\* Reading from a time: the lines from some line on, and nothing asked for is
\* missed unless that line follows one that is not.
LEMMA SinceOf ==
  ASSUME NEW file \in Seq(Line), LongLines(file), NEW since \in Nat \ {0}
  PROVE  LET lines == Split(file, Bytes(file))
         IN \E m \in 0 .. Len(lines) :
              /\ ReadAuditEntries(file, since, 0, 0) = Entries(file, SubSeq(lines, m + 1, Len(lines)), since)
              /\ (\E k \in 1 .. m : Matches(file, lines[k], since)) => ~Matches(file, lines[m], since)
  <1> DEFINE S == FileBytes(file)
             bytes == Bytes(file)
             N == Len(bytes)
             lines == Split(file, bytes)
             L == Len(lines)
             lo == FindStartOffsetByTime(file, since)
             text == SubSeq(bytes, lo + 1, N)
             rest == Split(file, text)
             From(m) == SubSeq(lines, m + 1, L)
  <1>1. bytes \in Seq(S) /\ N \in Nat
    BY BytesOf
  <1>2. lo \in 0 .. N + 1 /\ GoodStart(file, since, lo)
    BY SearchOf DEF FindStartOffsetByTime
  <1>3. ReadAuditEntries(file, since, 0, 0) = Page(Entries(file, rest, since), 0, 0)
    BY DEF ReadAuditEntries
  <1> HIDE DEF S, bytes, lo
  <1>4. text \in Seq(S)
    <2>1. \A r \in lo + 1 .. N : bytes[r] \in S
      BY <1>1, <1>2
    <2>2. lo + 1 \in Int /\ N \in Int
      BY <1>1, <1>2
    <2>3. QED
      BY <2>1, <2>2, SubSeqProperties
  <1>5. lines \in Seq(Seq(S)) /\ L \in Nat /\ L > 0
    <2>1. N \in 0 .. N
      BY <1>1
    <2> HIDE DEF N
    <2>2. Pieces(file, bytes)[N] \in Seq(Seq(S)) /\ Len(Pieces(file, bytes)[N]) \in Nat \ {0}
      BY <1>1, <2>1, PiecesShape DEF N
    <2>3. lines = Pieces(file, bytes)[N]
      BY DEF Split, N
    <2>4. QED
      BY <2>2, <2>3
  <1> HIDE DEF text
  <1>6. rest \in Seq(Seq(S))
    <2> DEFINE M == Len(text)
    <2>1. M \in 0 .. M
      BY <1>4
    <2>2. Pieces(file, text)[M] \in Seq(Seq(S))
      BY <1>4, <2>1, PiecesShape
    <2>3. QED
      BY <2>2 DEF Split
  <1> HIDE DEF rest, lines
  <1>7. ReadAuditEntries(file, since, 0, 0) = Entries(file, rest, since)
    <2>1. Entries(file, rest, since) \in Seq(Nat)
      BY <1>6, EntriesOf DEF S
    <2>2. QED
      BY <1>3, <2>1, PageAll
  <1> SUFFICES \E m \in 0 .. L :
                 /\ Entries(file, rest, since) = Entries(file, From(m), since)
                 /\ (\E k \in 1 .. m : Matches(file, lines[k], since)) => ~Matches(file, lines[m], since)
    BY <1>7 DEF lines, bytes
  <1>8. CASE lo = 0
    <2>1. text = bytes
      BY <1>1, <1>8 DEF text
    <2>2. rest = lines
      BY <2>1 DEF rest, lines
    <2>3. From(0) = lines
      BY <1>5
    <2>4. 0 \in 0 .. L /\ 1 .. 0 = {}
      BY <1>5
    <2>5. QED
      BY <2>2, <2>3, <2>4
  <1>9. CASE lo # 0
    <2>1. PICK m \in 1 .. L :
            /\ ~Matches(file, lines[m], since)
            /\ \/ lo \in 1 .. N /\ IsNewline(file, bytes[lo]) /\ m = Len(Pieces(file, bytes)[lo]) - 1
               \/ lo = N + 1 /\ m = L
      BY <1>2, <1>9 DEF GoodStart, lines, bytes
    <2>2. m \in 0 .. L
      BY <1>5
    <2>3. CASE lo \in 1 .. N /\ IsNewline(file, bytes[lo]) /\ m = Len(Pieces(file, bytes)[lo]) - 1
      <3>1. rest = From(m)
        BY <1>1, <2>3, SplitSuffix DEF rest, text, lines
      <3>2. QED
        BY <2>1, <2>2, <3>1
    <2>4. CASE lo = N + 1 /\ m = L
      <3>1. text = <<>>
        BY <1>1, <2>4, SubSeqEmpty DEF text
      <3>2. rest = <<<<>>>>
        <4>1. Len(text) = 0
          BY <3>1
        <4>2. Pieces(file, text)[0] = <<<<>>>>
          BY <1>4, PiecesShape
        <4>3. QED
          BY <4>1, <4>2 DEF rest, Split
      <3>3. From(m) = <<>>
        BY <1>5, <2>4, SubSeqEmpty
      <3>4. Len(rest) = 1 /\ rest[1] = <<>> /\ Len(From(m)) = 0 /\ From(m) \in Seq(Seq(S))
        <4> HIDE DEF From
        <4>1. Len(From(m)) = 0 /\ From(m) \in Seq(Seq(S))
          BY <3>3
        <4>2. Len(rest) = 1 /\ rest[1] = <<>>
          BY <3>2
        <4>3. QED
          BY <4>1, <4>2
      <3> DEFINE nothing == Entries(file, From(m), since)
                 some == Entries(file, rest, since)
      <3> HIDE DEF From
      <3>5. nothing \in Seq(Nat) /\ \A e \in DOMAIN nothing : \E k \in 1 .. Len(From(m)) : Matches(file, From(m)[k], since)
        BY <3>4, EntriesOf DEF S
      <3>6. some \in Seq(Nat) /\ \A e \in DOMAIN some : \E k \in 1 .. Len(rest) : Matches(file, rest[k], since)
        BY <1>6, EntriesOf DEF S
      <3>7. ~Matches(file, <<>>, since)
        BY DEF Matches, Parses
      <3>8. DOMAIN nothing = {} /\ DOMAIN some = {}
        <4>1. \A k \in 1 .. 1 : k = 1
          OBVIOUS
        <4>2. 1 .. 0 = {}
          OBVIOUS
        <4> HIDE DEF nothing, some
        <4>3. QED
          BY <3>4, <3>5, <3>6, <3>7, <4>1, <4>2
      <3>9. nothing = some
        <4> HIDE DEF nothing, some
        <4>1. Len(nothing) = 0 /\ Len(some) = 0
          BY <3>5, <3>6, <3>8
        <4>2. QED
          BY <3>5, <3>6, <4>1
      <3>10. QED
        BY <2>1, <2>2, <3>9 DEF From
    <2>5. QED
      BY <2>1, <2>3, <2>4
  <1>10. QED
    BY <1>8, <1>9

\* Division.
LEMMA DivOf ==
  ASSUME NEW x \in Nat, NEW c \in Nat \ {0}
  PROVE  x \div c \in Nat /\ (x \div c) * c <= x /\ x < (x \div c) * c + c
  OBVIOUS

\* What the backward reader carries from chunk to chunk.
Carried(file) ==
  [buf : Seq(FileBytes(file)), aliased : BOOLEAN, pieces : Seq(Seq(FileBytes(file)))]
Has(pieces, text) == \E k \in DOMAIN pieces : pieces[k] = text

\* What is joined begins with the chunk, whatever has become of the rest.
LEMMA JoinedOf ==
  ASSUME NEW S, NEW chunk \in Seq(S), NEW buf \in Seq(S), NEW aliased
  PROVE  /\ Joined(chunk, buf, aliased) \in Seq(S)
         /\ Len(Joined(chunk, buf, aliased)) \in Nat
         /\ Len(chunk) \in Nat /\ Len(chunk) <= Len(Joined(chunk, buf, aliased))
         /\ \A q \in 1 .. Len(chunk) : Joined(chunk, buf, aliased)[q] = chunk[q]
  <1> DEFINE f == [k \in DOMAIN buf |-> IF k <= Len(chunk) THEN chunk[k] ELSE buf[k]]
             b == IF aliased THEN f ELSE buf
  <1>1. f \in Seq(S)
    <2>1. Len(chunk) \in Nat /\ Len(buf) \in Nat /\ DOMAIN buf = 1 .. Len(buf)
      OBVIOUS
    <2>2. \A k \in 1 .. Len(buf) : f[k] \in S
      BY <2>1
    <2>3. f \in [1 .. Len(buf) -> S]
      BY <2>1, <2>2
    <2> HIDE DEF f
    <2>4. QED
      BY <2>1, <2>3, SeqDef
  <1> HIDE DEF f
  <1>2. b \in Seq(S)
    BY <1>1
  <1>3. Joined(chunk, buf, aliased) = chunk \o b
    BY DEF Joined, f
  <1> HIDE DEF b
  <1>4. /\ chunk \o b \in Seq(S) /\ Len(chunk \o b) = Len(chunk) + Len(b)
        /\ Len(chunk) \in Nat /\ Len(b) \in Nat
        /\ \A q \in 1 .. Len(chunk) : (chunk \o b)[q] = chunk[q]
    BY <1>2
  <1>5. QED
    BY <1>3, <1>4

\* The pieces found in a chunk are added to those found before, and a line with
\* the newline before it in the chunk is among them.
LEMMA ReadChunkOf ==
  ASSUME NEW file \in Seq(Line), NEW chunk \in Seq(FileBytes(file)), NEW prev \in Carried(file)
  PROVE  /\ ReadChunk(file, chunk, prev) \in Carried(file)
         /\ \A text : Has(prev.pieces, text) => Has(ReadChunk(file, chunk, prev).pieces, text)
         /\ \A a \in 1 .. Len(chunk) : \A e \in a .. Len(chunk) - 1 :
              OneLine(file, chunk, a, e) /\ IsNewline(file, chunk[e + 1]) =>
                Has(ReadChunk(file, chunk, prev).pieces, SubSeq(chunk, a + 1, e))
  <1> DEFINE S == FileBytes(file)
             D == Seq(S)
             all == Joined(chunk, prev.buf, prev.aliased)
             found == Split(file, all)
             l == Len(found)
             new == Reverse(Tail(found))
             now == ReadChunk(file, chunk, prev)
  <1>1. prev.buf \in D /\ prev.pieces \in Seq(D) /\ chunk \in D
    BY DEF Carried
  <1>2. /\ all \in D /\ Len(all) \in Nat /\ Len(chunk) \in Nat /\ Len(chunk) <= Len(all)
        /\ \A q \in 1 .. Len(chunk) : all[q] = chunk[q]
    <2> HIDE DEF S
    <2>1. QED
      BY <1>1, JoinedOf
  <1>3. now = [buf |-> Head(found), aliased |-> prev.buf = <<>>, pieces |-> prev.pieces \o new]
    BY DEF ReadChunk
  <1> HIDE DEF S, all
  <1>4. found \in Seq(D) /\ l \in Nat /\ l > 0
    <2> DEFINE M == Len(all)
    <2>1. M \in 0 .. M
      BY <1>2
    <2>2. Pieces(file, all)[M] \in Seq(D) /\ Len(Pieces(file, all)[M]) \in Nat \ {0}
      BY <1>2, <2>1, PiecesShape
    <2>3. QED
      BY <2>2 DEF Split
  <1> HIDE DEF D, found, new
  <1>5. found # <<>>
    BY <1>4
  <1>6. /\ Head(found) \in D /\ Tail(found) \in Seq(D) /\ Len(Tail(found)) = l - 1
        /\ \A k \in 1 .. l - 1 : Tail(found)[k] = found[k + 1]
    BY <1>4, <1>5
  <1>7. /\ new \in Seq(D) /\ Len(new) = l - 1
        /\ \A k \in 1 .. l - 1 : new[k] = found[(l - k) + 1]
    <2>1. l - 1 \in Nat
      BY <1>4
    <2>2. new = [k \in 1 .. l - 1 |-> Tail(found)[((l - 1) - k) + 1]]
      BY <1>6 DEF new, Reverse
    <2>3. ASSUME NEW k \in 1 .. l - 1
          PROVE  /\ new[k] = found[(l - k) + 1] /\ new[k] \in D
      <3>1. ((l - 1) - k) + 1 \in 1 .. l - 1 /\ (((l - 1) - k) + 1) + 1 = (l - k) + 1
        BY <1>4
      <3>2. (l - k) + 1 \in 1 .. l
        BY <1>4
      <3>3. new[k] = Tail(found)[((l - 1) - k) + 1]
        BY <2>2
      <3>4. found[(l - k) + 1] \in D
        BY <1>4, <3>2
      <3>5. QED
        BY <1>6, <3>1, <3>3, <3>4
    <2>4. new \in [1 .. l - 1 -> D]
      BY <2>2, <2>3
    <2> HIDE DEF l
    <2>5. new \in Seq(D)
      BY <2>1, <2>4, SeqDef
    <2>6. DOMAIN new = 1 .. Len(new) /\ DOMAIN new = 1 .. l - 1 /\ Len(new) \in Nat
      BY <2>4, <2>5, LenProperties
    <2>7. QED
      BY <2>1, <2>3, <2>5, <2>6
  <1> DEFINE pieces == prev.pieces \o new
             n == Len(prev.pieces)
  <1>8. /\ pieces \in Seq(D) /\ DOMAIN pieces = 1 .. n + Len(new) /\ n \in Nat
        /\ \A k \in 1 .. n : pieces[k] = prev.pieces[k]
        /\ \A k \in 1 .. Len(new) : pieces[n + k] = new[k]
    <2> DEFINE old == prev.pieces
    <2>1. old \in Seq(D) /\ new \in Seq(D)
      BY <1>1, <1>7
    <2> HIDE DEF old
    <2>2. /\ old \o new \in Seq(D) /\ DOMAIN (old \o new) = 1 .. Len(old) + Len(new) /\ Len(old) \in Nat
          /\ \A k \in 1 .. Len(old) : (old \o new)[k] = old[k]
          /\ \A k \in 1 .. Len(new) : (old \o new)[Len(old) + k] = new[k]
      BY <2>1
    <2>3. QED
      BY <2>2 DEF old
  <1> HIDE DEF pieces
  <1>9. now.pieces = pieces
    BY <1>3 DEF pieces
  <1>10. now \in Carried(file)
    <2>1. Head(found) \in D /\ (prev.buf = <<>>) \in BOOLEAN /\ pieces \in Seq(D)
      BY <1>6, <1>8
    <2>2. now \in [buf : D, aliased : BOOLEAN, pieces : Seq(D)]
      BY <1>3, <2>1 DEF pieces
    <2>3. QED
      BY <2>2 DEF Carried, D, S
  <1> HIDE DEF now, n, l
  <1>11. ASSUME NEW text, Has(prev.pieces, text) PROVE Has(now.pieces, text)
    <2>1. PICK k \in DOMAIN prev.pieces : prev.pieces[k] = text
      BY <1>11 DEF Has
    <2>2. k \in 1 .. n
      BY <1>1 DEF n
    <2>3. k \in DOMAIN pieces /\ pieces[k] = text
      BY <1>4, <1>7, <1>8, <2>1, <2>2
    <2>4. QED
      BY <1>9, <2>3 DEF Has
  <1>12. ASSUME NEW a \in 1 .. Len(chunk), NEW e \in a .. Len(chunk) - 1,
                OneLine(file, chunk, a, e), IsNewline(file, chunk[e + 1])
         PROVE  Has(now.pieces, SubSeq(chunk, a + 1, e))
    <2> DEFINE m == Len(Pieces(file, all)[a])
               text == SubSeq(all, a + 1, e)
    <2>1. /\ a \in 1 .. Len(all) /\ a \in 0 .. Len(all) /\ e \in a .. Len(all) /\ e < Len(all)
          /\ a # 0 /\ e + 1 \in 1 .. Len(chunk)
      BY <1>2
    <2>2. all[a] = chunk[a] /\ all[e + 1] = chunk[e + 1] /\ \A r \in a + 1 .. e : all[r] = chunk[r]
      BY <1>2, <2>1
    <2>3. IsNewline(file, all[a]) /\ IsNewline(file, all[e + 1]) /\ OneLine(file, all, a, e)
      BY <1>12, <2>1, <2>2 DEF OneLine
    <2>4. m \in 1 .. l /\ found[m] = text
      <3>1. /\ m \in 1 .. Len(Split(file, all)) /\ Split(file, all)[m] = text
            /\ e < Len(all) => m = Len(Pieces(file, all)[e + 1]) - 1
            /\ e = Len(all) => m = Len(Split(file, all))
        BY <1>2, <2>1, <2>3, LineBetween DEF D
      <3>2. QED
        BY <3>1 DEF found, l
    <2>5. m - 1 \in 1 .. l
      BY <1>2, <2>1, <2>3, SplitSuffix DEF D, found, l
    <2> HIDE DEF m, text
    <2> DEFINE k == (l - m) + 1
    <2>6. k \in 1 .. l - 1 /\ (l - k) + 1 = m
      BY <1>4, <2>4, <2>5 DEF l
    <2> HIDE DEF k
    <2>7. new[k] = text /\ k \in 1 .. Len(new)
      BY <1>7, <2>4, <2>6
    <2>8. n + k \in DOMAIN pieces /\ pieces[n + k] = text
      BY <1>7, <1>8, <2>6, <2>7
    <2>9. text = SubSeq(chunk, a + 1, e)
      <3>1. \A r \in a + 1 .. e : all[r] \in S /\ chunk[r] \in S
        <4>1. \A r \in a + 1 .. e : r \in 1 .. Len(chunk)
          BY <1>2
        <4>2. \A r \in 1 .. Len(chunk) : chunk[r] \in S
          BY <1>1 DEF D
        <4>3. QED
          BY <2>2, <4>1, <4>2
      <3>2. a + 1 \in Int /\ e \in Int /\ e - (a + 1) + 1 \in Nat
        BY <1>2
      <3> DEFINE w == e - (a + 1) + 1
                 x == SubSeq(all, a + 1, e)
                 y == SubSeq(chunk, a + 1, e)
      <3>3. /\ x \in Seq(S) /\ Len(x) = IF a + 1 <= e THEN w ELSE 0
            /\ \A r \in 1 .. w : x[r] = all[(a + 1) + r - 1]
        BY <3>1, <3>2, SubSeqProperties
      <3>4. /\ y \in Seq(S) /\ Len(y) = IF a + 1 <= e THEN w ELSE 0
            /\ \A r \in 1 .. w : y[r] = chunk[(a + 1) + r - 1]
        BY <3>1, <3>2, SubSeqProperties
      <3>5. \A r \in 1 .. w : (a + 1) + r - 1 \in a + 1 .. e
        BY <3>2
      <3>6. (IF a + 1 <= e THEN w ELSE 0) = w
        BY <1>2
      <3> HIDE DEF w, x, y
      <3>7. \A r \in 1 .. w : x[r] = y[r]
        BY <2>2, <3>3, <3>4, <3>5
      <3>8. x = y
        BY <3>3, <3>4, <3>6, <3>7, SeqEqual
      <3>9. QED
        BY <3>8 DEF x, y, text
    <2>10. QED
      BY <1>9, <2>8, <2>9 DEF Has
  <1>13. QED
    BY <1>10, <1>11, <1>12 DEF now

\* A chunk is a stretch of the file.
LEMMA ChunkOfBytes ==
  ASSUME NEW S, NEW bytes \in Seq(S), NEW r \in Nat \ {0}
  PROVE  ChunkOf(bytes, r) \in Seq(S)
  <1> DEFINE N == Len(bytes)
             d == (r - 1) * Chunk
             end == N - d
             first == IF end > Chunk THEN end - Chunk + 1 ELSE 1
  <1>1. N \in Nat /\ \A q \in 1 .. N : bytes[q] \in S
    OBVIOUS
  <1>2. d \in Nat /\ Chunk \in Nat
    BY AuditReaderAssumption
  <1>3. ChunkOf(bytes, r) = SubSeq(bytes, first, end)
    BY DEF ChunkOf
  <1> HIDE DEF N, d
  <1>4. first \in Int /\ end \in Int /\ \A q \in first .. end : q \in 1 .. N
    BY <1>1, <1>2
  <1> HIDE DEF first, end
  <1>5. \A q \in first .. end : bytes[q] \in S
    BY <1>1, <1>4
  <1>6. QED
    BY <1>3, <1>4, <1>5, SubSeqProperties

\* The rounds of the backward reader, and that no piece is lost once it is found.
LEMMA BackwardsOf ==
  ASSUME NEW file \in Seq(Line)
  PROVE  LET M == Rounds(Len(Bytes(file)))
             R == Backwards(file)
         IN /\ M \in Nat /\ \A r \in 0 .. M : R[r] \in Carried(file)
            /\ \A r \in 1 .. M : R[r] = ReadChunk(file, ChunkOf(Bytes(file), r), R[r - 1])
            /\ \A r \in 0 .. M : \A text : Has(R[r].pieces, text) => Has(R[M].pieces, text)
  <1> DEFINE bytes == Bytes(file)
             M == Rounds(Len(bytes))
             D == Carried(file)
             a == [buf |-> <<>>, aliased |-> FALSE, pieces |-> <<>>]
             Step(r, c) == ReadChunk(file, ChunkOf(bytes, r), c)
             g == [p \in (1 .. M) \X D |-> Step(p[1], p[2])]
  <1>1. bytes \in Seq(FileBytes(file)) /\ Len(bytes) \in Nat
    BY BytesOf
  <1> HIDE DEF bytes
  <1>2. M \in Nat
    <2>1. Chunk \in Nat \ {0} /\ Len(bytes) + Chunk - 1 \in Nat
      BY <1>1, AuditReaderAssumption
    <2>2. QED
      BY <2>1, DivOf DEF Rounds
  <1>3. a \in D
    BY DEF Carried
  <1> HIDE DEF M, D, a
  <1>4. ASSUME NEW r \in 1 .. M, NEW c \in D
        PROVE  Step(r, c) \in D /\ \A text : Has(c.pieces, text) => Has(Step(r, c).pieces, text)
    <2>1. r \in Nat \ {0}
      BY <1>2
    <2>2. ChunkOf(bytes, r) \in Seq(FileBytes(file))
      BY <1>1, <2>1, ChunkOfBytes
    <2>3. QED
      BY <2>2, ReadChunkOf DEF D
  <1> HIDE DEF Step
  <1>5. g \in [(1 .. M) \X D -> D]
    BY <1>4
  <1>6. \A r \in 1 .. M, c \in D : g[<<r, c>>] = Step(r, c)
    OBVIOUS
  <1> HIDE DEF g
  <1>7. PICK F \in [0 .. M -> D] : Loop(F, M, a, g)
    BY <1>2, <1>3, <1>5, LoopExists
  <1>8. \A r \in 1 .. M : F[r] = Step(r, F[r - 1])
    <2> SUFFICES ASSUME NEW r \in 1 .. M PROVE F[r] = Step(r, F[r - 1])
      OBVIOUS
    <2>1. r - 1 \in 0 .. M
      BY <1>2
    <2>2. F[r - 1] \in D
      BY <2>1
    <2>3. QED
      BY <1>6, <1>7, <2>2 DEF Loop
  <1> DEFINE Is(R) == R = [r \in 0 .. M |-> IF r = 0 THEN a ELSE Step(r, R[r - 1])]
             R == Backwards(file)
  <1>9. Is(F)
    <2>1. \A r \in 0 .. M : F[r] = IF r = 0 THEN a ELSE Step(r, F[r - 1])
      BY <1>2, <1>7, <1>8 DEF Loop
    <2>2. QED
      BY <2>1
  <1>10. Is(R)
    BY <1>9 DEF Backwards, M, a, bytes, Step
  <1> HIDE DEF R
  <1>11. R[0] = a /\ \A r \in 1 .. M : R[r] = Step(r, R[r - 1])
    <2>1. 0 \in 0 .. M /\ \A r \in 1 .. M : r \in 0 .. M /\ r # 0
      BY <1>2
    <2>2. QED
      BY <1>10, <2>1
  <1> HIDE DEF Is
  <1>12. \A r \in 1 .. M : R[r - 1] \in D => R[r] \in D
    BY <1>4, <1>11
  <1>13. \A r \in 0 .. M : R[r] \in D
    BY <1>2, <1>3, <1>11, <1>12, LoopStays
  <1>14. ASSUME NEW r \in 0 .. M, NEW text, Has(R[r].pieces, text) PROVE Has(R[M].pieces, text)
    <2> DEFINE T == {d \in Nat : r + d <= M => Has(R[r + d].pieces, text)}
    <2>1. 0 \in T
      <3>1. r + 0 = r
        BY <1>2
      <3>2. QED
        BY <1>14, <3>1
    <2>2. ASSUME NEW d \in Nat, d \in T PROVE d + 1 \in T
      <3> DEFINE m == r + d
      <3> SUFFICES ASSUME m + 1 <= M PROVE Has(R[m + 1].pieces, text)
        BY <1>2
      <3>1. m \in 0 .. M /\ m + 1 \in 1 .. M /\ (m + 1) - 1 = m
        BY <1>2
      <3>2. Has(R[m].pieces, text)
        BY <1>2, <2>2, <3>1
      <3> HIDE DEF m
      <3>3. R[m] \in D /\ R[m + 1] = Step(m + 1, R[m])
        BY <1>11, <1>13, <3>1
      <3>4. QED
        BY <1>4, <3>1, <3>2, <3>3
    <2>3. M - r \in Nat /\ r + (M - r) = M
      BY <1>2
    <2>4. M - r \in T
      <3> HIDE DEF T
      <3> QED
        BY <2>1, <2>2, <2>3, SetInduction
    <2>5. M <= M
      BY <1>2
    <2>6. QED
      BY <2>3, <2>4, <2>5
  <1>15. QED
    BY <1>2, <1>11, <1>13, <1>14 DEF R, M, D, bytes, Step

\* Where a line that lies within one chunk lies in it.
LEMMA ChunkWith ==
  ASSUME NEW total \in Nat, NEW start \in Nat \ {0}, NEW len \in Nat \ {0}, start + len <= total,
         (total - start) \div Chunk = (total - start - len) \div Chunk
  PROVE  \E r \in 1 .. Rounds(total) :
           /\ r \in Nat /\ total - (r - 1) * Chunk \in Nat
           /\ start + len <= total - (r - 1) * Chunk /\ total - (r - 1) * Chunk <= total
           /\ total - (r - 1) * Chunk > Chunk => (total - (r - 1) * Chunk) - Chunk + 1 <= start
  <1> DEFINE d == (total - start) \div Chunk
             x == d * Chunk
             M == Rounds(total)
  <1>1. Chunk \in Nat \ {0}
    BY AuditReaderAssumption
  <1>2. total - start \in Nat /\ total - start - len \in Nat /\ total + Chunk - 1 \in Nat
    BY <1>1
  <1>3. d \in Nat /\ total - start < x + Chunk
    BY <1>1, <1>2, DivOf
  <1>4. x <= total - start - len
    BY <1>1, <1>2, DivOf
  <1>5. M \in Nat /\ total + Chunk - 1 < M * Chunk + Chunk
    BY <1>1, <1>2, DivOf DEF Rounds
  <1>6. x \in Nat
    BY <1>1, <1>3
  <1> HIDE DEF d, M
  <1>7. d < M
    <2> SUFFICES ASSUME M <= d PROVE FALSE
      BY <1>3, <1>5
    <2> DEFINE y == M * Chunk
    <2>1. y <= x /\ y \in Nat
      BY <1>1, <1>3, <1>5
    <2> HIDE DEF x, y
    <2>2. QED
      BY <1>1, <1>4, <1>5, <1>6, <2>1 DEF y
  <1>8. d + 1 \in 1 .. M /\ (d + 1) - 1 = d
    BY <1>3, <1>5, <1>7
  <1>9. ((d + 1) - 1) * Chunk = x
    BY <1>8
  <1> HIDE DEF x
  <1>10. /\ total - x \in Nat /\ start + len <= total - x /\ total - x <= total
         /\ total - x > Chunk => (total - x) - Chunk + 1 <= start
    BY <1>1, <1>2, <1>3, <1>4, <1>6
  <1> DEFINE r == d + 1
  <1>11. r \in 1 .. M /\ r \in Nat /\ (r - 1) * Chunk = x
    BY <1>3, <1>8, <1>9
  <1> HIDE DEF r
  <1>12. QED
    BY <1>10, <1>11 DEF M

\* A readable line lies between two newlines, and its text parses.
LEMMA ReadableLine ==
  ASSUME NEW file \in Seq(Line), LongLines(file), NEW i \in 2 .. Len(file), Readable(file, i)
  PROVE  LET s == StartOf(file, i)
             w == file[i].len
             B == Bytes(file)
         IN /\ s \in Nat \ {0} /\ w \in Nat \ {0} /\ s + w <= Len(B)
            /\ IsNewline(file, B[s]) /\ IsNewline(file, B[s + w])
            /\ \A r \in s + 1 .. s + w - 1 : ~IsNewline(file, B[r])
            /\ Matches(file, SubSeq(B, s + 1, s + w - 1), 0)
            /\ Parsed(file, SubSeq(B, s + 1, s + w - 1)) = file[i].ev
  <1> DEFINE X == Sums(file)
             B == Bytes(file)
             N == Len(file)
             s == StartOf(file, i)
             w == file[i].len
             v == file[i - 1].len
             text == SubSeq(B, s + 1, s + w - 1)
  <1>1. /\ N \in Nat /\ i \in 1 .. N /\ i - 1 \in 1 .. N /\ i # 1 /\ (i - 1) - 1 \in 0 .. N
        /\ i - 1 \in 0 .. N
    OBVIOUS
  <1>2. file[i].whole /\ file[i - 1].whole
    BY <1>1 DEF Readable
  <1>3. file[i] \in Line /\ file[i - 1] \in Line /\ i \in DOMAIN file /\ i - 1 \in DOMAIN file
    BY <1>1
  <1>4. w \in Nat /\ v \in Nat /\ w > 1 /\ v > 1 /\ file[i].ev \in Nat
    BY <1>2, <1>3 DEF LongLines, Line
  <1>5. s = X[i - 1]
    BY <1>1, StartOfLine
  <1>6. X \in [0 .. N -> Nat] /\ \A j \in 1 .. N : X[j] = X[j - 1] + file[j].len
    BY SumsOf
  <1>7. /\ B \in Seq(FileBytes(file)) /\ Len(B) \in Nat
        /\ \A j \in 1 .. N : \A k \in 1 .. file[j].len :
             X[j - 1] + k \in 1 .. Len(B) /\ B[X[j - 1] + k] = <<j, k>>
    BY BytesOf
  <1> HIDE DEF X, B, N, s
  <1>8. s = X[(i - 1) - 1] + v /\ X[(i - 1) - 1] \in Nat /\ s \in Nat
    BY <1>1, <1>5, <1>6
  <1>9. s \in Nat \ {0} /\ B[s] = <<i - 1, v>>
    <2>1. v \in 1 .. v
      BY <1>4
    <2>2. X[(i - 1) - 1] + v \in 1 .. Len(B) /\ B[X[(i - 1) - 1] + v] = <<i - 1, v>>
      BY <1>1, <1>7, <2>1
    <2>3. QED
      BY <1>7, <1>8, <2>2
  <1>10. \A k \in 1 .. w : s + k \in 1 .. Len(B) /\ B[s + k] = <<i, k>>
    BY <1>1, <1>5, <1>7
  <1> HIDE DEF w, v
  <1>11. s + w <= Len(B) /\ B[s + w] = <<i, w>>
    <2>1. w \in 1 .. w
      BY <1>4
    <2>2. s + w \in 1 .. Len(B) /\ B[s + w] = <<i, w>>
      BY <1>10, <2>1
    <2>3. QED
      BY <1>7, <2>2
  <1>12. IsNewline(file, B[s]) /\ IsNewline(file, B[s + w])
    BY <1>2, <1>9, <1>11 DEF IsNewline, v, w
  <1>13. \A r \in s + 1 .. s + w - 1 : ~IsNewline(file, B[r])
    <2> SUFFICES ASSUME NEW r \in s + 1 .. s + w - 1 PROVE ~IsNewline(file, B[r])
      OBVIOUS
    <2>1. r - s \in 1 .. w /\ s + (r - s) = r /\ r - s # w
      BY <1>4, <1>9
    <2>2. B[r] = <<i, r - s>>
      BY <1>10, <2>1
    <2>3. QED
      BY <2>1, <2>2 DEF IsNewline, w
  <1>14. text = [k \in 1 .. w - 1 |-> <<i, k>>] /\ Len(text) = w - 1
    <2>1. s + 1 \in Int /\ s + w - 1 \in Int /\ (s + w - 1) - (s + 1) + 1 = w - 1 /\ s + 1 <= s + w - 1 /\ w - 1 \in Nat
      BY <1>4, <1>9
    <2>2. \A r \in s + 1 .. s + w - 1 : B[r] \in FileBytes(file)
      <3>1. \A r \in s + 1 .. s + w - 1 : r \in 1 .. Len(B)
        BY <1>4, <1>7, <1>9, <1>11
      <3> DEFINE S == FileBytes(file)
      <3> HIDE DEF S
      <3>2. \A r \in 1 .. Len(B) : B[r] \in S
        BY <1>7 DEF S
      <3>3. QED
        BY <3>1, <3>2 DEF S
    <2>3. /\ text \in Seq(FileBytes(file)) /\ Len(text) = w - 1
          /\ \A k \in 1 .. w - 1 : text[k] = B[(s + 1) + k - 1]
      <3> DEFINE m == s + 1
                 n == s + w - 1
      <3>1. m \in Int /\ n \in Int /\ (\A r \in m .. n : B[r] \in FileBytes(file)) /\ n - m + 1 = w - 1 /\ m <= n
        BY <2>1, <2>2
      <3>2. /\ SubSeq(B, m, n) \in Seq(FileBytes(file))
            /\ Len(SubSeq(B, m, n)) = IF m <= n THEN n - m + 1 ELSE 0
            /\ \A k \in 1 .. n - m + 1 : SubSeq(B, m, n)[k] = B[m + k - 1]
        <4> HIDE DEF m, n
        <4> QED
          BY <3>1, SubSeqProperties
      <3> HIDE DEF n
      <3>3. QED
        BY <3>1, <3>2 DEF n
    <2> HIDE DEF text
    <2>4. \A k \in 1 .. w - 1 : text[k] = <<i, k>>
      <3> SUFFICES ASSUME NEW k \in 1 .. w - 1 PROVE text[k] = <<i, k>>
        OBVIOUS
      <3>1. (s + 1) + k - 1 = s + k /\ k \in 1 .. w
        BY <1>4, <1>9
      <3>2. QED
        BY <1>10, <2>3, <3>1
    <2>5. text = [k \in 1 .. w - 1 |-> text[k]]
      BY <2>1, <2>3
    <2>6. QED
      BY <2>3, <2>4, <2>5
  <1> HIDE DEF text
  <1>15. text # <<>> /\ text[1][1] = i
    <2>1. 1 \in 1 .. w - 1 /\ w - 1 # 0
      BY <1>4
    <2>2. text[1] = <<i, 1>>
      BY <1>14, <2>1
    <2>3. QED
      BY <1>14, <2>1, <2>2
  <1>16. Parses(file, text) /\ Parsed(file, text) = file[i].ev
    BY <1>2, <1>14, <1>15 DEF Parses, Parsed, w
  <1>17. Matches(file, text, 0)
    BY <1>4, <1>16 DEF Matches
  <1>18. w \in Nat \ {0}
    BY <1>4
  <1>19. QED
    BY <1>9, <1>11, <1>12, <1>13, <1>16, <1>17, <1>18 DEF s, w, B, text

\* The backward reader finds the lines that lie within a chunk with the newline
\* before them, and only lines of the file.
LEMMA ReverseOf ==
  ASSUME NEW file \in Seq(Line), LongLines(file)
  PROVE  LET back == ReadAuditEntriesReverse(file, 0, 0, 0)
             total == Written(file)
         IN /\ \A e \in DOMAIN back : \E i \in DOMAIN file : file[i].whole /\ back[e] = file[i].ev
            /\ \A i \in 2 .. Len(file) :
                 Readable(file, i) /\ (total - StartOf(file, i)) \div Chunk
                                        = (total - StartOf(file, i) - file[i].len) \div Chunk
                   => \E e \in DOMAIN back : back[e] = file[i].ev
  <1> DEFINE S == FileBytes(file)
             bytes == Bytes(file)
             total == Len(bytes)
             M == Rounds(total)
             R == Backwards(file)
             pieces == R[M].pieces
             back == Entries(file, pieces, 0)
  <1>1. bytes \in Seq(S) /\ total \in Nat /\ Written(file) = total
    BY BytesOf
  <1>2. /\ M \in Nat /\ \A r \in 0 .. M : R[r] \in Carried(file)
        /\ \A r \in 1 .. M : R[r] = ReadChunk(file, ChunkOf(bytes, r), R[r - 1])
        /\ \A r \in 0 .. M : \A text : Has(R[r].pieces, text) => Has(R[M].pieces, text)
    BY BackwardsOf
  <1>3. ReadAuditEntriesReverse(file, 0, 0, 0) = Page(back, 0, 0)
    BY DEF ReadAuditEntriesReverse
  <1> HIDE DEF bytes, R, M
  <1>4. pieces \in Seq(Seq(S))
    <2>1. R[M] \in Carried(file)
      BY <1>2
    <2>2. QED
      BY <2>1 DEF Carried
  <1> HIDE DEF pieces
  <1>5. /\ back \in Seq(Nat)
        /\ \A e \in DOMAIN back : \E k \in 1 .. Len(pieces) :
             Matches(file, pieces[k], 0) /\ back[e] = Parsed(file, pieces[k])
        /\ \A k \in 1 .. Len(pieces) : Matches(file, pieces[k], 0) =>
             \E e \in DOMAIN back : back[e] = Parsed(file, pieces[k])
    BY <1>4, EntriesOf
  <1> HIDE DEF back
  <1>6. ReadAuditEntriesReverse(file, 0, 0, 0) = back
    BY <1>3, <1>5, PageAll
  <1>7. ASSUME NEW e \in DOMAIN back PROVE \E i \in DOMAIN file : file[i].whole /\ back[e] = file[i].ev
    <2>1. PICK k \in 1 .. Len(pieces) : Matches(file, pieces[k], 0) /\ back[e] = Parsed(file, pieces[k])
      BY <1>5
    <2> DEFINE D == Seq(S)
    <2> HIDE DEF D
    <2>2. pieces[k] \in D
      <3>1. pieces \in Seq(D)
        BY <1>4 DEF D
      <3>2. QED
        BY <3>1
    <2>3. pieces[k] \in Seq(FileBytes(file)) /\ Parses(file, pieces[k])
      BY <2>1, <2>2 DEF Matches, D
    <2>4. QED
      BY <2>1, <2>3, ParsedOf
  <1>8. ASSUME NEW i \in 2 .. Len(file), Readable(file, i),
               (total - StartOf(file, i)) \div Chunk = (total - StartOf(file, i) - file[i].len) \div Chunk
        PROVE  \E e \in DOMAIN back : back[e] = file[i].ev
    <2> DEFINE s == StartOf(file, i)
               w == file[i].len
               text == SubSeq(bytes, s + 1, s + w - 1)
    <2>1. /\ s \in Nat \ {0} /\ w \in Nat \ {0} /\ s + w <= total
          /\ IsNewline(file, bytes[s]) /\ IsNewline(file, bytes[s + w])
          /\ \A r \in s + 1 .. s + w - 1 : ~IsNewline(file, bytes[r])
          /\ Matches(file, text, 0) /\ Parsed(file, text) = file[i].ev
      BY <1>8, ReadableLine DEF bytes
    <2>2. (total - s) \div Chunk = (total - s - w) \div Chunk
      BY <1>8
    <2> HIDE DEF s, w, total
    <2>3. PICK r \in 1 .. M :
            /\ r \in Nat /\ total - (r - 1) * Chunk \in Nat
            /\ s + w <= total - (r - 1) * Chunk /\ total - (r - 1) * Chunk <= total
            /\ total - (r - 1) * Chunk > Chunk => (total - (r - 1) * Chunk) - Chunk + 1 <= s
      BY <1>1, <2>1, <2>2, ChunkWith DEF M
    <2> DEFINE end == total - (r - 1) * Chunk
               first == IF end > Chunk THEN end - Chunk + 1 ELSE 1
               chunk == ChunkOf(bytes, r)
    <2>4. chunk = SubSeq(bytes, first, end)
      BY DEF ChunkOf, total
    <2>5. Chunk \in Nat \ {0}
      BY AuditReaderAssumption
    <2>6. /\ end \in Nat /\ s + w <= end /\ end <= total /\ (end > Chunk => end - Chunk + 1 <= s)
      BY <2>3
    <2> HIDE DEF end, chunk
    <2>7. first \in Nat /\ first >= 1 /\ first <= s /\ first <= end
      BY <2>1, <2>5, <2>6
    <2> HIDE DEF first
    <2>8. /\ chunk \in Seq(S) /\ Len(chunk) = end - first + 1
          /\ \A q \in 1 .. end - first + 1 : chunk[q] = bytes[first + q - 1]
      <3>1. \A q \in first .. end : bytes[q] \in S
        <4>1. \A q \in first .. end : q \in 1 .. Len(bytes)
          BY <1>1, <2>6, <2>7 DEF total
        <4> HIDE DEF S
        <4>2. QED
          BY <1>1, <4>1
      <3>2. QED
        BY <2>4, <2>6, <2>7, <3>1, SubSeqProperties
    <2> DEFINE a == s - first + 1
               e == (s + w - 1) - first + 1
    <2>9. /\ a \in 1 .. Len(chunk) /\ e \in a .. Len(chunk) - 1 /\ a \in Nat /\ e \in Nat /\ Len(chunk) \in Nat
          /\ first + a - 1 = s /\ first + (e + 1) - 1 = s + w /\ e + 1 \in 1 .. Len(chunk)
          /\ \A q \in a + 1 .. e : q \in 1 .. Len(chunk) /\ first + q - 1 \in s + 1 .. s + w - 1
      BY <2>1, <2>6, <2>7, <2>8
    <2>10. chunk[a] = bytes[s] /\ chunk[e + 1] = bytes[s + w]
      <3> HIDE DEF a, e
      <3> QED
        BY <2>8, <2>9
    <2>11. \A q \in a + 1 .. e : chunk[q] = bytes[first + q - 1]
      <3> HIDE DEF a, e
      <3> QED
        BY <2>8, <2>9
    <2>12. e - a = w - 1
      BY <2>1, <2>7
    <2> HIDE DEF a, e
    <2>13. OneLine(file, chunk, a, e) /\ IsNewline(file, chunk[e + 1])
      <3>1. \A q \in a + 1 .. e : ~IsNewline(file, chunk[q])
        BY <2>1, <2>9, <2>11
      <3>2. QED
        BY <2>1, <2>10, <3>1 DEF OneLine
    <2>14. SubSeq(chunk, a + 1, e) = text
      <3> DEFINE m == a + 1
                 b == s + 1
                 c == s + w - 1
                 x == SubSeq(chunk, m, e)
                 y == SubSeq(bytes, b, c)
      <3>1. /\ m \in Int /\ e \in Int /\ b \in Int /\ c \in Int /\ w - 1 \in Nat
            /\ e - m + 1 = w - 1 /\ c - b + 1 = w - 1
            /\ (IF m <= e THEN e - m + 1 ELSE 0) = w - 1
            /\ (IF b <= c THEN c - b + 1 ELSE 0) = w - 1
            /\ \A k \in 1 .. w - 1 : m + k - 1 \in a + 1 .. e /\ first + (m + k - 1) - 1 = b + k - 1
        BY <2>1, <2>7, <2>9, <2>12
      <3>2. \A q \in m .. e : chunk[q] \in S
        <4>1. \A q \in m .. e : q \in 1 .. Len(chunk)
          BY <2>9
        <4> HIDE DEF S, m
        <4>2. QED
          BY <2>8, <4>1
      <3>3. \A q \in b .. c : bytes[q] \in S
        <4>1. \A q \in b .. c : q \in 1 .. Len(bytes)
          BY <1>1, <2>1 DEF total
        <4> HIDE DEF S, b, c
        <4>2. QED
          BY <1>1, <4>1
      <3> HIDE DEF m, b, c, S
      <3>4. /\ x \in Seq(S) /\ Len(x) = IF m <= e THEN e - m + 1 ELSE 0
            /\ \A k \in 1 .. e - m + 1 : x[k] = chunk[m + k - 1]
        <4>1. m \in Int /\ e \in Int
          BY <3>1
        <4>2. QED
          BY <3>2, <4>1, SubSeqProperties
      <3>5. /\ y \in Seq(S) /\ Len(y) = IF b <= c THEN c - b + 1 ELSE 0
            /\ \A k \in 1 .. c - b + 1 : y[k] = bytes[b + k - 1]
        <4>1. b \in Int /\ c \in Int
          BY <3>1
        <4>2. QED
          BY <3>3, <4>1, SubSeqProperties
      <3> HIDE DEF x, y, S
      <3>6. Len(x) = w - 1 /\ Len(y) = w - 1
        BY <3>1, <3>4, <3>5
      <3>7. \A k \in 1 .. w - 1 : x[k] = y[k]
        <4> SUFFICES ASSUME NEW k \in 1 .. w - 1 PROVE x[k] = y[k]
          OBVIOUS
        <4> DEFINE q == m + k - 1
        <4>1. q \in a + 1 .. e /\ first + q - 1 = b + k - 1
          BY <3>1
        <4>2. x[k] = chunk[q] /\ y[k] = bytes[b + k - 1]
          BY <3>1, <3>4, <3>5
        <4> HIDE DEF q
        <4>3. chunk[q] = bytes[first + q - 1]
          BY <2>11, <4>1
        <4>4. QED
          BY <4>1, <4>2, <4>3
      <3>8. x = y
        BY <3>4, <3>5, <3>6, <3>7, SeqEqual
      <3>9. QED
        BY <3>8 DEF x, y, m, b, c
    <2>15. r - 1 \in 0 .. M /\ r \in 0 .. M
      BY <1>2, <2>3
    <2>16. R[r - 1] \in Carried(file) /\ R[r] = ReadChunk(file, chunk, R[r - 1])
      BY <1>2, <2>15 DEF chunk
    <2>17. Has(R[r].pieces, text)
      <3> HIDE DEF text
      <3>1. Has(ReadChunk(file, chunk, R[r - 1]).pieces, SubSeq(chunk, a + 1, e))
        BY <2>8, <2>9, <2>13, <2>16, ReadChunkOf
      <3>2. QED
        BY <2>14, <2>16, <3>1
    <2>18. Has(pieces, text)
      BY <1>2, <2>15, <2>17 DEF pieces
    <2> HIDE DEF text
    <2>19. PICK k \in DOMAIN pieces : pieces[k] = text
      BY <2>18 DEF Has
    <2>20. k \in 1 .. Len(pieces)
      BY <1>4
    <2>21. QED
      BY <1>5, <2>1, <2>19, <2>20
  <1>9. QED
    BY <1>1, <1>6, <1>7, <1>8

-------------------------------------------------------------------------------
(* The lines that are read back *)

\* A whole line is more than its newline, on disk and before it is written.
LinesInv ==
  /\ \A n \in Inodes : LongLines(data[n])
  /\ \A r \in Recorders : rec[r].pc \in {"locking", "writing"} => rec[r].len > 1

\* A file is as it was, or was emptied, or has a line more.
LEMMA LongLinesMove ==
  ASSUME FileTypes, NEW n \in Inodes, LongLines(data[n]),
         \/ data'[n] = data[n]
         \/ data'[n] = <<>>
         \/ \E l \in Line : data'[n] = Append(data[n], l) /\ (l.whole => l.len > 1)
  PROVE  LongLines(data'[n])
  <1>1. data[n] \in Seq(Line)
    BY DEF FileTypes
  <1>2. CASE data'[n] = data[n]
    BY <1>2
  <1>3. CASE data'[n] = <<>>
    BY <1>3 DEF LongLines
  <1>4. ASSUME NEW l \in Line, data'[n] = Append(data[n], l), l.whole => l.len > 1 PROVE LongLines(data'[n])
    <2> DEFINE f == data[n]
               g == data'[n]
    <2>1. f \in Seq(Line) /\ g = Append(f, l) /\ LongLines(f)
      BY <1>1, <1>4
    <2> HIDE DEF f, g
    <2>2. \A i \in DOMAIN g : (i \in DOMAIN f /\ g[i] = f[i]) \/ g[i] = l
      BY <2>1
    <2>3. LongLines(g)
      BY <1>4, <2>1, <2>2 DEF LongLines
    <2>4. QED
      BY <2>3 DEF g
  <1>5. QED
    BY <1>2, <1>3, <1>4

\* Every step keeps the lines long.
LEMMA NextLines == TypeOK /\ ControlInv /\ NamesInv /\ LinesInv /\ [Next]_vars => LinesInv'
  <1> SUFFICES ASSUME TypeOK, ControlInv, NamesInv, LinesInv, [Next]_vars PROVE LinesInv'
    OBVIOUS
  <1>1. /\ data \in [Inodes -> Seq(Line)] /\ rec \in [Recorders -> RecordCalls]
        /\ handle \in Inodes \cup {None}
        /\ \A n \in Inodes : LongLines(data[n])
        /\ \A r \in Recorders : rec[r].pc \in {"locking", "writing"} => rec[r].len > 1
    BY DEF TypeOK, FileTypes, StoreTypes, LinesInv
  <1>2. ASSUME data' = data \/ Emptied PROVE \A n \in Inodes : LongLines(data'[n])
    BY <1>1, <1>2, LongLinesMove DEF TypeOK, Emptied
  <1>3. ASSUME NEW l \in Line, Appended(handle, l), handle \in Inodes, l.whole => l.len > 1
        PROVE  \A n \in Inodes : LongLines(data'[n])
    <2> SUFFICES ASSUME NEW n \in Inodes PROVE LongLines(data'[n])
      OBVIOUS
    <2>1. (n # handle => data'[n] = data[n]) /\ data'[handle] = Append(data[handle], l)
      BY <1>3, AppendedLines DEF TypeOK
    <2>2. QED
      BY <1>1, <1>3, <2>1, LongLinesMove DEF TypeOK
  <1>4. rec' = rec \/ (\A r \in Recorders : rec'[r] = Idle \/ rec'[r] = rec[r]) =>
          \A r \in Recorders : rec'[r].pc \in {"locking", "writing"} => rec'[r].len > 1
    <2>1. Idle.pc = "idle"
      BY DEF Idle
    <2>2. QED
      BY <1>1, <2>1
  <1>5. ASSUME NEW r \in Recorders, Record(r) PROVE LinesInv'
    <2>1. data' = data
      BY <1>5 DEF Record, fileVars
    <2>2. \A q \in Recorders : rec'[q] = rec[q] \/ rec'[q].pc = "signing"
      BY <1>1, <1>5 DEF Record
    <2>3. QED
      BY <1>1, <1>2, <2>1, <2>2 DEF LinesInv
  <1>6. ASSUME NEW r \in Recorders, Sign(r) PROVE LinesInv'
    <2>1. data' = data
      BY <1>6 DEF Sign, fileVars
    <2>2. PICK n \in {Unsigned, Signed} : rec' = [rec EXCEPT ![r].pc = "locking", ![r].len = n]
      BY <1>6 DEF Sign
    <2>3. n \in Nat /\ n > 1
      BY SupervisionStoreAssumption
    <2>4. \A q \in Recorders : rec'[q] = rec[q] \/ rec'[q].len = n
      BY <1>1, <2>2 DEF RecordCalls
    <2>5. QED
      BY <1>1, <1>2, <2>1, <2>3, <2>4 DEF LinesInv
  <1>7. ASSUME NEW r \in Recorders, Lock(r) PROVE LinesInv'
    <2>1. data' = data /\ rec[r].pc = "locking" /\ rec' = [rec EXCEPT ![r].pc = "writing"]
      BY <1>7 DEF Lock, WriteBegin
    <2>2. \A q \in Recorders : rec'[q] = rec[q] \/ (q = r /\ rec'[q].len = rec[q].len)
      BY <1>1, <2>1 DEF RecordCalls
    <2>3. QED
      BY <1>1, <1>2, <2>1, <2>2 DEF LinesInv
  <1>8. ASSUME NEW r \in Recorders, Ack(r) PROVE LinesInv'
    <2> DEFINE l == [ev |-> rec[r].ev, len |-> rec[r].len, whole |-> TRUE]
    <2>1. rec[r].pc = "writing" /\ rec[r].ev \in Nat /\ rec[r].len \in Nat /\ rec[r].len > 1
      BY <1>1, <1>8 DEF Ack, ControlInv, RecordCalls
    <2>2. l \in Line /\ l.len > 1
      BY <2>1 DEF Line
    <2>3. Appended(handle, l) /\ handle \in Inodes /\ rec' = [rec EXCEPT ![r] = Idle]
      BY <1>1, <1>8 DEF Ack, WriteAll, Appended
    <2> HIDE DEF l
    <2>4. \A q \in Recorders : rec'[q] = Idle \/ rec'[q] = rec[q]
      BY <1>1, <2>3
    <2>5. QED
      BY <1>3, <1>4, <2>2, <2>3, <2>4 DEF LinesInv
  <1>9. ASSUME NEW r \in Recorders, Fail(r) PROVE LinesInv'
    <2>1. \A q \in Recorders : rec'[q] = Idle \/ rec'[q] = rec[q]
      BY <1>1, <1>9 DEF Fail
    <2>2. CASE ReopenFails \/ WriteClosed
      BY <1>2, <1>4, <2>1, <2>2 DEF ReopenFails, WriteClosed, LinesInv
    <2>3. CASE WriteShort(rec[r].ev, rec[r].len)
      <3> DEFINE l == [ev |-> rec[r].ev, len |-> 1, whole |-> FALSE]
      <3>1. l \in Line /\ ~l.whole
        BY <1>1 DEF Line, RecordCalls
      <3>2. handle \in Inodes /\ (data' = data \/ Appended(handle, l))
        BY <1>1, <2>3 DEF WriteShort, Appended
      <3> HIDE DEF l
      <3>3. QED
        BY <1>2, <1>3, <1>4, <2>1, <3>1, <3>2 DEF LinesInv
    <2>4. QED
      BY <1>9, <2>2, <2>3 DEF Fail
  <1>10. CASE Rotate \/ NewSupervisionStore
    <2>1. rec' = rec
      BY <1>10 DEF Rotate, NewSupervisionStore, storeVars
    <2>2. data' = data \/ Emptied
      BY <1>1, <1>10 DEF Rotate, NewSupervisionStore, RemoveOld, RenamePrev, Reopen, NewRotatingFile, Emptied
    <2>3. QED
      BY <1>2, <1>4, <2>1, <2>2 DEF LinesInv
  <1>11. CASE Close \/ Archive \/ QueryOpen \/ QueryLine \/ QueryEnd \/ Seal \/ UNCHANGED vars
    <2>1. rec' = rec /\ data' = data
      BY <1>11 DEF Close, FileClose, Archive, ArchiveAuditFile, QueryOpen, QueryLine, QueryEnd, Seal,
                   vars, fileVars, storeVars
    <2>2. QED
      BY <1>2, <1>4, <2>1 DEF LinesInv
  <1>12. CASE Crash
    <2>1. data' = data /\ \A q \in Recorders : rec'[q] = Idle
      BY <1>12 DEF Crash, FileCrash
    <2>2. QED
      BY <1>2, <1>4, <2>1 DEF LinesInv
  <1>13. QED
    BY <1>5, <1>6, <1>7, <1>8, <1>9, <1>10, <1>11, <1>12 DEF Next

\* The lines are long in every reachable state.
LEMMA LinesReachable == Spec => []LinesInv
  <1>1. Init => LinesInv
    <2> SUFFICES ASSUME Init PROVE LinesInv
      OBVIOUS
    <2>1. PICK s \in Scenarios : data = s.data /\ rec = [r \in Recorders |-> Idle]
      BY DEF Init
    <2>2. LeftBehind(s)
      BY SupervisionStoreAssumption
    <2> DEFINE named == {i \in Names : s.dir[i] # None}
    <2>3. /\ \A n \in Inodes \ {s.dir[i] : i \in named} : data[n] = <<>>
          /\ \A i \in named : \A p \in DOMAIN data[s.dir[i]] : data[s.dir[i]][p].whole => data[s.dir[i]][p].len > 1
      BY <2>1, <2>2 DEF LeftBehind
    <2>4. \A n \in Inodes : LongLines(data[n])
      BY <2>3 DEF LongLines
    <2>5. \A r \in Recorders : rec[r].pc = "idle"
      BY <2>1 DEF Idle
    <2>6. QED
      BY <2>4, <2>5 DEF LinesInv
  <1>2. StoreInv /\ LinesInv /\ [Next]_vars => LinesInv'
    BY NextLines DEF StoreInv
  <1>3. QED
    BY <1>1, <1>2, Reachable, PTL DEF Spec

\* What is read back from a log at rest: reading from a time misses nothing but
\* what stands before a line that is older or does not parse, and reading
\* backwards finds every entry that lies within a chunk and invents none;
\* whatever the size of the chunks, the length of the lines and the failures,
\* crashes and rotations before.
THEOREM ReadBackHolds == Spec => []ReadBack
  <1>1. StoreInv /\ LinesInv => ReadBack
    <2> SUFFICES ASSUME StoreInv, LinesInv, dir[0] # None PROVE ReadBack
      <3>1. dir[0] = None => ReadBack
        BY DEF ReadBack, SinceMissesOnlyDisordered, ReverseFindsWithinChunks, AtRest
      <3>2. QED
        BY <3>1
    <2> DEFINE file == data[dir[0]]
    <2>1. dir[0] \in Inodes /\ stamp \in Nat
      BY RotatingFileAssumption DEF StoreInv, TypeOK, FileTypes, StoreTypes, Names
    <2>2. file \in Seq(Line) /\ LongLines(file)
      BY <2>1 DEF StoreInv, TypeOK, FileTypes, LinesInv
    <2>3. SinceMissesOnlyDisordered
      <3> HIDE DEF file
      <3>1. ASSUME NEW since \in 1 .. stamp + 1
            PROVE  \E m \in 0 .. Len(AllLines(file)) :
                     /\ ReadAuditEntries(file, since, 0, 0) =
                          Entries(file, SubSeq(AllLines(file), m + 1, Len(AllLines(file))), since)
                     /\ (\E k \in 1 .. m : Matches(file, AllLines(file)[k], since)) =>
                          ~Matches(file, AllLines(file)[m], since)
        <4>1. since \in Nat \ {0}
          BY <2>1
        <4>2. QED
          BY <2>2, <4>1, SinceOf DEF AllLines
      <3>2. QED
        BY <3>1 DEF SinceMissesOnlyDisordered, file
    <2>4. ReverseFindsWithinChunks
      <3> DEFINE back == ReadAuditEntriesReverse(file, 0, 0, 0)
                 total == Written(file)
      <3> HIDE DEF file
      <3>1. /\ \A e \in DOMAIN back : \E i \in DOMAIN file : file[i].whole /\ back[e] = file[i].ev
            /\ \A i \in 2 .. Len(file) :
                 Readable(file, i) /\ (total - StartOf(file, i)) \div Chunk
                                        = (total - StartOf(file, i) - file[i].len) \div Chunk
                   => \E e \in DOMAIN back : back[e] = file[i].ev
        BY <2>2, ReverseOf
      <3>2. \A e \in DOMAIN back : back[e] \in Events(dir[0])
        BY <3>1 DEF Events, file
      <3> HIDE DEF back, total
      <3>3. QED
        BY <3>1, <3>2 DEF ReverseFindsWithinChunks, back, total, file
    <2>5. QED
      BY <2>3, <2>4 DEF ReadBack
  <1>2. QED
    BY <1>1, Reachable, LinesReachable, PTL
================================================================================
