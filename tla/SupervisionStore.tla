---------------------------- MODULE SupervisionStore ----------------------------
(***************************************************************************)
(* The supervision store (supervision_store.go) over its rotating file:    *)
(* concurrent Record calls, Close, Query without the lock, crashes and     *)
(* restarts.  Next to it what is done with such a log afterwards: reading  *)
(* it back (AuditReader), archiving it, sealing batches (AuditChain).      *)
(* Events are numbered by their time stamp, taken before Record is called. *)
(***************************************************************************)
EXTENDS RotatingFile, AuditReader, AuditChain

CONSTANTS
  Recorders,    \* goroutines that record events
  Unsigned,     \* length of a line without a TSA token
  Signed,       \* length of a line with one
  Filters,      \* the queries: sets of events they match
  Scenarios     \* initial states: what an earlier process left, and the budgets

\* An event as it is found in a file: a whole line, or the first bytes of one.
Line == [ev : Nat, len : Nat, whole : BOOLEAN]

\* What an earlier process leaves that was never disturbed in a rotation: no
\* name is missing between two others, every event it acknowledged is in the
\* files once, from the oldest backup to the live file in the order of the
\* acknowledgements, and a fragment is what a failed write left.
LeftBehind(s) ==
  LET named == {i \in Names : s.dir[i] # None}
      lines(i) == DOMAIN s.data[s.dir[i]]
      line(i, p) == s.data[s.dir[i]][p]
      fragments == {q \in named \X (1 .. s.stamp) : q[2] \in lines(q[1]) /\ ~line(q[1], q[2]).whole}
  IN /\ s.data \in [Inodes -> Seq(Line)] /\ s.dir \in [Names -> Inodes \cup {None}]
     /\ s.stamp \in Nat /\ s.acked \in Seq(1 .. s.stamp)
     /\ s.failed \in [Calls -> Nat] /\ s.seals \in Nat
     /\ s.left \in [events : Nat, starts : Nat, queries : Nat, archives : Nat]
     /\ \A i, j \in named : s.dir[i] = s.dir[j] => i = j
     /\ \A i, j \in Names : i < j /\ j \in named => i \in named
     /\ \A n \in Inodes \ {s.dir[i] : i \in named} : s.data[n] = <<>>
     /\ \A a, b \in DOMAIN s.acked : s.acked[a] = s.acked[b] => a = b
     /\ \A a \in DOMAIN s.acked : \E i \in named : \E p \in lines(i) : line(i, p).ev = s.acked[a]
     /\ \A i \in named : \A p \in lines(i) :
          /\ p <= s.stamp /\ line(i, p).ev <= s.stamp
          /\ line(i, p).whole <=> \E a \in DOMAIN s.acked : s.acked[a] = line(i, p).ev
          /\ line(i, p).whole => line(i, p).len > 1
     /\ \A a, b \in DOMAIN s.acked : a <= b =>
          \A i, j \in named : \A p \in lines(i), q \in lines(j) :
            line(i, p).ev = s.acked[a] /\ line(j, q).ev = s.acked[b] => i > j \/ (i = j /\ p <= q)
     /\ Cardinality(fragments) <= s.failed["write"]

\* The file system always has another file to give, and a line is more than its
\* newline.
ASSUME SupervisionStoreAssumption ==
  /\ Unsigned \in Nat \ {0, 1} /\ Signed \in Nat \ {0, 1} /\ None \notin Recorders
  /\ \A s \in Scenarios :
       /\ LeftBehind(s)
       /\ IsFiniteSet(Inodes) => MaxBak + s.left.archives + 2 <= Cardinality(Inodes)

VARIABLES
  up,        \* the process runs and has the store open, or has closed it
  closed,    \* s.closed
  rec,       \* each recorder: where its Record is, its event, the line's length
  writer,    \* the recorder that holds s.mu; None
  acked,     \* history: events whose Record returned nil, in order
  stamp,     \* the last time stamp given out
  query,     \* the Query in progress
  crashes,   \* history: how often the process died
  left       \* budgets: [events, starts, queries, archives]

storeVars == <<up, closed, rec, writer, acked, stamp, query, crashes, left>>
vars == <<fileVars, chainVars, storeVars>>

Idle    == [pc |-> "idle", ev |-> 0, len |-> 0]
NoQuery == [file |-> None, pos |-> 0, want |-> {}, out |-> <<>>]
Spend(what) == left[what] > 0 /\ left' = [left EXCEPT ![what] = @ - 1]

Init ==
  \E s \in Scenarios :
    /\ data = s.data /\ dir = s.dir /\ archived = {} /\ handle = None /\ size = 0
    /\ rot = Quiet /\ failed = s.failed
    /\ trees = <<>> /\ held = [x \in Sealers |-> NoRoot] /\ seals = s.seals
    /\ up = FALSE /\ closed = FALSE /\ rec = [r \in Recorders |-> Idle] /\ writer = None
    /\ acked = s.acked /\ stamp = s.stamp /\ query = NoQuery
    /\ crashes = 0 /\ left = s.left

\* A file nobody has a name or a handle for.
Free == CHOOSE n \in Inodes :
          n \notin {dir[i] : i \in Names} \cup archived \cup {handle, query.file}

-------------------------------------------------------------------------------
(* Record *)

\* closed is read without the lock; a closed store refuses the event.
Record(r) ==
  /\ up /\ rec[r].pc = "idle"
  /\ Spend("events")
  /\ stamp' = stamp + 1
  /\ rec' = IF closed THEN rec
            ELSE [rec EXCEPT ![r] = [pc |-> "signing", ev |-> stamp + 1, len |-> 0]]
  /\ UNCHANGED <<fileVars, chainVars, up, closed, writer, acked, query, crashes>>

\* The TSA answers or fails; without its token the event is recorded unsigned.
Sign(r) ==
  /\ rec[r].pc = "signing"
  /\ \E n \in {Unsigned, Signed} : rec' = [rec EXCEPT ![r].pc = "locking", ![r].len = n]
  /\ UNCHANGED <<fileVars, chainVars, up, closed, writer, acked, stamp, query, crashes, left>>

Lock(r) ==
  /\ rec[r].pc = "locking"
  /\ writer = None
  /\ writer' = r
  /\ rec' = [rec EXCEPT ![r].pc = "writing"]
  /\ WriteBegin(rec[r].len)
  /\ UNCHANGED <<chainVars, up, closed, acked, stamp, query, crashes, left>>

Rotate ==
  /\ RemoveOld \/ RenamePrev \/ Reopen(Free)
  /\ UNCHANGED <<chainVars, storeVars>>

\* Record returns nil.
Ack(r) ==
  /\ writer = r
  /\ WriteAll(rec[r].ev, rec[r].len)
  /\ acked' = Append(acked, rec[r].ev)
  /\ rec' = [rec EXCEPT ![r] = Idle]
  /\ writer' = None
  /\ UNCHANGED <<chainVars, up, closed, stamp, query, crashes, left>>

\* Record returns the error of the write.
Fail(r) ==
  /\ writer = r
  /\ ReopenFails \/ WriteShort(rec[r].ev, rec[r].len) \/ WriteClosed
  /\ rec' = [rec EXCEPT ![r] = Idle]
  /\ writer' = None
  /\ UNCHANGED <<chainVars, up, closed, acked, stamp, query, crashes, left>>

-------------------------------------------------------------------------------
(* Close, crash, restart *)

Close ==
  /\ up /\ ~closed
  /\ writer = None
  /\ closed' = TRUE
  /\ FileClose
  /\ UNCHANGED <<chainVars, up, rec, writer, acked, stamp, query, crashes, left>>

Crash ==
  /\ up
  /\ up' = FALSE
  /\ FileCrash
  /\ rec' = [r \in Recorders |-> Idle]
  /\ writer' = None
  /\ query' = NoQuery
  /\ crashes' = crashes + 1
  /\ UNCHANGED <<chainVars, closed, acked, stamp, left>>

NewSupervisionStore ==
  /\ ~up
  /\ Spend("starts")
  /\ up' = TRUE
  /\ closed' = FALSE
  /\ NewRotatingFile(Free)
  /\ UNCHANGED <<chainVars, rec, writer, acked, stamp, query, crashes>>

Archive ==
  /\ Spend("archives")
  /\ ArchiveAuditFile
  /\ UNCHANGED <<chainVars, up, closed, rec, writer, acked, stamp, query, crashes>>

-------------------------------------------------------------------------------
(* Query *)

\* The path is opened after s.mu has been released; it fails without a file.
QueryOpen ==
  /\ up
  /\ query = NoQuery
  /\ dir[0] # None
  /\ Spend("queries")
  /\ \E want \in Filters : query' = [NoQuery EXCEPT !.file = dir[0], !.want = want]
  /\ UNCHANGED <<fileVars, chainVars, up, closed, rec, writer, acked, stamp, crashes>>

\* A line that does not start after a newline does not parse.
Readable(file, i) == file[i].whole /\ (i = 1 \/ file[i - 1].whole)

QueryLine ==
  LET file == data[query.file]
      i == query.pos + 1
  IN /\ query.file # None
     /\ i <= Len(file)
     /\ query' = [query EXCEPT
          !.pos = i,
          !.out = IF Readable(file, i) /\ file[i].ev \in query.want
                  THEN Append(@, file[i].ev) ELSE @]
     /\ UNCHANGED <<fileVars, chainVars, up, closed, rec, writer, acked, stamp, crashes, left>>

\* The end of the file, or the limit.
QueryEnd ==
  /\ query.file # None
  /\ query' = NoQuery
  /\ UNCHANGED <<fileVars, chainVars, up, closed, rec, writer, acked, stamp, crashes, left>>

Seal == ChainNext /\ UNCHANGED <<fileVars, storeVars>>

Next ==
  \/ \E r \in Recorders : Record(r) \/ Sign(r) \/ Lock(r) \/ Ack(r) \/ Fail(r)
  \/ Rotate \/ Close \/ Crash \/ NewSupervisionStore \/ Archive
  \/ QueryOpen \/ QueryLine \/ QueryEnd
  \/ Seal

Spec == Init /\ [][Next]_vars
-------------------------------------------------------------------------------
(* Properties *)

Events(n) == {data[n][i].ev : i \in {j \in DOMAIN data[n] : data[n][j].whole}}
InFiles   == UNION {Events(dir[i]) : i \in {j \in Names : dir[j] # None}}
InArchive == UNION {Events(n) : n \in archived}
Older(e, f) == \E i, j \in DOMAIN acked : i < j /\ acked[i] = e /\ acked[j] = f

\* The backups are in the order of their numbers and every file in the order
\* of the acknowledgements, also after failed renames and crashes: what path.i
\* holds is older than what any name before it holds.
FilesInOrder ==
  \A i, j \in Names : i < j /\ dir[i] # None /\ dir[j] # None =>
    \A e \in Events(dir[j]), f \in Events(dir[i]) : Older(e, f)

\* An acknowledged event leaves the disk only after all older ones have left,
\* unless a rename failed; crashes within a rotation included.
OldestGoFirst ==
  failed["rename"] = 0 =>
    \A i, j \in DOMAIN acked :
      i < j /\ acked[i] \in InFiles => acked[j] \in InFiles \cup InArchive

\* Events are given up only for want of backups, unless a rename failed: once
\* some are gone, every missing file is accounted for by a failed call, a crash
\* or an archived file.
Gone == {acked[i] : i \in DOMAIN acked} \ (InFiles \cup InArchive)
DropsOnlyWhenFull ==
  failed["rename"] = 0 /\ rot = Quiet /\ Gone # {} =>
    Cardinality({i \in Names : dir[i] = None}) <= Faults + crashes + Cardinality(archived)

\* A short write costs at most the one acknowledged event that is glued to its
\* fragment; everything else acknowledged and on disk can be read.
OneLostPerShortWrite ==
  LET kept == archived \cup ({dir[i] : i \in Names} \ {None})
      unreadable == {p \in kept \X (1 .. stamp) :
                       \E i \in DOMAIN data[p[1]] :
                         data[p[1]][i].ev = p[2] /\ ~Readable(data[p[1]], i)}
  IN Cardinality({p \in unreadable : \E i \in DOMAIN acked : acked[i] = p[2]}) <= failed["write"]

\* The size kept in memory, which decides on rotations, is the file's.
SizeIsFileSize == handle # None => size = Written(data[handle])

\* What retention promises, whatever interleaves, fails or crashes: files and
\* backups in order, the oldest given up first and only when all backups are in
\* use, one entry lost at most for a short write, rotation by the true size.
Retention ==
  FilesInOrder /\ OldestGoFirst /\ DropsOnlyWhenFull /\ OneLostPerShortWrite /\ SizeIsFileSize

\* A Query that runs while files are rotated away returns matching events of
\* one file in order and without gaps, unless a rename failed ("a concurrent
\* rotation/close does not corrupt the read", supervision_store.go:143-145).
QueryHasNoGaps ==
  failed["rename"] = 0 /\ query.file # None =>
    LET found == {query.out[k] : k \in DOMAIN query.out}
        glued == {data[query.file][p].ev :
                    p \in {q \in DOMAIN data[query.file] : ~Readable(data[query.file], q)}}
    IN /\ \A k, l \in DOMAIN query.out : k < l => Older(query.out[k], query.out[l])
       /\ \A e, f \in found : \A i \in DOMAIN acked :
            Older(e, acked[i]) /\ Older(acked[i], f) /\ acked[i] \in query.want =>
              acked[i] \in found \cup glued

-------------------------------------------------------------------------------
(* Reading a log back *)

AtRest(n) == ~up /\ n # None

\* The lines of a file, from its start.
AllLines(file) == Split(file, Bytes(file))

\* A bounded read returns everything from the time on, in file order, up to one
\* exception: the binary search may begin after a line that is older or does
\* not parse, and what stands before that line is missed.
SinceMissesOnlyDisordered ==
  \A n \in {dir[0]} : AtRest(n) =>
    LET file == data[n]
        lines == AllLines(file)
    IN \A since \in 1 .. stamp + 1 : \E m \in 0 .. Len(lines) :
         /\ ReadAuditEntries(file, since, 0, 0) =
              Entries(file, SubSeq(lines, m + 1, Len(lines)), since)
         /\ (\E k \in 1 .. m : Matches(file, lines[k], since)) => ~Matches(file, lines[m], since)

\* Reading backwards finds every entry whose line lies, with the newline before
\* it, in one chunk, and invents none.
StartOf(file, i) == Written(SubSeq(file, 1, i - 1))
ReverseFindsWithinChunks ==
  \A n \in {dir[0]} : AtRest(n) =>
    LET file == data[n]
        total == Written(file)
        back == ReadAuditEntriesReverse(file, 0, 0, 0)
    IN /\ \A k \in DOMAIN back : back[k] \in Events(n)
       /\ \A i \in 2 .. Len(file) :
            LET start == StartOf(file, i)
            IN Readable(file, i) /\ (total - start) \div Chunk = (total - start - file[i].len) \div Chunk
               => \E k \in DOMAIN back : back[k] = file[i].ev

\* What a log read back gives, forwards and backwards.
ReadBack == SinceMissesOnlyDisordered /\ ReverseFindsWithinChunks
===============================================================================
