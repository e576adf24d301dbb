------------------------------ MODULE RotatingFile ------------------------------
(***************************************************************************)
(* RotatingFile (audit.go): a log that is shifted to numbered backups when *)
(* the next write would make it too large.  Names and open files are kept  *)
(* apart, as in the file system: a rename moves a name, a truncation       *)
(* empties the file behind it.  Every system call of a rotation is a step  *)
(* of its own, because readers and crashes come between them; it may fail. *)
(***************************************************************************)
EXTENDS Naturals, Sequences, FiniteSets

CONSTANTS
  MaxSize, MaxBak,   \* size of a file, number of backups
  Inodes,            \* files
  MaxFaults,         \* bound on the system calls that fail
  None               \* no file

ASSUME RotatingFileAssumption == MaxSize \in Nat /\ MaxBak \in Nat /\ None \notin Inodes

VARIABLES
  data,     \* content of each file: the writes that reached it
  dir,      \* the names: 0 is the path, i > 0 is path.i
  archived, \* files that ArchiveAuditFile has renamed away
  handle,   \* r.f; None when it is closed
  size,     \* r.size
  rot,      \* where the Write that holds r.mu is
  failed    \* history: how many calls of each kind have failed

fileVars == <<data, dir, archived, handle, size, rot, failed>>

Quiet == [at |-> "none", i |-> 0]
At(step, i) == [at |-> step, i |-> i]
Names == 0 .. MaxBak
Calls == {"remove", "rename", "open", "write"}
Faults == failed["remove"] + failed["rename"] + failed["open"] + failed["write"]
Fails(call) == Faults < MaxFaults /\ failed' = [failed EXCEPT ![call] = @ + 1]

\* [ev, len, whole]: a line, or the first len bytes of one.
Written(file) == LET S[i \in 0 .. Len(file)] == IF i = 0 THEN 0 ELSE S[i - 1] + file[i].len
                 IN S[Len(file)]

\* The loop of rotate begins with the oldest backup.
FirstStep == IF MaxBak > 0 THEN At("remove", MaxBak) ELSE At("open", 0)

\* Write: rotate first if the data would not fit; rotate closes the file first.
WriteBegin(len) ==
  /\ rot = Quiet
  /\ IF size + len > MaxSize
     THEN handle' = None /\ rot' = FirstStep
     ELSE rot' = At("write", 0) /\ UNCHANGED handle
  /\ UNCHANGED <<data, dir, archived, size, failed>>

\* os.Remove(old); a failure is only printed.
RemoveOld ==
  /\ rot.at = "remove"
  /\ \/ dir' = [dir EXCEPT ![rot.i] = None] /\ UNCHANGED failed
     \/ dir[rot.i] # None /\ UNCHANGED dir /\ Fails("remove")
  /\ rot' = At("rename", rot.i)
  /\ UNCHANGED <<data, archived, handle, size>>

\* Plausible bug: the loop stops before the live file is moved.
MutantAfterRename(i) == IF i <= 2 THEN At("open", 0) ELSE At("remove", i - 1)

\* The next round of the loop, down to the live file.
AfterRename(i) == IF i = 1 THEN At("open", 0) ELSE At("remove", i - 1)

\* Plausible bug: prev is the live file in every round.
MutantPrev(i) == 0

\* The name that is shifted to path.i.
Prev(i) == i - 1

\* os.Rename(prev, old) if prev exists; a failure is only printed.
RenamePrev ==
  LET old == rot.i
      prev == Prev(rot.i)
  IN /\ rot.at = "rename"
     /\ \/ dir' = (IF dir[prev] = None THEN dir
                   ELSE [dir EXCEPT ![old] = dir[prev], ![prev] = None])
           /\ UNCHANGED failed
        \/ dir[prev] # None /\ UNCHANGED dir /\ Fails("rename")
     /\ rot' = AfterRename(old)
     /\ UNCHANGED <<data, archived, handle, size>>

\* The path is opened with O_TRUNC: a new file, or the old one emptied.
Reopen(free) ==
  /\ rot.at = "open"
  /\ LET file == IF dir[0] = None THEN free ELSE dir[0]
     IN /\ dir' = [dir EXCEPT ![0] = file]
        /\ data' = [data EXCEPT ![file] = <<>>]
        /\ handle' = file
  /\ size' = 0
  /\ rot' = At("write", 0)
  /\ UNCHANGED <<archived, failed>>

\* The open fails: the Write returns, r.f stays closed and r.size as it was.
ReopenFails ==
  /\ rot.at = "open"
  /\ Fails("open")
  /\ rot' = Quiet
  /\ UNCHANGED <<data, dir, archived, handle, size>>

\* r.f.Write: everything, or a part and an error, or an error on a closed file.
WriteAll(ev, len) ==
  /\ rot.at = "write"
  /\ handle # None
  /\ data' = [data EXCEPT ![handle] = Append(@, [ev |-> ev, len |-> len, whole |-> TRUE])]
  /\ size' = size + len
  /\ rot' = Quiet
  /\ UNCHANGED <<dir, archived, handle, failed>>

WriteShort(ev, len) ==
  /\ rot.at = "write"
  /\ handle # None
  /\ Fails("write")
  /\ \E n \in {0, 1} :
       /\ data' = [data EXCEPT ![handle] =
                     IF n = 0 THEN @ ELSE Append(@, [ev |-> ev, len |-> n, whole |-> FALSE])]
       /\ size' = size + n
  /\ rot' = Quiet
  /\ UNCHANGED <<dir, archived, handle>>

WriteClosed ==
  /\ rot.at = "write"
  /\ handle = None
  /\ rot' = Quiet
  /\ UNCHANGED <<data, dir, archived, handle, size, failed>>

FileClose ==
  /\ rot = Quiet
  /\ handle' = None
  /\ UNCHANGED <<data, dir, archived, size, rot, failed>>

\* info.Size() of the file that was opened.
StatSize(file) == Written(file)

\* NewRotatingFile appends to what is there.
NewRotatingFile(free) ==
  /\ LET file == IF dir[0] = None THEN free ELSE dir[0]
     IN /\ dir' = [dir EXCEPT ![0] = file]
        /\ data' = IF dir[0] = None THEN [data EXCEPT ![file] = <<>>] ELSE data
        /\ handle' = file
        /\ size' = IF dir[0] = None THEN 0 ELSE StatSize(data[file])
  /\ rot' = Quiet
  /\ UNCHANGED <<archived, failed>>

\* The process dies: its locks and open files go with it.
FileCrash ==
  /\ handle' = None
  /\ rot' = Quiet
  /\ size' = 0
  /\ UNCHANGED <<data, dir, archived, failed>>

\* ArchiveAuditFile renames a non-empty log, whoever has it open.
ArchiveAuditFile ==
  /\ dir[0] # None
  /\ Written(data[dir[0]]) > 0
  /\ archived' = archived \cup {dir[0]}
  /\ dir' = [dir EXCEPT ![0] = None]
  /\ UNCHANGED <<data, handle, size, rot, failed>>
===============================================================================
