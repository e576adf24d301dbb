------------------------------ MODULE AuditLogger ------------------------------
(***************************************************************************)
(* The asynchronous audit log writer of audit.go: AuditLogger.Log called   *)
(* by any number of goroutines, the bounded channel "entries", the single  *)
(* consumer goroutine (loop / logSync) with its bounded TSA call, and      *)
(* Close called by any number of goroutines.                               *)
(*                                                                         *)
(* Go channel semantics (external) used here: a send on a full channel     *)
(* blocks the sender in FIFO order; a receive from a full channel moves    *)
(* the first blocked sender's value into the buffer in the same step; a    *)
(* close makes every blocked sender panic.  A critical Log call reaches    *)
(* its select long before the timer it has just armed fires: with room in  *)
(* the buffer the select sends.                                            *)
(***************************************************************************)
EXTENDS Naturals, Sequences, FiniteSets

CONSTANTS
  Entries,    \* Log calls, each with the AuditEntry it carries
  Critical,   \* those for which isAuditCritical holds
  Closers,    \* goroutines that may call Close
  Capacity,   \* cap(l.entries); 8192 in NewAuditLogger
  WithTSA,    \* l.tsa # nil
  NoEntry     \* the absence of an entry or of a token

ASSUME AuditLoggerAssumption ==
  /\ IsFiniteSet(Entries)
  /\ Critical \subseteq Entries
  /\ Capacity \in Nat \ {0}
  /\ WithTSA \in BOOLEAN
  /\ NoEntry \notin Entries

VARIABLES
  phase,      \* where each Log call is
  stamped,    \* entries in the order of their Time stamps
  ch,         \* the buffer of l.entries
  sendq,      \* critical Log calls blocked in the send, oldest first
  chClosed,   \* close(l.entries) has happened
  stopped,    \* l.stopped
  closed,     \* l.closed
  dropped,    \* l.dropped
  consumer,   \* control state of loop/logSync
  cur,        \* the entry logSync is working on
  tst,        \* the token logSync attaches: the entry it was issued for
  tsa,        \* per entry, the TSA goroutine and its own "done" channel
  file,       \* lines written to the rotating file
  failed,     \* entries whose write returned an error (printed only)
  fileOpen,   \* the rotating file is open
  closerPc,   \* control state of each Close call
  enq         \* history: entries in the order they entered the channel

logVars   == <<phase, stamped, dropped>>
chanVars  == <<ch, sendq, enq>>
tsaVars   == <<tst, tsa>>
sinkVars  == <<file, failed>>
closeVars == <<chClosed, stopped, closed, fileOpen, closerPc>>
vars == <<logVars, chanVars, consumer, cur, tsaVars, sinkVars, closeVars>>

Phases == {"new", "checked", "waiting", "queued", "dropped", "panicked", "ignored"}
Line   == [entry : Entries, tst : Entries \cup {NoEntry}]

TypeOK ==
  /\ phase \in [Entries -> Phases]
  /\ stamped \in Seq(Entries)
  /\ ch \in Seq(Entries)
  /\ Len(ch) <= Capacity
  /\ sendq \in Seq(Critical)
  /\ chClosed \in BOOLEAN
  /\ stopped \in BOOLEAN
  /\ closed \in BOOLEAN
  /\ dropped \in Nat
  /\ consumer \in {"receiving", "signing", "writing", "exited"}
  /\ cur \in Entries \cup {NoEntry}
  /\ tst \in Entries \cup {NoEntry}
  /\ tsa \in [Entries -> {"idle", "asked", "token", "failed"}]
  /\ file \in Seq(Line)
  /\ failed \in SUBSET Entries
  /\ fileOpen \in BOOLEAN
  /\ closerPc \in [Closers -> {"idle", "marked", "stopping", "draining", "returned"}]
  /\ enq \in Seq(Entries)

(* NewAuditLogger: an open file, an empty channel, the consumer started. *)
Init ==
  /\ phase = [e \in Entries |-> "new"]
  /\ stamped = <<>>
  /\ ch = <<>>
  /\ sendq = <<>>
  /\ chClosed = FALSE
  /\ stopped = FALSE
  /\ closed = FALSE
  /\ dropped = 0
  /\ consumer = "receiving"
  /\ cur = NoEntry
  /\ tst = NoEntry
  /\ tsa = [e \in Entries |-> "idle"]
  /\ file = <<>>
  /\ failed = {}
  /\ fileOpen = TRUE
  /\ closerPc = [c \in Closers |-> "idle"]
  /\ enq = <<>>

-------------------------------------------------------------------------------
(* Log *)

(* The stopped check and, when it passes, the Time stamp. *)
LogStart(e) ==
  /\ phase[e] = "new"
  /\ \/ /\ stopped
        /\ phase' = [phase EXCEPT ![e] = "ignored"]
        /\ UNCHANGED stamped
     \/ /\ ~stopped
        /\ phase' = [phase EXCEPT ![e] = "checked"]
        /\ stamped' = Append(stamped, e)
  /\ UNCHANGED <<dropped, chanVars, consumer, cur, tsaVars, sinkVars, closeVars>>

(* Either select: the send succeeds because the buffer has room. *)
LogEnqueue(e) ==
  /\ phase[e] = "checked"
  /\ ~chClosed
  /\ Len(ch) < Capacity
  /\ ch' = Append(ch, e)
  /\ enq' = Append(enq, e)
  /\ phase' = [phase EXCEPT ![e] = "queued"]
  /\ UNCHANGED <<stamped, dropped, sendq, consumer, cur, tsaVars, sinkVars, closeVars>>

(* A faulty critical path that waits without trying the send first. *)
MutantLogWait(e) ==
  /\ phase[e] = "checked"
  /\ ~chClosed
  /\ e \in Critical
  /\ sendq' = Append(sendq, e)
  /\ phase' = [phase EXCEPT ![e] = "waiting"]
  /\ UNCHANGED <<stamped, dropped, ch, enq, consumer, cur, tsaVars, sinkVars, closeVars>>

(* A critical entry meets a full buffer and blocks in the select. *)
LogWait(e) ==
  /\ phase[e] = "checked"
  /\ ~chClosed
  /\ Len(ch) = Capacity
  /\ e \in Critical
  /\ sendq' = Append(sendq, e)
  /\ phase' = [phase EXCEPT ![e] = "waiting"]
  /\ UNCHANGED <<stamped, dropped, ch, enq, consumer, cur, tsaVars, sinkVars, closeVars>>

(* criticalTimeout fires first: the entry is dropped and counted. *)
LogTimeout(e) ==
  /\ phase[e] = "waiting"
  /\ phase' = [phase EXCEPT ![e] = "dropped"]
  /\ \E i \in DOMAIN sendq :
       /\ sendq[i] = e
       /\ sendq' = [j \in 1 .. Len(sendq) - 1 |-> sendq[IF j < i THEN j ELSE j + 1]]
  /\ dropped' = dropped + 1
  /\ UNCHANGED <<stamped, ch, enq, consumer, cur, tsaVars, sinkVars, closeVars>>

(* A faulty default case that forgets to count. *)
MutantLogOverflow(e) ==
  /\ phase[e] = "checked"
  /\ ~chClosed
  /\ Len(ch) = Capacity
  /\ e \notin Critical
  /\ phase' = [phase EXCEPT ![e] = "dropped"]
  /\ UNCHANGED <<stamped, dropped, chanVars, consumer, cur, tsaVars, sinkVars, closeVars>>

(* An ordinary entry meets a full buffer: the default case. *)
LogOverflow(e) ==
  /\ phase[e] = "checked"
  /\ ~chClosed
  /\ Len(ch) = Capacity
  /\ e \notin Critical
  /\ phase' = [phase EXCEPT ![e] = "dropped"]
  /\ dropped' = dropped + 1
  /\ UNCHANGED <<stamped, chanVars, consumer, cur, tsaVars, sinkVars, closeVars>>

(* The send meets a closed channel: the panic is recovered, nothing is counted. *)
LogPanic(e) ==
  /\ phase[e] = "checked"
  /\ chClosed
  /\ phase' = [phase EXCEPT ![e] = "panicked"]
  /\ UNCHANGED <<stamped, dropped, chanVars, consumer, cur, tsaVars, sinkVars, closeVars>>

-------------------------------------------------------------------------------
(* loop and logSync.  l.mu is held from the receive to the end of the write. *)

MuFree == consumer \in {"receiving", "exited"}

(* A faulty consumer that takes the newest buffered entry. *)
MutantReceive ==
  /\ consumer = "receiving"
  /\ ch # <<>>
  /\ cur' = ch[Len(ch)]
  /\ ch' = SubSeq(ch, 1, Len(ch) - 1)
  /\ consumer' = IF WithTSA THEN "signing" ELSE "writing"
  /\ tsa' = IF WithTSA THEN [tsa EXCEPT ![cur'] = "asked"] ELSE tsa
  /\ UNCHANGED <<logVars, sendq, enq, tst, sinkVars, closeVars>>

(* range l.entries yields an entry; a blocked sender takes the freed slot. *)
Receive ==
  /\ consumer = "receiving"
  /\ ch # <<>>
  /\ cur' = Head(ch)
  /\ \/ /\ sendq = <<>>
        /\ ch' = Tail(ch)
        /\ UNCHANGED <<phase, sendq, enq>>
     \/ /\ sendq # <<>>
        /\ ch' = Append(Tail(ch), Head(sendq))
        /\ enq' = Append(enq, Head(sendq))
        /\ phase' = [phase EXCEPT ![Head(sendq)] = "queued"]
        /\ sendq' = Tail(sendq)
  /\ \/ /\ WithTSA
        /\ consumer' = "signing"
        /\ tsa' = [tsa EXCEPT ![Head(ch)] = "asked"]
     \/ /\ ~WithTSA
        /\ consumer' = "writing"
        /\ UNCHANGED tsa
  /\ UNCHANGED <<stamped, dropped, tst, sinkVars, closeVars>>

(* The signing goroutine of entry e answers on its own buffered channel, *)
(* possibly long after logSync stopped listening.                        *)
TSAAnswer(e) ==
  /\ tsa[e] = "asked"
  /\ \E answer \in {"token", "failed"} : tsa' = [tsa EXCEPT ![e] = answer]
  /\ UNCHANGED <<logVars, chanVars, consumer, cur, tst, sinkVars, closeVars>>

(* A faulty logSync listening on one channel shared by all signing calls. *)
MutantSignResult ==
  /\ consumer = "signing"
  /\ \E e \in Entries :
       /\ tsa[e] \in {"token", "failed"}
       /\ tst' = IF tsa[e] = "token" THEN e ELSE NoEntry
  /\ consumer' = "writing"
  /\ UNCHANGED <<logVars, chanVars, cur, tsa, sinkVars, closeVars>>

(* The answer for the current entry arrives in time. *)
SignResult ==
  /\ consumer = "signing"
  /\ tsa[cur] \in {"token", "failed"}
  /\ tst' = IF tsa[cur] = "token" THEN cur ELSE NoEntry
  /\ consumer' = "writing"
  /\ UNCHANGED <<logVars, chanVars, cur, tsa, sinkVars, closeVars>>

(* A faulty logSync that waits for the TSA for as long as it takes. *)
MutantSignTimeout ==
  /\ consumer = "signing"
  /\ tsa[cur] = "failed"
  /\ consumer' = "writing"
  /\ UNCHANGED <<logVars, chanVars, cur, tsaVars, sinkVars, closeVars>>

(* tsaTimeout fires: the entry will be unsigned. *)
SignTimeout ==
  /\ consumer = "signing"
  /\ consumer' = "writing"
  /\ UNCHANGED <<logVars, chanVars, cur, tsaVars, sinkVars, closeVars>>

(* The line is written, or the write fails and is only printed. *)
WriteLine ==
  /\ consumer = "writing"
  /\ \/ /\ fileOpen
        /\ file' = Append(file, [entry |-> cur, tst |-> tst])
        /\ UNCHANGED failed
     \/ /\ failed' = failed \cup {cur}
        /\ UNCHANGED file
  /\ consumer' = "receiving"
  /\ cur' = NoEntry
  /\ tst' = NoEntry
  /\ UNCHANGED <<logVars, chanVars, tsa, closeVars>>

(* The range ends on a closed, empty channel; done is closed. *)
LoopExit ==
  /\ consumer = "receiving"
  /\ chClosed
  /\ ch = <<>>
  /\ consumer' = "exited"
  /\ UNCHANGED <<logVars, chanVars, cur, tsaVars, sinkVars, closeVars>>

-------------------------------------------------------------------------------
(* Close *)

(* Under l.mu: the first caller marks the logger closed, any other returns. *)
CloseEnter(c) ==
  /\ closerPc[c] = "idle"
  /\ MuFree
  /\ \/ /\ closed
        /\ closerPc' = [closerPc EXCEPT ![c] = "returned"]
        /\ UNCHANGED closed
     \/ /\ ~closed
        /\ closed' = TRUE
        /\ closerPc' = [closerPc EXCEPT ![c] = "marked"]
  /\ UNCHANGED <<logVars, chanVars, consumer, cur, tsaVars, sinkVars, chClosed, stopped, fileOpen>>

(* l.stopped.Store(true) *)
CloseStop(c) ==
  /\ closerPc[c] = "marked"
  /\ stopped' = TRUE
  /\ closerPc' = [closerPc EXCEPT ![c] = "stopping"]
  /\ UNCHANGED <<logVars, chanVars, consumer, cur, tsaVars, sinkVars, chClosed, closed, fileOpen>>

(* close(l.entries): every blocked sender panics and recovers. *)
CloseChannel(c) ==
  /\ closerPc[c] = "stopping"
  /\ chClosed' = TRUE
  /\ phase' = [e \in Entries |-> IF phase[e] = "waiting" THEN "panicked" ELSE phase[e]]
  /\ sendq' = <<>>
  /\ closerPc' = [closerPc EXCEPT ![c] = "draining"]
  /\ UNCHANGED <<stamped, dropped, ch, enq, consumer, cur, tsaVars, sinkVars, stopped, closed, fileOpen>>

(* A faulty Close that does not wait for the consumer to finish. *)
MutantCloseFile(c) ==
  /\ closerPc[c] = "draining"
  /\ fileOpen' = FALSE
  /\ closerPc' = [closerPc EXCEPT ![c] = "returned"]
  /\ UNCHANGED <<logVars, chanVars, consumer, cur, tsaVars, sinkVars, chClosed, stopped, closed>>

(* <-l.done, then the file is closed. *)
CloseFile(c) ==
  /\ closerPc[c] = "draining"
  /\ consumer = "exited"
  /\ fileOpen' = FALSE
  /\ closerPc' = [closerPc EXCEPT ![c] = "returned"]
  /\ UNCHANGED <<logVars, chanVars, consumer, cur, tsaVars, sinkVars, chClosed, stopped, closed>>

-------------------------------------------------------------------------------
LogStep(e) ==
  \/ LogEnqueue(e) \/ LogWait(e) \/ LogTimeout(e) \/ LogOverflow(e) \/ LogPanic(e)

ConsumerStep == Receive \/ SignResult \/ SignTimeout \/ WriteLine \/ LoopExit

CloseStep(c) == CloseStop(c) \/ CloseChannel(c) \/ CloseFile(c)

Returned == {"queued", "dropped", "panicked", "ignored"}

(* Every call has returned and the consumer has exited. *)
Finished ==
  /\ \A e \in Entries : phase[e] \in Returned /\ tsa[e] # "asked"
  /\ \A c \in Closers : closerPc[c] = "returned"
  /\ consumer = "exited"
  /\ UNCHANGED vars

Next ==
  \/ \E e \in Entries : LogStart(e) \/ LogStep(e) \/ TSAAnswer(e)
  \/ ConsumerStep
  \/ \E c \in Closers : CloseEnter(c) \/ CloseStep(c)
  \/ Finished

Spec == Init /\ [][Next]_vars

(* Goroutines that have started keep running and armed timers fire.  Nothing *)
(* is assumed of the TSA, nor that anyone ever calls Log or Close.           *)
Fairness ==
  /\ WF_vars(ConsumerStep)
  /\ \A e \in Entries : WF_vars(LogStep(e))
  /\ \A c \in Closers : WF_vars(CloseStep(c))

FairSpec == Spec /\ Fairness

-------------------------------------------------------------------------------
(* Properties *)

Holds(line, e) == line.entry = e

(* Entries taken from the channel so far, and those already settled. *)
Taken   == Len(enq) - Len(ch)
Settled == IF cur = NoEntry THEN Taken ELSE Taken - 1

(* The file holds entries in the order the channel accepted them, each at   *)
(* most once: the comment in Close that the write order is identical to the *)
(* enqueue order (audit.go:341-343), across overflow, waiting and Close.    *)
WriteOrder ==
  \A i, j \in DOMAIN file : i < j =>
    \E p, q \in DOMAIN enq :
      /\ p < q
      /\ Holds(file[i], enq[p])
      /\ Holds(file[j], enq[q])

(* When the file has been closed, every entry that Log ever put in the      *)
(* channel is a line of the file or had its write fail: Close drains.       *)
DrainedWhenClosed ==
  ~fileOpen => \A p \in DOMAIN enq :
    enq[p] \in failed \/ \E i \in DOMAIN file : Holds(file[i], enq[p])

(* A token in the file was issued for the entry on its own line, even when  *)
(* TSA answers arrive after the timeout, while later entries are signed.    *)
TokenMatchesEntry ==
  \A i \in DOMAIN file : file[i].tst \in {NoEntry, file[i].entry}

(* Dropped() accounts for every overflow: once all calls returned and the   *)
(* file is closed, the entries are the lines, the counted drops, the failed *)
(* writes and the Log calls that met Close.                                 *)
LossAccounting ==
  (~fileOpen /\ \A e \in Entries : phase[e] \in Returned) =>
    Cardinality(Entries) =
      Len(file) + dropped + Cardinality(failed)
        + Cardinality({e \in Entries : phase[e] \in {"panicked", "ignored"}})

(* A critical entry is only ever given up while the buffer is full          *)
(* (isAuditCritical and the timed select in Log).                           *)
CriticalDropOnlyWhenFull ==
  [][\A e \in Critical :
       (phase[e] # "dropped" /\ phase'[e] = "dropped") => Len(ch) = Capacity]_vars

(* Close terminates whatever the TSA does: once it has marked the logger    *)
(* closed it returns.                                                       *)
CloseReturns == \A c \in Closers : closerPc[c] = "marked" ~> closerPc[c] = "returned"

(* An entry the channel accepted is eventually written, or its write fails. *)
AcceptedIsSettled ==
  \A e \in Entries : phase[e] = "queued" ~>
    (e \in failed \/ \E i \in DOMAIN file : Holds(file[i], e))

(* The log implements the abstract trail. *)
Trail == INSTANCE AuditTrail WITH
  accepted <- enq, settled <- Settled, trail <- file, open <- fileOpen
TrailSpec == Trail!TrailSpec
===============================================================================
