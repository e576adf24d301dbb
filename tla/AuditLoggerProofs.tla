--------------------------- MODULE AuditLoggerProofs ---------------------------
(***************************************************************************)
(* Theorems about AuditLogger for any number of Log and Close calls, any   *)
(* buffer capacity, with or without a TSA.                                 *)
(***************************************************************************)
EXTENDS AuditLogger, FiniteSetTheorems, TLAPS

(* Removing one blocked sender leaves a sequence of blocked senders. *)
LEMMA RemoveIsSeq ==
  ASSUME NEW S, NEW s \in Seq(S), NEW i \in DOMAIN s
  PROVE  /\ [j \in 1 .. Len(s) - 1 |-> s[IF j < i THEN j ELSE j + 1]] \in Seq(S)
         /\ Len([j \in 1 .. Len(s) - 1 |-> s[IF j < i THEN j ELSE j + 1]]) = Len(s) - 1
  <1> DEFINE r == [j \in 1 .. Len(s) - 1 |-> s[IF j < i THEN j ELSE j + 1]]
  <1>1. Len(s) - 1 \in Nat
    OBVIOUS
  <1>2. \A j \in 1 .. Len(s) - 1 : s[IF j < i THEN j ELSE j + 1] \in S
    OBVIOUS
  <1>3. r \in [1 .. Len(s) - 1 -> S]
    BY <1>2
  <1>4. r \in Seq(S) /\ Len(r) = Len(s) - 1
    BY <1>1, <1>3
  <1>5. QED
    BY <1>4

(* logSync works on an entry exactly between the receive and the end of the *)
(* write; a token, once obtained, is the current entry's.                   *)
ControlInv ==
  /\ consumer \in {"signing", "writing"} <=> cur # NoEntry
  /\ tst # NoEntry => consumer = "writing" /\ tst = cur
  /\ consumer = "exited" => chClosed /\ ch = <<>>
  /\ ~fileOpen => consumer = "exited"
  /\ chClosed => sendq = <<>>

TypeInv == TypeOK /\ ControlInv

(* A new logger has the types and the control state of TypeInv. *)
LEMMA InitTypeInv == Init => TypeInv
  <1> SUFFICES ASSUME Init PROVE TypeInv
    OBVIOUS
  <1>1. /\ phase \in [Entries -> Phases]
        /\ tsa \in [Entries -> {"idle", "asked", "token", "failed"}]
        /\ closerPc \in [Closers -> {"idle", "marked", "stopping", "draining", "returned"}]
    BY DEF Init, Phases
  <1>2. /\ stamped \in Seq(Entries) /\ ch \in Seq(Entries) /\ sendq \in Seq(Critical)
        /\ file \in Seq(Line) /\ enq \in Seq(Entries) /\ Len(ch) <= Capacity
    BY AuditLoggerAssumption DEF Init
  <1>3. /\ chClosed \in BOOLEAN /\ stopped \in BOOLEAN /\ closed \in BOOLEAN /\ fileOpen \in BOOLEAN
    BY DEF Init
  <1>4. ControlInv
    BY DEF Init, ControlInv
  <1>5. QED
    BY <1>1, <1>2, <1>3, <1>4 DEF Init, TypeInv, TypeOK

(* Every step keeps the types and the control invariant. *)
LEMMA NextTypeInv == TypeInv /\ [Next]_vars => TypeInv'
  <1> USE AuditLoggerAssumption DEF logVars, chanVars, tsaVars, sinkVars, closeVars
  <1> SUFFICES ASSUME TypeOK, ControlInv, [Next]_vars PROVE TypeOK' /\ ControlInv'
    BY DEF TypeInv
  <1> USE DEF TypeOK, Phases, ControlInv
  <1>1. ASSUME NEW e \in Entries, LogStart(e) PROVE TypeOK' /\ ControlInv'
    <2>1. CASE stopped /\ phase' = [phase EXCEPT ![e] = "ignored"] /\ UNCHANGED stamped
      BY <1>1, <2>1 DEF LogStart
    <2>2. CASE ~stopped /\ phase' = [phase EXCEPT ![e] = "checked"] /\ stamped' = Append(stamped, e)
      BY <1>1, <2>2 DEF LogStart
    <2>3. QED
      BY <1>1, <2>1, <2>2 DEF LogStart
  <1>2. ASSUME NEW e \in Entries, LogEnqueue(e) PROVE TypeOK' /\ ControlInv'
    BY <1>2 DEF LogEnqueue
  <1>3. ASSUME NEW e \in Entries, LogWait(e) PROVE TypeOK' /\ ControlInv'
    BY <1>3 DEF LogWait
  <1>4. ASSUME NEW e \in Entries, LogTimeout(e) PROVE TypeOK' /\ ControlInv'
    <2>1. PICK i \in DOMAIN sendq :
            sendq' = [j \in 1 .. Len(sendq) - 1 |-> sendq[IF j < i THEN j ELSE j + 1]]
      BY <1>4 DEF LogTimeout
    <2>2. sendq' \in Seq(Critical) /\ sendq # <<>>
      BY <2>1, RemoveIsSeq
    <2>3. QED
      BY <1>4, <2>2 DEF LogTimeout
  <1>5. ASSUME NEW e \in Entries, LogOverflow(e) PROVE TypeOK' /\ ControlInv'
    BY <1>5 DEF LogOverflow
  <1>6. ASSUME NEW e \in Entries, LogPanic(e) PROVE TypeOK' /\ ControlInv'
    BY <1>6 DEF LogPanic
  <1>7. ASSUME NEW e \in Entries, TSAAnswer(e) PROVE TypeOK' /\ ControlInv'
    BY <1>7 DEF TSAAnswer
  <1>8. CASE Receive
    <2>1. cur' \in Entries /\ Len(ch) > 0
      BY <1>8 DEF Receive
    <2>2. /\ ch' \in Seq(Entries) /\ Len(ch') <= Capacity /\ sendq' \in Seq(Critical)
          /\ enq' \in Seq(Entries) /\ phase' \in [Entries -> Phases]
          /\ sendq = <<>> => sendq' = <<>>
      <3>1. CASE sendq = <<>> /\ ch' = Tail(ch) /\ UNCHANGED <<phase, sendq, enq>>
        BY <3>1, <2>1
      <3>2. CASE /\ sendq # <<>> /\ ch' = Append(Tail(ch), Head(sendq))
                 /\ enq' = Append(enq, Head(sendq)) /\ sendq' = Tail(sendq)
                 /\ phase' = [phase EXCEPT ![Head(sendq)] = "queued"]
        BY <3>2, <2>1
      <3>3. QED
        BY <1>8, <3>1, <3>2 DEF Receive
    <2>3. /\ consumer' \in {"signing", "writing"}
          /\ tsa' \in [Entries -> {"idle", "asked", "token", "failed"}]
      BY <1>8 DEF Receive
    <2>4. consumer = "receiving" /\ UNCHANGED <<stamped, dropped, tst, sinkVars, closeVars>>
      BY <1>8 DEF Receive
    <2>5. QED
      BY <2>1, <2>2, <2>3, <2>4
  <1>9. CASE SignResult
    BY <1>9 DEF SignResult
  <1>10. CASE SignTimeout
    BY <1>10 DEF SignTimeout
  <1>11. CASE WriteLine
    <2> DEFINE line == [entry |-> cur, tst |-> tst]
    <2>1. cur \in Entries /\ line \in Line
      BY <1>11 DEF Line, WriteLine
    <2>2. file' \in Seq(Line) /\ failed' \in SUBSET Entries
      <3>1. /\ file' = Append(file, line) \/ file' = file
            /\ failed' = failed \/ failed' = failed \cup {cur}
        BY <1>11 DEF WriteLine
      <3>2. file \in Seq(Line) /\ failed \in SUBSET Entries
        OBVIOUS
      <3> HIDE DEF line, TypeOK, ControlInv, Phases
      <3>3. file' \in Seq(Line)
        BY <3>1, <3>2, <2>1
      <3>4. failed' \in SUBSET Entries
        BY <3>1, <3>2, <2>1
      <3>5. QED
        BY <3>3, <3>4
    <2>3. /\ consumer = "writing" /\ consumer' = "receiving" /\ cur' = NoEntry /\ tst' = NoEntry
          /\ UNCHANGED <<logVars, chanVars, tsa, closeVars>>
      BY <1>11 DEF WriteLine
    <2>4. TypeOK'
      BY <2>2, <2>3
    <2>5. ControlInv'
      BY <2>3
    <2>6. QED
      BY <2>4, <2>5
  <1>12. CASE LoopExit
    BY <1>12 DEF LoopExit
  <1>13. ASSUME NEW c \in Closers, CloseEnter(c) PROVE TypeOK' /\ ControlInv'
    BY <1>13 DEF CloseEnter
  <1>14. ASSUME NEW c \in Closers, CloseStop(c) PROVE TypeOK' /\ ControlInv'
    BY <1>14 DEF CloseStop
  <1>15. ASSUME NEW c \in Closers, CloseChannel(c) PROVE TypeOK' /\ ControlInv'
    BY <1>15 DEF CloseChannel
  <1>16. ASSUME NEW c \in Closers, CloseFile(c) PROVE TypeOK' /\ ControlInv'
    BY <1>16 DEF CloseFile
  <1>17. CASE UNCHANGED vars
    BY <1>17 DEF vars
  <1>18. QED
    BY <1>1, <1>2, <1>3, <1>4, <1>5, <1>6, <1>7, <1>8, <1>9, <1>10, <1>11, <1>12,
       <1>13, <1>14, <1>15, <1>16, <1>17
       DEF Next, LogStep, ConsumerStep, CloseStep, Finished

(* Every variable of the logger keeps its type, whatever the interleaving   *)
(* of Log, loop, the TSA goroutines and Close.                              *)
THEOREM TypeCorrect == Spec => []TypeOK
  <1>1. TypeInv => TypeOK
    BY DEF TypeInv
  <1>2. QED
    BY <1>1, InitTypeInv, NextTypeInv, PTL DEF Spec

-------------------------------------------------------------------------------
(* The channel: an entry enters it once, blocked senders are distinct and   *)
(* there are some only while the buffer is full.                            *)
QueueInv ==
  /\ \A p, q \in DOMAIN enq : enq[p] = enq[q] => p = q
  /\ \A p \in DOMAIN enq : phase[enq[p]] = "queued"
  /\ \A i \in DOMAIN sendq : phase[sendq[i]] = "waiting"
  /\ \A i, j \in DOMAIN sendq : sendq[i] = sendq[j] => i = j
  /\ sendq # <<>> => Len(ch) = Capacity

(* The buffer is the part of enq not taken yet; cur is the last one taken. *)
OrderInv ==
  /\ Len(ch) <= Len(enq)
  /\ \A i \in DOMAIN ch : ch[i] = enq[Taken + i]
  /\ cur # NoEntry => Taken >= 1 /\ cur = enq[Taken]

(* The file and the failed writes are exactly the settled part of enq. *)
FileInv ==
  /\ \A i \in DOMAIN file : \E p \in 1 .. Settled : file[i].entry = enq[p]
  /\ \A p \in 1 .. Settled : enq[p] \in failed \/ \E i \in DOMAIN file : file[i].entry = enq[p]
  /\ WriteOrder
  /\ TokenMatchesEntry

IInv == TypeInv /\ QueueInv /\ OrderInv /\ FileInv

(* The invariant holds of a new logger. *)
LEMMA InitIInv == Init => IInv
  <1> SUFFICES ASSUME Init PROVE IInv
    OBVIOUS
  <1>1. enq = <<>> /\ ch = <<>> /\ sendq = <<>> /\ file = <<>> /\ cur = NoEntry
    BY DEF Init
  <1>2. QueueInv
    BY <1>1 DEF QueueInv
  <1>3. OrderInv
    BY <1>1 DEF OrderInv
  <1>4. FileInv
    BY <1>1 DEF FileInv, Settled, Taken, WriteOrder, TokenMatchesEntry
  <1>5. QED
    BY <1>2, <1>3, <1>4, InitTypeInv DEF IInv

(* Steps that leave the channel alone keep QueueInv if the phases of the    *)
(* entries in it and of the blocked senders are kept.                       *)
LEMMA QueueFrame ==
  ASSUME TypeOK, QueueInv, UNCHANGED <<ch, sendq, enq>>,
         \A e \in Entries : phase[e] \in {"queued", "waiting"} => phase'[e] = phase[e]
  PROVE  QueueInv'
  <1>1. \A p \in DOMAIN enq : enq[p] \in Entries
    BY DEF TypeOK
  <1>2. \A i \in DOMAIN sendq : sendq[i] \in Entries
    BY AuditLoggerAssumption DEF TypeOK
  <1>3. QED
    BY <1>1, <1>2 DEF QueueInv

(* Every step keeps QueueInv. *)
LEMMA NextQueueInv == TypeInv /\ QueueInv /\ [Next]_vars => QueueInv'
  <1> USE AuditLoggerAssumption DEF logVars, chanVars
  <1> SUFFICES ASSUME TypeOK, ControlInv, QueueInv, [Next]_vars PROVE QueueInv'
    BY DEF TypeInv
  <1>1. ASSUME NEW e \in Entries, LogStart(e) PROVE QueueInv'
    BY <1>1, QueueFrame DEF LogStart, TypeOK
  <1>2. ASSUME NEW e \in Entries, LogEnqueue(e) PROVE QueueInv'
    <2>1. sendq = <<>> /\ sendq' = <<>>
      BY <1>2 DEF LogEnqueue, QueueInv, TypeOK
    <2>2. \A p \in DOMAIN enq : enq[p] # e /\ enq[p] \in Entries
      BY <1>2 DEF LogEnqueue, QueueInv, TypeOK
    <2>3. /\ enq' = Append(enq, e) /\ phase' = [phase EXCEPT ![e] = "queued"]
      BY <1>2 DEF LogEnqueue
    <2>4. /\ Len(enq') = Len(enq) + 1
          /\ \A p \in DOMAIN enq : enq'[p] = enq[p]
          /\ enq'[Len(enq) + 1] = e
      BY <2>3 DEF TypeOK
    <2>5. QED
      BY <2>1, <2>2, <2>3, <2>4 DEF QueueInv, TypeOK
  <1>3. ASSUME NEW e \in Entries, LogWait(e) PROVE QueueInv'
    <2>1. \A i \in DOMAIN sendq : sendq[i] # e /\ sendq[i] \in Entries
      BY <1>3 DEF LogWait, QueueInv, TypeOK
    <2>2. \A p \in DOMAIN enq : enq[p] # e /\ enq[p] \in Entries
      BY <1>3 DEF LogWait, QueueInv, TypeOK
    <2>3. /\ sendq' = Append(sendq, e) /\ phase' = [phase EXCEPT ![e] = "waiting"]
          /\ e \in Critical /\ UNCHANGED <<ch, enq>> /\ Len(ch) = Capacity
      BY <1>3 DEF LogWait
    <2>4. /\ Len(sendq') = Len(sendq) + 1
          /\ \A i \in DOMAIN sendq : sendq'[i] = sendq[i]
          /\ sendq'[Len(sendq) + 1] = e
      BY <2>3 DEF TypeOK
    <2>5. QED
      BY <2>1, <2>2, <2>3, <2>4 DEF QueueInv, TypeOK
  <1>4. ASSUME NEW e \in Entries, LogTimeout(e) PROVE QueueInv'
    <2>1. PICK k \in DOMAIN sendq :
            /\ sendq[k] = e
            /\ sendq' = [j \in 1 .. Len(sendq) - 1 |-> sendq[IF j < k THEN j ELSE j + 1]]
      BY <1>4 DEF LogTimeout
    <2>2. sendq' \in Seq(Critical) /\ Len(sendq') = Len(sendq) - 1
      BY <2>1, RemoveIsSeq DEF TypeOK
    <2>3. \A i \in DOMAIN sendq' : \E j \in DOMAIN sendq : j # k /\ sendq'[i] = sendq[j]
      <3> SUFFICES ASSUME NEW i \in DOMAIN sendq'
                   PROVE  \E j \in DOMAIN sendq : j # k /\ sendq'[i] = sendq[j]
        OBVIOUS
      <3> DEFINE j == IF i < k THEN i ELSE i + 1
      <3>1. j \in DOMAIN sendq /\ j # k
        BY <2>1, <2>2 DEF TypeOK
      <3>2. sendq'[i] = sendq[j]
        BY <2>1, <2>2
      <3> HIDE DEF j
      <3>3. QED
        BY <3>1, <3>2
    <2>4. \A i, j \in DOMAIN sendq' : sendq'[i] = sendq'[j] => i = j
      BY <2>1, <2>2 DEF TypeOK, QueueInv
    <2>5. /\ phase[e] = "waiting" /\ phase' = [phase EXCEPT ![e] = "dropped"]
          /\ UNCHANGED <<ch, enq>>
      BY <1>4 DEF LogTimeout
    <2>6. \A i \in DOMAIN sendq' : phase'[sendq'[i]] = "waiting"
      BY <2>1, <2>3, <2>5 DEF TypeOK, QueueInv
    <2>7. \A p \in DOMAIN enq : enq[p] # e /\ enq[p] \in Entries
      BY <2>5 DEF TypeOK, QueueInv
    <2>8. QED
      BY <2>1, <2>2, <2>4, <2>5, <2>6, <2>7 DEF QueueInv, TypeOK
  <1>5. ASSUME NEW e \in Entries, LogOverflow(e) PROVE QueueInv'
    BY <1>5, QueueFrame DEF LogOverflow, TypeOK
  <1>6. ASSUME NEW e \in Entries, LogPanic(e) PROVE QueueInv'
    BY <1>6, QueueFrame DEF LogPanic, TypeOK
  <1>7. ASSUME NEW e \in Entries, TSAAnswer(e) PROVE QueueInv'
    BY <1>7, QueueFrame DEF TSAAnswer
  <1>8. CASE Receive
    <2>1. CASE sendq = <<>> /\ ch' = Tail(ch) /\ UNCHANGED <<phase, sendq, enq>>
      BY <2>1 DEF QueueInv
    <2>2. CASE /\ sendq # <<>> /\ ch' = Append(Tail(ch), Head(sendq))
               /\ enq' = Append(enq, Head(sendq)) /\ sendq' = Tail(sendq)
               /\ phase' = [phase EXCEPT ![Head(sendq)] = "queued"]
      <3> DEFINE h == Head(sendq)
      <3>1. h \in Critical /\ h = sendq[1] /\ phase[h] = "waiting"
        BY <2>2 DEF TypeOK, QueueInv
      <3>2. \A p \in DOMAIN enq : enq[p] # h /\ enq[p] \in Entries
        BY <3>1 DEF TypeOK, QueueInv
      <3>3. /\ Len(enq') = Len(enq) + 1
            /\ \A p \in DOMAIN enq : enq'[p] = enq[p]
            /\ enq'[Len(enq) + 1] = h
        <4>1. enq \in Seq(Entries) /\ h \in Entries /\ enq' = Append(enq, h)
          BY <2>2, <3>1 DEF TypeOK
        <4> HIDE DEF h
        <4>2. QED
          BY <4>1
      <3>4. /\ Len(sendq') = Len(sendq) - 1
            /\ \A i \in DOMAIN sendq' : sendq'[i] = sendq[i + 1] /\ i + 1 \in DOMAIN sendq
        BY <2>2 DEF TypeOK
      <3>5. \A i \in DOMAIN sendq' : sendq'[i] # h /\ sendq'[i] \in Entries
        BY <3>1, <3>4, <2>2 DEF QueueInv, TypeOK
      <3>6. Len(ch') = Len(ch)
        BY <1>8, <2>2, <3>1 DEF TypeOK, Receive
      <3>7. \A p, q \in DOMAIN enq' : enq'[p] = enq'[q] => p = q
        BY <3>2, <3>3, <2>2, <3>1 DEF QueueInv, TypeOK
      <3>8. \A p \in DOMAIN enq' : phase'[enq'[p]] = "queued"
        BY <3>2, <3>3, <2>2, <3>1 DEF QueueInv, TypeOK
      <3>9. \A i \in DOMAIN sendq' : phase'[sendq'[i]] = "waiting"
        BY <3>4, <3>5, <2>2, <3>1 DEF QueueInv, TypeOK
      <3>10. \A i, j \in DOMAIN sendq' : sendq'[i] = sendq'[j] => i = j
        <4>1. \A i, j \in DOMAIN sendq : sendq[i] = sendq[j] => i = j
          BY DEF QueueInv
        <4>2. DOMAIN sendq' \subseteq Int
          BY <2>2 DEF TypeOK
        <4>3. QED
          BY <3>4, <4>1, <4>2
      <3>11. QED
        BY <3>6, <3>7, <3>8, <3>9, <3>10, <2>2 DEF QueueInv
    <2>3. QED
      BY <1>8, <2>1, <2>2 DEF Receive
  <1>9. CASE SignResult
    BY <1>9, QueueFrame DEF SignResult
  <1>10. CASE SignTimeout
    BY <1>10, QueueFrame DEF SignTimeout
  <1>11. CASE WriteLine
    BY <1>11, QueueFrame DEF WriteLine
  <1>12. CASE LoopExit
    BY <1>12, QueueFrame DEF LoopExit
  <1>13. ASSUME NEW c \in Closers, CloseEnter(c) PROVE QueueInv'
    BY <1>13, QueueFrame DEF CloseEnter
  <1>14. ASSUME NEW c \in Closers, CloseStop(c) PROVE QueueInv'
    BY <1>14, QueueFrame DEF CloseStop
  <1>15. ASSUME NEW c \in Closers, CloseChannel(c) PROVE QueueInv'
    <2>1. \A p \in DOMAIN enq : enq[p] \in Entries
      BY DEF TypeOK
    <2>2. QED
      BY <1>15, <2>1 DEF CloseChannel, QueueInv
  <1>16. ASSUME NEW c \in Closers, CloseFile(c) PROVE QueueInv'
    BY <1>16, QueueFrame DEF CloseFile
  <1>17. CASE UNCHANGED vars
    BY <1>17, QueueFrame DEF vars
  <1>18. QED
    BY <1>1, <1>2, <1>3, <1>4, <1>5, <1>6, <1>7, <1>8, <1>9, <1>10, <1>11, <1>12,
       <1>13, <1>14, <1>15, <1>16, <1>17
       DEF Next, LogStep, ConsumerStep, CloseStep, Finished

-------------------------------------------------------------------------------
(* Index arithmetic for a window of length n ending at m. *)
LEMMA ShiftIndex ==
  ASSUME NEW n \in Nat, NEW m \in Nat, NEW t \in Nat, t + n = m,
         NEW i \in 1 .. n, i # n
  PROVE  i + 1 \in 1 .. n /\ t + (i + 1) \in 1 .. m
  OBVIOUS

(* Steps that leave the channel and cur alone keep OrderInv. *)
LEMMA OrderFrame ==
  ASSUME OrderInv, UNCHANGED <<ch, enq, cur>>
  PROVE  OrderInv'
  BY DEF OrderInv, Taken

(* Every step keeps OrderInv. *)
LEMMA NextOrderInv == TypeInv /\ QueueInv /\ OrderInv /\ [Next]_vars => OrderInv'
  <1> USE AuditLoggerAssumption DEF logVars, chanVars
  <1> SUFFICES ASSUME TypeOK, ControlInv, QueueInv, OrderInv, [Next]_vars PROVE OrderInv'
    BY DEF TypeInv
  <1>1. ASSUME NEW e \in Entries, LogStart(e) PROVE OrderInv'
    BY <1>1, OrderFrame DEF LogStart
  <1>2. ASSUME NEW e \in Entries, LogEnqueue(e) PROVE OrderInv'
    <2>1. enq' = Append(enq, e) /\ ch' = Append(ch, e) /\ cur' = cur
      BY <1>2 DEF LogEnqueue
    <2>2. enq \in Seq(Entries) /\ ch \in Seq(Entries)
      BY DEF TypeOK
    <2>3. /\ Len(enq') = Len(enq) + 1 /\ Len(ch') = Len(ch) + 1
          /\ \A i \in 1..Len(enq) : enq'[i] = enq[i]
          /\ \A i \in 1..Len(ch) : ch'[i] = ch[i]
          /\ enq'[Len(enq) + 1] = e /\ ch'[Len(ch) + 1] = e
          /\ Len(enq) \in Nat /\ Len(ch) \in Nat
      BY <2>1, <2>2
    <2>4. Taken' = Taken
      BY <2>1, <2>3 DEF Taken
    <2>5. QED
      BY <2>1, <2>2, <2>3, <2>4 DEF OrderInv, Taken
  <1>3. ASSUME NEW e \in Entries, LogWait(e) PROVE OrderInv'
    BY <1>3, OrderFrame DEF LogWait
  <1>4. ASSUME NEW e \in Entries, LogTimeout(e) PROVE OrderInv'
    BY <1>4, OrderFrame DEF LogTimeout
  <1>5. ASSUME NEW e \in Entries, LogOverflow(e) PROVE OrderInv'
    BY <1>5, OrderFrame DEF LogOverflow
  <1>6. ASSUME NEW e \in Entries, LogPanic(e) PROVE OrderInv'
    BY <1>6, OrderFrame DEF LogPanic
  <1>7. ASSUME NEW e \in Entries, TSAAnswer(e) PROVE OrderInv'
    BY <1>7, OrderFrame DEF TSAAnswer
  <1>8. CASE Receive
    <2>1. ch # <<>> /\ cur' = Head(ch) /\ Len(ch) > 0 /\ cur' = ch[1]
      BY <1>8 DEF Receive, TypeOK
    <2>2. CASE sendq = <<>> /\ ch' = Tail(ch) /\ UNCHANGED <<phase, sendq, enq>>
      <3>1. /\ Len(ch') = Len(ch) - 1
            /\ \A i \in DOMAIN ch' : ch'[i] = ch[i + 1] /\ i + 1 \in DOMAIN ch
            /\ enq' = enq /\ Len(ch) \in Nat /\ Len(enq) \in Nat
        BY <2>1, <2>2 DEF TypeOK
      <3>2. Taken' = Taken + 1 /\ Taken \in Nat
        BY <3>1 DEF Taken, OrderInv
      <3>3. \A i \in DOMAIN ch' : ch'[i] = enq[Taken + (i + 1)]
        BY <3>1 DEF OrderInv
      <3>4. cur' = enq[Taken + 1]
        BY <2>1 DEF OrderInv, TypeOK
      <3>5. \A i \in DOMAIN ch' : Taken + (i + 1) = Taken' + i
        BY <3>2, <3>1, <2>2 DEF TypeOK
      <3>6. QED
        BY <3>1, <3>2, <3>3, <3>4, <3>5 DEF OrderInv
    <2>3. CASE /\ sendq # <<>> /\ ch' = Append(Tail(ch), Head(sendq))
               /\ enq' = Append(enq, Head(sendq)) /\ sendq' = Tail(sendq)
               /\ phase' = [phase EXCEPT ![Head(sendq)] = "queued"]
      <3> DEFINE h == Head(sendq)
      <3>1. h \in Entries
        BY <2>3 DEF TypeOK
      <3>2. /\ Len(enq') = Len(enq) + 1 /\ Len(ch') = Len(ch)
            /\ \A p \in DOMAIN enq : enq'[p] = enq[p]
            /\ enq'[Len(enq) + 1] = h
            /\ \A i \in 1 .. Len(ch) - 1 : ch'[i] = ch[i + 1]
            /\ ch'[Len(ch)] = h
        BY <2>1, <2>3, <3>1 DEF TypeOK
      <3> HIDE DEF h
      <3>3. /\ Len(ch) \in Nat /\ Len(enq) \in Nat /\ Len(ch) <= Len(enq)
            /\ DOMAIN enq = 1 .. Len(enq) /\ DOMAIN ch = 1 .. Len(ch)
        BY DEF OrderInv, TypeOK
      <3>4. Taken' = Taken + 1 /\ Taken \in Nat /\ Taken + Len(ch) = Len(enq)
        BY <3>2, <3>3 DEF Taken
      <3>5. cur' = enq'[Taken + 1]
        BY <2>1, <3>2, <3>3, <3>4 DEF OrderInv
      <3>6. \A i \in 1 .. Len(ch) : ch'[i] = enq'[Taken' + i]
        <4> SUFFICES ASSUME NEW i \in 1 .. Len(ch) PROVE ch'[i] = enq'[Taken' + i]
          OBVIOUS
        <4>1. CASE i = Len(ch)
          <5>1. Taken' + i = Len(enq) + 1
            BY <4>1, <3>3, <3>4
          <5>2. QED
            BY <4>1, <5>1, <3>2
        <4>2. CASE i # Len(ch)
          <5>1. i + 1 \in DOMAIN ch /\ Taken + (i + 1) \in DOMAIN enq
            BY <4>2, <3>3, <3>4, ShiftIndex
          <5>2. ch'[i] = enq[Taken + (i + 1)]
            BY <4>2, <5>1, <3>2, <3>3 DEF OrderInv
          <5>3. Taken + (i + 1) = Taken' + i
            BY <3>3, <3>4
          <5>4. QED
            BY <5>1, <5>2, <5>3, <3>2
        <4>3. QED
          BY <4>1, <4>2
      <3>7. DOMAIN ch' = 1 .. Len(ch)
        BY <3>2, <2>3, <3>1, <2>1 DEF TypeOK, h
      <3>8. QED
        BY <3>2, <3>3, <3>4, <3>5, <3>6, <3>7 DEF OrderInv
    <2>4. QED
      BY <1>8, <2>2, <2>3 DEF Receive
  <1>9. CASE SignResult
    BY <1>9, OrderFrame DEF SignResult
  <1>10. CASE SignTimeout
    BY <1>10, OrderFrame DEF SignTimeout
  <1>11. CASE WriteLine
    BY <1>11 DEF WriteLine, OrderInv, Taken
  <1>12. CASE LoopExit
    BY <1>12, OrderFrame DEF LoopExit
  <1>13. ASSUME NEW c \in Closers, CloseEnter(c) \/ CloseStep(c) PROVE OrderInv'
    BY <1>13, OrderFrame DEF CloseEnter, CloseStep, CloseStop, CloseChannel, CloseFile
  <1>14. CASE UNCHANGED vars
    BY <1>14, OrderFrame DEF vars
  <1>15. QED
    BY <1>1, <1>2, <1>3, <1>4, <1>5, <1>6, <1>7, <1>8, <1>9, <1>10, <1>11, <1>12,
       <1>13, <1>14
       DEF Next, LogStep, ConsumerStep, Finished

(* How many entries are settled, and how the channel's history moves. *)
LEMMA SettledBounds ==
  ASSUME TypeOK, OrderInv
  PROVE  Settled \in 0 .. Len(enq) /\ Taken \in 0 .. Len(enq)
  BY DEF OrderInv, Taken, Settled, TypeOK

(* FileInv survives steps that only extend the channel's history. *)
LEMMA FileFrame ==
  ASSUME TypeOK, OrderInv, FileInv, UNCHANGED <<file, failed>>,
         Settled' = Settled,
         Len(enq) <= Len(enq'), enq' \in Seq(Entries),
         \A p \in DOMAIN enq : enq'[p] = enq[p]
  PROVE  FileInv'
  <1>1. DOMAIN enq \subseteq DOMAIN enq' /\ 1 .. Settled \subseteq DOMAIN enq
    BY SettledBounds DEF TypeOK
  <1>2. \A i \in DOMAIN file : \E p \in 1 .. Settled : file[i].entry = enq'[p]
    BY <1>1 DEF FileInv
  <1>3. \A p \in 1 .. Settled : enq'[p] \in failed \/ \E i \in DOMAIN file : file[i].entry = enq'[p]
    BY <1>1 DEF FileInv
  <1>4. \A i, j \in DOMAIN file : i < j =>
          \E p, q \in DOMAIN enq' : p < q /\ file[i].entry = enq'[p] /\ file[j].entry = enq'[q]
    <2> SUFFICES ASSUME NEW i \in DOMAIN file, NEW j \in DOMAIN file, i < j
                 PROVE  \E p, q \in DOMAIN enq' :
                          p < q /\ file[i].entry = enq'[p] /\ file[j].entry = enq'[q]
      OBVIOUS
    <2>1. PICK p, q \in DOMAIN enq : p < q /\ file[i].entry = enq[p] /\ file[j].entry = enq[q]
      BY DEF FileInv, WriteOrder, Holds
    <2>2. QED
      BY <2>1, <1>1
  <1>5. QED
    BY <1>2, <1>3, <1>4 DEF FileInv, WriteOrder, TokenMatchesEntry, Holds
(* Steps that touch neither the channel, nor cur, nor the file keep FileInv. *)
LEMMA FileStutter ==
  ASSUME TypeOK, OrderInv, FileInv, UNCHANGED <<ch, enq, cur, file, failed>>
  PROVE  FileInv'
  <1>1. Settled' = Settled
    BY DEF Settled, Taken
  <1>2. QED
    BY <1>1, FileFrame DEF TypeOK

(* Sending or receiving settles nothing. *)
LEMMA SettledUnchanged ==
  ASSUME TypeInv, OrderInv,
         Receive \/ \E e \in Entries : LogEnqueue(e)
  PROVE  /\ Settled' = Settled
         /\ Len(enq) <= Len(enq') /\ enq' \in Seq(Entries)
         /\ \A p \in DOMAIN enq : enq'[p] = enq[p]
  <1> USE AuditLoggerAssumption DEF TypeInv
  <1>1. CASE Receive
    <2>1. /\ Len(ch) > 0 /\ cur = NoEntry /\ cur' # NoEntry
      BY <1>1 DEF Receive, TypeOK, ControlInv
    <2>2. CASE ch' = Tail(ch) /\ UNCHANGED enq
      <3>1. Len(ch') = Len(ch) - 1 /\ Len(ch) \in Nat /\ Len(enq) \in Nat
        BY <2>1, <2>2 DEF TypeOK
      <3>2. Taken' = Taken + 1
        BY <3>1, <2>2 DEF Taken
      <3>3. QED
        BY <2>1, <2>2, <3>1, <3>2, SettledBounds DEF Settled, TypeOK
    <2>3. CASE sendq # <<>> /\ ch' = Append(Tail(ch), Head(sendq)) /\ enq' = Append(enq, Head(sendq))
      <3>1. Head(sendq) \in Entries
        BY <2>3 DEF TypeOK
      <3>2. /\ Len(ch') = Len(ch) /\ Len(enq') = Len(enq) + 1
            /\ Len(ch) \in Nat /\ Len(enq) \in Nat /\ enq' \in Seq(Entries)
            /\ \A p \in DOMAIN enq : enq'[p] = enq[p]
        BY <2>1, <2>3, <3>1 DEF TypeOK
      <3>3. Taken' = Taken + 1
        BY <3>2 DEF Taken
      <3>4. QED
        BY <2>1, <3>2, <3>3, SettledBounds DEF Settled
    <2>4. QED
      BY <1>1, <2>2, <2>3 DEF Receive
  <1>2. ASSUME NEW e \in Entries, LogEnqueue(e)
        PROVE  /\ Settled' = Settled
               /\ Len(enq) <= Len(enq') /\ enq' \in Seq(Entries)
               /\ \A p \in DOMAIN enq : enq'[p] = enq[p]
    <2>1. /\ Len(ch') = Len(ch) + 1 /\ Len(enq') = Len(enq) + 1
          /\ Len(ch) \in Nat /\ Len(enq) \in Nat /\ enq' \in Seq(Entries)
          /\ \A p \in DOMAIN enq : enq'[p] = enq[p]
          /\ cur' = cur
      BY <1>2 DEF LogEnqueue, TypeOK
    <2>2. Taken' = Taken
      BY <2>1 DEF Taken
    <2>3. QED
      BY <2>1, <2>2 DEF Settled
  <1>3. QED
    BY <1>1, <1>2

(* Writing the current line, or failing to, settles exactly one entry. *)
LEMMA WriteLineFileInv == TypeInv /\ OrderInv /\ FileInv /\ WriteLine => FileInv'
  <1> SUFFICES ASSUME TypeOK, ControlInv, OrderInv, FileInv, WriteLine PROVE FileInv'
    BY DEF TypeInv
  <1> DEFINE line == [entry |-> cur, tst |-> tst]
  <1>1. cur \in Entries /\ cur # NoEntry /\ cur' = NoEntry /\ UNCHANGED <<ch, enq>>
    BY AuditLoggerAssumption DEF WriteLine, ControlInv, TypeOK, chanVars
  <1>2. Taken \in Nat /\ Settled = Taken - 1 /\ Settled' = Taken /\ cur = enq[Taken] /\ Taken \in DOMAIN enq
    BY <1>1, SettledBounds DEF Settled, Taken, OrderInv, TypeOK
  <1>3. line.entry = cur /\ line.tst \in {NoEntry, line.entry}
    BY DEF ControlInv
  <1>4. \A p \in 1 .. Taken : p \in 1 .. Settled \/ p = Taken
    BY <1>2
  <1>5. \A p \in 1 .. Settled : p < Taken /\ p \in DOMAIN enq
    BY <1>2, SettledBounds DEF TypeOK
  <1>6. CASE file' = Append(file, line) /\ UNCHANGED failed
    <2> HIDE DEF line
    <2>1. /\ DOMAIN file' = 1 .. Len(file) + 1
          /\ \A i \in DOMAIN file : file'[i] = file[i]
          /\ file'[Len(file) + 1] = line
          /\ Len(file) \in Nat /\ DOMAIN file = 1 .. Len(file)
      BY <1>6 DEF TypeOK
    <2>2. \A i \in DOMAIN file' : \E p \in 1 .. Settled' : file'[i].entry = enq[p]
      <3> SUFFICES ASSUME NEW i \in DOMAIN file' PROVE \E p \in 1 .. Taken : file'[i].entry = enq[p]
        BY <1>2
      <3>1. CASE i = Len(file) + 1
        BY <3>1, <2>1, <1>2, <1>3
      <3>2. CASE i \in DOMAIN file
        <4>1. PICK p \in 1 .. Settled : file[i].entry = enq[p]
          BY <3>2 DEF FileInv
        <4>2. QED
          BY <4>1, <2>1, <3>2, <1>2
      <3>3. QED
        BY <3>1, <3>2, <2>1
    <2>3. \A p \in 1 .. Settled' : enq[p] \in failed \/ \E i \in DOMAIN file' : file'[i].entry = enq[p]
      <3> SUFFICES ASSUME NEW p \in 1 .. Taken, enq[p] \notin failed
                   PROVE  \E i \in DOMAIN file' : file'[i].entry = enq[p]
        BY <1>2
      <3>1. CASE p = Taken
        BY <3>1, <2>1, <1>2, <1>3
      <3>2. CASE p \in 1 .. Settled
        <4>1. PICK i \in DOMAIN file : file[i].entry = enq[p]
          BY <3>2 DEF FileInv
        <4>2. QED
          BY <4>1, <2>1
      <3>3. QED
        BY <3>1, <3>2, <1>4
    <2>4. \A i, j \in DOMAIN file' : i < j =>
            \E p, q \in DOMAIN enq : p < q /\ file'[i].entry = enq[p] /\ file'[j].entry = enq[q]
      <3> SUFFICES ASSUME NEW i \in DOMAIN file', NEW j \in DOMAIN file', i < j
                   PROVE  \E p, q \in DOMAIN enq :
                            p < q /\ file'[i].entry = enq[p] /\ file'[j].entry = enq[q]
        OBVIOUS
      <3>1. i \in DOMAIN file
        BY <2>1
      <3>2. CASE j \in DOMAIN file
        <4>1. PICK p, q \in DOMAIN enq : p < q /\ file[i].entry = enq[p] /\ file[j].entry = enq[q]
          BY <3>1, <3>2 DEF FileInv, WriteOrder, Holds
        <4>2. QED
          BY <4>1, <3>1, <3>2, <2>1
      <3>3. CASE j = Len(file) + 1
        <4>1. PICK p \in 1 .. Settled : file[i].entry = enq[p]
          BY <3>1 DEF FileInv
        <4>2. p < Taken /\ p \in DOMAIN enq /\ Taken \in DOMAIN enq
          BY <1>2, <1>5
        <4>3. file'[j].entry = enq[Taken] /\ file'[i].entry = enq[p]
          BY <3>1, <3>3, <2>1, <1>2, <1>3, <4>1
        <4>4. QED
          BY <4>2, <4>3
      <3>4. QED
        BY <3>2, <3>3, <2>1
    <2>5. \A i \in DOMAIN file' : file'[i].tst \in {NoEntry, file'[i].entry}
      BY <2>1, <1>3 DEF FileInv, TokenMatchesEntry
    <2>6. QED
      BY <1>1, <1>6, <2>2, <2>3, <2>4, <2>5 DEF FileInv, WriteOrder, TokenMatchesEntry, Holds
  <1>7. CASE failed' = failed \cup {cur} /\ UNCHANGED file
    <2>1. \A i \in DOMAIN file : \E p \in 1 .. Taken : file[i].entry = enq[p]
      BY <1>2 DEF FileInv
    <2>2. \A p \in 1 .. Taken : enq[p] \in failed' \/ \E i \in DOMAIN file : file[i].entry = enq[p]
      BY <1>2, <1>4, <1>7 DEF FileInv
    <2>3. QED
      BY <1>1, <1>2, <1>7, <2>1, <2>2 DEF FileInv, WriteOrder, TokenMatchesEntry
  <1>8. QED
    BY <1>6, <1>7 DEF WriteLine

(* Every step keeps FileInv. *)
LEMMA NextFileInv == TypeInv /\ OrderInv /\ FileInv /\ [Next]_vars => FileInv'
  <1> USE DEF logVars, chanVars, sinkVars
  <1> SUFFICES ASSUME TypeInv, TypeOK, OrderInv, FileInv, [Next]_vars PROVE FileInv'
    BY DEF TypeInv
  <1>1. ASSUME NEW e \in Entries,
               LogStart(e) \/ LogWait(e) \/ LogTimeout(e) \/ LogOverflow(e) \/ LogPanic(e) \/ TSAAnswer(e)
        PROVE  FileInv'
    BY <1>1, FileStutter DEF LogStart, LogWait, LogTimeout, LogOverflow, LogPanic, TSAAnswer
  <1>2. ASSUME NEW e \in Entries, LogEnqueue(e) PROVE FileInv'
    <2>1. UNCHANGED <<file, failed>>
      BY <1>2 DEF LogEnqueue
    <2>2. QED
      BY <1>2, <2>1, SettledUnchanged, FileFrame
  <1>3. CASE Receive
    <2>1. UNCHANGED <<file, failed>>
      BY <1>3 DEF Receive
    <2>2. QED
      BY <1>3, <2>1, SettledUnchanged, FileFrame
  <1>4. CASE SignResult \/ SignTimeout \/ LoopExit
    BY <1>4, FileStutter DEF SignResult, SignTimeout, LoopExit
  <1>5. CASE WriteLine
    BY <1>5, WriteLineFileInv
  <1>6. ASSUME NEW c \in Closers, CloseEnter(c) \/ CloseStep(c) PROVE FileInv'
    BY <1>6, FileStutter DEF CloseEnter, CloseStep, CloseStop, CloseChannel, CloseFile
  <1>7. CASE UNCHANGED vars
    BY <1>7, FileStutter DEF vars
  <1>8. QED
    BY <1>1, <1>2, <1>3, <1>4, <1>5, <1>6, <1>7 DEF Next, LogStep, ConsumerStep, Finished

-------------------------------------------------------------------------------
(* The inductive invariant of the logger. *)
THEOREM Inductive == Spec => []IInv
  <1>1. IInv /\ [Next]_vars => IInv'
    BY NextTypeInv, NextQueueInv, NextOrderInv, NextFileInv DEF IInv
  <1>2. QED
    BY <1>1, InitIInv, PTL DEF Spec

(* The file is written in enqueue order, whatever the capacity and however  *)
(* many callers race with Close.                                            *)
THEOREM WriteOrderHolds == Spec => []WriteOrder
  <1>1. IInv => WriteOrder
    BY DEF IInv, FileInv
  <1>2. QED
    BY <1>1, Inductive, PTL

(* Late TSA answers never end up on another entry's line. *)
THEOREM TokenMatchesEntryHolds == Spec => []TokenMatchesEntry
  <1>1. IInv => TokenMatchesEntry
    BY DEF IInv, FileInv
  <1>2. QED
    BY <1>1, Inductive, PTL

(* Close drains: a closed file holds every accepted entry or its write failed. *)
THEOREM DrainedWhenClosedHolds == Spec => []DrainedWhenClosed
  <1>1. IInv => DrainedWhenClosed
    <2> SUFFICES ASSUME IInv, ~fileOpen, NEW p \in DOMAIN enq
                 PROVE  enq[p] \in failed \/ \E i \in DOMAIN file : Holds(file[i], enq[p])
      BY DEF DrainedWhenClosed
    <2>1. ch = <<>> /\ cur = NoEntry
      BY DEF IInv, TypeInv, ControlInv
    <2>2. p \in 1 .. Settled
      BY <2>1 DEF IInv, TypeInv, TypeOK, Settled, Taken
    <2>3. QED
      BY <2>2 DEF IInv, FileInv, Holds
  <1>2. QED
    BY <1>1, Inductive, PTL
(* A critical entry is dropped only while the buffer is full: blocked       *)
(* senders exist only then.                                                 *)
THEOREM CriticalDropHolds == Spec => CriticalDropOnlyWhenFull
  <1> DEFINE DropOnlyWhenFull ==
        \A e \in Critical : (phase[e] # "dropped" /\ phase'[e] = "dropped") => Len(ch) = Capacity
  <1>1. IInv /\ [Next]_vars => [DropOnlyWhenFull]_vars
    <2> SUFFICES ASSUME IInv, Next, NEW x \in Critical, phase[x] # "dropped", phase'[x] = "dropped"
                 PROVE  Len(ch) = Capacity
      OBVIOUS
    <2> USE AuditLoggerAssumption DEF IInv, TypeInv, TypeOK, Phases, logVars
    <2>1. ASSUME NEW e \in Entries, LogStart(e) \/ LogEnqueue(e) \/ LogWait(e) \/ LogPanic(e) \/ TSAAnswer(e)
          PROVE  FALSE
      BY <2>1 DEF LogStart, LogEnqueue, LogWait, LogPanic, TSAAnswer
    <2>2. ASSUME NEW e \in Entries, LogTimeout(e) PROVE Len(ch) = Capacity
      <3>1. DOMAIN sendq # {}
        BY <2>2 DEF LogTimeout
      <3>2. sendq # <<>>
        BY <3>1
      <3>3. QED
        BY <3>2 DEF QueueInv
    <2>3. ASSUME NEW e \in Entries, LogOverflow(e) PROVE Len(ch) = Capacity
      BY <2>3 DEF LogOverflow
    <2>4. CASE Receive
      <3>1. phase' = phase \/ (sendq # <<>> /\ phase' = [phase EXCEPT ![Head(sendq)] = "queued"])
        BY <2>4 DEF Receive
      <3>2. sendq # <<>> => Head(sendq) \in Entries
        OBVIOUS
      <3>3. QED
        BY <3>1, <3>2
    <2>5. CASE SignResult \/ SignTimeout \/ WriteLine \/ LoopExit \/ Finished
      BY <2>5 DEF SignResult, SignTimeout, WriteLine, LoopExit, Finished, vars
    <2>6. ASSUME NEW c \in Closers, CloseEnter(c) \/ CloseStep(c) PROVE FALSE
      BY <2>6 DEF CloseEnter, CloseStep, CloseStop, CloseChannel, CloseFile
    <2>7. QED
      BY <2>1, <2>2, <2>3, <2>4, <2>5, <2>6 DEF Next, LogStep, ConsumerStep
  <1>2. QED
    BY <1>1, Inductive, PTL DEF Spec, CriticalDropOnlyWhenFull

-------------------------------------------------------------------------------
(* A step that keeps the channel, cur, the file and fileOpen is a stutter   *)
(* of the abstract trail.                                                   *)
LEMMA TrailStutter ==
  ASSUME UNCHANGED <<ch, enq, cur, file, failed, fileOpen>>
  PROVE  UNCHANGED Trail!trailVars
  BY DEF Trail!trailVars, Settled, Taken

(* The logger implements the abstract audit trail: entries are settled one  *)
(* by one in the order they were accepted, and the file is closed last.     *)
THEOREM ImplementsTrail == Spec => TrailSpec
  <1>1. Init => Trail!TrailInit
    BY DEF Init, Trail!TrailInit, Settled, Taken
  <1>2. IInv /\ [Next]_vars => [Trail!TrailNext]_(Trail!trailVars)
    <2> SUFFICES ASSUME IInv, [Next]_vars, TypeInv, TypeOK, ControlInv, OrderInv, QueueInv
                 PROVE  Trail!TrailNext \/ UNCHANGED Trail!trailVars
      BY DEF IInv, TypeInv
    <2> USE AuditLoggerAssumption DEF logVars, chanVars, sinkVars, closeVars
    <2>1. ASSUME NEW e \in Entries,
                 LogStart(e) \/ LogWait(e) \/ LogTimeout(e) \/ LogOverflow(e) \/ LogPanic(e) \/ TSAAnswer(e)
          PROVE  UNCHANGED Trail!trailVars
      BY <2>1, TrailStutter DEF LogStart, LogWait, LogTimeout, LogOverflow, LogPanic, TSAAnswer
    <2>2. ASSUME NEW e \in Entries, LogEnqueue(e) PROVE Trail!Accept(e)
      <3>1. Settled' = Settled
        BY <2>2, SettledUnchanged
      <3>2. fileOpen
        BY <2>2 DEF LogEnqueue, ControlInv, TypeOK
      <3>3. \A p \in DOMAIN enq : enq[p] # e
        BY <2>2 DEF LogEnqueue, QueueInv
      <3>4. enq' = Append(enq, e) /\ UNCHANGED <<file, failed, fileOpen>>
        BY <2>2 DEF LogEnqueue
      <3>5. QED
        BY <3>1, <3>2, <3>3, <3>4 DEF Trail!Accept
    <2>3. CASE Receive
      <3>1. Settled' = Settled
        BY <2>3, SettledUnchanged
      <3>2. UNCHANGED <<file, failed, fileOpen>>
        BY <2>3 DEF Receive
      <3>3. CASE enq' = enq
        BY <3>1, <3>2, <3>3 DEF Trail!trailVars
      <3>4. CASE sendq # <<>> /\ enq' = Append(enq, Head(sendq))
        <4>1. Head(sendq) \in Entries /\ Head(sendq) = sendq[1] /\ 1 \in DOMAIN sendq
          BY <3>4 DEF TypeOK
        <4>2. \A p \in DOMAIN enq : enq[p] # Head(sendq)
          BY <4>1 DEF QueueInv
        <4>3. fileOpen
          BY <3>4 DEF ControlInv, TypeOK
        <4>4. Trail!Accept(Head(sendq))
          BY <3>1, <3>2, <3>4, <4>2, <4>3 DEF Trail!Accept
        <4>5. QED
          BY <4>1, <4>4 DEF Trail!TrailNext
      <3>5. QED
        BY <2>3, <3>3, <3>4 DEF Receive
    <2>4. CASE SignResult \/ SignTimeout \/ LoopExit
      BY <2>4, TrailStutter DEF SignResult, SignTimeout, LoopExit
    <2>5. CASE WriteLine
      <3>1. cur # NoEntry /\ cur' = NoEntry /\ UNCHANGED <<ch, enq, fileOpen>>
        BY <2>5 DEF WriteLine, ControlInv
      <3>2. fileOpen
        BY <2>5 DEF WriteLine, ControlInv, TypeOK
      <3>3. /\ Settled' = Settled + 1 /\ Settled < Len(enq)
            /\ enq[Settled + 1] = cur
        BY <3>1, SettledBounds DEF Settled, Taken, OrderInv, TypeOK
      <3>4. tst \in {cur, NoEntry}
        BY DEF ControlInv
      <3>5. \/ file' = Append(file, [entry |-> cur, tst |-> tst]) /\ UNCHANGED failed
            \/ failed' = failed \cup {cur} /\ UNCHANGED file
        BY <2>5 DEF WriteLine
      <3>6. Trail!Settle
        BY <3>1, <3>2, <3>3, <3>4, <3>5 DEF Trail!Settle
      <3>7. QED
        BY <3>6 DEF Trail!TrailNext
    <2>6. ASSUME NEW c \in Closers, CloseEnter(c) \/ CloseStop(c) \/ CloseChannel(c)
          PROVE  UNCHANGED Trail!trailVars
      BY <2>6, TrailStutter DEF CloseEnter, CloseStop, CloseChannel
    <2>7. ASSUME NEW c \in Closers, CloseFile(c) PROVE Trail!TrailNext \/ UNCHANGED Trail!trailVars
      <3>1. ch = <<>> /\ cur = NoEntry /\ UNCHANGED <<ch, enq, cur, file, failed>> /\ fileOpen' = FALSE
        BY <2>7 DEF CloseFile, ControlInv
      <3>2. Settled = Len(enq) /\ Settled' = Settled
        BY <3>1 DEF Settled, Taken, TypeOK
      <3>3. CASE fileOpen
        <4>1. Trail!Shut
          BY <3>1, <3>2, <3>3 DEF Trail!Shut
        <4>2. QED
          BY <4>1 DEF Trail!TrailNext
      <3>4. CASE ~fileOpen
        <4>1. fileOpen' = fileOpen
          BY <3>1, <3>4 DEF TypeOK
        <4>2. QED
          BY <3>1, <4>1, TrailStutter
      <3>5. QED
        BY <3>3, <3>4
    <2>8. CASE UNCHANGED vars
      BY <2>8, TrailStutter DEF vars
    <2>9. QED
      BY <2>1, <2>2, <2>3, <2>4, <2>5, <2>6, <2>7, <2>8
         DEF Next, LogStep, ConsumerStep, CloseStep, Finished, Trail!TrailNext
  <1>3. QED
    BY <1>1, <1>2, Inductive, PTL DEF Spec, TrailSpec, Trail!TrailSpec

-------------------------------------------------------------------------------
(* Accounting.  Calls(p) are the Log calls in phase p. *)
Calls(p) == {e \in Entries : phase[e] = p}

(* The dropped counter and the channel's history count phases. *)
PhaseCount ==
  /\ dropped = Cardinality(Calls("dropped"))
  /\ Len(enq) = Cardinality(Calls("queued"))

(* Every settled entry is one line or one failed write, and nothing else    *)
(* failed.                                                                  *)
SettleCount ==
  /\ Settled = Len(file) + Cardinality(failed)
  /\ \A e \in failed : \E p \in 1 .. Settled : enq[p] = e

(* A call that moves on is counted where it arrives, and only there. *)
LEMMA Moved ==
  ASSUME TypeOK, NEW e \in Entries, NEW p, phase' = [phase EXCEPT ![e] = p], phase[e] # p
  PROVE  /\ Cardinality(Calls(p)') = Cardinality(Calls(p)) + 1
         /\ \A q : q # p /\ q # phase[e] => Calls(q)' = Calls(q)
  <1>1. Calls(p)' = Calls(p) \cup {e} /\ e \notin Calls(p)
    BY DEF Calls, TypeOK
  <1>2. IsFiniteSet(Calls(p))
    BY AuditLoggerAssumption, FS_Subset DEF Calls
  <1>3. ASSUME NEW q, q # p, q # phase[e] PROVE Calls(q)' = Calls(q)
    BY <1>3 DEF Calls, TypeOK
  <1>4. QED
    BY <1>1, <1>2, <1>3, FS_AddElement

(* Moves that end in neither phase, and steps of nobody's Log call. *)
LEMMA PhaseFrame ==
  ASSUME PhaseCount, UNCHANGED <<dropped, enq>>,
         Calls("dropped")' = Calls("dropped"), Calls("queued")' = Calls("queued")
  PROVE  PhaseCount'
  BY DEF PhaseCount

(* Every step keeps PhaseCount. *)
LEMMA NextPhaseCount == TypeInv /\ QueueInv /\ PhaseCount /\ [Next]_vars => PhaseCount'
  <1> USE AuditLoggerAssumption DEF logVars, chanVars
  <1> SUFFICES ASSUME TypeOK, QueueInv, PhaseCount, [Next]_vars PROVE PhaseCount'
    BY DEF TypeInv
  <1>1. ASSUME NEW e \in Entries, LogStart(e) \/ LogWait(e) \/ LogPanic(e) PROVE PhaseCount'
    <2>1. /\ UNCHANGED <<dropped, enq>> /\ phase[e] \in {"new", "checked"}
          /\ \E p \in {"ignored", "checked", "waiting", "panicked"} :
                p # phase[e] /\ phase' = [phase EXCEPT ![e] = p]
      BY <1>1 DEF LogStart, LogWait, LogPanic
    <2>2. Calls("dropped")' = Calls("dropped") /\ Calls("queued")' = Calls("queued")
      BY <2>1, Moved
    <2>3. QED
      BY <2>1, <2>2, PhaseFrame
  <1>2. ASSUME NEW e \in Entries, LogEnqueue(e) PROVE PhaseCount'
    <2>1. /\ UNCHANGED dropped /\ phase[e] = "checked" /\ enq' = Append(enq, e)
          /\ phase' = [phase EXCEPT ![e] = "queued"]
      BY <1>2 DEF LogEnqueue
    <2>2. /\ Cardinality(Calls("queued")') = Cardinality(Calls("queued")) + 1
          /\ Calls("dropped")' = Calls("dropped")
      <3>1. phase[e] # "queued" /\ "dropped" # "queued" /\ "dropped" # phase[e]
        BY <2>1
      <3>2. QED
        BY <2>1, <3>1, Moved
    <2>3. enq \in Seq(Entries)
      BY DEF TypeOK
    <2>4. Len(enq') = Len(enq) + 1
      BY <2>1, <2>3
    <2>5. QED
      BY <2>1, <2>2, <2>4 DEF PhaseCount
  <1>3. ASSUME NEW e \in Entries, LogTimeout(e) \/ LogOverflow(e) PROVE PhaseCount'
    <2>1. /\ dropped' = dropped + 1 /\ UNCHANGED enq /\ phase[e] \in {"checked", "waiting"}
          /\ phase' = [phase EXCEPT ![e] = "dropped"]
      BY <1>3 DEF LogTimeout, LogOverflow
    <2>2. /\ Cardinality(Calls("dropped")') = Cardinality(Calls("dropped")) + 1
          /\ Calls("queued")' = Calls("queued")
      <3>1. phase[e] # "dropped" /\ "queued" # "dropped" /\ "queued" # phase[e]
        BY <2>1
      <3>2. QED
        BY <2>1, <3>1, Moved
    <2>3. QED
      BY <2>1, <2>2 DEF PhaseCount
  <1>4. CASE Receive
    <2>1. CASE UNCHANGED <<phase, enq>>
      BY <1>4, <2>1, PhaseFrame DEF Receive, Calls
    <2>2. CASE /\ sendq # <<>> /\ enq' = Append(enq, Head(sendq))
               /\ phase' = [phase EXCEPT ![Head(sendq)] = "queued"]
      <3>1. /\ Head(sendq) \in Entries /\ Head(sendq) = sendq[1] /\ 1 \in DOMAIN sendq
            /\ dropped' = dropped
        BY <1>4, <2>2 DEF TypeOK, Receive
      <3>2. phase[Head(sendq)] = "waiting"
        BY <3>1 DEF QueueInv
      <3> DEFINE h == Head(sendq)
      <3>3. /\ Cardinality(Calls("queued")') = Cardinality(Calls("queued")) + 1
            /\ Calls("dropped")' = Calls("dropped")
        <4>1. h \in Entries /\ phase' = [phase EXCEPT ![h] = "queued"] /\ phase[h] = "waiting"
          BY <2>2, <3>1, <3>2
        <4>2. phase[h] # "queued" /\ "dropped" # "queued" /\ "dropped" # phase[h]
          BY <4>1
        <4> HIDE DEF h
        <4>3. QED
          BY <4>1, <4>2, Moved
      <3>4. Len(enq') = Len(enq) + 1
        <4>1. enq \in Seq(Entries) /\ h \in Entries /\ enq' = Append(enq, h)
          BY <2>2, <3>1 DEF TypeOK
        <4> HIDE DEF h
        <4>2. QED
          BY <4>1
      <3>5. QED
        BY <3>1, <3>3, <3>4 DEF PhaseCount
    <2>3. QED
      BY <1>4, <2>1, <2>2 DEF Receive
  <1>5. ASSUME NEW c \in Closers, CloseChannel(c) PROVE PhaseCount'
    <2>1. /\ UNCHANGED <<dropped, enq>>
          /\ phase' = [e \in Entries |-> IF phase[e] = "waiting" THEN "panicked" ELSE phase[e]]
      BY <1>5 DEF CloseChannel
    <2>2. Calls("dropped")' = Calls("dropped") /\ Calls("queued")' = Calls("queued")
      BY <2>1 DEF Calls
    <2>3. QED
      BY <2>1, <2>2, PhaseFrame
  <1>6. ASSUME UNCHANGED <<phase, dropped, enq>> PROVE PhaseCount'
    BY <1>6, PhaseFrame DEF Calls
  <1>7. CASE SignResult \/ SignTimeout \/ WriteLine \/ LoopExit \/ UNCHANGED vars
    BY <1>6, <1>7 DEF SignResult, SignTimeout, WriteLine, LoopExit, vars
  <1>8. ASSUME NEW e \in Entries, TSAAnswer(e) PROVE PhaseCount'
    BY <1>6, <1>8 DEF TSAAnswer
  <1>9. ASSUME NEW c \in Closers, CloseEnter(c) \/ CloseStop(c) \/ CloseFile(c) PROVE PhaseCount'
    BY <1>6, <1>9 DEF CloseEnter, CloseStop, CloseFile
  <1>10. QED
    BY <1>1, <1>2, <1>3, <1>4, <1>5, <1>7, <1>8, <1>9
       DEF Next, LogStep, ConsumerStep, CloseStep, Finished

(* Steps that settle nothing keep SettleCount. *)
LEMMA SettleFrame ==
  ASSUME TypeOK, OrderInv, SettleCount, UNCHANGED <<file, failed>>, Settled' = Settled,
         \A p \in DOMAIN enq : enq'[p] = enq[p]
  PROVE  SettleCount'
  <1>1. 1 .. Settled \subseteq DOMAIN enq
    BY SettledBounds DEF TypeOK
  <1>2. QED
    BY <1>1 DEF SettleCount

(* Every step keeps SettleCount. *)
LEMMA NextSettleCount ==
  TypeInv /\ QueueInv /\ OrderInv /\ SettleCount /\ [Next]_vars => SettleCount'
  <1> USE DEF logVars, chanVars, sinkVars
  <1> SUFFICES ASSUME TypeInv, TypeOK, ControlInv, QueueInv, OrderInv, SettleCount, [Next]_vars
               PROVE  SettleCount'
    BY DEF TypeInv
  <1>1. ASSUME UNCHANGED <<ch, enq, cur, file, failed>> PROVE SettleCount'
    <2>1. Settled' = Settled
      BY <1>1 DEF Settled, Taken
    <2>2. QED
      BY <1>1, <2>1, SettleFrame
  <1>2. ASSUME Receive \/ \E e \in Entries : LogEnqueue(e) PROVE SettleCount'
    <2>1. UNCHANGED <<file, failed>>
      BY <1>2 DEF Receive, LogEnqueue
    <2>2. QED
      BY <1>2, <2>1, SettledUnchanged, SettleFrame
  <1>3. CASE WriteLine
    <2>1. cur \in Entries /\ cur # NoEntry /\ cur' = NoEntry /\ UNCHANGED <<ch, enq>>
      BY <1>3, AuditLoggerAssumption DEF WriteLine, ControlInv, TypeOK
    <2>2. /\ Taken \in Nat /\ Settled = Taken - 1 /\ Settled' = Taken /\ Settled \in Nat
          /\ cur = enq[Taken] /\ Taken \in DOMAIN enq /\ 1 .. Settled \subseteq DOMAIN enq
          /\ Taken \in 1 .. Taken /\ 1 .. Settled \subseteq 1 .. Taken
      BY <2>1, SettledBounds DEF Settled, Taken, OrderInv, TypeOK
    <2>3. IsFiniteSet(failed)
      BY AuditLoggerAssumption, FS_Subset DEF TypeOK
    <2>4. Cardinality(failed) \in Nat /\ Len(file) \in Nat
      BY <2>3, FS_CardinalityType DEF TypeOK
    <2>5. CASE failed' = failed /\ file' = Append(file, [entry |-> cur, tst |-> tst])
      <3>1. Len(file') = Len(file) + 1
        BY <2>5 DEF TypeOK
      <3>2. Settled' = Len(file') + Cardinality(failed')
        BY <2>2, <2>4, <2>5, <3>1 DEF SettleCount
      <3>3. \A e \in failed : \E p \in 1 .. Taken : enq[p] = e
        BY <2>2 DEF SettleCount
      <3>4. QED
        BY <2>1, <2>2, <2>5, <3>2, <3>3 DEF SettleCount
    <2>6. CASE failed' = failed \cup {cur} /\ file' = file
      <3>1. cur \notin failed
        <4> SUFFICES ASSUME cur \in failed PROVE FALSE
          OBVIOUS
        <4>1. PICK p \in 1 .. Settled : enq[p] = cur
          BY DEF SettleCount
        <4>2. p = Taken
          BY <2>2, <4>1 DEF QueueInv
        <4>3. QED
          BY <2>2, <4>2
      <3>2. Cardinality(failed') = Cardinality(failed) + 1
        BY <2>3, <2>6, <3>1, FS_AddElement
      <3>3. Settled' = Len(file') + Cardinality(failed')
        BY <2>2, <2>4, <2>6, <3>2 DEF SettleCount
      <3>4. \A e \in failed' : \E p \in 1 .. Taken : enq[p] = e
        BY <2>2, <2>6 DEF SettleCount
      <3>5. QED
        BY <2>1, <2>2, <3>3, <3>4 DEF SettleCount
    <2>7. QED
      BY <1>3, <2>5, <2>6 DEF WriteLine
  <1>4. ASSUME NEW e \in Entries,
               LogStart(e) \/ LogWait(e) \/ LogTimeout(e) \/ LogOverflow(e) \/ LogPanic(e) \/ TSAAnswer(e)
        PROVE  SettleCount'
    BY <1>1, <1>4 DEF LogStart, LogWait, LogTimeout, LogOverflow, LogPanic, TSAAnswer
  <1>5. CASE SignResult \/ SignTimeout \/ LoopExit \/ UNCHANGED vars
    BY <1>1, <1>5 DEF SignResult, SignTimeout, LoopExit, vars
  <1>6. ASSUME NEW c \in Closers, CloseEnter(c) \/ CloseStep(c) PROVE SettleCount'
    BY <1>1, <1>6 DEF CloseEnter, CloseStep, CloseStop, CloseChannel, CloseFile
  <1>7. QED
    BY <1>2, <1>3, <1>4, <1>5, <1>6 DEF Next, LogStep, ConsumerStep, Finished

(* The sizes of disjoint sets add up. *)
LEMMA DisjointUnion ==
  ASSUME NEW S, NEW T, IsFiniteSet(S), IsFiniteSet(T), S \cap T = {}
  PROVE  IsFiniteSet(S \cup T) /\ Cardinality(S \cup T) = Cardinality(S) + Cardinality(T)
  <1>1. /\ IsFiniteSet(S \cup T)
        /\ Cardinality(S \cup T) = Cardinality(S) + Cardinality(T) - Cardinality(S \cap T)
    BY FS_Union
  <1>2. Cardinality(S \cap T) = 0
    BY FS_EmptySet
  <1>3. Cardinality(S) \in Nat /\ Cardinality(T) \in Nat
    BY FS_CardinalityType
  <1>4. QED
    BY <1>1, <1>2, <1>3

(* When every call has returned and the file is closed, the settled entries *)
(* are the queued calls, so the four outcomes partition the calls: nothing  *)
(* is lost without being counted, failed in the open, or met by Close.      *)
THEOREM LossAccountingHolds == Spec => []LossAccounting
  <1> DEFINE Counts == PhaseCount /\ SettleCount
  <1>1. Init => Counts
    <2> SUFFICES ASSUME Init PROVE Counts
      OBVIOUS
    <2>1. Calls("dropped") = {} /\ Calls("queued") = {}
      BY DEF Init, Calls
    <2>2. Settled = 0 /\ Len(file) = 0 /\ failed = {} /\ dropped = 0 /\ Len(enq) = 0
      BY DEF Init, Settled, Taken
    <2>3. QED
      BY <2>1, <2>2, FS_EmptySet DEF PhaseCount, SettleCount
  <1>2. IInv /\ Counts /\ [Next]_vars => Counts'
    BY NextPhaseCount, NextSettleCount DEF IInv
  <1>3. IInv /\ Counts => LossAccounting
    <2> SUFFICES ASSUME IInv, Counts, ~fileOpen, \A e \in Entries : phase[e] \in Returned
                 PROVE  Cardinality(Entries) =
                          Len(file) + dropped + Cardinality(failed)
                            + Cardinality({e \in Entries : phase[e] \in {"panicked", "ignored"}})
      BY DEF LossAccounting
    <2> DEFINE Q == Calls("queued")
               D == Calls("dropped")
               M == {e \in Entries : phase[e] \in {"panicked", "ignored"}}
    <2>1. /\ Entries = (Q \cup D) \cup M
          /\ Q \cap D = {} /\ (Q \cup D) \cap M = {}
      BY DEF Calls, Returned
    <2>2. IsFiniteSet(Q) /\ IsFiniteSet(D) /\ IsFiniteSet(M)
      BY AuditLoggerAssumption, FS_Subset DEF Calls
    <2>3. Settled = Len(enq)
      BY DEF IInv, TypeInv, TypeOK, ControlInv, Settled, Taken
    <2>4. Cardinality(Q) = Len(file) + Cardinality(failed) /\ Cardinality(D) = dropped
      BY <2>3 DEF PhaseCount, SettleCount
    <2> HIDE DEF Q, D, M
    <2>5. IsFiniteSet(Q \cup D) /\ Cardinality(Q \cup D) = Cardinality(Q) + Cardinality(D)
      BY <2>1, <2>2, DisjointUnion
    <2>6. Cardinality(Entries) = Cardinality(Q \cup D) + Cardinality(M)
      BY <2>1, <2>2, <2>5, DisjointUnion
    <2>7. /\ Cardinality(M) \in Nat /\ Cardinality(failed) \in Nat
          /\ Len(file) \in Nat /\ dropped \in Nat
      BY <2>2, AuditLoggerAssumption, FS_Subset, FS_CardinalityType DEF IInv, TypeInv, TypeOK
    <2>8. QED
      BY <2>4, <2>5, <2>6, <2>7 DEF M
  <1> HIDE DEF Counts
  <1>4. QED
    BY <1>1, <1>2, <1>3, Inductive, PTL DEF Spec
===============================================================================
