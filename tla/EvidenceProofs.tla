---------------------------- MODULE EvidenceProofs ----------------------------
(***************************************************************************)
(* The evidence a verifier leaves behind, for any number of requests,      *)
(* sources, keys, deployments and outside changes: what it writes          *)
(* verifies, what a reader endorses it wrote, what its audit file pins is  *)
(* on disk, and what it exports under its key stands only as exported.     *)
(***************************************************************************)
EXTENDS EvidenceExport, FiniteSetTheorems, TLAPS

-------------------------------------------------------------------------------
(* Records and envelopes *)

(* The three kinds of records, and what each carries. *)
LEMMA RecordKinds ==
  ASSUME NEW rec \in Records
  PROVE  /\ rec.ver \in Kinds
         /\ rec.ver = "decision" => rec.digest \in Inputs /\ rec = RecordWith(rec.digest)
         /\ rec.ver = "decision" => Reproduces(rec)
         /\ rec.ver # "decision" => rec.says # ""
  <1>1. CASE rec \in {RecordWith(i) : i \in Inputs}
    <2>1. PICK i \in Inputs : rec = RecordWith(i)
      BY <1>1
    <2>2. rec.ver = "decision" /\ rec.digest = i /\ rec.about = i /\ rec.says = Evaluate(i)
      BY <2>1 DEF RecordWith, Predicate
    <2>3. QED
      BY <2>1, <2>2 DEF Kinds, Reproduces
  <1>2. CASE rec \in {NewAdmissionRecord(r) : r \in Requests}
    <2>1. PICK r \in Requests : rec = NewAdmissionRecord(r)
      BY <1>2
    <2>2. rec.ver = "admission" /\ rec.says = "refused"
      BY <2>1 DEF NewAdmissionRecord, Predicate
    <2>3. QED
      BY <2>2 DEF Kinds
  <1>3. CASE rec \in UNION {{NewOutcomeRecord(r, link) : link \in Inputs \cup {None}} : r \in Requests}
    <2>1. PICK r \in Requests, link \in Inputs \cup {None} : rec = NewOutcomeRecord(r, link)
      BY <1>3
    <2>2. rec.ver = "outcome" /\ rec.says = "observed"
      BY <2>1 DEF NewOutcomeRecord, Predicate
    <2>3. QED
      BY <2>2 DEF Kinds
  <1>4. QED
    BY <1>1, <1>2, <1>3 DEF Records

(* What a sealed record's statement is about: its own binding, and the tags *)
(* of the deployment.                                                       *)
Binding(rec) == IF rec.ver = "decision" THEN {<<"input", rec.digest>>} ELSE {}

(* Tagging keeps the binding, since no tag is named "input". *)
LEMMA TagsKeepBinding ==
  ASSUME NEW c, NEW rec
  PROVE  {s \in Binding(rec) : \A t \in Tags(c) : t[1] # s[1]} = Binding(rec)
  <1>1. \A t \in Tags(c) : t[1] \in {"evidence-profile", "evidence-recorder"}
    BY DEF Tags
  <1>2. \A s \in Binding(rec) : s[1] = "input"
    BY DEF Binding
  <1>3. QED
    BY <1>1, <1>2

(* Replacing the subjects, the signatures or the payload of an envelope. *)
LEMMA EnvelopeUpdates ==
  ASSUME NEW t, NEW ty, NEW su, NEW pr, NEW si, NEW x
  PROVE  /\ [[payloadType |-> t, sigs |-> si, payload |-> Statement(ty, su, pr)]
               EXCEPT !.payload.subjects = x]
            = [payloadType |-> t, sigs |-> si, payload |-> Statement(ty, x, pr)]
         /\ [[payloadType |-> t, sigs |-> si, payload |-> pr] EXCEPT !.sigs = x]
            = [payloadType |-> t, sigs |-> x, payload |-> pr]
         /\ [[payloadType |-> t, sigs |-> si, payload |-> pr] EXCEPT !.payload = x]
            = [payloadType |-> t, sigs |-> si, payload |-> x]
  BY DEF Statement

(* The envelope every emission point hands to the sink. *)
LEMMA SealForm ==
  ASSUME NEW rec, NEW c
  PROVE  LET st == Statement(rec.ver, Binding(rec) \cup Tags(c), rec)
             k == SigningKey(c)
         IN Seal(rec, c) = [payloadType |-> InToto, payload |-> st,
                            sigs |-> IF k = None THEN {} ELSE {Sign(k, PAE(InToto, st))}]
  <1> DEFINE st == Statement(rec.ver, Binding(rec) \cup Tags(c), rec)
             k == SigningKey(c)
             env == [payloadType |-> InToto, sigs |-> {}, payload |-> st]
  <1>1. NewEnvelope(rec) = [payloadType |-> InToto, sigs |-> {},
                            payload |-> Statement(rec.ver, Binding(rec), rec)]
    BY DEF NewEnvelope, Binding
  <1>2. TagEnvelope(NewEnvelope(rec), c) = env
    <2> DEFINE raw == [payloadType |-> InToto, sigs |-> {},
                       payload |-> Statement(rec.ver, Binding(rec), rec)]
    <2>1. raw.payload.subjects = Binding(rec)
      BY DEF Statement
    <2>2. TagEnvelope(raw, c) =
            [raw EXCEPT !.payload.subjects =
               {s \in raw.payload.subjects : \A t \in Tags(c) : t[1] # s[1]} \cup Tags(c)]
      BY Zenon DEF TagEnvelope
    <2>3. {s \in raw.payload.subjects : \A t \in Tags(c) : t[1] # s[1]} = Binding(rec)
      BY <2>1, TagsKeepBinding
    <2>4. TagEnvelope(raw, c) = [raw EXCEPT !.payload.subjects = Binding(rec) \cup Tags(c)]
      BY <2>2, <2>3, Zenon
    <2>5. PICK x : x = Binding(rec) \cup Tags(c)
      OBVIOUS
    <2>6. [raw EXCEPT !.payload.subjects = x]
            = [payloadType |-> InToto, sigs |-> {}, payload |-> Statement(rec.ver, x, rec)]
      BY DEF Statement
    <2>7. TagEnvelope(raw, c) = env
      BY <2>4, <2>5, <2>6, Zenon
    <2>8. QED
      BY <1>1, <2>7, Zenon
  <1>3. Seal(rec, c) = SignEnvelope(env, c)
    BY <1>2 DEF Seal
  <1>4. env.payloadType = InToto /\ env.payload = st /\ env.sigs = {}
    OBVIOUS
  <1>5. CASE k = None
    BY <1>3, <1>5 DEF SignEnvelope
  <1>6. CASE k # None
    <2>1. SignEnvelope(env, c)
            = [env EXCEPT !.sigs = env.sigs \cup {Sign(k, PAE(env.payloadType, env.payload))}]
      BY <1>6, Zenon DEF SignEnvelope
    <2>2. env.sigs \cup {Sign(k, PAE(env.payloadType, env.payload))} = {Sign(k, PAE(InToto, st))}
      BY <1>4
    <2>3. SignEnvelope(env, c) = [env EXCEPT !.sigs = {Sign(k, PAE(InToto, st))}]
      BY <2>1, <2>2, Zenon
    <2>4. [env EXCEPT !.sigs = {Sign(k, PAE(InToto, st))}]
            = [payloadType |-> InToto, sigs |-> {Sign(k, PAE(InToto, st))}, payload |-> st]
      BY EnvelopeUpdates
    <2>5. QED
      BY <1>3, <1>6, <2>3, <2>4
  <1>7. QED
    BY <1>5, <1>6

(* A sealed record passes the reader's check as what it is, and names the   *)
(* declared profile.                                                        *)
LEMMA SealVerifies ==
  ASSUME NEW c \in Deployments, NEW rec \in Records
  PROVE  /\ VerifyEvidenceEnvelope(Seal(rec, c), SigningKey(c)) = rec.ver
         /\ c.profile # None =>
              SubjectDigests(Seal(rec, c), "evidence-profile") = {ProfileNamed(c.profile)}
  <1> DEFINE st == Statement(rec.ver, Binding(rec) \cup Tags(c), rec)
             k == SigningKey(c)
             env == Seal(rec, c)
  <1>1. /\ env.payloadType = InToto /\ env.payload = st
        /\ k # None => Sign(k, PAE(InToto, st)) \in env.sigs
    BY SealForm
  <1>2. st.ptype = rec.ver /\ st.pred = rec /\ st.subjects = Binding(rec) \cup Tags(c)
    BY DEF Statement
  <1> HIDE DEF st, k, env
  <1>3. CheckEvidenceEnvelope(env) = rec.ver
    <2>1. CASE rec.ver = "decision"
      BY <1>1, <1>2, <2>1, RecordKinds DEF CheckEvidenceEnvelope, Binding
    <2>2. CASE rec.ver # "decision"
      BY <1>1, <1>2, <2>2, RecordKinds DEF CheckEvidenceEnvelope, Kinds
    <2>3. QED
      BY <2>1, <2>2
  <1>4. k # None => \E s \in env.sigs : VerifyFn(k, PAE(env.payloadType, env.payload), s)
    BY <1>1 DEF VerifyFn, Sign
  <1>5. VerifyEvidenceEnvelope(env, k) = rec.ver
    BY <1>3, <1>4 DEF VerifyEvidenceEnvelope
  <1>6. ASSUME c.profile # None
        PROVE  SubjectDigests(env, "evidence-profile") = {ProfileNamed(c.profile)}
    <2>1. \A s \in Binding(rec) : s[1] = "input"
      BY DEF Binding
    <2>2. \A s \in Tags(c) :
            s[1] = "evidence-profile" => s = <<"evidence-profile", ProfileNamed(c.profile)>>
      BY <1>6 DEF Tags
    <2>3. <<"evidence-profile", ProfileNamed(c.profile)>> \in Tags(c)
      BY <1>6 DEF Tags
    <2>4. {t \in st.subjects : t[1] = "evidence-profile"}
            = {<<"evidence-profile", ProfileNamed(c.profile)>>}
      BY <1>2, <2>1, <2>2, <2>3
    <2>5. SubjectDigests(env, "evidence-profile")
            = {s[2] : s \in {<<"evidence-profile", ProfileNamed(c.profile)>>}}
      BY <1>1, <2>4, Zenon DEF SubjectDigests
    <2>6. QED
      BY <2>5
  <1>7. QED
    BY <1>5, <1>6 DEF env, k
-------------------------------------------------------------------------------
(* The inductive invariant *)

Stages == {"start", "emit", "emitted", "admission", "outcome", "done"}
Line == [op : Requests \cup {None}, digest : Inputs \cup {None}, denied : BOOLEAN]

(* The types of the variables the arguments below speak of. *)
TypeOK ==
  /\ conf \in Deployments
  /\ mu \in Requests \cup {NoOne}
  /\ pc \in [Requests -> Stages]
  /\ record \in [Requests -> Records \cup {None}]
  /\ refs \in [Requests -> Seq(Inputs)]
  /\ queued \in Seq(Line)
  /\ auditFile \in Seq(Line)

(* Where the emission of r stands: the references are those of the inputs   *)
(* before the one being emitted, and the mutex is held only to write.       *)
Emission(r) ==
  /\ pc[r] = "start" => refs[r] = <<>>
  /\ pc[r] \in {"start", "emitted", "done"} => record[r] = None
  /\ Len(refs[r]) <= Len(conf.load[r])
  /\ \A k \in 1 .. Len(refs[r]) : refs[r][k] = conf.load[r][k]
  /\ pc[r] = "emit" =>
       /\ Len(refs[r]) < Len(conf.load[r])
       /\ record[r] = RecordWith(conf.load[r][Len(refs[r]) + 1])
  /\ pc[r] # "emit" /\ record[r] # None => record[r].ver # "decision"
  /\ mu = r => record[r] # None /\ Seal(record[r], conf).payload \in written

EmissionInv == \A r \in Requests : Emission(r)

(* An audit line pins a record its own request has a reference to. *)
Pins(line, known) ==
  line.digest # None =>
    line.op \in Requests /\ \E k \in 1 .. Len(known[line.op]) : known[line.op][k] = line.digest

PinInv ==
  /\ \A i \in DOMAIN queued : Pins(queued[i], refs)
  /\ \A i \in DOMAIN auditFile : Pins(auditFile[i], refs)

(* The file of a decision record, unless someone outside changed it. *)
Kept(d, files, changed, c) ==
  <<"decision", d>> \notin changed =>
    <<"decision", d>> \in DOMAIN files /\ files[<<"decision", d>>] = Seal(RecordWith(d), c)

(* Every referenced record is in its file. *)
KeptInv ==
  SourcesDiffer => \A r \in Requests : \A k \in 1 .. Len(refs[r]) : Kept(refs[r][k], dir, touched, conf)

(* A file nobody touched is torn or holds the record it is named after. *)
OwnFile(n, env, c) ==
  env = Torn \/ \E rec \in Records : n = FileName(rec) /\ env = Seal(rec, c)

(* Whatever a file holds, the deployment's key signed only what was sealed. *)
Endorsed(env, c, sealed) ==
  /\ env = [payloadType |-> env.payloadType, sigs |-> env.sigs, payload |-> env.payload]
  /\ \A s \in env.sigs :
       s.key = SigningKey(c) => \E p \in sealed : s.msg = PAE(InToto, p)

FileInv ==
  /\ \A n \in DOMAIN dir \ touched : OwnFile(n, dir[n], conf)
  /\ \A n \in DOMAIN dir : dir[n] # Torn => Endorsed(dir[n], conf, written)

(* What the reader has verified so far was sealed here. *)
ScanForm ==
  scan = [phase |-> scan.phase, snapshot |-> scan.snapshot, at |-> scan.at, todo |-> scan.todo,
          counted |-> scan.counted, outcomes |-> scan.outcomes, failures |-> scan.failures]
ScanInv ==
  /\ ScanForm
  /\ SigningKey(conf) # None =>
       /\ \A e \in scan.counted : e.payload \in written
       /\ \A o \in scan.outcomes : o[2].payload \in written

(* The bundle carries no signature before it is assembled, and then the one *)
(* over its own content.                                                    *)
BundleForm(b) ==
  b = [lines |-> b.lines, outcome |-> b.outcome, decision |-> b.decision, digest |-> b.digest,
       record |-> b.record, root |-> b.root, sigs |-> b.sigs]
BundleInv ==
  /\ BundleForm(bundle)
  /\ phase \in {"idle", "resolve"} => bundle.sigs = {}
  /\ phase = "done" /\ SigningKey(conf) # None =>
       bundle.sigs = {Sign(SigningKey(conf), PAE(BundlePayloadType, SigningBytes(bundle)))}

IInv == TypeOK /\ EmissionInv /\ PinInv /\ KeptInv /\ FileInv /\ ScanInv /\ BundleInv
-------------------------------------------------------------------------------
(* The requests *)

(* What the assumption on the deployments says of the one in force. *)
LEMMA ConfFacts ==
  ASSUME TypeOK
  PROVE  /\ conf.load \in [Requests -> Seq(Inputs)]
         /\ \A r, q \in Requests : r # q => Range(conf.load[r]) \cap Range(conf.load[q]) = {}
  BY DeploymentsAssumption DEF TypeOK, Deployment

(* A record of each kind is one of Records. *)
LEMMA RecordsMade ==
  /\ \A i \in Inputs : RecordWith(i) \in Records /\ RecordWith(i).digest = i
  /\ \A r \in Requests : NewAdmissionRecord(r) \in Records /\ NewAdmissionRecord(r).ver = "admission"
  /\ \A r \in Requests : \A l \in Inputs \cup {None} :
       NewOutcomeRecord(r, l) \in Records /\ NewOutcomeRecord(r, l).ver = "outcome"
  <1>1. \A i \in Inputs : RecordWith(i) \in Records
    BY DEF Records
  <1>2. \A i \in Inputs : RecordWith(i).digest = i
    BY DEF RecordWith, Predicate
  <1>3. \A r \in Requests : NewAdmissionRecord(r) \in Records
    BY DEF Records
  <1>4. \A r \in Requests : NewAdmissionRecord(r).ver = "admission"
    BY DEF NewAdmissionRecord, Predicate
  <1>5. \A r \in Requests : \A l \in Inputs \cup {None} : NewOutcomeRecord(r, l) \in Records
    BY DEF Records
  <1>6. \A r \in Requests : \A l \in Inputs \cup {None} : NewOutcomeRecord(r, l).ver = "outcome"
    BY DEF NewOutcomeRecord, Predicate
  <1>7. QED
    BY <1>1, <1>2, <1>3, <1>4, <1>5, <1>6

(* A request moves to another stage. *)
LEMMA GotoFacts ==
  ASSUME TypeOK, NEW r \in Requests, NEW stage \in Stages, NEW rec \in Records \cup {None},
         Goto(r, stage, rec)
  PROVE  /\ pc' \in [Requests -> Stages] /\ record' \in [Requests -> Records \cup {None}]
         /\ pc'[r] = stage /\ record'[r] = rec
         /\ \A q \in Requests \ {r} : pc'[q] = pc[q] /\ record'[q] = record[q]
  BY DEF TypeOK, Goto

(* A request that is not concerned by a step. *)
LEMMA EmissionFrame ==
  ASSUME NEW q \in Requests, Emission(q), conf' = conf, refs'[q] = refs[q], pc'[q] = pc[q],
         record'[q] = record[q], mu' = q => mu = q, written \subseteq written'
  PROVE  Emission(q)'
  BY DEF Emission

(* A request past the emission of its decision records. *)
LEMMA EmissionOver ==
  ASSUME NEW r \in Requests, Emission(r), conf' = conf, refs'[r] = refs[r],
         pc'[r] \notin {"start", "emit"}, mu' # r,
         pc'[r] \in {"emitted", "done"} => record'[r] = None,
         record'[r] # None => record'[r].ver # "decision"
  PROVE  Emission(r)'
  BY DEF Emission

(* What follows a record: the next input, or the end of the emission.  The  *)
(* references grow by that of the record just written, if it was.           *)
LEMMA AfterRecordFacts ==
  ASSUME TypeOK, EmissionInv, NEW r \in Requests, NEW ok \in BOOLEAN, AfterRecord(r, ok),
         record[r] # None, conf' = conf, mu' = NoOne, written' = written
  PROVE  /\ pc' \in [Requests -> Stages] /\ record' \in [Requests -> Records \cup {None}]
         /\ refs' \in [Requests -> Seq(Inputs)]
         /\ EmissionInv'
         /\ \A q \in Requests \ {r} : refs'[q] = refs[q]
         /\ \/ refs'[r] = refs[r]
            \/ ok = TRUE /\ pc[r] = "emit" /\ refs'[r] = Append(refs[r], record[r].digest)
  <1> DEFINE load == conf.load[r]
             emitted == Len(refs[r]) + 1
  <1>1. /\ load \in Seq(Inputs) /\ refs[r] \in Seq(Inputs) /\ Emission(r)
        /\ record[r] \in Records /\ "emit" \in Stages /\ "emitted" \in Stages /\ "done" \in Stages
    BY ConfFacts DEF TypeOK, EmissionInv, Stages
  <1>2. NoOne \notin Requests
    BY MarkersAssumption
  <1>3. ASSUME NEW q \in Requests \ {r}, pc'[q] = pc[q], record'[q] = record[q], refs'[q] = refs[q]
        PROVE  Emission(q)'
    BY <1>2, <1>3, EmissionFrame DEF EmissionInv
  <1>4. CASE pc[r] # "emit"
    <2>1. Goto(r, "done", None) /\ refs' = refs
      BY <1>4 DEF AfterRecord
    <2>2. /\ pc' \in [Requests -> Stages] /\ record' \in [Requests -> Records \cup {None}]
          /\ pc'[r] = "done" /\ record'[r] = None
          /\ \A q \in Requests \ {r} : pc'[q] = pc[q] /\ record'[q] = record[q]
      BY <1>1, <2>1, GotoFacts
    <2>3. Emission(r)'
      BY <1>1, <1>2, <2>1, <2>2, EmissionOver
    <2>4. QED
      BY <1>3, <2>1, <2>2, <2>3 DEF EmissionInv, TypeOK
  <1>5. CASE pc[r] = "emit"
    <2>1. /\ refs' = IF ok THEN [refs EXCEPT ![r] = Append(refs[r], record[r].digest)] ELSE refs
          /\ IF ok /\ emitted < Len(load)
               THEN Goto(r, "emit", RecordWith(load[emitted + 1]))
               ELSE Goto(r, "emitted", None)
      BY <1>5 DEF AfterRecord
    <2>2. /\ Len(refs[r]) < Len(load) /\ load[emitted] \in Inputs
          /\ record[r] = RecordWith(load[emitted]) /\ record[r].digest = load[emitted]
          /\ \A k \in 1 .. Len(refs[r]) : refs[r][k] = load[k]
      BY <1>1, <1>5, RecordsMade DEF Emission
    <2>3. CASE ok /\ emitted < Len(load)
      <3>1. load[emitted + 1] \in Inputs
        BY <1>1, <2>3
      <3>2. /\ pc' \in [Requests -> Stages] /\ record' \in [Requests -> Records \cup {None}]
            /\ pc'[r] = "emit" /\ record'[r] = RecordWith(load[emitted + 1])
            /\ \A q \in Requests \ {r} : pc'[q] = pc[q] /\ record'[q] = record[q]
        BY <1>1, <2>1, <2>3, <3>1, RecordsMade, GotoFacts
      <3>3. refs' = [refs EXCEPT ![r] = Append(refs[r], load[emitted])]
        BY <2>1, <2>2, <2>3
      <3>4. refs' \in [Requests -> Seq(Inputs)] /\ refs'[r] = Append(refs[r], load[emitted])
        BY <1>1, <2>2, <3>3 DEF TypeOK
      <3>5. \A q \in Requests \ {r} : refs'[q] = refs[q]
        BY <3>3 DEF TypeOK
      <3>6. Len(refs'[r]) = emitted /\ \A k \in 1 .. emitted : refs'[r][k] = load[k]
        BY <1>1, <2>2, <3>4
      <3>7. Emission(r)'
        BY <1>1, <1>2, <2>3, <3>2, <3>6 DEF Emission
      <3>8. QED
        BY <1>3, <1>5, <2>2, <2>3, <3>2, <3>4, <3>5, <3>7 DEF EmissionInv
    <2>4. CASE ok /\ ~(emitted < Len(load))
      <3>1. /\ pc' \in [Requests -> Stages] /\ record' \in [Requests -> Records \cup {None}]
            /\ pc'[r] = "emitted" /\ record'[r] = None
            /\ \A q \in Requests \ {r} : pc'[q] = pc[q] /\ record'[q] = record[q]
        BY <1>1, <2>1, <2>4, GotoFacts
      <3>2. refs' = [refs EXCEPT ![r] = Append(refs[r], load[emitted])]
        BY <2>1, <2>2, <2>4
      <3>3. refs' \in [Requests -> Seq(Inputs)] /\ refs'[r] = Append(refs[r], load[emitted])
        BY <1>1, <2>2, <3>2 DEF TypeOK
      <3>4. \A q \in Requests \ {r} : refs'[q] = refs[q]
        BY <3>2 DEF TypeOK
      <3>5. Len(refs'[r]) = emitted /\ \A k \in 1 .. emitted : refs'[r][k] = load[k]
        BY <1>1, <2>2, <3>3
      <3>6. Len(refs'[r]) <= Len(load)
        BY <1>1, <2>2, <3>5
      <3>7. Emission(r)'
        BY <1>2, <3>1, <3>5, <3>6 DEF Emission
      <3>8. QED
        BY <1>3, <1>5, <2>2, <2>4, <3>1, <3>3, <3>4, <3>7 DEF EmissionInv
    <2>5. CASE ~ok
      <3>1. Goto(r, "emitted", None) /\ refs' = refs
        BY <2>1, <2>5
      <3>2. /\ pc' \in [Requests -> Stages] /\ record' \in [Requests -> Records \cup {None}]
            /\ pc'[r] = "emitted" /\ record'[r] = None
            /\ \A q \in Requests \ {r} : pc'[q] = pc[q] /\ record'[q] = record[q]
        BY <1>1, <3>1, GotoFacts
      <3>3. Emission(r)'
        BY <1>1, <1>2, <3>1, <3>2, EmissionOver
      <3>4. QED
        BY <1>3, <3>1, <3>2, <3>3 DEF EmissionInv, TypeOK
    <2>6. QED
      BY <2>3, <2>4, <2>5
  <1>6. QED
    BY <1>4, <1>5
(* The references of every request only grow. *)
RefsGrow ==
  \A q \in Requests :
    /\ Len(refs[q]) <= Len(refs'[q])
    /\ \A k \in 1 .. Len(refs[q]) : refs'[q][k] = refs[q][k]

(* A line goes on pinning what it pinned. *)
LEMMA PinsStay ==
  ASSUME TypeOK, refs' \in [Requests -> Seq(Inputs)], RefsGrow, NEW line, Pins(line, refs)
  PROVE  Pins(line, refs')
  <1>1. \A q \in Requests : Len(refs[q]) \in Nat /\ Len(refs'[q]) \in Nat
    BY DEF TypeOK
  <1>2. QED
    BY <1>1 DEF Pins, RefsGrow

(* The lines already logged, and perhaps one more at the end of the queue. *)
LEMMA PinQueue ==
  ASSUME TypeOK, PinInv, refs' \in [Requests -> Seq(Inputs)], RefsGrow, auditFile' = auditFile,
         \/ queued' = queued
         \/ \E line \in Line : queued' = Append(queued, line) /\ Pins(line, refs)
  PROVE  PinInv' /\ queued' \in Seq(Line)
  <1>1. queued \in Seq(Line)
    BY DEF TypeOK
  <1>2. \A i \in DOMAIN auditFile : Pins(auditFile[i], refs')
    BY PinsStay DEF PinInv
  <1>3. \A i \in DOMAIN queued : Pins(queued[i], refs')
    BY PinsStay DEF PinInv
  <1>4. CASE queued' = queued
    BY <1>1, <1>2, <1>3, <1>4 DEF PinInv
  <1>5. CASE \E line \in Line : queued' = Append(queued, line) /\ Pins(line, refs)
    <2>1. PICK line \in Line : queued' = Append(queued, line) /\ Pins(line, refs)
      BY <1>5
    <2>2. Pins(line, refs')
      BY <2>1, PinsStay
    <2>3. \A i \in DOMAIN queued' : (i \in DOMAIN queued /\ queued'[i] = queued[i]) \/ queued'[i] = line
      BY <1>1, <2>1
    <2>4. queued' \in Seq(Line)
      BY <1>1, <2>1
    <2>5. \A i \in DOMAIN queued' : Pins(queued'[i], refs')
      BY <1>3, <2>2, <2>3
    <2>6. QED
      BY <1>2, <2>4, <2>5 DEF PinInv
  <1>6. QED
    BY <1>4, <1>5

(* Nothing is referenced anew. *)
LEMMA RefsSame ==
  ASSUME TypeOK, refs' = refs
  PROVE  RefsGrow /\ refs' \in [Requests -> Seq(Inputs)]
  <1>1. \A q \in Requests : Len(refs[q]) \in Nat
    BY DEF TypeOK
  <1>2. QED
    BY <1>1 DEF TypeOK, RefsGrow

(* A step of one request that writes no file: the others are left alone,   *)
(* the queue may grow by a line.                                            *)
LEMMA QuietRequest ==
  ASSUME TypeOK, EmissionInv, PinInv, NEW r \in Requests,
         UNCHANGED <<conf, mu, refs, auditFile, written>>,
         NEW stage \in Stages, NEW rec \in Records \cup {None}, Goto(r, stage, rec),
         Emission(r)',
         \/ queued' = queued
         \/ \E line \in Line : queued' = Append(queued, line) /\ Pins(line, refs)
  PROVE  TypeOK' /\ EmissionInv' /\ PinInv'
  <1>1. RefsGrow /\ refs' \in [Requests -> Seq(Inputs)]
    BY RefsSame
  <1>2. PinInv' /\ queued' \in Seq(Line)
    BY <1>1, PinQueue
  <1>3. /\ pc' \in [Requests -> Stages] /\ record' \in [Requests -> Records \cup {None}]
        /\ \A q \in Requests \ {r} : pc'[q] = pc[q] /\ record'[q] = record[q]
    BY GotoFacts
  <1>4. \A q \in Requests \ {r} : Emission(q)'
    BY <1>3, EmissionFrame DEF EmissionInv
  <1>5. TypeOK'
    BY <1>1, <1>2, <1>3 DEF TypeOK
  <1>6. EmissionInv'
    BY <1>4 DEF EmissionInv
  <1>7. QED
    BY <1>2, <1>5, <1>6

(* The start of a request: a refusal, or the first of its records. *)
LEMMA StartSteps ==
  ASSUME TypeOK, EmissionInv, PinInv, NEW r \in Requests, Start(r)
  PROVE  TypeOK' /\ EmissionInv' /\ PinInv'
  <1>1. UNCHANGED <<conf, mu, refs, auditFile, written>> /\ pc[r] = "start"
    BY DEF Start
  <1>2. conf.load[r] \in Seq(Inputs) /\ Emission(r)
    BY ConfFacts DEF EmissionInv
  <1>3. mu # r /\ refs[r] = <<>>
    BY <1>1, <1>2 DEF Emission
  <1>4. "admission" \in Stages /\ "emit" \in Stages /\ "emitted" \in Stages
    BY DEF Stages
  <1>5. CASE Goto(r, "admission", NewAdmissionRecord(r)) /\ UNCHANGED queued
    <2>1. NewAdmissionRecord(r) \in Records /\ NewAdmissionRecord(r).ver = "admission"
      BY RecordsMade
    <2>2. pc'[r] = "admission" /\ record'[r] = NewAdmissionRecord(r)
      BY <1>4, <1>5, <2>1, GotoFacts
    <2>3. Emission(r)'
      BY <1>1, <1>2, <1>3, <2>1, <2>2, EmissionOver
    <2>4. QED
      BY <1>1, <1>4, <1>5, <2>1, <2>3, QuietRequest
  <1>6. ASSUME NEW asked \in BOOLEAN,
               queued' = IF asked THEN Append(queued, AuditLine(None, None, TRUE)) ELSE queued,
               IF conf.load[r] = <<>> THEN Goto(r, "emitted", None)
               ELSE Goto(r, "emit", RecordWith(conf.load[r][1]))
        PROVE  TypeOK' /\ EmissionInv' /\ PinInv'
    <2>1. AuditLine(None, None, TRUE) \in Line
      BY DEF AuditLine, Line
    <2>2. Pins(AuditLine(None, None, TRUE), refs)
      BY DEF AuditLine, Pins
    <2>3. \/ queued' = queued
          \/ \E line \in Line : queued' = Append(queued, line) /\ Pins(line, refs)
      BY <1>6, <2>1, <2>2
    <2>4. CASE conf.load[r] = <<>>
      <3>1. Goto(r, "emitted", None)
        BY <1>6, <2>4
      <3>2. pc'[r] = "emitted" /\ record'[r] = None
        BY <1>4, <3>1, GotoFacts
      <3>3. Emission(r)'
        BY <1>1, <1>2, <1>3, <3>2, EmissionOver
      <3>4. QED
        BY <1>1, <1>4, <2>3, <3>1, <3>3, QuietRequest
    <2>5. CASE conf.load[r] # <<>>
      <3>1. Goto(r, "emit", RecordWith(conf.load[r][1]))
        BY <1>6, <2>5
      <3>2. conf.load[r][1] \in Inputs /\ Len(conf.load[r]) > 0
        BY <1>2, <2>5
      <3>3. RecordWith(conf.load[r][1]) \in Records
        BY <3>2, RecordsMade
      <3>4. pc'[r] = "emit" /\ record'[r] = RecordWith(conf.load[r][1])
        BY <1>4, <3>1, <3>3, GotoFacts
      <3>5. Emission(r)'
        BY <1>1, <1>3, <3>2, <3>4 DEF Emission
      <3>6. QED
        BY <1>1, <1>4, <2>3, <3>1, <3>3, <3>5, QuietRequest
    <2>6. QED
      BY <2>4, <2>5
  <1>7. QED
    BY <1>5, <1>6 DEF Start

(* The end of the emission: the audit line of a request that has a          *)
(* reference pins its first.                                                *)
LEMMA ConcludeSteps ==
  ASSUME TypeOK, EmissionInv, PinInv, NEW r \in Requests, Conclude(r)
  PROVE  TypeOK' /\ EmissionInv' /\ PinInv'
  <1>1. UNCHANGED <<conf, mu, refs, auditFile, written>> /\ pc[r] = "emitted"
    BY DEF Conclude
  <1>2. refs[r] \in Seq(Inputs) /\ Emission(r)
    BY DEF EmissionInv, TypeOK
  <1>3. mu # r
    BY <1>1, <1>2 DEF Emission
  <1>4. "admission" \in Stages /\ "outcome" \in Stages /\ "done" \in Stages
    BY DEF Stages
  <1>5. FirstRef(r) \in Inputs \cup {None}
    BY <1>2 DEF FirstRef
  <1>6. ASSUME NEW denied \in BOOLEAN, AuditAdmission(r, denied)
        PROVE  \/ queued' = queued
               \/ \E line \in Line : queued' = Append(queued, line) /\ Pins(line, refs)
    <2>1. CASE queued' = queued
      BY <2>1
    <2>2. CASE queued' # queued
      <3>1. refs[r] # <<>> /\ queued' = Append(queued, AuditLine(r, FirstRef(r), denied))
        BY <1>6, <2>2 DEF AuditAdmission
      <3>2. FirstRef(r) = refs[r][1] /\ 1 \in 1 .. Len(refs[r])
        BY <1>2, <3>1 DEF FirstRef
      <3>3. AuditLine(r, FirstRef(r), denied) \in Line
        BY <1>5 DEF AuditLine, Line
      <3>4. Pins(AuditLine(r, FirstRef(r), denied), refs)
        BY <3>2 DEF AuditLine, Pins
      <3>5. QED
        BY <3>1, <3>3, <3>4
    <2>3. QED
      BY <2>1, <2>2
  <1>7. ASSUME NEW stage \in {"admission", "outcome", "done"}, NEW rec \in Records \cup {None},
               Goto(r, stage, rec), stage = "done" => rec = None,
               rec # None => rec.ver # "decision",
               \/ queued' = queued
               \/ \E line \in Line : queued' = Append(queued, line) /\ Pins(line, refs)
        PROVE  TypeOK' /\ EmissionInv' /\ PinInv'
    <2>1. pc'[r] = stage /\ record'[r] = rec /\ stage \in Stages
      BY <1>4, <1>7, GotoFacts
    <2>2. Emission(r)'
      BY <1>1, <1>2, <1>3, <1>7, <2>1, EmissionOver
    <2>3. QED
      BY <1>1, <1>7, <2>1, <2>2, QuietRequest
  <1>8. ASSUME Refused(r),
               \/ queued' = queued
               \/ \E line \in Line : queued' = Append(queued, line) /\ Pins(line, refs)
        PROVE  TypeOK' /\ EmissionInv' /\ PinInv'
    <2>1. NewAdmissionRecord(r) \in Records /\ NewAdmissionRecord(r).ver = "admission"
      BY RecordsMade
    <2>2. CASE Goto(r, "admission", NewAdmissionRecord(r))
      BY <1>7, <1>8, <2>1, <2>2
    <2>3. CASE Goto(r, "done", None)
      BY <1>7, <1>8, <2>3
    <2>4. QED
      BY <1>8, <2>2, <2>3 DEF Refused
  <1>9. CASE AuditAdmission(r, TRUE) /\ Refused(r)
    BY <1>6, <1>8, <1>9
  <1>10. CASE Refused(r) /\ UNCHANGED queued
    BY <1>8, <1>10
  <1>11. CASE /\ AuditAdmission(r, FALSE)
              /\ IF EmitsOutcome(conf)
                   THEN Goto(r, "outcome", NewOutcomeRecord(r, FirstRef(r)))
                   ELSE Goto(r, "done", None)
    <2>1. \/ queued' = queued
          \/ \E line \in Line : queued' = Append(queued, line) /\ Pins(line, refs)
      BY <1>6, <1>11
    <2>2. /\ NewOutcomeRecord(r, FirstRef(r)) \in Records
          /\ NewOutcomeRecord(r, FirstRef(r)).ver = "outcome"
      BY <1>5, RecordsMade
    <2>3. CASE Goto(r, "outcome", NewOutcomeRecord(r, FirstRef(r)))
      BY <1>7, <2>1, <2>2, <2>3
    <2>4. CASE Goto(r, "done", None)
      BY <1>7, <2>1, <2>4
    <2>5. QED
      BY <1>11, <2>3, <2>4
  <1>12. QED
    BY <1>9, <1>10, <1>11 DEF Conclude
(* The creation of a file: the mutex is taken, the payload is sealed. *)
LEMMA OpenSteps ==
  ASSUME TypeOK, EmissionInv, PinInv, NEW r \in Requests, OpenFile(r)
  PROVE  TypeOK' /\ EmissionInv' /\ PinInv' /\ written \subseteq written'
  <1>1. /\ UNCHANGED <<conf, pc, record, refs, queued, auditFile>>
        /\ mu' = r /\ record[r] # None
        /\ written' = written \cup {Seal(record[r], conf).payload}
    BY DEF OpenFile
  <1>2. \A q \in Requests : Emission(q)'
    BY <1>1 DEF EmissionInv, Emission
  <1>3. QED
    BY <1>1, <1>2 DEF TypeOK, EmissionInv, PinInv

(* The end of a write, good or bad: the mutex is released. *)
LEMMA WriteSteps ==
  ASSUME TypeOK, EmissionInv, PinInv, NEW r \in Requests, FillFile(r) \/ EmitFails(r)
  PROVE  TypeOK' /\ EmissionInv' /\ PinInv'
  <1>1. PICK ok \in BOOLEAN : AfterRecord(r, ok)
    BY DEF FillFile, EmitFails
  <1>2. UNCHANGED <<conf, queued, auditFile, written>> /\ mu' = NoOne
    BY DEF FillFile, EmitFails
  <1>3. record[r] # None
    BY DEF FillFile, EmitFails, EmissionInv, Emission
  <1>4. /\ pc' \in [Requests -> Stages] /\ record' \in [Requests -> Records \cup {None}]
        /\ refs' \in [Requests -> Seq(Inputs)]
        /\ EmissionInv'
        /\ \A q \in Requests \ {r} : refs'[q] = refs[q]
        /\ \/ refs'[r] = refs[r]
           \/ refs'[r] = Append(refs[r], record[r].digest)
    BY <1>1, <1>2, <1>3, AfterRecordFacts
  <1>5. RefsGrow
    <2>1. \A q \in Requests : refs[q] \in Seq(Inputs) /\ refs'[q] \in Seq(Inputs)
      BY <1>4 DEF TypeOK
    <2>2. \A q \in Requests \ {r} :
            /\ Len(refs[q]) <= Len(refs'[q])
            /\ \A k \in 1 .. Len(refs[q]) : refs'[q][k] = refs[q][k]
      BY <1>4, <2>1
    <2>3. /\ Len(refs[r]) <= Len(refs'[r])
          /\ \A k \in 1 .. Len(refs[r]) : refs'[r][k] = refs[r][k]
      <3> DEFINE s == refs[r]
                 t == refs'[r]
                 d == record[r].digest
      <3>1. s \in Seq(Inputs) /\ (t = s \/ t = Append(s, d))
        BY <1>4, <2>1
      <3> HIDE DEF s, t, d
      <3>2. Len(s) <= Len(t) /\ \A k \in 1 .. Len(s) : t[k] = s[k]
        BY <3>1
      <3>3. QED
        BY <3>2 DEF s, t
    <2>4. QED
      BY <2>2, <2>3 DEF RefsGrow
  <1>6. PinInv'
    BY <1>2, <1>4, <1>5, PinQueue
  <1>7. TypeOK'
    BY <1>2, <1>4 DEF TypeOK
  <1>8. QED
    BY <1>4, <1>6, <1>7

(* The audit logger moves a line to the file. *)
LEMMA WriteAuditSteps ==
  ASSUME TypeOK, EmissionInv, PinInv, WriteAudit
  PROVE  TypeOK' /\ EmissionInv' /\ PinInv'
  <1>1. /\ UNCHANGED <<conf, mu, pc, record, refs, written>> /\ queued # <<>>
        /\ auditFile' = Append(auditFile, Head(queued)) /\ queued' = Tail(queued)
    BY DEF WriteAudit
  <1>2. queued \in Seq(Line) /\ auditFile \in Seq(Line)
    BY DEF TypeOK
  <1>3. Head(queued) = queued[1] /\ 1 \in DOMAIN queued /\ queued[1] \in Line
    BY <1>1, <1>2
  <1>4. auditFile' \in Seq(Line) /\ queued' \in Seq(Line)
    BY <1>1, <1>2, <1>3
  <1>5. /\ \A i \in DOMAIN queued' : i + 1 \in DOMAIN queued /\ queued'[i] = queued[i + 1]
        /\ \A i \in DOMAIN auditFile' :
             (i \in DOMAIN auditFile /\ auditFile'[i] = auditFile[i]) \/ auditFile'[i] = queued[1]
    BY <1>1, <1>2, <1>3
  <1>6. PinInv'
    BY <1>1, <1>3, <1>5 DEF PinInv
  <1>7. EmissionInv'
    BY <1>1 DEF EmissionInv, Emission
  <1>8. QED
    BY <1>1, <1>4, <1>6, <1>7 DEF TypeOK

(* A crash: nothing is being emitted any more, and the file stays. *)
LEMMA CrashSteps ==
  ASSUME TypeOK, EmissionInv, PinInv, Crash
  PROVE  TypeOK' /\ EmissionInv' /\ PinInv'
  <1>1. /\ UNCHANGED <<conf, refs, auditFile, written>>
        /\ pc' = [r \in Requests |-> IF pc[r] = "start" THEN "start" ELSE "done"]
        /\ record' = [r \in Requests |-> None] /\ mu' = NoOne /\ queued' = <<>>
    BY DEF Crash
  <1>2. NoOne \notin Requests
    BY MarkersAssumption
  <1>3. \A r \in Requests : Emission(r)'
    BY <1>1, <1>2 DEF EmissionInv, Emission
  <1>4. TypeOK'
    BY <1>1 DEF TypeOK, Stages
  <1>5. PinInv'
    BY <1>1 DEF PinInv
  <1>6. QED
    BY <1>3, <1>4, <1>5 DEF EmissionInv

-------------------------------------------------------------------------------
(* The directory *)

(* A new content under one name leaves the other files as they were. *)
LEMMA SetOthers ==
  ASSUME NEW f, NEW x, NEW v, NEW y, y # x
  PROVE  y \in DOMAIN f => y \in DOMAIN Set(f, x, v) /\ Set(f, x, v)[y] = f[y]
  BY DEF Set

(* The file being written is not one of those already referenced: the       *)
(* inputs of other requests differ by their nonce, the earlier ones of the  *)
(* same request because its sources do.                                     *)
LEMMA FreshName ==
  ASSUME TypeOK, EmissionInv, SourcesDiffer, NEW r \in Requests, record[r] # None,
         NEW q \in Requests, NEW k \in 1 .. Len(refs[q])
  PROVE  FileName(record[r]) # <<"decision", refs[q][k]>>
  <1> SUFFICES ASSUME FileName(record[r]) = <<"decision", refs[q][k]>> PROVE FALSE
    OBVIOUS
  <1>1. record[r] \in Records /\ Emission(r) /\ Emission(q)
    BY DEF TypeOK, EmissionInv
  <1>2. record[r].ver = "decision" /\ record[r].digest = refs[q][k]
    BY DEF FileName
  <1>3. pc[r] = "emit"
    BY <1>1, <1>2 DEF Emission
  <1>4. /\ conf.load[r] \in Seq(Inputs) /\ conf.load[q] \in Seq(Inputs)
        /\ refs[r] \in Seq(Inputs) /\ refs[q] \in Seq(Inputs)
    BY ConfFacts DEF TypeOK
  <1> DEFINE m == Len(refs[r]) + 1
  <1>5. m \in DOMAIN conf.load[r] /\ record[r] = RecordWith(conf.load[r][m])
    BY <1>1, <1>3, <1>4 DEF Emission
  <1>6. conf.load[r][m] = refs[q][k]
    BY <1>2, <1>4, <1>5, RecordsMade
  <1>7. k \in DOMAIN conf.load[q] /\ conf.load[q][k] = refs[q][k]
    BY <1>1, <1>4 DEF Emission
  <1>8. CASE q # r
    BY <1>5, <1>6, <1>7, <1>8, ConfFacts DEF Range
  <1>9. CASE q = r
    <2>1. m = k
      BY <1>5, <1>6, <1>7, <1>9 DEF SourcesDiffer, IsInjective
    <2>2. QED
      BY <1>4, <1>9, <2>1
  <1>10. QED
    BY <1>8, <1>9

(* A file keeps what is referenced if it is not the one that changes, or    *)
(* the change is from outside.                                              *)
LEMMA KeptStays ==
  ASSUME NEW d, Kept(d, dir, touched, conf), conf' = conf, touched \subseteq touched',
         <<"decision", d>> \notin touched' =>
           /\ <<"decision", d>> \in DOMAIN dir => <<"decision", d>> \in DOMAIN dir'
           /\ <<"decision", d>> \in DOMAIN dir =>
                dir'[<<"decision", d>>] = dir[<<"decision", d>>]
  PROVE  Kept(d, dir', touched', conf')
  BY DEF Kept
(* Steps that change neither the directory nor a reference. *)
LEMMA KeptFrame ==
  ASSUME KeptInv, UNCHANGED <<conf, dir, touched, refs>>
  PROVE  KeptInv'
  BY DEF KeptInv, Kept, SourcesDiffer

(* Creating a file tears none that is referenced. *)
LEMMA OpenKept ==
  ASSUME TypeOK, EmissionInv, KeptInv, NEW r \in Requests, OpenFile(r)
  PROVE  KeptInv'
  <1>1. /\ UNCHANGED <<conf, refs, touched>> /\ record[r] # None
        /\ dir' = Set(dir, FileName(record[r]), Torn)
    BY DEF OpenFile
  <1> SUFFICES ASSUME SourcesDiffer', NEW q \in Requests, NEW k \in 1 .. Len(refs'[q])
               PROVE  Kept(refs'[q][k], dir', touched', conf')
    BY DEF KeptInv
  <1>2. SourcesDiffer
    BY <1>1 DEF SourcesDiffer
  <1> DEFINE d == refs[q][k]
  <1>3. Kept(d, dir, touched, conf)
    BY <1>1, <1>2 DEF KeptInv
  <1>4. FileName(record[r]) # <<"decision", d>>
    BY <1>1, <1>2, FreshName
  <1> HIDE DEF d
  <1>5. /\ <<"decision", d>> \in DOMAIN dir => <<"decision", d>> \in DOMAIN dir'
        /\ <<"decision", d>> \in DOMAIN dir => dir'[<<"decision", d>>] = dir[<<"decision", d>>]
    <2> DEFINE n == <<"decision", d>>
               m == FileName(record[r])
    <2>1. n # m /\ dir' = Set(dir, m, Torn)
      BY <1>1, <1>4
    <2> HIDE DEF n, m
    <2>2. n \in DOMAIN dir => n \in DOMAIN dir' /\ dir'[n] = dir[n]
      BY <2>1, SetOthers
    <2>3. QED
      BY <2>2 DEF n
  <1>6. Kept(d, dir', touched', conf')
    BY <1>1, <1>3, <1>5, KeptStays
  <1>7. QED
    BY <1>1, <1>6 DEF d

(* Filling a file completes the record whose reference is taken. *)
LEMMA FillKept ==
  ASSUME TypeOK, EmissionInv, KeptInv, NEW r \in Requests, FillFile(r)
  PROVE  KeptInv'
  <1>1. /\ UNCHANGED <<conf, touched, written>> /\ mu' = NoOne
        /\ dir' = Set(dir, FileName(record[r]), Seal(record[r], conf))
        /\ AfterRecord(r, TRUE)
    BY DEF FillFile
  <1>2. record[r] # None /\ record[r] \in Records /\ Emission(r)
    BY DEF FillFile, EmissionInv, Emission, TypeOK
  <1>3. /\ refs' \in [Requests -> Seq(Inputs)]
        /\ \A q \in Requests \ {r} : refs'[q] = refs[q]
        /\ \/ refs'[r] = refs[r]
           \/ pc[r] = "emit" /\ refs'[r] = Append(refs[r], record[r].digest)
    BY <1>1, <1>2, AfterRecordFacts
  <1> SUFFICES ASSUME SourcesDiffer', NEW q \in Requests, NEW k \in 1 .. Len(refs'[q])
               PROVE  Kept(refs'[q][k], dir', touched', conf')
    BY DEF KeptInv
  <1>4. SourcesDiffer
    BY <1>1 DEF SourcesDiffer
  <1> DEFINE d == refs'[q][k]
  <1>6. CASE k \in 1 .. Len(refs[q]) /\ refs'[q][k] = refs[q][k]
    <2>1. Kept(d, dir, touched, conf)
      BY <1>4, <1>6 DEF KeptInv
    <2>2. FileName(record[r]) # <<"decision", d>>
      BY <1>2, <1>4, <1>6, FreshName
    <2> HIDE DEF d
    <2>3. /\ <<"decision", d>> \in DOMAIN dir => <<"decision", d>> \in DOMAIN dir'
          /\ <<"decision", d>> \in DOMAIN dir => dir'[<<"decision", d>>] = dir[<<"decision", d>>]
      <3> DEFINE n == <<"decision", d>>
                 m == FileName(record[r])
                 env == Seal(record[r], conf)
      <3>1. n # m /\ dir' = Set(dir, m, env)
        BY <1>1, <2>2
      <3> HIDE DEF n, m, env
      <3>2. n \in DOMAIN dir => n \in DOMAIN dir' /\ dir'[n] = dir[n]
        BY <3>1, SetOthers
      <3>3. QED
        BY <3>2 DEF n
    <2>4. Kept(d, dir', touched', conf')
      BY <1>1, <2>1, <2>3, KeptStays
    <2>5. QED
      BY <2>4 DEF d
  <1>7. CASE q = r /\ pc[r] = "emit" /\ refs'[q][k] = record[r].digest
    <2>1. conf.load[r][Len(refs[r]) + 1] \in Inputs
          /\ record[r] = RecordWith(conf.load[r][Len(refs[r]) + 1])
      <3>1. conf.load[r] \in Seq(Inputs) /\ refs[r] \in Seq(Inputs)
        BY ConfFacts DEF TypeOK
      <3>2. QED
        BY <1>2, <1>7, <3>1 DEF Emission
    <2>2. record[r] = RecordWith(d) /\ d \in Inputs
      BY <1>7, <2>1, RecordsMade
    <2> HIDE DEF d
    <2>3. FileName(record[r]) = <<"decision", d>>
      BY <2>2 DEF FileName, RecordWith, Predicate
    <2>4. <<"decision", d>> \in DOMAIN dir' /\ dir'[<<"decision", d>>] = Seal(RecordWith(d), conf)
      <3> DEFINE n == <<"decision", d>>
                 env == Seal(RecordWith(d), conf)
      <3>1. dir' = Set(dir, n, env)
        BY <1>1, <2>2, <2>3, Zenon
      <3> HIDE DEF n, env
      <3>2. n \in DOMAIN dir' /\ dir'[n] = env
        BY <3>1 DEF Set
      <3>3. QED
        BY <3>2 DEF n, env
    <2>5. Kept(d, dir', touched', conf')
      BY <1>1, <2>4 DEF Kept
    <2>6. QED
      BY <2>5 DEF d
  <1>8. refs[q] \in Seq(Inputs) /\ refs'[q] \in Seq(Inputs)
    BY <1>3 DEF TypeOK
  <1>9. \/ k \in 1 .. Len(refs[q]) /\ refs'[q][k] = refs[q][k]
        \/ q = r /\ pc[r] = "emit" /\ refs'[q][k] = record[r].digest
    BY <1>3, <1>8
  <1>10. QED
    BY <1>6, <1>7, <1>9

(* Someone outside changes a file nobody answers for any more. *)
LEMMA OutsideKept ==
  ASSUME KeptInv, NEW n \in DOMAIN dir, AlterFile(n) \/ RemoveFile(n)
  PROVE  KeptInv'
  <1>1. UNCHANGED <<conf, refs>> /\ touched' = touched \cup {n}
    BY DEF AlterFile, RemoveFile, Outside, requestVars
  <1>2. \A m \in DOMAIN dir \ {n} : m \in DOMAIN dir' /\ dir'[m] = dir[m]
    <2>1. CASE AlterFile(n)
      <3>1. PICK e : dir' = [dir EXCEPT ![n] = e]
        BY <2>1, Zenon DEF AlterFile
      <3>2. QED
        BY <3>1
    <2>2. CASE RemoveFile(n)
      <3>1. dir' = Restrict(dir, DOMAIN dir \ {n})
        BY <2>2 DEF RemoveFile
      <3>2. QED
        BY <3>1 DEF Restrict
    <2>3. QED
      BY <2>1, <2>2
  <1> SUFFICES ASSUME SourcesDiffer', NEW q \in Requests, NEW k \in 1 .. Len(refs'[q])
               PROVE  Kept(refs'[q][k], dir', touched', conf')
    BY DEF KeptInv
  <1>3. SourcesDiffer
    BY <1>1 DEF SourcesDiffer
  <1> DEFINE d == refs[q][k]
  <1>4. Kept(d, dir, touched, conf)
    BY <1>1, <1>3 DEF KeptInv
  <1> HIDE DEF d
  <1>5. Kept(d, dir', touched', conf')
    BY <1>1, <1>2, <1>4, KeptStays
  <1>6. QED
    BY <1>1, <1>5 DEF d
(* A signature stays one over something sealed. *)
LEMMA EndorsedGrows ==
  ASSUME NEW env, NEW c, NEW before, NEW after, before \subseteq after, Endorsed(env, c, before)
  PROVE  Endorsed(env, c, after)
  BY DEF Endorsed

(* What the verifier signs, it sealed. *)
LEMMA SealEndorsed ==
  ASSUME NEW rec, NEW c, NEW sealed, Seal(rec, c).payload \in sealed
  PROVE  Endorsed(Seal(rec, c), c, sealed)
  <1> DEFINE st == Statement(rec.ver, Binding(rec) \cup Tags(c), rec)
             k == SigningKey(c)
             sg == IF k = None THEN {} ELSE {Sign(k, PAE(InToto, st))}
             env == Seal(rec, c)
  <1>1. env = [payloadType |-> InToto, payload |-> st, sigs |-> sg]
    BY SealForm
  <1>2. \A s \in sg : s.msg = PAE(InToto, st)
    BY DEF Sign
  <1> HIDE DEF st, k, sg, env
  <1>3. env.payloadType = InToto /\ env.payload = st /\ env.sigs = sg
    BY <1>1
  <1>4. st \in sealed
    BY <1>3 DEF env
  <1>5. env = [payloadType |-> env.payloadType, sigs |-> env.sigs, payload |-> env.payload]
    BY <1>1
  <1>6. QED
    BY <1>2, <1>3, <1>4, <1>5 DEF Endorsed, env

(* Nobody outside has the deployment's key: an edited file carries the old  *)
(* signatures or other people's.                                            *)
LEMMA EditEndorsed ==
  ASSUME NEW env, Endorsed(env, conf, written), NEW e \in Edits(env)
  PROVE  Endorsed(e, conf, written)
  <1>1. PICK p : e \in {[env EXCEPT !.payload = p],
                        [env EXCEPT !.payload = p,
                          !.sigs = {Sign(key, PAE(env.payloadType, p)) : key \in Others}]}
    BY DEF Edits
  <1> DEFINE t == env.payloadType
             si == env.sigs
             pl == env.payload
             theirs == {Sign(key, PAE(t, p)) : key \in Others}
  <1>2. env = [payloadType |-> t, sigs |-> si, payload |-> pl]
    BY DEF Endorsed
  <1>3. \A s \in theirs : s.key # SigningKey(conf)
    BY DEF Others, Sign
  <1>4. e \in {[env EXCEPT !.payload = p], [env EXCEPT !.payload = p, !.sigs = theirs]}
    BY <1>1, Zenon
  <1> HIDE DEF t, si, pl, theirs
  <1>5. CASE e = [env EXCEPT !.payload = p]
    <2>1. e = [payloadType |-> t, sigs |-> si, payload |-> p]
      BY <1>2, <1>5
    <2>2. e = [payloadType |-> e.payloadType, sigs |-> e.sigs, payload |-> e.payload]
      BY <2>1
    <2>3. e.sigs = env.sigs
      BY <2>1 DEF si
    <2>4. QED
      BY <2>2, <2>3 DEF Endorsed
  <1>6. CASE e = [env EXCEPT !.payload = p, !.sigs = theirs]
    <2>1. e = [payloadType |-> t, sigs |-> theirs, payload |-> p]
      BY <1>2, <1>6
    <2>2. e = [payloadType |-> e.payloadType, sigs |-> e.sigs, payload |-> e.payload]
      BY <2>1
    <2>3. e.sigs = theirs
      BY <2>1
    <2>4. QED
      BY <1>3, <2>2, <2>3 DEF Endorsed
  <1>7. QED
    BY <1>4, <1>5, <1>6

(* Steps that leave the directory alone. *)
LEMMA FileFrame ==
  ASSUME FileInv, UNCHANGED <<conf, dir, touched>>, written \subseteq written'
  PROVE  FileInv'
  BY EndorsedGrows DEF FileInv

(* One file gets a new content that is the verifier's own. *)
LEMMA FileSet ==
  ASSUME FileInv, UNCHANGED <<conf, touched>>, written \subseteq written', NEW n, NEW env,
         dir' = Set(dir, n, env), OwnFile(n, env, conf),
         env # Torn => Endorsed(env, conf, written')
  PROVE  FileInv'
  <1>1. DOMAIN dir' = DOMAIN dir \cup {n} /\ dir'[n] = env
    BY DEF Set
  <1>2. \A m \in DOMAIN dir' : m # n => m \in DOMAIN dir /\ dir'[m] = dir[m]
    BY DEF Set
  <1>3. \A m \in DOMAIN dir' \ touched' : OwnFile(m, dir'[m], conf')
    BY <1>1, <1>2 DEF FileInv
  <1>4. \A m \in DOMAIN dir' : dir'[m] # Torn => Endorsed(dir'[m], conf', written')
    BY <1>1, <1>2, EndorsedGrows DEF FileInv
  <1>5. QED
    BY <1>3, <1>4 DEF FileInv

(* The verifier's own writes. *)
LEMMA WriteFiles ==
  ASSUME TypeOK, EmissionInv, FileInv, NEW r \in Requests, OpenFile(r) \/ FillFile(r)
  PROVE  FileInv'
  <1>1. CASE OpenFile(r)
    <2>1. /\ UNCHANGED <<conf, touched>> /\ written \subseteq written'
          /\ dir' = Set(dir, FileName(record[r]), Torn)
      BY <1>1 DEF OpenFile
    <2>2. OwnFile(FileName(record[r]), Torn, conf)
      BY DEF OwnFile
    <2>3. QED
      BY <2>1, <2>2, FileSet
  <1>2. CASE FillFile(r)
    <2>1. /\ UNCHANGED <<conf, touched, written>> /\ mu = r
          /\ dir' = Set(dir, FileName(record[r]), Seal(record[r], conf))
      BY <1>2 DEF FillFile
    <2>2. record[r] \in Records /\ Seal(record[r], conf).payload \in written
      BY <2>1 DEF EmissionInv, Emission, TypeOK
    <2>3. OwnFile(FileName(record[r]), Seal(record[r], conf), conf)
      BY <2>2 DEF OwnFile
    <2>4. Endorsed(Seal(record[r], conf), conf, written')
      BY <2>1, <2>2, SealEndorsed
    <2>5. QED
      BY <2>1, <2>3, <2>4, FileSet
  <1>3. QED
    BY <1>1, <1>2

(* Changes from outside. *)
LEMMA OutsideFiles ==
  ASSUME FileInv, NEW n \in DOMAIN dir, AlterFile(n) \/ RemoveFile(n)
  PROVE  FileInv'
  <1>1. UNCHANGED <<conf, written>> /\ touched' = touched \cup {n} /\ dir[n] # Torn
    BY DEF AlterFile, RemoveFile, Outside, requestVars
  <1>2. CASE AlterFile(n)
    <2>1. PICK e \in Edits(dir[n]) : dir' = [dir EXCEPT ![n] = e]
      BY <1>2 DEF AlterFile
    <2>2. Endorsed(e, conf, written)
      BY <1>1, EditEndorsed DEF FileInv
    <2>3. DOMAIN dir' = DOMAIN dir /\ dir'[n] = e /\ \A m \in DOMAIN dir \ {n} : dir'[m] = dir[m]
      BY <2>1
    <2>4. \A m \in DOMAIN dir' \ touched' : OwnFile(m, dir'[m], conf')
      BY <1>1, <2>3 DEF FileInv
    <2>5. \A m \in DOMAIN dir' : dir'[m] # Torn => Endorsed(dir'[m], conf', written')
      BY <1>1, <2>2, <2>3 DEF FileInv
    <2>6. QED
      BY <2>4, <2>5 DEF FileInv
  <1>3. CASE RemoveFile(n)
    <2>1. dir' = Restrict(dir, DOMAIN dir \ {n})
      BY <1>3 DEF RemoveFile
    <2>2. DOMAIN dir' = DOMAIN dir \ {n} /\ \A m \in DOMAIN dir' : dir'[m] = dir[m]
      BY <2>1 DEF Restrict
    <2>3. QED
      BY <1>1, <2>2 DEF FileInv
  <1>4. QED
    BY <1>2, <1>3
-------------------------------------------------------------------------------
(* The reader *)

(* An envelope that passes the check with the deployment's key carries a    *)
(* payload this verifier sealed.                                            *)
LEMMA VerifiedIsSealed ==
  ASSUME NEW env, Endorsed(env, conf, written), SigningKey(conf) # None, Verified(env) # "error"
  PROVE  env.payload \in written
  <1>1. PICK s \in env.sigs : VerifyFn(SigningKey(conf), PAE(env.payloadType, env.payload), s)
    BY DEF Verified, VerifyEvidenceEnvelope
  <1>2. s.key = SigningKey(conf) /\ s.msg = PAE(env.payloadType, env.payload)
    BY <1>1 DEF VerifyFn
  <1>3. PICK p \in written : s.msg = PAE(InToto, p)
    BY <1>2 DEF Endorsed
  <1>4. env.payload = p
    BY <1>2, <1>3 DEF PAE
  <1>5. QED
    BY <1>4

(* Steps of anyone but the reader. *)
LEMMA ScanFrame ==
  ASSUME ScanInv, UNCHANGED <<conf, scan>>, written \subseteq written'
  PROVE  ScanInv'
  BY DEF ScanInv, ScanForm

(* A step of the reader that counts only what was sealed. *)
LEMMA ScanStep ==
  ASSUME UNCHANGED <<conf, written>>, NEW ph, NEW sn, NEW at, NEW to, NEW co, NEW ou, NEW fa,
         scan' = [phase |-> ph, snapshot |-> sn, at |-> at, todo |-> to,
                  counted |-> co, outcomes |-> ou, failures |-> fa],
         SigningKey(conf) # None =>
           (\A e \in co : e.payload \in written) /\ (\A o \in ou : o[2].payload \in written)
  PROVE  ScanInv'
  <1>1. scan'.counted = co /\ scan'.outcomes = ou /\ ScanForm'
    BY DEF ScanForm
  <1>2. QED
    BY <1>1 DEF ScanInv

(* Listing the directory. *)
LEMMA ListScan ==
  ASSUME ScanInv, ScanBegin \/ ScanList
  PROVE  ScanInv'
  <1>1. UNCHANGED <<conf, written>>
    BY DEF ScanBegin, ScanList, requestVars
  <1> DEFINE co == scan.counted
             ou == scan.outcomes
  <1>2. scan = [phase |-> scan.phase, snapshot |-> scan.snapshot, at |-> scan.at, todo |-> scan.todo,
                counted |-> co, outcomes |-> ou, failures |-> scan.failures]
    BY DEF ScanInv, ScanForm
  <1>3. SigningKey(conf) # None =>
          (\A e \in co : e.payload \in written) /\ (\A o \in ou : o[2].payload \in written)
    BY DEF ScanInv
  <1>4. CASE ScanBegin
    <2>1. scan' = [phase |-> "list", snapshot |-> dir, at |-> faults, todo |-> scan.todo,
                   counted |-> co, outcomes |-> ou, failures |-> scan.failures]
      BY <1>2, <1>4 DEF ScanBegin
    <2> HIDE DEF co, ou
    <2>2. QED
      BY <1>1, <1>3, <2>1, ScanStep
  <1>5. CASE ScanList
    <2>1. PICK t : scan' = [scan EXCEPT !.phase = "files", !.todo = t]
      BY <1>5, Zenon DEF ScanList
    <2>2. scan' = [phase |-> "files", snapshot |-> scan.snapshot, at |-> scan.at, todo |-> t,
                   counted |-> co, outcomes |-> ou, failures |-> scan.failures]
      BY <1>2, <2>1
    <2> HIDE DEF co, ou
    <2>3. QED
      BY <1>1, <1>3, <2>2, ScanStep
  <1>6. QED
    BY <1>4, <1>5

(* Reading a file. *)
LEMMA FileScan ==
  ASSUME ScanInv, FileInv, NEW n \in scan.todo, ScanFile(n)
  PROVE  ScanInv'
  <1>1. UNCHANGED <<conf, written>>
    BY DEF ScanFile, requestVars
  <1> DEFINE ok == n \in DOMAIN dir /\ dir[n] # Torn
             kind == IF ok THEN Verified(dir[n]) ELSE "error"
             to == scan.todo \ {n}
             fa == IF kind = "error" THEN scan.failures \cup {n} ELSE scan.failures
             ou == IF kind = "outcome" THEN scan.outcomes \cup {<<n, dir[n]>>} ELSE scan.outcomes
             co == IF kind \in {"decision", "admission"} THEN scan.counted \cup {dir[n]}
                   ELSE scan.counted
  <1>2. scan' = [scan EXCEPT !.todo = to, !.failures = fa, !.outcomes = ou, !.counted = co]
    BY Zenon DEF ScanFile
  <1>3. SigningKey(conf) # None /\ kind # "error" => dir[n].payload \in written
    BY VerifiedIsSealed DEF FileInv
  <1>4. SigningKey(conf) # None => \A e \in co : e.payload \in written
    <2>1. SigningKey(conf) # None => \A e \in scan.counted : e.payload \in written
      BY DEF ScanInv
    <2> HIDE DEF kind
    <2>2. CASE kind \in {"decision", "admission"}
      BY <1>3, <2>1, <2>2
    <2>3. CASE kind \notin {"decision", "admission"}
      BY <2>1, <2>3
    <2>4. QED
      BY <2>2, <2>3
  <1>5. SigningKey(conf) # None => \A o \in ou : o[2].payload \in written
    <2>1. SigningKey(conf) # None => \A o \in scan.outcomes : o[2].payload \in written
      BY DEF ScanInv
    <2>2. <<n, dir[n]>>[2] = dir[n]
      OBVIOUS
    <2> HIDE DEF kind
    <2>3. CASE kind = "outcome"
      BY <1>3, <2>1, <2>2, <2>3
    <2>4. CASE kind # "outcome"
      BY <2>1, <2>4
    <2>5. QED
      BY <2>3, <2>4
  <1> HIDE DEF to, fa, ou, co
  <1>6. scan' = [phase |-> scan.phase, snapshot |-> scan.snapshot, at |-> scan.at, todo |-> to,
                 counted |-> co, outcomes |-> ou, failures |-> fa]
    BY <1>2 DEF ScanInv, ScanForm
  <1>7. QED
    BY <1>1, <1>4, <1>5, <1>6, ScanStep

(* Linking the outcomes. *)
LEMMA LinkScan ==
  ASSUME ScanInv, ScanLink
  PROVE  ScanInv'
  <1>1. UNCHANGED <<conf, written>>
    BY DEF ScanLink, requestVars
  <1> DEFINE digests == Decisions(scan.counted)
             linked == {o \in scan.outcomes : Linked(o[2], digests)}
             co == scan.counted \cup {o[2] : o \in linked}
             fa == scan.failures \cup {o[1] : o \in scan.outcomes \ linked}
  <1>2. scan' = [scan EXCEPT !.phase = "done", !.counted = co, !.failures = fa]
    BY Zenon DEF ScanLink
  <1>3. SigningKey(conf) # None =>
          (\A e \in co : e.payload \in written)
            /\ (\A o \in scan.outcomes : o[2].payload \in written)
    BY DEF ScanInv
  <1> HIDE DEF co, fa
  <1>4. scan' = [phase |-> "done", snapshot |-> scan.snapshot, at |-> scan.at, todo |-> scan.todo,
                 counted |-> co, outcomes |-> scan.outcomes, failures |-> fa]
    BY <1>2 DEF ScanInv, ScanForm
  <1>5. QED
    BY <1>1, <1>3, <1>4, ScanStep

-------------------------------------------------------------------------------
(* The bundle *)

(* Signing a bundle without signatures puts the one over its content. *)
LEMMA SignedForm ==
  ASSUME NEW b, BundleForm(b), b.sigs = {}, NEW key
  PROVE  /\ BundleForm(SignBundle(b, key))
         /\ key # None =>
              SignBundle(b, key).sigs
                = {Sign(key, PAE(BundlePayloadType, SigningBytes(SignBundle(b, key))))}
  <1> DEFINE mark == {Sign(key, PAE(BundlePayloadType, SigningBytes(b)))}
             signed == [lines |-> b.lines, outcome |-> b.outcome, decision |-> b.decision,
                        digest |-> b.digest, record |-> b.record, root |-> b.root, sigs |-> mark]
  <1>1. CASE key = None
    BY <1>1 DEF SignBundle
  <1>2. CASE key # None
    <2>1. SignBundle(b, key) = [b EXCEPT !.sigs = b.sigs \cup mark]
      BY <1>2, Zenon DEF SignBundle
    <2>2. b.sigs \cup mark = mark
      OBVIOUS
    <2>3. SignBundle(b, key) = [b EXCEPT !.sigs = mark]
      BY <2>1, <2>2, Zenon
    <2> HIDE DEF mark
    <2>4. SignBundle(b, key) = signed
      BY <2>3 DEF BundleForm
    <2>5. BundleForm(signed)
      BY DEF BundleForm
    <2>6. SigningBytes(signed) = SigningBytes(b)
      BY DEF SigningBytes, BundleForm
    <2>7. signed.sigs = mark
      OBVIOUS
    <2>8. QED
      BY <2>4, <2>5, <2>6, <2>7 DEF mark
  <1>3. QED
    BY <1>1, <1>2
(* What the audit lines give is an unsigned bundle. *)
LEMMA FillForm ==
  ASSUME NEW lines
  PROVE  BundleForm(FillFromAudit(lines)) /\ FillFromAudit(lines).sigs = {}
  <1> DEFINE last == OutcomeOf(Last(lines))
             first == lines[1].digest
             root == RootHex(<<>>)
             empty == [lines |-> <<>>, outcome |-> "permit", decision |-> None, digest |-> None,
                       record |-> None, root |-> root, sigs |-> {}]
             full == [lines |-> lines, outcome |-> last, decision |-> last, digest |-> first,
                      record |-> None, root |-> root, sigs |-> {}]
  <1>1. NoBundle = empty
    BY Zenon DEF NoBundle
  <1> HIDE DEF root
  <1>2. CASE lines = <<>>
    BY <1>1, <1>2 DEF FillFromAudit, BundleForm
  <1>3. CASE lines # <<>>
    <2>1. FillFromAudit(lines) = [NoBundle EXCEPT !.lines = lines, !.outcome = last,
                                                  !.decision = last, !.digest = first]
      BY <1>3, Zenon DEF FillFromAudit
    <2> HIDE DEF last, first
    <2>2. FillFromAudit(lines) = full
      BY <1>1, <2>1
    <2>3. QED
      BY <2>2 DEF BundleForm
  <1>4. QED
    BY <1>2, <1>3

(* Changing one part of a bundle leaves its signatures. *)
LEMMA UpdateForm ==
  ASSUME NEW b, BundleForm(b), NEW x,
         NEW e, \/ e = [b EXCEPT !.lines = x] \/ e = [b EXCEPT !.record = x]
                \/ e = [b EXCEPT !.outcome = x] \/ e = [b EXCEPT !.decision = x]
                \/ e = [b EXCEPT !.digest = x] \/ e = [b EXCEPT !.root = x]
  PROVE  BundleForm(e) /\ e.sigs = b.sigs
  <1> DEFINE form(li, oc, de, di, re, ro) ==
        [lines |-> li, outcome |-> oc, decision |-> de, digest |-> di,
         record |-> re, root |-> ro, sigs |-> b.sigs]
  <1>1. CASE e = [b EXCEPT !.lines = x]
    <2>1. e = form(x, b.outcome, b.decision, b.digest, b.record, b.root)
      BY <1>1 DEF BundleForm
    <2>2. QED
      BY <2>1 DEF BundleForm
  <1>2. CASE e = [b EXCEPT !.record = x]
    <2>1. e = form(b.lines, b.outcome, b.decision, b.digest, x, b.root)
      BY <1>2 DEF BundleForm
    <2>2. QED
      BY <2>1 DEF BundleForm
  <1>3. CASE e = [b EXCEPT !.outcome = x]
    <2>1. e = form(b.lines, x, b.decision, b.digest, b.record, b.root)
      BY <1>3 DEF BundleForm
    <2>2. QED
      BY <2>1 DEF BundleForm
  <1>4. CASE e = [b EXCEPT !.decision = x]
    <2>1. e = form(b.lines, b.outcome, x, b.digest, b.record, b.root)
      BY <1>4 DEF BundleForm
    <2>2. QED
      BY <2>1 DEF BundleForm
  <1>5. CASE e = [b EXCEPT !.digest = x]
    <2>1. e = form(b.lines, b.outcome, b.decision, x, b.record, b.root)
      BY <1>5 DEF BundleForm
    <2>2. QED
      BY <2>1 DEF BundleForm
  <1>6. CASE e = [b EXCEPT !.root = x]
    <2>1. e = form(b.lines, b.outcome, b.decision, b.digest, b.record, x)
      BY <1>6 DEF BundleForm
    <2>2. QED
      BY <2>1 DEF BundleForm
  <1>7. QED
    BY <1>1, <1>2, <1>3, <1>4, <1>5, <1>6

(* A bundle that carries a record is still unsigned. *)
LEMMA ApplyForm ==
  ASSUME NEW b, BundleForm(b), b.sigs = {}, NEW rec
  PROVE  BundleForm(ApplyRecord(b, rec)) /\ ApplyRecord(b, rec).sigs = {}
  <1>1. PICK d : d = rec.digest
    OBVIOUS
  <1>2. PICK v : v = rec.says
    OBVIOUS
  <1>3. ApplyRecord(b, rec) = [b EXCEPT !.record = rec, !.digest = d, !.decision = v]
    BY <1>1, <1>2, Zenon DEF ApplyRecord
  <1>4. ApplyRecord(b, rec)
          = [lines |-> b.lines, outcome |-> b.outcome, decision |-> v, digest |-> d,
             record |-> rec, root |-> b.root, sigs |-> {}]
    BY <1>3 DEF BundleForm
  <1>5. QED
    BY <1>4 DEF BundleForm

(* Steps of anyone but the exporter. *)
LEMMA BundleFrame ==
  ASSUME BundleInv, conf' = conf, UNCHANGED exportVars
  PROVE  BundleInv'
  BY DEF BundleInv, exportVars, BundleForm, SigningBytes

(* The exporter reads the audit file. *)
LEMMA ReadBundle ==
  ASSUME ReadAudit
  PROVE  BundleInv'
  <1>1. PICK lines : bundle' = FillFromAudit(lines)
    BY Zenon DEF ReadAudit
  <1>2. phase' = "resolve"
    BY DEF ReadAudit
  <1>3. BundleForm(bundle') /\ bundle'.sigs = {}
    BY <1>1, FillForm
  <1>4. QED
    BY <1>2, <1>3 DEF BundleInv, BundleForm

(* The exporter completes and signs the bundle, or gives up. *)
LEMMA AssembleBundle ==
  ASSUME BundleInv, Assemble
  PROVE  BundleInv'
  <1> DEFINE found == IF query.handed # None THEN {RecordWith(query.handed)}
                      ELSE IF bundle.digest # None THEN Resolve(bundle.digest) ELSE {}
             lost == query.handed = None /\ bundle.digest # None /\ found = {}
             b == IF found = {} THEN bundle ELSE ApplyRecord(bundle, CHOOSE p \in found : TRUE)
             rooted == [b EXCEPT !.root = RootHex(b.lines)]
             key == SigningKey(conf)
  <1>1. /\ phase = "resolve" /\ conf' = conf
        /\ bundle' = IF lost THEN NoBundle ELSE SignBundle(rooted, key)
        /\ phase' = IF lost THEN "failed" ELSE "done"
    BY Zenon DEF Assemble, storeVars
  <1>2. BundleForm(bundle) /\ bundle.sigs = {}
    BY <1>1 DEF BundleInv
  <1>3. BundleForm(b) /\ b.sigs = {}
    <2>1. PICK p : p = CHOOSE x \in found : TRUE
      OBVIOUS
    <2>2. b = bundle \/ b = ApplyRecord(bundle, p)
      BY <2>1, Zenon
    <2> HIDE DEF b
    <2>3. QED
      BY <1>2, <2>2, ApplyForm
  <1>4. BundleForm(rooted) /\ rooted.sigs = {}
    <2>1. PICK x : x = RootHex(b.lines)
      OBVIOUS
    <2> HIDE DEF b
    <2>2. rooted = [b EXCEPT !.root = x]
      BY <2>1, Zenon
    <2> HIDE DEF rooted
    <2>3. QED
      BY <1>3, <2>2, UpdateForm
  <1> HIDE DEF rooted, b, found, key
  <1>5. CASE lost
    <2>1. bundle' = NoBundle /\ phase' = "failed"
      BY <1>1, <1>5
    <2>2. NoBundle = FillFromAudit(<<>>)
      BY DEF FillFromAudit
    <2>3. BundleForm(bundle')
      BY <2>1, <2>2, FillForm
    <2>4. QED
      BY <2>1, <2>3 DEF BundleInv, BundleForm
  <1>6. CASE ~lost
    <2>1. bundle' = SignBundle(rooted, key) /\ phase' = "done"
      BY <1>1, <1>6
    <2>2. /\ BundleForm(bundle')
          /\ key # None => bundle'.sigs = {Sign(key, PAE(BundlePayloadType, SigningBytes(bundle')))}
      BY <1>4, <2>1, SignedForm
    <2>3. SigningKey(conf)' = key
      BY <1>1 DEF key, SigningKey
    <2>4. QED
      BY <2>1, <2>2, <2>3 DEF BundleInv, BundleForm, SigningBytes
  <1>7. QED
    BY <1>5, <1>6

-------------------------------------------------------------------------------
(* The theorems *)

(* The invariant holds when nothing has been written. *)
LEMMA IInvInit == Init => IInv
  <1> SUFFICES ASSUME Init PROVE IInv
    OBVIOUS
  <1> USE DEF Init, StoreInit
  <1>1. NoOne \notin Requests
    BY MarkersAssumption
  <1>2. TypeOK
    BY DEF TypeOK, Stages
  <1>3. EmissionInv
    <2>1. \A r \in Requests : conf.load[r] \in Seq(Inputs)
      BY <1>2, ConfFacts
    <2>2. QED
      BY <1>1, <2>1 DEF EmissionInv, Emission
  <1>4. PinInv
    BY DEF PinInv
  <1>5. KeptInv
    BY DEF KeptInv
  <1>6. FileInv
    <2>1. DOMAIN dir = {}
      OBVIOUS
    <2>2. QED
      BY <2>1 DEF FileInv
  <1>7. ScanInv
    BY DEF ScanInv, ScanForm, NoScan
  <1>8. BundleInv
    <2>1. NoBundle = FillFromAudit(<<>>)
      BY DEF FillFromAudit
    <2>2. QED
      BY <2>1, FillForm DEF BundleInv
  <1>9. QED
    BY <1>2, <1>3, <1>4, <1>5, <1>6, <1>7, <1>8 DEF IInv

(* Every step keeps it. *)
LEMMA IInvNext == IInv /\ [Next]_vars => IInv'
  <1> SUFFICES ASSUME TypeOK, EmissionInv, PinInv, KeptInv, FileInv, ScanInv, BundleInv,
                      [Next]_vars
               PROVE  IInv'
    BY DEF IInv
  <1>1. ASSUME UNCHANGED exportVars, NEW r \in Requests,
               Start(r) \/ OpenFile(r) \/ FillFile(r) \/ EmitFails(r) \/ Conclude(r)
        PROVE  IInv'
    <2>1. UNCHANGED <<conf, touched, scan>>
      BY <1>1 DEF Start, OpenFile, FillFile, EmitFails, Conclude
    <2>2. BundleInv'
      BY <1>1, <2>1, BundleFrame
    <2>3. CASE Start(r) \/ Conclude(r)
      <3>1. UNCHANGED <<dir, refs, written>>
        BY <2>3 DEF Start, Conclude
      <3>2. TypeOK' /\ EmissionInv' /\ PinInv'
        BY <2>3, StartSteps, ConcludeSteps
      <3>3. QED
        BY <2>1, <2>2, <3>1, <3>2, KeptFrame, FileFrame, ScanFrame DEF IInv
    <2>4. CASE OpenFile(r)
      <3>1. TypeOK' /\ EmissionInv' /\ PinInv' /\ written \subseteq written'
        BY <2>4, OpenSteps
      <3>2. KeptInv' /\ FileInv'
        BY <2>4, OpenKept, WriteFiles
      <3>3. QED
        BY <2>1, <2>2, <3>1, <3>2, ScanFrame DEF IInv
    <2>5. CASE FillFile(r)
      <3>1. TypeOK' /\ EmissionInv' /\ PinInv' /\ written' = written
        BY <2>5, WriteSteps DEF FillFile
      <3>2. KeptInv' /\ FileInv'
        BY <2>5, FillKept, WriteFiles
      <3>3. QED
        BY <2>1, <2>2, <3>1, <3>2, ScanFrame DEF IInv
    <2>6. CASE EmitFails(r)
      <3>1. /\ TypeOK' /\ EmissionInv' /\ PinInv'
            /\ UNCHANGED <<dir, written>> /\ mu' = NoOne /\ AfterRecord(r, FALSE) /\ record[r] # None
        BY <2>6, WriteSteps DEF EmitFails
      <3>2. /\ refs' \in [Requests -> Seq(Inputs)]
            /\ \A q \in Requests \ {r} : refs'[q] = refs[q]
            /\ refs'[r] = refs[r]
        BY <2>1, <3>1, AfterRecordFacts
      <3>3. refs' = refs
        BY <3>2 DEF TypeOK
      <3>4. QED
        BY <2>1, <2>2, <3>1, <3>3, KeptFrame, FileFrame, ScanFrame DEF IInv
    <2>7. QED
      BY <1>1, <2>3, <2>4, <2>5, <2>6
  <1>2. ASSUME UNCHANGED exportVars, WriteAudit \/ Crash
        PROVE  IInv'
    <2>1. UNCHANGED <<conf, touched, scan, dir, refs, written>>
      BY <1>2 DEF WriteAudit, Crash
    <2>2. TypeOK' /\ EmissionInv' /\ PinInv'
      BY <1>2, WriteAuditSteps, CrashSteps
    <2>3. QED
      BY <1>2, <2>1, <2>2, BundleFrame, KeptFrame, FileFrame, ScanFrame DEF IInv
  <1>3. ASSUME UNCHANGED exportVars, NEW n \in DOMAIN dir, AlterFile(n) \/ RemoveFile(n)
        PROVE  IInv'
    <2>1. UNCHANGED <<conf, scan, mu, pc, record, refs, queued, auditFile, written>>
      BY <1>3 DEF AlterFile, RemoveFile, requestVars
    <2>2. TypeOK' /\ EmissionInv' /\ PinInv'
      BY <2>1 DEF TypeOK, EmissionInv, Emission, PinInv
    <2>3. KeptInv' /\ FileInv'
      BY <1>3, OutsideKept, OutsideFiles
    <2>4. QED
      BY <1>3, <2>1, <2>2, <2>3, BundleFrame, ScanFrame DEF IInv
  <1>4. ASSUME UNCHANGED exportVars,
               ScanBegin \/ ScanList \/ (\E n \in scan.todo : ScanFile(n)) \/ ScanLink
        PROVE  IInv'
    <2>1. UNCHANGED <<conf, dir, touched, mu, pc, record, refs, queued, auditFile, written>>
      BY <1>4 DEF ScanBegin, ScanList, ScanFile, ScanLink, requestVars
    <2>2. TypeOK' /\ EmissionInv' /\ PinInv'
      BY <2>1 DEF TypeOK, EmissionInv, Emission, PinInv
    <2>3. ScanInv'
      BY <1>4, ListScan, FileScan, LinkScan
    <2>4. QED
      BY <1>4, <2>1, <2>2, <2>3, BundleFrame, KeptFrame, FileFrame DEF IInv
  <1>5. ASSUME ReadAudit \/ Assemble \/ UNCHANGED vars
        PROVE  IInv'
    <2>1. UNCHANGED <<conf, dir, touched, mu, pc, record, refs, queued, auditFile, written, scan>>
      BY <1>5 DEF ReadAudit, Assemble, vars, storeVars, requestVars
    <2>2. TypeOK' /\ EmissionInv' /\ PinInv'
      BY <2>1 DEF TypeOK, EmissionInv, Emission, PinInv
    <2>3. BundleInv'
      BY <1>5, <2>1, ReadBundle, AssembleBundle, BundleFrame DEF vars
    <2>4. QED
      BY <2>1, <2>2, <2>3, KeptFrame, FileFrame, ScanFrame DEF IInv
  <1>6. QED
    BY <1>1, <1>2, <1>3, <1>4, <1>5 DEF Next, StoreNext

(* IInv is an invariant of the evidence store and its exporter. *)
LEMMA IInvInvariant == Spec => []IInv
  BY IInvInit, IInvNext, PTL DEF Spec

(* What the verifier finished writing, and nobody touched, passes a reader's *)
(* check as what its name says, with the declared profile; and under a       *)
(* signing key whatever VerifyEvidenceDir counts is, unchanged, what the     *)
(* verifier sealed: however writes, crashes and outside changes interleave   *)
(* with the scan.                                                            *)
THEOREM EvidenceGenuineHolds == Spec => []EvidenceGenuine
  <1>1. ASSUME IInv PROVE EmittedVerifies
    <2> SUFFICES ASSUME NEW n \in DOMAIN dir \ touched, dir[n] # Torn
                 PROVE  /\ Verified(dir[n]) = n[1]
                        /\ conf.profile # None =>
                             SubjectDigests(dir[n], "evidence-profile") = {ProfileNamed(conf.profile)}
      BY DEF EmittedVerifies
    <2>1. PICK rec \in Records : n = FileName(rec) /\ dir[n] = Seal(rec, conf)
      BY <1>1 DEF IInv, FileInv, OwnFile
    <2>2. n[1] = rec.ver
      BY <2>1 DEF FileName
    <2>3. conf \in Deployments
      BY <1>1 DEF IInv, TypeOK
    <2>4. QED
      BY <2>1, <2>2, <2>3, SealVerifies DEF Verified
  <1>2. IInv => EvidenceGenuine
    BY <1>1 DEF EvidenceGenuine, EndorsedIsGenuine, IInv, ScanInv
  <1>3. QED
    BY <1>2, IInvInvariant, PTL

(* A record the audit file pins is completely on disk unless someone outside *)
(* changed it: through failed writes, half-written files and crashes, as     *)
(* long as the sources of one request freeze different inputs.               *)
THEOREM PinnedIsOnDiskHolds == Spec => []PinnedIsOnDisk
  <1>1. ASSUME IInv PROVE PinnedIsOnDisk
    <2> DEFINE d(i) == auditFile[i].digest
    <2> SUFFICES ASSUME SourcesDiffer, NEW i \in DOMAIN auditFile, d(i) # None,
                        <<"decision", d(i)>> \notin touched
                 PROVE  <<"decision", d(i)>> \in DOMAIN dir /\ dir[<<"decision", d(i)>>] # Torn
      BY DEF PinnedIsOnDisk
    <2>1. Pins(auditFile[i], refs)
      BY <1>1 DEF IInv, PinInv
    <2>2. PICK q \in Requests : \E k \in 1 .. Len(refs[q]) : refs[q][k] = d(i)
      BY <2>1 DEF Pins
    <2>3. PICK k \in 1 .. Len(refs[q]) : refs[q][k] = d(i)
      BY <2>2
    <2>4. Kept(d(i), dir, touched, conf)
      BY <1>1, <2>3 DEF IInv, KeptInv
    <2>5. d(i) \in Inputs /\ conf \in Deployments
      BY <1>1, <2>3 DEF IInv, TypeOK
    <2>6. Seal(RecordWith(d(i)), conf) # Torn
      BY <2>5, RecordsMade, MarkersAssumption
    <2>7. QED
      BY <2>4, <2>6 DEF Kept
  <1>2. QED
    BY <1>1, IInvInvariant, PTL

(* An exported bundle verifies under the deployment's key, and no bundle     *)
(* obtained by changing part of it does.                                     *)
THEOREM BundleIsSealedHolds == Spec => []BundleIsSealed
  <1>1. ASSUME IInv PROVE BundleIsSealed
    <2> DEFINE key == SigningKey(conf)
               mark == Sign(key, PAE(BundlePayloadType, SigningBytes(bundle)))
    <2> SUFFICES ASSUME phase = "done", key # None
                 PROVE  /\ VerifySignature(bundle, key)
                        /\ \A b \in EditedBundles(bundle) : VerifySignature(b, key) => b = bundle
      BY DEF BundleIsSealed
    <2>1. BundleForm(bundle) /\ bundle.sigs = {mark}
      BY <1>1 DEF IInv, BundleInv
    <2>2. VerifySignature(bundle, key)
      BY <2>1 DEF VerifySignature, VerifyFn, Sign
    <2>3. ASSUME NEW b, BundleForm(b), b.sigs = bundle.sigs, VerifySignature(b, key)
          PROVE  b = bundle
      <3>1. PICK s \in {mark} : VerifyFn(key, PAE(BundlePayloadType, SigningBytes(b)), s)
        BY <2>1, <2>3 DEF VerifySignature
      <3>2. PAE(BundlePayloadType, SigningBytes(b)) = PAE(BundlePayloadType, SigningBytes(bundle))
        BY <3>1 DEF VerifyFn, Sign
      <3>3. SigningBytes(b) = SigningBytes(bundle)
        BY <3>2 DEF PAE
      <3>4. QED
        BY <2>1, <2>3, <3>3 DEF SigningBytes, BundleForm
    <2>4. ASSUME NEW b \in EditedBundles(bundle) PROVE BundleForm(b) /\ b.sigs = bundle.sigs
      <3>1. \E x : \/ b = [bundle EXCEPT !.lines = x] \/ b = [bundle EXCEPT !.record = x]
                   \/ b = [bundle EXCEPT !.outcome = x] \/ b = [bundle EXCEPT !.decision = x]
                   \/ b = [bundle EXCEPT !.digest = x] \/ b = [bundle EXCEPT !.root = x]
        BY Zenon DEF EditedBundles
      <3>2. QED
        BY <2>1, <3>1, UpdateForm
    <2>5. QED
      BY <2>2, <2>3, <2>4
  <1>2. QED
    BY <1>1, IInvInvariant, PTL

-------------------------------------------------------------------------------
(* Induction over the natural numbers, for sets *)

(* A nonempty set of natural numbers has a least element. *)
LEMMA SmallestIn ==
  ASSUME NEW T, T \subseteq Nat, T # {}
  PROVE  \E n \in T : \A m \in T : n <= m
  <1> DEFINE R == {p \in Nat \X Nat : p[1] < p[2]}
  <1>1. IsWellFoundedOn(R, Nat)
    BY NatLessThanWellFounded DEF OpToRel
  <1>2. \A m, n \in Nat : ~(<<m, n>> \in R) => n <= m
    OBVIOUS
  <1> HIDE DEF R
  <1>3. \E n \in T : \A m \in T : ~(<<m, n>> \in R)
    BY <1>1, WFMin
  <1>4. QED
    BY <1>2, <1>3

(* What holds of 0 and passes from n to n + 1 holds of every number. *)
LEMMA SetInduction ==
  ASSUME NEW T, 0 \in T, \A n \in Nat : n \in T => n + 1 \in T
  PROVE  \A n \in Nat : n \in T
  <1> SUFFICES ASSUME Nat \ T # {} PROVE FALSE
    OBVIOUS
  <1>1. PICK n \in Nat \ T : \A m \in Nat \ T : n <= m
    BY SmallestIn
  <1>2. n # 0
    OBVIOUS
  <1>3. n - 1 \in Nat /\ (n - 1) + 1 = n
    BY <1>2
  <1>4. n - 1 \in T
    BY <1>1, <1>3
  <1>5. QED
    BY <1>3, <1>4

-------------------------------------------------------------------------------
(* The record an audit line pins *)

(* What readAuditChainLines returns are lines of the file that match. *)
LEMMA MatchingOf ==
  ASSUME NEW S, NEW file \in Seq(S), NEW q
  PROVE  MatchingLines(file, q) \in Seq({l \in S : MatchesAuditQuery(l, q)})
  <1> DEFINE n == Len(file)
             M == {l \in S : MatchesAuditQuery(l, q)}
             Step(K, j) == IF MatchesAuditQuery(file[j], q) THEN Append(K[j - 1], file[j]) ELSE K[j - 1]
             Is(K, m) == K = [j \in 0 .. m |-> IF j = 0 THEN <<>> ELSE Step(K, j)]
             Some(m) == \E K \in [0 .. m -> Seq(M)] : Is(K, m)
             T == {m \in Nat : m <= n => Some(m)}
  <1>1. n \in Nat /\ \A j \in 1 .. n : file[j] \in S
    OBVIOUS
  <1> DEFINE Of == CHOOSE K : Is(K, n)
  <1>2. MatchingLines(file, q) = Of[n]
    BY DEF MatchingLines
  <1>3. ASSUME NEW j \in 1 .. n, MatchesAuditQuery(file[j], q) PROVE file[j] \in M
    BY <1>1, <1>3
  <1> HIDE DEF n, M
  <1>4. 0 \in T
    <2>1. [j \in 0 .. 0 |-> <<>>] \in [0 .. 0 -> Seq(M)] /\ Is([j \in 0 .. 0 |-> <<>>], 0)
      OBVIOUS
    <2> HIDE DEF Is
    <2>2. Some(0)
      BY <2>1
    <2>3. QED
      BY <2>2
  <1>5. ASSUME NEW m \in Nat, m \in T PROVE m + 1 \in T
    <2> SUFFICES ASSUME m + 1 <= n PROVE Some(m + 1)
      <3> HIDE DEF Some
      <3> QED
        OBVIOUS
    <2>1. PICK K \in [0 .. m -> Seq(M)] : Is(K, m)
      <3> HIDE DEF Is
      <3> QED
        BY <1>1, <1>5
    <2> DEFINE Next1 == IF MatchesAuditQuery(file[m + 1], q) THEN Append(K[m], file[m + 1]) ELSE K[m]
               U == [j \in 0 .. m + 1 |-> IF j = m + 1 THEN Next1 ELSE K[j]]
    <2>2. U \in [0 .. m + 1 -> Seq(M)]
      <3>1. K[m] \in Seq(M)
        BY <1>1
      <3>2. Next1 \in Seq(M)
        <4>1. m + 1 \in 1 .. n
          BY <1>1
        <4>2. CASE MatchesAuditQuery(file[m + 1], q)
          <5>1. file[m + 1] \in M
            BY <1>3, <4>1, <4>2
          <5>2. QED
            BY <3>1, <4>2, <5>1
        <4>3. CASE ~MatchesAuditQuery(file[m + 1], q)
          BY <3>1, <4>3
        <4>4. QED
          BY <4>2, <4>3
      <3> HIDE DEF Next1
      <3>3. QED
        BY <3>2
    <2>3. \A j \in 0 .. m + 1 : U[j] = IF j = 0 THEN <<>> ELSE Step(U, j)
      <3>1. U[0] = <<>>
        <4>1. U[0] = K[0]
          OBVIOUS
        <4>2. K[0] = <<>>
          BY <2>1
        <4>3. QED
          BY <4>1, <4>2
      <3>2. ASSUME NEW j \in 1 .. m PROVE U[j] = Step(U, j)
        <4>1. U[j] = K[j] /\ U[j - 1] = K[j - 1]
          OBVIOUS
        <4>2. K[j] = Step(K, j)
          <5> HIDE DEF Step
          <5>1. K = [i \in 0 .. m |-> IF i = 0 THEN <<>> ELSE Step(K, i)]
            BY <2>1
          <5> HIDE DEF Is, U
          <5>2. j \in 0 .. m /\ j # 0
            OBVIOUS
          <5>3. K[j] = IF j = 0 THEN <<>> ELSE Step(K, j)
            BY <5>1, <5>2, Zenon
          <5>4. QED
            BY <5>2, <5>3
        <4>3. QED
          BY <4>1, <4>2
      <3>3. U[m + 1] = Step(U, m + 1)
        <4>1. U[(m + 1) - 1] = K[m]
          OBVIOUS
        <4>2. QED
          BY <4>1
      <3> HIDE DEF U, Step
      <3>4. \A j \in 0 .. m + 1 : j = 0 \/ j \in 1 .. m \/ (j = m + 1 /\ j # 0)
        OBVIOUS
      <3>5. QED
        BY <3>1, <3>2, <3>3, <3>4
    <2> HIDE DEF Step
    <2>4. Is(U, m + 1)
      BY <2>3
    <2> HIDE DEF U, Is
    <2>5. QED
      BY <2>2, <2>4
  <1>6. Some(n)
    <2> HIDE DEF T, Some
    <2>1. n \in T
      BY <1>1, <1>4, <1>5, SetInduction
    <2>2. QED
      BY <1>1, <2>1 DEF T
  <1>7. Is(Of, n)
    <2> HIDE DEF Is
    <2>1. PICK K : Is(K, n)
      BY <1>6
    <2>2. QED
      BY <2>1
  <1> HIDE DEF Of, T, Some
  <1>8. Of[0] = <<>> /\ \A j \in 1 .. n : Of[j] = Step(Of, j)
    <2> HIDE DEF Step
    <2>1. Of = [j \in 0 .. n |-> IF j = 0 THEN <<>> ELSE Step(Of, j)]
      BY <1>7
    <2> HIDE DEF Is
    <2>2. QED
      BY <1>1, <2>1
  <1> HIDE DEF Is
  <1> DEFINE Q == {m \in Nat : m <= n => Of[m] \in Seq(M)}
  <1>9. 0 \in Q
    <2>1. <<>> \in Seq(M)
      OBVIOUS
    <2> HIDE DEF Step
    <2>2. Of[0] \in Seq(M)
      BY <1>8, <2>1
    <2>3. QED
      BY <2>2
  <1>10. ASSUME NEW m \in Nat, m \in Q PROVE m + 1 \in Q
    <2> SUFFICES ASSUME m + 1 <= n PROVE Of[m + 1] \in Seq(M)
      OBVIOUS
    <2>1. m + 1 \in 1 .. n /\ (m + 1) - 1 = m /\ Of[m] \in Seq(M)
      BY <1>1, <1>10
    <2>2. Of[m + 1] = IF MatchesAuditQuery(file[m + 1], q) THEN Append(Of[m], file[m + 1]) ELSE Of[m]
      BY <1>8, <2>1
    <2>3. CASE MatchesAuditQuery(file[m + 1], q)
      <3>1. file[m + 1] \in M
        BY <1>3, <2>1, <2>3
      <3>2. QED
        BY <2>1, <2>2, <2>3, <3>1
    <2>4. CASE ~MatchesAuditQuery(file[m + 1], q)
      BY <2>1, <2>2, <2>4
    <2>5. QED
      BY <2>3, <2>4
  <1>11. n \in Q
    <2> HIDE DEF Q
    <2>1. QED
      BY <1>1, <1>9, <1>10, SetInduction
  <1>12. QED
    BY <1>1, <1>2, <1>11 DEF M

(* Every line has an anchor, but the plugins' own, which have no trace id. *)
Anchored(line, c) == line.digest # None \/ (line.op = None /\ c.plugins)

LinesInv ==
  /\ \A i \in DOMAIN queued : Anchored(queued[i], conf)
  /\ \A i \in DOMAIN auditFile : Anchored(auditFile[i], conf)

(* Whatever happened to a file, it holds a statement about a predicate with *)
(* a link to an input or none.                                              *)
Linkable(st) ==
  \E ty, su, v, a, d, s : \E l \in Inputs \cup {None} : st = Statement(ty, su, Predicate(v, a, d, s, l))
LinksInv == \A n \in DOMAIN dir : dir[n] # Torn => Linkable(dir[n].payload)

(* What the exporter has read: lines of the audit file, all with an anchor. *)
ReadFrom(b, lines) == b = FillFromAudit(lines) /\ \A i \in DOMAIN lines : lines[i].digest # None
ReadInv ==
  phase = "resolve" =>
    /\ query.handed \in Inputs \cup {None}
    /\ \E lines \in Seq({auditFile[i] : i \in DOMAIN auditFile}) : ReadFrom(bundle, lines)

AnchorInv == LinesInv /\ LinksInv /\ ReadInv /\ AnchorResolved

(* What a sealed record carries, and what an edit of a file may make of it. *)
LEMMA SealLinkable ==
  ASSUME NEW rec \in Records, NEW c
  PROVE  Linkable(Seal(rec, c).payload)
  <1>1. PICK v, a, d, s : \E l \in Inputs \cup {None} : rec = Predicate(v, a, d, s, l)
    <2>1. CASE rec \in {RecordWith(i) : i \in Inputs}
      BY <2>1, Zenon DEF RecordWith
    <2>2. CASE rec \in {NewAdmissionRecord(r) : r \in Requests}
      BY <2>2, Zenon DEF NewAdmissionRecord
    <2>3. CASE rec \in UNION {{NewOutcomeRecord(r, link) : link \in Inputs \cup {None}} : r \in Requests}
      <3>1. PICK r \in Requests, link \in Inputs \cup {None} : rec = NewOutcomeRecord(r, link)
        BY <2>3
      <3>2. QED
        BY <3>1, Zenon DEF NewOutcomeRecord
    <2>4. QED
      BY <2>1, <2>2, <2>3 DEF Records
  <1>2. Seal(rec, c).payload = Statement(rec.ver, Binding(rec) \cup Tags(c), rec)
    BY SealForm
  <1>3. QED
    BY <1>1, <1>2, Zenon DEF Linkable

LEMMA EditLinkable ==
  ASSUME NEW env, env = [payloadType |-> env.payloadType, sigs |-> env.sigs, payload |-> env.payload],
         Linkable(env.payload), NEW e \in Edits(env)
  PROVE  Linkable(e.payload)
  <1>1. PICK p \in EditedPayloads(env.payload) :
           e \in {[env EXCEPT !.payload = p],
                  [env EXCEPT !.payload = p,
                    !.sigs = {Sign(key, PAE(env.payloadType, p)) : key \in Others}]}
    BY DEF Edits
  <1>2. e.payload = p
    <2>1. PICK t, si, pl : env = [payloadType |-> t, sigs |-> si, payload |-> pl]
      OBVIOUS
    <2>2. PICK theirs : theirs = {Sign(key, PAE(env.payloadType, p)) : key \in Others}
      OBVIOUS
    <2>3. e \in {[env EXCEPT !.payload = p], [env EXCEPT !.payload = p, !.sigs = theirs]}
      BY <1>1, <2>2, Zenon
    <2>4. QED
      BY <2>1, <2>3
  <1>3. PICK ty, su, v, a, d, s : \E l \in Inputs \cup {None} :
          env.payload = Statement(ty, su, Predicate(v, a, d, s, l))
    BY DEF Linkable
  <1>4. PICK l \in Inputs \cup {None} : env.payload = Statement(ty, su, Predicate(v, a, d, s, l))
    BY <1>3
  <1>5. PICK st : st = env.payload
    OBVIOUS
  <1>6. CASE p = [st EXCEPT !.pred.says = ""]
    <2>1. PICK x : x = ""
      OBVIOUS
    <2>2. p = [st EXCEPT !.pred.says = x]
      BY <1>6, <2>1, Zenon
    <2>3. p = Statement(ty, su, Predicate(v, a, d, x, l))
      BY <1>4, <1>5, <2>2 DEF Statement, Predicate
    <2>4. QED
      BY <1>2, <2>3, Zenon DEF Linkable
  <1>7. CASE p = [st EXCEPT !.ptype = "admission"]
    <2>1. p = Statement("admission", su, Predicate(v, a, d, s, l))
      BY <1>4, <1>5, <1>7 DEF Statement, Predicate
    <2>2. QED
      BY <1>2, <2>1, Zenon DEF Linkable
  <1>8. ASSUME NEW i \in Planted, p = [st EXCEPT !.pred.link = i] PROVE Linkable(p)
    <2>1. p = Statement(ty, su, Predicate(v, a, d, s, i))
      BY <1>4, <1>5, <1>8 DEF Statement, Predicate
    <2>2. i \in Inputs \cup {None}
      BY DEF Planted
    <2>3. QED
      BY <2>1, <2>2, Zenon DEF Linkable
  <1>9. ASSUME NEW i \in Planted, p = [st EXCEPT !.pred = RecordWith(i), !.subjects = {<<"input", i>>}]
        PROVE  Linkable(p)
    <2>1. PICK new, subject : new = RecordWith(i) /\ subject = {<<"input", i>>}
      OBVIOUS
    <2>2. p = [st EXCEPT !.pred = new, !.subjects = subject]
      BY <1>9, <2>1, Zenon
    <2>3. p = Statement(ty, subject, new)
      <3>1. PICK old : st = Statement(ty, su, old)
        BY <1>4, <1>5
      <3>2. QED
        BY <2>2, <3>1 DEF Statement
    <2>4. p = Statement(ty, subject, Predicate("decision", i, i, Evaluate(i), None))
      BY <2>1, <2>3, Zenon DEF RecordWith
    <2>5. QED
      BY <2>4, Zenon DEF Linkable
  <1>10. \/ p = [st EXCEPT !.pred.says = ""] \/ p = [st EXCEPT !.ptype = "admission"]
         \/ \E i \in Planted : p = [st EXCEPT !.pred.link = i]
         \/ \E i \in Planted : p = [st EXCEPT !.pred = RecordWith(i), !.subjects = {<<"input", i>>}]
    BY <1>5, Zenon DEF EditedPayloads
  <1>11. QED
    BY <1>2, <1>6, <1>7, <1>8, <1>9, <1>10

(* A decision that a file yields is not the mark for its absence. *)
LEMMA LoadedIsRecord ==
  ASSUME LinksInv, NEW d \in Inputs, NEW p \in Resolve(d)
  PROVE  p # None /\ p.digest = d /\ Reproduces(p)
  <1>1. PICK n \in DOMAIN dir : Loads(dir[n]) /\ p = dir[n].payload.pred /\ p.digest = d
    BY DEF Resolve
  <1>2. dir[n] # Torn /\ CheckEvidenceEnvelope(dir[n]) = "decision"
    BY <1>1 DEF Loads
  <1>3. PICK st : st = dir[n].payload
    OBVIOUS
  <1>4. Linkable(st)
    BY <1>2, <1>3 DEF LinksInv
  <1>5. PICK ty, su, v, a, g, s : \E l \in Inputs \cup {None} : st = Statement(ty, su, Predicate(v, a, g, s, l))
    BY <1>4 DEF Linkable
  <1>6. PICK l \in Inputs \cup {None} : st = Statement(ty, su, Predicate(v, a, g, s, l))
    BY <1>5
  <1>7. st.ptype = ty /\ st.pred = Predicate(v, a, g, s, l) /\ p = Predicate(v, a, g, s, l)
    BY <1>1, <1>3, <1>6 DEF Statement
  <1>8. ty = "decision" /\ v = ty /\ Reproduces(p)
    <2>1. st.ptype = "decision"
      BY <1>2, <1>3 DEF CheckEvidenceEnvelope
    <2>2. st.pred.ver = st.ptype /\ Reproduces(st.pred)
      BY <1>2, <1>3, <2>1 DEF CheckEvidenceEnvelope
    <2>3. st.pred.ver = v
      BY <1>7 DEF Predicate
    <2>4. QED
      BY <1>7, <2>1, <2>2, <2>3
  <1>9. p.digest = g /\ p.about = a /\ p.says = s
    BY <1>7 DEF Predicate
  <1>10. g = d /\ a = d /\ s = Evaluate(d)
    BY <1>1, <1>8, <1>9 DEF Reproduces
  <1>11. p = Predicate("decision", d, d, Evaluate(d), l)
    BY <1>7, <1>8, <1>10
  <1>12. QED
    BY <1>1, <1>8, <1>11, MarkersAssumption

(* A record that is in its file is found. *)
LEMMA KeptIsFound ==
  ASSUME NEW d \in Inputs, conf \in Deployments, <<"decision", d>> \in DOMAIN dir,
         dir[<<"decision", d>>] = Seal(RecordWith(d), conf)
  PROVE  RecordWith(d) \in Resolve(d)
  <1> DEFINE n == <<"decision", d>>
             rec == RecordWith(d)
             st == Statement(rec.ver, Binding(rec) \cup Tags(conf), rec)
  <1>1. rec \in Records /\ rec.digest = d /\ rec.ver = "decision"
    BY RecordsMade DEF RecordWith, Predicate
  <1>2. dir[n] # Torn
    BY <1>1, MarkersAssumption
  <1>3. dir[n].payloadType = InToto /\ dir[n].payload = st
    <2>1. Seal(rec, conf).payloadType = InToto /\ Seal(rec, conf).payload = st
      BY SealForm
    <2>2. dir[n] = Seal(rec, conf)
      OBVIOUS
    <2>3. QED
      BY <2>1, <2>2, Zenon
  <1>4. st.ptype = rec.ver /\ st.pred = rec /\ st.subjects = Binding(rec) \cup Tags(conf)
    BY DEF Statement
  <1> HIDE DEF st
  <1>5. Reproduces(rec) /\ <<"input", rec.digest>> \in Binding(rec)
    BY <1>1, RecordKinds DEF Binding
  <1> HIDE DEF rec, n
  <1>6. CheckEvidenceEnvelope(dir[n]) = "decision"
    BY <1>1, <1>3, <1>4, <1>5 DEF CheckEvidenceEnvelope
  <1>7. Loads(dir[n]) /\ n \in DOMAIN dir /\ dir[n].payload.pred = rec
    BY <1>2, <1>3, <1>4, <1>6 DEF Loads, n
  <1>8. rec \in Resolve(d)
    BY <1>1, <1>7 DEF Resolve
  <1>9. QED
    BY <1>8 DEF rec

(* Steps of the requests: a line they queue has an anchor. *)
LEMMA LinesQueue ==
  ASSUME TypeOK, LinesInv, UNCHANGED <<conf, auditFile>>,
         \/ queued' = queued
         \/ \E line : queued' = Append(queued, line) /\ Anchored(line, conf)
  PROVE  LinesInv'
  <1>1. queued \in Seq(Line)
    BY DEF TypeOK
  <1>2. CASE queued' = queued
    BY <1>2 DEF LinesInv
  <1>3. ASSUME NEW line, queued' = Append(queued, line), Anchored(line, conf) PROVE LinesInv'
    <2>1. \A i \in DOMAIN queued' : queued'[i] = line \/ (i \in DOMAIN queued /\ queued'[i] = queued[i])
      BY <1>1, <1>3
    <2>2. QED
      BY <1>3, <2>1 DEF LinesInv
  <1>4. QED
    BY <1>2, <1>3

LEMMA RequestLines ==
  ASSUME TypeOK, LinesInv, NEW r \in Requests, Start(r) \/ Conclude(r)
  PROVE  LinesInv'
  <1>1. UNCHANGED <<conf, auditFile>>
    BY DEF Start, Conclude
  <1>2. CASE Start(r)
    <2>1. \/ queued' = queued
          \/ queued' = Append(queued, AuditLine(None, None, TRUE)) /\ conf.plugins
      BY <1>2 DEF Start
    <2>2. conf.plugins => Anchored(AuditLine(None, None, TRUE), conf)
      BY DEF Anchored, AuditLine
    <2>3. QED
      BY <1>1, <2>1, <2>2, LinesQueue
  <1>3. CASE Conclude(r)
    <2>1. refs[r] \in Seq(Inputs)
      BY DEF TypeOK
    <2>2. queued' = queued \/ \E denied \in BOOLEAN : AuditAdmission(r, denied)
      BY <1>3 DEF Conclude
    <2>3. ASSUME NEW denied \in BOOLEAN, AuditAdmission(r, denied), queued' # queued
          PROVE  \E line : queued' = Append(queued, line) /\ Anchored(line, conf)
      <3>1. refs[r] # <<>> /\ queued' = Append(queued, AuditLine(r, FirstRef(r), denied))
        BY <2>3 DEF AuditAdmission
      <3>2. FirstRef(r) \in Inputs
        BY <2>1, <3>1 DEF FirstRef
      <3>3. Anchored(AuditLine(r, FirstRef(r), denied), conf)
        BY <3>2, MarkersAssumption DEF Anchored, AuditLine
      <3>4. QED
        BY <3>1, <3>3
    <2>4. QED
      BY <1>1, <2>2, <2>3, LinesQueue
  <1>4. QED
    BY <1>2, <1>3

(* The audit logger writes a line, or the process dies. *)
LEMMA LoggerLines ==
  ASSUME TypeOK, LinesInv, WriteAudit \/ Crash
  PROVE  /\ LinesInv'
         /\ \A i \in DOMAIN auditFile : i \in DOMAIN auditFile' /\ auditFile'[i] = auditFile[i]
  <1>1. queued \in Seq(Line) /\ auditFile \in Seq(Line) /\ conf' = conf
    BY DEF TypeOK, WriteAudit, Crash
  <1>2. CASE WriteAudit
    <2>1. queued # <<>> /\ auditFile' = Append(auditFile, Head(queued)) /\ queued' = Tail(queued)
      BY <1>2 DEF WriteAudit
    <2>2. Head(queued) = queued[1] /\ 1 \in DOMAIN queued
      BY <1>1, <2>1
    <2>3. \A i \in DOMAIN queued' : i + 1 \in DOMAIN queued /\ queued'[i] = queued[i + 1]
      BY <1>1, <2>1
    <2>4. \A i \in DOMAIN auditFile' :
            auditFile'[i] = queued[1] \/ (i \in DOMAIN auditFile /\ auditFile'[i] = auditFile[i])
      BY <1>1, <2>1, <2>2
    <2>5. \A i \in DOMAIN auditFile : i \in DOMAIN auditFile' /\ auditFile'[i] = auditFile[i]
      BY <1>1, <2>1, <2>2
    <2>6. QED
      BY <1>1, <2>2, <2>3, <2>4, <2>5 DEF LinesInv
  <1>3. CASE Crash
    <2>1. queued' = <<>> /\ auditFile' = auditFile
      BY <1>3 DEF Crash
    <2>2. QED
      BY <1>1, <2>1 DEF LinesInv
  <1>4. QED
    BY <1>2, <1>3

(* Steps that write files, and changes from outside. *)
LEMMA WriteLinks ==
  ASSUME TypeOK, EmissionInv, LinksInv, NEW r \in Requests, OpenFile(r) \/ FillFile(r)
  PROVE  LinksInv'
  <1>1. \/ dir' = Set(dir, FileName(record[r]), Torn)
        \/ mu = r /\ dir' = Set(dir, FileName(record[r]), Seal(record[r], conf))
    BY DEF OpenFile, FillFile
  <1>2. PICK env, n : /\ dir' = Set(dir, n, env)
                      /\ env = Torn \/ (mu = r /\ env = Seal(record[r], conf))
    BY <1>1
  <1>3. mu = r => record[r] \in Records
    BY DEF EmissionInv, Emission, TypeOK
  <1>4. env # Torn => Linkable(env.payload)
    BY <1>2, <1>3, SealLinkable
  <1>5. \A m \in DOMAIN dir' : dir'[m] = env \/ (m \in DOMAIN dir /\ dir'[m] = dir[m])
    BY <1>2 DEF Set
  <1>6. QED
    BY <1>4, <1>5 DEF LinksInv

LEMMA OutsideLinks ==
  ASSUME FileInv, LinksInv, NEW n \in DOMAIN dir, AlterFile(n) \/ RemoveFile(n)
  PROVE  LinksInv'
  <1>1. dir[n] # Torn
    BY DEF AlterFile, RemoveFile
  <1>2. CASE AlterFile(n)
    <2>1. PICK e \in Edits(dir[n]) : dir' = [dir EXCEPT ![n] = e]
      BY <1>2 DEF AlterFile
    <2>2. Linkable(e.payload)
      BY <1>1, EditLinkable DEF FileInv, Endorsed, LinksInv
    <2>3. \A m \in DOMAIN dir' : dir'[m] = e \/ (m \in DOMAIN dir /\ dir'[m] = dir[m])
      BY <2>1
    <2>4. QED
      BY <2>2, <2>3 DEF LinksInv
  <1>3. CASE RemoveFile(n)
    <2>1. dir' = Restrict(dir, DOMAIN dir \ {n})
      BY <1>3 DEF RemoveFile
    <2>2. \A m \in DOMAIN dir' : m \in DOMAIN dir /\ dir'[m] = dir[m]
      BY <2>1 DEF Restrict
    <2>3. QED
      BY <2>2 DEF LinksInv
  <1>4. QED
    BY <1>2, <1>3

(* Steps of anyone but the exporter: the audit file and the set of touched  *)
(* files only grow.                                                         *)
LEMMA AnchorFrame ==
  ASSUME ReadInv, AnchorResolved, UNCHANGED conf, UNCHANGED exportVars, touched \subseteq touched',
         \A i \in DOMAIN auditFile : i \in DOMAIN auditFile' /\ auditFile'[i] = auditFile[i]
  PROVE  ReadInv' /\ AnchorResolved'
  <1>1. phase' = phase /\ query' = query /\ bundle' = bundle /\ gap' = gap /\ conf' = conf
    BY DEF exportVars
  <1>2. ReadInv'
    <2> SUFFICES ASSUME phase = "resolve"
                 PROVE  /\ query.handed \in Inputs \cup {None}
                        /\ \E lines \in Seq({auditFile'[i] : i \in DOMAIN auditFile'}) : ReadFrom(bundle, lines)
      BY <1>1, Zenon DEF ReadInv
    <2> DEFINE S == {auditFile[i] : i \in DOMAIN auditFile}
               W == {auditFile'[i] : i \in DOMAIN auditFile'}
    <2>1. query.handed \in Inputs \cup {None} /\ \E lines \in Seq(S) : ReadFrom(bundle, lines)
      BY DEF ReadInv
    <2>2. \A x \in S : x \in W
      OBVIOUS
    <2> HIDE DEF S, W
    <2>3. PICK lines \in Seq(S) : ReadFrom(bundle, lines)
      BY <2>1
    <2>4. lines \in Seq(W)
      BY <2>2
    <2>5. QED
      BY <2>1, <2>3, <2>4 DEF W
  <1>3. SourcesDiffer' <=> SourcesDiffer
    BY <1>1 DEF SourcesDiffer
  <1>4. CheckDecisions(bundle)' <=> CheckDecisions(bundle)
    BY <1>1
  <1>5. AnchorResolved'
    BY <1>1, <1>3, <1>4 DEF AnchorResolved
  <1>6. QED
    BY <1>2, <1>5

(* The bundle as read from audit lines, and what completing it keeps. *)
LEMMA FilledFields ==
  ASSUME NEW lines
  PROVE  /\ FillFromAudit(lines).lines = lines
         /\ FillFromAudit(lines).record = None
         /\ lines = <<>> => FillFromAudit(lines).digest = None
         /\ lines # <<>> => FillFromAudit(lines).digest = lines[1].digest
  <1>1. PICK last, first, root : last = OutcomeOf(Last(lines)) /\ first = lines[1].digest /\ root = RootHex(<<>>)
    OBVIOUS
  <1>2. NoBundle = [lines |-> <<>>, outcome |-> "permit", decision |-> None, digest |-> None,
                    record |-> None, root |-> root, sigs |-> {}]
    BY <1>1, Zenon DEF NoBundle
  <1>3. CASE lines = <<>>
    BY <1>2, <1>3 DEF FillFromAudit
  <1>4. CASE lines # <<>>
    <2>1. FillFromAudit(lines) = [NoBundle EXCEPT !.lines = lines, !.outcome = last,
                                                  !.decision = last, !.digest = first]
      BY <1>1, <1>4, Zenon DEF FillFromAudit
    <2>2. QED
      BY <1>1, <1>2, <1>4, <2>1
  <1>5. QED
    BY <1>3, <1>4

LEMMA SignedFields ==
  ASSUME NEW b, BundleForm(b), NEW key
  PROVE  /\ SignBundle(b, key).lines = b.lines /\ SignBundle(b, key).record = b.record
         /\ SignBundle(b, key).digest = b.digest /\ SignBundle(b, key).decision = b.decision
  <1>1. CASE key = None
    BY <1>1 DEF SignBundle
  <1>2. CASE key # None
    <2>1. PICK s : SignBundle(b, key) = [b EXCEPT !.sigs = s]
      BY <1>2, Zenon DEF SignBundle
    <2>2. QED
      BY <2>1 DEF BundleForm
  <1>3. QED
    BY <1>1, <1>2

LEMMA RootedFields ==
  ASSUME NEW b, BundleForm(b), NEW x, NEW e, e = [b EXCEPT !.root = x]
  PROVE  /\ BundleForm(e) /\ e.lines = b.lines /\ e.record = b.record
         /\ e.digest = b.digest /\ e.decision = b.decision
  BY DEF BundleForm

LEMMA AppliedFields ==
  ASSUME NEW b, BundleForm(b), NEW rec
  PROVE  /\ BundleForm(ApplyRecord(b, rec))
         /\ ApplyRecord(b, rec).lines = b.lines /\ ApplyRecord(b, rec).record = rec
         /\ ApplyRecord(b, rec).digest = rec.digest /\ ApplyRecord(b, rec).decision = rec.says
  <1>1. PICK d, v : d = rec.digest /\ v = rec.says
    OBVIOUS
  <1>2. ApplyRecord(b, rec) = [b EXCEPT !.record = rec, !.digest = d, !.decision = v]
    BY <1>1, Zenon DEF ApplyRecord
  <1>3. ApplyRecord(b, rec)
          = [lines |-> b.lines, outcome |-> b.outcome, decision |-> v, digest |-> d,
             record |-> rec, root |-> b.root, sigs |-> b.sigs]
    BY <1>2 DEF BundleForm
  <1>4. QED
    BY <1>1, <1>3 DEF BundleForm

(* Without plugins that log their decisions, or when every query names an   *)
(* operation, an export reads no line without an anchor.                    *)
PlainExports == (\A c \in Deployments : ~c.plugins) \/ (\A q \in Queries : q.op # None)

(* The exporter reads the audit file. *)
LEMMA ReadAnchor ==
  ASSUME PlainExports, TypeOK, LinesInv, AnchorResolved, ReadAudit
  PROVE  ReadInv' /\ AnchorResolved'
  <1>1. UNCHANGED <<conf, auditFile, touched, gap>> /\ phase' = "resolve"
    BY DEF ReadAudit, storeVars
  <1>2. PICK q \in Queries : query' = q /\ bundle' = FillFromAudit(MatchingLines(auditFile, q))
    BY Zenon DEF ReadAudit
  <1>3. SourcesDiffer' <=> SourcesDiffer
    BY <1>1 DEF SourcesDiffer
  <1>4. AnchorResolved'
    BY <1>1, <1>3 DEF AnchorResolved
  <1> DEFINE S == {auditFile[i] : i \in DOMAIN auditFile}
             lines == MatchingLines(auditFile, q)
             M == {l \in S : MatchesAuditQuery(l, q)}
  <1>5. auditFile \in Seq(S)
    BY DEF TypeOK
  <1>6. \A l \in S : Anchored(l, conf)
    BY DEF LinesInv
  <1>7. q.handed \in Inputs \cup {None}
    BY QueriesAssumption
  <1>8. \A l \in M : l \in S /\ l.digest # None
    <2> SUFFICES ASSUME NEW l \in S, MatchesAuditQuery(l, q) PROVE l.digest # None
      OBVIOUS
    <2>1. Anchored(l, conf) /\ conf \in Deployments
      BY <1>6 DEF TypeOK
    <2>2. q.op # None => l.op # None
      BY DEF MatchesAuditQuery
    <2>3. QED
      BY <2>1, <2>2 DEF Anchored, PlainExports
  <1>9. lines \in Seq(M)
    <2> HIDE DEF S
    <2> QED
      BY <1>5, MatchingOf
  <1> HIDE DEF M, lines, S
  <1>10. lines \in Seq(S) /\ \A i \in DOMAIN lines : lines[i].digest # None
    BY <1>8, <1>9
  <1>11. ReadFrom(bundle', lines)
    BY <1>2, <1>10 DEF ReadFrom, lines
  <1>12. ReadInv'
    <2>1. query'.handed \in Inputs \cup {None}
      BY <1>2, <1>7
    <2>2. \E l \in Seq({auditFile'[i] : i \in DOMAIN auditFile'}) : ReadFrom(bundle', l)
      BY <1>1, <1>10, <1>11 DEF S
    <2>3. QED
      BY <2>1, <2>2, Zenon DEF ReadInv
  <1>13. QED
    BY <1>4, <1>12

(* The exporter completes and signs the bundle, or gives up. *)
LEMMA AssembleAnchor ==
  ASSUME TypeOK, PinInv, KeptInv, BundleInv, LinksInv, ReadInv, Assemble
  PROVE  ReadInv' /\ AnchorResolved'
  <1> DEFINE found == IF query.handed # None THEN {RecordWith(query.handed)}
                      ELSE IF bundle.digest # None THEN Resolve(bundle.digest) ELSE {}
             lost == query.handed = None /\ bundle.digest # None /\ found = {}
             b == IF found = {} THEN bundle ELSE ApplyRecord(bundle, CHOOSE p \in found : TRUE)
  <1>1. /\ phase = "resolve" /\ UNCHANGED <<conf, auditFile, touched, query>>
        /\ gap' = lost
        /\ bundle' = IF lost THEN NoBundle
                     ELSE SignBundle([b EXCEPT !.root = RootHex(b.lines)], SigningKey(conf))
        /\ phase' = IF lost THEN "failed" ELSE "done"
    BY Zenon DEF Assemble, storeVars
  <1> DEFINE S == {auditFile[i] : i \in DOMAIN auditFile}
  <1>2. PICK lines \in Seq(S) : ReadFrom(bundle, lines)
    BY <1>1 DEF ReadInv
  <1>3. /\ bundle.lines = lines /\ bundle.record = None
        /\ lines = <<>> => bundle.digest = None
        /\ lines # <<>> => bundle.digest = lines[1].digest
        /\ \A i \in DOMAIN lines : lines[i].digest # None
        /\ BundleForm(bundle)
    BY <1>2, FilledFields DEF ReadFrom, BundleInv
  <1>4. ASSUME bundle.digest # None
        PROVE  /\ 1 \in DOMAIN lines
               /\ \E i \in DOMAIN auditFile : auditFile[i].digest = bundle.digest
               /\ bundle.digest \in Inputs
    <2>1. lines # <<>> /\ bundle.digest = lines[1].digest
      BY <1>3, <1>4
    <2> HIDE DEF S
    <2>2. 1 \in DOMAIN lines /\ lines[1] \in S
      BY <2>1
    <2>3. PICK i \in DOMAIN auditFile : lines[1] = auditFile[i]
      BY <2>2 DEF S
    <2>4. auditFile[i].digest \in Inputs \cup {None}
      <3>1. auditFile \in Seq(Line)
        BY DEF TypeOK
      <3>2. auditFile[i] \in Line
        BY <3>1
      <3>3. QED
        BY <3>2 DEF Line
    <2>5. QED
      BY <1>4, <2>1, <2>2, <2>3, <2>4
  <1>5. phase' # "resolve"
    BY <1>1
  <1>6. ReadInv'
    BY <1>5 DEF ReadInv
  <1>7. ASSUME lost, SourcesDiffer
        PROVE  \E i \in DOMAIN auditFile : <<"decision", auditFile[i].digest>> \in touched
    <2> SUFFICES ASSUME \A i \in DOMAIN auditFile : <<"decision", auditFile[i].digest>> \notin touched
                 PROVE  FALSE
      OBVIOUS
    <2>1. bundle.digest # None /\ Resolve(bundle.digest) = {}
      BY <1>7
    <2>2. PICK i \in DOMAIN auditFile : auditFile[i].digest = bundle.digest
      BY <1>4, <2>1
    <2>3. Pins(auditFile[i], refs)
      BY DEF PinInv
    <2>4. PICK r \in Requests : \E k \in 1 .. Len(refs[r]) : refs[r][k] = bundle.digest
      BY <2>1, <2>2, <2>3 DEF Pins
    <2>5. Kept(bundle.digest, dir, touched, conf)
      BY <1>7, <2>4 DEF KeptInv
    <2>6. RecordWith(bundle.digest) \in Resolve(bundle.digest)
      BY <1>4, <2>1, <2>2, <2>5, KeptIsFound DEF Kept, TypeOK
    <2>7. QED
      BY <2>1, <2>6
  <1>8. ASSUME ~lost
        PROVE  /\ CheckDecisions(bundle')
               /\ query.handed = None /\ (\E i \in DOMAIN bundle'.lines : bundle'.lines[i].digest # None) =>
                    /\ bundle'.record # None
                    /\ \E i \in DOMAIN bundle'.lines : bundle'.lines[i].digest = bundle'.record.digest
    <2>1. BundleForm(b)
      <3>1. PICK p : p = CHOOSE x \in found : TRUE
        OBVIOUS
      <3>2. b = bundle \/ b = ApplyRecord(bundle, p)
        BY <3>1, Zenon
      <3> HIDE DEF b
      <3>3. BundleForm(bundle)
        BY <1>3
      <3>4. QED
        BY <3>2, <3>3, AppliedFields, Zenon
    <2>2. /\ bundle'.lines = b.lines /\ bundle'.record = b.record
          /\ bundle'.digest = b.digest /\ bundle'.decision = b.decision
      <3>1. PICK x, rooted, key : rooted = [b EXCEPT !.root = x] /\ bundle' = SignBundle(rooted, key)
        BY <1>1, <1>8, Zenon
      <3> HIDE DEF b
      <3>2. /\ BundleForm(rooted) /\ rooted.lines = b.lines /\ rooted.record = b.record
            /\ rooted.digest = b.digest /\ rooted.decision = b.decision
        BY <2>1, <3>1, RootedFields
      <3>3. QED
        BY <3>1, <3>2, SignedFields, Zenon
    <2>3. ASSUME NEW p, b = ApplyRecord(bundle, p), Reproduces(p)
          PROVE  CheckDecisions(bundle') /\ bundle'.record = p /\ bundle'.lines = lines
      <3> HIDE DEF b
      <3>1. b.lines = lines /\ b.record = p /\ b.digest = p.digest /\ b.decision = p.says
        <4>1. BundleForm(bundle) /\ bundle.lines = lines
          BY <1>3
        <4>2. QED
          BY <2>3, <4>1, AppliedFields, Zenon
      <3>2. QED
        BY <2>2, <2>3, <3>1 DEF CheckDecisions
    <2>4. CASE query.handed # None
      <3>1. found = {RecordWith(query.handed)}
        BY <2>4
      <3>2. b = ApplyRecord(bundle, RecordWith(query.handed))
        <4>1. (CHOOSE p \in found : TRUE) = RecordWith(query.handed)
          BY <3>1
        <4>2. found # {}
          BY <3>1
        <4>3. QED
          BY <4>1, <4>2
      <3>3. Reproduces(RecordWith(query.handed))
        BY DEF Reproduces, RecordWith, Predicate
      <3> HIDE DEF b, found
      <3>4. QED
        BY <2>3, <2>4, <3>2, <3>3
    <2>5. CASE query.handed = None /\ bundle.digest # None
      <3>1. found = Resolve(bundle.digest) /\ found # {}
        BY <1>8, <2>5
      <3>2. PICK p \in found : b = ApplyRecord(bundle, p)
        <4> HIDE DEF found
        <4> QED
          BY <3>1
      <3>3. p # None /\ p.digest = bundle.digest /\ Reproduces(p)
        BY <1>4, <2>5, <3>1, <3>2, LoadedIsRecord
      <3> HIDE DEF b, found
      <3>4. CheckDecisions(bundle') /\ bundle'.record = p /\ bundle'.lines = lines
        BY <2>3, <3>2, <3>3
      <3>5. 1 \in DOMAIN lines /\ lines[1].digest = p.digest
        BY <1>3, <1>4, <2>5, <3>3
      <3>6. QED
        BY <3>3, <3>4, <3>5
    <2>6. CASE query.handed = None /\ bundle.digest = None
      <3>1. found = {} /\ b = bundle
        BY <2>6
      <3>2. lines = <<>>
        <4>1. CASE lines # <<>>
          <5>1. 1 \in DOMAIN lines
            BY <4>1
          <5>2. QED
            BY <1>3, <2>6, <4>1, <5>1
        <4>2. QED
          BY <4>1
      <3> HIDE DEF b, found
      <3>3. bundle'.lines = <<>> /\ bundle'.record = None
        BY <1>3, <2>2, <3>1, <3>2
      <3>4. QED
        BY <3>3 DEF CheckDecisions
    <2>7. QED
      BY <2>4, <2>5, <2>6
  <1> HIDE DEF found, b, lost, S
  <1>9. SourcesDiffer' <=> SourcesDiffer
    BY <1>1 DEF SourcesDiffer
  <1>10. CASE lost
    <2>1. phase' # "done"
      BY <1>1, <1>10
    <2>2. QED
      BY <1>1, <1>6, <1>7, <1>9, <1>10, <2>1 DEF AnchorResolved
  <1>11. CASE ~lost
    <2>1. ~gap'
      BY <1>1, <1>11
    <2>2. QED
      BY <1>1, <1>6, <1>8, <1>11, <2>1 DEF AnchorResolved
  <1>12. QED
    BY <1>10, <1>11

(* Every step keeps the anchors. *)
LEMMA AnchorNext ==
  ASSUME PlainExports, IInv, AnchorInv, [Next]_vars
  PROVE  AnchorInv'
  <1> SUFFICES ASSUME TypeOK, EmissionInv, PinInv, KeptInv, FileInv, BundleInv,
                      LinesInv, LinksInv, ReadInv, AnchorResolved
               PROVE  AnchorInv'
    BY DEF IInv, AnchorInv
  <1>1. ASSUME UNCHANGED exportVars, NEW r \in Requests,
               Start(r) \/ OpenFile(r) \/ FillFile(r) \/ EmitFails(r) \/ Conclude(r)
        PROVE  AnchorInv'
    <2>1. UNCHANGED <<conf, touched, auditFile>>
      BY <1>1 DEF Start, OpenFile, FillFile, EmitFails, Conclude
    <2>2. ReadInv' /\ AnchorResolved'
      BY <1>1, <2>1, AnchorFrame
    <2>3. CASE Start(r) \/ Conclude(r)
      <3>1. dir' = dir
        BY <2>3 DEF Start, Conclude
      <3>2. LinesInv' /\ LinksInv'
        BY <2>3, <3>1, RequestLines DEF LinksInv
      <3>3. QED
        BY <2>2, <3>2 DEF AnchorInv
    <2>4. CASE OpenFile(r) \/ FillFile(r)
      <3>1. queued' = queued
        BY <2>4 DEF OpenFile, FillFile
      <3>2. LinesInv' /\ LinksInv'
        BY <2>1, <2>4, <3>1, WriteLinks DEF LinesInv
      <3>3. QED
        BY <2>2, <3>2 DEF AnchorInv
    <2>5. CASE EmitFails(r)
      <3>1. queued' = queued /\ dir' = dir
        BY <2>5 DEF EmitFails
      <3>2. LinesInv' /\ LinksInv'
        BY <2>1, <3>1 DEF LinesInv, LinksInv
      <3>3. QED
        BY <2>2, <3>2 DEF AnchorInv
    <2>6. QED
      BY <1>1, <2>3, <2>4, <2>5
  <1>2. ASSUME UNCHANGED exportVars, WriteAudit \/ Crash
        PROVE  AnchorInv'
    <2>1. UNCHANGED <<conf, touched, dir>>
      BY <1>2 DEF WriteAudit, Crash
    <2>2. /\ LinesInv'
          /\ \A i \in DOMAIN auditFile : i \in DOMAIN auditFile' /\ auditFile'[i] = auditFile[i]
      BY <1>2, LoggerLines
    <2>3. ReadInv' /\ AnchorResolved'
      BY <1>2, <2>1, <2>2, AnchorFrame
    <2>4. QED
      BY <2>1, <2>2, <2>3 DEF AnchorInv, LinksInv
  <1>3. ASSUME UNCHANGED exportVars, NEW n \in DOMAIN dir, AlterFile(n) \/ RemoveFile(n)
        PROVE  AnchorInv'
    <2>1. UNCHANGED <<conf, queued, auditFile>> /\ touched \subseteq touched'
      BY <1>3 DEF AlterFile, RemoveFile, Outside, requestVars
    <2>2. LinksInv'
      BY <1>3, OutsideLinks
    <2>3. ReadInv' /\ AnchorResolved'
      BY <1>3, <2>1, AnchorFrame
    <2>4. QED
      BY <2>1, <2>2, <2>3 DEF AnchorInv, LinesInv
  <1>4. ASSUME UNCHANGED exportVars,
               ScanBegin \/ ScanList \/ (\E n \in scan.todo : ScanFile(n)) \/ ScanLink
        PROVE  AnchorInv'
    <2>1. UNCHANGED <<conf, queued, auditFile, touched, dir>>
      BY <1>4 DEF ScanBegin, ScanList, ScanFile, ScanLink, requestVars
    <2>2. ReadInv' /\ AnchorResolved'
      BY <1>4, <2>1, AnchorFrame
    <2>3. QED
      BY <2>1, <2>2 DEF AnchorInv, LinesInv, LinksInv
  <1>5. ASSUME ReadAudit \/ Assemble \/ UNCHANGED vars
        PROVE  AnchorInv'
    <2>1. UNCHANGED <<conf, queued, auditFile, touched, dir>>
      BY <1>5 DEF ReadAudit, Assemble, vars, storeVars, requestVars
    <2>2. ReadInv' /\ AnchorResolved'
      <3>1. CASE ReadAudit
        BY <3>1, ReadAnchor
      <3>2. CASE Assemble
        BY <3>2, AssembleAnchor
      <3>3. CASE UNCHANGED vars
        <4>1. UNCHANGED exportVars
          BY <3>3 DEF vars
        <4>2. QED
          BY <2>1, <4>1, AnchorFrame
      <3>4. QED
        BY <1>5, <3>1, <3>2, <3>3
    <2>3. QED
      BY <2>1, <2>2 DEF AnchorInv, LinesInv, LinksInv
  <1>6. QED
    BY <1>1, <1>2, <1>3, <1>4, <1>5 DEF Next, StoreNext

(* Whoever exports a bundle over an audit chain that pins a record gets that *)
(* record, with a summary that agrees with it; the export fails for a        *)
(* missing record only if someone outside took it away.  The hypothesis is   *)
(* needed: a plugin's own line has no anchor, and where an export by agent   *)
(* begins with one, the code looks for no record.                            *)
THEOREM AnchorResolvedHolds ==
  ASSUME PlainExports
  PROVE  Spec => []AnchorResolved
  <1>1. Init => AnchorInv
    <2> SUFFICES ASSUME Init PROVE AnchorInv
      OBVIOUS
    <2>1. DOMAIN queued = {} /\ DOMAIN auditFile = {} /\ DOMAIN dir = {}
      BY DEF Init, StoreInit
    <2>2. phase = "idle" /\ gap = FALSE
      BY DEF Init
    <2>3. QED
      BY <2>1, <2>2 DEF AnchorInv, LinesInv, LinksInv, ReadInv, AnchorResolved
  <1>2. IInv /\ AnchorInv /\ [Next]_vars => AnchorInv'
    BY AnchorNext
  <1>3. AnchorInv => AnchorResolved
    BY DEF AnchorInv
  <1>4. QED
    BY <1>1, <1>2, <1>3, IInvInvariant, PTL DEF Spec

-------------------------------------------------------------------------------
(* The reader's report: the further invariant, for sources that differ *)

(* The names of the files r has still to create. *)
ToCome(r, n) ==
  \/ /\ pc[r] \in {"start", "emit"}
     /\ \E j \in 1 .. Len(conf.load[r]) :
          j > (IF mu = r THEN Len(refs[r]) + 1 ELSE Len(refs[r])) /\ n = <<"decision", conf.load[r][j]>>
  \/ /\ pc[r] \in {"start", "emit", "emitted"} \/ (pc[r] = "admission" /\ mu # r)
     /\ n = <<"admission", NewAdmissionRecord(r)>>
  \/ /\ pc[r] \in {"start", "emit", "emitted"} \/ (pc[r] = "outcome" /\ mu # r)
     /\ \E link \in Inputs \cup {None} : n = <<"outcome", NewOutcomeRecord(r, link)>>

(* A file is created once: its name is not in use before. *)
Used == DOMAIN dir \cup touched \cup DOMAIN scan.snapshot
FreshInv == \A r \in Requests : \A n \in Used : ~ToCome(r, n)

(* The record of a request past its decisions, and the file being written. *)
StageInv ==
  \A r \in Requests :
    /\ pc[r] = "admission" => record[r] = NewAdmissionRecord(r)
    /\ pc[r] = "outcome" => record[r] = NewOutcomeRecord(r, FirstRef(r))
    /\ mu = r => /\ FileName(record[r]) \in DOMAIN dir \ touched
                 /\ dir[FileName(record[r])] = Torn

(* An edit leaves its mark in the payload, or loses the signature. *)
Tampered(p) ==
  p.pred.says = "" \/ p.pred.link \in Planted \/ p.pred.digest \in Planted \/ p.ptype # p.pred.ver
TamperInv ==
  /\ \A p \in written : ~Tampered(p)
  /\ \A n \in DOMAIN dir :
       dir[n] # Torn /\ dir[n].payload.pred.ver = "admission" => dir[n].payload.ptype = "admission"
  /\ \A n \in DOMAIN dir \cap touched :
       dir[n] # Torn => Tampered(dir[n].payload) \/ \A s \in dir[n].sigs : s.key # SigningKey(conf)

(* What the snapshot held is still there unless someone outside interfered. *)
SnapInv ==
  /\ faults \in Nat /\ scan.at \in Nat /\ scan.at <= faults
  /\ scan.phase \in {"list", "files", "done"} /\ scan.at = faults =>
       \A n \in InSnapshot : n \in DOMAIN dir /\ dir[n] = scan.snapshot[n]

(* Before the reading there is nothing to show for it. *)
BeginInv ==
  /\ scan.phase \in {"idle", "list"} =>
       scan.counted = {} /\ scan.outcomes = {} /\ scan.failures = {}
  /\ scan.phase # "files" => scan.todo = {}

(* What the first pass has made of the snapshot's files so far: each was    *)
(* counted, set aside or failed as the snapshot has it, and a decision is   *)
(* counted only from its own file.                                          *)
ReadAs(n, env) ==
  /\ Verified(env) = "error" => n \in scan.failures
  /\ Verified(env) \in {"decision", "admission"} => env \in scan.counted
  /\ Verified(env) = "outcome" => <<n, env>> \in scan.outcomes
SetAside(o) ==
  Verified(o[2]) = "outcome" /\ (o[1] \in InSnapshot => o[2] = scan.snapshot[o[1]])
PassInv ==
  scan.phase = "files" /\ scan.at = faults =>
    /\ \A n \in InSnapshot \ scan.todo : ReadAs(n, scan.snapshot[n])
    /\ \A n \in InSnapshot \cap scan.failures : Verified(scan.snapshot[n]) = "error"
    /\ \A o \in scan.outcomes : SetAside(o)
    /\ \A d \in Decisions(scan.counted) : <<"decision", d>> \in DOMAIN dir \ touched

(* The report, file by file. *)
HasDecision(link) ==
  \E m \in InSnapshot : Verified(scan.snapshot[m]) = "decision" /\ scan.snapshot[m].payload.pred.digest = link
Reported(n, env) ==
  /\ Verified(env) = "error" => n \in scan.failures
  /\ Verified(env) \in {"decision", "admission"} => n \notin scan.failures /\ env \in scan.counted
  /\ Verified(env) = "outcome" /\ HasDecision(env.payload.pred.link) =>
       n \notin scan.failures /\ env \in scan.counted
  /\ Verified(env) = "outcome" /\ <<"decision", env.payload.pred.link>> \notin DOMAIN dir \ touched =>
       n \in scan.failures
DoneInv ==
  scan.phase = "done" /\ scan.at = faults => \A n \in InSnapshot : Reported(n, scan.snapshot[n])

ReportInv == FreshInv /\ StageInv /\ TamperInv /\ SnapInv /\ BeginInv /\ PassInv /\ DoneInv

-------------------------------------------------------------------------------
(* A file is created once *)

(* A step leaves fewer names to come. *)
LEMMA FewerFrame ==
  ASSUME NEW q, conf' = conf, pc'[q] = pc[q], refs'[q] = refs[q], mu = q => mu' = q,
         refs[q] \in Seq(Inputs), NEW n, ToCome(q, n)'
  PROVE  ToCome(q, n)
  <1>1. Len(refs[q]) \in Nat
    OBVIOUS
  <1>2. QED
    BY <1>1 DEF ToCome

LEMMA FewerAfter ==
  ASSUME NEW r, conf' = conf, refs[r] \in Seq(Inputs), refs'[r] \in Seq(Inputs), mu' # r,
         \/ pc[r] = "start" /\ pc'[r] \in {"emit", "emitted", "admission"} /\ refs'[r] = refs[r] /\ mu # r
         \/ pc[r] = "emit" /\ pc'[r] = "emit" /\ Len(refs'[r]) = Len(refs[r]) + 1
         \/ pc[r] = "emit" /\ pc'[r] = "emitted"
         \/ pc[r] = "emitted" /\ pc'[r] \in {"admission", "outcome", "done"}
         \/ pc'[r] = "done",
         NEW n, ToCome(r, n)'
  PROVE  ToCome(r, n)
  <1>1. Len(refs[r]) \in Nat /\ Len(refs'[r]) \in Nat
    OBVIOUS
  <1>2. CASE pc[r] = "start" /\ pc'[r] \in {"emit", "emitted", "admission"} /\ refs'[r] = refs[r] /\ mu # r
    BY <1>1, <1>2 DEF ToCome
  <1>3. CASE pc[r] = "emit" /\ pc'[r] = "emit" /\ Len(refs'[r]) = Len(refs[r]) + 1
    BY <1>1, <1>3 DEF ToCome
  <1>4. CASE pc[r] = "emit" /\ pc'[r] = "emitted"
    BY <1>4 DEF ToCome
  <1>5. CASE pc[r] = "emitted" /\ pc'[r] \in {"admission", "outcome", "done"}
    BY <1>5 DEF ToCome
  <1>6. CASE pc'[r] = "done"
    BY <1>6 DEF ToCome
  <1>7. QED
    BY <1>2, <1>3, <1>4, <1>5, <1>6

(* How a request moves on after a record. *)
LEMMA MovesOn ==
  ASSUME TypeOK, EmissionInv, NEW r \in Requests, FillFile(r) \/ EmitFails(r)
  PROVE  /\ \A q \in Requests \ {r} : pc'[q] = pc[q] /\ refs'[q] = refs[q] /\ record'[q] = record[q]
         /\ \/ pc[r] = "emit" /\ pc'[r] = "emit" /\ Len(refs'[r]) = Len(refs[r]) + 1
            \/ pc[r] = "emit" /\ pc'[r] = "emitted"
            \/ pc'[r] = "done"
  <1>1. PICK ok \in BOOLEAN : AfterRecord(r, ok)
    BY DEF FillFile, EmitFails
  <1>2. record[r] # None /\ UNCHANGED <<conf, written>> /\ mu' = NoOne
    BY DEF FillFile, EmitFails, EmissionInv, Emission
  <1>3. /\ refs[r] \in Seq(Inputs) /\ pc \in [Requests -> Stages]
        /\ refs \in [Requests -> Seq(Inputs)] /\ record \in [Requests -> Records \cup {None}]
    BY DEF TypeOK
  <1>4. \A q \in Requests \ {r} : refs'[q] = refs[q]
    BY <1>1, <1>2, AfterRecordFacts
  <1>5. CASE pc[r] # "emit"
    <2>1. Goto(r, "done", None)
      BY <1>1, <1>5 DEF AfterRecord
    <2>2. QED
      BY <1>3, <1>4, <2>1 DEF Goto
  <1>6. CASE pc[r] = "emit"
    <2>1. /\ refs' = IF ok THEN [refs EXCEPT ![r] = Append(refs[r], record[r].digest)] ELSE refs
          /\ IF ok /\ Len(refs[r]) + 1 < Len(conf.load[r])
               THEN Goto(r, "emit", RecordWith(conf.load[r][Len(refs[r]) + 1 + 1]))
               ELSE Goto(r, "emitted", None)
      BY <1>1, <1>6 DEF AfterRecord
    <2>2. CASE ok /\ Len(refs[r]) + 1 < Len(conf.load[r])
      <3>1. PICK rec : Goto(r, "emit", rec)
        BY <2>1, <2>2
      <3>2. /\ pc'[r] = "emit"
            /\ \A q \in Requests \ {r} : pc'[q] = pc[q] /\ record'[q] = record[q]
        BY <1>3, <3>1 DEF Goto
      <3>3. PICK d : refs'[r] = Append(refs[r], d)
        BY <1>3, <2>1, <2>2
      <3>4. Len(refs'[r]) = Len(refs[r]) + 1
        BY <1>3, <3>3
      <3>5. QED
        BY <1>4, <1>6, <3>2, <3>4
    <2>3. CASE ~(ok /\ Len(refs[r]) + 1 < Len(conf.load[r]))
      <3>1. Goto(r, "emitted", None)
        BY <2>1, <2>3
      <3>2. /\ pc'[r] = "emitted"
            /\ \A q \in Requests \ {r} : pc'[q] = pc[q] /\ record'[q] = record[q]
        BY <1>3, <3>1 DEF Goto
      <3>3. QED
        BY <1>4, <1>6, <3>2
    <2>4. QED
      BY <2>2, <2>3
  <1>7. QED
    BY <1>5, <1>6

(* The name being created was to come, and is to come no more: the inputs   *)
(* of other requests differ, and so do those of its own sources.            *)
LEMMA NowUsed ==
  ASSUME TypeOK, EmissionInv, StageInv, SourcesDiffer, NEW r \in Requests, OpenFile(r)
  PROVE  /\ ToCome(r, FileName(record[r]))
         /\ \A q \in Requests : ~ToCome(q, FileName(record[r]))'
  <1>1. /\ record[r] # None /\ mu' = r /\ mu # r /\ UNCHANGED <<conf, pc, refs, record>>
    BY MarkersAssumption DEF OpenFile
  <1>2. /\ pc[r] \in Stages /\ Emission(r) /\ refs[r] \in Seq(Inputs) /\ conf.load[r] \in Seq(Inputs)
        /\ \A q \in Requests : conf.load[q] \in Seq(Inputs)
    BY ConfFacts DEF TypeOK, EmissionInv
  <1>3. pc[r] \in {"emit", "admission", "outcome"}
    BY <1>1, <1>2 DEF Emission, Stages
  <1>4. CASE pc[r] = "emit"
    <2> DEFINE m == Len(refs[r]) + 1
    <2>1. m \in DOMAIN conf.load[r] /\ m \in 1 .. Len(conf.load[r]) /\ record[r] = RecordWith(conf.load[r][m])
      BY <1>2, <1>4 DEF Emission
    <2>2. FileName(record[r]) = <<"decision", conf.load[r][m]>>
      BY <2>1 DEF FileName, RecordWith, Predicate
    <2>3. ToCome(r, FileName(record[r]))
      <3>1. m > Len(refs[r])
        BY <1>2
      <3>2. QED
        BY <1>1, <1>4, <2>1, <2>2, <3>1 DEF ToCome
    <2>4. ASSUME NEW q \in Requests, ToCome(q, FileName(record[r]))' PROVE FALSE
      <3>1. PICK j \in 1 .. Len(conf.load[q]) :
              /\ j > (IF mu' = q THEN Len(refs[q]) + 1 ELSE Len(refs[q]))
              /\ <<"decision", conf.load[r][m]>> = <<"decision", conf.load[q][j]>>
        BY <1>1, <2>2, <2>4 DEF ToCome
      <3>2. conf.load[r][m] = conf.load[q][j] /\ j \in DOMAIN conf.load[q]
        BY <1>2, <3>1
      <3>3. q = r
        BY <2>1, <3>2, ConfFacts DEF Range
      <3>4. j = m
        BY <2>1, <3>2, <3>3 DEF SourcesDiffer, IsInjective
      <3>5. QED
        BY <1>1, <1>2, <3>1, <3>3, <3>4
    <2>5. QED
      BY <2>3, <2>4
  <1>5. CASE pc[r] = "admission"
    <2>1. record[r] = NewAdmissionRecord(r)
      BY <1>5 DEF StageInv
    <2>2. FileName(record[r]) = <<"admission", NewAdmissionRecord(r)>>
      BY <2>1 DEF FileName, NewAdmissionRecord, Predicate
    <2>3. ToCome(r, FileName(record[r]))
      BY <1>1, <1>5, <2>2 DEF ToCome
    <2>4. ASSUME NEW q \in Requests, ToCome(q, FileName(record[r]))' PROVE FALSE
      <3>1. /\ pc[q] \in {"start", "emit", "emitted"} \/ (pc[q] = "admission" /\ mu' # q)
            /\ <<"admission", NewAdmissionRecord(r)>> = <<"admission", NewAdmissionRecord(q)>>
        BY <1>1, <2>2, <2>4 DEF ToCome
      <3>2. NewAdmissionRecord(r) = NewAdmissionRecord(q)
        BY <3>1
      <3>3. q = r
        BY <3>2 DEF NewAdmissionRecord, Predicate
      <3>4. QED
        BY <1>1, <1>5, <3>1, <3>3
    <2>5. QED
      BY <2>3, <2>4
  <1>6. CASE pc[r] = "outcome"
    <2>1. record[r] = NewOutcomeRecord(r, FirstRef(r)) /\ FirstRef(r) \in Inputs \cup {None}
      BY <1>2, <1>6 DEF StageInv, FirstRef
    <2>2. FileName(record[r]) = <<"outcome", NewOutcomeRecord(r, FirstRef(r))>>
      BY <2>1 DEF FileName, NewOutcomeRecord, Predicate
    <2>3. ToCome(r, FileName(record[r]))
      BY <1>1, <1>6, <2>1, <2>2 DEF ToCome
    <2>4. ASSUME NEW q \in Requests, ToCome(q, FileName(record[r]))' PROVE FALSE
      <3>1. PICK f : f = FirstRef(r)
        OBVIOUS
      <3>2. FileName(record[r])' = <<"outcome", NewOutcomeRecord(r, f)>>
        BY <1>1, <2>2, <3>1
      <3>3. PICK l : /\ pc[q] \in {"start", "emit", "emitted"} \/ (pc[q] = "outcome" /\ mu' # q)
                     /\ <<"outcome", NewOutcomeRecord(r, f)>> = <<"outcome", NewOutcomeRecord(q, l)>>
        BY <1>1, <2>4, <3>2 DEF ToCome
      <3>4. NewOutcomeRecord(r, f) = NewOutcomeRecord(q, l)
        BY <3>3
      <3>5. q = r
        BY <3>4 DEF NewOutcomeRecord, Predicate
      <3>6. QED
        BY <1>1, <1>6, <3>3, <3>5
    <2>5. QED
      BY <2>3, <2>4
  <1>7. QED
    BY <1>3, <1>4, <1>5, <1>6

(* Names in use stay the same, or one that was to come joins them. *)
LEMMA FreshFrame ==
  ASSUME FreshInv, \A n \in Used' : n \in Used,
         \A q \in Requests : \A n : ToCome(q, n)' => ToCome(q, n)
  PROVE  FreshInv'
  BY DEF FreshInv

LEMMA OpenFresh ==
  ASSUME TypeOK, EmissionInv, StageInv, SourcesDiffer, FreshInv, NEW r \in Requests, OpenFile(r)
  PROVE  FreshInv' /\ FileName(record[r]) \notin Used
  <1>1. /\ mu' = r /\ mu = NoOne /\ UNCHANGED <<conf, pc, refs, record, touched, scan>>
        /\ dir' = Set(dir, FileName(record[r]), Torn)
    BY DEF OpenFile
  <1>2. PICK n : n = FileName(record[r])
    OBVIOUS
  <1>3. DOMAIN dir' = DOMAIN dir \cup {n}
    BY <1>1, <1>2 DEF Set
  <1>4. \A m \in Used' : m \in Used \/ m = n
    BY <1>1, <1>3 DEF Used
  <1>5. ToCome(r, n) /\ \A q \in Requests : ~ToCome(q, n)'
    BY <1>1, <1>2, NowUsed
  <1>6. \A q \in Requests : mu # q /\ refs[q] \in Seq(Inputs)
    BY <1>1, MarkersAssumption DEF TypeOK
  <1>7. \A q \in Requests : \A m : ToCome(q, m)' => ToCome(q, m)
    BY <1>1, <1>6, FewerFrame
  <1>8. FreshInv'
    BY <1>4, <1>5, <1>7 DEF FreshInv
  <1>9. n \notin Used
    BY <1>5 DEF FreshInv
  <1>10. QED
    BY <1>2, <1>8, <1>9

(* The other steps of the requests, and a crash. *)
LEMMA MoveFewer ==
  ASSUME TypeOK, EmissionInv, NEW r \in Requests,
         Start(r) \/ FillFile(r) \/ EmitFails(r) \/ Conclude(r)
  PROVE  \A q \in Requests : \A n : ToCome(q, n)' => ToCome(q, n)
  <1>1. /\ conf' = conf /\ Emission(r) /\ NoOne \notin Requests
        /\ pc \in [Requests -> Stages] /\ refs \in [Requests -> Seq(Inputs)]
    BY MarkersAssumption DEF Start, FillFile, EmitFails, Conclude, TypeOK, EmissionInv
  <1>2. CASE Start(r)
    <2>1. pc[r] = "start" /\ UNCHANGED <<mu, refs>> /\ mu # r
      BY <1>1, <1>2 DEF Start, Emission
    <2>2. PICK stage \in {"emit", "emitted", "admission"} : \E rec : Goto(r, stage, rec)
      BY <1>2 DEF Start
    <2>3. pc'[r] = stage /\ \A q \in Requests \ {r} : pc'[q] = pc[q]
      BY <1>1, <2>2 DEF Goto
    <2>4. QED
      BY <1>1, <2>1, <2>3, FewerFrame, FewerAfter
  <1>3. CASE Conclude(r)
    <2>1. pc[r] = "emitted" /\ UNCHANGED <<mu, refs>> /\ mu # r
      BY <1>1, <1>3 DEF Conclude, Emission
    <2>2. PICK stage \in {"admission", "outcome", "done"} : \E rec : Goto(r, stage, rec)
      BY <1>3 DEF Conclude, Refused
    <2>3. pc'[r] = stage /\ \A q \in Requests \ {r} : pc'[q] = pc[q]
      BY <1>1, <2>2 DEF Goto
    <2>4. QED
      BY <1>1, <2>1, <2>3, FewerFrame, FewerAfter
  <1>4. CASE FillFile(r) \/ EmitFails(r)
    <2>1. mu' = NoOne /\ mu \in {NoOne, r}
      BY <1>4 DEF FillFile, EmitFails
    <2>2. refs'[r] \in Seq(Inputs)
      <3>1. PICK ok \in BOOLEAN : AfterRecord(r, ok)
        BY <1>4 DEF FillFile, EmitFails
      <3>2. record[r] # None /\ written' = written
        BY <1>1, <1>4 DEF FillFile, EmitFails, Emission
      <3>3. refs' \in [Requests -> Seq(Inputs)]
        BY <1>1, <2>1, <3>1, <3>2, AfterRecordFacts
      <3>4. QED
        BY <3>3
    <2>3. /\ \A q \in Requests \ {r} : pc'[q] = pc[q] /\ refs'[q] = refs[q]
          /\ \/ pc[r] = "emit" /\ pc'[r] = "emit" /\ Len(refs'[r]) = Len(refs[r]) + 1
             \/ pc[r] = "emit" /\ pc'[r] = "emitted"
             \/ pc'[r] = "done"
      BY <1>4, MovesOn
    <2>4. mu' # r /\ \A q \in Requests \ {r} : mu # q
      BY <1>1, <2>1
    <2>5. QED
      BY <1>1, <2>2, <2>3, <2>4, FewerFrame, FewerAfter
  <1>5. QED
    BY <1>2, <1>3, <1>4

LEMMA CrashFewer ==
  ASSUME TypeOK, EmissionInv, Crash
  PROVE  \A q \in Requests : \A n : ToCome(q, n)' => ToCome(q, n)
  <1> SUFFICES ASSUME NEW q \in Requests, NEW n, ToCome(q, n)' PROVE ToCome(q, n)
    OBVIOUS
  <1>1. /\ UNCHANGED <<conf, refs>> /\ mu' = NoOne
        /\ pc'[q] = IF pc[q] = "start" THEN "start" ELSE "done"
    BY DEF Crash
  <1>2. Emission(q) /\ refs[q] \in Seq(Inputs) /\ mu' # q
    BY <1>1, MarkersAssumption DEF EmissionInv, TypeOK
  <1>3. CASE pc[q] = "start"
    <2>1. mu # q
      BY <1>2, <1>3 DEF Emission
    <2>2. QED
      BY <1>1, <1>2, <1>3, <2>1, FewerFrame
  <1>4. CASE pc[q] # "start"
    BY <1>1, <1>2, <1>4, FewerAfter
  <1>5. QED
    BY <1>3, <1>4

(* The record and the file of a request in each stage. *)
LEMMA StageFrame ==
  ASSUME StageInv,
         \A q \in Requests :
           /\ pc'[q] = "admission" => record'[q] = NewAdmissionRecord(q)
           /\ pc'[q] = "outcome" => record'[q] = NewOutcomeRecord(q, FirstRef(q)')
           /\ mu' = q => mu = q /\ record'[q] = record[q],
         \A n \in DOMAIN dir \ touched : dir[n] = Torn => n \in DOMAIN dir' \ touched' /\ dir'[n] = Torn
  PROVE  StageInv'
  BY DEF StageInv

LEMMA OpenStage ==
  ASSUME TypeOK, EmissionInv, StageInv, SourcesDiffer, FreshInv, NEW r \in Requests, OpenFile(r)
  PROVE  StageInv'
  <1>1. /\ mu' = r /\ UNCHANGED <<pc, refs, record, touched>>
        /\ dir' = Set(dir, FileName(record[r]), Torn)
    BY DEF OpenFile
  <1>2. PICK n : n = FileName(record[r])
    OBVIOUS
  <1>3. n \in DOMAIN dir' /\ dir'[n] = Torn
    BY <1>1, <1>2 DEF Set
  <1>4. n \notin touched
    BY <1>2, OpenFresh DEF Used
  <1>5. FirstRef(r)' = FirstRef(r) /\ \A q \in Requests : FirstRef(q)' = FirstRef(q)
    BY <1>1 DEF FirstRef
  <1>6. QED
    BY <1>1, <1>2, <1>3, <1>4, <1>5 DEF StageInv

LEMMA MoveStage ==
  ASSUME TypeOK, EmissionInv, StageInv, NEW r \in Requests,
         Start(r) \/ FillFile(r) \/ EmitFails(r) \/ Conclude(r)
  PROVE  StageInv'
  <1>1. /\ Emission(r) /\ NoOne \notin Requests /\ UNCHANGED touched
        /\ pc \in [Requests -> Stages] /\ record \in [Requests -> Records \cup {None}]
    BY MarkersAssumption DEF Start, FillFile, EmitFails, Conclude, TypeOK, EmissionInv
  <1>2. CASE Start(r) \/ Conclude(r)
    <2>1. UNCHANGED <<mu, refs, dir>> /\ mu # r
      BY <1>1, <1>2 DEF Start, Conclude, Emission
    <2>2. \/ Goto(r, "admission", NewAdmissionRecord(r))
          \/ Goto(r, "outcome", NewOutcomeRecord(r, FirstRef(r)))
          \/ \E stage \in {"emit", "emitted", "done"} : \E rec : Goto(r, stage, rec)
      <3>1. CASE Start(r)
        BY <3>1 DEF Start
      <3>2. CASE Conclude(r)
        BY <3>2 DEF Conclude, Refused
      <3>3. QED
        BY <1>2, <3>1, <3>2
    <2>3. /\ pc'[r] = "admission" => record'[r] = NewAdmissionRecord(r)
          /\ pc'[r] = "outcome" => record'[r] = NewOutcomeRecord(r, FirstRef(r))
          /\ \A q \in Requests \ {r} : pc'[q] = pc[q] /\ record'[q] = record[q]
      BY <1>1, <2>2 DEF Goto
    <2>4. \A q \in Requests : FirstRef(q)' = FirstRef(q)
      BY <2>1 DEF FirstRef
    <2>5. \A q \in Requests :
           /\ pc'[q] = "admission" => record'[q] = NewAdmissionRecord(q)
           /\ pc'[q] = "outcome" => record'[q] = NewOutcomeRecord(q, FirstRef(q)')
           /\ mu' = q => mu = q /\ record'[q] = record[q]
      BY <2>1, <2>3, <2>4 DEF StageInv
    <2>6. QED
      BY <1>1, <2>1, <2>5, StageFrame
  <1>3. CASE FillFile(r) \/ EmitFails(r)
    <2>1. mu' = NoOne
      BY <1>3 DEF FillFile, EmitFails
    <2>2. /\ \A q \in Requests \ {r} : pc'[q] = pc[q] /\ refs'[q] = refs[q] /\ record'[q] = record[q]
          /\ pc'[r] \in {"emit", "emitted", "done"}
      BY <1>3, MovesOn
    <2>3. \A q \in Requests \ {r} : FirstRef(q)' = FirstRef(q)
      BY <2>2 DEF FirstRef
    <2>4. \A q \in Requests :
           /\ pc'[q] = "admission" => record'[q] = NewAdmissionRecord(q)
           /\ pc'[q] = "outcome" => record'[q] = NewOutcomeRecord(q, FirstRef(q)')
           /\ mu' # q
      BY <1>1, <2>1, <2>2, <2>3 DEF StageInv
    <2>5. QED
      BY <2>4 DEF StageInv
  <1>4. QED
    BY <1>2, <1>3

LEMMA CrashStage ==
  ASSUME Crash
  PROVE  StageInv'
  <1>1. /\ mu' = NoOne /\ NoOne \notin Requests
        /\ \A q \in Requests : pc'[q] \in {"start", "done"}
    BY MarkersAssumption DEF Crash
  <1>2. QED
    BY <1>1 DEF StageInv

LEMMA OutsideStage ==
  ASSUME StageInv, NEW n \in DOMAIN dir, AlterFile(n) \/ RemoveFile(n)
  PROVE  StageInv'
  <1>1. UNCHANGED <<pc, mu, record, refs>> /\ touched' = touched \cup {n} /\ dir[n] # Torn
    BY DEF AlterFile, RemoveFile, Outside, requestVars
  <1>2. \A m \in DOMAIN dir \ {n} : m \in DOMAIN dir' /\ dir'[m] = dir[m]
    <2>1. CASE AlterFile(n)
      <3>1. PICK e : dir' = [dir EXCEPT ![n] = e]
        BY <2>1, Zenon DEF AlterFile
      <3>2. QED
        BY <3>1
    <2>2. CASE RemoveFile(n)
      <3>1. dir' = Restrict(dir, DOMAIN dir \ {n})
        BY <2>2 DEF RemoveFile
      <3>2. QED
        BY <3>1 DEF Restrict
    <2>3. QED
      BY <2>1, <2>2
  <1>3. \A q \in Requests : FirstRef(q)' = FirstRef(q)
    BY <1>1 DEF FirstRef
  <1>4. \A q \in Requests :
          /\ pc'[q] = "admission" => record'[q] = NewAdmissionRecord(q)
          /\ pc'[q] = "outcome" => record'[q] = NewOutcomeRecord(q, FirstRef(q)')
          /\ mu' = q => mu = q /\ record'[q] = record[q]
    BY <1>1, <1>3 DEF StageInv
  <1>5. QED
    BY <1>1, <1>2, <1>4, StageFrame

-------------------------------------------------------------------------------
(* Edits leave a mark *)

(* What a request of this verifier seals bears none. *)
LEMMA SealedUnmarked ==
  ASSUME TypeOK, EmissionInv, StageInv, NEW r \in Requests, record[r] # None
  PROVE  LET p == Seal(record[r], conf).payload
         IN ~Tampered(p) /\ p.ptype = p.pred.ver
  <1>1. /\ record[r] \in Records /\ pc[r] \in Stages /\ Emission(r)
        /\ refs[r] \in Seq(Inputs) /\ conf.load[r] \in Seq(Inputs)
    BY ConfFacts DEF TypeOK, EmissionInv
  <1>2. pc[r] \in {"emit", "admission", "outcome"}
    BY <1>1 DEF Emission, Stages
  <1>3. None \notin Planted /\ \A k \in DOMAIN conf.load[r] : conf.load[r][k] \notin Planted
    BY MarkersAssumption DEF Planted, Range
  <1>4. PICK rec : rec = record[r]
    OBVIOUS
  <1>5. rec.says # "" /\ rec.link \notin Planted /\ rec.digest \notin Planted
    <2>1. CASE pc[r] = "emit"
      <3>1. PICK k \in DOMAIN conf.load[r] : rec = RecordWith(conf.load[r][k])
        BY <1>1, <1>4, <2>1 DEF Emission
      <3>2. PICK i : i = conf.load[r][k]
        OBVIOUS
      <3>3. rec.link = None /\ rec.digest = i /\ rec.says \in {"allow", "deny"}
        BY <3>1, <3>2 DEF RecordWith, Predicate, Evaluate
      <3>4. QED
        BY <1>3, <3>2, <3>3
    <2>2. CASE pc[r] = "admission"
      <3>1. rec = NewAdmissionRecord(r)
        BY <1>4, <2>2 DEF StageInv
      <3>2. rec.link = None /\ rec.digest = None /\ rec.says = "refused"
        BY <3>1 DEF NewAdmissionRecord, Predicate
      <3>3. QED
        BY <1>3, <3>2
    <2>3. CASE pc[r] = "outcome"
      <3>1. PICK f : f = FirstRef(r) /\ rec = NewOutcomeRecord(r, f)
        BY <1>4, <2>3 DEF StageInv
      <3>2. rec.link = f /\ rec.digest = None /\ rec.says = "observed"
        BY <3>1 DEF NewOutcomeRecord, Predicate
      <3>3. f = None \/ \E k \in DOMAIN conf.load[r] : f = conf.load[r][k]
        <4>1. CASE refs[r] = <<>>
          BY <3>1, <4>1 DEF FirstRef
        <4>2. CASE refs[r] # <<>>
          <5>1. f = refs[r][1] /\ 1 \in 1 .. Len(refs[r]) /\ 1 \in DOMAIN conf.load[r]
            BY <1>1, <3>1, <4>2 DEF FirstRef, Emission
          <5>2. QED
            BY <1>1, <5>1 DEF Emission
        <4>3. QED
          BY <4>1, <4>2
      <3>4. QED
        BY <1>3, <3>2, <3>3
    <2>4. QED
      BY <1>2, <2>1, <2>2, <2>3
  <1>6. PICK st : st = Seal(rec, conf).payload
    OBVIOUS
  <1>7. st = Statement(rec.ver, Binding(rec) \cup Tags(conf), rec)
    BY <1>6, SealForm
  <1>8. st.ptype = rec.ver /\ st.pred = rec
    BY <1>7 DEF Statement
  <1>9. ~Tampered(st) /\ st.ptype = st.pred.ver
    BY <1>5, <1>8 DEF Tampered
  <1>10. QED
    BY <1>4, <1>6, <1>9

(* What an edit does to a file. *)
LEMMA EditMarks ==
  ASSUME NEW env, env = [payloadType |-> env.payloadType, sigs |-> env.sigs, payload |-> env.payload],
         Linkable(env.payload), env.payload.pred.ver = "admission" => env.payload.ptype = "admission",
         NEW e \in Edits(env), e # env
  PROVE  /\ Tampered(e.payload) \/ \A s \in e.sigs : s.key # SigningKey(conf)
         /\ e.payload.pred.ver = "admission" => e.payload.ptype = "admission"
  <1>1. PICK p \in EditedPayloads(env.payload) :
           e \in {[env EXCEPT !.payload = p],
                  [env EXCEPT !.payload = p,
                    !.sigs = {Sign(key, PAE(env.payloadType, p)) : key \in Others}]}
    BY DEF Edits
  <1>2. PICK theirs : theirs = {Sign(key, PAE(env.payloadType, p)) : key \in Others}
    OBVIOUS
  <1>3. \A s \in theirs : s.key # SigningKey(conf)
    BY <1>2 DEF Others, Sign
  <1>4. e.payload = p /\ (e = [env EXCEPT !.payload = p] \/ e.sigs = theirs)
    <2>1. PICK t, si, pl : env = [payloadType |-> t, sigs |-> si, payload |-> pl]
      OBVIOUS
    <2>2. e \in {[env EXCEPT !.payload = p], [env EXCEPT !.payload = p, !.sigs = theirs]}
      BY <1>1, <1>2, Zenon
    <2>3. QED
      BY <2>1, <2>2
  <1>5. PICK ty, su, v, a, d, s : \E l \in Inputs \cup {None} :
          env.payload = Statement(ty, su, Predicate(v, a, d, s, l))
    BY DEF Linkable
  <1>6. PICK l \in Inputs \cup {None} : env.payload = Statement(ty, su, Predicate(v, a, d, s, l))
    BY <1>5
  <1>7. PICK st : st = env.payload
    OBVIOUS
  <1>8. st.ptype = ty /\ st.pred.ver = v /\ (v = "admission" => ty = "admission")
    BY <1>6, <1>7 DEF Statement, Predicate
  <1>9. CASE p = [st EXCEPT !.pred.says = ""]
    <2>1. p.pred.says = "" /\ p.pred.ver = v /\ p.ptype = ty
      <3>1. PICK x : x = ""
        OBVIOUS
      <3>2. p = [st EXCEPT !.pred.says = x]
        BY <1>9, <3>1, Zenon
      <3>3. p.pred.says = x /\ p.pred.ver = v /\ p.ptype = ty
        BY <1>6, <1>7, <3>2 DEF Statement, Predicate
      <3>4. QED
        BY <3>1, <3>3
    <2>2. QED
      BY <1>4, <1>8, <2>1 DEF Tampered
  <1>10. CASE p = [st EXCEPT !.ptype = "admission"]
    <2>1. p.ptype = "admission" /\ p.pred.ver = v
      BY <1>6, <1>7, <1>10 DEF Statement, Predicate
    <2>2. CASE v # "admission"
      BY <1>4, <2>1, <2>2 DEF Tampered
    <2>3. CASE v = "admission"
      <3>1. p = st
        BY <1>6, <1>7, <1>8, <1>10, <2>3 DEF Statement, Predicate
      <3>2. [env EXCEPT !.payload = p] = env
        <4>1. PICK t, si, pl : env = [payloadType |-> t, sigs |-> si, payload |-> pl]
          OBVIOUS
        <4>2. pl = p
          BY <1>7, <3>1, <4>1
        <4>3. QED
          BY <4>1, <4>2
      <3>3. e.sigs = theirs
        BY <1>4, <3>2
      <3>4. QED
        BY <1>3, <1>4, <2>1, <3>3
    <2>4. QED
      BY <2>2, <2>3
  <1>11. ASSUME NEW i \in Planted, p = [st EXCEPT !.pred.link = i]
         PROVE  Tampered(p) /\ (p.pred.ver = "admission" => p.ptype = "admission")
    <2>1. p.pred.link = i /\ p.pred.ver = v /\ p.ptype = ty
      BY <1>6, <1>7, <1>11 DEF Statement, Predicate
    <2>2. QED
      BY <1>8, <2>1 DEF Tampered
  <1>12. ASSUME NEW i \in Planted, p = [st EXCEPT !.pred = RecordWith(i), !.subjects = {<<"input", i>>}]
         PROVE  Tampered(p) /\ (p.pred.ver = "admission" => p.ptype = "admission")
    <2>1. PICK new, subject : new = RecordWith(i) /\ subject = {<<"input", i>>}
      OBVIOUS
    <2>2. p = [st EXCEPT !.pred = new, !.subjects = subject]
      BY <1>12, <2>1, Zenon
    <2>3. p.pred = new
      <3>1. PICK old : st = Statement(ty, su, old)
        BY <1>6, <1>7
      <3>2. QED
        BY <2>2, <3>1 DEF Statement
    <2>4. new.digest = i /\ new.ver = "decision"
      BY <2>1 DEF RecordWith, Predicate
    <2>5. QED
      BY <2>3, <2>4 DEF Tampered
  <1>13. \/ p = [st EXCEPT !.pred.says = ""] \/ p = [st EXCEPT !.ptype = "admission"]
         \/ \E i \in Planted : p = [st EXCEPT !.pred.link = i]
         \/ \E i \in Planted : p = [st EXCEPT !.pred = RecordWith(i), !.subjects = {<<"input", i>>}]
    BY <1>7, Zenon DEF EditedPayloads
  <1>14. QED
    BY <1>4, <1>9, <1>10, <1>11, <1>12, <1>13

(* Steps that leave the directory alone. *)
LEMMA TamperFrame ==
  ASSUME TamperInv, UNCHANGED <<conf, dir, touched, written>>
  PROVE  TamperInv'
  <1>1. Planted' = Planted
    BY DEF Planted
  <1>2. \A p : Tampered(p)' <=> Tampered(p)
    BY <1>1 DEF Tampered
  <1>3. \A n \in DOMAIN dir : Tampered(dir[n].payload)' <=> Tampered(dir[n].payload)
    BY <1>1 DEF Tampered
  <1>4. QED
    BY <1>2, <1>3 DEF TamperInv

(* The verifier's own writes. *)
LEMMA WriteTamper ==
  ASSUME TypeOK, EmissionInv, StageInv, TamperInv, NEW r \in Requests, OpenFile(r) \/ FillFile(r)
  PROVE  TamperInv'
  <1>1. conf' = conf /\ touched' = touched /\ record[r] # None
    BY DEF OpenFile, FillFile, EmissionInv, Emission
  <1>2. Planted' = Planted
    BY <1>1 DEF Planted
  <1>3. PICK n, env, st : n = FileName(record[r]) /\ env = Seal(record[r], conf) /\ st = env.payload
    OBVIOUS
  <1>4. ~Tampered(st) /\ st.ptype = st.pred.ver
    BY <1>1, <1>3, SealedUnmarked
  <1>5. \A p \in written' : ~Tampered(p)
    <2>1. \A p \in written' : p \in written \/ p = st
      BY <1>3 DEF OpenFile, FillFile
    <2>2. QED
      BY <1>4, <2>1 DEF TamperInv
  <1>6. \A m \in DOMAIN dir' : \/ m = n /\ dir'[m] = Torn
                               \/ m = n /\ dir'[m] = env /\ n \notin touched
                               \/ m \in DOMAIN dir /\ dir'[m] = dir[m]
    <2>1. CASE OpenFile(r)
      BY <1>3, <2>1 DEF OpenFile, Set
    <2>2. CASE FillFile(r)
      <3>1. dir' = Set(dir, n, env) /\ n \notin touched
        BY <1>3, <2>2 DEF FillFile, StageInv
      <3>2. QED
        BY <3>1 DEF Set
    <2>3. QED
      BY <2>1, <2>2
  <1>7. \A m \in DOMAIN dir' :
          dir'[m] # Torn /\ dir'[m].payload.pred.ver = "admission" => dir'[m].payload.ptype = "admission"
    BY <1>3, <1>4, <1>6 DEF TamperInv
  <1>8. \A m \in DOMAIN dir' \cap touched' :
          dir'[m] # Torn => Tampered(dir'[m].payload) \/ \A s \in dir'[m].sigs : s.key # SigningKey(conf)
    BY <1>1, <1>6 DEF TamperInv
  <1>9. QED
    BY <1>1, <1>2, <1>5, <1>7, <1>8 DEF TamperInv, Tampered

(* Changes from outside. *)
LEMMA OutsideTamper ==
  ASSUME FileInv, LinksInv, TamperInv, NEW n \in DOMAIN dir, AlterFile(n) \/ RemoveFile(n)
  PROVE  TamperInv'
  <1>1. UNCHANGED <<conf, written>> /\ touched' = touched \cup {n} /\ dir[n] # Torn
    BY DEF AlterFile, RemoveFile, Outside, requestVars
  <1>2. Planted' = Planted
    BY <1>1 DEF Planted
  <1>3. CASE AlterFile(n)
    <2>1. PICK e \in Edits(dir[n]) : e # dir[n] /\ dir' = [dir EXCEPT ![n] = e]
      BY <1>3 DEF AlterFile
    <2>2. /\ Tampered(e.payload) \/ \A s \in e.sigs : s.key # SigningKey(conf)
          /\ e.payload.pred.ver = "admission" => e.payload.ptype = "admission"
      <3>1. PICK env : env = dir[n]
        OBVIOUS
      <3>2. /\ env = [payloadType |-> env.payloadType, sigs |-> env.sigs, payload |-> env.payload]
            /\ Linkable(env.payload)
            /\ env.payload.pred.ver = "admission" => env.payload.ptype = "admission"
        BY <1>1, <3>1 DEF FileInv, Endorsed, LinksInv, TamperInv
      <3>3. QED
        BY <2>1, <3>1, <3>2, EditMarks
    <2>3. DOMAIN dir' = DOMAIN dir /\ dir'[n] = e /\ \A m \in DOMAIN dir \ {n} : dir'[m] = dir[m]
      BY <2>1
    <2>4. \A m \in DOMAIN dir' :
            dir'[m] # Torn /\ dir'[m].payload.pred.ver = "admission" => dir'[m].payload.ptype = "admission"
      BY <2>2, <2>3 DEF TamperInv
    <2>5. \A m \in DOMAIN dir' \cap touched' :
            dir'[m] # Torn => Tampered(dir'[m].payload) \/ \A s \in dir'[m].sigs : s.key # SigningKey(conf)
      BY <1>1, <2>2, <2>3 DEF TamperInv
    <2>6. QED
      BY <1>1, <1>2, <2>4, <2>5 DEF TamperInv, Tampered
  <1>4. CASE RemoveFile(n)
    <2>1. dir' = Restrict(dir, DOMAIN dir \ {n})
      BY <1>4 DEF RemoveFile
    <2>2. DOMAIN dir' = DOMAIN dir \ {n} /\ \A m \in DOMAIN dir' : dir'[m] = dir[m]
      BY <2>1 DEF Restrict
    <2>3. \A m \in DOMAIN dir' :
            dir'[m] # Torn /\ dir'[m].payload.pred.ver = "admission" => dir'[m].payload.ptype = "admission"
      BY <2>2 DEF TamperInv
    <2>4. \A m \in DOMAIN dir' \cap touched' :
            dir'[m] # Torn => Tampered(dir'[m].payload) \/ \A s \in dir'[m].sigs : s.key # SigningKey(conf)
      BY <1>1, <2>2 DEF TamperInv
    <2>5. QED
      BY <1>1, <1>2, <2>3, <2>4 DEF TamperInv, Tampered
  <1>5. QED
    BY <1>3, <1>4

(* A file that passes the check with the deployment's key was not touched. *)
LEMMA VerifiedIsUntouched ==
  ASSUME FileInv, TamperInv, SigningKey(conf) # None, NEW n \in DOMAIN dir,
         dir[n] # Torn, Verified(dir[n]) # "error"
  PROVE  n \notin touched
  <1>1. Endorsed(dir[n], conf, written)
    BY DEF FileInv
  <1>2. dir[n].payload \in written
    BY <1>1, VerifiedIsSealed
  <1>3. ~Tampered(dir[n].payload)
    BY <1>2 DEF TamperInv
  <1>4. PICK s \in dir[n].sigs : s.key = SigningKey(conf)
    BY DEF Verified, VerifyEvidenceEnvelope, VerifyFn
  <1>5. QED
    BY <1>3, <1>4 DEF TamperInv

-------------------------------------------------------------------------------
(* The scan *)

(* What the check may answer. *)
LEMMA VerdictKinds ==
  ASSUME NEW env
  PROVE  /\ Verified(env) \in {"error", "decision", "admission", "outcome"}
         /\ Verified(env) = "decision" => env.payload.ptype = "decision"
  <1>1. PICK st : st = env.payload
    OBVIOUS
  <1>2. \/ CheckEvidenceEnvelope(env) = "error"
        \/ CheckEvidenceEnvelope(env) = st.ptype /\ st.ptype \in {"decision", "admission", "outcome"}
    BY <1>1 DEF CheckEvidenceEnvelope
  <1>3. Verified(env) = CheckEvidenceEnvelope(env) \/ Verified(env) = "error"
    BY DEF Verified, VerifyEvidenceEnvelope
  <1>4. QED
    BY <1>1, <1>2, <1>3

(* Steps of anyone but the reader: the files of the snapshot stay as they   *)
(* are, or someone outside has interfered and the report promises nothing.  *)
LEMMA ScanKeeps ==
  ASSUME SnapInv, BeginInv, PassInv, DoneInv, UNCHANGED conf, UNCHANGED scan,
         \/ faults' = faults + 1
         \/ /\ faults' = faults /\ touched' = touched
            /\ \A n \in DOMAIN dir : n \in DOMAIN dir'
            /\ scan.phase \in {"list", "files", "done"} /\ scan.at = faults =>
                 \A n \in InSnapshot : dir'[n] = dir[n]
  PROVE  SnapInv' /\ BeginInv' /\ PassInv' /\ DoneInv'
  <1>1. BeginInv'
    BY DEF BeginInv
  <1>2. faults \in Nat /\ scan.at \in Nat /\ scan.at <= faults
    BY DEF SnapInv
  <1>3. CASE faults' = faults + 1
    <2>1. faults' \in Nat /\ scan'.at \in Nat /\ scan'.at <= faults' /\ scan'.at # faults'
      BY <1>2, <1>3
    <2>2. QED
      BY <1>1, <2>1 DEF SnapInv, PassInv, DoneInv
  <1>4. CASE /\ faults' = faults /\ touched' = touched
             /\ \A n \in DOMAIN dir : n \in DOMAIN dir'
             /\ scan.phase \in {"list", "files", "done"} /\ scan.at = faults =>
                  \A n \in InSnapshot : dir'[n] = dir[n]
    <2>1. InSnapshot' = InSnapshot
      BY DEF InSnapshot
    <2>2. SnapInv'
      BY <1>4, <2>1 DEF SnapInv
    <2>3. \A n, env : ReadAs(n, env)' <=> ReadAs(n, env)
      BY DEF ReadAs, Verified
    <2>4. \A o : SetAside(o)' <=> SetAside(o)
      BY <2>1 DEF SetAside, Verified
    <2>5. PassInv'
      <3>1. \A n \in InSnapshot : ReadAs(n, scan.snapshot[n])' <=> ReadAs(n, scan.snapshot[n])
        BY DEF ReadAs, Verified
      <3>2. \A n : Verified(scan.snapshot[n])' = Verified(scan.snapshot[n])
        BY DEF Verified
      <3>3. QED
        BY <1>4, <2>1, <2>4, <3>1, <3>2 DEF PassInv
    <2>6. DoneInv'
      <3>1. \A l : HasDecision(l)' <=> HasDecision(l)
        BY <2>1 DEF HasDecision, Verified
      <3>2. ASSUME NEW n \in InSnapshot, Reported(n, scan.snapshot[n])
            PROVE  Reported(n, scan.snapshot[n])'
        <4>1. PICK env : env = scan.snapshot[n]
          OBVIOUS
        <4>2. HasDecision(env.payload.pred.link)' <=> HasDecision(env.payload.pred.link)
          BY <3>1
        <4>3. Verified(env)' = Verified(env)
          BY DEF Verified
        <4>4. Reported(n, env)'
          BY <1>4, <3>2, <4>1, <4>2, <4>3 DEF Reported
        <4>5. QED
          BY <4>1, <4>4
      <3>3. QED
        BY <1>4, <2>1, <3>2 DEF DoneInv
    <2>7. QED
      BY <1>1, <2>2, <2>5, <2>6
  <1>5. QED
    BY <1>3, <1>4

(* The verifier's own writes change no file the snapshot holds complete. *)
LEMMA WriteKeeps ==
  ASSUME TypeOK, EmissionInv, StageInv, SourcesDiffer, FreshInv, SnapInv,
         NEW r \in Requests, OpenFile(r) \/ FillFile(r)
  PROVE  /\ \A n \in DOMAIN dir : n \in DOMAIN dir'
         /\ scan.phase \in {"list", "files", "done"} /\ scan.at = faults =>
              \A n \in InSnapshot : dir'[n] = dir[n]
  <1>1. PICK m : m = FileName(record[r])
    OBVIOUS
  <1>2. PICK env : dir' = Set(dir, m, env)
    BY <1>1 DEF OpenFile, FillFile
  <1>3. \A n \in DOMAIN dir : n \in DOMAIN dir' /\ (n # m => dir'[n] = dir[n])
    BY <1>2 DEF Set
  <1>4. ASSUME scan.phase \in {"list", "files", "done"}, scan.at = faults
        PROVE  m \notin InSnapshot
    <2>1. CASE OpenFile(r)
      BY <1>1, <2>1, OpenFresh DEF Used, InSnapshot
    <2>2. CASE FillFile(r)
      <3>1. dir[m] = Torn
        BY <1>1, <2>2 DEF FillFile, StageInv
      <3>2. \A n \in InSnapshot : dir[n] = scan.snapshot[n] /\ scan.snapshot[n] # Torn
        BY <1>4 DEF SnapInv, InSnapshot
      <3>3. QED
        BY <3>1, <3>2
    <2>3. QED
      BY <2>1, <2>2
  <1>5. \A n \in InSnapshot : scan.phase \in {"list", "files", "done"} /\ scan.at = faults => n \in DOMAIN dir
    BY DEF SnapInv
  <1>6. QED
    BY <1>3, <1>4, <1>5

(* The reader takes its snapshot and lists the directory. *)
LEMMA ListReport ==
  ASSUME ScanInv, FreshInv, SnapInv, BeginInv, ScanBegin \/ ScanList
  PROVE  SnapInv' /\ BeginInv' /\ PassInv' /\ DoneInv' /\ DOMAIN scan'.snapshot \subseteq Used
  <1>1. UNCHANGED <<conf, dir, touched, faults>>
    BY DEF ScanBegin, ScanList
  <1>2. scan = [phase |-> scan.phase, snapshot |-> scan.snapshot, at |-> scan.at, todo |-> scan.todo,
                counted |-> scan.counted, outcomes |-> scan.outcomes, failures |-> scan.failures]
    BY DEF ScanInv, ScanForm
  <1>3. faults \in Nat /\ scan.at \in Nat /\ scan.at <= faults
    BY DEF SnapInv
  <1>4. CASE ScanBegin
    <2>1. scan.phase = "idle" /\ scan' = [scan EXCEPT !.phase = "list", !.snapshot = dir, !.at = faults]
      BY <1>4 DEF ScanBegin
    <2>2. /\ scan'.phase = "list" /\ scan'.snapshot = dir /\ scan'.at = faults /\ scan'.todo = scan.todo
          /\ scan'.counted = scan.counted /\ scan'.outcomes = scan.outcomes
          /\ scan'.failures = scan.failures
      BY <1>2, <2>1
    <2>3. BeginInv' /\ PassInv' /\ DoneInv'
      BY <2>1, <2>2 DEF BeginInv, PassInv, DoneInv
    <2>4. SnapInv'
      BY <1>1, <1>3, <2>2 DEF SnapInv, InSnapshot
    <2>5. QED
      BY <2>2, <2>3, <2>4 DEF Used
  <1>5. CASE ScanList
    <2>1. PICK new : /\ scan.phase = "list"
                     /\ scan' = [scan EXCEPT !.phase = "files", !.todo = DOMAIN scan.snapshot \cup new]
      BY <1>5 DEF ScanList
    <2>2. /\ scan'.phase = "files" /\ scan'.snapshot = scan.snapshot /\ scan'.at = scan.at
          /\ scan'.todo = DOMAIN scan.snapshot \cup new
          /\ scan'.counted = scan.counted /\ scan'.outcomes = scan.outcomes
          /\ scan'.failures = scan.failures
      BY <1>2, <2>1
    <2>3. scan.counted = {} /\ scan.outcomes = {} /\ scan.failures = {}
      BY <2>1 DEF BeginInv
    <2>4. InSnapshot' = InSnapshot /\ InSnapshot \ scan'.todo = {}
      BY <2>2 DEF InSnapshot
    <2>5. BeginInv' /\ DoneInv'
      BY <2>2 DEF BeginInv, DoneInv
    <2>6. SnapInv'
      BY <1>1, <1>3, <2>1, <2>2, <2>4 DEF SnapInv
    <2>7. Decisions(scan'.counted) = {}
      BY <2>2, <2>3 DEF Decisions
    <2>8. PassInv'
      BY <2>2, <2>3, <2>4, <2>7 DEF PassInv
    <2>9. QED
      BY <2>2, <2>5, <2>6, <2>8 DEF Used
  <1>6. QED
    BY <1>4, <1>5

(* A decision that passes the check is in the file of its own digest. *)
LEMMA DecisionFile ==
  ASSUME FileInv, TamperInv, SigningKey(conf) # None, NEW n \in DOMAIN dir,
         dir[n] # Torn, Verified(dir[n]) # "error", dir[n].payload.ptype = "decision"
  PROVE  n = <<"decision", dir[n].payload.pred.digest>> /\ n \in DOMAIN dir \ touched
  <1>1. n \notin touched
    BY VerifiedIsUntouched
  <1>2. PICK rec \in Records : n = FileName(rec) /\ dir[n] = Seal(rec, conf)
    BY <1>1 DEF FileInv, OwnFile
  <1> DEFINE st == Statement(rec.ver, Binding(rec) \cup Tags(conf), rec)
  <1>3. dir[n].payload = st
    <2>1. Seal(rec, conf).payload = st
      BY SealForm
    <2>2. QED
      BY <1>2, <2>1, Zenon
  <1>4. st.ptype = rec.ver /\ st.pred = rec
    BY DEF Statement
  <1> HIDE DEF st
  <1>5. QED
    BY <1>1, <1>2, <1>3, <1>4 DEF FileName

(* The reader reads a file. *)
LEMMA FileReport ==
  ASSUME ScanInv, FileInv, TamperInv, SnapInv, BeginInv, PassInv, SigningKey(conf) # None,
         NEW n \in scan.todo, ScanFile(n)
  PROVE  SnapInv' /\ BeginInv' /\ PassInv' /\ DoneInv' /\ scan'.snapshot = scan.snapshot
  <1>1. UNCHANGED <<conf, dir, touched, faults>>
    BY DEF ScanFile
  <1> DEFINE ok == n \in DOMAIN dir /\ dir[n] # Torn
             kind == IF ok THEN Verified(dir[n]) ELSE "error"
             to == scan.todo \ {n}
             fa == IF kind = "error" THEN scan.failures \cup {n} ELSE scan.failures
             ou == IF kind = "outcome" THEN scan.outcomes \cup {<<n, dir[n]>>} ELSE scan.outcomes
             co == IF kind \in {"decision", "admission"} THEN scan.counted \cup {dir[n]}
                   ELSE scan.counted
  <1>2. scan' = [scan EXCEPT !.todo = to, !.failures = fa, !.outcomes = ou, !.counted = co]
    BY Zenon DEF ScanFile
  <1>3. ok /\ kind # "error" /\ dir[n].payload.ptype = "decision" =>
          <<"decision", dir[n].payload.pred.digest>> \in DOMAIN dir \ touched
    BY DecisionFile
  <1>4. scan.phase = "files"
    BY DEF BeginInv
  <1>5. kind # "error" => ok /\ kind = Verified(dir[n])
    OBVIOUS
  <1>6. ok => kind = Verified(dir[n])
    OBVIOUS
  <1>7. /\ scan.failures \subseteq fa /\ fa \subseteq scan.failures \cup {n}
        /\ kind = "error" => n \in fa
        /\ n \in fa \ scan.failures => kind = "error"
    OBVIOUS
  <1>8. /\ \A o \in ou : o \in scan.outcomes \/ (kind = "outcome" /\ o = <<n, dir[n]>>)
        /\ \A o \in scan.outcomes : o \in ou
        /\ kind = "outcome" => <<n, dir[n]>> \in ou
    <2> HIDE DEF kind
    <2>1. QED
      OBVIOUS
  <1>9. /\ \A e \in co : e \in scan.counted \/ (kind \in {"decision", "admission"} /\ e = dir[n])
        /\ \A e \in scan.counted : e \in co
        /\ kind \in {"decision", "admission"} => dir[n] \in co
    <2> HIDE DEF kind
    <2>1. QED
      OBVIOUS
  <1> HIDE DEF ok, kind, to, fa, ou, co
  <1>10. /\ scan'.phase = "files" /\ scan'.snapshot = scan.snapshot /\ scan'.at = scan.at
         /\ scan'.todo = to /\ scan'.counted = co /\ scan'.outcomes = ou /\ scan'.failures = fa
    BY <1>2, <1>4 DEF ScanInv, ScanForm
  <1>11. InSnapshot' = InSnapshot
    BY <1>10 DEF InSnapshot
  <1>12. SnapInv'
    BY <1>1, <1>4, <1>10, <1>11 DEF SnapInv
  <1>13. BeginInv' /\ DoneInv'
    BY <1>10 DEF BeginInv, DoneInv
  <1>14. PassInv'
    <2> SUFFICES ASSUME scan.at = faults
                 PROVE  /\ \A m \in InSnapshot \ to : ReadAs(m, scan.snapshot[m])'
                        /\ \A m \in InSnapshot \cap fa : Verified(scan.snapshot[m])' = "error"
                        /\ \A o \in ou : SetAside(o)'
                        /\ \A d \in Decisions(co) : <<"decision", d>> \in DOMAIN dir \ touched
      BY <1>1, <1>10, <1>11 DEF PassInv
    <2>1. \A env : Verified(env)' = Verified(env)
      BY <1>1 DEF Verified
    <2>2. n \in InSnapshot => ok /\ dir[n] = scan.snapshot[n] /\ kind = Verified(scan.snapshot[n])
      BY <1>4, <1>6 DEF SnapInv, InSnapshot, ok
    <2>3. ASSUME NEW m \in InSnapshot \ to PROVE ReadAs(m, scan.snapshot[m])'
      <3>1. PICK env : env = scan.snapshot[m]
        OBVIOUS
      <3>2. /\ Verified(env) = "error" => m \in fa
            /\ Verified(env) \in {"decision", "admission"} => env \in co
            /\ Verified(env) = "outcome" => <<m, env>> \in ou
        <4>1. CASE m = n
          BY <1>7, <1>8, <1>9, <2>2, <2>3, <3>1, <4>1
        <4>2. CASE m # n
          <5>1. ReadAs(m, env)
            BY <1>4, <2>3, <3>1, <4>2 DEF PassInv, to
          <5>2. QED
            BY <1>7, <1>8, <1>9, <5>1 DEF ReadAs
        <4>3. QED
          BY <4>1, <4>2
      <3>3. ReadAs(m, env)'
        BY <1>10, <2>1, <3>2 DEF ReadAs
      <3>4. scan'.snapshot[m] = env
        BY <1>10, <3>1
      <3>5. QED
        BY <3>3, <3>4
    <2>4. ASSUME NEW m \in InSnapshot \cap fa PROVE Verified(scan.snapshot[m])' = "error"
      <3>1. Verified(scan.snapshot[m]) = "error"
        BY <1>4, <1>7, <2>2, <2>4 DEF PassInv
      <3>2. QED
        BY <1>1, <1>10, <3>1 DEF Verified
    <2>5. ASSUME NEW o \in ou PROVE SetAside(o)'
      <3>1. Verified(o[2]) = "outcome" /\ (o[1] \in InSnapshot => o[2] = scan.snapshot[o[1]])
        <4>1. CASE o \in scan.outcomes
          BY <1>4, <4>1 DEF PassInv, SetAside
        <4>2. CASE kind = "outcome" /\ o = <<n, dir[n]>>
          <5>1. o[1] = n /\ o[2] = dir[n]
            BY <4>2
          <5>2. QED
            BY <1>5, <2>2, <4>2, <5>1
        <4>3. QED
          BY <1>8, <2>5, <4>1, <4>2
      <3>2. QED
        BY <1>10, <1>11, <2>1, <3>1 DEF SetAside
    <2>6. ASSUME NEW d \in Decisions(co) PROVE <<"decision", d>> \in DOMAIN dir \ touched
      <3>1. PICK e \in co : e.payload.ptype = "decision" /\ d = e.payload.pred.digest
        BY <2>6 DEF Decisions
      <3>2. CASE e \in scan.counted
        <4>1. d \in Decisions(scan.counted)
          BY <3>1, <3>2 DEF Decisions
        <4>2. QED
          BY <1>4, <4>1 DEF PassInv
      <3>3. CASE kind \in {"decision", "admission"} /\ e = dir[n]
        BY <1>3, <1>5, <3>1, <3>3
      <3>4. QED
        BY <1>9, <3>1, <3>2, <3>3
    <2>7. QED
      BY <2>3, <2>4, <2>5, <2>6
  <1>15. QED
    BY <1>10, <1>12, <1>13, <1>14

(* The reader links the outcomes and is done. *)
LEMMA LinkReport ==
  ASSUME ScanInv, SnapInv, PassInv, ScanLink
  PROVE  SnapInv' /\ BeginInv' /\ PassInv' /\ DoneInv' /\ scan'.snapshot = scan.snapshot
  <1>1. UNCHANGED <<conf, dir, touched, faults>> /\ scan.phase = "files" /\ scan.todo = {}
    BY DEF ScanLink
  <1> DEFINE digests == Decisions(scan.counted)
             linked == {o \in scan.outcomes : Linked(o[2], digests)}
             co == scan.counted \cup {o[2] : o \in linked}
             fa == scan.failures \cup {o[1] : o \in scan.outcomes \ linked}
  <1>2. scan' = [scan EXCEPT !.phase = "done", !.counted = co, !.failures = fa]
    BY Zenon DEF ScanLink
  <1>3. \A o \in scan.outcomes : o[2].payload.pred.link \in digests => o[2] \in co
    BY DEF Linked
  <1>4. \A o \in scan.outcomes : o[2].payload.pred.link \notin digests => o[1] \in fa
    BY DEF Linked
  <1>5. \A e \in scan.counted : e \in co
    OBVIOUS
  <1>6. \A n \in scan.failures : n \in fa
    OBVIOUS
  <1>7. \A n \in fa : \/ n \in scan.failures
                      \/ \E o \in scan.outcomes : n = o[1] /\ o[2].payload.pred.link \notin digests
    BY DEF Linked
  <1> HIDE DEF digests, linked, co, fa
  <1>8. /\ scan'.phase = "done" /\ scan'.snapshot = scan.snapshot /\ scan'.at = scan.at
        /\ scan'.todo = {} /\ scan'.counted = co /\ scan'.failures = fa
    BY <1>1, <1>2 DEF ScanInv, ScanForm
  <1>9. InSnapshot' = InSnapshot
    BY <1>8 DEF InSnapshot
  <1>10. SnapInv'
    BY <1>1, <1>8, <1>9 DEF SnapInv
  <1>11. BeginInv' /\ PassInv'
    BY <1>8 DEF BeginInv, PassInv
  <1>12. ASSUME scan.at = faults, NEW n \in InSnapshot
         PROVE  Reported(n, scan.snapshot[n])'
    <2>1. PICK env : env = scan.snapshot[n]
      OBVIOUS
    <2>2. ReadAs(n, env) /\ (n \in scan.failures => Verified(env) = "error")
      BY <1>1, <1>12, <2>1 DEF PassInv
    <2>3. ASSUME NEW o \in scan.outcomes, o[1] = n PROVE o[2] = env /\ Verified(env) = "outcome"
      BY <1>1, <1>12, <2>1, <2>3 DEF PassInv, SetAside
    <2>4. PICK link : link = env.payload.pred.link
      OBVIOUS
    <2>5. HasDecision(link) => link \in digests
      <3> SUFFICES ASSUME HasDecision(link) PROVE link \in digests
        OBVIOUS
      <3>1. PICK m \in InSnapshot :
              Verified(scan.snapshot[m]) = "decision" /\ scan.snapshot[m].payload.pred.digest = link
        BY DEF HasDecision
      <3>2. PICK e : e = scan.snapshot[m]
        OBVIOUS
      <3>3. ReadAs(m, e)
        BY <1>1, <1>12, <3>2 DEF PassInv
      <3>4. e \in scan.counted /\ e.payload.ptype = "decision"
        BY <3>1, <3>2, <3>3, VerdictKinds DEF ReadAs
      <3>5. QED
        BY <3>1, <3>2, <3>4 DEF digests, Decisions
    <2>6. link \in digests => <<"decision", link>> \in DOMAIN dir \ touched
      BY <1>1, <1>12 DEF PassInv, digests
    <2>7. Verified(env) = "error" => n \in fa
      BY <1>6, <2>2 DEF ReadAs
    <2>8. Verified(env) \in {"decision", "admission"} => n \notin fa /\ env \in co
      BY <1>5, <1>7, <2>2, <2>3 DEF ReadAs
    <2>9. Verified(env) = "outcome" => <<n, env>> \in scan.outcomes
      BY <2>2 DEF ReadAs
    <2>10. <<n, env>>[1] = n /\ <<n, env>>[2] = env
      OBVIOUS
    <2>11. Verified(env) = "outcome" /\ link \in digests => n \notin fa /\ env \in co
      BY <1>3, <1>7, <2>2, <2>3, <2>4, <2>9, <2>10
    <2>12. Verified(env) = "outcome" /\ link \notin digests => n \in fa
      BY <1>4, <2>4, <2>9, <2>10
    <2>13. HasDecision(link)' => HasDecision(link)
      BY <1>1, <1>8, <1>9 DEF HasDecision, Verified
    <2>14. Verified(env)' = Verified(env)
      BY <1>1 DEF Verified
    <2>15. Reported(n, env)'
      <3>1. link = env.payload.pred.link /\ scan'.failures = fa /\ scan'.counted = co
        BY <1>8, <2>4
      <3>2. HasDecision(env.payload.pred.link)' => HasDecision(link)
        BY <2>4, <2>13
      <3>3. QED
        BY <1>1, <2>5, <2>6, <2>7, <2>8, <2>11, <2>12, <2>14, <3>1, <3>2 DEF Reported
    <2>16. scan'.snapshot[n] = env
      BY <1>8, <2>1
    <2>17. QED
      BY <2>15, <2>16
  <1>13. DoneInv'
    BY <1>1, <1>8, <1>9, <1>12 DEF DoneInv
  <1>14. QED
    BY <1>8, <1>10, <1>11, <1>13

(* What the report says, file by file, is what it promises. *)
LEMMA DoneCovers ==
  ASSUME DoneInv
  PROVE  ReportCoversSnapshot
  <1> SUFFICES ASSUME scan.phase = "done", scan.at = faults
               PROVE  LET decided == Decisions({scan.snapshot[n] : n \in GoodInSnapshot({"decision"})})
                          good == GoodInSnapshot({"decision", "admission"})
                                    \cup {n \in GoodInSnapshot({"outcome"}) :
                                            scan.snapshot[n].payload.pred.link \in decided}
                          orphans == {n \in GoodInSnapshot({"outcome"}) :
                                        \A m \in DOMAIN dir \ touched :
                                          m # <<"decision", scan.snapshot[n].payload.pred.link>>}
                      IN /\ good \cap scan.failures = {}
                         /\ \A n \in good : scan.snapshot[n] \in scan.counted
                         /\ (InSnapshot \ GoodInSnapshot(Kinds)) \cup orphans \subseteq scan.failures
    BY Zenon DEF ReportCoversSnapshot
  <1> DEFINE decided == Decisions({scan.snapshot[n] : n \in GoodInSnapshot({"decision"})})
             good == GoodInSnapshot({"decision", "admission"})
                       \cup {n \in GoodInSnapshot({"outcome"}) :
                               scan.snapshot[n].payload.pred.link \in decided}
             orphans == {n \in GoodInSnapshot({"outcome"}) :
                           \A m \in DOMAIN dir \ touched :
                             m # <<"decision", scan.snapshot[n].payload.pred.link>>}
  <1>1. \A n \in InSnapshot : Reported(n, scan.snapshot[n])
    BY DEF DoneInv
  <1>2. ASSUME NEW link \in decided PROVE HasDecision(link)
    <2>1. PICK m \in GoodInSnapshot({"decision"}) : scan.snapshot[m].payload.pred.digest = link
      BY <1>2 DEF Decisions
    <2>2. QED
      BY <2>1 DEF GoodInSnapshot, HasDecision
  <1> HIDE DEF decided
  <1>3. ASSUME NEW n \in good PROVE n \notin scan.failures /\ scan.snapshot[n] \in scan.counted
    <2>1. CASE n \in GoodInSnapshot({"decision", "admission"})
      BY <1>1, <2>1 DEF GoodInSnapshot, Reported
    <2>2. CASE n \in GoodInSnapshot({"outcome"}) /\ scan.snapshot[n].payload.pred.link \in decided
      BY <1>1, <1>2, <2>2 DEF GoodInSnapshot, Reported
    <2>3. QED
      BY <1>3, <2>1, <2>2
  <1>4. ASSUME NEW n \in InSnapshot, n \notin GoodInSnapshot(Kinds) PROVE n \in scan.failures
    BY <1>1, <1>4, VerdictKinds DEF GoodInSnapshot, Reported, Kinds
  <1>5. ASSUME NEW n \in orphans PROVE n \in scan.failures
    BY <1>1, <1>5 DEF GoodInSnapshot, Reported
  <1> HIDE DEF good, orphans
  <1>6. /\ good \cap scan.failures = {}
        /\ \A n \in good : scan.snapshot[n] \in scan.counted
        /\ (InSnapshot \ GoodInSnapshot(Kinds)) \cup orphans \subseteq scan.failures
    BY <1>3, <1>4, <1>5
  <1>7. QED
    BY <1>6, Zenon DEF decided, good, orphans

(* The links of the files, for every step. *)
LEMMA LinksNext ==
  ASSUME IInv, LinksInv, [Next]_vars
  PROVE  LinksInv' /\ conf' = conf
  <1> SUFFICES ASSUME TypeOK, EmissionInv, FileInv PROVE LinksInv' /\ conf' = conf
    BY DEF IInv
  <1>1. ASSUME NEW r \in Requests, OpenFile(r) \/ FillFile(r) PROVE LinksInv' /\ conf' = conf
    BY <1>1, WriteLinks DEF OpenFile, FillFile
  <1>2. ASSUME NEW r \in Requests, Start(r) \/ EmitFails(r) \/ Conclude(r) PROVE LinksInv' /\ conf' = conf
    BY <1>2 DEF LinksInv, Start, EmitFails, Conclude
  <1>3. ASSUME NEW n \in DOMAIN dir, AlterFile(n) \/ RemoveFile(n) PROVE LinksInv' /\ conf' = conf
    BY <1>3, OutsideLinks DEF AlterFile, RemoveFile
  <1>4. ASSUME \/ WriteAudit \/ Crash \/ ScanBegin \/ ScanList \/ (\E n \in scan.todo : ScanFile(n))
               \/ ScanLink \/ ReadAudit \/ Assemble \/ UNCHANGED vars
        PROVE  LinksInv' /\ conf' = conf
    <2>1. UNCHANGED <<conf, dir>>
      BY <1>4 DEF WriteAudit, Crash, ScanBegin, ScanList, ScanFile, ScanLink, ReadAudit, Assemble,
                  vars, storeVars
    <2>2. QED
      BY <2>1 DEF LinksInv
  <1>5. QED
    BY <1>1, <1>2, <1>3, <1>4 DEF Next, StoreNext

(* Every step of a deployment that signs keeps the report true. *)
LEMMA ReportNext ==
  ASSUME IInv, LinksInv, SourcesDiffer, ReportInv, SigningKey(conf) # None, [Next]_vars
  PROVE  ReportInv'
  <1> SUFFICES ASSUME TypeOK, EmissionInv, FileInv, ScanInv,
                      FreshInv, StageInv, TamperInv, SnapInv, BeginInv, PassInv, DoneInv
               PROVE  ReportInv'
    BY DEF IInv, ReportInv
  <1>1. ASSUME NEW r \in Requests, OpenFile(r) PROVE ReportInv'
    <2>1. UNCHANGED <<conf, scan, faults, touched>>
      BY <1>1 DEF OpenFile
    <2>2. FreshInv' /\ StageInv' /\ TamperInv'
      BY <1>1, OpenFresh, OpenStage, WriteTamper
    <2>3. /\ \A n \in DOMAIN dir : n \in DOMAIN dir'
          /\ scan.phase \in {"list", "files", "done"} /\ scan.at = faults =>
               \A n \in InSnapshot : dir'[n] = dir[n]
      BY <1>1, WriteKeeps
    <2>4. SnapInv' /\ BeginInv' /\ PassInv' /\ DoneInv'
      BY <2>1, <2>3, ScanKeeps
    <2>5. QED
      BY <2>2, <2>4 DEF ReportInv
  <1>2. ASSUME NEW r \in Requests, FillFile(r) PROVE ReportInv'
    <2>1. UNCHANGED <<conf, scan, faults, touched>>
      BY <1>2 DEF FillFile
    <2>2. StageInv' /\ TamperInv' /\ \A q \in Requests : \A n : ToCome(q, n)' => ToCome(q, n)
      BY <1>2, MoveStage, WriteTamper, MoveFewer
    <2>3. \A n \in Used' : n \in Used
      <3>1. mu = r /\ \E env : dir' = Set(dir, FileName(record[r]), env)
        BY <1>2 DEF FillFile
      <3>2. FileName(record[r]) \in DOMAIN dir
        BY <3>1 DEF StageInv
      <3>3. DOMAIN dir' = DOMAIN dir
        BY <3>1, <3>2 DEF Set
      <3>4. QED
        BY <2>1, <3>3 DEF Used
    <2>4. FreshInv'
      BY <2>2, <2>3, FreshFrame
    <2>5. /\ \A n \in DOMAIN dir : n \in DOMAIN dir'
          /\ scan.phase \in {"list", "files", "done"} /\ scan.at = faults =>
               \A n \in InSnapshot : dir'[n] = dir[n]
      BY <1>2, WriteKeeps
    <2>6. SnapInv' /\ BeginInv' /\ PassInv' /\ DoneInv'
      BY <2>1, <2>5, ScanKeeps
    <2>7. QED
      BY <2>2, <2>4, <2>6 DEF ReportInv
  <1>3. ASSUME NEW r \in Requests, Start(r) \/ EmitFails(r) \/ Conclude(r) PROVE ReportInv'
    <2>1. UNCHANGED <<conf, scan, faults, touched, dir, written>>
      BY <1>3 DEF Start, EmitFails, Conclude
    <2>2. StageInv' /\ \A q \in Requests : \A n : ToCome(q, n)' => ToCome(q, n)
      BY <1>3, MoveStage, MoveFewer
    <2>3. Used' = Used
      BY <2>1 DEF Used
    <2>4. FreshInv' /\ TamperInv'
      BY <2>1, <2>2, <2>3, FreshFrame, TamperFrame
    <2>5. SnapInv' /\ BeginInv' /\ PassInv' /\ DoneInv'
      BY <2>1, ScanKeeps
    <2>6. QED
      BY <2>2, <2>4, <2>5 DEF ReportInv
  <1>4. ASSUME Crash PROVE ReportInv'
    <2>1. UNCHANGED <<conf, scan, faults, touched, dir, written>>
      BY <1>4 DEF Crash
    <2>2. StageInv' /\ \A q \in Requests : \A n : ToCome(q, n)' => ToCome(q, n)
      BY <1>4, CrashStage, CrashFewer
    <2>3. Used' = Used
      BY <2>1 DEF Used
    <2>4. FreshInv' /\ TamperInv'
      BY <2>1, <2>2, <2>3, FreshFrame, TamperFrame
    <2>5. SnapInv' /\ BeginInv' /\ PassInv' /\ DoneInv'
      BY <2>1, ScanKeeps
    <2>6. QED
      BY <2>2, <2>4, <2>5 DEF ReportInv
  <1>5. ASSUME NEW n \in DOMAIN dir, AlterFile(n) \/ RemoveFile(n) PROVE ReportInv'
    <2>1. UNCHANGED <<conf, scan, pc, refs, mu>> /\ faults' = faults + 1 /\ touched' = touched \cup {n}
      BY <1>5 DEF AlterFile, RemoveFile, Outside, requestVars
    <2>2. StageInv' /\ TamperInv'
      BY <1>5, OutsideStage, OutsideTamper
    <2>3. SnapInv' /\ BeginInv' /\ PassInv' /\ DoneInv'
      BY <2>1, ScanKeeps
    <2>4. DOMAIN dir' \subseteq DOMAIN dir
      <3>1. CASE AlterFile(n)
        <4>1. PICK e : dir' = [dir EXCEPT ![n] = e]
          BY <3>1, Zenon DEF AlterFile
        <4>2. QED
          BY <4>1
      <3>2. CASE RemoveFile(n)
        <4>1. dir' = Restrict(dir, DOMAIN dir \ {n})
          BY <3>2 DEF RemoveFile
        <4>2. QED
          BY <4>1 DEF Restrict
      <3>3. QED
        BY <1>5, <3>1, <3>2
    <2>5. \A m \in Used' : m \in Used
      BY <1>5, <2>1, <2>4 DEF Used
    <2>6. \A q \in Requests : \A m : ToCome(q, m)' => ToCome(q, m)
      BY <2>1, FewerFrame DEF TypeOK
    <2>7. FreshInv'
      BY <2>5, <2>6, FreshFrame
    <2>8. QED
      BY <2>2, <2>3, <2>7 DEF ReportInv
  <1>6. ASSUME ScanBegin \/ ScanList \/ (\E n \in scan.todo : ScanFile(n)) \/ ScanLink PROVE ReportInv'
    <2>1. UNCHANGED <<conf, dir, touched, written, mu, pc, record, refs>>
      BY <1>6 DEF ScanBegin, ScanList, ScanFile, ScanLink, requestVars
    <2>2. SnapInv' /\ BeginInv' /\ PassInv' /\ DoneInv' /\ DOMAIN scan'.snapshot \subseteq Used
      <3>1. CASE ScanBegin \/ ScanList
        BY <3>1, ListReport
      <3>2. CASE \E n \in scan.todo : ScanFile(n)
        BY <3>2, FileReport DEF Used
      <3>3. CASE ScanLink
        BY <3>3, LinkReport DEF Used
      <3>4. QED
        BY <1>6, <3>1, <3>2, <3>3
    <2>3. \A n \in Used' : n \in Used
      BY <2>1, <2>2 DEF Used
    <2>4. \A q \in Requests : \A n : ToCome(q, n)' => ToCome(q, n)
      BY <2>1, FewerFrame DEF TypeOK
    <2>5. FreshInv' /\ TamperInv'
      BY <2>1, <2>3, <2>4, FreshFrame, TamperFrame
    <2>6. StageInv'
      BY <2>1 DEF StageInv, FirstRef
    <2>7. QED
      BY <2>2, <2>5, <2>6 DEF ReportInv
  <1>7. ASSUME WriteAudit \/ ReadAudit \/ Assemble \/ UNCHANGED vars PROVE ReportInv'
    <2>1. UNCHANGED <<conf, dir, faults, touched, scan, written, mu, pc, record, refs>>
      BY <1>7 DEF WriteAudit, ReadAudit, Assemble, vars, storeVars, requestVars
    <2>2. SnapInv' /\ BeginInv' /\ PassInv' /\ DoneInv'
      BY <2>1, ScanKeeps
    <2>3. Used' = Used
      BY <2>1 DEF Used
    <2>4. \A q \in Requests : \A n : ToCome(q, n)' => ToCome(q, n)
      BY <2>1, FewerFrame DEF TypeOK
    <2>5. FreshInv' /\ TamperInv'
      BY <2>1, <2>3, <2>4, FreshFrame, TamperFrame
    <2>6. StageInv'
      BY <2>1 DEF StageInv, FirstRef
    <2>7. QED
      BY <2>2, <2>5, <2>6 DEF ReportInv
  <1>8. QED
    BY <1>1, <1>2, <1>3, <1>4, <1>5, <1>6, <1>7 DEF Next, StoreNext

(* Whoever verifies the evidence directory of a deployment that signs while *)
(* requests write it, records fail and the process dies gets a report true  *)
(* to the directory as it was when the reading began: what verified then is *)
(* counted, an outcome if its decision did, and what did not is a failure;  *)
(* only a change from outside during the reading voids the promise.  The    *)
(* hypothesis is needed: without a key a reader has no means to tell an     *)
(* altered record from its own.                                             *)
THEOREM ReportCoversSnapshotHolds ==
  ASSUME \A c \in Deployments : Buildable(c) => SigningKey(c) # None
  PROVE  Spec => []ReportCoversSnapshot
  <1> DEFINE RInv == LinksInv /\ Buildable(conf) /\ (SourcesDiffer => ReportInv)
  <1>1. Init => RInv
    <2> SUFFICES ASSUME Init PROVE RInv
      OBVIOUS
    <2>1. /\ DOMAIN dir = {} /\ touched = {} /\ written = {} /\ scan = NoScan /\ faults = 0 /\ mu = NoOne
          /\ \A r \in Requests : pc[r] = "start"
          /\ Buildable(conf)
      BY DEF Init, StoreInit
    <2>2. DOMAIN scan.snapshot = {} /\ scan.phase = "idle" /\ scan.at = 0 /\ scan.todo = {}
          /\ scan.counted = {} /\ scan.outcomes = {} /\ scan.failures = {}
      BY <2>1 DEF NoScan
    <2>3. NoOne \notin Requests
      BY MarkersAssumption
    <2>4. FreshInv /\ StageInv /\ TamperInv /\ LinksInv
      BY <2>1, <2>2, <2>3 DEF FreshInv, Used, StageInv, TamperInv, LinksInv
    <2>5. SnapInv /\ BeginInv /\ PassInv /\ DoneInv
      BY <2>1, <2>2 DEF SnapInv, BeginInv, PassInv, DoneInv
    <2>6. QED
      BY <2>1, <2>4, <2>5 DEF ReportInv
  <1>2. IInv /\ RInv /\ [Next]_vars => RInv'
    <2> SUFFICES ASSUME IInv, RInv, [Next]_vars PROVE RInv'
      OBVIOUS
    <2>1. LinksInv' /\ conf' = conf
      BY LinksNext
    <2>2. conf \in Deployments /\ SigningKey(conf) # None
      BY DEF IInv, TypeOK
    <2>3. SourcesDiffer' => ReportInv'
      BY <2>1, <2>2, ReportNext DEF SourcesDiffer
    <2>4. QED
      BY <2>1, <2>3
  <1>3. RInv => ReportCoversSnapshot
    <2>1. CASE SourcesDiffer
      BY <2>1, DoneCovers DEF ReportInv
    <2>2. CASE ~SourcesDiffer
      BY <2>2 DEF ReportCoversSnapshot
    <2>3. QED
      BY <2>1, <2>2
  <1> HIDE DEF RInv
  <1>4. QED
    BY <1>1, <1>2, <1>3, IInvInvariant, PTL DEF Spec
================================================================================
