------------------------------ MODULE AuditReader ------------------------------
(***************************************************************************)
(* Reading a JSON Lines log back (audit.go): ReadAuditEntries forwards     *)
(* from the offset that FindStartOffsetByTime finds by binary search, and  *)
(* readAuditEntriesReverse backwards in chunks.  A file is the sequence of *)
(* the writes that reached it, each a whole line or the first bytes of     *)
(* one; what matters of a byte is which byte of which write it is.         *)
(***************************************************************************)
EXTENDS Naturals, Sequences, FiniteSets, SequencesExt

CONSTANT Chunk   \* bytes the backward reader takes at a time (4096)

ASSUME AuditReaderAssumption == Chunk \in Nat \ {0}

\* [ev, len, whole]: the bytes of an entry; a whole write ends in the newline.
LineBytes(file, i) == [k \in 1 .. file[i].len |-> <<i, k>>]
FirstBytes(file) ==
  LET B[i \in 0 .. Len(file)] == IF i = 0 THEN <<>> ELSE B[i - 1] \o LineBytes(file, i)
  IN B
Bytes(file)        == FirstBytes(file)[Len(file)]
IsNewline(file, b) == file[b[1]].whole /\ b[2] = file[b[1]].len

\* json.Unmarshal of the text between two newlines succeeds for exactly one
\* whole entry; anything glued to a fragment is skipped.
Parses(file, text) ==
  /\ text # <<>>
  /\ LET w == file[text[1][1]]
     IN w.whole /\ text = [k \in 1 .. w.len - 1 |-> <<text[1][1], k>>]
Parsed(file, text) == file[text[1][1]].ev

\* The pieces of text between newlines, the last one possibly without its own.
Cut(file, pieces, b) ==
  IF IsNewline(file, b) THEN Append(pieces, <<>>)
  ELSE [pieces EXCEPT ![Len(pieces)] = Append(@, b)]
Pieces(file, text) ==
  LET P[n \in 0 .. Len(text)] == IF n = 0 THEN <<<<>>>> ELSE Cut(file, P[n - 1], text[n])
  IN P
Split(file, text) == Pieces(file, text)[Len(text)]

\* The loop over the lines: one that does not parse is skipped, and so is an
\* entry before the time asked for.
Matches(file, text, since) == Parses(file, text) /\ Parsed(file, text) >= since
Collect(file, found, text, since) ==
  IF Matches(file, text, since) THEN Append(found, Parsed(file, text)) ELSE found
Collected(file, pieces, since) ==
  LET E[n \in 0 .. Len(pieces)] ==
        IF n = 0 THEN <<>> ELSE Collect(file, E[n - 1], pieces[n], since)
  IN E
Entries(file, pieces, since) == Collected(file, pieces, since)[Len(pieces)]

\* Offset skips the first matches, Limit (0: none) stops the scan.
Page(entries, offset, limit) ==
  LET rest == SubSeq(entries, offset + 1, Len(entries))
  IN IF limit > 0 /\ limit < Len(rest) THEN SubSeq(rest, 1, limit) ELSE rest

-------------------------------------------------------------------------------
(* Forwards *)

\* Position of the first newline at or after p, counted from 0; Len if none.
NewlineFrom(file, bytes, p) ==
  LET at == {q \in p .. Len(bytes) - 1 : IsNewline(file, bytes[q + 1])}
  IN IF at = {} THEN Len(bytes) ELSE CHOOSE q \in at : \A r \in at : q <= r

\* Plausible bug: the probe moves the lower end even when its line is in range.
MutantProbe(file, bytes, target, lo, hi) ==
  LET mid == (lo + hi) \div 2
      start == NewlineFrom(file, bytes, mid) + 1
      end == NewlineFrom(file, bytes, start)
      text == SubSeq(bytes, start + 1, end)
  IN IF start >= Len(bytes) THEN <<lo, mid>>
     ELSE IF text = <<>> THEN <<mid + 1, hi>>
     ELSE IF ~Parses(file, text) \/ Parsed(file, text) <= target THEN <<end + 1, hi>>
     ELSE <<lo, mid>>

\* One round of FindStartOffsetByTime: the line after the middle decides.  An
\* entry's number is its time stamp.
Probe(file, bytes, target, lo, hi) ==
  LET mid == (lo + hi) \div 2
      start == NewlineFrom(file, bytes, mid) + 1
      end == NewlineFrom(file, bytes, start)
      text == SubSeq(bytes, start + 1, end)
  IN IF start >= Len(bytes) THEN <<lo, mid>>
     ELSE IF text = <<>> THEN <<mid + 1, hi>>
     ELSE IF ~Parses(file, text) \/ Parsed(file, text) < target THEN <<end + 1, hi>>
     ELSE <<lo, mid>>

\* The ends of the interval, round by round until they meet.  Every round makes
\* it smaller, so that there are no more rounds than bytes.
Intervals(file, target) ==
  LET bytes == Bytes(file)
      I[r \in 0 .. Len(bytes)] ==
        IF r = 0 THEN <<0, Len(bytes)>>
        ELSE LET p == I[r - 1]
             IN IF p[1] >= p[2] THEN p ELSE Probe(file, bytes, target, p[1], p[2])
  IN I
FindStartOffsetByTime(file, target) == Intervals(file, target)[Len(Bytes(file))][1]

\* since = 0 is the zero time: no bound.
ReadAuditEntries(file, since, offset, limit) ==
  LET from == IF since = 0 THEN 0 ELSE FindStartOffsetByTime(file, since)
      bytes == Bytes(file)
  IN Page(Entries(file, Split(file, SubSeq(bytes, from + 1, Len(bytes))), since), offset, limit)

-------------------------------------------------------------------------------
(* Backwards *)

\* The r-th chunk from the end.
ChunkOf(bytes, r) ==
  LET end == Len(bytes) - (r - 1) * Chunk
  IN SubSeq(bytes, IF end > Chunk THEN end - Chunk + 1 ELSE 1, end)

\* What append(scanBuf[:n], buf...) holds for the chunk just read.  A remainder
\* that still lies at the front of scanBuf has been overwritten by the read.
Joined(chunk, buf, aliased) ==
  IF aliased
  THEN chunk \o [k \in DOMAIN buf |-> IF k <= Len(chunk) THEN chunk[k] ELSE buf[k]]
  ELSE chunk \o buf

\* One chunk: the text in front of its first newline is carried to the next
\* one, the pieces behind it are parsed from the last to the first.
ReadChunk(file, chunk, prev) ==
  LET pieces == Split(file, Joined(chunk, prev.buf, prev.aliased))
  IN [buf |-> Head(pieces), aliased |-> prev.buf = <<>>,
      pieces |-> prev.pieces \o Reverse(Tail(pieces))]

\* What is carried past the first chunk of the file is not parsed.
Rounds(total) == (total + Chunk - 1) \div Chunk
Backwards(file) ==
  LET bytes == Bytes(file)
      R[r \in 0 .. Rounds(Len(bytes))] ==
        IF r = 0 THEN [buf |-> <<>>, aliased |-> FALSE, pieces |-> <<>>]
        ELSE ReadChunk(file, ChunkOf(bytes, r), R[r - 1])
  IN R

ReadAuditEntriesReverse(file, since, offset, limit) ==
  Page(Entries(file, Backwards(file)[Rounds(Len(Bytes(file)))].pieces, since), offset, limit)
===============================================================================
