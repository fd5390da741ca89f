------------------------------ MODULE Recorder ------------------------------
(***************************************************************************)
(* The tick recorder (marketdata/recorder.py): a buffer flushed when it is *)
(* full and on a timer, one file per stream and hour, append-only, with    *)
(* failed writes, crashes and restarts; and read_recording over what is    *)
(* left on disk.  A record is its number in the order of recording.        *)
(***************************************************************************)
EXTENDS Naturals, SequencesExt, Sums

CONSTANTS Streams,
          BufferSize,    \* records that make _write flush (8192 in the code)
          MaxHour, MaxRecords, MaxFaults  \* bounds: hours, records, crashes and failed writes

ASSUME RecorderAssumption ==
  BufferSize \in Nat \ {0} /\ MaxHour \in Nat /\ MaxRecords \in Nat /\ MaxFaults \in Nat

Hours == 0..MaxHour

VARIABLES recUp,       \* "running", "stopped" or "down"
          recBuffer,   \* <<stream, record>> in order
          recHour,
          recOpen,     \* stream -> hour of the file it has open (partial)
          recDisk,     \* stream -> hour -> sequence of pieces, see Piece
          recWritten, recDropped,
          recFaults,
          recLog,      \* every record handed to the recorder, with its stream (history)
          recLost      \* records lost to a crash or a failed write (history)

recVars == <<recUp, recBuffer, recHour, recOpen, recDisk, recWritten, recDropped,
             recFaults, recLog, recLost>>

\* What one open handle appended: its lines, and whether the handle was closed.  A
\* compressed file is a sequence of such members; a member that was never closed
\* has no end-of-stream mark.
Piece(lines, closed) == [lines |-> lines, closed |-> closed]

Pieces == [lines : Seq(Nat), closed : BOOLEAN]

\* What the handle at the end of a file does to its piece.
Close(pieces) ==
  [i \in 1 .. Len(pieces) |-> IF i = Len(pieces) THEN Piece(pieces[i].lines, TRUE) ELSE pieces[i]]
AppendLines(pieces, lines) ==
  [i \in 1 .. Len(pieces) |->
     IF i = Len(pieces) THEN Piece(pieces[i].lines \o lines, pieces[i].closed) ELSE pieces[i]]

RecInit ==
  /\ recUp = "running" /\ recBuffer = <<>> /\ recHour = 0
  /\ recOpen = [s \in {} |-> 0]
  /\ recDisk = [s \in Streams |-> [h \in Hours |-> <<>>]]
  /\ recWritten = 0 /\ recDropped = 0 /\ recFaults = 0 /\ recLog = <<>> /\ recLost = {}

LinesOf(s, buffer) ==
  Joined([i \in 1 .. Len(buffer) |-> IF buffer[i][1] = s THEN <<buffer[i][2]>> ELSE <<>>])
InBuffer(buffer) == {buffer[i][1] : i \in DOMAIN buffer}

\* Mutant of FileFor: rotation leaves the old file open.
FileLeftOpen(files, s) ==
  IF s \in DOMAIN recOpen /\ recOpen[s] = recHour THEN files
  ELSE [files EXCEPT ![recHour] = Append(@, Piece(<<>>, FALSE))]

\* _file_for: the stream's open file when it is this hour's; otherwise the old one is
\* closed and this hour's opened for appending.
FileFor(files, s) ==
  IF s \in DOMAIN recOpen /\ recOpen[s] = recHour THEN files
  ELSE LET rotated == IF s \in DOMAIN recOpen THEN [files EXCEPT ![recOpen[s]] = Close(@)] ELSE files
       IN  [rotated EXCEPT ![recHour] = Append(@, Piece(<<>>, FALSE))]

\* flush: the buffer is taken, and each of its streams written; the streams in failing
\* raise OSError in the write and lose their lines, counted as dropped.
Flush(buffer, failing) ==
  LET streams == InBuffer(buffer)
      kept == Cardinality({i \in DOMAIN buffer : buffer[i][1] \notin failing})
  IN  /\ recBuffer' = <<>>
      /\ recOpen' = [s \in DOMAIN recOpen \cup streams |->
                       IF s \in streams THEN recHour ELSE recOpen[s]]
      /\ recDisk' = [s \in Streams |->
            IF s \notin streams THEN recDisk[s]
            ELSE IF s \in failing THEN FileFor(recDisk[s], s)
            ELSE [FileFor(recDisk[s], s) EXCEPT ![recHour] = AppendLines(@, LinesOf(s, buffer))]]
      /\ recWritten' = recWritten + kept
      /\ recDropped' = recDropped + Len(buffer) - kept
      /\ recLost' = recLost \cup {buffer[i][2] : i \in {j \in DOMAIN buffer : buffer[j][1] \in failing}}
      /\ recFaults' = recFaults + IF failing = {} THEN 0 ELSE 1

Faults(buffer) == IF recFaults < MaxFaults THEN SUBSET InBuffer(buffer) ELSE {{}}

\* _write, for every record_*: also after stop, when the buffer has no timer any more.
Write(s) ==
  /\ recUp \in {"running", "stopped"} /\ Len(recLog) < MaxRecords
  /\ recLog' = Append(recLog, s)
  /\ LET buffer == Append(recBuffer, <<s, Len(recLog) + 1>>) IN
     IF Len(buffer) < BufferSize
     THEN recBuffer' = buffer /\ UNCHANGED <<recOpen, recDisk, recWritten, recDropped, recFaults, recLost>>
     ELSE \E failing \in Faults(buffer) : Flush(buffer, failing)
  /\ UNCHANGED <<recUp, recHour>>

FlushTimer ==
  /\ recUp = "running" /\ recBuffer # <<>>
  /\ \E failing \in Faults(recBuffer) : Flush(recBuffer, failing)
  /\ UNCHANGED <<recUp, recHour, recLog>>

HourPasses ==
  /\ recHour < MaxHour /\ recHour' = recHour + 1
  /\ UNCHANGED <<recUp, recBuffer, recOpen, recDisk, recWritten, recDropped, recFaults, recLog, recLost>>

\* stop: the timer ends, the buffer is flushed, every file closed.
StopFlush ==
  /\ recUp = "running"
  /\ recUp' = "closing"
  /\ IF recBuffer = <<>>
     THEN UNCHANGED <<recBuffer, recOpen, recDisk, recWritten, recDropped, recFaults, recLost>>
     ELSE \E failing \in Faults(recBuffer) : Flush(recBuffer, failing)
  /\ UNCHANGED <<recHour, recLog>>

StopClose ==
  /\ recUp = "closing"
  /\ recUp' = "stopped"
  /\ recDisk' = [s \in Streams |->
        IF s \in DOMAIN recOpen THEN [recDisk[s] EXCEPT ![recOpen[s]] = Close(@)] ELSE recDisk[s]]
  /\ recOpen' = [s \in {} |-> 0]
  /\ UNCHANGED <<recBuffer, recHour, recWritten, recDropped, recFaults, recLog, recLost>>

\* The process dies with its buffer, its files as they are.
RecCrash ==
  /\ recUp # "down" /\ recFaults < MaxFaults
  /\ recFaults' = recFaults + 1
  /\ recUp' = "down"
  /\ recLost' = recLost \cup {recBuffer[i][2] : i \in DOMAIN recBuffer}
  /\ recBuffer' = <<>> /\ recOpen' = [s \in {} |-> 0]
  /\ UNCHANGED <<recHour, recDisk, recWritten, recDropped, recLog>>

\* A new process records on into the same directory, its counters at zero.
RecRestart ==
  /\ recUp = "down"
  /\ recUp' = "running" /\ recWritten' = 0 /\ recDropped' = 0
  /\ UNCHANGED <<recBuffer, recHour, recOpen, recDisk, recFaults, recLog, recLost>>

RecNext ==
  \/ \E s \in Streams : Write(s)
  \/ FlushTimer \/ HourPasses \/ StopFlush \/ StopClose \/ RecCrash \/ RecRestart

RecSpec == RecInit /\ [][RecNext]_recVars

-----------------------------------------------------------------------------

\* The first of the bad ones, or the last of all.
Until(bad, last) == IF bad = {} THEN last ELSE Min(bad)

\* read_recording of a compressed file: lines up to the first member that does not
\* end, where the decompressor raises; reading goes on past closed members.
Unended(pieces) == {i \in 1 .. Len(pieces) : ~pieces[i].closed}
ReadFile(pieces) == Joined([i \in 1 .. Until(Unended(pieces), Len(pieces)) |-> pieces[i].lines])

\* iter_recordings of one stream: its files by name, which is by hour; the first file
\* that raises ends the iteration.
ReadStream(files) ==
  LET raising == {h \in Hours : Unended(files[h]) # {}}
  IN  Joined([n \in 1 .. Until(raising, MaxHour) + 1 |-> ReadFile(files[n - 1])])

\* Whatever is read back of a stream comes in the order it was recorded, each record
\* once and none that was lost; without a crash or a failed write, a recorder that was
\* stopped with an empty buffer has left every record where it is read.  Code: flush,
\* rotation, stop.
RecordsReadBack ==
  \A s \in Streams :
    LET read == ReadStream(recDisk[s])
        recorded == {i \in 1 .. Len(recLog) : recLog[i] = s}
    IN  /\ \A i, j \in 1 .. Len(read) : i < j => read[i] < read[j]
        /\ Range(read) \subseteq recorded \ recLost
        /\ recUp = "stopped" /\ recBuffer = <<>> /\ recFaults = 0 => recorded \subseteq Range(read)

\* Every record that was flushed and not dropped can be read, whatever crashed in
\* between (the module's promise: a crash costs one record, not the file).
CrashCostsTheTail ==
  recUp = "stopped" =>
    \A s \in Streams : \A i \in DOMAIN recLog :
      recLog[i] = s /\ i \notin recLost /\ (\A k \in DOMAIN recBuffer : recBuffer[k][2] # i)
        => i \in Range(ReadStream(recDisk[s]))
=============================================================================
