--------------------------- MODULE FileTelemetry ---------------------------
(***************************************************************************)
(* The telemetry file and its rotation.  Any thread that records an event  *)
(* or a sample stats the file, rotates it when it is full (.1 to .2 and so *)
(* on, the oldest removed, then the file itself to .1), opens it and       *)
(* appends one line in two writes.  No lock is held across these steps.    *)
(***************************************************************************)
EXTENDS Integers, FiniteSets

CONSTANTS Writers,      \* threads that record telemetry
          KeepFiles,    \* keep_files, clamped to 1..100
          MaxLines,     \* max_bytes, in lines
          SampleRate,   \* decode_reject_sample_rate, at least 1
          RejectKeys,   \* selector and reason of a decode reject
          MaxRecords    \* bound: lines started

ASSUME FileAssumption ==
  KeepFiles \in 1..100 /\ SampleRate \in Nat \ {0} /\ MaxLines \in Nat /\ MaxRecords \in Nat

VARIABLES files,        \* path index (0: the live file, i: rotated i) -> inode, 0 for none
          lines,        \* inode -> records it holds
          writer,       \* what each thread is doing
          started,      \* records started
          samples,      \* FileTelemetryState
          dropped,      \* records in files that were removed or replaced
          overlapped    \* two rotations were under way together

fileVars == <<files, lines, writer, started, samples, dropped, overlapped>>

NoFile   == 0
Resting  == [at |-> "idle", idx |-> 0, inode |-> NoFile, record |-> 0]
Inodes   == 1..MaxRecords

FilesInit ==
  /\ files = [i \in 0..KeepFiles |-> NoFile]
  /\ lines = [n \in Inodes |-> {}]
  /\ writer = [w \in Writers |-> Resting]
  /\ started = 0 /\ dropped = {} /\ overlapped = FALSE
  /\ samples = [seen |-> 0, keys |-> {}]

\* should_write_edge_sample for a decode reject; edge_samples_seen counts modulo the rate.
Sampled(key) == key \notin samples.keys \/ (samples.seen + 1) % SampleRate = 0

StartLine(w) ==
  /\ writer[w] = Resting /\ started < MaxRecords
  /\ started' = started + 1
  /\ writer' = [writer EXCEPT ![w] = [Resting EXCEPT !.at = "stat", !.record = started + 1]]

\* An event, a latency or any sample that is not a decode reject.
RecordEvent(w) == StartLine(w) /\ UNCHANGED <<files, lines, samples, dropped, overlapped>>

RecordReject(w, key) ==
  /\ samples' = [seen |-> (samples.seen + 1) % SampleRate, keys |-> samples.keys \cup {key}]
  /\ IF Sampled(key) THEN StartLine(w)
     ELSE writer[w] = Resting /\ UNCHANGED <<writer, started>>
  /\ UNCHANGED <<files, lines, dropped, overlapped>>

Rotating(w) == writer[w].at \in {"shift", "swap"}

\* fs::metadata: no file, or one that is not full, needs no rotation.
Stat(w) ==
  LET full == files[0] # NoFile /\ Cardinality(lines[files[0]]) >= MaxLines
  IN  /\ writer[w].at = "stat"
      /\ writer' = [writer EXCEPT ![w].at = IF full THEN "shift" ELSE "open", ![w].idx = KeepFiles]
      /\ overlapped' = (overlapped \/ (full /\ \E v \in Writers \ {w} : Rotating(v)))
      /\ UNCHANGED <<files, lines, started, samples, dropped>>

\* rename replaces what is at the target; a source that does not exist is left alone.
Move(from, to) ==
  /\ files' = [files EXCEPT ![to] = files[from], ![from] = NoFile]
  /\ dropped' = IF files[to] = NoFile THEN dropped ELSE dropped \cup lines[files[to]]

RemoveFile(idx) ==
  /\ files' = [files EXCEPT ![idx] = NoFile]
  /\ dropped' = dropped \cup lines[files[idx]]

\* Mutation: the files are shifted from the newest on.
ShiftAscending(w) ==
  LET idx == KeepFiles + 1 - writer[w].idx
  IN  /\ writer[w].at = "shift"
      /\ CASE files[idx] = NoFile -> UNCHANGED <<files, dropped>>
           [] files[idx] # NoFile /\ idx = KeepFiles -> RemoveFile(idx)
           [] files[idx] # NoFile /\ idx # KeepFiles -> Move(idx, idx + 1)
      /\ writer' = [writer EXCEPT ![w].at = IF idx = KeepFiles THEN "swap" ELSE "shift", ![w].idx = @ - 1]
      /\ UNCHANGED <<lines, started, samples, overlapped>>

\* One round of the loop over idx in (1..=keep_files).rev().
Shift(w) ==
  LET idx == writer[w].idx
  IN  /\ writer[w].at = "shift"
      /\ CASE files[idx] = NoFile -> UNCHANGED <<files, dropped>>
           [] files[idx] # NoFile /\ idx = KeepFiles -> RemoveFile(idx)
           [] files[idx] # NoFile /\ idx # KeepFiles -> Move(idx, idx + 1)
      /\ writer' = [writer EXCEPT ![w].at = IF idx = 1 THEN "swap" ELSE "shift",
                                  ![w].idx = idx - 1]
      /\ UNCHANGED <<lines, started, samples, overlapped>>

Swap(w) ==
  /\ writer[w].at = "swap"
  /\ IF files[0] = NoFile THEN UNCHANGED <<files, dropped>> ELSE Move(0, 1)
  /\ writer' = [writer EXCEPT ![w].at = "open"]
  /\ UNCHANGED <<lines, started, samples, overlapped>>

\* Open for appending, creating the file if need be; the handle follows the inode from now on.
Open(w) ==
  LET inode == IF files[0] = NoFile THEN writer[w].record ELSE files[0]
  IN  /\ writer[w].at = "open"
      /\ files' = [files EXCEPT ![0] = inode]
      /\ writer' = [writer EXCEPT ![w].at = "append", ![w].inode = inode]
      /\ UNCHANGED <<lines, started, samples, dropped, overlapped>>

\* The record and, in a second write, its newline.
AppendLine(w) ==
  LET inode == writer[w].inode
  IN  /\ writer[w].at = "append"
      /\ lines' = [lines EXCEPT ![inode] = @ \cup {writer[w].record}]
      /\ dropped' = IF \E i \in 0..KeepFiles : files[i] = inode THEN dropped
                    ELSE dropped \cup {writer[w].record}
      /\ writer' = [writer EXCEPT ![w] = Resting]
      /\ UNCHANGED <<files, started, samples, overlapped>>

FilesNext ==
  \E w \in Writers :
    \/ RecordEvent(w)
    \/ \E key \in RejectKeys : RecordReject(w, key)
    \/ Stat(w) \/ Shift(w) \/ Swap(w) \/ Open(w) \/ AppendLine(w)

FilesSpec == FilesInit /\ [][FilesNext]_fileVars
-----------------------------------------------------------------------------
\* Telemetry is dropped by age: once a line is gone, KeepFiles full rotated files with other lines
\* are there - unless two threads found the file full and rotated it together.  Then the second
\* removes or replaces what the first has just moved, and lines are lost early.
EarlyLossOnlyByOverlap ==
  dropped # {} /\ ~overlapped /\ (\A w \in Writers : ~Rotating(w)) =>
    \A i \in 1..KeepFiles : files[i] # NoFile /\ Cardinality(lines[files[i]]) >= MaxLines
===========================================================================
