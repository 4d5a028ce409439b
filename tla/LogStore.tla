------------------------------- MODULE LogStore -------------------------------
(***************************************************************************)
(* The daemon's log (logs.rs): a ring of records in memory, which readers  *)
(* ask for by id, and the rotated files.                                   *)
(*                                                                         *)
(* Any thread emits: it draws an id, pushes the record under the lock of   *)
(* the ring and writes it under the lock of the file, three steps with     *)
(* other threads between them.  The ids are those of one daemon: the next  *)
(* one counts from 1 again.                                                *)
(***************************************************************************)
EXTENDS Bounds, Sequences, SequencesExt

CONSTANTS
  MaxInMemory,     \* records the ring holds
  MaxFileRecords,  \* a file of this many is full
  MaxFiles         \* rotated files

ASSUME LogAssumption == {MaxInMemory, MaxFileRecords, MaxFiles} \subseteq Nat \ {0}

VARIABLES
  up,       \* whether the daemon runs
  life,     \* how many daemons there have been
  nextId,   \* next_id
  ring,     \* records
  emitting, \* the calls of emit under way
  files,    \* mtpdrive.log, mtpdrive.log.1 and so on: the records in each
  sink,     \* the number of the file that is written to
  written,  \* history: how many records have been written
  missable  \* history: records that a reader may not see (NothingSkipped)

logVars == <<up, life, nextId, ring, emitting, files, sink, written, missable>>

Record  == [life : Nat, id : Nat]
Absent  == <<0>>  \* no such file; the first record written is number 1
Index   == 0 .. MaxFiles
Gone    == MaxFiles + 1  \* the sink's file has been replaced by another
Pending == {e.record.id : e \in {c \in emitting : c.step = "push"}}

Draw ==
  /\ up /\ Spends("records")
  /\ emitting' = emitting \cup {[record |-> [life |-> life, id |-> nextId], step |-> "push"]}
  /\ nextId' = nextId + 1
  /\ UNCHANGED <<up, life, ring, files, sink, written, missable>>

\* A record with a higher id is in the ring already, or has been.
Overtaken(record) == (record.id + 1 .. nextId - 1) \ Pending # {}
Evicted == IF Len(ring) = MaxInMemory THEN {Head(ring)} ELSE {}
PushesOn(record) == Append(ring, record)  \* mutant: the ring has no limit
Pushed(record) == Append(IF Len(ring) = MaxInMemory THEN Tail(ring) ELSE ring, record)

Push(e) ==
  /\ e \in emitting /\ e.step = "push"
  /\ ring' = Pushed(e.record)
  /\ missable' = missable \cup Evicted \cup (IF Overtaken(e.record) THEN {e.record} ELSE {})
  /\ emitting' = (emitting \ {e}) \cup {[e EXCEPT !.step = "write"]}
  /\ UNCHANGED <<up, life, nextId, files, sink, written, left>>

-----------------------------------------------------------------------------
(* The files.                                                              *)

\* rotate_files renames from the oldest file on, each over the next: when the files
\* from number m on have been renamed.
RotatedUpwards(m) ==  \* mutant: from the newest on
  [n \in Index |-> IF n < m THEN files[n] ELSE IF n = MaxFiles THEN files[m] ELSE Absent]
Rotated(m) ==
  [n \in Index |-> CASE n < m                                        -> files[n]
                     [] n = m /\ m < MaxFiles                        -> Absent
                     [] n = MaxFiles /\ (m = n \/ files[n - 1] = Absent) -> files[n]
                     [] OTHER                                        -> files[n - 1]]
Follows(m) ==
  IF sink >= m /\ sink < MaxFiles THEN sink + 1
  ELSE IF sink >= m /\ m < MaxFiles /\ files[MaxFiles - 1] # Absent THEN Gone ELSE sink

Full == sink = Gone \/ Len(files[sink]) >= MaxFileRecords
Fresh == [Rotated(0) EXCEPT ![0] = <<>>]
Writing(in, to) ==
  /\ sink' = to
  /\ files' = [n \in Index |-> IF n = to THEN Append(in[n], written + 1) ELSE in[n]]

\* If the file is full, all are renamed and a new one is begun; or the renaming of
\* number m - 1 fails, or opening the new file, and writing goes on as before.
Write(e) ==
  /\ e \in emitting /\ e.step = "write"
  /\ \/ ~Full /\ Writing(files, sink) /\ UNCHANGED left
     \/ Full /\ Writing(Fresh, 0) /\ UNCHANGED left
     \/ /\ Full /\ Spends("failures")
        /\ \E m \in Index : /\ m > 0 => files[m - 1] # Absent
                            /\ Writing(Rotated(m), Follows(m))
  /\ written' = written + 1
  /\ emitting' = emitting \ {e}
  /\ UNCHANGED <<up, life, nextId, ring, missable>>

-----------------------------------------------------------------------------
\* LogStore::after: what the ring has, in the ring's order, up to a limit.
NewestOf(after, limit) ==  \* mutant: the limit leaves out the oldest
  LET new == SelectSeq(ring, LAMBDA record : record.id > after)
  IN  SubSeq(new, IF Len(new) < limit THEN 1 ELSE Len(new) - limit + 1, Len(new))
After(after, limit) ==
  FoldLeft(LAMBDA got, record : IF (record.id > after) /\ (Len(got) < limit)
                                THEN Append(got, record) ELSE got, <<>>, ring)

\* The daemon's end takes its memory; LogStore::new goes on with the file there is,
\* and the daemon's first record says that it starts.
LogEnds ==
  /\ up' = FALSE
  /\ ring' = <<>> /\ emitting' = {}
  /\ UNCHANGED <<life, nextId, files, sink, written, missable>>
LogBegins ==
  /\ up' = TRUE /\ life' = life + 1 /\ nextId' = 2
  /\ emitting' = {[record |-> [life |-> life + 1, id |-> 1], step |-> "push"]}
  /\ files' = IF files[0] = Absent THEN [files EXCEPT ![0] = <<>>] ELSE files
  /\ sink' = 0
  /\ UNCHANGED <<ring, written, missable>>

\* A daemon has started and said so; the files of an earlier one are there, full, the
\* oldest number still free.
LogInit ==
  /\ up = TRUE /\ life = 1 /\ nextId = 2
  /\ ring = <<[life |-> 1, id |-> 1]>> /\ emitting = {}
  /\ written = MaxFiles * MaxFileRecords
  /\ files = [n \in Index |-> IF n = MaxFiles THEN Absent ELSE
                [k \in 1 .. MaxFileRecords |-> (MaxFiles - n - 1) * MaxFileRecords + k]]
  /\ sink = 0 /\ missable = {}

LogNext == Draw \/ \E e \in emitting : Push(e) \/ Write(e)
=============================================================================
