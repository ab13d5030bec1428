------------------------------ MODULE FileSink ------------------------------
(***************************************************************************)
(* The log sinks the writer thread owns: a console stream and files made   *)
(* of permanent segments with size and time rotation.  The module has no   *)
(* state of its own: a sink is a record, and each operation of FileSink,   *)
(* ConsoleSink and Dispatcher maps a sink and a possible I/O fault to the  *)
(* sink it leaves behind.  Sizes are in units of one record line.          *)
(***************************************************************************)
EXTENDS Naturals, Sequences, FiniteSets, SequencesExt

CONSTANTS
  Console,   \* the console sink, whose stream is borrowed and never closed
  File,      \* the file sinks
  Sized,     \* the files with size rotation
  Timed,     \* the files with time rotation
  MaxBytes,  \* rotation.max_bytes
  Header     \* size of the "log file" line that starts a segment

ASSUME SinkAssumption ==
  /\ Console \notin File /\ Sized \subseteq File /\ Timed \subseteq File
  /\ MaxBytes \in Nat \ {0} /\ Header \in Nat

Sink == File \cup {Console}

\* Where an operation may raise: exclusive creation of the next segment, the
\* record itself, the footer of the segment just replaced, or a flush.
Fault == {"create", "write", "footer", "flush"}

\* A segment holds the whole records handed to its stream: a line torn by a
\* failed write is not one, and what a failing flush takes with it stays listed.
NewSegment == [lines |-> <<>>, open |-> TRUE, footer |-> FALSE]

Count == {"records_enqueued", "records_written", "writer_errors", "rollover_count"}
NoCounts == [c \in Count |-> 0]

Tally(f, c) == [f EXCEPT !.counts[c] = @ + 1]

----------------------------------------------------------------------------
\* FileSink

\* create_segment and the reset around it
OpenSegment(f) ==
  [f EXCEPT !.segments = Append(@, NewSegment), !.stream = Len(f.segments) + 1,
            !.size = Header, !.records = 0]

\* FileSink.__init__ and ConsoleSink.__init__
Opened == OpenSegment([segments |-> <<>>, stream |-> 0, size |-> 0, records |-> 0,
                       counts |-> NoCounts])

\* FileSink.close: whatever the flush does, the stream is closed and forgotten.
CloseStream(f) ==
  IF f.stream = 0 THEN f
  ELSE [f EXCEPT !.segments[f.stream].open = FALSE, !.stream = 0]

\* A wrong form: the previous stream is closed only when its footer is written.
RetireUnprotected(f, previous, fault) ==
  IF previous = 0 \/ fault = "footer" THEN f
  ELSE [f EXCEPT !.segments[previous].open = FALSE,
                 !.segments[previous].footer = TRUE]

\* The previous segment is finished with its successor's path and closed; a
\* failing footer still closes it.
Retire(f, previous, fault) ==
  IF previous = 0 THEN f
  ELSE [f EXCEPT !.segments[previous].open = FALSE,
                 !.segments[previous].footer = fault # "footer"]

\* FileSink.rollover: the next segment exists before the old one ends.
Rollover(f, fault) ==
  IF fault = "create" THEN [sink |-> f, ok |-> FALSE]
  ELSE LET next == Retire(OpenSegment(f), f.stream, fault)
       IN  IF fault = "footer" /\ f.stream # 0 THEN [sink |-> next, ok |-> FALSE]
           ELSE [sink |-> Tally(next, "rollover_count"), ok |-> TRUE]

\* A segment that holds a record is full when the next one would pass the limit.
MustRotate(k, f) == k \in Sized /\ f.records > 0 /\ f.size + 1 > MaxBytes

\* The stream a record goes to: a sink that failed before opens a new segment.
Prepared(k, f, fault) ==
  IF f.stream = 0
  THEN IF fault = "create" THEN [sink |-> f, ok |-> FALSE]
       ELSE [sink |-> OpenSegment(f), ok |-> TRUE]
  ELSE IF MustRotate(k, f) THEN Rollover(f, fault) ELSE [sink |-> f, ok |-> TRUE]

Put(f, r) ==
  [f EXCEPT !.segments[f.stream].lines = Append(@, r),
            !.size = @ + 1, !.records = @ + 1]

\* FileSink.write
Write(k, f, r, fault) ==
  LET p == Prepared(k, f, fault)
  IN  IF ~p.ok \/ fault = "write" THEN [p EXCEPT !.ok = FALSE]
      ELSE [sink |-> Put(p.sink, r), ok |-> TRUE]

----------------------------------------------------------------------------
\* Dispatcher

\* Dispatcher.fail and report: the error is counted, and a failed file sink is
\* closed so that its next record starts a segment of its own.
Fail(k, f) ==
  LET reported == Tally(f, "writer_errors")
  IN  IF k \in File THEN CloseStream(reported) ELSE reported

\* One sink's part of Dispatcher.dispatch
Deliver(k, f, r, fault) ==
  LET w == IF k = Console
           THEN [sink |-> IF fault = "write" THEN f ELSE Put(f, r), ok |-> fault # "write"]
           ELSE Write(k, f, r, fault)
      counted == Tally(w.sink, "records_enqueued")
  IN  IF w.ok THEN Tally(counted, "records_written") ELSE Fail(k, counted)

\* One file's part of Dispatcher.timers: the rotation when it is due, then the
\* periodic flush.
Timers(k, f, due, fault) ==
  LET w == IF due THEN Rollover(f, fault) ELSE [sink |-> f, ok |-> TRUE]
  IN  IF w.ok /\ fault # "flush" THEN w.sink ELSE Fail(k, w.sink)

\* The end of Dispatcher.run closes every sink; a failing flush is only counted.
Closed(k, f, fault) ==
  LET flushed == IF fault = "flush" THEN Tally(f, "writer_errors") ELSE f
  IN  IF k \in File THEN CloseStream(flushed) ELSE flushed

\* Where a sink holds its records: the segment and the line in it, in the order
\* in which they were written.
Places(f) == UNION {{i} \X DOMAIN f.segments[i].lines : i \in DOMAIN f.segments}
LineAt(f, place) == f.segments[place[1]].lines[place[2]]
Precedes(a, b) == a[1] < b[1] \/ (a[1] = b[1] /\ a[2] < b[2])

OpenSegments(f) == {i \in DOMAIN f.segments : f.segments[i].open}

============================================================================
