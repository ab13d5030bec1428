---------------------------- MODULE LoggerScope ----------------------------
(***************************************************************************)
(* The process-wide logging scope: callers that enter use_logger_handler,  *)
(* the producer threads whose records reach whatever handler is installed, *)
(* and the writer thread of each scope that drains its queue into sinks.   *)
(*                                                                         *)
(* A step is what one thread does between two points where another may     *)
(* run: a region under RUNTIME_LOCK, under a handler's admission lock, one *)
(* record of the writer, or one await of a scope's caller.                 *)
(***************************************************************************)
EXTENDS FileSink

CONSTANTS
  Scope,        \* callers that enter a handler scope, once each
  Producer,     \* threads that log
  Wrapped,      \* producers that log through lclang.logger.Logger
  Selected,     \* Selected[k]: the producers whose records sink k accepts
  RecordLimit,  \* bound: how many records each producer logs
  FaultLimit,   \* bound: I/O faults of the sinks
  RotateLimit   \* bound: time rotations of one file

None == "none"
Original == "original"   \* the handlers the application had installed
Sentinel == [by |-> None, n |-> 0]   \* the None that ends a queue
Record == [by : Producer, n : Nat \ {0}]

ASSUME ScopeAssumption ==
  /\ Wrapped \subseteq Producer
  /\ Selected \in [Sink -> SUBSET Producer]
  /\ RecordLimit \in [Producer -> Nat]
  /\ {FaultLimit, RotateLimit} \subseteq Nat
  /\ {None, Original} \cap Scope = {}

VARIABLES
  active,     \* runtime_registry.active_runtime
  at,         \* where each scope's caller is
  started,    \* runtimes that accept use_logger and Logger calls
  closing,    \* handlers that admit no more records
  installed,  \* what the root logger's handlers are
  saved,      \* what a scope's LoggingTakeover found there
  queue,      \* each handler's queue
  writer,     \* each scope's writer thread
  sinks,      \* the sinks of each scope's dispatcher
  producer,   \* each producer: the handler it is about to emit to, if any
  sent,       \* records each producer has begun to log
  admitted,   \* history: the records each handler queued, in order
  escaped,    \* history: records of wrapped producers that no scope's handler got
  faults      \* I/O faults so far

scopeVars == <<active, at, started, closing, installed, saved>>
writerVars == <<writer, sinks, faults>>
producerVars == <<producer, sent, admitted, escaped>>
vars == <<scopeVars, queue, writerVars, producerVars>>

Init ==
  /\ active = None
  /\ at = [s \in Scope |-> "outside"]
  /\ started = {} /\ closing = {}
  /\ installed = Original
  /\ saved = [s \in Scope |-> None]
  /\ queue = [s \in Scope |-> <<>>]
  /\ writer = [s \in Scope |-> "none"]
  /\ sinks = [s \in Scope |-> [k \in {} |-> Opened]]
  /\ producer = [p \in Producer |-> None]
  /\ sent = [p \in Producer |-> 0]
  /\ admitted = [s \in Scope |-> <<>>]
  /\ escaped = {}
  /\ faults = 0

Goto(s, place) == at' = [at EXCEPT ![s] = place]

----------------------------------------------------------------------------
\* use_logger_handler

\* A wrong form: the slot is looked at without being taken.
ReserveUnclaimed(s) ==
  /\ at[s] = "outside" /\ active = None
  /\ Goto(s, "reserved")
  /\ UNCHANGED <<active, started, closing, installed, saved, queue, writerVars, producerVars>>

\* reserve; while another scope has the slot, entry is refused
Reserve(s) ==
  /\ at[s] = "outside" /\ active = None
  /\ active' = s
  /\ Goto(s, "reserved")
  /\ UNCHANGED <<started, closing, installed, saved, queue, writerVars, producerVars>>

Refuse(s) ==
  /\ at[s] = "outside" /\ active # None
  /\ Goto(s, "refused")
  /\ UNCHANGED <<active, started, closing, installed, saved, queue, writerVars, producerVars>>

\* thread.start; when it raises there is no writer to join
StartWriter(s, launched) ==
  /\ at[s] = "reserved"
  /\ Goto(s, IF launched THEN "waiting" ELSE "stopping")
  /\ writer' = IF launched THEN [writer EXCEPT ![s] = "initializing"] ELSE writer
  /\ UNCHANGED <<active, started, closing, installed, saved, queue, sinks, faults,
                 producerVars>>

\* The writer is ready: the logging state is saved and taken over and Logger
\* calls are accepted, with no await in between; a thread that looks in before
\* the last assignment is rejected or queues to the same handler.  Otherwise
\* the writer's startup error is raised.
Takeover(s) ==
  /\ at[s] = "waiting" /\ writer[s] = "running"
  /\ saved' = [saved EXCEPT ![s] = installed]
  /\ installed' = s
  /\ started' = started \cup {s}
  /\ Goto(s, "inside")
  /\ UNCHANGED <<active, closing, queue, writerVars, producerVars>>

StartupFails(s) ==
  /\ at[s] = "waiting" /\ writer[s] = "dead"
  /\ Goto(s, "stopping")
  /\ UNCHANGED <<active, started, closing, installed, saved, queue, writerVars, producerVars>>

\* The body returns or raises, or the caller is cancelled in it or while it
\* waits for the writer.
Leave(s) ==
  /\ at[s] \in {"waiting", "inside"}
  /\ Goto(s, "stopping")
  /\ UNCHANGED <<active, started, closing, installed, saved, queue, writerVars, producerVars>>

\* A wrong form: admission ends but the writer is never told.
StopSilently(s) ==
  /\ at[s] = "stopping"
  /\ closing' = closing \cup {s}
  /\ Goto(s, IF writer[s] = "none" THEN "restoring" ELSE "joining")
  /\ UNCHANGED <<active, started, installed, saved, queue, writerVars, producerVars>>

\* LocalQueueHandler.stop
Stop(s) ==
  /\ at[s] = "stopping"
  /\ closing' = closing \cup {s}
  /\ queue' = [queue EXCEPT ![s] = Append(@, Sentinel)]
  /\ Goto(s, IF writer[s] = "none" THEN "restoring" ELSE "joining")
  /\ UNCHANGED <<active, started, installed, saved, writerVars, producerVars>>

\* finish_cleanup: cancellation of the caller does not end the wait
Join(s) ==
  /\ at[s] = "joining" /\ writer[s] = "dead"
  /\ Goto(s, "restoring")
  /\ UNCHANGED <<active, started, closing, installed, saved, queue, writerVars, producerVars>>

\* A wrong form: the scope takes its handler out but forgets what was there.
RestoreNothing(s) ==
  /\ at[s] = "restoring"
  /\ started' = started \ {s}
  /\ Goto(s, "releasing")
  /\ UNCHANGED <<active, closing, installed, saved, queue, writerVars, producerVars>>

\* LoggingTakeover.restore, under the admission lock
Restore(s) ==
  /\ at[s] = "restoring"
  /\ installed' = IF saved[s] = None THEN installed ELSE saved[s]
  /\ started' = started \ {s}
  /\ Goto(s, "releasing")
  /\ UNCHANGED <<active, closing, saved, queue, writerVars, producerVars>>

Release(s) ==
  /\ at[s] = "releasing"
  /\ active' = None
  /\ Goto(s, "left")
  /\ UNCHANGED <<started, closing, installed, saved, queue, writerVars, producerVars>>

----------------------------------------------------------------------------
\* Producers

\* A standard-library logger reads the handlers it will call; a Logger reads
\* the active runtime, and is rejected where there is none.
Resolve(p) ==
  /\ producer[p] = None /\ sent[p] < RecordLimit[p]
  /\ sent' = [sent EXCEPT ![p] = @ + 1]
  /\ producer' = [producer EXCEPT ![p] =
       IF p \in Wrapped THEN IF active \in started THEN active ELSE None
       ELSE installed]
  /\ UNCHANGED <<scopeVars, queue, writerVars, admitted, escaped>>

\* A wrong form: the closing flag is not looked at.
AdmitAlways(s, p) ==
  LET r == [by |-> p, n |-> sent[p]]
  IN  /\ queue' = [queue EXCEPT ![s] = Append(@, r)]
      /\ admitted' = [admitted EXCEPT ![s] = Append(@, r)]

\* LocalQueueHandler.emit
Admit(s, p) ==
  LET r == [by |-> p, n |-> sent[p]]
  IN  IF s \in closing THEN UNCHANGED <<queue, admitted>>
      ELSE /\ queue' = [queue EXCEPT ![s] = Append(@, r)]
           /\ admitted' = [admitted EXCEPT ![s] = Append(@, r)]

\* A standard-library logger calls the handler it found, whose scope may have
\* begun to close or ended meanwhile.
Emit(p) ==
  /\ p \notin Wrapped /\ producer[p] # None
  /\ producer' = [producer EXCEPT ![p] = None]
  /\ IF producer[p] = Original THEN UNCHANGED <<queue, admitted>> ELSE Admit(producer[p], p)
  /\ UNCHANGED <<scopeVars, writerVars, sent, escaped>>

\* A Logger holds the admission lock of the runtime it found while the record
\* passes through the logging tree to the handlers installed there.
LogWrapped(p) ==
  LET s == producer[p]
  IN  /\ p \in Wrapped /\ s # None
      /\ producer' = [producer EXCEPT ![p] = None]
      /\ IF s \in closing THEN UNCHANGED <<queue, admitted, escaped>>
         ELSE IF installed \in Scope
              THEN Admit(installed, p) /\ UNCHANGED escaped
              ELSE /\ escaped' = escaped \cup {[by |-> p, n |-> sent[p]]}
                   /\ UNCHANGED <<queue, admitted>>
      /\ UNCHANGED <<scopeVars, writerVars, sent>>

----------------------------------------------------------------------------
\* Dispatcher.run

\* All sinks open, or one cannot and those opened before it are closed again.
Initialize(s, ok) ==
  /\ writer[s] = "initializing"
  /\ ok \/ faults < FaultLimit
  /\ faults' = IF ok THEN faults ELSE faults + 1
  /\ writer' = [writer EXCEPT ![s] = IF ok THEN "running" ELSE "dead"]
  /\ sinks' = IF ok THEN [sinks EXCEPT ![s] = [k \in Sink |-> Opened]] ELSE sinks
  /\ UNCHANGED <<scopeVars, queue, producerVars>>

\* Dispatcher.dispatch: every sink that selects the record writes it or fails,
\* one of them at most in a step.
Dispatch(s, bad, fault) ==
  /\ writer[s] = "running" /\ queue[s] # <<>> /\ Head(queue[s]) # Sentinel
  /\ fault = "none" \/ faults < FaultLimit
  /\ LET r == Head(queue[s])
         Handle(k) == IF r.by \in Selected[k]
                      THEN Deliver(k, sinks[s][k], r, IF k = bad THEN fault ELSE "none")
                      ELSE sinks[s][k]
     IN  sinks' = [sinks EXCEPT ![s] = [k \in Sink |-> Handle(k)]]
  /\ faults' = IF fault = "none" THEN faults ELSE faults + 1
  /\ queue' = [queue EXCEPT ![s] = Tail(@)]
  /\ UNCHANGED <<scopeVars, writer, producerVars>>

\* Dispatcher.timers: a file's rotation deadline has passed, or its flush fails.
Rotate(s, k, due, fault) ==
  /\ writer[s] = "running" /\ k \in File
  /\ due => (k \in Timed /\ sinks[s][k].counts["rollover_count"] < RotateLimit)
  /\ due \/ (fault = "flush" /\ sinks[s][k].stream # 0)
  /\ fault = "none" \/ faults < FaultLimit
  /\ sinks' = [sinks EXCEPT ![s][k] = Timers(k, @, due, fault)]
  /\ faults' = IF fault = "none" THEN faults ELSE faults + 1
  /\ UNCHANGED <<scopeVars, queue, writer, producerVars>>

\* The queue gave nothing before its timeout: the loop goes round.
Poll(s) ==
  /\ writer[s] = "running" /\ queue[s] = <<>>
  /\ UNCHANGED vars

\* The sentinel ends the loop; every sink is closed, whatever its flush does.
FinishWriter(s, bad, fault) ==
  /\ writer[s] = "running" /\ queue[s] # <<>> /\ Head(queue[s]) = Sentinel
  /\ fault = "none" \/ faults < FaultLimit
  /\ sinks' = [sinks EXCEPT ![s] =
       [k \in Sink |-> Closed(k, @[k], IF k = bad THEN fault ELSE "none")]]
  /\ faults' = IF fault = "none" THEN faults ELSE faults + 1
  /\ writer' = [writer EXCEPT ![s] = "dead"]
  /\ queue' = [queue EXCEPT ![s] = Tail(@)]
  /\ UNCHANGED <<scopeVars, producerVars>>

----------------------------------------------------------------------------

\* All callers are through, all producers have logged what they will.
Finished ==
  /\ \A s \in Scope : at[s] \in {"refused", "left"}
  /\ \A p \in Producer : sent[p] = RecordLimit[p] /\ producer[p] = None
  /\ UNCHANGED vars

CallerNext(s) ==
  \/ Reserve(s) \/ Refuse(s)
  \/ \E launched \in BOOLEAN : StartWriter(s, launched)
  \/ Takeover(s) \/ StartupFails(s) \/ Leave(s)
  \/ Stop(s) \/ Join(s) \/ Restore(s) \/ Release(s)

WriterNext(s) ==
  \/ \E ok \in BOOLEAN : Initialize(s, ok)
  \/ Poll(s)
  \/ \E bad \in Sink, fault \in Fault \cup {"none"} :
       \/ Dispatch(s, bad, fault)
       \/ \E due \in BOOLEAN : Rotate(s, bad, due, fault)
       \/ FinishWriter(s, bad, fault)

ProducerNext(p) == Resolve(p) \/ Emit(p) \/ LogWrapped(p)

Next ==
  \/ \E s \in Scope : CallerNext(s) \/ WriterNext(s)
  \/ \E p \in Producer : ProducerNext(p)
  \/ Finished

Spec == Init /\ [][Next]_vars

\* The event loop resumes a caller whose await is over, and a writer thread is
\* scheduled until it has taken what its queue holds; whether a body ever ends
\* is up to the application.
Resumes(s) ==
  \/ StartWriter(s, TRUE) \/ Takeover(s) \/ StartupFails(s)
  \/ Stop(s) \/ Join(s) \/ Restore(s) \/ Release(s)

Drains(s) ==
  \/ Initialize(s, TRUE)
  \/ Dispatch(s, Console, "none") \/ FinishWriter(s, Console, "none")

Fairness == \A s \in Scope : WF_vars(Resumes(s)) /\ WF_vars(Drains(s))

FairSpec == Spec /\ Fairness

----------------------------------------------------------------------------
\* Properties

Place == {"outside", "refused", "reserved", "waiting", "inside", "stopping",
          "joining", "restoring", "releasing", "left"}

\* Slots, handlers, queues and threads have the logger's types.
TypeOK ==
  /\ active \in Scope \cup {None}
  /\ at \in [Scope -> Place]
  /\ started \subseteq Scope /\ closing \subseteq Scope
  /\ installed \in Scope \cup {Original}
  /\ saved \in [Scope -> Scope \cup {Original, None}]
  /\ queue \in [Scope -> Seq(Record \cup {Sentinel})]
  /\ writer \in [Scope -> {"none", "initializing", "running", "dead"}]
  /\ producer \in [Producer -> Scope \cup {Original, None}]
  /\ \A p \in Producer : sent[p] \in 0 .. RecordLimit[p]
  /\ DOMAIN sent = Producer
  /\ admitted \in [Scope -> Seq(Record)]
  /\ escaped \subseteq Record
  /\ faults \in 0 .. FaultLimit

Entered == {"reserved", "waiting", "inside", "stopping", "joining", "restoring", "releasing"}

\* The slot is one scope's from its reservation to its release, so the logging
\* state is never taken over by two scopes at a time ("a process owns one
\* asynchronous handler scope").
ExclusiveScope ==
  /\ \A s \in Scope : at[s] \in Entered => active = s
  /\ \A s \in Scope : s \in started \/ installed = s => at[s] \in {"inside",
       "stopping", "joining", "restoring"}

\* Whoever may take the logging state over next finds the application's own.
RestoredOutside == active = None => installed = Original

\* The state is given back only when the writer has drained the queue.
DrainedBeforeRestore ==
  \A s \in Scope :
    at[s] \in {"restoring", "releasing", "left"} => writer[s] \in {"none", "dead"}

\* Every record a handler admitted, in whatever thread and however late, has
\* been through every sink that selects it once the writer ends: it was written
\* or its failure was counted.
AdmittedHandled ==
  \A s \in Scope : writer[s] = "dead" =>
    /\ admitted[s] # <<>> => queue[s] = <<>>
    /\ DOMAIN sinks[s] = Sink => \A k \in Sink :
         LET c == sinks[s][k].counts
             selects == {i \in DOMAIN admitted[s] : admitted[s][i].by \in Selected[k]}
         IN  /\ c["records_enqueued"] = Cardinality(selects)
             /\ c["records_enqueued"] <= c["records_written"] + c["writer_errors"]

\* Over all its segments, a sink holds each written record once, in the order
\* of admission: recovery after a failure neither replays nor reorders.
WrittenOnceInOrder ==
  \A s \in Scope : \A k \in DOMAIN sinks[s] :
    LET f == sinks[s][k]
        Position(r) == CHOOSE i \in DOMAIN admitted[s] : admitted[s][i] = r
    IN  /\ Cardinality(Places(f)) = f.counts["records_written"]
        /\ \A a, b \in Places(f) :
             Precedes(a, b) => Position(LineAt(f, a)) < Position(LineAt(f, b))

\* A file sink never leaks a stream: the only open segment is the current one,
\* and none is open when the writer has ended.
OneOpenSegment ==
  \A s \in Scope : \A k \in DOMAIN sinks[s] \cap File :
    LET f == sinks[s][k]
    IN  /\ OpenSegments(f) = {f.stream} \ {0}
        /\ writer[s] = "dead" => f.stream = 0

\* Size rotation: only a segment's first record may take it past max_bytes.
SizeBounded ==
  \A s \in Scope : \A k \in DOMAIN sinks[s] \cap Sized :
    sinks[s][k].records > 1 => sinks[s][k].size <= MaxBytes

\* The state of the scope is well formed, its files are in order and so are the
\* records in them, whichever I/O operation fails.
SinkInv == TypeOK /\ WrittenOnceInOrder /\ OneOpenSegment /\ SizeBounded

\* A Logger's record reaches a scope's handler or none: it never falls through
\* to handlers restored between its check and its emission.
WrappedStayInScope == escaped = {}

\* A scope that is being left is left: the sentinel gets through and the join
\* ends, whatever producers and sinks do meanwhile.
LeavingEnds == \A s \in Scope : at[s] = "stopping" ~> at[s] = "left"

============================================================================
