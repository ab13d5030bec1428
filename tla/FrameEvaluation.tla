-------------------------- MODULE FrameEvaluation --------------------------
(***************************************************************************)
(* The concurrent heart of lclang's runtime: definitions of a hierarchy of *)
(* Frames are evaluated by asyncio tasks, one owner task per definition,   *)
(* shared by every reader, replaced by explicit recalculation and settled  *)
(* by the Frame's close task.                                              *)
(*                                                                         *)
(* A step of the model is what one asyncio task does between two           *)
(* suspension points.  A body may suspend between two reads (an operand    *)
(* may be an awaited host call), so each read is a step of its own.  Ready *)
(* tasks run in any order, a superset of the event loop's FIFO order.      *)
(*                                                                         *)
(* A successful snapshot is named by the task that committed it; its value *)
(* (val) is an object identity, named by the task that created the object. *)
(***************************************************************************)
EXTENDS Naturals, Sequences, FiniteSets

CONSTANTS
  Frame,          \* Frames alive in this instance
  Def,            \* definitions, one per (owning Frame, name)
  Caller,         \* host tasks using the public Frame API, one call each
  OwnerOf,        \* [Def -> Frame]
  Lineage,        \* [Frame -> SUBSET Frame], the Frame and its ancestors
  Deps,           \* [Def -> Seq(Def)], the definitions a body reads, in order
  Script,         \* [Caller -> SUBSET Call], what each caller may ask
  Impatient,      \* callers whose task may be cancelled while it waits
  Tolerant,       \* bodies that handle a failing read with an error form
  Fallible,       \* bodies whose host calls may raise an ordinary exception
  Interruptible,  \* bodies whose host calls may raise CancelledError
  Stubborn,       \* bodies whose host calls may swallow a cancellation
  Aliasing,       \* bodies that may return an object they read
  TaskLimit,      \* bound: owner tasks created in one behaviour
  MixinLimit      \* bound: mixin calls per Frame

Task == 1 .. TaskLimit
NoTask == 0
TaskOrNone == 0 .. TaskLimit

Call ==
  [op : {"get", "recalculate"}, frame : Frame, def : Def]
    \cup [op : {"close"}, frame : Frame]

ASSUME ConstantsAssumption ==
  /\ OwnerOf \in [Def -> Frame]
  /\ Lineage \in [Frame -> SUBSET Frame]
  /\ Deps \in [Def -> Seq(Def)]
  /\ Script \in [Caller -> SUBSET Call]
  /\ TaskLimit \in Nat
  /\ MixinLimit \in Nat

\* A read or a request selects a definition of the requester or an ancestor.
ASSUME VisibilityAssumption ==
  /\ \A f \in Frame : f \in Lineage[f]
  /\ \A f \in Frame : \A g \in Lineage[f] : Lineage[g] \subseteq Lineage[f]
  /\ \A d \in Def : \A i \in DOMAIN Deps[d] :
       OwnerOf[Deps[d][i]] \in Lineage[OwnerOf[d]]
  /\ \A c \in Caller : \A q \in Script[c] :
       q.op # "close" => OwnerOf[q.def] \in Lineage[q.frame]

VARIABLES
  spawned,    \* owner tasks created so far
  job,        \* per task: definition, kind, task-local flight path and flight
  st,         \* per task: where it is
  pos,        \* per task: reads already answered
  on,         \* per task: the task it awaits through a shield
  cancelReq,  \* tasks with a cancellation not yet delivered
  reads,      \* per task: objects read so far
  val,        \* per task: the object it returned
  seen,       \* per task: version of the host inputs its body observed
  inflight,   \* Frame._inflight, per definition
  refreshes,  \* Frame._refreshes, per definition
  results,    \* Frame._results, per definition
  failed,     \* Frame._failures, per definition
  retired,    \* lifecycle.retired, per Frame
  phase,      \* lifecycle.closing / closed and the close task's progress
  gathered,   \* tasks the close task cancelled and awaits
  toRelease,  \* objects the close task still has to close
  released,   \* objects the close task has closed
  inputs,     \* version of Frame._values, raised by mixin
  call,       \* per caller: the request and what it waits for
  answer,     \* per caller: how the request ended
  history,    \* history variable: committing tasks per definition
  aborted     \* history variable: definitions one of whose owner tasks ended
              \* cancelled while its Frame was open

taskVars == <<spawned, job, st, pos, on, cancelReq, reads, val, seen>>
cacheVars == <<inflight, refreshes, results, failed, retired>>
closeVars == <<phase, gathered, toRelease, released>>
callVars == <<call, answer>>
histVars == <<history, aborted>>
vars == <<taskVars, cacheVars, closeVars, inputs, callVars, histVars>>

----------------------------------------------------------------------------
\* Vocabulary

Kind == {"initial", "refresh"}
\* A flight is named by the owner task a caller's request started: a history
\* component, which no action reads but to pass it on.
Job == [def : Def, kind : Kind, path : SUBSET Def, flight : Task]
NoJob == [def |-> "none", kind |-> "none", path |-> {}, flight |-> NoTask]

LiveStates == {"queued", "running", "waiting"}
EndStates == {"returned", "raised", "cancelled"}

NoCall == [op |-> "none"]
Idle == [at |-> "idle", ask |-> NoCall, on |-> NoTask, since |-> 0, asked |-> 0]
Unanswered == [how |-> "none", of |-> NoTask]

IsOpen(f) == phase[f] = "open"
DefsOf(f) == {d \in Def : OwnerOf[d] = f}
DefOf(t) == job[t].def
FrameOf(t) == OwnerOf[DefOf(t)]
Live(t) == st[t] \in LiveStates
Ended(t) == st[t] \in EndStates
Cached(d) == results[d] # NoTask
CachedFailure(d) == failed[d] # NoTask

\* Objects a Frame's cache owns: lifecycle.retired and the cached results.
Held(f) == retired[f] \cup {val[results[d]] : d \in {e \in DefsOf(f) : Cached(e)}}

Init ==
  /\ spawned = 0
  /\ job = [t \in Task |-> NoJob]
  /\ st = [t \in Task |-> "unborn"]
  /\ pos = [t \in Task |-> 0]
  /\ on = [t \in Task |-> NoTask]
  /\ cancelReq = {}
  /\ reads = [t \in Task |-> {}]
  /\ val = [t \in Task |-> NoTask]
  /\ seen = [t \in Task |-> 0]
  /\ inflight = [d \in Def |-> NoTask]
  /\ refreshes = [d \in Def |-> NoTask]
  /\ results = [d \in Def |-> NoTask]
  /\ failed = [d \in Def |-> NoTask]
  /\ retired = [f \in Frame |-> {}]
  /\ phase = [f \in Frame |-> "open"]
  /\ gathered = [f \in Frame |-> {}]
  /\ toRelease = [f \in Frame |-> {}]
  /\ released = [f \in Frame |-> {}]
  /\ inputs = [f \in Frame |-> 0]
  /\ call = [c \in Caller |-> Idle]
  /\ answer = [c \in Caller |-> Unanswered]
  /\ history = [d \in Def |-> <<>>]
  /\ aborted = {}

----------------------------------------------------------------------------
\* Owner tasks

\* asyncio.create_task: the new task inherits the creator's flight path, to
\* which evaluate_definition appends its own key before the body runs.
Spawn(d, kind, creatorPath, flight) ==
  /\ spawned < TaskLimit
  /\ spawned' = spawned + 1
  /\ job' = [job EXCEPT ![spawned + 1] =
                 [def |-> d, kind |-> kind, path |-> creatorPath \cup {d},
                  flight |-> flight]]
  /\ inflight' = [inflight EXCEPT ![d] = spawned + 1]

\* The finally blocks of evaluate_definition and internal_run_refresh: the
\* names are popped whichever task they register.
Settle(t, end) ==
  /\ st' = [st EXCEPT ![t] = end]
  /\ on' = [on EXCEPT ![t] = NoTask]
  /\ inflight' = [inflight EXCEPT ![DefOf(t)] = NoTask]
  /\ refreshes' = IF job[t].kind = "refresh"
                    THEN [refreshes EXCEPT ![DefOf(t)] = NoTask]
                    ELSE refreshes

\* A wrong commit_result: the replaced object is dropped, not retired.
CommitResultUnretired(t, v) ==
  LET d == DefOf(t)
  IN  /\ val' = [val EXCEPT ![t] = v]
      /\ results' = [results EXCEPT ![d] = t]
      /\ failed' = [failed EXCEPT ![d] = NoTask]
      /\ history' = [history EXCEPT ![d] = Append(@, t)]
      /\ UNCHANGED retired

\* lifecycle.commit_result
CommitResult(t, v) ==
  LET d == DefOf(t)
      previous == results[d]
  IN  /\ retired' = IF previous # NoTask /\ val[previous] # v
                      THEN [retired EXCEPT ![OwnerOf[d]] = @ \cup {val[previous]}]
                      ELSE retired
      /\ val' = [val EXCEPT ![t] = v]
      /\ results' = [results EXCEPT ![d] = t]
      /\ failed' = [failed EXCEPT ![d] = NoTask]
      /\ history' = [history EXCEPT ![d] = Append(@, t)]

\* A wrong commit_failure: the value snapshot stays and hides the failure.
CommitFailureShadowed(t) ==
  LET d == DefOf(t)
  IN  /\ failed' = [failed EXCEPT ![d] = t]
      /\ history' = [history EXCEPT ![d] = Append(@, t)]
      /\ UNCHANGED <<retired, results>>

\* lifecycle.commit_failure
CommitFailure(t) ==
  LET d == DefOf(t)
      previous == results[d]
  IN  /\ retired' = IF previous # NoTask
                      THEN [retired EXCEPT ![OwnerOf[d]] = @ \cup {val[previous]}]
                      ELSE retired
      /\ results' = [results EXCEPT ![d] = NoTask]
      /\ failed' = [failed EXCEPT ![d] = t]
      /\ history' = [history EXCEPT ![d] = Append(@, t)]

\* A wrong start: the body sees the host values its Frame was built with.
StartWithBuildInputs(t) ==
  /\ st[t] = "queued"
  /\ t \notin cancelReq
  /\ st' = [st EXCEPT ![t] = "running"]
  /\ UNCHANGED <<spawned, job, pos, on, cancelReq, reads, val, seen, cacheVars,
                 closeVars, inputs, callVars, histVars>>

\* The first step of an owner task enters its flight and reads host inputs.
Start(t) ==
  /\ st[t] = "queued"
  /\ t \notin cancelReq
  /\ st' = [st EXCEPT ![t] = "running"]
  /\ seen' = [seen EXCEPT ![t] = inputs[FrameOf(t)]]
  /\ UNCHANGED <<spawned, job, pos, on, cancelReq, reads, val, cacheVars,
                 closeVars, inputs, callVars, histVars>>

\* A task cancelled before its first step never enters its coroutine, so no
\* finally block runs and its registrations stay.
DropUnstarted(t) ==
  /\ st[t] = "queued"
  /\ t \in cancelReq
  /\ st' = [st EXCEPT ![t] = "cancelled"]
  /\ cancelReq' = cancelReq \ {t}
  /\ UNCHANGED <<spawned, job, pos, on, reads, val, seen, cacheVars,
                 closeVars, inputs, callVars, histVars>>

Reading(t) ==
  /\ st[t] = "running"
  /\ t \notin cancelReq
  /\ pos[t] < Len(Deps[DefOf(t)])

NextDep(t) == Deps[DefOf(t)][pos[t] + 1]

\* A wrong check: only a closed Frame refuses a read.
RefusedWhenClosed(t) == ~IsOpen(FrameOf(t)) \/ ~IsOpen(OwnerOf[NextDep(t)])

\* get_resolved / read_binding_result refuse the read: a Frame is closing or
\* closed, or the definition is already on this task's flight path.
Refused(t) ==
  \/ ~IsOpen(FrameOf(t))
  \/ ~IsOpen(OwnerOf[NextDep(t)])
  \/ NextDep(t) \in job[t].path

\* An ordinary exception out of a read: handled by an error form of the
\* body, or published as this definition's failure.
ReadRaises(t) ==
  IF DefOf(t) \in Tolerant
  THEN /\ pos' = [pos EXCEPT ![t] = @ + 1]
       /\ st' = [st EXCEPT ![t] = "running"]
       /\ on' = [on EXCEPT ![t] = NoTask]
       /\ UNCHANGED <<val, cacheVars, history>>
  ELSE /\ CommitFailure(t)
       /\ Settle(t, "raised")
       /\ UNCHANGED <<pos, val>>

ReadFailing(t) ==
  /\ Reading(t)
  /\ Refused(t) \/ (~Cached(NextDep(t)) /\ CachedFailure(NextDep(t)))
  /\ ReadRaises(t)
  /\ UNCHANGED <<spawned, job, cancelReq, reads, seen, closeVars, inputs,
                 callVars, aborted>>

\* The objects a body may hand on are kept only where that matters.
Remember(t, v) ==
  reads' = IF DefOf(t) \in Aliasing THEN [reads EXCEPT ![t] = @ \cup {v}] ELSE reads

ReadCached(t) ==
  /\ Reading(t)
  /\ ~Refused(t)
  /\ Cached(NextDep(t))
  /\ pos' = [pos EXCEPT ![t] = @ + 1]
  /\ Remember(t, val[results[NextDep(t)]])
  /\ UNCHANGED <<spawned, job, st, on, cancelReq, val, seen, cacheVars,
                 closeVars, inputs, callVars, histVars>>

NeedsOwner(t) ==
  /\ Reading(t)
  /\ ~Refused(t)
  /\ ~Cached(NextDep(t))
  /\ ~CachedFailure(NextDep(t))

ReadShared(t) ==
  /\ NeedsOwner(t)
  /\ inflight[NextDep(t)] # NoTask
  /\ st' = [st EXCEPT ![t] = "waiting"]
  /\ on' = [on EXCEPT ![t] = inflight[NextDep(t)]]
  /\ UNCHANGED <<spawned, job, pos, cancelReq, reads, val, seen, cacheVars,
                 closeVars, inputs, callVars, histVars>>

ReadSpawning(t) ==
  /\ NeedsOwner(t)
  /\ inflight[NextDep(t)] = NoTask
  /\ Spawn(NextDep(t), "initial", job[t].path, job[t].flight)
  /\ st' = [st EXCEPT ![t] = "waiting", ![spawned + 1] = "queued"]
  /\ on' = [on EXCEPT ![t] = spawned + 1]
  /\ UNCHANGED <<pos, cancelReq, reads, val, seen, refreshes, results, failed,
                 retired, closeVars, inputs, callVars, histVars>>

\* CancelledError is not an Exception: nothing is published.
EndCancelled(t) ==
  /\ Settle(t, "cancelled")
  /\ aborted' = IF IsOpen(FrameOf(t)) THEN aborted \cup {DefOf(t)} ELSE aborted
  /\ UNCHANGED <<spawned, job, pos, reads, val, seen, results, failed, retired,
                 closeVars, inputs, callVars, history>>

Awaited(t) ==
  /\ st[t] = "waiting"
  /\ t \notin cancelReq
  /\ Ended(on[t])

WakeWithValue(t) ==
  /\ Awaited(t)
  /\ st[on[t]] = "returned"
  /\ st' = [st EXCEPT ![t] = "running"]
  /\ on' = [on EXCEPT ![t] = NoTask]
  /\ pos' = [pos EXCEPT ![t] = @ + 1]
  /\ Remember(t, val[on[t]])
  /\ UNCHANGED <<spawned, job, cancelReq, val, seen, cacheVars, closeVars,
                 inputs, callVars, histVars>>

WakeWithFailure(t) ==
  /\ Awaited(t)
  /\ st[on[t]] = "raised"
  /\ ReadRaises(t)
  /\ UNCHANGED <<spawned, job, cancelReq, reads, seen, closeVars, inputs,
                 callVars, aborted>>

\* A cancelled owner task cancels the evaluations that await it.
WakeCancelled(t) ==
  /\ Awaited(t)
  /\ st[on[t]] = "cancelled"
  /\ EndCancelled(t)
  /\ UNCHANGED cancelReq

\* The close task's cancellation is delivered at the task's suspension point.
CancelDelivered(t) ==
  /\ st[t] \in {"running", "waiting"}
  /\ t \in cancelReq
  /\ cancelReq' = cancelReq \ {t}
  /\ EndCancelled(t)

\* ... unless the host call the body is suspended in swallows it.
HostSwallowsCancel(t) ==
  /\ st[t] = "running"
  /\ t \in cancelReq
  /\ DefOf(t) \in Stubborn
  /\ cancelReq' = cancelReq \ {t}
  /\ UNCHANGED <<spawned, job, st, pos, on, reads, val, seen, cacheVars,
                 closeVars, inputs, callVars, histVars>>

HostRaises(t) ==
  /\ st[t] = "running"
  /\ t \notin cancelReq
  /\ DefOf(t) \in Fallible
  /\ CommitFailure(t)
  /\ Settle(t, "raised")
  /\ UNCHANGED <<spawned, job, pos, cancelReq, reads, val, seen, closeVars,
                 inputs, callVars, aborted>>

HostCancels(t) ==
  /\ st[t] = "running"
  /\ t \notin cancelReq
  /\ DefOf(t) \in Interruptible
  /\ EndCancelled(t)
  /\ UNCHANGED cancelReq

\* The body returns a new object, or one it read, and publishes it.
Finish(t) ==
  /\ st[t] = "running"
  /\ t \notin cancelReq
  /\ pos[t] = Len(Deps[DefOf(t)])
  /\ \E v \in {t} \cup reads[t] : CommitResult(t, v)
  /\ Settle(t, "returned")
  /\ UNCHANGED <<spawned, job, pos, cancelReq, reads, seen, closeVars, inputs,
                 callVars, aborted>>

\* What the event loop does with a ready owner task.
Progress(t) ==
  \/ Start(t) \/ DropUnstarted(t)
  \/ ReadFailing(t) \/ ReadCached(t) \/ ReadShared(t) \/ ReadSpawning(t)
  \/ WakeWithValue(t) \/ WakeWithFailure(t) \/ WakeCancelled(t)
  \/ CancelDelivered(t) \/ Finish(t)

\* What host code called by the body may do besides returning.
HostStep(t) == HostSwallowsCancel(t) \/ HostRaises(t) \/ HostCancels(t)

----------------------------------------------------------------------------
\* The public Frame API, used by callers outside any evaluation

Conclude(c, how, of) ==
  /\ answer' = [answer EXCEPT ![c] = [how |-> how, of |-> of]]
  /\ call' = [call EXCEPT ![c].at = "done", ![c].on = NoTask]

\* The host inputs a recalculation is entitled to: those of its request, unless
\* it joins a refresh, whose body may have started before they changed.
Entitlement(q) == IF refreshes[q.def] = NoTask THEN inputs[OwnerOf[q.def]] ELSE 0

\* The caller's request is recorded with what was current when it was made.
Await(c, at, q, t) ==
  /\ call' = [call EXCEPT ![c] =
                 [at |-> at, ask |-> q, on |-> t, since |-> Len(history[q.def]),
                  asked |-> Entitlement(q)]]
  /\ UNCHANGED answer

AnswerNow(c, q, how, of) ==
  /\ answer' = [answer EXCEPT ![c] = [how |-> how, of |-> of]]
  /\ call' = [call EXCEPT ![c] =
                 [at |-> "done", ask |-> q, on |-> NoTask,
                  since |-> Len(history[q.def]), asked |-> Entitlement(q)]]

Asks(c, q, op) ==
  /\ call[c].at = "idle"
  /\ q \in Script[c]
  /\ q.op = op

\* The ensure_open checks of the requesting and of the owning Frame.
Serves(q) == IsOpen(q.frame) /\ IsOpen(OwnerOf[q.def])

RejectClosed(c, q) ==
  /\ Asks(c, q, "get") \/ Asks(c, q, "recalculate")
  /\ ~Serves(q)
  /\ AnswerNow(c, q, "closed", NoTask)
  /\ UNCHANGED <<taskVars, cacheVars, closeVars, inputs, histVars>>

\* get: a cached snapshot answers at once, a live owner task is joined, and
\* otherwise a new owner task is created and registered.
GetSnapshot(c, q) ==
  /\ Asks(c, q, "get")
  /\ Serves(q)
  /\ \/ Cached(q.def) /\ AnswerNow(c, q, "value", results[q.def])
     \/ ~Cached(q.def) /\ CachedFailure(q.def) /\ AnswerNow(c, q, "failure", failed[q.def])
  /\ UNCHANGED <<taskVars, cacheVars, closeVars, inputs, histVars>>

GetUncached(c, q) ==
  /\ Asks(c, q, "get")
  /\ Serves(q)
  /\ ~Cached(q.def) /\ ~CachedFailure(q.def)

GetShared(c, q) ==
  /\ GetUncached(c, q)
  /\ inflight[q.def] # NoTask
  /\ Await(c, "owner", q, inflight[q.def])
  /\ UNCHANGED <<taskVars, cacheVars, closeVars, inputs, histVars>>

GetSpawning(c, q) ==
  /\ GetUncached(c, q)
  /\ inflight[q.def] = NoTask
  /\ Spawn(q.def, "initial", {}, spawned + 1)
  /\ st' = [st EXCEPT ![spawned + 1] = "queued"]
  /\ Await(c, "owner", q, spawned + 1)
  /\ UNCHANGED <<pos, on, cancelReq, reads, val, seen, refreshes, results,
                 failed, retired, closeVars, inputs, histVars>>

SpawnRefresh(d) ==
  /\ Spawn(d, "refresh", {}, spawned + 1)
  /\ refreshes' = [refreshes EXCEPT ![d] = spawned + 1]
  /\ st' = [st EXCEPT ![spawned + 1] = "queued"]
  /\ UNCHANGED <<pos, on, cancelReq, reads, val, seen, results, failed, retired,
                 closeVars, inputs, histVars>>

\* recalculate: join the live refresh, else wait for the evaluation in
\* flight, else start a refresh.
JoinRefresh(c, q) ==
  /\ Asks(c, q, "recalculate")
  /\ Serves(q)
  /\ refreshes[q.def] # NoTask
  /\ Await(c, "owner", q, refreshes[q.def])
  /\ UNCHANGED <<taskVars, cacheVars, closeVars, inputs, histVars>>

\* A wrong recalculate: the evaluation in flight is taken for the refresh.
AwaitInitialAsRefresh(c, q) ==
  /\ Asks(c, q, "recalculate")
  /\ Serves(q)
  /\ refreshes[q.def] = NoTask
  /\ inflight[q.def] # NoTask
  /\ Await(c, "owner", q, inflight[q.def])
  /\ UNCHANGED <<taskVars, cacheVars, closeVars, inputs, histVars>>

AwaitInitial(c, q) ==
  /\ Asks(c, q, "recalculate")
  /\ Serves(q)
  /\ refreshes[q.def] = NoTask
  /\ inflight[q.def] # NoTask
  /\ Await(c, "initial", q, inflight[q.def])
  /\ UNCHANGED <<taskVars, cacheVars, closeVars, inputs, histVars>>

\* A wrong recalculate: a refresh starts beside an evaluation in flight.
RefreshBesideInitial(c, q) ==
  /\ Asks(c, q, "recalculate")
  /\ Serves(q)
  /\ refreshes[q.def] = NoTask
  /\ SpawnRefresh(q.def)
  /\ Await(c, "owner", q, spawned + 1)

RefreshAtOnce(c, q) ==
  /\ Asks(c, q, "recalculate")
  /\ Serves(q)
  /\ refreshes[q.def] = NoTask
  /\ inflight[q.def] = NoTask
  /\ SpawnRefresh(q.def)
  /\ Await(c, "owner", q, spawned + 1)

\* A wrong resumption: a Frame closed in the meantime is not noticed.
AfterInitialUnlessClosed(c) ==
  LET d == call[c].ask.def IN
  /\ call[c].at = "initial"
  /\ Ended(call[c].on)
  /\ \/ /\ refreshes[d] # NoTask
        /\ call' = [call EXCEPT ![c].at = "owner", ![c].on = refreshes[d]]
        /\ UNCHANGED <<taskVars, cacheVars, closeVars, inputs, answer, histVars>>
     \/ /\ refreshes[d] = NoTask
        /\ IsOpen(OwnerOf[d])
        /\ SpawnRefresh(d)
        /\ call' = [call EXCEPT ![c].at = "owner", ![c].on = spawned + 1]
        /\ UNCHANGED answer

\* The evaluation recalculate waited for has ended, however it ended: the
\* caller rereads the refresh table, not the in-flight table.
AfterInitial(c) ==
  LET d == call[c].ask.def IN
  /\ call[c].at = "initial"
  /\ Ended(call[c].on)
  /\ \/ /\ refreshes[d] # NoTask
        /\ call' = [call EXCEPT ![c].at = "owner", ![c].on = refreshes[d]]
        /\ UNCHANGED <<taskVars, cacheVars, closeVars, inputs, answer, histVars>>
     \/ /\ refreshes[d] = NoTask
        /\ ~IsOpen(OwnerOf[d])
        /\ Conclude(c, "closed", NoTask)
        /\ UNCHANGED <<taskVars, cacheVars, closeVars, inputs, histVars>>
     \/ /\ refreshes[d] = NoTask
        /\ IsOpen(OwnerOf[d])
        /\ SpawnRefresh(d)
        /\ call' = [call EXCEPT ![c].at = "owner", ![c].on = spawned + 1]
        /\ UNCHANGED answer

OwnerAnswers(c) ==
  LET t == call[c].on IN
  /\ call[c].at = "owner"
  /\ Ended(t)
  /\ Conclude(c, CASE st[t] = "returned" -> "value"
                   [] st[t] = "raised" -> "failure"
                   [] st[t] = "cancelled" -> "cancelled", t)
  /\ UNCHANGED <<taskVars, cacheVars, closeVars, inputs, histVars>>

\* close: the first caller creates the close task, every caller awaits it.
AskClose(c, q) ==
  /\ Asks(c, q, "close")
  /\ phase' = IF IsOpen(q.frame) THEN [phase EXCEPT ![q.frame] = "closing"] ELSE phase
  /\ call' = [call EXCEPT ![c] =
                 [at |-> "close", ask |-> q, on |-> NoTask, since |-> 0, asked |-> 0]]
  /\ UNCHANGED <<taskVars, cacheVars, gathered, toRelease, released, inputs,
                 answer, histVars>>

CloseAnswers(c) ==
  /\ call[c].at = "close"
  /\ phase[call[c].ask.frame] = "closed"
  /\ Conclude(c, "closed", NoTask)
  /\ UNCHANGED <<taskVars, cacheVars, closeVars, inputs, histVars>>

\* A wrong wait: the owner task is awaited without a shield.
CallerCancelledUnshielded(c) ==
  /\ c \in Impatient
  /\ call[c].at = "owner"
  /\ Live(call[c].on)
  /\ cancelReq' = cancelReq \cup {call[c].on}
  /\ Conclude(c, "cancelled", NoTask)
  /\ UNCHANGED <<spawned, job, st, pos, on, reads, val, seen, cacheVars,
                 closeVars, inputs, histVars>>

\* The caller's own task is cancelled; every wait is shielded.  A caller that
\* waits for an initial evaluation which itself was cancelled loses the
\* cancellation (internal_refresh_definition swallows it) and goes on.
CallerCancelled(c) ==
  /\ c \in Impatient
  /\ \/ call[c].at \in {"owner", "close"}
     \/ call[c].at = "initial" /\ st[call[c].on] # "cancelled"
  /\ Conclude(c, "cancelled", NoTask)
  /\ UNCHANGED <<taskVars, cacheVars, closeVars, inputs, histVars>>

\* Frame.mixin on an open Frame replaces host values and touches no snapshot.
Mixin(f) ==
  /\ IsOpen(f)
  /\ inputs[f] < MixinLimit
  /\ inputs' = [inputs EXCEPT ![f] = @ + 1]
  /\ UNCHANGED <<taskVars, cacheVars, closeVars, callVars, histVars>>

----------------------------------------------------------------------------
\* The close task of one Frame: lifecycle.internal_run_close

CancelInflight(f) ==
  LET tasks == {inflight[d] : d \in DefsOf(f)} \ {NoTask} IN
  /\ phase[f] = "closing"
  /\ phase' = [phase EXCEPT ![f] = "gathering"]
  /\ gathered' = [gathered EXCEPT ![f] = tasks]
  /\ cancelReq' = cancelReq \cup {t \in tasks : Live(t)}
  /\ UNCHANGED <<spawned, job, st, pos, on, reads, val, seen, cacheVars,
                 toRelease, released, inputs, callVars, histVars>>

\* A wrong close: the cancelled tasks are not awaited.
CollectResourcesAtOnce(f) ==
  /\ phase[f] = "gathering"
  /\ phase' = [phase EXCEPT ![f] = "releasing"]
  /\ toRelease' = [toRelease EXCEPT ![f] = Held(f)]
  /\ UNCHANGED <<taskVars, cacheVars, gathered, released, inputs, callVars,
                 histVars>>

\* Every cancelled task has settled: list what the cache holds, once.
CollectResources(f) ==
  /\ phase[f] = "gathering"
  /\ \A t \in gathered[f] : Ended(t)
  /\ phase' = [phase EXCEPT ![f] = "releasing"]
  /\ toRelease' = [toRelease EXCEPT ![f] = Held(f)]
  /\ UNCHANGED <<taskVars, cacheVars, gathered, released, inputs, callVars,
                 histVars>>

\* internal_close_resource may suspend, and its failure does not stop the
\* loop.  The order of the list is the subject of module CacheLifecycle.
ReleaseResource(f) ==
  /\ phase[f] = "releasing"
  /\ \E v \in toRelease[f] :
       /\ toRelease' = [toRelease EXCEPT ![f] = @ \ {v}]
       /\ released' = [released EXCEPT ![f] = @ \cup {v}]
  /\ UNCHANGED <<taskVars, cacheVars, phase, gathered, inputs, callVars,
                 histVars>>

ClearFrame(f) ==
  LET cleared(table) == [d \in Def |-> IF OwnerOf[d] = f THEN NoTask ELSE table[d]] IN
  /\ phase[f] = "releasing"
  /\ toRelease[f] = {}
  /\ phase' = [phase EXCEPT ![f] = "closed"]
  /\ inflight' = cleared(inflight)
  /\ refreshes' = cleared(refreshes)
  /\ results' = cleared(results)
  /\ failed' = cleared(failed)
  /\ retired' = [retired EXCEPT ![f] = {}]
  /\ UNCHANGED <<taskVars, gathered, toRelease, released, inputs, callVars,
                 histVars>>

----------------------------------------------------------------------------
\* The system

CloseStep(f) ==
  CancelInflight(f) \/ CollectResources(f) \/ ReleaseResource(f) \/ ClearFrame(f)

Ask(c) == \E q \in Script[c] :
  \/ RejectClosed(c, q) \/ GetSnapshot(c, q) \/ GetShared(c, q) \/ GetSpawning(c, q)
  \/ JoinRefresh(c, q) \/ AwaitInitial(c, q) \/ RefreshAtOnce(c, q) \/ AskClose(c, q)

Resume(c) == AfterInitial(c) \/ OwnerAnswers(c) \/ CloseAnswers(c)

\* Owner tasks never wait in a circle (whether a circle of definitions can make
\* them depends on Deps and on who enters it where).
NoOwnerDeadlock ==
  \A circle \in SUBSET {t \in Task : st[t] = "waiting"} :
    circle # {} => \E t \in circle : on[t] \notin circle

Quiescent ==
  /\ \A c \in Caller : call[c].at = "done"
  /\ \A t \in Task : ~Live(t)
  /\ \A f \in Frame : phase[f] \in {"open", "closed"}

\* Nothing is left to do: the host program has made all its calls, or what is
\* left depends on owner tasks that wait in a circle.
Finished == (Quiescent \/ ~NoOwnerDeadlock) /\ UNCHANGED vars

Next ==
  \/ \E t \in Task : Progress(t) \/ HostStep(t)
  \/ \E c \in Caller : Ask(c) \/ Resume(c) \/ CallerCancelled(c)
  \/ \E f \in Frame : CloseStep(f) \/ Mixin(f)
  \/ Finished

Spec == Init /\ [][Next]_vars

\* The event loop runs every ready task and callback again and again, and the
\* host calls of a body and of a resource's close return.
Fairness ==
  /\ \A t \in Task : WF_vars(Progress(t))
  /\ \A c \in Caller : WF_vars(Resume(c))
  /\ \A f \in Frame : WF_vars(CloseStep(f))

FairSpec == Spec /\ Fairness

----------------------------------------------------------------------------
\* Properties

\* Every variable has the shape the Frame keeps: registrations and snapshots
\* name tasks, and requests name what the Script allows.
TypeOK ==
  /\ spawned \in TaskOrNone
  /\ job \in [Task -> Job \cup {NoJob}]
  /\ st \in [Task -> {"unborn"} \cup LiveStates \cup EndStates]
  /\ pos \in [Task -> Nat]
  /\ on \in [Task -> TaskOrNone]
  /\ cancelReq \in SUBSET Task
  /\ reads \in [Task -> SUBSET TaskOrNone]
  /\ val \in [Task -> TaskOrNone]
  /\ seen \in [Task -> Nat]
  /\ inflight \in [Def -> TaskOrNone]
  /\ refreshes \in [Def -> TaskOrNone]
  /\ results \in [Def -> TaskOrNone]
  /\ failed \in [Def -> TaskOrNone]
  /\ retired \in [Frame -> SUBSET TaskOrNone]
  /\ phase \in [Frame -> {"open", "closing", "gathering", "releasing", "closed"}]
  /\ gathered \in [Frame -> SUBSET TaskOrNone]
  /\ toRelease \in [Frame -> SUBSET TaskOrNone]
  /\ released \in [Frame -> SUBSET TaskOrNone]
  /\ inputs \in [Frame -> Nat]
  /\ call \in [Caller ->
        [at : {"idle", "owner", "initial", "close", "done"}, ask : Call \cup {NoCall},
         on : TaskOrNone, since : Nat, asked : Nat]]
  /\ answer \in [Caller ->
        [how : {"none", "value", "failure", "cancelled", "closed"}, of : TaskOrNone]]
  /\ history \in [Def -> Seq(Task)]
  /\ aborted \in SUBSET Def

\* Concurrent requests of one definition share one owner task: however gets,
\* recalculations and closes interleave, a definition none of whose owner
\* tasks was cancelled in an open Frame has at most one live owner task.
SingleOwner ==
  \A t, u \in Task :
    /\ Live(t) /\ Live(u)
    /\ DefOf(t) = DefOf(u)
    /\ DefOf(t) \notin aborted
    => t = u

\* Close settles everything the Frame owns: afterwards no owner task of the
\* Frame is left to publish into it, and its cache is empty.
ClosedIsQuiet ==
  \A f \in Frame : phase[f] = "closed" =>
    \A d \in DefsOf(f) \ aborted :
      /\ ~Cached(d) /\ ~CachedFailure(d)
      /\ \A t \in Task : DefOf(t) = d => ~Live(t)

Committed(f) ==
  {val[t] : t \in {u \in Task : st[u] = "returned" /\ FrameOf(u) = f}}

\* Every object a Frame ever published, replaced ones included, is closed by
\* the time the Frame is closed, and nothing else is.
EveryObjectReleased ==
  \A f \in Frame :
    phase[f] = "closed" /\ DefsOf(f) \cap aborted = {} => released[f] = Committed(f)

\* A snapshot is stable: it is replaced only while a recalculation of that
\* definition is registered, and dropped only when the Frame becomes closed.
SnapshotStep ==
  \A d \in Def \ aborted :
    /\ Cached(d) \/ CachedFailure(d)
    /\ <<results[d], failed[d]>>' # <<results[d], failed[d]>>
    => \/ refreshes[d] # NoTask /\ history'[d] # history[d]
       \/ phase'[OwnerOf[d]] = "closed"
SnapshotStable == [][SnapshotStep]_vars

Answered(c, t) ==
  /\ call[c].at = "done"
  /\ answer[c].of = t
  /\ answer[c].how \in {"value", "failure"}

\* A request is answered by the snapshot that was current when it was made or
\* by a later one; a recalculation only by a later one, from a refresh task.
AnswerCurrent ==
  \A c \in Caller, t \in Task : Answered(c, t) =>
    LET q == call[c].ask
        publications == history[q.def]
    IN  IF q.op = "get"
        THEN \E i \in DOMAIN publications : publications[i] = t /\ i >= call[c].since
        ELSE /\ job[t].kind = "refresh"
             /\ \E i \in DOMAIN publications : publications[i] = t /\ i > call[c].since

\* A recalculation that found no refresh registered is answered by a body that
\* saw the host inputs of its request or newer ones, whatever evaluation it had
\* to wait for and whoever's refresh it took up after that.
InputsCurrent ==
  \A c \in Caller, t \in Task :
    Answered(c, t) /\ call[c].ask.op = "recalculate" => seen[t] >= call[c].asked

\* Cancelling a waiting caller cancels nothing else: unless host code raises
\* CancelledError, an owner task is cancelled only because its own Frame or
\* one it reads from is closing.
CancellationHasCause ==
  \A t \in Task :
    st[t] = "cancelled" /\ Interruptible = {} =>
      \E f \in Lineage[FrameOf(t)] : ~IsOpen(f)

\* The flight path keeps a flight from waiting for itself: whatever circles the
\* definitions form, and however their owner tasks are shared, cancelled and
\* replaced, owner tasks that wait in a circle belong to two flights at least,
\* so only requests that enter a circle at two ends can stop one another.
CircleNeedsTwoFlights ==
  \A circle \in SUBSET {t \in Task : st[t] = "waiting"} :
    circle # {} /\ (\A t \in circle : on[t] \in circle) =>
      \E t, u \in circle : job[t].flight # job[u].flight

\* Every request is answered: no get, recalculate or close waits for ever.
EveryCallReturns ==
  \A c \in Caller : call[c].at \notin {"idle", "done"} ~> call[c].at = "done"

============================================================================
