--------------------------- MODULE FrameInvariant ---------------------------
(***************************************************************************)
(* The inductive invariant behind the safety properties of FrameEvaluation:*)
(* how tasks, registrations, snapshots and the close task's phases fit.    *)
(***************************************************************************)
EXTENDS FrameEvaluation

Request == [op : {"get", "recalculate"}, frame : Frame, def : Def]

\* Tasks are numbered as they are created, and only created tasks have a job.
TasksBorn ==
  \A t \in Task :
    /\ t > spawned <=> st[t] = "unborn"
    /\ st[t] # "unborn" => job[t] \in Job
    /\ st[t] = "unborn" => job[t] = NoJob

\* Whoever waits, waits for a task that exists.
WaitsNamed ==
  /\ \A t \in Task : st[t] = "waiting" =>
       /\ on[t] \in 1 .. spawned
       /\ \E i \in DOMAIN Deps[DefOf(t)] : Deps[DefOf(t)][i] = DefOf(on[t])
  /\ \A c \in Caller : call[c].at \in {"owner", "initial"} =>
       /\ call[c].ask \in Request
       /\ call[c].on \in 1 .. spawned
       /\ DefOf(call[c].on) = call[c].ask.def

\* Registrations and snapshots are filed under their task's own definition.
FiledByDefinition ==
  \A d \in Def :
    /\ inflight[d] # NoTask => inflight[d] <= spawned /\ DefOf(inflight[d]) = d
    /\ refreshes[d] # NoTask => refreshes[d] <= spawned /\ DefOf(refreshes[d]) = d
    /\ results[d] # NoTask => st[results[d]] = "returned" /\ DefOf(results[d]) = d

\* Until some owner task of d is cancelled in an open Frame, a live task of d
\* is the registered one, a first evaluation runs only while d has no
\* snapshot, and a task that has ended has left one.
Undisturbed(d) ==
  /\ \A t \in Task : Live(t) /\ DefOf(t) = d =>
       /\ inflight[d] = t
       /\ job[t].kind = "refresh" => refreshes[d] = t
       /\ job[t].kind = "initial" => ~Cached(d) /\ ~CachedFailure(d)
  /\ \A t \in Task : Ended(t) /\ DefOf(t) = d /\ IsOpen(OwnerOf[d]) =>
       Cached(d) \/ CachedFailure(d)

OwnersRegistered == \A d \in Def \ aborted : Undisturbed(d)

\* The close task misses no live owner task, and once it disposes of objects
\* there is none left to publish.
ClosePhases ==
  \A f \in Frame : \A d \in DefsOf(f) \ aborted : \A t \in Task :
    Live(t) /\ DefOf(t) = d =>
      /\ phase[f] = "gathering" => t \in gathered[f]
      /\ phase[f] \notin {"releasing", "closed"}

NothingCachedWhenClosed ==
  \A f \in Frame : phase[f] = "closed" =>
    \A d \in DefsOf(f) \ aborted : ~Cached(d) /\ ~CachedFailure(d)

\* Where the objects a Frame published are, in each phase of its life.
ObjectsTracked ==
  \A f \in Frame :
    /\ phase[f] \in {"open", "closing", "gathering"} =>
         Held(f) = Committed(f) /\ toRelease[f] = {} /\ released[f] = {}
    /\ toRelease[f] \cap released[f] = {}
    /\ DefsOf(f) \cap aborted = {} =>
         /\ phase[f] = "releasing" => /\ Held(f) = Committed(f)
                                     /\ toRelease[f] \cup released[f] = Committed(f)
         /\ phase[f] = "closed" => released[f] = Committed(f)

\* What a body read or returned is an object some task created.
ObjectsCreated ==
  \A t \in Task : reads[t] \subseteq Task /\ (st[t] = "returned" => val[t] \in Task)

\* A pending or delivered cancellation comes from a close.
CancelsFromClose ==
  /\ \A t \in cancelReq : st[t] # "unborn" /\ ~IsOpen(FrameOf(t))
  /\ CancellationHasCause

Settled(t) == st[t] \in {"returned", "raised"}

\* What is registered has not published yet, and the registered refresh is one.
RegistrationsPending ==
  \A d \in Def :
    /\ inflight[d] # NoTask => ~Settled(inflight[d])
    /\ refreshes[d] # NoTask => ~Settled(refreshes[d]) /\ job[refreshes[d]].kind = "refresh"

\* A definition shows its latest publication, until its Frame is closed.
LatestShown ==
  \A d \in Def :
    /\ ~(Cached(d) /\ CachedFailure(d))
    /\ Cached(d) => Len(history[d]) > 0 /\ results[d] = history[d][Len(history[d])]
    /\ CachedFailure(d) => Len(history[d]) > 0 /\ failed[d] = history[d][Len(history[d])]
    /\ phase[OwnerOf[d]] # "closed" /\ Len(history[d]) > 0 => Cached(d) \/ CachedFailure(d)

\* t was published by d after the first n publications.
PublishedAfter(t, d, n) == \E i \in DOMAIN history[d] : history[d][i] = t /\ i > n

\* A caller that waits for an owner task waits for one that has still to
\* publish, or has published since the request: for a recalculation, a refresh.
CallTracked(c) ==
  /\ call[c].at = "idle" => call[c] = Idle
  /\ call[c].at # "done" => answer[c] = Unanswered
  /\ call[c].at = "close" => call[c].ask.op = "close"
  /\ call[c].at = "initial" => call[c].ask.op = "recalculate"
  /\ call[c].ask.op \in {"get", "recalculate"} =>
       /\ call[c].ask \in Request
       /\ call[c].since <= Len(history[call[c].ask.def])
  /\ answer[c].how \in {"value", "failure"} => call[c].ask.op \in {"get", "recalculate"}
  /\ call[c].at = "owner" =>
       /\ call[c].ask.op = "recalculate" => job[call[c].on].kind = "refresh"
       /\ Settled(call[c].on) => PublishedAfter(call[c].on, call[c].ask.def, call[c].since)

CallsTracked == \A c \in Caller : CallTracked(c)

\* t saw the inputs of version n, will see them, or will answer nobody.
Fresh(t, n) ==
  \/ st[t] = "queued" /\ n <= inputs[FrameOf(t)]
  \/ st[t] = "cancelled"
  \/ seen[t] >= n

\* A recalculation waits for a body that is fresh enough, and one that waits for
\* a first evaluation will only take up a refresh that is.
RequestFresh(c) ==
  LET d == call[c].ask.def
  IN  /\ call[c].at = "owner" => Fresh(call[c].on, call[c].asked)
      /\ call[c].at = "initial" =>
           /\ call[c].asked <= inputs[OwnerOf[d]]
           /\ refreshes[d] # NoTask => Fresh(refreshes[d], call[c].asked)

\* ... and a body that has not started has seen nothing.
InputsTracked ==
  /\ \A t \in Task : st[t] \in {"unborn", "queued"} => seen[t] = 0
  /\ \A c \in Caller : call[c].ask.op = "recalculate" => RequestFresh(c)

\* A task's flight began before it, its own definition is on its path, and it
\* never waits for a definition on its path.
PathsKept ==
  \A t \in Task : st[t] # "unborn" =>
    /\ job[t].flight <= spawned
    /\ DefOf(t) \in job[t].path
    /\ st[t] = "waiting" => DefOf(on[t]) \notin job[t].path

\* w is a live task further down the flight of the live task t.
Below(w, t) == Live(t) /\ Live(w) /\ t < w /\ job[t].flight = job[w].flight

\* The live tasks of one flight form a line: each but the last waits for a later
\* task of the flight, at or above the next live one, and each path contains
\* the paths above it.  A task that waits for a cancelled one will only be
\* cancelled itself.
FlightsLine ==
  \A t, w \in Task : Below(w, t) =>
    /\ job[t].path \subseteq job[w].path
    /\ st[t] = "waiting" /\ t < on[t] /\ on[t] <= w
    /\ job[on[t]].flight = job[t].flight
    /\ Live(on[t]) \/ st[on[t]] = "cancelled"

\* Together the parts are preserved by every step.
Inv ==
  /\ TypeOK
  /\ TasksBorn
  /\ WaitsNamed
  /\ FiledByDefinition
  /\ OwnersRegistered
  /\ ClosePhases
  /\ NothingCachedWhenClosed
  /\ ObjectsTracked
  /\ ObjectsCreated
  /\ CancelsFromClose
  /\ RegistrationsPending
  /\ LatestShown
  /\ CallsTracked
  /\ AnswerCurrent
  /\ InputsTracked
  /\ InputsCurrent
  /\ PathsKept
  /\ FlightsLine

============================================================================
