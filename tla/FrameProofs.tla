---------------------------- MODULE FrameProofs ----------------------------
(***************************************************************************)
(* Proofs of the safety properties of FrameEvaluation, for every set of    *)
(* Frames, definitions and callers, every dependency structure, and every  *)
(* behaviour of host code the constants allow.                             *)
(*                                                                         *)
(* Every step has one of ten shapes, shown once, so that an invariant      *)
(* about tasks, registrations and snapshots is shown preserved by ten      *)
(* shapes instead of some thirty actions.  Type correctness, whose         *)
(* variables the shapes describe only in part, comes next, then the parts  *)
(* of the inductive invariant, and at last the refinement of SnapshotStore.*)
(***************************************************************************)
EXTENDS FrameInvariant, FrameRefinement, WellFoundedInduction, TLAPS

\* A task that was live stays live, any other stays where it is.
SameStanding(u) == st'[u] = st[u] \/ (st[u] \in LiveStates /\ st'[u] \in LiveStates)

\* Nothing is created, ended, published or closed.
Calm ==
  /\ UNCHANGED <<spawned, job, val, cacheVars, closeVars, history, aborted>>
  /\ cancelReq' \subseteq cancelReq
  /\ \A u \in Task : SameStanding(u)

\* An owner task is created and registered.
Birth(d, kind) ==
  LET new == spawned + 1 IN
  /\ new \in Task
  /\ spawned' = new
  /\ st[new] = "unborn" /\ st'[new] = "queued"
  /\ \A u \in Task \ {new} : SameStanding(u) /\ job'[u] = job[u]
  /\ job' \in [Task -> Job \cup {NoJob}] /\ job'[new] \in Job
  /\ job'[new].def = d /\ job'[new].kind = kind
  /\ inflight' = [inflight EXCEPT ![d] = new]
  /\ refreshes' = IF kind = "refresh" THEN [refreshes EXCEPT ![d] = new] ELSE refreshes
  /\ IsOpen(OwnerOf[d])
  /\ \/ kind = "initial" /\ inflight[d] = NoTask /\ ~Cached(d) /\ ~CachedFailure(d)
     \/ kind = "refresh" /\ refreshes[d] = NoTask
          /\ (inflight[d] = NoTask \/ \E u \in Task : Ended(u) /\ DefOf(u) = d)
  /\ UNCHANGED <<cancelReq, val, results, failed, retired, closeVars, history, aborted>>

\* A live task settles.
Ends(t, end) ==
  /\ Live(t)
  /\ Settle(t, end)
  /\ cancelReq' \subseteq cancelReq
  /\ UNCHANGED <<spawned, job, closeVars>>

Returns(t) ==
  /\ Ends(t, "returned")
  /\ \E v \in TaskOrNone : v \in {t} \cup reads[t] /\ CommitResult(t, v)
  /\ UNCHANGED aborted

Raises(t) ==
  /\ Ends(t, "raised")
  /\ CommitFailure(t)
  /\ UNCHANGED <<val, aborted>>

Aborts(t) ==
  /\ Ends(t, "cancelled")
  /\ aborted' = IF IsOpen(FrameOf(t)) THEN aborted \cup {DefOf(t)} ELSE aborted
  /\ UNCHANGED <<val, results, failed, retired, history>>
  /\ \/ t \in cancelReq
     \/ DefOf(t) \in Interruptible
     \/ st[t] = "waiting" /\ st[on[t]] = "cancelled"

\* close is called on an open Frame.
Closing(f) ==
  /\ IsOpen(f)
  /\ phase' = [phase EXCEPT ![f] = "closing"]
  /\ UNCHANGED <<taskVars, cacheVars, gathered, toRelease, released, history, aborted>>

Shapes ==
  \/ Calm
  \/ \E d \in Def, kind \in Kind : Birth(d, kind)
  \/ \E t \in Task : Returns(t) \/ Raises(t) \/ Aborts(t) \/ DropUnstarted(t)
  \/ \E f \in Frame : Closing(f) \/ CloseStep(f)

USE DEF Task, NoTask, TaskOrNone

----------------------------------------------------------------------------
\* Facts about the helpers of the actions.

\* A body that has a read left reads a definition its Frame can see.
LEMMA NextDepVisible ==
  ASSUME TypeOK, TasksBorn, NEW t \in Task, Reading(t)
  PROVE  /\ DefOf(t) \in Def
         /\ NextDep(t) \in Def
         /\ job[t].path \in SUBSET Def /\ job[t].flight \in Task
         /\ \E i \in DOMAIN Deps[DefOf(t)] : Deps[DefOf(t)][i] = NextDep(t)
<1>1. job[t] \in Job /\ DefOf(t) \in Def
  BY DEF TypeOK, TasksBorn, Reading, DefOf, Job
<1>2. Deps[DefOf(t)] \in Seq(Def) /\ pos[t] \in Nat /\ pos[t] < Len(Deps[DefOf(t)])
  BY <1>1, ConstantsAssumption DEF TypeOK, Reading
<1>3. pos[t] + 1 \in DOMAIN Deps[DefOf(t)]
  BY <1>2
<1> QED
  BY <1>1, <1>2, <1>3 DEF NextDep, Job

\* A spawn creates the next task number, which nothing names yet.
LEMMA SpawnIsBirth ==
  ASSUME TypeOK, TasksBorn, NEW d \in Def, NEW kind \in Kind, NEW path \in SUBSET Def,
         NEW flight \in Task \cup {spawned + 1}, Spawn(d, kind, path, flight)
  PROVE  /\ spawned + 1 \in Task
         /\ spawned' = spawned + 1
         /\ st[spawned + 1] = "unborn"
         /\ job' \in [Task -> Job \cup {NoJob}]
         /\ job'[spawned + 1] \in Job
         /\ job'[spawned + 1].def = d /\ job'[spawned + 1].kind = kind
         /\ \A u \in Task \ {spawned + 1} : job'[u] = job[u]
         /\ inflight' = [inflight EXCEPT ![d] = spawned + 1]
<1>1. spawned \in Nat /\ spawned + 1 \in Task
  BY ConstantsAssumption DEF TypeOK, Spawn
<1>2. st[spawned + 1] = "unborn"
  BY <1>1 DEF TasksBorn
<1>3. [def |-> d, kind |-> kind, path |-> path \cup {d}, flight |-> flight] \in Job
  BY <1>1 DEF Job
<1> QED
  BY <1>1, <1>2, <1>3 DEF Spawn, TypeOK

\* What SameStanding keeps.
LEMMA StandingKept ==
  ASSUME NEW u \in Task, SameStanding(u)
  PROVE  /\ Live(u)' <=> Live(u)
         /\ Ended(u)' <=> Ended(u)
         /\ \A end \in EndStates \cup {"unborn"} : st'[u] = end <=> st[u] = end
  BY DEF SameStanding, Live, Ended, LiveStates, EndStates

\* Every step of the system has one of the shapes.
LEMMA StepHasShape ==
  ASSUME Inv, [Next]_vars
  PROVE  Shapes
<1> USE DEF taskVars, cacheVars, closeVars, callVars, histVars
<1> TypeOK /\ TasksBorn /\ WaitsNamed
  BY DEF Inv
<1>1. ASSUME NEW t \in Task, Start(t) \/ ReadCached(t) \/ ReadShared(t) \/ WakeWithValue(t) \/ HostSwallowsCancel(t)
      PROVE Calm
  BY <1>1 DEF Calm, SameStanding, Start, ReadCached, ReadShared, NeedsOwner, Reading,
              WakeWithValue, Awaited, HostSwallowsCancel, TypeOK, LiveStates
<1>2. ASSUME NEW t \in Task, ReadFailing(t) \/ WakeWithFailure(t)
      PROVE Calm \/ Raises(t)
  <2>1. st[t] \in {"running", "waiting"} /\ Live(t)
    BY <1>2 DEF ReadFailing, Reading, WakeWithFailure, Awaited, Live, LiveStates
  <2>2. UNCHANGED <<spawned, job, cancelReq, reads, seen, closeVars, inputs, callVars, aborted>>
        /\ ReadRaises(t)
    BY <1>2 DEF ReadFailing, WakeWithFailure
  <2>3. CASE DefOf(t) \in Tolerant
    BY <2>1, <2>2, <2>3 DEF ReadRaises, Calm, SameStanding, TypeOK, LiveStates
  <2>4. CASE DefOf(t) \notin Tolerant
    BY <2>1, <2>2, <2>4 DEF ReadRaises, Raises, Ends
  <2> QED
    BY <2>3, <2>4
<1>3. ASSUME NEW t \in Task, HostRaises(t)
      PROVE Raises(t)
  BY <1>3 DEF HostRaises, Raises, Ends, Live, LiveStates
<1>4. ASSUME NEW t \in Task, Finish(t)
      PROVE Returns(t)
  <2>1. PICK v \in {t} \cup reads[t] : CommitResult(t, v)
    BY <1>4 DEF Finish
  <2>2. v \in TaskOrNone
    BY ConstantsAssumption DEF TypeOK
  <2> QED
    BY <1>4, <2>1, <2>2 DEF Finish, Returns, Ends, Live, LiveStates
<1>5. ASSUME NEW t \in Task, WakeCancelled(t) \/ CancelDelivered(t) \/ HostCancels(t)
      PROVE Aborts(t)
  BY <1>5 DEF WakeCancelled, Awaited, CancelDelivered, HostCancels, EndCancelled, Aborts,
              Ends, Live, LiveStates
<1>6. ASSUME NEW t \in Task, ReadSpawning(t)
      PROVE Birth(NextDep(t), "initial") /\ NextDep(t) \in Def
  <2>1. Reading(t) /\ st[t] = "running" /\ ~Refused(t)
    BY <1>6 DEF ReadSpawning, NeedsOwner, Reading
  <2>2. /\ NextDep(t) \in Def /\ IsOpen(OwnerOf[NextDep(t)])
        /\ job[t].path \in SUBSET Def /\ job[t].flight \in Task
    BY <2>1, NextDepVisible DEF Refused
  <2>3. Spawn(NextDep(t), "initial", job[t].path, job[t].flight)
    BY <1>6 DEF ReadSpawning
  <2>4. \A u \in Task \ {spawned + 1} : SameStanding(u)
    BY <1>6, <2>1 DEF ReadSpawning, SameStanding, TypeOK, LiveStates
  <2>5. spawned + 1 \in Task
    BY <2>2, <2>3, SpawnIsBirth DEF Kind
  <2>6. st'[spawned + 1] = "queued"
    BY <1>6, <2>5 DEF ReadSpawning, TypeOK
  <2> QED
    BY <1>6, <2>2, <2>3, <2>4, <2>6, SpawnIsBirth DEF ReadSpawning, NeedsOwner, Birth, Kind
<1>7. ASSUME NEW c \in Caller, NEW q \in Script[c],
             \/ RejectClosed(c, q) \/ GetSnapshot(c, q) \/ GetShared(c, q)
             \/ JoinRefresh(c, q) \/ AwaitInitial(c, q)
      PROVE Calm
  BY <1>7 DEF Calm, SameStanding, RejectClosed, GetSnapshot, GetShared, JoinRefresh, AwaitInitial
<1>8. ASSUME NEW c \in Caller, NEW q \in Script[c], GetSpawning(c, q)
      PROVE Birth(q.def, "initial") /\ q.def \in Def
  <2>1. q.def \in Def /\ IsOpen(OwnerOf[q.def])
    BY <1>8, ConstantsAssumption DEF GetSpawning, GetUncached, Asks, Serves, Call
  <2>2. Spawn(q.def, "initial", {}, spawned + 1)
    BY <1>8 DEF GetSpawning
  <2>3. spawned + 1 \in Task
    BY <2>1, <2>2, SpawnIsBirth DEF Kind
  <2>4. st'[spawned + 1] = "queued" /\ \A u \in Task \ {spawned + 1} : SameStanding(u)
    BY <1>8, <2>3 DEF GetSpawning, SameStanding, TypeOK
  <2> QED
    BY <1>8, <2>1, <2>2, <2>4, SpawnIsBirth DEF GetSpawning, GetUncached, Birth, Kind
<1>9. ASSUME NEW d \in Def, SpawnRefresh(d), IsOpen(OwnerOf[d]), refreshes[d] = NoTask,
             inflight[d] = NoTask \/ \E u \in Task : Ended(u) /\ DefOf(u) = d
      PROVE Birth(d, "refresh")
  <2>1. Spawn(d, "refresh", {}, spawned + 1)
    BY <1>9 DEF SpawnRefresh
  <2>2. spawned + 1 \in Task
    BY <2>1, SpawnIsBirth DEF Kind
  <2>3. st'[spawned + 1] = "queued" /\ \A u \in Task \ {spawned + 1} : SameStanding(u)
    BY <1>9, <2>2 DEF SpawnRefresh, SameStanding, TypeOK
  <2> QED
    BY <1>9, <2>1, <2>3, SpawnIsBirth DEF SpawnRefresh, Birth, Kind
<1>10. ASSUME NEW c \in Caller, NEW q \in Script[c], RefreshAtOnce(c, q)
       PROVE Birth(q.def, "refresh") /\ q.def \in Def
  <2>1. q.def \in Def /\ IsOpen(OwnerOf[q.def])
    BY <1>10, ConstantsAssumption DEF RefreshAtOnce, Asks, Serves, Call
  <2> QED
    BY <1>9, <1>10, <2>1 DEF RefreshAtOnce
<1>11. ASSUME NEW c \in Caller, AfterInitial(c)
       PROVE Calm \/ (Birth(call[c].ask.def, "refresh") /\ call[c].ask.def \in Def)
  <2>1. /\ call[c].ask.def \in Def
        /\ call[c].on \in Task /\ Ended(call[c].on)
        /\ DefOf(call[c].on) = call[c].ask.def
    BY <1>11, ConstantsAssumption DEF AfterInitial, WaitsNamed, Request, TypeOK
  <2>2. CASE UNCHANGED <<taskVars, cacheVars, closeVars, inputs, histVars>>
    BY <2>2 DEF Calm, SameStanding
  <2>3. CASE /\ refreshes[call[c].ask.def] = NoTask
             /\ IsOpen(OwnerOf[call[c].ask.def])
             /\ SpawnRefresh(call[c].ask.def)
    BY <1>9, <2>1, <2>3
  <2> QED
    BY <1>11, <2>2, <2>3 DEF AfterInitial
<1>12. ASSUME NEW c \in Caller, NEW q \in Script[c], AskClose(c, q)
       PROVE Calm \/ (q.frame \in Frame /\ Closing(q.frame))
  <2>1. q.frame \in Frame
    BY <1>12, ConstantsAssumption DEF AskClose, Asks, Call
  <2> QED
    BY <1>12, <2>1 DEF AskClose, Calm, Closing, SameStanding
<1>13. ASSUME NEW c \in Caller, OwnerAnswers(c) \/ CloseAnswers(c) \/ CallerCancelled(c)
       PROVE Calm
  BY <1>13 DEF Calm, SameStanding, OwnerAnswers, CloseAnswers, CallerCancelled
<1>14. ASSUME NEW f \in Frame, Mixin(f)
       PROVE Calm
  BY <1>14 DEF Calm, SameStanding, Mixin
<1>15. CASE UNCHANGED vars
  <2>1. UNCHANGED <<taskVars, cacheVars, closeVars, history, aborted>>
    BY <1>15 DEF vars
  <2>2. Calm
    BY <2>1 DEF Calm, SameStanding
  <2> QED
    BY <2>2 DEF Shapes
<1>16. CASE \E t \in Task : Progress(t) \/ HostStep(t)
  BY <1>16, <1>1, <1>2, <1>3, <1>4, <1>5, <1>6 DEF Progress, HostStep, Shapes, Kind
<1>17. CASE \E c \in Caller : Ask(c) \/ Resume(c) \/ CallerCancelled(c)
  BY <1>17, <1>7, <1>8, <1>10, <1>11, <1>12, <1>13 DEF Ask, Resume, Shapes, Kind
<1>18. CASE \E f \in Frame : CloseStep(f) \/ Mixin(f)
  BY <1>18, <1>14 DEF Shapes
<1> QED
  BY <1>15, <1>16, <1>17, <1>18 DEF Next, Finished, Shapes

----------------------------------------------------------------------------
\* Type correctness, by groups of variables: those the shapes describe, the
\* tasks' own, the callers', and the versions and history.

HIDE DEF Task, NoTask, TaskOrNone

RegistryTypes ==
  /\ spawned \in TaskOrNone
  /\ job \in [Task -> Job \cup {NoJob}]
  /\ cancelReq \in SUBSET Task
  /\ val \in [Task -> TaskOrNone]
  /\ inflight \in [Def -> TaskOrNone]
  /\ refreshes \in [Def -> TaskOrNone]
  /\ results \in [Def -> TaskOrNone]
  /\ failed \in [Def -> TaskOrNone]
  /\ retired \in [Frame -> SUBSET TaskOrNone]
  /\ aborted \in SUBSET Def

CloseTypes ==
  /\ phase \in [Frame -> {"open", "closing", "gathering", "releasing", "closed"}]
  /\ gathered \in [Frame -> SUBSET TaskOrNone]
  /\ toRelease \in [Frame -> SUBSET TaskOrNone]
  /\ released \in [Frame -> SUBSET TaskOrNone]

BodyTypes ==
  /\ st \in [Task -> {"unborn"} \cup LiveStates \cup EndStates]
  /\ pos \in [Task -> Nat]
  /\ on \in [Task -> TaskOrNone]
  /\ reads \in [Task -> SUBSET TaskOrNone]
  /\ seen \in [Task -> Nat]

CallTypes ==
  /\ call \in [Caller ->
        [at : {"idle", "owner", "initial", "close", "done"}, ask : Call \cup {NoCall},
         on : TaskOrNone, since : Nat, asked : Nat]]
  /\ answer \in [Caller ->
        [how : {"none", "value", "failure", "cancelled", "closed"}, of : TaskOrNone]]

LogTypes ==
  /\ inputs \in [Frame -> Nat]
  /\ history \in [Def -> Seq(Task)]

\* What the proofs below use of task names.
LEMMA TaskNames ==
  /\ NoTask \in TaskOrNone /\ Task \subseteq TaskOrNone
  /\ \A x \in TaskOrNone : x # NoTask => x \in Task
  /\ TypeOK /\ spawned < TaskLimit => spawned + 1 \in Task
  /\ TypeOK => 1 .. spawned \subseteq Task
  /\ \A t \in Task : t # NoTask
BY ConstantsAssumption DEF TypeOK, Task, NoTask, TaskOrNone

LEMMA TypeGroups ==
  TypeOK <=> RegistryTypes /\ CloseTypes /\ BodyTypes /\ CallTypes /\ LogTypes
BY DEF TypeOK, RegistryTypes, CloseTypes, BodyTypes, CallTypes, LogTypes

\* A task that ends was created, so it has a definition.
LEMMA LiveHasDef ==
  ASSUME TasksBorn, NEW t \in Task, Live(t) PROVE DefOf(t) \in Def
BY DEF TasksBorn, Job, DefOf, Live, LiveStates

\* Registrations, snapshots and objects name tasks.
LEMMA RegistryStep ==
  ASSUME Inv, [Next]_vars PROVE RegistryTypes'
<1> RegistryTypes /\ TasksBorn
  BY TypeGroups DEF Inv
<1> /\ NoTask \in TaskOrNone /\ Task \subseteq TaskOrNone
    /\ \A x \in TaskOrNone : x # NoTask => x \in Task
  BY TaskNames
<1> USE DEF RegistryTypes
<1>1. CASE Calm
  BY <1>1 DEF Calm, cacheVars
<1>2. ASSUME NEW d \in Def, NEW kind \in Kind, Birth(d, kind) PROVE RegistryTypes'
  <2>1. spawned + 1 \in TaskOrNone /\ spawned' \in TaskOrNone
    BY <1>2 DEF Birth
  <2>2. inflight' \in [Def -> TaskOrNone]
    BY <1>2, <2>1 DEF Birth
  <2>3. refreshes' \in [Def -> TaskOrNone]
    BY <1>2, <2>1 DEF Birth
  <2> QED
    BY <1>2, <2>1, <2>2, <2>3 DEF Birth
<1>3. ASSUME NEW t \in Task, Returns(t) PROVE RegistryTypes'
  <2>1. PICK v \in TaskOrNone : CommitResult(t, v)
    BY <1>3 DEF Returns
  <2>2. DefOf(t) \in Def /\ OwnerOf[DefOf(t)] \in Frame
    BY <1>3, LiveHasDef, ConstantsAssumption DEF Returns, Ends
  <2>3. retired' \in [Frame -> SUBSET TaskOrNone]
    BY <2>1, <2>2 DEF CommitResult
  <2> QED
    BY <1>3, <2>1, <2>2, <2>3 DEF Returns, Ends, Settle, CommitResult
<1>4. ASSUME NEW t \in Task, Raises(t) PROVE RegistryTypes'
  <2>2. DefOf(t) \in Def /\ OwnerOf[DefOf(t)] \in Frame
    BY <1>4, LiveHasDef, ConstantsAssumption DEF Raises, Ends
  <2>3. retired' \in [Frame -> SUBSET TaskOrNone]
    BY <1>4, <2>2 DEF Raises, CommitFailure
  <2> QED
    BY <1>4, <2>2, <2>3 DEF Raises, Ends, Settle, CommitFailure
<1>5. ASSUME NEW t \in Task, Aborts(t) PROVE RegistryTypes'
  <2>1. DefOf(t) \in Def
    BY <1>5, LiveHasDef DEF Aborts, Ends
  <2>2. aborted' \in SUBSET Def
    BY <1>5, <2>1 DEF Aborts
  <2>3. inflight' \in [Def -> TaskOrNone] /\ refreshes' \in [Def -> TaskOrNone]
    <3>1. /\ inflight' = [inflight EXCEPT ![DefOf(t)] = NoTask]
          /\ \/ refreshes' = refreshes
             \/ refreshes' = [refreshes EXCEPT ![DefOf(t)] = NoTask]
      BY <1>5 DEF Aborts, Ends, Settle
    <3> QED
      BY <3>1
  <2> QED
    BY <1>5, <2>2, <2>3 DEF Aborts, Ends
<1>6. ASSUME NEW t \in Task, DropUnstarted(t) PROVE RegistryTypes'
  BY <1>6 DEF DropUnstarted, cacheVars, histVars
<1>7. ASSUME NEW f \in Frame, CancelInflight(f) PROVE RegistryTypes'
  <2>1. \A d \in DefsOf(f) : inflight[d] \in TaskOrNone
    BY DEF DefsOf
  <2>2. cancelReq' \subseteq cancelReq \cup ({inflight[d] : d \in DefsOf(f)} \ {NoTask})
    BY <1>7 DEF CancelInflight
  <2>3. cancelReq' \in SUBSET Task
    <3> SUFFICES ASSUME NEW t \in cancelReq' PROVE t \in Task
      OBVIOUS
    <3>1. t \in cancelReq \/ \E d \in DefsOf(f) : t = inflight[d] /\ t # NoTask
      BY <2>2
    <3> QED
      BY <2>1, <3>1
  <2> QED
    BY <1>7, <2>3 DEF CancelInflight, cacheVars, histVars
<1>8. ASSUME NEW f \in Frame, Closing(f) \/ CollectResources(f) \/ ReleaseResource(f) PROVE RegistryTypes'
  BY <1>8 DEF Closing, CollectResources, ReleaseResource, taskVars, cacheVars, histVars
<1>9. ASSUME NEW f \in Frame, ClearFrame(f) PROVE RegistryTypes'
  BY <1>9 DEF ClearFrame, taskVars, histVars
<1> QED
  BY <1>1, <1>2, <1>3, <1>4, <1>5, <1>6, <1>7, <1>8, <1>9, StepHasShape DEF Shapes, CloseStep

\* A Frame is in one phase, and its close task handles tasks and objects.
LEMMA CloseTypesStep ==
  ASSUME Inv, [Next]_vars PROVE CloseTypes'
<1> CloseTypes /\ RegistryTypes
  BY TypeGroups DEF Inv
<1> /\ NoTask \in TaskOrNone /\ Task \subseteq TaskOrNone
    /\ \A x \in TaskOrNone : x # NoTask => x \in Task
  BY TaskNames
<1> USE DEF CloseTypes
<1>1. CASE Calm \/ \E d \in Def, kind \in Kind : Birth(d, kind)
  BY <1>1 DEF Calm, Birth, closeVars
<1>2. ASSUME NEW t \in Task, Returns(t) \/ Raises(t) \/ Aborts(t) \/ DropUnstarted(t)
      PROVE CloseTypes'
  BY <1>2 DEF Returns, Raises, Aborts, DropUnstarted, Ends, closeVars
<1>3. ASSUME NEW f \in Frame, Closing(f) \/ CancelInflight(f) \/ ClearFrame(f) PROVE CloseTypes'
  <2>1. {inflight[d] : d \in DefsOf(f)} \ {NoTask} \in SUBSET TaskOrNone
    BY DEF RegistryTypes, DefsOf
  <2> QED
    BY <1>3, <2>1 DEF Closing, CancelInflight, ClearFrame
<1>4. ASSUME NEW f \in Frame, CollectResources(f) \/ ReleaseResource(f) PROVE CloseTypes'
  <2>1. Held(f) \in SUBSET TaskOrNone
    BY DEF RegistryTypes, Held, Cached, DefsOf
  <2> QED
    BY <1>4, <2>1 DEF CollectResources, ReleaseResource
<1> QED
  BY <1>1, <1>2, <1>3, <1>4, StepHasShape DEF Shapes, CloseStep

\* Owner tasks move between the states of LiveStates and EndStates.
LEMMA BodyStep ==
  ASSUME Inv, [Next]_vars PROVE BodyTypes'
<1> RegistryTypes /\ BodyTypes /\ LogTypes /\ TypeOK /\ TasksBorn
  BY TypeGroups DEF Inv
<1> /\ NoTask \in TaskOrNone /\ Task \subseteq TaskOrNone
    /\ \A x \in TaskOrNone : x # NoTask => x \in Task
  BY TaskNames
<1>0. ASSUME UNCHANGED taskVars PROVE BodyTypes'
  BY <1>0 DEF BodyTypes, taskVars
<1>1. ASSUME NEW t \in Task, Start(t) PROVE BodyTypes'
  <2>1. FrameOf(t) \in Frame
    BY <1>1, LiveHasDef, ConstantsAssumption DEF Start, Live, LiveStates, FrameOf
  <2> QED
    BY <1>1, <2>1 DEF Start, BodyTypes, LogTypes, LiveStates
<1>2. ASSUME NEW t \in Task, DropUnstarted(t) \/ HostSwallowsCancel(t) PROVE BodyTypes'
  BY <1>2 DEF DropUnstarted, HostSwallowsCancel, BodyTypes, EndStates
<1>3. ASSUME NEW t \in Task, ReadFailing(t) \/ WakeWithFailure(t) PROVE BodyTypes'
  <2>1. ReadRaises(t) /\ UNCHANGED <<reads, seen>>
    BY <1>3 DEF ReadFailing, WakeWithFailure
  <2>2. CASE DefOf(t) \in Tolerant
    <3>1. /\ pos' = [pos EXCEPT ![t] = @ + 1]
          /\ st' = [st EXCEPT ![t] = "running"]
          /\ on' = [on EXCEPT ![t] = NoTask]
      BY <2>1, <2>2 DEF ReadRaises
    <3> QED
      BY <2>1, <3>1 DEF BodyTypes, LiveStates
  <2>3. CASE DefOf(t) \notin Tolerant
    <3>1. /\ pos' = pos
          /\ st' = [st EXCEPT ![t] = "raised"]
          /\ on' = [on EXCEPT ![t] = NoTask]
      BY <2>1, <2>3 DEF ReadRaises, Settle
    <3> QED
      BY <2>1, <3>1 DEF BodyTypes, EndStates
  <2> QED
    BY <2>2, <2>3
<1>4. ASSUME NEW t \in Task, ReadCached(t) PROVE BodyTypes'
  <2>1. NextDep(t) \in Def
    BY <1>4, NextDepVisible DEF ReadCached
  <2>2. val[results[NextDep(t)]] \in TaskOrNone
    BY <1>4, <2>1 DEF ReadCached, Cached, RegistryTypes
  <2>3. reads' \in [Task -> SUBSET TaskOrNone]
    BY <1>4, <2>2 DEF ReadCached, Remember, BodyTypes
  <2>4. UNCHANGED <<st, on, seen>> /\ pos' = [pos EXCEPT ![t] = @ + 1]
    BY <1>4 DEF ReadCached
  <2> QED
    BY <2>3, <2>4 DEF BodyTypes
<1>5. ASSUME NEW t \in Task, ReadShared(t) PROVE BodyTypes'
  <2>1. inflight[NextDep(t)] \in TaskOrNone
    BY <1>5, NextDepVisible DEF ReadShared, NeedsOwner, RegistryTypes
  <2> QED
    BY <1>5, <2>1 DEF ReadShared, BodyTypes, LiveStates
<1>6. ASSUME NEW t \in Task, ReadSpawning(t) PROVE BodyTypes'
  <2>1. spawned + 1 \in Task
    BY <1>6, TaskNames DEF ReadSpawning, Spawn
  <2>2. st' \in [Task -> {"unborn"} \cup LiveStates \cup EndStates]
    BY <1>6 DEF ReadSpawning, BodyTypes, LiveStates
  <2>3. UNCHANGED <<pos, reads, seen>> /\ on' = [on EXCEPT ![t] = spawned + 1]
    BY <1>6 DEF ReadSpawning
  <2> QED
    BY <2>1, <2>2, <2>3 DEF BodyTypes
<1>7. ASSUME NEW t \in Task, WakeWithValue(t) PROVE BodyTypes'
  <2>1. on[t] \in Task
    BY <1>7, TaskNames DEF WakeWithValue, Awaited, WaitsNamed, Inv
  <2>2. val[on[t]] \in TaskOrNone
    BY <2>1 DEF RegistryTypes
  <2>3. reads' \in [Task -> SUBSET TaskOrNone]
    BY <1>7, <2>2 DEF WakeWithValue, Remember, BodyTypes
  <2>4. /\ seen' = seen /\ pos' = [pos EXCEPT ![t] = @ + 1]
        /\ st' = [st EXCEPT ![t] = "running"] /\ on' = [on EXCEPT ![t] = NoTask]
    BY <1>7 DEF WakeWithValue
  <2> QED
    BY <2>3, <2>4 DEF BodyTypes, LiveStates
<1>8. ASSUME NEW t \in Task, WakeCancelled(t) \/ CancelDelivered(t) \/ HostCancels(t)
             \/ HostRaises(t) \/ Finish(t)
      PROVE BodyTypes'
  <2>1. UNCHANGED <<pos, reads, seen>> /\ \E end \in EndStates : Settle(t, end)
    BY <1>8 DEF WakeCancelled, CancelDelivered, HostCancels, EndCancelled, HostRaises, Finish,
                EndStates
  <2> QED
    BY <2>1 DEF Settle, BodyTypes
<1>9. ASSUME NEW c \in Caller, NEW q \in Script[c],
             \/ RejectClosed(c, q) \/ GetSnapshot(c, q) \/ GetShared(c, q)
             \/ JoinRefresh(c, q) \/ AwaitInitial(c, q) \/ AskClose(c, q)
      PROVE BodyTypes'
  BY <1>0, <1>9 DEF RejectClosed, GetSnapshot, GetShared, JoinRefresh, AwaitInitial, AskClose
<1>10. ASSUME spawned < TaskLimit, UNCHANGED <<pos, on, reads, seen>>,
              st' = [st EXCEPT ![spawned + 1] = "queued"]
       PROVE BodyTypes'
  BY <1>10, TaskNames DEF BodyTypes, LiveStates
<1>11. ASSUME NEW c \in Caller, NEW q \in Script[c], GetSpawning(c, q) \/ RefreshAtOnce(c, q)
       PROVE BodyTypes'
  BY <1>10, <1>11 DEF GetSpawning, RefreshAtOnce, SpawnRefresh, Spawn
<1>12. ASSUME NEW c \in Caller, AfterInitial(c) \/ OwnerAnswers(c) \/ CloseAnswers(c) \/ CallerCancelled(c)
       PROVE BodyTypes'
  BY <1>0, <1>10, <1>12 DEF AfterInitial, OwnerAnswers, CloseAnswers, CallerCancelled, SpawnRefresh, Spawn
<1>13. ASSUME NEW f \in Frame, CloseStep(f) \/ Mixin(f) PROVE BodyTypes'
  <2>1. CASE CancelInflight(f)
    BY <2>1 DEF CancelInflight, BodyTypes
  <2> QED
    BY <1>0, <1>13, <2>1 DEF CloseStep, CollectResources, ReleaseResource, ClearFrame, Mixin
<1>14. CASE UNCHANGED vars
  BY <1>0, <1>14 DEF vars
<1> QED
  BY <1>1, <1>2, <1>3, <1>4, <1>5, <1>6, <1>7, <1>8, <1>9, <1>11, <1>12, <1>13, <1>14
  DEF Next, Progress, HostStep, Ask, Resume, Finished

\* A caller is idle, waits, or has its answer.
LEMMA CallStep ==
  ASSUME Inv, [Next]_vars PROVE CallTypes'
<1> RegistryTypes /\ BodyTypes /\ CallTypes /\ LogTypes /\ TypeOK /\ TasksBorn
  BY TypeGroups DEF Inv
<1> /\ NoTask \in TaskOrNone /\ Task \subseteq TaskOrNone
    /\ \A x \in TaskOrNone : x # NoTask => x \in Task
  BY TaskNames
<1>0. ASSUME UNCHANGED callVars PROVE CallTypes'
  BY <1>0 DEF CallTypes, callVars
<1>1. ASSUME NEW t \in Task, Progress(t) \/ HostStep(t) PROVE CallTypes'
  <2>1. UNCHANGED callVars
    BY <1>1 DEF Progress, HostStep, Start, DropUnstarted, ReadFailing, ReadCached, ReadShared,
                ReadSpawning, WakeWithValue, WakeWithFailure, WakeCancelled, CancelDelivered,
                Finish, HostSwallowsCancel, HostRaises, HostCancels, EndCancelled
  <2> QED
    BY <1>0, <2>1
<1>2. ASSUME NEW f \in Frame, CloseStep(f) \/ Mixin(f) PROVE CallTypes'
  BY <1>0, <1>2 DEF CloseStep, CancelInflight, CollectResources, ReleaseResource, ClearFrame, Mixin
<1>3. ASSUME NEW c \in Caller, NEW q \in Script[c], q.op # "close"
      PROVE  q \in Call /\ q.frame \in Frame /\ q.def \in Def
  BY <1>3, ConstantsAssumption DEF Call
<1>4. ASSUME NEW d \in Def PROVE Len(history[d]) \in Nat /\ inputs[OwnerOf[d]] \in Nat
  <2>1. history[d] \in Seq(Task) /\ OwnerOf[d] \in Frame
    BY ConstantsAssumption DEF LogTypes
  <2> QED
    BY <2>1 DEF LogTypes
<1>5. ASSUME NEW c \in Caller, NEW q \in Script[c], q.op # "close", NEW x \in TaskOrNone,
             NEW at \in {"owner", "initial"}, Await(c, at, q, x)
      PROVE CallTypes'
  BY <1>3, <1>4, <1>5 DEF Await, Entitlement, CallTypes
<1>6. ASSUME NEW c \in Caller, NEW q \in Script[c], q.op # "close", NEW x \in TaskOrNone,
             NEW how \in {"value", "failure", "closed"}, AnswerNow(c, q, how, x)
      PROVE CallTypes'
  BY <1>3, <1>4, <1>6 DEF AnswerNow, Entitlement, CallTypes
<1>7. ASSUME NEW c \in Caller, NEW x \in TaskOrNone,
             NEW how \in {"value", "failure", "cancelled", "closed"}, Conclude(c, how, x)
      PROVE CallTypes'
  <2>1. answer' \in [Caller ->
          [how : {"none", "value", "failure", "cancelled", "closed"}, of : TaskOrNone]]
    BY <1>7 DEF Conclude, CallTypes
  <2>2. call' = [call EXCEPT ![c] = [call[c] EXCEPT !.at = "done", !.on = NoTask]]
    BY <1>7 DEF Conclude, CallTypes
  <2>3. call[c] \in [at : {"idle", "owner", "initial", "close", "done"},
                     ask : Call \cup {NoCall}, on : TaskOrNone, since : Nat, asked : Nat]
    BY DEF CallTypes
  <2>4. [call[c] EXCEPT !.at = "done", !.on = NoTask]
          \in [at : {"idle", "owner", "initial", "close", "done"},
               ask : Call \cup {NoCall}, on : TaskOrNone, since : Nat, asked : Nat]
    BY <2>3
  <2> QED
    BY <2>1, <2>2, <2>4 DEF CallTypes
<1>8. ASSUME NEW c \in Caller, NEW q \in Script[c], RejectClosed(c, q) \/ GetSnapshot(c, q)
      PROVE CallTypes'
  <2>1. q.op # "close"
    BY <1>8 DEF RejectClosed, GetSnapshot, Asks
  <2>2. results[q.def] \in TaskOrNone /\ failed[q.def] \in TaskOrNone
    BY <1>3, <2>1 DEF RegistryTypes
  <2> QED
    BY <1>6, <1>8, <2>1, <2>2 DEF RejectClosed, GetSnapshot
<1>9. ASSUME NEW c \in Caller, NEW q \in Script[c],
             GetShared(c, q) \/ JoinRefresh(c, q) \/ AwaitInitial(c, q)
      PROVE CallTypes'
  <2>1. q.op # "close"
    BY <1>9 DEF GetShared, GetUncached, JoinRefresh, AwaitInitial, Asks
  <2>2. inflight[q.def] \in TaskOrNone /\ refreshes[q.def] \in TaskOrNone
    BY <1>3, <2>1 DEF RegistryTypes
  <2> QED
    BY <1>5, <1>9, <2>1, <2>2 DEF GetShared, JoinRefresh, AwaitInitial
<1>10. ASSUME NEW c \in Caller, NEW q \in Script[c], GetSpawning(c, q) \/ RefreshAtOnce(c, q)
       PROVE CallTypes'
  <2>1. q.op # "close"
    BY <1>10 DEF GetSpawning, GetUncached, RefreshAtOnce, Asks
  <2>2. spawned + 1 \in TaskOrNone
    BY <1>10, TaskNames DEF GetSpawning, RefreshAtOnce, SpawnRefresh, Spawn
  <2> QED
    BY <1>5, <1>10, <2>1, <2>2 DEF GetSpawning, RefreshAtOnce
<1>11. ASSUME NEW c \in Caller, NEW q \in Script[c], AskClose(c, q)
       PROVE CallTypes'
  <2>1. q \in Call
    BY ConstantsAssumption
  <2>2. answer' = answer /\ call' = [call EXCEPT ![c] =
          [at |-> "close", ask |-> q, on |-> NoTask, since |-> 0, asked |-> 0]]
    BY <1>11 DEF AskClose
  <2> QED
    BY <2>1, <2>2 DEF CallTypes
<1>12. ASSUME NEW c \in Caller, OwnerAnswers(c) PROVE CallTypes'
  <2>1. call[c].on \in TaskOrNone
    BY DEF CallTypes
  <2>2. \E how \in {"value", "failure", "cancelled"} : Conclude(c, how, call[c].on)
    BY <1>12 DEF OwnerAnswers, Ended, EndStates
  <2> QED
    BY <1>7, <2>1, <2>2
<1>13. ASSUME NEW c \in Caller, CloseAnswers(c) \/ CallerCancelled(c) PROVE CallTypes'
  BY <1>7, <1>13 DEF CloseAnswers, CallerCancelled
<1>14. ASSUME NEW c \in Caller, AfterInitial(c) PROVE CallTypes'
  <2>1. call[c].ask.def \in Def
    BY <1>14 DEF AfterInitial, WaitsNamed, Request, Inv
  <2>2. ASSUME NEW x \in TaskOrNone, UNCHANGED answer,
               call' = [call EXCEPT ![c].at = "owner", ![c].on = x]
        PROVE CallTypes'
    <3>1. call' = [call EXCEPT ![c] = [call[c] EXCEPT !.at = "owner", !.on = x]]
      BY <2>2
    <3>2. [call[c] EXCEPT !.at = "owner", !.on = x] \in
            [at : {"idle", "owner", "initial", "close", "done"}, ask : Call \cup {NoCall},
             on : TaskOrNone, since : Nat, asked : Nat]
      BY DEF CallTypes
    <3> QED
      BY <2>2, <3>1, <3>2 DEF CallTypes
  <2>3. refreshes[call[c].ask.def] \in TaskOrNone
    BY <2>1 DEF RegistryTypes
  <2>4. SpawnRefresh(call[c].ask.def) => spawned + 1 \in TaskOrNone
    BY TaskNames DEF SpawnRefresh, Spawn
  <2> QED
    BY <1>7, <1>14, <2>2, <2>3, <2>4 DEF AfterInitial
<1>15. CASE UNCHANGED vars
  BY <1>0, <1>15 DEF vars
<1> QED
  BY <1>1, <1>2, <1>8, <1>9, <1>10, <1>11, <1>12, <1>13, <1>14, <1>15
  DEF Next, Ask, Resume, Finished

\* Only publications and mixins are counted.
LEMMA LogStep ==
  ASSUME Inv, [Next]_vars PROVE LogTypes'
<1> LogTypes /\ TasksBorn
  BY TypeGroups DEF Inv
<1>0. ASSUME UNCHANGED <<inputs, history>> PROVE LogTypes'
  BY <1>0 DEF LogTypes
<1>1. ASSUME NEW t \in Task, Live(t), UNCHANGED inputs,
             history' = [history EXCEPT ![DefOf(t)] = Append(@, t)]
      PROVE LogTypes'
  <2>1. history[DefOf(t)] \in Seq(Task)
    BY <1>1, LiveHasDef DEF LogTypes
  <2>2. Append(history[DefOf(t)], t) \in Seq(Task)
    BY <2>1
  <2> QED
    BY <1>1, <2>2 DEF LogTypes
<1>2. ASSUME NEW t \in Task, ReadFailing(t) \/ WakeWithFailure(t) PROVE LogTypes'
  <2>1. ReadRaises(t) /\ UNCHANGED inputs /\ Live(t)
    BY <1>2 DEF ReadFailing, WakeWithFailure, Reading, Awaited, Live, LiveStates
  <2> QED
    BY <1>0, <1>1, <2>1 DEF ReadRaises, CommitFailure
<1>3. ASSUME NEW t \in Task, HostRaises(t) \/ Finish(t) PROVE LogTypes'
  BY <1>1, <1>3 DEF HostRaises, Finish, CommitFailure, CommitResult, Live, LiveStates
<1>4. ASSUME NEW t \in Task,
             \/ Start(t) \/ DropUnstarted(t) \/ ReadCached(t) \/ ReadShared(t) \/ ReadSpawning(t)
             \/ WakeWithValue(t) \/ WakeCancelled(t) \/ CancelDelivered(t)
             \/ HostSwallowsCancel(t) \/ HostCancels(t)
      PROVE LogTypes'
  <2>1. UNCHANGED <<inputs, history>>
    BY <1>4 DEF Start, DropUnstarted, ReadCached, ReadShared, ReadSpawning, WakeWithValue,
                WakeCancelled, CancelDelivered, HostSwallowsCancel, HostCancels, EndCancelled,
                histVars
  <2> QED
    BY <1>0, <2>1
<1>5. ASSUME NEW c \in Caller, Ask(c) PROVE LogTypes'
  BY <1>0, <1>5 DEF Ask, RejectClosed, GetSnapshot, GetShared, GetSpawning, JoinRefresh,
                    AwaitInitial, RefreshAtOnce, SpawnRefresh, AskClose, histVars
<1>6. ASSUME NEW c \in Caller, Resume(c) \/ CallerCancelled(c) PROVE LogTypes'
  BY <1>0, <1>6 DEF Resume, AfterInitial, OwnerAnswers, CloseAnswers, CallerCancelled,
                    SpawnRefresh, histVars
<1>7. ASSUME NEW f \in Frame, CloseStep(f) PROVE LogTypes'
  BY <1>0, <1>7 DEF CloseStep, CancelInflight, CollectResources, ReleaseResource, ClearFrame,
                    histVars
<1>8. ASSUME NEW f \in Frame, Mixin(f) PROVE LogTypes'
  BY <1>8 DEF Mixin, LogTypes, histVars
<1>9. CASE UNCHANGED vars
  BY <1>0, <1>9 DEF vars, histVars
<1> QED
  BY <1>2, <1>3, <1>4, <1>5, <1>6, <1>7, <1>8, <1>9 DEF Next, Progress, HostStep, Finished

LEMMA TypeStep ==
  ASSUME Inv, [Next]_vars PROVE TypeOK'
BY RegistryStep, CloseTypesStep, BodyStep, CallStep, LogStep, TypeGroups
DEF TypeOK, RegistryTypes, CloseTypes, BodyTypes, CallTypes, LogTypes

----------------------------------------------------------------------------
\* The parts of the inductive invariant, one lemma each, by shape of step.

USE DEF Task, NoTask, TaskOrNone

\* Task numbers are handed out in order.
LEMMA BornStep ==
  ASSUME Inv, [Next]_vars, TypeOK' PROVE TasksBorn'
<1> TypeOK /\ TasksBorn
  BY DEF Inv
<1> /\ TaskLimit \in Nat /\ spawned \in TaskOrNone
    /\ st \in [Task -> {"unborn"} \cup LiveStates \cup EndStates]
    /\ job \in [Task -> Job \cup {NoJob}]
  BY ConstantsAssumption DEF TypeOK
<1> USE DEF TasksBorn, LiveStates, EndStates
<1>1. CASE Calm
  BY <1>1 DEF Calm, SameStanding
<1>2. ASSUME NEW d \in Def, NEW kind \in Kind, Birth(d, kind) PROVE TasksBorn'
  <2>1. \A u \in Task : u # spawned + 1 => (u > spawned' <=> u > spawned)
    BY <1>2 DEF Birth
  <2>2. ASSUME NEW u \in Task, u # spawned + 1
        PROVE  /\ job'[u] = job[u]
               /\ st'[u] = "unborn" <=> st[u] = "unborn"
    BY <1>2, <2>2 DEF Birth, SameStanding
  <2>3. st'[spawned + 1] = "queued" /\ job'[spawned + 1] \in Job /\ ~(spawned + 1 > spawned')
    BY <1>2 DEF Birth
  <2> QED
    BY <2>1, <2>2, <2>3
<1>3. ASSUME NEW t \in Task, Returns(t) \/ Raises(t) \/ Aborts(t) PROVE TasksBorn'
  BY <1>3 DEF Returns, Raises, Aborts, Ends, Live, Settle
<1>4. ASSUME NEW t \in Task, DropUnstarted(t) PROVE TasksBorn'
  BY <1>4 DEF DropUnstarted
<1>5. ASSUME NEW f \in Frame, Closing(f) \/ CloseStep(f) PROVE TasksBorn'
  BY <1>5 DEF Closing, CloseStep, CancelInflight, CollectResources, ReleaseResource,
              ClearFrame, taskVars
<1> QED
  BY <1>1, <1>2, <1>3, <1>4, <1>5, StepHasShape DEF Shapes

\* A task registers and publishes under the definition it was created for.
LEMMA FiledStep ==
  ASSUME Inv, [Next]_vars, TypeOK' PROVE FiledByDefinition'
<1> TasksBorn /\ FiledByDefinition
  BY DEF Inv
<1> /\ TaskLimit \in Nat /\ spawned \in TaskOrNone
    /\ st \in [Task -> {"unborn"} \cup LiveStates \cup EndStates]
    /\ job \in [Task -> Job \cup {NoJob}]
    /\ inflight \in [Def -> TaskOrNone] /\ refreshes \in [Def -> TaskOrNone]
    /\ results \in [Def -> TaskOrNone]
  BY ConstantsAssumption DEF Inv, TypeOK
<1> USE DEF FiledByDefinition, DefOf, LiveStates, EndStates
<1>1. CASE Calm
  <2>1. \A u \in Task : st'[u] = "returned" <=> st[u] = "returned"
    BY <1>1, StandingKept DEF Calm
  <2> QED
    BY <1>1, <2>1 DEF Calm, cacheVars
<1>2. ASSUME NEW d \in Def, NEW kind \in Kind, Birth(d, kind) PROVE FiledByDefinition'
  <2>1. /\ spawned' = spawned + 1 /\ spawned + 1 \in Task
        /\ job'[spawned + 1].def = d
        /\ \A u \in Task : u # spawned + 1 => job'[u] = job[u]
        /\ \A u \in Task : st[u] = "returned" => st'[u] = "returned" /\ u # spawned + 1
    BY <1>2 DEF Birth, SameStanding
  <2>2. \A e \in Def : /\ inflight'[e] = IF e = d THEN spawned + 1 ELSE inflight[e]
                       /\ refreshes'[e] \in {spawned + 1, refreshes[e]}
                       /\ refreshes'[e] = spawned + 1 => e = d \/ refreshes[e] = spawned + 1
                       /\ results'[e] = results[e]
    BY <1>2 DEF Birth
  <2>3. ASSUME NEW e \in Def
        PROVE  /\ inflight[e] # NoTask => inflight[e] \in Task /\ inflight[e] <= spawned
               /\ refreshes[e] # NoTask => refreshes[e] \in Task /\ refreshes[e] <= spawned
               /\ results[e] # NoTask => results[e] \in Task
    OBVIOUS
  <2> HIDE DEF FiledByDefinition
  <2>4. ASSUME NEW e \in Def
        PROVE  /\ inflight'[e] # NoTask => inflight'[e] <= spawned' /\ job'[inflight'[e]].def = e
               /\ refreshes'[e] # NoTask => refreshes'[e] <= spawned' /\ job'[refreshes'[e]].def = e
               /\ results'[e] # NoTask => st'[results'[e]] = "returned" /\ job'[results'[e]].def = e
    <3>0. /\ spawned + 1 <= spawned + 1
          /\ \A u \in Task : u <= spawned => u # spawned + 1 /\ u <= spawned + 1
      OBVIOUS
    <3>1. ASSUME NEW x \in Task, x <= spawned, DefOf(x) = e
          PROVE  x <= spawned' /\ job'[x].def = e
      BY <2>1, <3>0, <3>1
    <3>2. /\ inflight'[e] # NoTask => inflight'[e] <= spawned' /\ job'[inflight'[e]].def = e
          /\ refreshes'[e] # NoTask => refreshes'[e] <= spawned' /\ job'[refreshes'[e]].def = e
      <4>1. /\ inflight[e] # NoTask => inflight[e] <= spawned' /\ job'[inflight[e]].def = e
            /\ refreshes[e] # NoTask => refreshes[e] <= spawned' /\ job'[refreshes[e]].def = e
            /\ refreshes[e] # NoTask => refreshes[e] # spawned + 1
        BY <2>3, <3>0, <3>1 DEF FiledByDefinition
      <4>2. spawned + 1 # NoTask /\ spawned + 1 <= spawned'
        BY <2>1
      <4> QED
        BY <2>1, <2>2, <4>1, <4>2
    <3>3. results'[e] # NoTask => st'[results'[e]] = "returned" /\ job'[results'[e]].def = e
      BY <2>1, <2>2, <2>3 DEF FiledByDefinition
    <3> QED
      BY <3>1, <3>2, <3>3
  <2> QED
    BY <2>4 DEF FiledByDefinition
<1>3. ASSUME NEW t \in Task, Returns(t) \/ Raises(t) \/ Aborts(t) PROVE FiledByDefinition'
  <2>1. /\ UNCHANGED <<spawned, job>>
        /\ \A u \in Task : st[u] = "returned" => st'[u] = "returned"
        /\ \A e \in Def : inflight'[e] \in {NoTask, inflight[e]} /\ refreshes'[e] \in {NoTask, refreshes[e]}
    <3>1. PICK end : Ends(t, end)
      BY <1>3 DEF Returns, Raises, Aborts
    <3> QED
      BY <3>1 DEF Ends, Live, Settle
  <2>2. ASSUME NEW e \in Def
        PROVE  results'[e] \in {NoTask, results[e]} \/ (e = DefOf(t) /\ results'[e] = t /\ st'[t] = "returned")
    BY ZenonT(40), <1>3 DEF Returns, Raises, Aborts, Ends, Live, Settle, CommitResult, CommitFailure
  <2>3. \A e \in Def : results[e] # NoTask => results[e] \in Task
    OBVIOUS
  <2> QED
    BY <2>1, <2>2, <2>3
<1>4. ASSUME NEW t \in Task, DropUnstarted(t) PROVE FiledByDefinition'
  <2>1. \A u \in Task : st[u] = "returned" => st'[u] = "returned"
    BY <1>4 DEF DropUnstarted
  <2> QED
    BY <1>4, <2>1 DEF DropUnstarted, cacheVars
<1>5. ASSUME NEW f \in Frame, Closing(f) \/ CancelInflight(f) \/ CollectResources(f) \/ ReleaseResource(f)
      PROVE FiledByDefinition'
  BY <1>5 DEF Closing, CancelInflight, CollectResources, ReleaseResource, taskVars, cacheVars
<1>6. ASSUME NEW f \in Frame, ClearFrame(f) PROVE FiledByDefinition'
  BY <1>6 DEF ClearFrame, taskVars
<1> QED
  BY <1>1, <1>2, <1>3, <1>4, <1>5, <1>6, StepHasShape DEF Shapes, CloseStep

\* The heart of SingleOwner: registrations follow the live owner tasks.
LEMMA OwnersStep ==
  ASSUME Inv, [Next]_vars, TypeOK' PROVE OwnersRegistered'
<1> TasksBorn /\ FiledByDefinition /\ OwnersRegistered /\ ClosePhases /\ CancelsFromClose
  BY DEF Inv
<1> /\ TaskLimit \in Nat /\ spawned \in TaskOrNone
    /\ OwnerOf \in [Def -> Frame]
    /\ st \in [Task -> {"unborn"} \cup LiveStates \cup EndStates]
    /\ job \in [Task -> Job \cup {NoJob}]
    /\ inflight \in [Def -> TaskOrNone] /\ refreshes \in [Def -> TaskOrNone]
    /\ results \in [Def -> TaskOrNone] /\ failed \in [Def -> TaskOrNone]
    /\ phase \in [Frame -> {"open", "closing", "gathering", "releasing", "closed"}]
  BY ConstantsAssumption DEF Inv, TypeOK
<1> SUFFICES ASSUME NEW d \in Def, d \notin aborted'
             PROVE  Undisturbed(d)'
  BY DEF OwnersRegistered
<1>1. CASE Calm
  <2>1. /\ UNCHANGED <<job, inflight, refreshes, results, failed, phase, aborted>>
        /\ \A u \in Task : (Live(u)' <=> Live(u)) /\ (Ended(u)' <=> Ended(u))
    BY <1>1, StandingKept DEF Calm, cacheVars, closeVars
  <2> QED
    BY <2>1 DEF OwnersRegistered, Undisturbed, DefOf, Cached, CachedFailure, IsOpen
<1>2. ASSUME NEW e \in Def, NEW kind \in Kind, Birth(e, kind) PROVE Undisturbed(d)'
  <2>0. PICK new \in Task : new = spawned + 1
    BY <1>2 DEF Birth
  <2>1. /\ Live(new)' /\ ~Ended(new)' /\ ~Live(new) /\ ~Ended(new)
        /\ job'[new].def = e /\ job'[new].kind = kind
        /\ \A u \in Task : u # new =>
             /\ job'[u] = job[u]
             /\ Live(u)' <=> Live(u)
             /\ Ended(u)' <=> Ended(u)
    BY <1>2, <2>0, StandingKept DEF Birth, Live, Ended, LiveStates, EndStates
  <2>2. /\ UNCHANGED <<results, failed, phase, aborted>>
        /\ IsOpen(OwnerOf[e])
        /\ \A x \in Def : inflight'[x] = IF x = e THEN new ELSE inflight[x]
        /\ \A x \in Def : refreshes'[x] = IF x = e /\ kind = "refresh" THEN new ELSE refreshes[x]
    BY <1>2, <2>0 DEF Birth, closeVars
  <2>3. CASE d # e
    <3>1. Undisturbed(d)
      BY <2>2 DEF OwnersRegistered
    <3>2. \A u \in Task : DefOf(u)' = d =>
             /\ DefOf(u) = d /\ job'[u] = job[u]
             /\ Live(u)' <=> Live(u)
             /\ Ended(u)' <=> Ended(u)
      BY <2>1, <2>3 DEF DefOf
    <3>3. /\ inflight'[d] = inflight[d] /\ refreshes'[d] = refreshes[d]
          /\ Cached(d)' <=> Cached(d)
          /\ CachedFailure(d)' <=> CachedFailure(d)
          /\ IsOpen(OwnerOf[d])' <=> IsOpen(OwnerOf[d])
      BY <2>2, <2>3 DEF Cached, CachedFailure, IsOpen
    <3> QED
      BY <3>1, <3>2, <3>3 DEF Undisturbed
  <2>4. CASE d = e
    <3>1. Undisturbed(d)
      BY <2>2 DEF OwnersRegistered
    <3>2. ASSUME NEW u \in Task, Live(u), DefOf(u) = d PROVE FALSE
      <4>1. job[u] \in Job /\ job[u].kind \in {"initial", "refresh"}
        BY <3>2 DEF TasksBorn, Job, Kind, Live, LiveStates
      <4>2. inflight[d] = u /\ u # NoTask
        BY <3>1, <3>2 DEF Undisturbed
      <4>3. kind = "refresh" /\ refreshes[d] = NoTask
            /\ \E w \in Task : Ended(w) /\ DefOf(w) = d
        BY <1>2, <2>4, <4>2 DEF Birth
      <4>4. Cached(d) \/ CachedFailure(d)
        BY <2>2, <2>4, <3>1, <4>3 DEF Undisturbed
      <4> QED
        BY <3>1, <3>2, <4>1, <4>2, <4>3, <4>4 DEF Undisturbed
    <3>3. kind = "initial" => ~Cached(d) /\ ~CachedFailure(d)
      BY <1>2, <2>4 DEF Birth
    <3>4. kind \in {"initial", "refresh"}
      BY DEF Kind
    <3>5. \A u \in Task : Live(u)' /\ DefOf(u)' = d => u = new
      BY <2>1, <3>2 DEF DefOf
    <3>6. \A u \in Task : Ended(u)' /\ DefOf(u)' = d => Ended(u) /\ DefOf(u) = d
      BY <2>1 DEF DefOf
    <3> QED
      BY <2>1, <2>2, <2>4, <3>1, <3>3, <3>4, <3>5, <3>6
      DEF Undisturbed, Cached, CachedFailure, IsOpen
  <2> QED
    BY <2>3, <2>4
<1>3. ASSUME NEW t \in Task, Ends(t, "returned") \/ Ends(t, "raised") \/ Ends(t, "cancelled"),
             UNCHANGED <<results, failed>> \/ results'[DefOf(t)] # NoTask \/ failed'[DefOf(t)] # NoTask,
             \A x \in Def : x # DefOf(t) => results'[x] = results[x] /\ failed'[x] = failed[x],
             \/ results'[DefOf(t)] # NoTask \/ failed'[DefOf(t)] # NoTask
             \/ ~IsOpen(OwnerOf[DefOf(t)]) \/ DefOf(t) \in aborted',
             aborted \subseteq aborted'
      PROVE  Undisturbed(d)'
  <2>1. /\ UNCHANGED <<job, phase>>
        /\ Live(t) /\ ~Live(t)' /\ Ended(t)'
        /\ \A u \in Task : u # t => (Live(u)' <=> Live(u)) /\ (Ended(u)' <=> Ended(u))
        /\ \A x \in Def : x # DefOf(t) => inflight'[x] = inflight[x] /\ refreshes'[x] = refreshes[x]
    BY <1>3 DEF Ends, Settle, closeVars, Live, Ended, LiveStates, EndStates
  <2>2. Undisturbed(d)
    BY <1>3 DEF OwnersRegistered
  <2>3. CASE d # DefOf(t)
    BY ZenonT(40), <1>3, <2>1, <2>2, <2>3 DEF Undisturbed, DefOf, Cached, CachedFailure, IsOpen
  <2>4. CASE d = DefOf(t)
    <3>1. \A u \in Task : Live(u)' => DefOf(u)' # d
      BY <2>1, <2>2, <2>4 DEF Undisturbed, DefOf
    <3>2. IsOpen(OwnerOf[d])' => (Cached(d) \/ CachedFailure(d))'
      BY <1>3, <2>1, <2>4 DEF IsOpen, Cached, CachedFailure
    <3> QED
      BY <3>1, <3>2 DEF Undisturbed
  <2> QED
    BY <2>3, <2>4
<1>4. ASSUME NEW t \in Task, Returns(t) \/ Raises(t) \/ Aborts(t) PROVE Undisturbed(d)'
  <2>1. DefOf(t) \in Def
    BY <1>4 DEF Returns, Raises, Aborts, Ends, TasksBorn, Job, DefOf, Live, LiveStates
  <2>2. CASE Returns(t)
    <3>1. Ends(t, "returned") /\ aborted' = aborted
      BY <2>2 DEF Returns
    <3>2. results' = [results EXCEPT ![DefOf(t)] = t] /\ failed' = [failed EXCEPT ![DefOf(t)] = NoTask]
      BY <2>2 DEF Returns, CommitResult
    <3> QED
      BY <1>3, <2>1, <3>1, <3>2
  <2>3. CASE Raises(t)
    BY <1>3, <2>1, <2>3 DEF Raises, CommitFailure
  <2>4. CASE Aborts(t)
    BY <1>3, <2>1, <2>4 DEF Aborts, FrameOf
  <2> QED
    BY <1>4, <2>2, <2>3, <2>4
<1>5. ASSUME NEW t \in Task, DropUnstarted(t) PROVE Undisturbed(d)'
  <2>1. /\ UNCHANGED <<job, inflight, refreshes, results, failed, phase, aborted>>
        /\ Live(t) /\ ~Live(t)' /\ Ended(t)' /\ ~IsOpen(FrameOf(t))
        /\ \A u \in Task : u # t => (Live(u)' <=> Live(u)) /\ (Ended(u)' <=> Ended(u))
    BY <1>5 DEF DropUnstarted, CancelsFromClose, cacheVars, closeVars, histVars,
                Live, Ended, LiveStates, EndStates
  <2> QED
    BY <2>1 DEF OwnersRegistered, Undisturbed, DefOf, FrameOf, Cached, CachedFailure, IsOpen
<1>6. ASSUME NEW f \in Frame, Closing(f) \/ CancelInflight(f) \/ CollectResources(f) \/ ReleaseResource(f)
      PROVE Undisturbed(d)'
  <2>1. /\ UNCHANGED <<job, st, inflight, refreshes, results, failed, aborted>>
        /\ IsOpen(OwnerOf[d])' => IsOpen(OwnerOf[d])
    BY <1>6 DEF Closing, CancelInflight, CollectResources, ReleaseResource, taskVars, cacheVars,
                histVars, IsOpen
  <2> QED
    BY <2>1 DEF OwnersRegistered, Undisturbed, DefOf, Cached, CachedFailure, Live, Ended
<1>7. ASSUME NEW f \in Frame, ClearFrame(f) PROVE Undisturbed(d)'
  <2>1. /\ UNCHANGED <<job, st, aborted>>
        /\ OwnerOf[d] # f => /\ inflight'[d] = inflight[d] /\ refreshes'[d] = refreshes[d]
                             /\ results'[d] = results[d] /\ failed'[d] = failed[d]
                             /\ phase'[OwnerOf[d]] = phase[OwnerOf[d]]
        /\ OwnerOf[d] = f => ~IsOpen(OwnerOf[d])' /\ phase[f] = "releasing"
    BY <1>7 DEF ClearFrame, taskVars, histVars, IsOpen
  <2>2. OwnerOf[d] = f => \A u \in Task : Live(u) => DefOf(u) # d
    BY <2>1 DEF ClosePhases, DefsOf
  <2> QED
    BY ZenonT(40), <2>1, <2>2 DEF OwnersRegistered, Undisturbed, DefOf, Cached, CachedFailure, Live, Ended, IsOpen
<1> QED
  BY <1>1, <1>2, <1>4, <1>5, <1>6, <1>7, StepHasShape DEF Shapes, CloseStep

\* What the steps that end a task do to every task and phase.
LEMMA EndingKeeps ==
  ASSUME Inv, NEW t \in Task, Returns(t) \/ Raises(t) \/ Aborts(t) \/ DropUnstarted(t)
  PROVE  /\ DefOf(t) \in Def /\ Live(t) /\ ~Live(t)' /\ Ended(t)'
         /\ \A u \in Task : u # t => st'[u] = st[u]
         /\ UNCHANGED <<spawned, job, closeVars>>
         /\ aborted \subseteq aborted'
         /\ cancelReq' \subseteq cancelReq
<1> TasksBorn /\ st \in [Task -> {"unborn"} \cup LiveStates \cup EndStates]
  BY DEF Inv, TypeOK
<1>1. CASE Returns(t) \/ Raises(t) \/ Aborts(t)
  BY <1>1 DEF Returns, Raises, Aborts, Ends, Settle, Live, Ended, LiveStates, EndStates,
              TasksBorn, DefOf, Job
<1>2. CASE DropUnstarted(t)
  BY <1>2 DEF DropUnstarted, closeVars, histVars, Live, Ended, LiveStates, EndStates,
              TasksBorn, DefOf, Job
<1> QED
  BY <1>1, <1>2

\* A created task keeps its number, its definition and its path.
LEMMA JobsKept ==
  ASSUME Inv, [Next]_vars
  PROVE  /\ spawned' \in Nat /\ spawned <= spawned'
         /\ \A u \in Task : st[u] # "unborn" => job'[u] = job[u]
         /\ \A u \in 1 .. spawned : u \in Task /\ st[u] # "unborn"
<1> TasksBorn
  BY DEF Inv
<1> /\ TaskLimit \in Nat /\ spawned \in TaskOrNone
    /\ st \in [Task -> {"unborn"} \cup LiveStates \cup EndStates]
    /\ job \in [Task -> Job \cup {NoJob}]
  BY ConstantsAssumption DEF Inv, TypeOK
<1>0. \A u \in 1 .. spawned : u \in Task /\ st[u] # "unborn"
  BY DEF TasksBorn
<1>1. CASE \E e \in Def, kind \in Kind : Birth(e, kind)
  BY <1>0, <1>1 DEF Birth
<1>2. CASE \E t \in Task : Returns(t) \/ Raises(t) \/ Aborts(t) \/ DropUnstarted(t)
  BY <1>0, <1>2, EndingKeeps
<1>3. CASE Calm \/ \E f \in Frame : Closing(f) \/ CloseStep(f)
  BY <1>0, <1>3 DEF Calm, Closing, CloseStep, CancelInflight, CollectResources, ReleaseResource,
              ClearFrame, taskVars
<1> QED
  BY <1>1, <1>2, <1>3, StepHasShape DEF Shapes

\* The close task collects every registered task, and a live one is registered.
LEMMA PhasesStep ==
  ASSUME Inv, [Next]_vars, TypeOK' PROVE ClosePhases'
<1> OwnersRegistered /\ ClosePhases
  BY DEF Inv
<1> /\ TaskLimit \in Nat /\ OwnerOf \in [Def -> Frame]
    /\ st \in [Task -> {"unborn"} \cup LiveStates \cup EndStates]
    /\ job \in [Task -> Job \cup {NoJob}]
    /\ inflight \in [Def -> TaskOrNone]
    /\ phase \in [Frame -> {"open", "closing", "gathering", "releasing", "closed"}]
    /\ gathered \in [Frame -> SUBSET TaskOrNone]
  BY ConstantsAssumption DEF Inv, TypeOK
<1> SUFFICES ASSUME NEW d \in Def, d \notin aborted', NEW u \in Task, Live(u)', DefOf(u)' = d
             PROVE  /\ phase'[OwnerOf[d]] = "gathering" => u \in gathered'[OwnerOf[d]]
                    /\ phase'[OwnerOf[d]] \notin {"releasing", "closed"}
  BY DEF ClosePhases, DefsOf
<1>0. ASSUME aborted \subseteq aborted', Live(u), DefOf(u) = d
      PROVE  /\ inflight[d] = u
             /\ phase[OwnerOf[d]] = "gathering" => u \in gathered[OwnerOf[d]]
             /\ phase[OwnerOf[d]] \notin {"releasing", "closed"}
  BY <1>0 DEF ClosePhases, DefsOf, OwnersRegistered, Undisturbed
<1>1. CASE Calm
  BY <1>0, <1>1, StandingKept DEF Calm, closeVars, DefOf
<1>2. ASSUME NEW e \in Def, NEW kind \in Kind, Birth(e, kind)
      PROVE  ~(phase'[OwnerOf[d]] \in {"gathering", "releasing", "closed"} /\ u \notin gathered'[OwnerOf[d]])
             /\ phase'[OwnerOf[d]] \notin {"releasing", "closed"}
  <2>1. UNCHANGED <<phase, gathered, aborted>> /\ IsOpen(OwnerOf[e])
    BY <1>2 DEF Birth, closeVars
  <2>2. CASE u = spawned + 1
    BY <1>2, <2>1, <2>2 DEF Birth, DefOf, IsOpen
  <2>3. CASE u # spawned + 1
    <3>1. SameStanding(u) /\ job'[u] = job[u]
      BY <1>2, <2>3 DEF Birth
    <3> QED
      BY <1>0, <2>1, <3>1, StandingKept DEF DefOf
  <2> QED
    BY <2>2, <2>3
<1>3. ASSUME NEW t \in Task, Returns(t) \/ Raises(t) \/ Aborts(t) \/ DropUnstarted(t)
      PROVE  UNCHANGED <<phase, gathered>> /\ aborted \subseteq aborted' /\ Live(u) /\ DefOf(u) = d
  BY <1>3, EndingKeeps DEF closeVars, DefOf, Live
<1>4. ASSUME NEW f \in Frame, Closing(f) \/ CloseStep(f)
      PROVE  aborted \subseteq aborted' /\ Live(u) /\ DefOf(u) = d
  BY <1>4 DEF Closing, CloseStep, CancelInflight, CollectResources, ReleaseResource, ClearFrame,
              taskVars, histVars, DefOf, Live
<1>5. ASSUME NEW f \in Frame, Closing(f) \/ ReleaseResource(f)
      PROVE  UNCHANGED gathered /\ phase'[OwnerOf[d]] \in {"closing", phase[OwnerOf[d]]}
  BY <1>5 DEF Closing, ReleaseResource
<1>6. ASSUME NEW f \in Frame, CancelInflight(f)
      PROVE  \/ phase'[OwnerOf[d]] = phase[OwnerOf[d]] /\ gathered'[OwnerOf[d]] = gathered[OwnerOf[d]]
             \/ phase'[OwnerOf[d]] = "gathering" /\ u \in gathered'[OwnerOf[d]]
  <2>1. inflight[d] = u /\ u # NoTask
    BY <1>0, <1>4, <1>6 DEF CloseStep
  <2> QED
    BY <1>6, <2>1 DEF CancelInflight, DefsOf
<1>7. ASSUME NEW f \in Frame, CollectResources(f)
      PROVE  OwnerOf[d] # f /\ UNCHANGED gathered /\ phase'[OwnerOf[d]] = phase[OwnerOf[d]]
  <2>1. OwnerOf[d] = f => u \in gathered[f] /\ Live(u)
    BY <1>0, <1>4, <1>7 DEF CloseStep, CollectResources
  <2>2. OwnerOf[d] # f
    BY <1>7, <2>1 DEF CollectResources, Live, Ended, LiveStates, EndStates
  <2> QED
    BY <1>7, <2>2 DEF CollectResources
<1>8. ASSUME NEW f \in Frame, ClearFrame(f)
      PROVE  OwnerOf[d] # f /\ UNCHANGED gathered /\ phase'[OwnerOf[d]] = phase[OwnerOf[d]]
  <2>1. OwnerOf[d] # f
    BY <1>0, <1>4, <1>8 DEF CloseStep, ClearFrame
  <2> QED
    BY <1>8, <2>1 DEF ClearFrame
<1>9. CASE \E t \in Task : Returns(t) \/ Raises(t) \/ Aborts(t) \/ DropUnstarted(t)
  BY <1>0, <1>3, <1>9
<1>10. CASE \E f \in Frame : Closing(f) \/ CloseStep(f)
  BY <1>0, <1>4, <1>5, <1>6, <1>7, <1>8, <1>10 DEF CloseStep
<1> QED
  BY <1>1, <1>2, <1>9, <1>10, StepHasShape DEF Shapes

\* Only a live owner task publishes, and a closed Frame has none.
LEMMA ClosedStep ==
  ASSUME Inv, [Next]_vars, TypeOK' PROVE NothingCachedWhenClosed'
<1> ClosePhases /\ NothingCachedWhenClosed
  BY DEF Inv
<1> /\ TaskLimit \in Nat /\ OwnerOf \in [Def -> Frame]
    /\ results \in [Def -> TaskOrNone] /\ failed \in [Def -> TaskOrNone]
    /\ phase \in [Frame -> {"open", "closing", "gathering", "releasing", "closed"}]
  BY ConstantsAssumption DEF Inv, TypeOK
<1> SUFFICES ASSUME NEW d \in Def, d \notin aborted', phase'[OwnerOf[d]] = "closed"
             PROVE  results'[d] = NoTask /\ failed'[d] = NoTask
  BY DEF NothingCachedWhenClosed, DefsOf, Cached, CachedFailure
<1>0. ASSUME aborted \subseteq aborted', phase[OwnerOf[d]] = "closed"
      PROVE  /\ results[d] = NoTask /\ failed[d] = NoTask
             /\ \A u \in Task : Live(u) => DefOf(u) # d
  BY <1>0 DEF NothingCachedWhenClosed, ClosePhases, DefsOf, Cached, CachedFailure
<1>1. CASE Calm
  BY <1>0, <1>1 DEF Calm, cacheVars, closeVars
<1>2. ASSUME NEW e \in Def, NEW kind \in Kind, Birth(e, kind)
      PROVE results'[d] = NoTask /\ failed'[d] = NoTask
  BY <1>0, <1>2 DEF Birth, closeVars
<1>3. ASSUME NEW t \in Task, Returns(t) \/ Raises(t) \/ Aborts(t) \/ DropUnstarted(t)
      PROVE results'[d] = NoTask /\ failed'[d] = NoTask
  <2>1. /\ DefOf(t) \in Def /\ Live(t) /\ aborted \subseteq aborted'
        /\ phase[OwnerOf[d]] = "closed"
    BY <1>3, EndingKeeps DEF closeVars
  <2>2. DefOf(t) # d
    BY <1>0, <2>1
  <2> QED
    BY <1>0, <1>3, <2>1, <2>2 DEF Returns, Raises, Aborts, DropUnstarted, CommitResult,
                                  CommitFailure, cacheVars
<1>4. ASSUME NEW f \in Frame, Closing(f) \/ CancelInflight(f) \/ CollectResources(f) \/ ReleaseResource(f)
      PROVE results'[d] = NoTask /\ failed'[d] = NoTask
  <2>1. phase[OwnerOf[d]] = "closed" /\ UNCHANGED <<results, failed, aborted>>
    BY <1>4 DEF Closing, CancelInflight, CollectResources, ReleaseResource, cacheVars, histVars
  <2> QED
    BY <1>0, <2>1
<1>5. ASSUME NEW f \in Frame, ClearFrame(f)
      PROVE results'[d] = NoTask /\ failed'[d] = NoTask
  BY <1>0, <1>5 DEF ClearFrame, histVars
<1> QED
  BY <1>1, <1>2, <1>3, <1>4, <1>5, StepHasShape DEF Shapes, CloseStep

\* A Frame that has started to close is never open again.
LEMMA NeverReopens ==
  ASSUME Inv, [Next]_vars, NEW f \in Frame, ~IsOpen(f)
  PROVE  ~IsOpen(f)'
<1> phase \in [Frame -> {"open", "closing", "gathering", "releasing", "closed"}]
  BY DEF Inv, TypeOK
<1>1. CASE Calm
  BY <1>1 DEF Calm, closeVars, IsOpen
<1>2. ASSUME NEW e \in Def, NEW kind \in Kind, Birth(e, kind) PROVE ~IsOpen(f)'
  BY <1>2 DEF Birth, closeVars, IsOpen
<1>3. ASSUME NEW t \in Task, Returns(t) \/ Raises(t) \/ Aborts(t) \/ DropUnstarted(t)
      PROVE ~IsOpen(f)'
  BY <1>3, EndingKeeps DEF closeVars, IsOpen
<1>4. ASSUME NEW g \in Frame, Closing(g) \/ CloseStep(g) PROVE ~IsOpen(f)'
  BY <1>4 DEF Closing, CloseStep, CancelInflight, CollectResources, ReleaseResource,
              ClearFrame, IsOpen
<1> QED
  BY <1>1, <1>2, <1>3, <1>4, StepHasShape DEF Shapes

\* A cancellation is raised by a close and passes from a task to those that
\* await it, always up the lineage of the reader.
LEMMA CancelsStep ==
  ASSUME Inv, [Next]_vars, TypeOK' PROVE CancelsFromClose'
<1> TasksBorn /\ WaitsNamed /\ FiledByDefinition /\ CancelsFromClose
  BY DEF Inv
<1> /\ TaskLimit \in Nat /\ OwnerOf \in [Def -> Frame]
    /\ st \in [Task -> {"unborn"} \cup LiveStates \cup EndStates]
    /\ on \in [Task -> TaskOrNone]
    /\ job \in [Task -> Job \cup {NoJob}]
    /\ spawned \in TaskOrNone
    /\ cancelReq \in SUBSET Task
    /\ inflight \in [Def -> TaskOrNone]
    /\ phase \in [Frame -> {"open", "closing", "gathering", "releasing", "closed"}]
  BY ConstantsAssumption DEF Inv, TypeOK
<1> DEFINE HasCause(u) == \E g \in Lineage[FrameOf(u)] : ~IsOpen(g)
<1>1. ASSUME NEW u \in Task, st[u] # "unborn"
      PROVE  /\ DefOf(u) \in Def /\ FrameOf(u) \in Frame
             /\ Lineage[FrameOf(u)] \in SUBSET Frame
             /\ FrameOf(u) \in Lineage[FrameOf(u)]
             /\ u # spawned + 1
  BY <1>1, ConstantsAssumption, VisibilityAssumption DEF TasksBorn, Job, DefOf, FrameOf
<1>2. ASSUME NEW u \in Task, st[u] # "unborn" PROVE job'[u] = job[u]
  BY <1>2, JobsKept
<1>3. ASSUME NEW u \in Task, st[u] # "unborn", HasCause(u) PROVE HasCause(u)'
  <2>1. PICK g \in Lineage[FrameOf(u)] : ~IsOpen(g)
    BY <1>3
  <2>2. g \in Frame
    BY <1>1, <1>3
  <2>3. FrameOf(u)' = FrameOf(u)
    BY <1>2, <1>3 DEF FrameOf, DefOf
  <2> QED
    BY <2>1, <2>2, <2>3, NeverReopens
<1>4. ASSUME NEW u \in Task, st[u] # "unborn", ~IsOpen(FrameOf(u))
      PROVE  HasCause(u) /\ ~IsOpen(FrameOf(u))'
  <2>1. FrameOf(u)' = FrameOf(u)
    BY <1>2, <1>4 DEF FrameOf, DefOf
  <2> QED
    BY <1>1, <1>4, <2>1, NeverReopens
<1>5. ASSUME NEW u \in Task PROVE st'[u] = "unborn" => st[u] = "unborn"
  <2>1. CASE Calm \/ \E e \in Def, kind \in Kind : Birth(e, kind)
    BY <2>1 DEF Calm, Birth, SameStanding, LiveStates
  <2>2. CASE \E t \in Task : Returns(t) \/ Raises(t) \/ Aborts(t) \/ DropUnstarted(t)
    BY <2>2, EndingKeeps DEF Ended, EndStates
  <2>3. CASE \E f \in Frame : Closing(f) \/ CloseStep(f)
    BY <2>3 DEF Closing, CloseStep, CancelInflight, CollectResources, ReleaseResource,
                ClearFrame, taskVars
  <2> QED
    BY <2>1, <2>2, <2>3, StepHasShape DEF Shapes
<1>6. ASSUME NEW u \in cancelReq' PROVE st[u] # "unborn" /\ u \in Task /\ ~IsOpen(FrameOf(u))
  <2>1. CASE u \in cancelReq
    BY <2>1 DEF CancelsFromClose
  <2>2. CASE u \notin cancelReq
    <3>1. PICK f \in Frame : CancelInflight(f)
      <4>1. ~(Calm \/ \E e \in Def, kind \in Kind : Birth(e, kind))
        BY <1>6, <2>2 DEF Calm, Birth
      <4>2. ~\E t \in Task : Returns(t) \/ Raises(t) \/ Aborts(t) \/ DropUnstarted(t)
        BY <1>6, <2>2, EndingKeeps
      <4>3. ~\E f \in Frame : Closing(f) \/ CollectResources(f) \/ ReleaseResource(f) \/ ClearFrame(f)
        BY <1>6, <2>2 DEF Closing, CollectResources, ReleaseResource, ClearFrame, taskVars
      <4> QED
        BY <4>1, <4>2, <4>3, StepHasShape DEF Shapes, CloseStep
    <3>2. PICK d \in DefsOf(f) : u = inflight[d] /\ u # NoTask /\ Live(u)
      BY <1>6, <2>2, <3>1 DEF CancelInflight
    <3>3. u \in Task /\ DefOf(u) = d /\ OwnerOf[d] = f /\ phase[f] = "closing"
      BY <3>1, <3>2 DEF FiledByDefinition, DefsOf, CancelInflight
    <3> QED
      BY <3>2, <3>3 DEF Live, LiveStates, FrameOf, IsOpen
  <2> QED
    BY <2>1, <2>2
<1>7. ASSUME NEW u \in Task, st'[u] = "cancelled", Interruptible = {}
      PROVE  st[u] # "unborn" /\ HasCause(u)
  <2>1. CASE st[u] = "cancelled"
    BY <1>7, <2>1 DEF CancelsFromClose, CancellationHasCause
  <2>2. CASE st[u] # "cancelled"
    <3>1. Aborts(u) \/ DropUnstarted(u)
      <4>1. ~(Calm \/ \E e \in Def, kind \in Kind : Birth(e, kind))
        BY <1>7, <2>2 DEF Calm, Birth, SameStanding, LiveStates
      <4>2. ~\E f \in Frame : Closing(f) \/ CloseStep(f)
        BY <1>7, <2>2 DEF Closing, CloseStep, CancelInflight, CollectResources, ReleaseResource,
                ClearFrame, taskVars
      <4>3. ASSUME NEW t \in Task, Returns(t) \/ Raises(t) PROVE FALSE
        BY <1>7, <2>2, <4>3 DEF Returns, Raises, Ends, Settle
      <4>4. ASSUME NEW t \in Task, Aborts(t) \/ DropUnstarted(t) PROVE t = u
        BY <1>7, <2>2, <4>4, EndingKeeps
      <4> QED
        BY <4>1, <4>2, <4>3, <4>4, StepHasShape DEF Shapes
    <3>2. st[u] # "unborn" /\ (u \in cancelReq \/ (st[u] = "waiting" /\ st[on[u]] = "cancelled"))
      BY <1>7, <3>1 DEF Aborts, DropUnstarted, Ends, Live, LiveStates
    <3>3. CASE u \in cancelReq
      BY <1>4, <3>2, <3>3 DEF CancelsFromClose
    <3>4. CASE st[u] = "waiting" /\ st[on[u]] = "cancelled"
      <4>1. PICK i \in DOMAIN Deps[DefOf(u)] : on[u] \in 1 .. spawned /\ Deps[DefOf(u)][i] = DefOf(on[u])
        BY <3>4 DEF WaitsNamed
      <4>2. on[u] \in Task
        BY <4>1
      <4>3. PICK g \in Lineage[FrameOf(on[u])] : ~IsOpen(g)
        BY <1>7, <3>4, <4>2 DEF CancelsFromClose, CancellationHasCause
      <4>4. FrameOf(on[u]) \in Lineage[FrameOf(u)]
        BY <1>1, <3>2, <4>1, VisibilityAssumption DEF FrameOf
      <4>5. g \in Lineage[FrameOf(u)]
        BY <1>1, <3>2, <4>3, <4>4, VisibilityAssumption
      <4> QED
        BY <3>2, <4>3, <4>5
    <3> QED
      BY <3>2, <3>3, <3>4
  <2> QED
    BY <2>1, <2>2
<1>8. \A u \in cancelReq' : st'[u] # "unborn" /\ ~IsOpen(FrameOf(u))'
  BY <1>4, <1>5, <1>6
<1>9. CancellationHasCause'
  <2> SUFFICES ASSUME NEW u \in Task, st'[u] = "cancelled", Interruptible = {}
               PROVE  HasCause(u)'
    BY DEF CancellationHasCause
  <2> QED
    BY <1>3, <1>7
<1> QED
  BY <1>8, <1>9 DEF CancelsFromClose

\* Publishing brings into the Frame's care the object that is returned, and
\* keeps the one that is replaced (commit_result, commit_failure).
LEMMA PublishingHolds ==
  ASSUME Inv, NEW t \in Task, Returns(t) \/ Raises(t), NEW f \in Frame
  PROVE  \/ Held(f)' = Held(f) /\ Committed(f)' = Committed(f)
            /\ (OwnerOf[DefOf(t)] # f \/ Raises(t))
         \/ /\ OwnerOf[DefOf(t)] = f
            /\ \E v \in {t} \cup reads[t] :
                 Held(f)' = Held(f) \cup {v} /\ Committed(f)' = Committed(f) \cup {v}
<1> FiledByDefinition
  BY DEF Inv
<1> /\ TaskLimit \in Nat /\ OwnerOf \in [Def -> Frame]
    /\ st \in [Task -> {"unborn"} \cup LiveStates \cup EndStates]
    /\ job \in [Task -> Job \cup {NoJob}]
    /\ val \in [Task -> TaskOrNone]
    /\ results \in [Def -> TaskOrNone]
    /\ retired \in [Frame -> SUBSET TaskOrNone]
  BY ConstantsAssumption DEF Inv, TypeOK
<1> DEFINE HeldNow(x) == \/ x \in retired[f]
                          \/ \E d \in DefsOf(f) : results[d] # NoTask /\ x = val[results[d]]
           HeldNext(x) == \/ x \in retired'[f]
                          \/ \E d \in DefsOf(f) : results'[d] # NoTask /\ x = val'[results'[d]]
<1>a. \A x : x \in Held(f) <=> HeldNow(x)
  BY DEF Held, Cached
<1>b. \A x : x \in Held(f)' <=> HeldNext(x)
  BY DEF Held, Cached, DefsOf
<1> HIDE DEF HeldNow, HeldNext
<1>1. /\ DefOf(t) \in Def /\ Live(t) /\ st[t] # "returned"
      /\ \A u \in Task : u # t => st'[u] = st[u]
      /\ UNCHANGED <<spawned, job, closeVars>>
  BY EndingKeeps DEF Live, LiveStates
<1>2. \A d \in Def : Cached(d) => results[d] \in Task /\ results[d] # t
  BY <1>1 DEF FiledByDefinition, Cached
<1>3. CASE OwnerOf[DefOf(t)] # f
  <2>1. Committed(f)' = Committed(f)
    <3>1. \A u \in Task : u # t => val'[u] = val[u]
      BY DEF Returns, Raises, CommitResult
    <3> QED
      BY <1>1, <1>3, <3>1 DEF Committed, FrameOf, DefOf
  <2>2. \A d \in DefsOf(f) : results'[d] = results[d]
    BY <1>3 DEF Returns, Raises, CommitResult, CommitFailure, DefsOf
  <2>3. \A d \in DefsOf(f) : Cached(d) => val'[results[d]] = val[results[d]]
    BY <1>2 DEF Returns, Raises, CommitResult, DefsOf
  <2>4. retired'[f] = retired[f]
    BY <1>1, <1>3 DEF Returns, Raises, CommitResult, CommitFailure
  <2>5. \A x : HeldNext(x) <=> HeldNow(x)
    BY <2>2, <2>3, <2>4 DEF HeldNow, HeldNext, Cached
  <2> QED
    BY <1>a, <1>b, <1>3, <2>1, <2>5
<1>4. CASE OwnerOf[DefOf(t)] = f /\ Raises(t)
  <2>1. Committed(f)' = Committed(f)
    <3>1. \A u \in Task : st'[u] = "returned" <=> st[u] = "returned"
      BY <1>1, <1>4 DEF Raises, Ends, Settle
    <3>2. val' = val
      BY <1>4 DEF Raises
    <3> QED
      BY <1>1, <3>1, <3>2 DEF Committed, FrameOf, DefOf
  <2>2. \A d \in Def : results'[d] = IF d = DefOf(t) THEN NoTask ELSE results[d]
    BY <1>1, <1>4 DEF Raises, CommitFailure
  <2>3. retired'[f] = IF Cached(DefOf(t)) THEN retired[f] \cup {val[results[DefOf(t)]]}
                                          ELSE retired[f]
    BY <1>4 DEF Raises, CommitFailure, Cached
  <2>4. val' = val /\ DefOf(t) \in DefsOf(f)
    BY <1>1, <1>4 DEF Raises, DefsOf
  <2>5. \A x : HeldNext(x) <=> HeldNow(x)
    BY <2>2, <2>3, <2>4 DEF HeldNow, HeldNext, Cached, DefsOf
  <2> QED
    BY <1>a, <1>b, <1>4, <2>1, <2>5
<1>5. CASE OwnerOf[DefOf(t)] = f /\ Returns(t)
  <2>1. PICK v \in {t} \cup reads[t] : CommitResult(t, v)
    BY <1>5 DEF Returns
  <2>2. Committed(f)' = Committed(f) \cup {v}
    <3>1. /\ st'[t] = "returned" /\ val'[t] = v
          /\ \A u \in Task : u # t => val'[u] = val[u]
      BY <1>5, <2>1 DEF Returns, Ends, Settle, CommitResult
    <3>2. FrameOf(t) = f /\ \A u \in Task : FrameOf(u)' = FrameOf(u)
      BY <1>1, <1>5 DEF FrameOf, DefOf
    <3> QED
      BY ZenonT(40), <1>1, <3>1, <3>2 DEF Committed
  <2>3. Held(f)' = Held(f) \cup {v}
    <3>1. \A d \in Def : results'[d] = IF d = DefOf(t) THEN t ELSE results[d]
      BY <1>1, <2>1 DEF CommitResult
    <3>2. retired'[f] = IF Cached(DefOf(t)) /\ val[results[DefOf(t)]] # v
                          THEN retired[f] \cup {val[results[DefOf(t)]]} ELSE retired[f]
      BY <1>5, <2>1 DEF CommitResult, Cached
    <3>3. val'[t] = v /\ DefOf(t) \in DefsOf(f) /\ t # NoTask
          /\ \A d \in Def : Cached(d) => val'[results[d]] = val[results[d]]
      BY <1>1, <1>2, <1>5, <2>1 DEF CommitResult, DefsOf
    <3>4. \A x : HeldNext(x) <=> HeldNow(x) \/ x = v
      BY ZenonT(40), <3>1, <3>2, <3>3 DEF HeldNow, HeldNext, Cached, DefsOf
    <3> QED
      BY <1>a, <1>b, <3>4
  <2> QED
    BY <1>5, <2>2, <2>3
<1> QED
  BY <1>3, <1>4, <1>5

\* A replaced snapshot's object is retired, so the cache keeps every object a
\* Frame ever published until the close task takes them all.
LEMMA ObjectsStep ==
  ASSUME Inv, [Next]_vars, TypeOK' PROVE ObjectsTracked'
<1> TasksBorn /\ FiledByDefinition /\ ClosePhases /\ ObjectsTracked
  BY DEF Inv
<1> /\ TaskLimit \in Nat /\ OwnerOf \in [Def -> Frame]
    /\ st \in [Task -> {"unborn"} \cup LiveStates \cup EndStates]
    /\ job \in [Task -> Job \cup {NoJob}]
    /\ val \in [Task -> TaskOrNone]
    /\ results \in [Def -> TaskOrNone]
    /\ retired \in [Frame -> SUBSET TaskOrNone]
    /\ toRelease \in [Frame -> SUBSET TaskOrNone]
    /\ released \in [Frame -> SUBSET TaskOrNone]
    /\ phase \in [Frame -> {"open", "closing", "gathering", "releasing", "closed"}]
  BY ConstantsAssumption DEF Inv, TypeOK
<1> DEFINE Tracked(f) ==
      /\ phase[f] \in {"open", "closing", "gathering"} =>
           Held(f) = Committed(f) /\ toRelease[f] = {} /\ released[f] = {}
      /\ toRelease[f] \cap released[f] = {}
      /\ DefsOf(f) \cap aborted = {} =>
           /\ phase[f] = "releasing" => /\ Held(f) = Committed(f)
                                       /\ toRelease[f] \cup released[f] = Committed(f)
           /\ phase[f] = "closed" => released[f] = Committed(f)
<1> SUFFICES ASSUME NEW f \in Frame PROVE Tracked(f)'
  BY DEF ObjectsTracked
<1>0. Tracked(f)
  BY DEF ObjectsTracked
<1>1. ASSUME UNCHANGED <<toRelease, released>>, aborted \subseteq aborted',
             \/ Held(f)' = Held(f) /\ Committed(f)' = Committed(f)
             \/ phase[f] \in {"open", "closing", "gathering"} /\ Held(f)' = Committed(f)'
             \/ phase[f] \in {"releasing", "closed"} /\ DefsOf(f) \cap aborted # {},
             \/ phase'[f] = phase[f]
             \/ phase[f] \in {"open", "closing"} /\ phase'[f] \in {"open", "closing", "gathering"}
      PROVE  Tracked(f)'
  <2>1. DefsOf(f)' = DefsOf(f)
    BY DEF DefsOf
  <2> QED
    BY <1>0, <1>1, <2>1
<1>2. ASSUME \A u \in Task : st'[u] = "returned" <=> st[u] = "returned",
             \A u \in Task : st[u] = "returned" => job'[u] = job[u],
             val' = val
      PROVE  Committed(f)' = Committed(f)
  BY <1>2 DEF Committed, FrameOf, DefOf
<1>3. ASSUME UNCHANGED <<results, retired, val>>
      PROVE  Held(f)' = Held(f)
  BY <1>3 DEF Held, Cached, DefsOf
<1> DEFINE HeldNow(x) == \/ x \in retired[f]
                          \/ \E d \in DefsOf(f) : results[d] # NoTask /\ x = val[results[d]]
           HeldNext(x) == \/ x \in retired'[f]
                          \/ \E d \in DefsOf(f) : results'[d] # NoTask /\ x = val'[results'[d]]
<1>a. \A x : x \in Held(f) <=> HeldNow(x)
  BY DEF Held, Cached
<1>b. \A x : x \in Held(f)' <=> HeldNext(x)
  BY DEF Held, Cached, DefsOf
<1> HIDE DEF HeldNow, HeldNext
<1>4. CASE Calm
  <2>1. Committed(f)' = Committed(f)
    BY <1>2, <1>4, StandingKept DEF Calm, EndStates
  <2> QED
    BY <1>1, <1>3, <1>4, <2>1 DEF Calm, cacheVars, closeVars
<1>5. ASSUME NEW e \in Def, NEW kind \in Kind, Birth(e, kind) PROVE Tracked(f)'
  <2>1. PICK new \in Task : new = spawned + 1
    BY <1>5 DEF Birth
  <2>2. /\ st[new] = "unborn" /\ st'[new] = "queued"
        /\ \A u \in Task : u # new => SameStanding(u) /\ job'[u] = job[u]
    BY <1>5, <2>1 DEF Birth
  <2>3. \A u \in Task : st'[u] = "returned" <=> st[u] = "returned"
    BY <2>2 DEF SameStanding, LiveStates
  <2>4. Committed(f)' = Committed(f)
    BY <1>2, <1>5, <2>2, <2>3 DEF Birth
  <2> QED
    BY <1>1, <1>3, <1>5, <2>4 DEF Birth, closeVars
<1>6. ASSUME NEW t \in Task, Returns(t) \/ Raises(t) PROVE Tracked(f)'
  <2>1. /\ DefOf(t) \in Def /\ Live(t) /\ UNCHANGED closeVars
        /\ aborted' = aborted
    BY <1>6, EndingKeeps DEF Returns, Raises
  <2>2. CASE OwnerOf[DefOf(t)] # f \/ phase[f] \in {"open", "closing", "gathering"}
    <3>1. \/ Held(f)' = Held(f) /\ Committed(f)' = Committed(f)
          \/ OwnerOf[DefOf(t)] = f /\ (Held(f) = Committed(f) => Held(f)' = Committed(f)')
      BY <1>6, PublishingHolds
    <3> QED
      BY <1>0, <1>1, <2>1, <2>2, <3>1 DEF closeVars
  <2>3. CASE OwnerOf[DefOf(t)] = f /\ phase[f] \in {"releasing", "closed"}
    <3>1. DefOf(t) \in aborted /\ DefOf(t) \in DefsOf(f)
      BY <2>1, <2>3 DEF ClosePhases, DefsOf
    <3> QED
      BY <1>1, <2>1, <2>3, <3>1 DEF closeVars
  <2> QED
    BY <2>2, <2>3
<1>7. ASSUME NEW t \in Task, Aborts(t) \/ DropUnstarted(t) PROVE Tracked(f)'
  <2>1. /\ UNCHANGED <<job, closeVars>> /\ aborted \subseteq aborted'
        /\ \A u \in Task : st'[u] = "returned" <=> st[u] = "returned"
    BY <1>7, EndingKeeps DEF Aborts, DropUnstarted, Ends, Settle, Live, LiveStates
  <2>2. UNCHANGED <<results, retired, val>>
    BY <1>7 DEF Aborts, DropUnstarted, cacheVars
  <2> QED
    BY <1>1, <1>2, <1>3, <2>1, <2>2 DEF closeVars
<1>8. ASSUME NEW g \in Frame, Closing(g) \/ CloseStep(g)
      PROVE Committed(f)' = Committed(f) /\ aborted' = aborted /\ DefsOf(f)' = DefsOf(f)
  <2>1. UNCHANGED <<st, job, val, aborted>>
    BY <1>8 DEF Closing, CloseStep, CancelInflight, CollectResources, ReleaseResource,
                ClearFrame, taskVars, histVars
  <2> QED
    BY <1>2, <2>1 DEF DefsOf
<1>9. ASSUME NEW g \in Frame, Closing(g) \/ CancelInflight(g) PROVE Tracked(f)'
  <2>1. Held(f)' = Held(f)
    BY <1>3, <1>9 DEF Closing, CancelInflight, taskVars, cacheVars
  <2> QED
    BY <1>1, <1>8, <1>9, <2>1 DEF CloseStep, Closing, CancelInflight, IsOpen
<1>10. ASSUME NEW g \in Frame, CollectResources(g) PROVE Tracked(f)'
  <2>1. Held(f)' = Held(f)
    BY <1>3, <1>10 DEF CollectResources, taskVars, cacheVars
  <2> QED
    BY <1>0, <1>8, <1>10, <2>1 DEF CloseStep, CollectResources
<1>11. ASSUME NEW g \in Frame, ReleaseResource(g) PROVE Tracked(f)'
  <2>1. Held(f)' = Held(f) /\ UNCHANGED phase
    BY <1>3, <1>11 DEF ReleaseResource, taskVars, cacheVars
  <2>2. \/ toRelease'[f] = toRelease[f] /\ released'[f] = released[f]
        \/ /\ phase[f] = "releasing"
           /\ toRelease'[f] \cup released'[f] = toRelease[f] \cup released[f]
           /\ toRelease'[f] \cap released'[f] = toRelease[f] \cap released[f]
    <3>1. PICK v \in toRelease[g] : /\ toRelease' = [toRelease EXCEPT ![g] = @ \ {v}]
                                    /\ released' = [released EXCEPT ![g] = @ \cup {v}]
      BY <1>11 DEF ReleaseResource
    <3>2. CASE f # g
      BY <3>1, <3>2
    <3>3. CASE f = g
      <4>1. /\ v \in toRelease[f] /\ v \notin released[f] /\ phase[f] = "releasing"
            /\ toRelease'[f] = toRelease[f] \ {v} /\ released'[f] = released[f] \cup {v}
        BY <1>0, <1>11, <3>1, <3>3 DEF ReleaseResource
      <4> QED
        BY <4>1
    <3> QED
      BY <3>2, <3>3
  <2> QED
    BY <1>0, <1>8, <1>11, <2>1, <2>2 DEF CloseStep
<1>12. ASSUME NEW g \in Frame, ClearFrame(g) PROVE Tracked(f)'
  <2>1. CASE f = g
    BY <1>0, <1>8, <1>12, <2>1 DEF CloseStep, ClearFrame
  <2>2. CASE f # g
    <3>1. /\ UNCHANGED <<val, toRelease, released>>
          /\ phase'[f] = phase[f] /\ retired'[f] = retired[f]
          /\ \A d \in DefsOf(f) : results'[d] = results[d]
      BY <1>12, <2>2 DEF ClearFrame, taskVars, DefsOf
    <3>2. Held(f)' = Held(f)
      <4>1. \A x : HeldNext(x) <=> HeldNow(x)
        BY <3>1 DEF HeldNow, HeldNext
      <4> QED
        BY <1>a, <1>b, <4>1
    <3> QED
      BY <1>0, <1>8, <1>12, <3>1, <3>2 DEF CloseStep
  <2> QED
    BY <2>1, <2>2
<1> QED
  BY <1>4, <1>5, <1>6, <1>7, <1>9, <1>10, <1>11, <1>12, StepHasShape DEF Shapes, CloseStep

\* A body starts to wait only by a read, a caller only by a request or by
\* turning to the refresh.
LEMMA NewWaits ==
  ASSUME Inv, [Next]_vars
  PROVE  /\ \A u \in Task : st'[u] = "waiting" =>
              \/ st[u] = "waiting" /\ on'[u] = on[u]
              \/ ReadShared(u) \/ ReadSpawning(u)
         /\ \A c \in Caller : call'[c].at \in {"owner", "initial"} =>
              \/ call'[c] = call[c]
              \/ AfterInitial(c)
              \/ \E q \in Script[c] : \/ GetShared(c, q) \/ GetSpawning(c, q) \/ JoinRefresh(c, q)
                                      \/ AwaitInitial(c, q) \/ RefreshAtOnce(c, q)
<1> BodyTypes /\ CallTypes /\ spawned \in TaskOrNone
  BY TypeGroups DEF Inv, TypeOK
<1> USE DEF BodyTypes
<1>1. ASSUME NEW t \in Task, Progress(t) \/ HostStep(t)
      PROVE  /\ \A u \in Task : st'[u] = "waiting" =>
                  \/ st[u] = "waiting" /\ on'[u] = on[u]
                  \/ ReadShared(u) \/ ReadSpawning(u)
             /\ call' = call
  <2>1. CASE ReadShared(t)
    BY <2>1 DEF ReadShared, callVars
  <2>2. CASE ReadSpawning(t)
    BY <2>2 DEF ReadSpawning, callVars
  <2>3. CASE Start(t) \/ DropUnstarted(t) \/ ReadCached(t) \/ HostSwallowsCancel(t) \/ WakeWithValue(t)
    BY <2>3 DEF Start, DropUnstarted, ReadCached, HostSwallowsCancel, WakeWithValue, callVars
  <2>4. CASE \/ ReadFailing(t) \/ WakeWithFailure(t) \/ WakeCancelled(t) \/ CancelDelivered(t)
             \/ HostRaises(t) \/ HostCancels(t) \/ Finish(t)
    <3>1. call' = call /\ \E to \in {"running"} \cup EndStates :
                            /\ st' = [st EXCEPT ![t] = to]
                            /\ on' = [on EXCEPT ![t] = NoTask]
      BY <2>4 DEF ReadFailing, WakeWithFailure, ReadRaises, WakeCancelled, CancelDelivered,
                  HostRaises, HostCancels, EndCancelled, Finish, Settle, callVars, EndStates
    <3> QED
      BY <3>1 DEF EndStates
  <2> QED
    BY <1>1, <2>1, <2>2, <2>3, <2>4 DEF Progress, HostStep
<1>2. ASSUME NEW c \in Caller, Ask(c) \/ Resume(c) \/ CallerCancelled(c)
      PROVE  \A u \in Task : st'[u] = "waiting" => st[u] = "waiting" /\ on'[u] = on[u]
  <2>1. on' = on /\ (st' = st \/ st' = [st EXCEPT ![spawned + 1] = "queued"])
    BY <1>2 DEF Ask, Resume, RejectClosed, GetSnapshot, GetShared, GetSpawning, JoinRefresh,
         AwaitInitial, RefreshAtOnce, SpawnRefresh, AskClose, AfterInitial, OwnerAnswers,
         CloseAnswers, CallerCancelled, taskVars
  <2> QED
    BY <2>1
<1>3. ASSUME NEW c \in Caller, Ask(c) \/ Resume(c) \/ CallerCancelled(c),
             NEW b \in Caller, call'[b].at \in {"owner", "initial"}
      PROVE  \/ call'[b] = call[b]
             \/ AfterInitial(b)
             \/ \E q \in Script[b] : \/ GetShared(b, q) \/ GetSpawning(b, q) \/ JoinRefresh(b, q)
                                     \/ AwaitInitial(b, q) \/ RefreshAtOnce(b, q)
  <2> USE DEF CallTypes
  <2>1. ASSUME NEW how, NEW of, Conclude(c, how, of) PROVE call'[b] = call[b]
    BY <1>3, <2>1 DEF Conclude
  <2>2. ASSUME NEW q, NEW how, NEW of, AnswerNow(c, q, how, of) PROVE call'[b] = call[b]
    BY <1>3, <2>2 DEF AnswerNow
  <2>3. ASSUME NEW q, NEW at, NEW t, Await(c, at, q, t) PROVE call'[b] = call[b] \/ b = c
    BY <2>3 DEF Await
  <2>4. ASSUME NEW q, AskClose(c, q) PROVE call'[b] = call[b]
    BY <1>3, <2>4 DEF AskClose
  <2>5. CASE AfterInitial(c)
    BY <2>1, <2>5 DEF AfterInitial
  <2>6. CASE OwnerAnswers(c) \/ CloseAnswers(c) \/ CallerCancelled(c)
    BY <2>1, <2>6 DEF OwnerAnswers, CloseAnswers, CallerCancelled
  <2>7. CASE Ask(c)
    <3>1. PICK q \in Script[c] :
            \/ RejectClosed(c, q) \/ GetSnapshot(c, q) \/ GetShared(c, q) \/ GetSpawning(c, q)
            \/ JoinRefresh(c, q) \/ AwaitInitial(c, q) \/ RefreshAtOnce(c, q) \/ AskClose(c, q)
      BY <2>7 DEF Ask
    <3>2. CASE RejectClosed(c, q) \/ GetSnapshot(c, q) \/ AskClose(c, q)
      BY <2>2, <2>4, <3>2 DEF RejectClosed, GetSnapshot
    <3>3. CASE \/ GetShared(c, q) \/ GetSpawning(c, q) \/ JoinRefresh(c, q)
               \/ AwaitInitial(c, q) \/ RefreshAtOnce(c, q)
      <4>1. call'[b] = call[b] \/ b = c
        BY <2>3, <3>3 DEF GetShared, GetSpawning, JoinRefresh, AwaitInitial, RefreshAtOnce
      <4> QED
        BY <3>3, <4>1
    <3> QED
      BY <3>1, <3>2, <3>3
  <2> QED
    BY <1>3, <2>5, <2>6, <2>7 DEF Resume
<1>4. ASSUME NEW f \in Frame, CloseStep(f) \/ Mixin(f) PROVE UNCHANGED <<st, on, call>>
  BY <1>4 DEF CloseStep, CancelInflight, CollectResources, ReleaseResource, ClearFrame, Mixin,
              taskVars, callVars
<1>5. CASE UNCHANGED vars
  BY <1>5 DEF vars, taskVars, callVars
<1> QED
  BY <1>1, <1>2, <1>3, <1>4, <1>5 DEF Next, Finished

\* A wait is entered on a registered task or on the one just created, and a
\* body waits for a definition it reads.
LEMMA WaitsStep ==
  ASSUME Inv, [Next]_vars, TypeOK' PROVE WaitsNamed'
<1> TypeOK /\ TasksBorn /\ WaitsNamed /\ FiledByDefinition
  BY DEF Inv
<1> /\ TaskLimit \in Nat /\ spawned \in TaskOrNone
    /\ st \in [Task -> {"unborn"} \cup LiveStates \cup EndStates]
    /\ on \in [Task -> TaskOrNone]
    /\ job \in [Task -> Job \cup {NoJob}]
    /\ inflight \in [Def -> TaskOrNone] /\ refreshes \in [Def -> TaskOrNone]
  BY ConstantsAssumption DEF TypeOK
<1> DEFINE Named(x, d) == x \in 1 .. spawned /\ job[x].def = d
           NamedNext(x, d) == x \in 1 .. spawned' /\ job'[x].def = d
<1>0. ASSUME NEW x, NEW d, Named(x, d) PROVE NamedNext(x, d)
  BY <1>0, JobsKept
<1>1. ASSUME NEW d \in Def
      PROVE  /\ inflight[d] # NoTask => Named(inflight[d], d)
             /\ refreshes[d] # NoTask => Named(refreshes[d], d)
  BY DEF FiledByDefinition, DefOf
<1>2. ASSUME NEW d \in Def, NEW kind \in Kind, NEW path \in SUBSET Def,
             NEW flight \in Task \cup {spawned + 1}, Spawn(d, kind, path, flight)
      PROVE NamedNext(spawned + 1, d)
  BY <1>2, SpawnIsBirth
<1> HIDE DEF Named, NamedNext
<1>3. ASSUME NEW u \in Task, st'[u] = "waiting"
      PROVE  \E i \in DOMAIN Deps[job'[u].def] : NamedNext(on'[u], Deps[job'[u].def][i])
  <2>1. st[u] # "unborn" /\ job'[u] = job[u]
    <3>1. st[u] # "unborn"
      BY <1>3, NewWaits DEF ReadShared, ReadSpawning, NeedsOwner, Reading
    <3> QED
      BY <3>1, JobsKept
  <2>2. CASE st[u] = "waiting" /\ on'[u] = on[u]
    <3>1. \E i \in DOMAIN Deps[job[u].def] : Named(on[u], Deps[job[u].def][i])
      BY <2>2 DEF WaitsNamed, DefOf, Named
    <3> QED
      BY <1>0, <2>1, <2>2, <3>1
  <2>3. CASE ReadShared(u)
    <3>1. /\ NextDep(u) \in Def /\ inflight[NextDep(u)] # NoTask
          /\ \E i \in DOMAIN Deps[job[u].def] : Deps[job[u].def][i] = NextDep(u)
          /\ on'[u] = inflight[NextDep(u)]
      BY <2>3, NextDepVisible DEF ReadShared, NeedsOwner, DefOf
    <3> QED
      BY <1>0, <1>1, <2>1, <3>1
  <2>4. CASE ReadSpawning(u)
    <3>1. /\ NextDep(u) \in Def /\ job[u].path \in SUBSET Def /\ job[u].flight \in Task
          /\ \E i \in DOMAIN Deps[job[u].def] : Deps[job[u].def][i] = NextDep(u)
          /\ on'[u] = spawned + 1 /\ Spawn(NextDep(u), "initial", job[u].path, job[u].flight)
      BY <2>4, NextDepVisible DEF ReadSpawning, NeedsOwner, DefOf
    <3> QED
      BY <1>2, <2>1, <3>1 DEF Kind
  <2> QED
    BY <1>3, <2>2, <2>3, <2>4, NewWaits
<1>4. ASSUME NEW c \in Caller, call'[c].at \in {"owner", "initial"}
      PROVE  call'[c].ask \in Request /\ NamedNext(call'[c].on, call'[c].ask.def)
  <2>1. CASE call'[c] = call[c]
    <3>1. call[c].ask \in Request /\ Named(call[c].on, call[c].ask.def)
      BY <1>4, <2>1 DEF WaitsNamed, Named, DefOf
    <3> QED
      BY <1>0, <2>1, <3>1
  <2>2. CASE AfterInitial(c)
    <3> DEFINE d == call[c].ask.def
    <3>1. call[c].ask \in Request /\ d \in Def
      BY <2>2 DEF AfterInitial, WaitsNamed, Request
    <3>2. \/ refreshes[d] # NoTask /\ call' = [call EXCEPT ![c].at = "owner", ![c].on = refreshes[d]]
          \/ SpawnRefresh(d) /\ call' = [call EXCEPT ![c].at = "owner", ![c].on = spawned + 1]
      <4>1. ASSUME NEW how, NEW of, Conclude(c, how, of) PROVE call'[c].at = "done"
        BY <4>1 DEF Conclude, TypeOK
      <4> QED
        BY <1>4, <2>2, <4>1 DEF AfterInitial
    <3>4. CASE refreshes[d] # NoTask /\ call' = [call EXCEPT ![c].at = "owner", ![c].on = refreshes[d]]
      <4>1. call'[c].ask = call[c].ask /\ call'[c].on = refreshes[d]
        BY <3>4 DEF TypeOK
      <4> QED
        BY <1>0, <1>1, <3>1, <3>4, <4>1
    <3>5. CASE SpawnRefresh(d) /\ call' = [call EXCEPT ![c].at = "owner", ![c].on = spawned + 1]
      <4>1. call'[c].ask = call[c].ask /\ call'[c].on = spawned + 1
        BY <3>5 DEF TypeOK
      <4> QED
        BY <1>2, <3>1, <3>5, <4>1 DEF SpawnRefresh, Kind
    <3> QED
      BY <3>2, <3>4, <3>5
  <2>3. ASSUME NEW q \in Script[c],
               \/ GetShared(c, q) \/ GetSpawning(c, q) \/ JoinRefresh(c, q)
               \/ AwaitInitial(c, q) \/ RefreshAtOnce(c, q)
        PROVE  call'[c].ask \in Request /\ NamedNext(call'[c].on, call'[c].ask.def)
    <3>1. q \in Request /\ q.def \in Def
      BY <2>3, ConstantsAssumption DEF GetShared, GetSpawning, GetUncached, JoinRefresh,
           AwaitInitial, RefreshAtOnce, Asks, Call, Request
    <3>2. ASSUME NEW at, NEW t, Await(c, at, q, t) PROVE call'[c].ask = q /\ call'[c].on = t
      BY <3>2 DEF Await, TypeOK
    <3>3. CASE GetShared(c, q) \/ AwaitInitial(c, q)
      <4>1. inflight[q.def] # NoTask /\ call'[c].ask = q /\ call'[c].on = inflight[q.def]
        BY <3>2, <3>3 DEF GetShared, AwaitInitial
      <4> QED
        BY <1>0, <1>1, <3>1, <4>1
    <3>4. CASE JoinRefresh(c, q)
      <4>1. refreshes[q.def] # NoTask /\ call'[c].ask = q /\ call'[c].on = refreshes[q.def]
        BY <3>2, <3>4 DEF JoinRefresh
      <4> QED
        BY <1>0, <1>1, <3>1, <4>1
    <3>5. CASE GetSpawning(c, q) \/ RefreshAtOnce(c, q)
      <4>1. /\ \/ Spawn(q.def, "initial", {}, spawned + 1)
               \/ Spawn(q.def, "refresh", {}, spawned + 1)
            /\ call'[c].ask = q /\ call'[c].on = spawned + 1
        BY <3>2, <3>5 DEF GetSpawning, RefreshAtOnce, SpawnRefresh
      <4> QED
        BY <1>2, <3>1, <4>1 DEF Kind
    <3> QED
      BY <2>3, <3>3, <3>4, <3>5
  <2> QED
    BY <1>4, <2>1, <2>2, <2>3, NewWaits
<1> QED
  BY <1>3, <1>4 DEF WaitsNamed, NamedNext, DefOf

----------------------------------------------------------------------------
\* What callers are answered with.

\* A publication is appended to its definition's history and stays there.
LEMMA HistoryKept ==
  ASSUME Inv, [Next]_vars, NEW d \in Def
  PROVE  /\ history[d] \in Seq(Task) /\ history'[d] \in Seq(Task)
         /\ Len(history[d]) <= Len(history'[d])
         /\ \A i \in DOMAIN history[d] : i \in DOMAIN history'[d] /\ history'[d][i] = history[d][i]
         /\ \/ history'[d] = history[d]
            \/ \E t \in Task : /\ Returns(t) \/ Raises(t)
                               /\ DefOf(t) = d
                               /\ history'[d] = Append(history[d], t)
<1>1. history \in [Def -> Seq(Task)]
  BY DEF Inv, TypeOK
<1>2. \/ history'[d] = history[d]
      \/ \E t \in Task : /\ Returns(t) \/ Raises(t)
                         /\ DefOf(t) = d
                         /\ history'[d] = Append(history[d], t)
  <2>1. CASE Calm \/ \E e \in Def, kind \in Kind : Birth(e, kind)
    BY <2>1 DEF Calm, Birth
  <2>2. ASSUME NEW t \in Task, Returns(t) \/ Raises(t)
        PROVE  history'[d] = IF DefOf(t) = d THEN Append(history[d], t) ELSE history[d]
    BY <1>1, <2>2 DEF Returns, Raises, CommitResult, CommitFailure
  <2>3. CASE \E t \in Task : Aborts(t) \/ DropUnstarted(t)
    BY <2>3 DEF Aborts, DropUnstarted, histVars
  <2>4. CASE \E f \in Frame : Closing(f) \/ CloseStep(f)
    BY <2>4 DEF Closing, CloseStep, CancelInflight, CollectResources, ReleaseResource, ClearFrame,
                histVars
  <2> QED
    BY <2>1, <2>2, <2>3, <2>4, StepHasShape DEF Shapes
<1>3. history[d] \in Seq(Task)
  BY <1>1
<1>4. ASSUME NEW s \in Seq(Task), NEW t \in Task
      PROVE  /\ Append(s, t) \in Seq(Task) /\ Len(Append(s, t)) = Len(s) + 1
             /\ \A i \in DOMAIN s : i \in DOMAIN Append(s, t) /\ Append(s, t)[i] = s[i]
  OBVIOUS
<1>5. CASE history'[d] = history[d]
  BY <1>3, <1>5
<1>6. CASE history'[d] # history[d]
  <2>1. PICK t \in Task : history'[d] = Append(history[d], t)
    BY <1>2, <1>6
  <2> QED
    BY <1>2, <1>3, <1>4, <2>1
<1> QED
  BY <1>5, <1>6

\* A task counts as settled from the step that publishes its result.
LEMMA SettlesByPublishing ==
  ASSUME Inv, [Next]_vars, NEW x \in Task
  PROVE  /\ Settled(x) => Settled(x)' /\ st'[x] = st[x]
         /\ Settled(x)' /\ ~Settled(x) => Returns(x) \/ Raises(x)
<1> st \in [Task -> {"unborn"} \cup LiveStates \cup EndStates]
  BY DEF Inv, TypeOK
<1>1. CASE Calm \/ \E e \in Def, kind \in Kind : Birth(e, kind)
  <2>1. SameStanding(x) \/ (st[x] = "unborn" /\ st'[x] = "queued")
    BY <1>1 DEF Calm, Birth
  <2> QED
    BY <2>1 DEF SameStanding, Settled, LiveStates
<1>2. ASSUME NEW t \in Task, Returns(t) \/ Raises(t) \/ Aborts(t) \/ DropUnstarted(t)
      PROVE  /\ Settled(x) => Settled(x)' /\ st'[x] = st[x]
             /\ Settled(x)' /\ ~Settled(x) => Returns(x) \/ Raises(x)
  <2>1. /\ Live(t) /\ \A u \in Task : u # t => st'[u] = st[u]
        /\ Aborts(t) \/ DropUnstarted(t) => st'[t] = "cancelled"
    BY <1>2, EndingKeeps DEF Aborts, DropUnstarted, Ends, Settle
  <2> QED
    BY <1>2, <2>1 DEF Settled, Live, LiveStates
<1>3. CASE \E f \in Frame : Closing(f) \/ CloseStep(f)
  BY <1>3 DEF Closing, CloseStep, CancelInflight, CollectResources, ReleaseResource, ClearFrame,
              taskVars, Settled
<1> QED
  BY <1>1, <1>2, <1>3, StepHasShape DEF Shapes

\* A body's list of what it read grows only by the two steps of a read.
LEMMA ReadsGrow ==
  ASSUME [Next]_vars
  PROVE  reads' = reads \/ \E t \in Task : ReadCached(t) \/ WakeWithValue(t)
<1> USE DEF taskVars
<1>1. ASSUME NEW t \in Task, Progress(t) \/ HostStep(t)
      PROVE  reads' = reads \/ ReadCached(t) \/ WakeWithValue(t)
  BY <1>1 DEF Progress, HostStep, Start, DropUnstarted, ReadFailing, ReadShared, ReadSpawning,
     WakeWithFailure, WakeCancelled, CancelDelivered, Finish, HostSwallowsCancel, HostRaises,
     HostCancels, EndCancelled
<1>2. ASSUME NEW c \in Caller, Ask(c) \/ Resume(c) \/ CallerCancelled(c) PROVE reads' = reads
  BY <1>2 DEF Ask, Resume, RejectClosed, GetSnapshot, GetShared, GetSpawning, JoinRefresh,
     AwaitInitial, RefreshAtOnce, SpawnRefresh, AskClose, AfterInitial, OwnerAnswers,
     CloseAnswers, CallerCancelled
<1>3. ASSUME NEW f \in Frame, CloseStep(f) \/ Mixin(f) PROVE reads' = reads
  BY <1>3 DEF CloseStep, CancelInflight, CollectResources, ReleaseResource, ClearFrame, Mixin
<1>4. CASE UNCHANGED vars
  BY <1>4 DEF vars
<1> QED
  BY <1>1, <1>2, <1>3, <1>4 DEF Next, Finished

\* Only tasks create objects: a body hands on what it made or read.
LEMMA CreatedStep ==
  ASSUME Inv, [Next]_vars PROVE ObjectsCreated'
<1> TypeOK /\ TasksBorn /\ WaitsNamed /\ FiledByDefinition /\ ObjectsCreated
  BY DEF Inv
<1> /\ reads \in [Task -> SUBSET TaskOrNone] /\ val \in [Task -> TaskOrNone]
    /\ st \in [Task -> {"unborn"} \cup LiveStates \cup EndStates]
  BY DEF TypeOK
<1>1. ASSUME NEW t \in Task PROVE reads'[t] \subseteq Task
  <2>1. CASE reads' = reads
    BY <2>1 DEF ObjectsCreated
  <2>2. ASSUME NEW u \in Task, ReadCached(u) PROVE reads'[t] \subseteq Task
    <3>1. val[results[NextDep(u)]] \in Task
      BY SMTT(30), <2>2, NextDepVisible DEF ReadCached, Cached, FiledByDefinition, ObjectsCreated, TypeOK
    <3> QED
      BY <2>2, <3>1 DEF ReadCached, Remember, ObjectsCreated
  <2>3. ASSUME NEW u \in Task, WakeWithValue(u) PROVE reads'[t] \subseteq Task
    <3>1. on[u] \in 1 .. spawned /\ st[on[u]] = "returned"
      BY <2>3 DEF WakeWithValue, Awaited, WaitsNamed
    <3>2. val[on[u]] \in Task
      BY <3>1, ConstantsAssumption DEF ObjectsCreated, TypeOK
    <3> QED
      BY <2>3, <3>2 DEF WakeWithValue, Remember, ObjectsCreated
  <2> QED
    BY <2>1, <2>2, <2>3, ReadsGrow
<1>2. ASSUME NEW t \in Task, st'[t] = "returned" PROVE val'[t] \in Task
  <2>1. CASE st[t] = "returned"
    <3>1. val'[t] = val[t]
      <4>1. CASE \E u \in Task : Returns(u)
        BY <2>1, <4>1 DEF Returns, Ends, Live, LiveStates, CommitResult
      <4>2. CASE ~\E u \in Task : Returns(u)
        BY <4>2, StepHasShape DEF Shapes, Calm, Birth, Raises, Aborts, DropUnstarted, Closing,
           CloseStep, CancelInflight, CollectResources, ReleaseResource, ClearFrame, taskVars
      <4> QED
        BY <4>1, <4>2
    <3> QED
      BY <2>1, <3>1 DEF ObjectsCreated
  <2>2. CASE st[t] # "returned"
    <3>1. Returns(t) \/ Raises(t)
      BY <1>2, <2>2, SettlesByPublishing DEF Settled, EndStates
    <3>2. Returns(t)
      BY <1>2, <3>1 DEF Raises, Ends, Settle
    <3> QED
      BY <3>2 DEF Returns, CommitResult, ObjectsCreated
  <2> QED
    BY <2>1, <2>2
<1> QED
  BY <1>1, <1>2 DEF ObjectsCreated

\* A registered task is removed from the tables by the step that publishes its
\* result.
LEMMA PendingStep ==
  ASSUME Inv, [Next]_vars, TypeOK' PROVE RegistrationsPending'
<1> TasksBorn /\ FiledByDefinition /\ RegistrationsPending
  BY DEF Inv
<1> /\ inflight \in [Def -> TaskOrNone] /\ refreshes \in [Def -> TaskOrNone]
    /\ job \in [Task -> Job \cup {NoJob}]
    /\ st \in [Task -> {"unborn"} \cup LiveStates \cup EndStates]
  BY DEF Inv, TypeOK
<1> DEFINE Awaits(x) == st'[x] \notin {"returned", "raised"}
<1> SUFFICES ASSUME NEW d \in Def
             PROVE  /\ inflight'[d] # NoTask => Awaits(inflight'[d])
                    /\ refreshes'[d] # NoTask => Awaits(refreshes'[d]) /\ job'[refreshes'[d]].kind = "refresh"
  BY DEF RegistrationsPending, Settled
<1>1. \/ inflight'[d] \in {NoTask, inflight[d]} /\ refreshes'[d] \in {NoTask, refreshes[d]}
      \/ \E kind \in Kind : Birth(d, kind)
  <2>1. CASE Calm
    BY <2>1 DEF Calm, cacheVars
  <2>2. ASSUME NEW e \in Def, NEW kind \in Kind, Birth(e, kind), e # d
        PROVE  inflight'[d] = inflight[d] /\ refreshes'[d] = refreshes[d]
    BY <2>2 DEF Birth
  <2>3. ASSUME NEW t \in Task, Returns(t) \/ Raises(t) \/ Aborts(t)
        PROVE  inflight'[d] \in {NoTask, inflight[d]} /\ refreshes'[d] \in {NoTask, refreshes[d]}
    BY <2>3 DEF Returns, Raises, Aborts, Ends, Settle
  <2>4. CASE \E t \in Task : DropUnstarted(t)
    BY <2>4 DEF DropUnstarted, cacheVars
  <2>5. CASE \E f \in Frame : Closing(f) \/ CloseStep(f)
    BY <2>5 DEF Closing, CloseStep, CancelInflight, CollectResources, ReleaseResource, ClearFrame,
                cacheVars
  <2> QED
    BY <2>1, <2>2, <2>3, <2>4, <2>5, StepHasShape DEF Shapes
<1>2. ASSUME NEW x \in Task, DefOf(x) = d, ~Settled(x), Settled(x)'
      PROVE  inflight'[d] = NoTask /\ (job[x].kind = "refresh" => refreshes'[d] = NoTask)
  BY <1>2, SettlesByPublishing DEF Returns, Raises, Ends, Settle
<1>3. ASSUME NEW x \in Task, x <= spawned PROVE job'[x] = job[x] /\ x # spawned + 1
  <2>1. spawned \in Nat /\ x \in 1 .. spawned
    BY <1>3, ConstantsAssumption DEF Inv, TypeOK
  <2> QED
    BY <2>1, JobsKept
<1>4. CASE inflight'[d] \in {NoTask, inflight[d]} /\ refreshes'[d] \in {NoTask, refreshes[d]}
  <2>1. ASSUME inflight'[d] # NoTask PROVE Awaits(inflight'[d])
    <3>1. inflight'[d] = inflight[d] /\ inflight[d] # NoTask /\ inflight[d] \in Task
          /\ DefOf(inflight[d]) = d /\ ~Settled(inflight[d])
      BY <1>4, <2>1 DEF FiledByDefinition, RegistrationsPending
    <3>2. PICK x \in Task : x = inflight[d]
      BY <3>1
    <3>3. Awaits(x)
      BY <1>2, <2>1, <3>1, <3>2 DEF Settled
    <3> QED
      BY <3>1, <3>2, <3>3 DEF Settled
  <2>2. ASSUME refreshes'[d] # NoTask
        PROVE  Awaits(refreshes'[d]) /\ job'[refreshes'[d]].kind = "refresh"
    <3>1. refreshes'[d] = refreshes[d] /\ refreshes[d] # NoTask /\ refreshes[d] \in Task
          /\ DefOf(refreshes[d]) = d /\ ~Settled(refreshes[d]) /\ refreshes[d] <= spawned
          /\ job[refreshes[d]].kind = "refresh"
      BY <1>4, <2>2 DEF FiledByDefinition, RegistrationsPending
    <3>2. PICK x \in Task : x = refreshes[d]
      BY <3>1
    <3>3. Awaits(x) /\ job'[x] = job[x]
      BY <1>2, <1>3, <2>2, <3>1, <3>2 DEF Settled
    <3> QED
      BY <3>1, <3>2, <3>3 DEF Settled
  <2> QED
    BY <2>1, <2>2
<1>5. ASSUME NEW kind \in Kind, Birth(d, kind)
      PROVE  /\ inflight'[d] # NoTask => Awaits(inflight'[d])
             /\ refreshes'[d] # NoTask => Awaits(refreshes'[d]) /\ job'[refreshes'[d]].kind = "refresh"
  <2>1. PICK new \in Task : new = spawned + 1
    BY <1>5 DEF Birth
  <2>2. /\ st'[new] = "queued" /\ job'[new].kind = kind /\ inflight'[d] = new
        /\ refreshes'[d] = IF kind = "refresh" THEN new ELSE refreshes[d]
        /\ \A u \in Task : u # new => SameStanding(u) /\ job'[u] = job[u]
    BY <1>5, <2>1 DEF Birth
  <2>3. CASE kind = "refresh"
    BY <2>2, <2>3 DEF Settled
  <2>4. CASE kind # "refresh" /\ refreshes[d] # NoTask
    <3>1. PICK x \in Task : x = refreshes[d]
      BY <2>4
    <3>2. x # new
      BY <1>3, <2>1, <2>4, <3>1 DEF FiledByDefinition
    <3>3. ~Settled(x) /\ job[x].kind = "refresh"
      BY <2>4, <3>1 DEF RegistrationsPending
    <3>4. Awaits(x) /\ job'[x].kind = "refresh"
      BY <2>2, <3>2, <3>3 DEF SameStanding, Settled, LiveStates
    <3> QED
      BY <2>2, <2>4, <3>1, <3>4 DEF Settled
  <2> QED
    BY <2>2, <2>3, <2>4 DEF Settled
<1> QED
  BY <1>1, <1>4, <1>5

\* commit_result and commit_failure each drop the other kind of snapshot, and
\* nothing but the Frame's close takes the latest publication away.
LEMMA LatestStep ==
  ASSUME Inv, [Next]_vars, TypeOK' PROVE LatestShown'
<1> LatestShown
  BY DEF Inv
<1> /\ results \in [Def -> TaskOrNone] /\ failed \in [Def -> TaskOrNone]
    /\ history \in [Def -> Seq(Task)] /\ OwnerOf \in [Def -> Frame]
    /\ phase \in [Frame -> {"open", "closing", "gathering", "releasing", "closed"}]
  BY ConstantsAssumption DEF Inv, TypeOK
<1> SUFFICES ASSUME NEW d \in Def
             PROVE  /\ ~(results'[d] # NoTask /\ failed'[d] # NoTask)
                    /\ results'[d] # NoTask => Len(history'[d]) > 0 /\ results'[d] = history'[d][Len(history'[d])]
                    /\ failed'[d] # NoTask => Len(history'[d]) > 0 /\ failed'[d] = history'[d][Len(history'[d])]
                    /\ phase'[OwnerOf[d]] # "closed" /\ Len(history'[d]) > 0 =>
                         results'[d] # NoTask \/ failed'[d] # NoTask
  BY DEF LatestShown, Cached, CachedFailure
<1> DEFINE Kept == /\ results'[d] = results[d] /\ failed'[d] = failed[d] /\ history'[d] = history[d]
                   /\ phase'[OwnerOf[d]] # "closed" => phase[OwnerOf[d]] # "closed"
<1>1. CASE Kept
  BY <1>1 DEF LatestShown, Cached, CachedFailure
<1>2. ASSUME NEW t \in Task, history'[d] = Append(history[d], t),
             \/ results'[d] = t /\ failed'[d] = NoTask
             \/ results'[d] = NoTask /\ failed'[d] = t
      PROVE  /\ ~(results'[d] # NoTask /\ failed'[d] # NoTask)
             /\ results'[d] # NoTask => Len(history'[d]) > 0 /\ results'[d] = history'[d][Len(history'[d])]
             /\ failed'[d] # NoTask => Len(history'[d]) > 0 /\ failed'[d] = history'[d][Len(history'[d])]
             /\ phase'[OwnerOf[d]] # "closed" /\ Len(history'[d]) > 0 =>
                  results'[d] # NoTask \/ failed'[d] # NoTask
  <2>1. ASSUME NEW s \in Seq(Task) PROVE Len(Append(s, t)) > 0 /\ Append(s, t)[Len(Append(s, t))] = t
    <3>1. Len(Append(s, t)) = Len(s) + 1 /\ Append(s, t)[Len(s) + 1] = t /\ Len(s) \in Nat
      OBVIOUS
    <3> QED
      BY <3>1
  <2>2. Len(history'[d]) > 0 /\ history'[d][Len(history'[d])] = t /\ t # NoTask
    BY <1>2, <2>1
  <2> QED
    BY <1>2, <2>2
<1>3. CASE Calm \/ \E e \in Def, kind \in Kind : Birth(e, kind)
  <2>1. Kept
    BY <1>3 DEF Calm, Birth, cacheVars, closeVars
  <2> QED
    BY <1>1, <2>1
<1>4. ASSUME NEW t \in Task, Aborts(t) \/ DropUnstarted(t) PROVE Kept
  BY <1>4 DEF Aborts, DropUnstarted, Ends, cacheVars, closeVars, histVars
<1>5. ASSUME NEW t \in Task, Returns(t)
      PROVE  Kept \/ (history'[d] = Append(history[d], t) /\ results'[d] = t /\ failed'[d] = NoTask)
  BY <1>5 DEF Returns, Ends, CommitResult, closeVars
<1>6. ASSUME NEW t \in Task, Raises(t)
      PROVE  Kept \/ (history'[d] = Append(history[d], t) /\ results'[d] = NoTask /\ failed'[d] = t)
  BY <1>6 DEF Raises, Ends, CommitFailure, closeVars
<1>7. ASSUME NEW f \in Frame, Closing(f) \/ CancelInflight(f) \/ CollectResources(f) \/ ReleaseResource(f)
      PROVE  Kept
  <2>1. results'[d] = results[d] /\ failed'[d] = failed[d] /\ history'[d] = history[d]
    BY <1>7 DEF Closing, CancelInflight, CollectResources, ReleaseResource, cacheVars, histVars
  <2>2. phase[OwnerOf[d]] = "closed" => phase'[OwnerOf[d]] = "closed"
    BY <1>7 DEF Closing, CancelInflight, CollectResources, ReleaseResource, IsOpen
  <2> QED
    BY <2>1, <2>2
<1>8. ASSUME NEW f \in Frame, ClearFrame(f)
      PROVE  \/ Kept
             \/ results'[d] = NoTask /\ failed'[d] = NoTask /\ phase'[OwnerOf[d]] = "closed"
  BY <1>8 DEF ClearFrame, histVars
<1> HIDE DEF Kept
<1> QED
  BY <1>1, <1>2, <1>3, <1>4, <1>5, <1>6, <1>7, <1>8, StepHasShape DEF Shapes, CloseStep

\* The shapes of a caller's own steps: a request is refused, answered from a
\* snapshot, made to wait for a task that has still to publish, or asks for a
\* close; a waiting caller turns to the refresh or is answered.
NewCall(q, at, x) ==
  [at |-> at, ask |-> q, on |-> x, since |-> Len(history[q.def]),
   asked |-> Entitlement(q)]

Refuses(c) ==
  \E q \in Request :
    /\ call[c].at = "idle"
    /\ call'[c] = NewCall(q, "done", NoTask)
    /\ answer'[c] = [how |-> "closed", of |-> NoTask]

Snaps(c) ==
  \E q \in Request :
    /\ call[c].at = "idle"
    /\ q.op = "get"
    /\ call'[c] = NewCall(q, "done", NoTask)
    /\ \/ Cached(q.def) /\ answer'[c] = [how |-> "value", of |-> results[q.def]]
       \/ /\ ~Cached(q.def) /\ CachedFailure(q.def)
          /\ answer'[c] = [how |-> "failure", of |-> failed[q.def]]

BeginsWait(c) ==
  \E q \in Request, x \in Task, at \in {"owner", "initial"} :
    /\ call[c].at = "idle"
    /\ IsOpen(OwnerOf[q.def])
    /\ q.op = "get" => at = "owner" /\ ~Cached(q.def) /\ ~CachedFailure(q.def)
    /\ call'[c] = NewCall(q, at, x)
    /\ answer'[c] = answer[c]
    /\ at = "owner" => st'[x] \notin {"returned", "raised"}
    /\ at = "owner" /\ q.op = "recalculate" => job'[x].kind = "refresh"

AsksClose(c) ==
  \E q \in Script[c] :
    /\ call[c].at = "idle"
    /\ q.op = "close"
    /\ call'[c] = [at |-> "close", ask |-> q, on |-> NoTask, since |-> 0, asked |-> 0]
    /\ answer'[c] = answer[c]

TurnsToRefresh(c) ==
  \E x \in Task :
    /\ call[c].at = "initial"
    /\ call'[c] = [call[c] EXCEPT !.at = "owner", !.on = x]
    /\ answer'[c] = answer[c]
    /\ st'[x] \notin {"returned", "raised"}
    /\ job'[x].kind = "refresh"

IsAnswered(c) ==
  /\ call'[c] = [call[c] EXCEPT !.at = "done", !.on = NoTask]
  /\ \/ \E how \in {"value", "failure"} :
          /\ call[c].at = "owner" /\ Settled(call[c].on)
          /\ answer'[c] = [how |-> how, of |-> call[c].on]
     \/ \E how \in {"cancelled", "closed"}, of \in TaskOrNone :
          /\ call[c].at \in {"owner", "initial", "close"}
          /\ how = "closed" => call[c].at # "owner"
          /\ answer'[c] = [how |-> how, of |-> of]

CallerShape(c) ==
  \/ Refuses(c) \/ Snaps(c) \/ BeginsWait(c) \/ AsksClose(c)
  \/ TurnsToRefresh(c) \/ IsAnswered(c)

\* A caller's step changes no snapshot and no other caller; only a close
\* changes the phase of a Frame.
Alone(c) ==
  /\ \A b \in Caller : b # c => call'[b] = call[b] /\ answer'[b] = answer[b]
  /\ UNCHANGED <<val, results, failed, retired, gathered, toRelease, released, history, aborted>>
  /\ \A t \in Task : Settled(t)' <=> Settled(t)
  /\ \/ phase' = phase
     \/ AsksClose(c) /\ \E f \in Frame : IsOpen(f) /\ phase' = [phase EXCEPT ![f] = "closing"]

\* What a request leaves behind: a record for c, and the task it may have made.
LEMMA RequestMade ==
  ASSUME Inv, [Next]_vars, NEW c \in Caller, NEW q \in Script[c],
         NEW x, NEW at, Await(c, at, q, x), Asks(c, q, "get") \/ Asks(c, q, "recalculate")
  PROVE  /\ q \in Request /\ q.def \in Def /\ OwnerOf[q.def] \in Frame
         /\ call[c].at = "idle" /\ call'[c] = NewCall(q, at, x) /\ answer'[c] = answer[c]
         /\ \A b \in Caller : b # c => call'[b] = call[b] /\ answer'[b] = answer[b]
<1>1. q \in Request /\ q.def \in Def /\ OwnerOf[q.def] \in Frame
  BY ConstantsAssumption DEF Asks, Call, Request
<1> QED
  BY <1>1 DEF Await, NewCall, Asks, Inv, TypeOK

\* The task a request creates has not published.
LEMMA SpawnedPending ==
  ASSUME Inv, NEW d \in Def, NEW kind \in Kind, Spawn(d, kind, {}, spawned + 1),
         st' = [st EXCEPT ![spawned + 1] = "queued"]
  PROVE  /\ spawned + 1 \in Task /\ st'[spawned + 1] = "queued"
         /\ job'[spawned + 1].kind = kind
         /\ \A t \in Task : Settled(t)' <=> Settled(t)
<1>1. /\ spawned + 1 \in Task /\ st[spawned + 1] = "unborn"
      /\ job'[spawned + 1].kind = kind
  BY SpawnIsBirth DEF Inv
<1>2. st \in [Task -> {"unborn"} \cup LiveStates \cup EndStates]
  BY DEF Inv, TypeOK
<1> QED
  BY <1>1, <1>2 DEF Settled

LEMMA AskShape ==
  ASSUME Inv, [Next]_vars, NEW c \in Caller, Ask(c)
  PROVE  CallerShape(c) /\ Alone(c)
<1> TypeOK /\ FiledByDefinition /\ RegistrationsPending
  BY DEF Inv
<1> /\ inflight \in [Def -> TaskOrNone] /\ refreshes \in [Def -> TaskOrNone]
    /\ \A d \in Def : inflight[d] # NoTask => inflight[d] \in Task
    /\ \A d \in Def : refreshes[d] # NoTask => refreshes[d] \in Task
  BY DEF TypeOK
<1> USE DEF taskVars, cacheVars, closeVars, histVars
<1>1. ASSUME NEW q \in Script[c], NEW how, NEW of, AnswerNow(c, q, how, of),
             Asks(c, q, "get") \/ Asks(c, q, "recalculate")
      PROVE  /\ q \in Request /\ q.def \in Def
             /\ call[c].at = "idle" /\ call'[c] = NewCall(q, "done", NoTask)
             /\ answer'[c] = [how |-> how, of |-> of]
             /\ \A b \in Caller : b # c => call'[b] = call[b] /\ answer'[b] = answer[b]
  <2>1. q \in Request /\ q.def \in Def
    BY <1>1, ConstantsAssumption DEF Asks, Call, Request
  <2> QED
    BY <1>1, <2>1 DEF AnswerNow, NewCall, Asks, TypeOK
<1>2. ASSUME NEW q \in Script[c], RejectClosed(c, q) PROVE Refuses(c) /\ Alone(c)
  BY <1>1, <1>2 DEF RejectClosed, Refuses, Alone, Settled
<1>3. ASSUME NEW q \in Script[c], GetSnapshot(c, q) PROVE Snaps(c) /\ Alone(c)
  <2>1. Asks(c, q, "get") /\ q.op = "get"
    BY <1>3 DEF GetSnapshot, Asks
  <2>2. Alone(c)
    BY <1>1, <1>3, <2>1 DEF GetSnapshot, Alone, Settled
  <2>3. /\ q \in Request /\ call[c].at = "idle" /\ call'[c] = NewCall(q, "done", NoTask)
        /\ \/ Cached(q.def) /\ answer'[c] = [how |-> "value", of |-> results[q.def]]
           \/ /\ ~Cached(q.def) /\ CachedFailure(q.def)
              /\ answer'[c] = [how |-> "failure", of |-> failed[q.def]]
    BY <1>1, <1>3, <2>1 DEF GetSnapshot
  <2>4. Snaps(c)
    BY <2>1, <2>3 DEF Snaps
  <2> QED
    BY <2>2, <2>4
<1>4. ASSUME NEW q \in Script[c], GetShared(c, q) \/ JoinRefresh(c, q) \/ AwaitInitial(c, q)
      PROVE  BeginsWait(c) /\ Alone(c)
  <2>1. PICK x, at : /\ Await(c, at, q, x)
                     /\ \/ GetShared(c, q) /\ at = "owner" /\ x = inflight[q.def]
                        \/ JoinRefresh(c, q) /\ at = "owner" /\ x = refreshes[q.def]
                        \/ AwaitInitial(c, q) /\ at = "initial" /\ x = inflight[q.def]
    BY <1>4 DEF GetShared, JoinRefresh, AwaitInitial
  <2>2. /\ UNCHANGED <<taskVars, cacheVars, closeVars, histVars>>
        /\ Asks(c, q, "get") \/ Asks(c, q, "recalculate")
        /\ Serves(q)
    BY <1>4 DEF GetShared, GetUncached, JoinRefresh, AwaitInitial
  <2>3. /\ q \in Request /\ q.def \in Def
        /\ call[c].at = "idle" /\ call'[c] = NewCall(q, at, x) /\ answer'[c] = answer[c]
        /\ \A b \in Caller : b # c => call'[b] = call[b] /\ answer'[b] = answer[b]
    BY <2>1, <2>2, RequestMade
  <2>4. Alone(c)
    BY <2>2, <2>3 DEF Alone, Settled
  <2>5. /\ x \in Task /\ at \in {"owner", "initial"} /\ st'[x] \notin {"returned", "raised"}
        /\ q.op = "get" => at = "owner" /\ ~Cached(q.def) /\ ~CachedFailure(q.def)
        /\ at = "owner" /\ q.op = "recalculate" => job'[x].kind = "refresh"
    BY <2>1, <2>2, <2>3 DEF GetShared, GetUncached, JoinRefresh, AwaitInitial, Asks,
                            RegistrationsPending, Settled
  <2> QED
    BY <2>2, <2>3, <2>4, <2>5 DEF BeginsWait, Serves
<1>5. ASSUME NEW q \in Script[c], GetSpawning(c, q) \/ RefreshAtOnce(c, q)
      PROVE  BeginsWait(c) /\ Alone(c)
  <2>1. /\ Await(c, "owner", q, spawned + 1) /\ Serves(q)
        /\ Asks(c, q, "get") \/ Asks(c, q, "recalculate")
        /\ st' = [st EXCEPT ![spawned + 1] = "queued"]
        /\ UNCHANGED <<val, results, failed, retired, closeVars, histVars>>
    BY <1>5 DEF GetSpawning, GetUncached, RefreshAtOnce, SpawnRefresh
  <2>2. /\ q \in Request /\ q.def \in Def
        /\ call[c].at = "idle" /\ call'[c] = NewCall(q, "owner", spawned + 1)
        /\ answer'[c] = answer[c]
        /\ \A b \in Caller : b # c => call'[b] = call[b] /\ answer'[b] = answer[b]
    BY <2>1, RequestMade
  <2>3. PICK kind \in Kind : /\ Spawn(q.def, kind, {}, spawned + 1)
                             /\ q.op = "get" => ~Cached(q.def) /\ ~CachedFailure(q.def)
                             /\ q.op = "recalculate" => kind = "refresh"
    BY <1>5 DEF GetSpawning, GetUncached, RefreshAtOnce, SpawnRefresh, Asks, Kind
  <2>4. /\ spawned + 1 \in Task /\ st'[spawned + 1] = "queued"
        /\ job'[spawned + 1].kind = kind
        /\ \A t \in Task : Settled(t)' <=> Settled(t)
    BY <2>1, <2>2, <2>3, SpawnedPending
  <2>5. Alone(c)
    BY <2>1, <2>2, <2>4 DEF Alone
  <2> QED
    BY <2>1, <2>2, <2>3, <2>4, <2>5 DEF BeginsWait, Serves
<1>6. ASSUME NEW q \in Script[c], AskClose(c, q) PROVE AsksClose(c) /\ Alone(c)
  <2>1. AsksClose(c)
    BY <1>6 DEF AskClose, AsksClose, Asks, TypeOK
  <2>2. q.frame \in Frame
    BY <1>6, ConstantsAssumption DEF AskClose, Asks, Call
  <2> QED
    BY <1>6, <2>1, <2>2 DEF AskClose, Alone, Settled, TypeOK
<1> QED
  BY <1>2, <1>3, <1>4, <1>5, <1>6 DEF Ask, CallerShape

LEMMA ResumeShape ==
  ASSUME Inv, [Next]_vars, NEW c \in Caller, Resume(c) \/ CallerCancelled(c)
  PROVE  CallerShape(c) /\ Alone(c)
<1> TypeOK /\ WaitsNamed /\ RegistrationsPending
  BY DEF Inv
<1> USE DEF taskVars, cacheVars, closeVars, histVars
<1>1. ASSUME NEW how, NEW of, Conclude(c, how, of)
      PROVE  /\ call'[c] = [call[c] EXCEPT !.at = "done", !.on = NoTask]
             /\ answer'[c] = [how |-> how, of |-> of]
             /\ \A b \in Caller : b # c => call'[b] = call[b] /\ answer'[b] = answer[b]
  BY <1>1 DEF Conclude, TypeOK
<1>2. CASE OwnerAnswers(c)
  <2>1. PICK how \in {"value", "failure", "cancelled"} :
           /\ Conclude(c, how, call[c].on)
           /\ how # "cancelled" => Settled(call[c].on)
    BY <1>2 DEF OwnerAnswers, Ended, EndStates, Settled
  <2>2. call[c].on \in TaskOrNone /\ call[c].at = "owner"
    BY <1>2 DEF OwnerAnswers, TypeOK
  <2>3. IsAnswered(c)
    BY ZenonT(40), <1>1, <2>1, <2>2 DEF IsAnswered
  <2> QED
    BY <1>1, <1>2, <2>1, <2>3 DEF OwnerAnswers, Alone, Settled, CallerShape
<1>3. CASE CloseAnswers(c) \/ CallerCancelled(c)
  <2>1. PICK how \in {"cancelled", "closed"} :
          /\ Conclude(c, how, NoTask)
          /\ call[c].at \in {"owner", "initial", "close"}
          /\ how = "closed" => call[c].at # "owner"
    BY <1>3 DEF CloseAnswers, CallerCancelled
  <2>2. /\ call'[c] = [call[c] EXCEPT !.at = "done", !.on = NoTask]
        /\ answer'[c] = [how |-> how, of |-> NoTask]
        /\ NoTask \in TaskOrNone
    BY <1>1, <2>1, ConstantsAssumption
  <2>3. IsAnswered(c)
    BY <2>1, <2>2 DEF IsAnswered
  <2> QED
    BY <1>1, <1>3, <2>1, <2>3 DEF CloseAnswers, CallerCancelled, Alone, Settled, CallerShape
<1>4. CASE AfterInitial(c)
  <2> DEFINE d == call[c].ask.def
  <2>1. d \in Def /\ call[c].at = "initial" /\ refreshes[d] \in TaskOrNone
    BY <1>4 DEF AfterInitial, WaitsNamed, Request, TypeOK
  <2>2. ASSUME NEW x \in Task, call' = [call EXCEPT ![c].at = "owner", ![c].on = x], answer' = answer
        PROVE  /\ call'[c] = [call[c] EXCEPT !.at = "owner", !.on = x]
               /\ \A b \in Caller : b # c => call'[b] = call[b] /\ answer'[b] = answer[b]
    BY <2>2 DEF TypeOK
  <2>3. CASE /\ refreshes[d] # NoTask
             /\ call' = [call EXCEPT ![c].at = "owner", ![c].on = refreshes[d]]
             /\ UNCHANGED <<taskVars, cacheVars, closeVars, inputs, answer, histVars>>
    <3>1. refreshes[d] \in Task /\ ~Settled(refreshes[d]) /\ job[refreshes[d]].kind = "refresh"
      BY <2>1, <2>3 DEF RegistrationsPending
    <3>2. PICK x \in Task : x = refreshes[d]
      BY <3>1
    <3>3. TurnsToRefresh(c) /\ Alone(c)
      BY <2>1, <2>2, <2>3, <3>1, <3>2 DEF TurnsToRefresh, Alone, Settled
    <3> QED
      BY <3>3 DEF CallerShape
  <2>4. CASE /\ Conclude(c, "closed", NoTask)
             /\ UNCHANGED <<taskVars, cacheVars, closeVars, inputs, histVars>>
    <3>1. /\ call'[c] = [call[c] EXCEPT !.at = "done", !.on = NoTask]
          /\ answer'[c] = [how |-> "closed", of |-> NoTask]
          /\ NoTask \in TaskOrNone
      BY <1>1, <2>4, ConstantsAssumption
    <3>2. IsAnswered(c)
      BY <2>1, <3>1 DEF IsAnswered
    <3>3. Alone(c)
      BY <1>1, <2>4 DEF Alone, Settled
    <3> QED
      BY <3>2, <3>3 DEF CallerShape
  <2>5. CASE /\ SpawnRefresh(d)
             /\ call' = [call EXCEPT ![c].at = "owner", ![c].on = spawned + 1]
             /\ answer' = answer
    <3>1. /\ spawned + 1 \in Task /\ st'[spawned + 1] = "queued"
          /\ job'[spawned + 1].kind = "refresh"
          /\ \A t \in Task : Settled(t)' <=> Settled(t)
      BY <2>1, <2>5, SpawnedPending DEF SpawnRefresh, Kind
    <3>2. PICK x \in Task : x = spawned + 1
      BY <3>1
    <3>3. TurnsToRefresh(c)
      BY <2>1, <2>2, <2>5, <3>1, <3>2 DEF TurnsToRefresh
    <3>4. Alone(c)
      BY <2>2, <2>5, <3>1, <3>2 DEF Alone, SpawnRefresh
    <3> QED
      BY <3>3, <3>4 DEF CallerShape
  <2> QED
    BY <1>4, <2>3, <2>4, <2>5 DEF AfterInitial
<1> QED
  BY <1>2, <1>3, <1>4 DEF Resume

\* Only the owner task a caller waits for gives it a value or a failure.
LEMMA AnsweredByOwner ==
  ASSUME NEW c, IsAnswered(c), answer'[c].how \in {"value", "failure"}
  PROVE  /\ call[c].at = "owner" /\ Settled(call[c].on)
         /\ answer'[c].of = call[c].on
<1>1. ASSUME NEW how \in {"cancelled", "closed"}, NEW of,
             answer'[c] = [how |-> how, of |-> of]
      PROVE  FALSE
  BY <1>1
<1>2. PICK how \in {"value", "failure"} :
        /\ call[c].at = "owner" /\ Settled(call[c].on)
        /\ answer'[c] = [how |-> how, of |-> call[c].on]
  BY Zenon, <1>1 DEF IsAnswered
<1> QED
  BY <1>2

\* A step leaves every caller alone, or is one caller's own.
LEMMA StepHasCaller ==
  ASSUME Inv, [Next]_vars
  PROVE  UNCHANGED callVars \/ \E c \in Caller : CallerShape(c) /\ Alone(c)
<1>1. ASSUME NEW t \in Task, Progress(t) \/ HostStep(t) PROVE UNCHANGED callVars
  BY <1>1 DEF Progress, HostStep, Start, DropUnstarted, ReadFailing, ReadCached, ReadShared,
              ReadSpawning, WakeWithValue, WakeWithFailure, WakeCancelled, CancelDelivered,
              Finish, HostSwallowsCancel, HostRaises, HostCancels, EndCancelled
<1>2. ASSUME NEW f \in Frame, CloseStep(f) \/ Mixin(f) PROVE UNCHANGED callVars
  BY <1>2 DEF CloseStep, CancelInflight, CollectResources, ReleaseResource, ClearFrame, Mixin
<1>3. CASE UNCHANGED vars
  BY <1>3 DEF vars
<1> QED
  BY <1>1, <1>2, <1>3, AskShape, ResumeShape DEF Next, Finished

\* The step that publishes a task's result appends it to its own definition.
LEMMA PublishingAppends ==
  ASSUME Inv, [Next]_vars, NEW x \in Task, ~Settled(x), Settled(x)', NEW d \in Def, DefOf(x) = d,
         NEW n \in Nat, n <= Len(history[d])
  PROVE  PublishedAfter(x, d, n)'
<1>1. history[d] \in Seq(Task) /\ history'[d] = Append(history[d], x)
  <2>1. Returns(x) \/ Raises(x)
    BY SettlesByPublishing
  <2>2. history \in [Def -> Seq(Task)]
    BY DEF Inv, TypeOK
  <2> QED
    BY <2>1, <2>2 DEF Returns, Raises, CommitResult, CommitFailure
<1>2. ASSUME NEW s \in Seq(Task), n <= Len(s)
      PROVE  /\ Len(s) + 1 \in DOMAIN Append(s, x) /\ Append(s, x)[Len(s) + 1] = x
             /\ Len(s) + 1 > n
  BY <1>2
<1> QED
  BY <1>1, <1>2 DEF PublishedAfter

\* A publication once made stays where it is.
LEMMA PublicationKept ==
  ASSUME Inv, [Next]_vars, NEW d \in Def, NEW t, NEW n, PublishedAfter(t, d, n)
  PROVE  PublishedAfter(t, d, n)'
BY HistoryKept DEF PublishedAfter

\* A waiting caller's task is a refresh if it asked for one, and if it settles
\* it does so by publishing, which is later than the request.
LEMMA CallsStep ==
  ASSUME Inv, [Next]_vars, TypeOK' PROVE CallsTracked'
<1> TypeOK /\ TasksBorn /\ WaitsNamed /\ CallsTracked
  BY DEF Inv
<1> SUFFICES ASSUME NEW c \in Caller PROVE CallTracked(c)'
  BY DEF CallsTracked
<1>0. /\ CallTracked(c)
      /\ call[c] \in [at : {"idle", "owner", "initial", "close", "done"},
                      ask : Call \cup {NoCall}, on : TaskOrNone, since : Nat, asked : Nat]
  BY DEF CallsTracked, TypeOK
<1>1. CASE call'[c] = call[c] /\ answer'[c] = answer[c]
  <2>1. ASSUME call[c].ask.op \in {"get", "recalculate"}
        PROVE  /\ call[c].ask \in Request /\ call[c].ask.def \in Def
               /\ call[c].since <= Len(history'[call[c].ask.def])
    <3>1. call[c].ask \in Request /\ call[c].ask.def \in Def
      BY <1>0, <2>1 DEF CallTracked, Request
    <3>2. /\ history[call[c].ask.def] \in Seq(Task) /\ history'[call[c].ask.def] \in Seq(Task)
          /\ Len(history[call[c].ask.def]) <= Len(history'[call[c].ask.def])
      BY <3>1, HistoryKept
    <3>3. /\ Len(history[call[c].ask.def]) \in Nat /\ Len(history'[call[c].ask.def]) \in Nat
          /\ call[c].since \in Nat /\ call[c].since <= Len(history[call[c].ask.def])
      BY <1>0, <2>1, <3>2 DEF CallTracked
    <3> QED
      BY <3>1, <3>2, <3>3
  <2>2. ASSUME call[c].at = "owner"
        PROVE  /\ call[c].ask.op = "recalculate" => job'[call[c].on].kind = "refresh"
               /\ st'[call[c].on] \in {"returned", "raised"} =>
                    PublishedAfter(call[c].on, call[c].ask.def, call[c].since)'
    <3>1. /\ call[c].ask \in Request /\ call[c].on \in 1 .. spawned
          /\ DefOf(call[c].on) = call[c].ask.def
      BY <2>2 DEF WaitsNamed
    <3>2. PICK x \in Task : x = call[c].on /\ job'[x] = job[x]
      BY <3>1, JobsKept
    <3>3. PICK d \in Def : d = call[c].ask.def /\ DefOf(x) = d
      BY <3>1, <3>2 DEF Request
    <3>4. PICK n \in Nat : n = call[c].since /\ n <= Len(history[d])
      BY <1>0, <3>1, <3>3 DEF CallTracked, Request
    <3>5. ASSUME Settled(x)' PROVE PublishedAfter(x, d, n)'
      <4>1. CASE Settled(x)
        BY <1>0, <2>2, <3>2, <3>3, <3>4, <4>1, PublicationKept DEF CallTracked
      <4>2. CASE ~Settled(x)
        BY <3>3, <3>4, <3>5, <4>2, PublishingAppends
      <4> QED
        BY <4>1, <4>2
    <3>6. call[c].ask.op = "recalculate" => job[x].kind = "refresh"
      BY <1>0, <2>2, <3>2 DEF CallTracked
    <3> QED
      BY <1>1, <3>2, <3>3, <3>4, <3>5, <3>6 DEF Settled, PublishedAfter
  <2> QED
    BY <1>0, <1>1, <2>1, <2>2 DEF CallTracked, Settled, PublishedAfter
<1>2. CASE CallerShape(c) /\ Alone(c)
  <2>1. history' = history
    BY <1>2 DEF Alone
  <2>2. ASSUME NEW q \in Request PROVE Len(history[q.def]) \in Nat /\ q.op \in {"get", "recalculate"}
    <3>1. history[q.def] \in Seq(Task)
      BY DEF TypeOK, Request
    <3> QED
      BY <3>1 DEF Request
  <2>3. CASE Refuses(c) \/ Snaps(c)
    <3>1. PICK q \in Request : call'[c] = NewCall(q, "done", NoTask)
      BY <2>3 DEF Refuses, Snaps
    <3>2. /\ call'[c].at = "done" /\ call'[c].ask = q /\ call'[c].since = Len(history[q.def])
      BY <3>1 DEF NewCall
    <3> QED
      BY <2>1, <2>2, <3>2 DEF CallTracked
  <2>4. CASE BeginsWait(c)
    <3>1. PICK q \in Request, x \in Task, at \in {"owner", "initial"} :
            /\ call[c].at = "idle"
            /\ q.op = "get" => at = "owner"
            /\ call'[c] = NewCall(q, at, x)
            /\ answer'[c] = answer[c]
            /\ at = "owner" => st'[x] \notin {"returned", "raised"}
            /\ at = "owner" /\ q.op = "recalculate" => job'[x].kind = "refresh"
      BY <2>4 DEF BeginsWait
    <3>2. answer[c] = Unanswered
      BY <1>0, <3>1 DEF CallTracked
    <3> QED
      BY <2>1, <2>2, <3>1, <3>2 DEF NewCall, CallTracked, Settled
  <2>5. CASE AsksClose(c)
    <3>1. /\ call'[c].at = "close" /\ call'[c].ask.op = "close" /\ answer'[c] = Unanswered
      BY <1>0, <2>5 DEF AsksClose, CallTracked
    <3> QED
      BY <3>1 DEF CallTracked, Unanswered
  <2>6. CASE TurnsToRefresh(c)
    <3>1. PICK x \in Task : /\ call[c].at = "initial"
                            /\ call'[c] = [call[c] EXCEPT !.at = "owner", !.on = x]
                            /\ answer'[c] = answer[c]
                            /\ st'[x] \notin {"returned", "raised"}
                            /\ job'[x].kind = "refresh"
      BY <2>6 DEF TurnsToRefresh
    <3>2. /\ call'[c].at = "owner" /\ call'[c].on = x
          /\ call'[c].ask = call[c].ask /\ call'[c].since = call[c].since
      BY <1>0, <3>1
    <3> QED
      BY <1>0, <2>1, <3>1, <3>2 DEF CallTracked, Settled
  <2>7. CASE IsAnswered(c)
    <3>1. /\ call'[c].at = "done"
          /\ call'[c].ask = call[c].ask /\ call'[c].since = call[c].since
      BY <1>0, <2>7 DEF IsAnswered
    <3>2. answer'[c].how \in {"value", "failure"} => call[c].ask.op \in {"get", "recalculate"}
      <4>1. answer'[c].how \in {"value", "failure"} => call[c].at = "owner"
        BY <2>7, AnsweredByOwner
      <4> QED
        BY <4>1 DEF WaitsNamed, Request
    <3> QED
      BY <1>0, <2>1, <3>1, <3>2 DEF CallTracked
  <2> QED
    BY <1>2, <2>3, <2>4, <2>5, <2>6, <2>7 DEF CallerShape
<1>3. (call'[c] = call[c] /\ answer'[c] = answer[c]) \/ (CallerShape(c) /\ Alone(c))
  BY StepHasCaller DEF Alone, callVars
<1> QED
  BY <1>1, <1>2, <1>3

\* An answer names a publication that is recent enough, and it keeps doing so.
LEMMA AnswersStep ==
  ASSUME Inv, [Next]_vars, TypeOK' PROVE AnswerCurrent'
<1> TypeOK /\ TasksBorn /\ WaitsNamed /\ LatestShown /\ CallsTracked /\ AnswerCurrent
  BY DEF Inv
<1> SUFFICES ASSUME NEW c \in Caller, NEW t \in Task, Answered(c, t)'
             PROVE  IF call'[c].ask.op = "get"
                    THEN \E i \in DOMAIN history'[call'[c].ask.def] :
                           history'[call'[c].ask.def][i] = t /\ i >= call'[c].since
                    ELSE /\ job'[t].kind = "refresh"
                         /\ \E i \in DOMAIN history'[call'[c].ask.def] :
                              history'[call'[c].ask.def][i] = t /\ i > call'[c].since
  BY DEF AnswerCurrent
<1>0. /\ CallTracked(c) /\ CallTracked(c)'
      /\ call[c] \in [at : {"idle", "owner", "initial", "close", "done"},
                      ask : Call \cup {NoCall}, on : TaskOrNone, since : Nat, asked : Nat]
      /\ answer[c] \in [how : {"none", "value", "failure", "cancelled", "closed"}, of : TaskOrNone]
  BY CallsStep DEF CallsTracked, TypeOK
<1>1. CASE call'[c] = call[c] /\ answer'[c] = answer[c]
  <2>1. Answered(c, t)
    BY <1>1 DEF Answered
  <2>2. PICK d \in Def : d = call[c].ask.def
    BY <1>0, <2>1 DEF CallTracked, Answered, Request
  <2>3. CASE call[c].ask.op = "get"
    <3>1. PICK i \in DOMAIN history[d] : history[d][i] = t /\ i >= call[c].since
      BY <2>1, <2>2, <2>3 DEF AnswerCurrent
    <3>2. i \in DOMAIN history'[d] /\ history'[d][i] = t
      BY <3>1, HistoryKept
    <3> QED
      BY <1>1, <2>2, <2>3, <3>1, <3>2
  <2>4. CASE call[c].ask.op # "get"
    <3>1. job[t].kind = "refresh" /\ PublishedAfter(t, d, call[c].since)
      BY <2>1, <2>2, <2>4 DEF AnswerCurrent, PublishedAfter
    <3>2. st[t] # "unborn"
      BY <3>1 DEF TasksBorn, NoJob
    <3>3. job'[t] = job[t]
      BY <3>2, JobsKept DEF TasksBorn
    <3>4. PICK i \in DOMAIN history[d] : history[d][i] = t /\ i > call[c].since
      BY <3>1 DEF PublishedAfter
    <3>5. i \in DOMAIN history'[d] /\ history'[d][i] = t
      BY <3>4, HistoryKept
    <3> QED
      BY <1>1, <2>2, <2>4, <3>1, <3>3, <3>4, <3>5
  <2> QED
    BY <2>3, <2>4
<1>2. CASE Snaps(c)
  <2>1. PICK q \in Request :
          /\ q.op = "get"
          /\ call'[c] = NewCall(q, "done", NoTask)
          /\ \/ Cached(q.def) /\ answer'[c].of = results[q.def]
             \/ CachedFailure(q.def) /\ answer'[c].of = failed[q.def]
    BY <1>2 DEF Snaps
  <2>2. PICK d \in Def : d = q.def
    BY DEF Request
  <2>3. /\ Len(history[d]) > 0 /\ t = history[d][Len(history[d])]
        /\ history[d] \in Seq(Task)
    BY <2>1, <2>2 DEF LatestShown, Answered, TypeOK
  <2>4. /\ Len(history[d]) \in DOMAIN history[d]
        /\ Len(history[d]) >= Len(history[d])
    BY <2>3
  <2>5. Len(history[d]) \in DOMAIN history'[d] /\ history'[d][Len(history[d])] = t
    BY <2>3, <2>4, HistoryKept
  <2> QED
    BY <2>1, <2>2, <2>4, <2>5 DEF NewCall
<1>3. CASE IsAnswered(c) /\ history' = history
  <2>1. /\ call[c].at = "owner" /\ Settled(call[c].on) /\ call[c].on = t
        /\ call'[c].ask = call[c].ask /\ call'[c].since = call[c].since
    <3>1. answer'[c].how \in {"value", "failure"} /\ answer'[c].of = t
      BY DEF Answered
    <3>2. /\ call'[c] = [call[c] EXCEPT !.at = "done", !.on = NoTask]
          /\ call[c].at = "owner" /\ Settled(call[c].on) /\ answer'[c].of = call[c].on
      BY <1>3, <3>1, AnsweredByOwner DEF IsAnswered
    <3> QED
      BY <1>0, <3>1, <3>2
  <2>2. /\ call[c].ask \in Request /\ t \in 1 .. spawned
    BY <2>1 DEF WaitsNamed
  <2>3. PICK d \in Def : d = call[c].ask.def
    BY <2>2 DEF Request
  <2>4. /\ PublishedAfter(t, d, call[c].since)
        /\ call[c].ask.op = "recalculate" => job[t].kind = "refresh"
    BY <1>0, <2>1, <2>2, <2>3 DEF CallTracked, Request
  <2>5. job'[t] = job[t]
    BY <2>2, JobsKept
  <2>6. PICK i \in DOMAIN history[d] : history[d][i] = t /\ i > call[c].since
    BY <2>4 DEF PublishedAfter
  <2>7. i \in Nat /\ call[c].since \in Nat
    <3>1. history[d] \in Seq(Task)
      BY DEF TypeOK
    <3> QED
      BY <1>0, <2>6, <3>1
  <2>8. i >= call[c].since
    BY <2>6, <2>7
  <2> QED
    BY <1>3, <2>1, <2>2, <2>3, <2>4, <2>5, <2>6, <2>8 DEF Request
<1>4. ASSUME Refuses(c) \/ BeginsWait(c) \/ AsksClose(c) \/ TurnsToRefresh(c) PROVE FALSE
  <2>1. call'[c].at = "done" /\ answer'[c].how \in {"value", "failure"}
    BY DEF Answered
  <2>2. CASE Refuses(c)
    BY <2>1, <2>2 DEF Refuses
  <2>3. CASE BeginsWait(c)
    BY <2>1, <2>3 DEF BeginsWait, NewCall
  <2>4. CASE AsksClose(c)
    BY <2>1, <2>4 DEF AsksClose
  <2>5. CASE TurnsToRefresh(c)
    BY <1>0, <2>1, <2>5 DEF TurnsToRefresh
  <2> QED
    BY <1>4, <2>2, <2>3, <2>4, <2>5
<1>5. \/ call'[c] = call[c] /\ answer'[c] = answer[c]
      \/ CallerShape(c) /\ history' = history
  BY StepHasCaller DEF Alone, callVars
<1> QED
  BY <1>1, <1>2, <1>3, <1>4, <1>5 DEF CallerShape

----------------------------------------------------------------------------
\* What bodies see of the host inputs.

\* Host inputs only grow newer.
LEMMA InputsGrow ==
  ASSUME Inv, [Next]_vars, NEW f \in Frame
  PROVE  /\ inputs[f] \in Nat /\ inputs'[f] \in Nat
         /\ inputs[f] <= inputs'[f]
<1> inputs \in [Frame -> Nat]
  BY DEF Inv, TypeOK
<1>1. inputs' = inputs \/ \E g \in Frame : Mixin(g)
  <2>1. CASE UNCHANGED vars
    BY <2>1 DEF vars
  <2>2. CASE \E t \in Task : Progress(t) \/ HostStep(t)
    BY <2>2 DEF Progress, HostStep, Start, DropUnstarted, ReadFailing, ReadCached, ReadShared,
         ReadSpawning, WakeWithValue, WakeWithFailure, WakeCancelled, CancelDelivered, Finish,
         HostSwallowsCancel, HostRaises, HostCancels, EndCancelled
  <2>3. CASE \E c \in Caller : Ask(c) \/ Resume(c) \/ CallerCancelled(c)
    BY <2>3 DEF Ask, Resume, RejectClosed, GetSnapshot, GetShared, GetSpawning, JoinRefresh,
         AwaitInitial, RefreshAtOnce, SpawnRefresh, AskClose, AfterInitial, OwnerAnswers,
         CloseAnswers, CallerCancelled
  <2>4. CASE \E g \in Frame : CloseStep(g) \/ Mixin(g)
    BY <2>4 DEF CloseStep, CancelInflight, CollectResources, ReleaseResource, ClearFrame
  <2> QED
    BY <2>1, <2>2, <2>3, <2>4 DEF Next, Finished
<1>2. ASSUME NEW g \in Frame, Mixin(g) PROVE inputs'[f] = inputs[f] \/ inputs'[f] = inputs[f] + 1
  BY <1>2 DEF Mixin
<1> QED
  BY <1>1, <1>2

\* A body sees the inputs of the moment it starts, and nothing before.
LEMMA SeenAtStart ==
  ASSUME Inv, [Next]_vars, NEW t \in Task
  PROVE  \/ /\ seen'[t] = seen[t]
            /\ st[t] = "queued" => st'[t] \in {"queued", "cancelled"}
            /\ st[t] = "cancelled" => st'[t] = "cancelled"
            /\ st'[t] = "queued" => st[t] \in {"unborn", "queued"}
            /\ st'[t] = "unborn" => st[t] = "unborn"
         \/ /\ st[t] = "queued" /\ st'[t] = "running"
            /\ seen'[t] = inputs[FrameOf(t)]
<1> BodyTypes /\ RegistryTypes /\ TasksBorn
  BY TypeGroups DEF Inv
<1> USE DEF BodyTypes
<1> DEFINE Kept == /\ seen'[t] = seen[t]
                   /\ st[t] = "queued" => st'[t] \in {"queued", "cancelled"}
                   /\ st[t] = "cancelled" => st'[t] = "cancelled"
                   /\ st'[t] = "queued" => st[t] \in {"unborn", "queued"}
                   /\ st'[t] = "unborn" => st[t] = "unborn"
<1>1. ASSUME UNCHANGED <<st, seen>> PROVE Kept
  BY <1>1
<1>2. ASSUME spawned + 1 \in Task, st' = [st EXCEPT ![spawned + 1] = "queued"], seen' = seen PROVE Kept
  <2>1. st[spawned + 1] = "unborn"
    BY <1>2 DEF TasksBorn, RegistryTypes, TaskOrNone
  <2> QED
    BY <1>2, <2>1
<1>3. ASSUME NEW u \in Task, Start(u) PROVE Kept \/ (t = u /\ st[t] = "queued" /\ st'[t] = "running"
                                                       /\ seen'[t] = inputs[FrameOf(t)])
  BY <1>3 DEF Start
<1>4. ASSUME NEW u \in Task, DropUnstarted(u) PROVE Kept
  BY <1>4 DEF DropUnstarted
<1>5. ASSUME NEW u \in Task, \/ ReadFailing(u) \/ ReadCached(u) \/ ReadShared(u)
                             \/ WakeWithValue(u) \/ WakeWithFailure(u) \/ WakeCancelled(u)
                             \/ CancelDelivered(u) \/ Finish(u) \/ HostStep(u)
      PROVE Kept
  <2>1. /\ seen' = seen /\ st[u] \in {"running", "waiting"}
        /\ \E to \in {"running", "waiting"} \cup EndStates : st' = [st EXCEPT ![u] = to]
    BY <1>5 DEF ReadFailing, ReadCached, ReadShared, NeedsOwner, Reading, WakeWithValue,
         WakeWithFailure, Awaited, WakeCancelled, CancelDelivered, Finish, HostStep, HostSwallowsCancel,
         HostRaises, HostCancels, ReadRaises, EndCancelled, Settle, EndStates
  <2>2. PICK to \in {"running", "waiting"} \cup EndStates : st' = [st EXCEPT ![u] = to]
    BY <2>1
  <2> QED
    BY <2>1, <2>2 DEF EndStates
<1>6. ASSUME NEW u \in Task, ReadSpawning(u) PROVE Kept
  <2>1. /\ seen' = seen /\ st[u] = "running"
        /\ st' = [st EXCEPT ![u] = "waiting", ![spawned + 1] = "queued"]
        /\ spawned < TaskLimit
    BY <1>6 DEF ReadSpawning, NeedsOwner, Reading, Spawn
  <2>2. spawned + 1 \in Task /\ st[spawned + 1] = "unborn"
    BY <2>1, ConstantsAssumption DEF TasksBorn, RegistryTypes, TaskOrNone, Task
  <2> QED
    BY <2>1, <2>2
<1>7. ASSUME NEW c \in Caller, Ask(c) \/ Resume(c) \/ CallerCancelled(c) PROVE Kept
  <2>1. /\ seen' = seen
        /\ \/ st' = st
           \/ spawned < TaskLimit /\ st' = [st EXCEPT ![spawned + 1] = "queued"]
    BY <1>7 DEF Ask, Resume, RejectClosed, GetSnapshot, GetShared, GetSpawning, JoinRefresh,
         AwaitInitial, RefreshAtOnce, SpawnRefresh, Spawn, AskClose, AfterInitial, OwnerAnswers,
         CloseAnswers, CallerCancelled, taskVars
  <2>2. spawned < TaskLimit => spawned + 1 \in Task
    BY ConstantsAssumption DEF RegistryTypes, TaskOrNone, Task
  <2> QED
    BY <1>1, <1>2, <2>1, <2>2
<1>8. ASSUME NEW f \in Frame, CloseStep(f) \/ Mixin(f) PROVE Kept
  BY <1>1, <1>8 DEF CloseStep, CancelInflight, CollectResources, ReleaseResource, ClearFrame,
       Mixin, taskVars
<1>9. ASSUME UNCHANGED vars PROVE Kept
  BY <1>1, <1>9 DEF vars, taskVars
<1> DEFINE Started == st[t] = "queued" /\ st'[t] = "running" /\ seen'[t] = inputs[FrameOf(t)]
<1>10. \A u \in Task : Start(u) => Kept \/ Started
  BY <1>3
<1> HIDE DEF Kept, Started
<1>11. ASSUME NEW u \in Task, Progress(u) \/ HostStep(u) PROVE Kept \/ Started
  <2>1. CASE Start(u) \/ DropUnstarted(u) \/ ReadSpawning(u)
    BY <1>4, <1>6, <1>10, <2>1
  <2>2. CASE \/ ReadFailing(u) \/ ReadCached(u) \/ ReadShared(u)
             \/ WakeWithValue(u) \/ WakeWithFailure(u) \/ WakeCancelled(u)
             \/ CancelDelivered(u) \/ Finish(u) \/ HostStep(u)
    BY <1>5, <2>2
  <2> QED
    BY <1>11, <2>1, <2>2 DEF Progress
<1>12. Kept \/ Started
  <2>1. CASE \E c \in Caller : Ask(c) \/ Resume(c) \/ CallerCancelled(c)
    BY <1>7, <2>1
  <2>2. CASE \E f \in Frame : CloseStep(f) \/ Mixin(f)
    BY <1>8, <2>2
  <2> QED
    BY <1>9, <1>11, <2>1, <2>2 DEF Next, Finished
<1> QED
  BY <1>12 DEF Kept, Started

\* A body fresh enough for a request stays so.
LEMMA FreshKept ==
  ASSUME Inv, [Next]_vars, TypeOK', NEW t \in Task, t <= spawned, NEW n \in Nat, Fresh(t, n)
  PROVE  Fresh(t, n)'
<1> TypeOK /\ TasksBorn /\ InputsTracked
  BY DEF Inv
<1>1. /\ FrameOf(t) \in Frame /\ FrameOf(t)' = FrameOf(t)
      /\ st[t] # "unborn"
  <2>1. job'[t] = job[t] /\ st[t] # "unborn"
    BY JobsKept DEF TasksBorn, TypeOK, Task, TaskOrNone
  <2>2. job[t] \in Job
    BY <2>1 DEF TasksBorn
  <2> QED
    BY <2>1, <2>2, ConstantsAssumption DEF FrameOf, DefOf, Job
<1>2. PICK f \in Frame : f = FrameOf(t)
  BY <1>1
<1>3. inputs[f] \in Nat /\ inputs'[f] \in Nat /\ inputs[f] <= inputs'[f]
  BY InputsGrow
<1>4. seen[t] \in Nat
  BY DEF TypeOK
<1>5. st[t] \in {"unborn", "queued"} => seen[t] = 0
  BY DEF InputsTracked
<1> QED
  BY <1>1, <1>2, <1>3, <1>4, <1>5, SeenAtStart DEF Fresh

\* A refresh that is registered by a step has not started.
LEMMA NewRefresh ==
  ASSUME Inv, [Next]_vars, NEW d \in Def, refreshes'[d] # NoTask, refreshes'[d] # refreshes[d]
  PROVE  /\ refreshes'[d] \in Task /\ st'[refreshes'[d]] = "queued"
         /\ OwnerOf[job'[refreshes'[d]].def] = OwnerOf[d]
<1> refreshes \in [Def -> TaskOrNone]
  BY DEF Inv, TypeOK
<1>1. CASE Calm
  BY <1>1 DEF Calm, cacheVars
<1>2. CASE \E e \in Def, kind \in Kind : Birth(e, kind)
  <2>1. PICK e \in Def, kind \in Kind : Birth(e, kind)
    BY <1>2
  <2>2. e = d /\ refreshes'[d] = spawned + 1
    BY <2>1 DEF Birth
  <2> QED
    BY <2>1, <2>2 DEF Birth, FrameOf, DefOf
<1>3. CASE \E t \in Task : Returns(t) \/ Raises(t) \/ Aborts(t)
  BY <1>3 DEF Returns, Raises, Aborts, Ends, Settle
<1>4. CASE \E t \in Task : DropUnstarted(t)
  BY <1>4 DEF DropUnstarted, cacheVars
<1>5. CASE \E f \in Frame : Closing(f)
  BY <1>5 DEF Closing, cacheVars
<1>6. CASE \E f \in Frame : CloseStep(f)
  BY <1>6 DEF CloseStep, CancelInflight, CollectResources, ReleaseResource, ClearFrame, cacheVars
<1> QED
  BY <1>1, <1>2, <1>3, <1>4, <1>5, <1>6, StepHasShape DEF Shapes

\* A request waits for a body that is fresh enough for it: one that is still to
\* start, or one that a caller who waited for the first evaluation finds.
LEMMA InputsStep ==
  ASSUME Inv, [Next]_vars, TypeOK' PROVE InputsTracked'
<1> TypeOK /\ TasksBorn /\ WaitsNamed /\ FiledByDefinition /\ InputsTracked /\ CallsTracked
  BY DEF Inv
<1> /\ refreshes \in [Def -> TaskOrNone] /\ refreshes' \in [Def -> TaskOrNone]
    /\ inputs \in [Frame -> Nat] /\ inputs' \in [Frame -> Nat]
    /\ seen \in [Task -> Nat] /\ seen' \in [Task -> Nat]
  BY DEF TypeOK
<1>s. spawned + 1 # NoTask
  BY DEF TypeOK, TaskOrNone, NoTask
<1>1. ASSUME NEW t \in Task, st'[t] \in {"unborn", "queued"} PROVE seen'[t] = 0
  <2>1. st[t] \in {"unborn", "queued"} => seen[t] = 0
    BY DEF InputsTracked
  <2> QED
    BY <1>1, <2>1, SeenAtStart
<1>2. ASSUME NEW c \in Caller, call'[c].ask.op = "recalculate" PROVE RequestFresh(c)'
  <2>0. /\ call[c] \in [at : {"idle", "owner", "initial", "close", "done"},
                        ask : Call \cup {NoCall}, on : TaskOrNone, since : Nat, asked : Nat]
        /\ call'[c].asked \in Nat
    BY DEF TypeOK
  <2>a. CASE call'[c].at \notin {"owner", "initial"}
    BY <2>a DEF RequestFresh
  <2>b. CASE call'[c] = call[c] /\ call[c].at = "owner"
    <3>1. RequestFresh(c) /\ call[c].on \in 1 .. spawned
      BY <1>2, <2>b DEF InputsTracked, WaitsNamed
    <3>2. PICK t \in Task : t = call[c].on /\ t <= spawned
      BY <3>1 DEF TypeOK, Task, TaskOrNone
    <3>3. PICK n \in Nat : n = call[c].asked
      BY <2>0
    <3>4. Fresh(t, n)
      BY <2>b, <3>1, <3>2, <3>3 DEF RequestFresh
    <3>5. Fresh(t, n)'
      BY <3>2, <3>4, FreshKept
    <3> QED
      BY <2>b, <3>2, <3>3, <3>5 DEF RequestFresh, Fresh
  <2>c. ASSUME NEW d \in Def, NEW n \in Nat, n <= inputs[OwnerOf[d]],
               refreshes[d] # NoTask => Fresh(refreshes[d], n)
        PROVE  /\ n <= inputs'[OwnerOf[d]]
               /\ \A t \in Task : t = refreshes'[d] => Fresh(t, n)'
    <3>1. OwnerOf[d] \in Frame
      BY ConstantsAssumption
    <3>2. n <= inputs'[OwnerOf[d]]
      BY <2>c, <3>1, InputsGrow
    <3>3. CASE refreshes'[d] = refreshes[d] /\ refreshes[d] # NoTask
      <4>1. PICK t \in Task : t = refreshes[d] /\ t <= spawned
        BY <3>3 DEF FiledByDefinition, Task, TaskOrNone, NoTask
      <4>2. Fresh(t, n)'
        BY <2>c, <3>3, <4>1, FreshKept
      <4> QED
        BY <3>2, <3>3, <4>1, <4>2
    <3>4. CASE refreshes'[d] # refreshes[d] /\ refreshes'[d] # NoTask
      <4>1. PICK t \in Task : t = refreshes'[d]
        BY <3>4, NewRefresh
      <4>2. st'[t] = "queued" /\ OwnerOf[job'[t].def] = OwnerOf[d]
        BY <3>4, <4>1, NewRefresh
      <4>3. Fresh(t, n)'
        BY <3>2, <4>2 DEF Fresh, FrameOf, DefOf
      <4> QED
        BY <3>2, <4>1, <4>3
    <3>5. \A t \in Task : t # NoTask
      BY DEF Task, NoTask
    <3> QED
      BY <3>2, <3>3, <3>4, <3>5
  <2>d. CASE call'[c] = call[c] /\ call[c].at = "initial"
    <3>1. RequestFresh(c) /\ call[c].ask \in Request
      BY <1>2, <2>d DEF InputsTracked, WaitsNamed
    <3>2. PICK d \in Def, n \in Nat : d = call[c].ask.def /\ n = call[c].asked
      BY <2>0, <3>1 DEF Request
    <3>3. /\ n <= inputs[OwnerOf[d]]
          /\ refreshes[d] # NoTask => Fresh(refreshes[d], n)
      BY <2>d, <3>1, <3>2 DEF RequestFresh
    <3>4. /\ n <= inputs'[OwnerOf[d]]
          /\ \A t \in Task : t = refreshes'[d] => Fresh(t, n)'
      BY <2>c, <3>3
    <3>5. refreshes'[d] # NoTask => refreshes'[d] \in Task
      BY DEF Task, TaskOrNone, NoTask
    <3> QED
      BY <2>d, <3>2, <3>4, <3>5 DEF RequestFresh
  <2>e. CASE AfterInitial(c) /\ call'[c].at \in {"owner", "initial"}
    <3>1. call[c].at = "initial" /\ call[c].ask \in Request
      BY <2>e DEF AfterInitial, WaitsNamed
    <3>2. PICK d \in Def, n \in Nat : d = call[c].ask.def /\ n = call[c].asked
      BY <2>0, <3>1 DEF Request
    <3>3. \/ /\ refreshes[d] # NoTask
             /\ call' = [call EXCEPT ![c].at = "owner", ![c].on = refreshes[d]]
             /\ refreshes' = refreshes
          \/ /\ refreshes[d] = NoTask /\ SpawnRefresh(d)
             /\ call' = [call EXCEPT ![c].at = "owner", ![c].on = spawned + 1]
      <4>1. ASSUME NEW how, NEW of, Conclude(c, how, of) PROVE call'[c].at = "done"
        BY <4>1 DEF Conclude, TypeOK
      <4> QED
        BY <2>e, <3>2, <4>1 DEF AfterInitial, cacheVars
    <3>4. /\ call'[c].at = "owner" /\ call'[c].ask = call[c].ask /\ call'[c].asked = n
          /\ \/ refreshes[d] # NoTask /\ refreshes' = refreshes /\ call'[c].on = refreshes[d]
             \/ refreshes[d] = NoTask /\ SpawnRefresh(d) /\ call'[c].on = spawned + 1
      <4>1. call \in [Caller -> [at : {"idle", "owner", "initial", "close", "done"},
                        ask : Call \cup {NoCall}, on : TaskOrNone, since : Nat, asked : Nat]]
        BY DEF TypeOK
      <4>2. ASSUME NEW x, call' = [call EXCEPT ![c].at = "owner", ![c].on = x]
            PROVE  /\ call'[c].at = "owner" /\ call'[c].ask = call[c].ask
                   /\ call'[c].asked = call[c].asked /\ call'[c].on = x
        BY <4>1, <4>2
      <4> QED
        BY <3>2, <3>3, <4>2
    <3>5. RequestFresh(c)
      BY <1>2, <3>4 DEF InputsTracked
    <3>6. /\ n <= inputs[OwnerOf[d]]
          /\ refreshes[d] # NoTask => Fresh(refreshes[d], n)
      BY <3>1, <3>2, <3>5 DEF RequestFresh
    <3>7. \A t \in Task : t = refreshes'[d] => Fresh(t, n)'
      BY <2>c, <3>6
    <3>8. PICK t \in Task : t = refreshes'[d] /\ t = call'[c].on
      <4>1. refreshes'[d] = call'[c].on
        BY <3>4 DEF SpawnRefresh
      <4>2. refreshes'[d] # NoTask
        BY <1>s, <3>4 DEF SpawnRefresh
      <4> QED
        BY <4>1, <4>2 DEF Task, TaskOrNone, NoTask
    <3> QED
      BY <3>4, <3>7, <3>8 DEF RequestFresh
  <2>f. ASSUME NEW q \in Script[c],
               \/ GetShared(c, q) \/ GetSpawning(c, q) \/ JoinRefresh(c, q)
               \/ AwaitInitial(c, q) \/ RefreshAtOnce(c, q)
        PROVE  RequestFresh(c)'
    <3>1. q.def \in Def /\ OwnerOf[q.def] \in Frame
      BY <2>f, ConstantsAssumption DEF GetShared, GetSpawning, GetUncached, JoinRefresh,
           AwaitInitial, RefreshAtOnce, Asks, Call
    <3>2. ASSUME NEW at, NEW x, Await(c, at, q, x)
          PROVE  /\ call'[c].ask = q /\ call'[c].on = x /\ call'[c].at = at
                 /\ call'[c].asked = Entitlement(q)
      BY <3>2 DEF Await, TypeOK
    <3>3. q.op = "recalculate"
      <4>1. call'[c].ask = q
        BY <2>f, <3>2 DEF GetShared, GetSpawning, JoinRefresh, AwaitInitial, RefreshAtOnce
      <4> QED
        BY <1>2, <4>1
    <3>4. CASE JoinRefresh(c, q)
      <4>1. PICK t \in Task : t = refreshes[q.def]
        BY <3>1, <3>4 DEF JoinRefresh, Task, TaskOrNone, NoTask
      <4>2. call'[c].asked = 0 /\ call'[c].on = t /\ call'[c].at = "owner"
        BY <3>2, <3>4, <4>1 DEF JoinRefresh, Entitlement
      <4>3. seen'[t] \in Nat
        OBVIOUS
      <4>4. seen'[t] >= 0
        BY <4>3
      <4> QED
        BY <4>2, <4>4 DEF RequestFresh, Fresh
    <3>5. CASE AwaitInitial(c, q)
      <4>1. /\ call'[c].at = "initial" /\ call'[c].ask = q
            /\ call'[c].asked = inputs[OwnerOf[q.def]]
            /\ refreshes[q.def] = NoTask /\ refreshes' = refreshes
        BY <3>2, <3>5 DEF AwaitInitial, Entitlement, cacheVars
      <4>2. inputs[OwnerOf[q.def]] <= inputs'[OwnerOf[q.def]]
        BY <3>1, InputsGrow
      <4> QED
        BY <4>1, <4>2 DEF RequestFresh
    <3>6. CASE RefreshAtOnce(c, q)
      <4>1. PICK d \in Def, n \in Nat : d = q.def /\ n = inputs[OwnerOf[d]]
        BY <3>1
      <4>2. /\ call'[c].at = "owner" /\ call'[c].on = spawned + 1
            /\ call'[c].asked = n
            /\ refreshes[d] = NoTask /\ refreshes'[d] = spawned + 1
        BY <3>2, <3>6, <4>1 DEF RefreshAtOnce, Entitlement, SpawnRefresh
      <4>3. PICK t \in Task : t = refreshes'[d] /\ t = call'[c].on
        BY <1>s, <4>2 DEF Task, TaskOrNone, NoTask
      <4>4. Fresh(t, n)'
        BY SMTT(30), <2>c, <4>1, <4>2, <4>3
      <4> QED
        BY <4>2, <4>3, <4>4 DEF RequestFresh
    <3>7. ~GetShared(c, q) /\ ~GetSpawning(c, q)
      BY <3>3 DEF GetShared, GetSpawning, GetUncached, Asks
    <3> QED
      BY <2>f, <3>4, <3>5, <3>6, <3>7
  <2>g. call'[c].at \in {"owner", "initial"} =>
              \/ call'[c] = call[c]
              \/ AfterInitial(c)
              \/ \E q \in Script[c] : \/ GetShared(c, q) \/ GetSpawning(c, q) \/ JoinRefresh(c, q)
                                      \/ AwaitInitial(c, q) \/ RefreshAtOnce(c, q)
    BY NewWaits
  <2> QED
    BY <2>a, <2>b, <2>d, <2>e, <2>f, <2>g
<1> QED
  BY <1>1, <1>2 DEF InputsTracked

\* An answer was fresh when it was given, and what a body saw is never less.
LEMMA InputsAnswered ==
  ASSUME Inv, [Next]_vars, TypeOK' PROVE InputsCurrent'
<1> TypeOK /\ TasksBorn /\ WaitsNamed /\ InputsTracked /\ InputsCurrent /\ CallsTracked
  BY DEF Inv
<1> SUFFICES ASSUME NEW c \in Caller, NEW t \in Task, Answered(c, t)', call'[c].ask.op = "recalculate"
             PROVE  seen'[t] >= call'[c].asked
  BY DEF InputsCurrent
<1>0. /\ CallTracked(c)
      /\ call[c] \in [at : {"idle", "owner", "initial", "close", "done"},
                      ask : Call \cup {NoCall}, on : TaskOrNone, since : Nat, asked : Nat]
      /\ answer[c] \in [how : {"none", "value", "failure", "cancelled", "closed"}, of : TaskOrNone]
  BY DEF CallsTracked, TypeOK
<1>1. seen[t] \in Nat /\ seen'[t] \in Nat /\ seen[t] <= seen'[t]
  <2>1. seen[t] \in Nat /\ seen'[t] \in Nat
    BY DEF TypeOK
  <2>2. st[t] = "queued" => seen[t] = 0
    BY DEF InputsTracked
  <2> QED
    BY <2>1, <2>2, SeenAtStart
<1>2. CASE call'[c] = call[c] /\ answer'[c] = answer[c]
  <2>1. Answered(c, t) /\ call[c].ask.op = "recalculate"
    BY <1>2 DEF Answered
  <2>2. seen[t] >= call[c].asked
    BY <2>1 DEF InputsCurrent
  <2>3. call[c].asked \in Nat
    BY <1>0
  <2> QED
    BY <1>1, <1>2, <2>2, <2>3
<1>3. CASE IsAnswered(c)
  <2>1. answer'[c].how \in {"value", "failure"} /\ answer'[c].of = t
    BY DEF Answered
  <2>2. /\ call'[c] = [call[c] EXCEPT !.at = "done", !.on = NoTask]
        /\ call[c].at = "owner" /\ Settled(call[c].on) /\ answer'[c].of = call[c].on
    BY <1>3, <2>1, AnsweredByOwner DEF IsAnswered
  <2>3. /\ call'[c].ask = call[c].ask /\ call'[c].asked = call[c].asked
        /\ call[c].asked \in Nat /\ call[c].on = t
    BY <1>0, <2>1, <2>2
  <2>4. Fresh(t, call[c].asked)
    BY <2>2, <2>3 DEF InputsTracked, RequestFresh
  <2>5. seen[t] >= call[c].asked
    BY <2>2, <2>3, <2>4 DEF Fresh, Settled
  <2> QED
    BY <1>1, <2>3, <2>5
<1>4. CASE Snaps(c)
  BY <1>4 DEF Snaps, NewCall
<1>5. ASSUME Refuses(c) \/ BeginsWait(c) \/ AsksClose(c) \/ TurnsToRefresh(c) PROVE FALSE
  <2>1. call'[c].at = "done" /\ answer'[c].how \in {"value", "failure"}
    BY DEF Answered
  <2>2. CASE Refuses(c)
    BY <2>1, <2>2 DEF Refuses
  <2>3. CASE BeginsWait(c)
    BY <2>1, <2>3 DEF BeginsWait, NewCall
  <2>4. CASE AsksClose(c)
    BY <2>1, <2>4 DEF AsksClose
  <2>5. CASE TurnsToRefresh(c)
    BY <1>0, <2>1, <2>5 DEF TurnsToRefresh
  <2> QED
    BY <1>5, <2>2, <2>3, <2>4, <2>5
<1>6. \/ call'[c] = call[c] /\ answer'[c] = answer[c]
      \/ CallerShape(c)
  BY StepHasCaller DEF Alone, callVars
<1> QED
  BY <1>2, <1>3, <1>4, <1>5, <1>6 DEF CallerShape

----------------------------------------------------------------------------
\* How tasks of one flight wait for each other.

\* What a live task does next, by itself: it starts or is dropped, joins a task
\* whose definition is not on its path, goes on or settles, or is cancelled.
Moves(t) ==
  /\ UNCHANGED <<spawned, job>>
  /\ \A u \in Task \ {t} : st'[u] = st[u] /\ on'[u] = on[u]
  /\ Live(t)
  /\ \/ st[t] = "queued" /\ st'[t] \in {"running", "cancelled"}
     \/ /\ st[t] = "running" /\ st'[t] = "waiting"
        /\ on'[t] \in 1 .. spawned /\ DefOf(on'[t]) \notin job[t].path
     \/ /\ st[t] = "running" \/ (st[t] = "waiting" /\ st[on[t]] \in {"returned", "raised"})
        /\ st'[t] \in {"running", "returned", "raised"}
     \/ st'[t] = "cancelled"

\* A task is created for d: by a body for a read, or by a caller.
Creates(d, path, flight) ==
  LET new == spawned + 1 IN
  /\ new \in Task /\ st[new] = "unborn" /\ st'[new] = "queued"
  /\ spawned' = new
  /\ \A u \in Task \ {new} : job'[u] = job[u]
  /\ job'[new] = [def |-> d, kind |-> job'[new].kind, path |-> path \cup {d}, flight |-> flight]

Branches(t) ==
  /\ st[t] = "running" /\ st'[t] = "waiting" /\ on'[t] = spawned + 1
  /\ \A u \in Task \ {t, spawned + 1} : st'[u] = st[u] /\ on'[u] = on[u]
  /\ \E d \in Def \ job[t].path : Creates(d, job[t].path, job[t].flight)

Embarks ==
  /\ \A u \in Task \ {spawned + 1} : st'[u] = st[u] /\ on'[u] = on[u]
  /\ \E d \in Def : Creates(d, {}, spawned + 1)

\* What a spawn makes of the new task.
LEMMA SpawnCreates ==
  ASSUME TypeOK, TasksBorn, NEW d \in Def, NEW kind \in Kind, NEW path \in SUBSET Def,
         NEW flight \in Task \cup {spawned + 1}, Spawn(d, kind, path, flight),
         st'[spawned + 1] = "queued"
  PROVE  Creates(d, path, flight)
<1>1. /\ spawned + 1 \in Task /\ spawned' = spawned + 1 /\ st[spawned + 1] = "unborn"
      /\ \A u \in Task \ {spawned + 1} : job'[u] = job[u]
  BY SpawnIsBirth
<1>2. job'[spawned + 1] = [def |-> d, kind |-> kind, path |-> path \cup {d}, flight |-> flight]
  BY <1>1 DEF Spawn, TypeOK
<1> QED
  BY <1>1, <1>2 DEF Creates

\* Every step moves one task, creates one, or leaves them where they are.
LEMMA TasksMove ==
  ASSUME Inv, [Next]_vars
  PROVE  \/ UNCHANGED <<spawned, job, st, on>>
         \/ \E t \in Task : Moves(t) \/ Branches(t)
         \/ Embarks
<1> TypeOK /\ TasksBorn /\ WaitsNamed /\ FiledByDefinition
  BY DEF Inv
<1> /\ st \in [Task -> {"unborn"} \cup LiveStates \cup EndStates]
    /\ on \in [Task -> TaskOrNone] /\ inflight \in [Def -> TaskOrNone]
    /\ spawned \in TaskOrNone
  BY DEF TypeOK
<1>1. ASSUME NEW t \in Task, ReadShared(t) PROVE Moves(t)
  <2>1. /\ Reading(t) /\ NextDep(t) \notin job[t].path /\ inflight[NextDep(t)] # NoTask
        /\ st' = [st EXCEPT ![t] = "waiting"] /\ on' = [on EXCEPT ![t] = inflight[NextDep(t)]]
        /\ UNCHANGED <<spawned, job>>
    BY <1>1 DEF ReadShared, NeedsOwner, Refused
  <2>2. NextDep(t) \in Def
    BY <2>1, NextDepVisible
  <2>3. inflight[NextDep(t)] \in 1 .. spawned /\ DefOf(inflight[NextDep(t)]) = NextDep(t)
    BY <2>1, <2>2 DEF FiledByDefinition, TaskOrNone, NoTask
  <2> QED
    BY <2>1, <2>3 DEF Moves, Reading, Live, LiveStates
<1>2. ASSUME NEW t \in Task, ReadSpawning(t) PROVE Branches(t)
  <2>1. /\ Reading(t) /\ NextDep(t) \notin job[t].path /\ st[t] = "running"
        /\ Spawn(NextDep(t), "initial", job[t].path, job[t].flight)
        /\ st' = [st EXCEPT ![t] = "waiting", ![spawned + 1] = "queued"]
        /\ on' = [on EXCEPT ![t] = spawned + 1]
    BY <1>2 DEF ReadSpawning, NeedsOwner, Refused, Reading
  <2>2. NextDep(t) \in Def /\ job[t].path \in SUBSET Def /\ job[t].flight \in Task
    BY <2>1, NextDepVisible
  <2>3. spawned + 1 \in Task /\ st[spawned + 1] = "unborn"
    BY <2>1, <2>2, SpawnIsBirth DEF Kind
  <2>4. Creates(NextDep(t), job[t].path, job[t].flight)
    BY <2>1, <2>2, <2>3, SpawnCreates DEF Kind
  <2> QED
    BY <2>1, <2>2, <2>3, <2>4 DEF Branches
<1>3. ASSUME NEW t \in Task, Start(t) \/ DropUnstarted(t) PROVE Moves(t)
  BY <1>3 DEF Start, DropUnstarted, Moves, Live, LiveStates
<1>4. ASSUME NEW t \in Task, ReadCached(t) \/ HostSwallowsCancel(t) PROVE UNCHANGED <<spawned, job, st, on>>
  BY <1>4 DEF ReadCached, HostSwallowsCancel
<1>5. ASSUME NEW t \in Task, \/ ReadFailing(t) \/ WakeWithValue(t) \/ WakeWithFailure(t)
                             \/ HostRaises(t) \/ Finish(t)
      PROVE Moves(t)
  <2>1. /\ UNCHANGED <<spawned, job>>
        /\ st[t] = "running" \/ (st[t] = "waiting" /\ st[on[t]] \in {"returned", "raised"})
    BY <1>5 DEF ReadFailing, Reading, WakeWithValue, WakeWithFailure, Awaited, HostRaises, Finish
  <2>2. \E to \in {"running", "returned", "raised"} :
          st' = [st EXCEPT ![t] = to] /\ on' = [on EXCEPT ![t] = NoTask]
    BY <1>5 DEF ReadFailing, WakeWithValue, WakeWithFailure, HostRaises, Finish, ReadRaises, Settle
  <2> QED
    BY <2>1, <2>2 DEF Moves, Live, LiveStates
<1>6. ASSUME NEW t \in Task, WakeCancelled(t) \/ CancelDelivered(t) \/ HostCancels(t)
      PROVE Moves(t)
  BY <1>6 DEF WakeCancelled, Awaited, CancelDelivered, HostCancels, EndCancelled, Settle, Moves,
       Live, LiveStates
<1>7. ASSUME NEW c \in Caller, NEW q \in Script[c], GetSpawning(c, q) \/ RefreshAtOnce(c, q)
      PROVE Embarks
  <2>1. /\ Spawn(q.def, "initial", {}, spawned + 1) \/ Spawn(q.def, "refresh", {}, spawned + 1)
        /\ st' = [st EXCEPT ![spawned + 1] = "queued"] /\ on' = on
        /\ q.op # "close"
    BY <1>7 DEF GetSpawning, GetUncached, RefreshAtOnce, SpawnRefresh, Asks
  <2>2. q.def \in Def
    BY <2>1, ConstantsAssumption DEF Call
  <2>3. spawned + 1 \in Task
    BY <2>1, <2>2, SpawnIsBirth DEF Kind
  <2>4. Creates(q.def, {}, spawned + 1)
    BY <2>1, <2>2, <2>3, SpawnCreates DEF Kind
  <2> QED
    BY <2>1, <2>2, <2>4 DEF Embarks
<1>8. ASSUME NEW c \in Caller, AfterInitial(c)
      PROVE UNCHANGED <<spawned, job, st, on>> \/ Embarks
  <2>1. \/ UNCHANGED <<spawned, job, st, on>>
        \/ SpawnRefresh(call[c].ask.def)
    BY <1>8 DEF AfterInitial, taskVars
  <2>2. call[c].ask.def \in Def
    BY <1>8 DEF AfterInitial, WaitsNamed, Request
  <2>3. CASE SpawnRefresh(call[c].ask.def)
    <3>1. /\ Spawn(call[c].ask.def, "refresh", {}, spawned + 1)
          /\ st' = [st EXCEPT ![spawned + 1] = "queued"] /\ on' = on
      BY <2>3 DEF SpawnRefresh
    <3>2. spawned + 1 \in Task
      BY <2>2, <3>1, SpawnIsBirth DEF Kind
    <3>3. Creates(call[c].ask.def, {}, spawned + 1)
      BY <2>2, <3>1, <3>2, SpawnCreates DEF Kind
    <3> QED
      BY <2>2, <3>1, <3>3 DEF Embarks
  <2> QED
    BY <2>1, <2>3
<1>9. ASSUME NEW c \in Caller, NEW q \in Script[c],
             \/ RejectClosed(c, q) \/ GetSnapshot(c, q) \/ GetShared(c, q)
             \/ JoinRefresh(c, q) \/ AwaitInitial(c, q) \/ AskClose(c, q)
      PROVE UNCHANGED <<spawned, job, st, on>>
  BY <1>9 DEF RejectClosed, GetSnapshot, GetShared, JoinRefresh, AwaitInitial, AskClose, taskVars
<1>10. ASSUME NEW c \in Caller, OwnerAnswers(c) \/ CloseAnswers(c) \/ CallerCancelled(c)
       PROVE UNCHANGED <<spawned, job, st, on>>
  BY <1>10 DEF OwnerAnswers, CloseAnswers, CallerCancelled, taskVars
<1>11. ASSUME NEW f \in Frame, CloseStep(f) \/ Mixin(f)
       PROVE UNCHANGED <<spawned, job, st, on>>
  BY <1>11 DEF CloseStep, CancelInflight, CollectResources, ReleaseResource, ClearFrame, Mixin, taskVars
<1>12. CASE UNCHANGED vars
  BY <1>12 DEF vars, taskVars
<1>13. CASE \E t \in Task : Progress(t) \/ HostStep(t)
  BY <1>1, <1>2, <1>3, <1>4, <1>5, <1>6, <1>13 DEF Progress, HostStep
<1>14. CASE \E c \in Caller : Ask(c) \/ Resume(c) \/ CallerCancelled(c)
  BY <1>7, <1>8, <1>9, <1>10, <1>14 DEF Ask, Resume
<1> QED
  BY <1>11, <1>12, <1>13, <1>14 DEF Next, Finished

\* A task joins or creates only owners of definitions that are not on its path.
LEMMA PathsStep ==
  ASSUME Inv, [Next]_vars PROVE PathsKept'
<1> TypeOK /\ TasksBorn /\ WaitsNamed /\ PathsKept
  BY DEF Inv
<1> spawned \in Nat /\ TaskLimit \in Nat
  BY ConstantsAssumption DEF TypeOK, TaskOrNone
<1> /\ \A t \in Task : t \in Nat /\ (t > spawned <=> st[t] = "unborn")
    /\ \A t \in Task : st[t] # "unborn" => job[t].flight \in Nat
  BY DEF TasksBorn, Job, Task
<1> SUFFICES ASSUME NEW t \in Task, st'[t] # "unborn"
             PROVE  /\ job'[t].flight <= spawned'
                    /\ job'[t].def \in job'[t].path
                    /\ st'[t] = "waiting" => job'[on'[t]].def \notin job'[t].path
  BY DEF PathsKept, DefOf
<1>1. ASSUME st[t] # "unborn"
      PROVE  /\ job[t].flight <= spawned /\ job[t].def \in job[t].path
             /\ st[t] = "waiting" => on[t] \in 1 .. spawned /\ job[on[t]].def \notin job[t].path
  BY <1>1 DEF PathsKept, WaitsNamed, DefOf
<1>2. CASE UNCHANGED <<spawned, job, st, on>>
  BY <1>1, <1>2
<1>3. ASSUME NEW u \in Task, Moves(u)
      PROVE  /\ job'[t].flight <= spawned'
             /\ job'[t].def \in job'[t].path
             /\ st'[t] = "waiting" => job'[on'[t]].def \notin job'[t].path
  <2>1. st[t] # "unborn"
    BY <1>3 DEF Moves, Live, LiveStates
  <2>2. st'[t] = "waiting" /\ t = u => job[on'[t]].def \notin job[t].path
    BY <1>3 DEF Moves, DefOf
  <2>3. st'[t] = "waiting" /\ t # u => st[t] = "waiting" /\ on'[t] = on[t]
    BY <1>3 DEF Moves
  <2> QED
    BY <1>1, <1>3, <2>1, <2>2, <2>3 DEF Moves
<1>4. ASSUME NEW d \in Def, NEW path, NEW flight, Creates(d, path, flight),
             flight <= spawned + 1,
             t # spawned + 1 => st[t] # "unborn"
      PROVE  /\ job'[t].flight <= spawned'
             /\ job'[t].def \in job'[t].path
             /\ t # spawned + 1 => job'[t] = job[t]
             /\ \A x \in 1 .. spawned : job'[x] = job[x]
             /\ job'[spawned + 1].def = d
  BY <1>1, <1>4 DEF Creates, Task
<1>5. ASSUME NEW u \in Task, Branches(u)
      PROVE  /\ job'[t].flight <= spawned'
             /\ job'[t].def \in job'[t].path
             /\ st'[t] = "waiting" => job'[on'[t]].def \notin job'[t].path
  <2>1. PICK d \in Def \ job[u].path : Creates(d, job[u].path, job[u].flight)
    BY <1>5 DEF Branches
  <2>2. /\ st[u] = "running" /\ st'[u] = "waiting" /\ on'[u] = spawned + 1
        /\ st'[spawned + 1] = "queued" /\ st[spawned + 1] = "unborn"
        /\ \A x \in Task \ {u, spawned + 1} : st'[x] = st[x] /\ on'[x] = on[x]
    BY <1>5, <2>1 DEF Branches, Creates
  <2>3. job[u].flight <= spawned + 1 /\ (t # spawned + 1 => st[t] # "unborn")
    BY <2>2 DEF PathsKept
  <2>4. /\ job'[t].flight <= spawned'
        /\ job'[t].def \in job'[t].path
        /\ t # spawned + 1 => job'[t] = job[t]
        /\ \A x \in 1 .. spawned : job'[x] = job[x]
        /\ job'[spawned + 1].def = d
    BY <1>4, <2>1, <2>3
  <2>5. CASE t = u
    BY <2>1, <2>2, <2>4, <2>5
  <2>6. CASE t = spawned + 1
    BY <2>2, <2>4, <2>6
  <2>7. CASE t # u /\ t # spawned + 1
    BY <1>1, <2>2, <2>3, <2>4, <2>7
  <2> QED
    BY <2>5, <2>6, <2>7
<1>6. CASE Embarks
  <2>1. PICK d \in Def : Creates(d, {}, spawned + 1)
    BY <1>6 DEF Embarks
  <2>2. /\ st'[spawned + 1] = "queued"
        /\ \A x \in Task \ {spawned + 1} : st'[x] = st[x] /\ on'[x] = on[x]
    BY <1>6, <2>1 DEF Embarks, Creates
  <2>3. t # spawned + 1 => st[t] # "unborn"
    BY <2>2
  <2>4. /\ job'[t].flight <= spawned'
        /\ job'[t].def \in job'[t].path
        /\ t # spawned + 1 => job'[t] = job[t]
        /\ \A x \in 1 .. spawned : job'[x] = job[x]
    BY <1>4, <2>1, <2>3
  <2> QED
    BY <1>1, <2>2, <2>3, <2>4
<1> QED
  BY <1>2, <1>3, <1>5, <1>6, TasksMove

\* A body that branches is the last live task of its flight, and whoever waits
\* for a task that settles with others below it sees it cancelled.
LEMMA LineStep ==
  ASSUME Inv, [Next]_vars PROVE FlightsLine'
<1> TypeOK /\ TasksBorn /\ WaitsNamed /\ PathsKept /\ FlightsLine
  BY DEF Inv
<1> spawned \in Nat /\ TaskLimit \in Nat
  BY ConstantsAssumption DEF TypeOK, TaskOrNone
<1> \A t \in Task : t \in Nat /\ (t > spawned <=> st[t] = "unborn")
  BY DEF TasksBorn, Task
<1> SUFFICES ASSUME NEW t \in Task, NEW w \in Task, Below(w, t)'
             PROVE  /\ job'[t].path \subseteq job'[w].path
                    /\ st'[t] = "waiting" /\ t < on'[t] /\ on'[t] <= w
                    /\ job'[on'[t]].flight = job'[t].flight
                    /\ st'[on'[t]] \in LiveStates \cup {"cancelled"}
  BY DEF FlightsLine, Live
<1>0. /\ st'[t] \in LiveStates /\ st'[w] \in LiveStates /\ t < w
      /\ job'[t].flight = job'[w].flight
  BY DEF Below, Live
<1>1. ASSUME NEW x \in Task, NEW y \in Task, st[x] \in LiveStates, st[y] \in LiveStates, x < y,
             job[x].flight = job[y].flight
      PROVE  /\ job[x].path \subseteq job[y].path
             /\ st[x] = "waiting" /\ x < on[x] /\ on[x] <= y /\ on[x] \in Task
             /\ job[on[x]].flight = job[x].flight
             /\ st[on[x]] \in LiveStates \cup {"cancelled"}
  <2>1. Below(y, x)
    BY <1>1 DEF Below, Live
  <2>2. x < on[x] /\ on[x] <= y /\ on[x] \in TaskOrNone
    BY <2>1 DEF FlightsLine, TypeOK
  <2>3. on[x] \in Task
    BY <2>2 DEF Task, TaskOrNone
  <2> QED
    BY <2>1, <2>2, <2>3 DEF FlightsLine, Live
<1>2. CASE UNCHANGED <<spawned, job, st, on>>
  BY <1>0, <1>1, <1>2
<1>3. ASSUME NEW u \in Task, Moves(u)
      PROVE  /\ job'[t].path \subseteq job'[w].path
             /\ st'[t] = "waiting" /\ t < on'[t] /\ on'[t] <= w
             /\ job'[on'[t]].flight = job'[t].flight
             /\ st'[on'[t]] \in LiveStates \cup {"cancelled"}
  <2>1. st[t] \in LiveStates /\ st[w] \in LiveStates /\ job' = job
    BY <1>0, <1>3 DEF Moves, Live
  <2>2. /\ job[t].path \subseteq job[w].path
        /\ st[t] = "waiting" /\ t < on[t] /\ on[t] <= w /\ on[t] \in Task
        /\ job[on[t]].flight = job[t].flight
        /\ st[on[t]] \in LiveStates \cup {"cancelled"}
    BY <1>0, <1>1, <2>1
  <2>3. t # u
    BY <1>0, <1>3, <2>2 DEF Moves, LiveStates
  <2>4. st'[t] = "waiting" /\ on'[t] = on[t]
    BY <1>3, <2>2, <2>3 DEF Moves
  <2>5. st'[on[t]] \in LiveStates \cup {"cancelled"}
    <3>1. CASE on[t] # u
      BY <1>3, <2>2, <3>1 DEF Moves
    <3>2. CASE on[t] = w
      BY <1>0, <3>2
    <3>3. CASE on[t] = u /\ u # w
      <4>1. st[u] \in LiveStates /\ u < w /\ job[u].flight = job[w].flight
        BY <1>0, <1>3, <2>1, <2>2, <3>3 DEF Moves, Live
      <4>2. st[u] = "waiting" /\ st[on[u]] \in LiveStates \cup {"cancelled"}
        BY <1>1, <2>1, <4>1
      <4>3. st'[u] = "cancelled"
        BY <1>3, <4>2 DEF Moves, LiveStates
      <4> QED
        BY <3>3, <4>3
    <3> QED
      BY <3>1, <3>2, <3>3
  <2> QED
    BY <2>1, <2>2, <2>4, <2>5
<1>4. ASSUME NEW u \in Task, Branches(u)
      PROVE  /\ job'[t].path \subseteq job'[w].path
             /\ st'[t] = "waiting" /\ t < on'[t] /\ on'[t] <= w
             /\ job'[on'[t]].flight = job'[t].flight
             /\ st'[on'[t]] \in LiveStates \cup {"cancelled"}
  <2> DEFINE new == spawned + 1
  <2>1. PICK d \in Def \ job[u].path : Creates(d, job[u].path, job[u].flight)
    BY <1>4 DEF Branches
  <2>2. /\ st[u] = "running" /\ st'[u] = "waiting" /\ on'[u] = new
        /\ \A x \in Task \ {u, new} : st'[x] = st[x] /\ on'[x] = on[x]
        /\ new \in Task /\ st[new] = "unborn" /\ st'[new] = "queued"
        /\ \A x \in Task \ {new} : job'[x] = job[x]
        /\ job'[new].path = job[u].path \cup {d} /\ job'[new].flight = job[u].flight
        /\ u < new /\ u # new
    BY <1>4, <2>1 DEF Branches, Creates
  <2>3. t # new
    BY <1>0, <2>2 DEF LiveStates
  <2>4. st[t] \in LiveStates /\ (w # new => st[w] \in LiveStates)
    BY <1>0, <2>2, <2>3 DEF LiveStates
  <2>5. ASSUME NEW y \in Task, y < new, t < y, st[y] \in LiveStates, job[t].flight = job[y].flight
        PROVE  /\ t # u /\ job[t].path \subseteq job[y].path
               /\ st'[t] = "waiting" /\ t < on'[t] /\ on'[t] <= y
               /\ job'[on'[t]].flight = job'[t].flight
               /\ st'[on'[t]] \in LiveStates \cup {"cancelled"}
    <3>1. /\ job[t].path \subseteq job[y].path
          /\ st[t] = "waiting" /\ t < on[t] /\ on[t] <= y /\ on[t] \in Task
          /\ job[on[t]].flight = job[t].flight
          /\ st[on[t]] \in LiveStates \cup {"cancelled"}
      BY <1>1, <2>4, <2>5
    <3>2. t # u /\ on'[t] = on[t] /\ st'[t] = "waiting"
      BY <2>2, <2>3, <3>1
    <3>3. on[t] # new
      BY <2>5, <3>1
    <3>4. st'[on[t]] \in LiveStates \cup {"cancelled"}
      BY <2>2, <3>1, <3>3 DEF LiveStates
    <3> QED
      BY <2>2, <2>3, <3>1, <3>2, <3>3, <3>4
  <2>6. CASE w = new /\ t = u
    BY <2>2, <2>6 DEF LiveStates
  <2>7. CASE w = new /\ t # u
    <3>1. job[t].flight = job[u].flight /\ st[u] \in LiveStates
      BY <1>0, <2>2, <2>3, <2>7 DEF LiveStates
    <3>2. ~(u < t)
      BY <1>1, <2>2, <2>4, <3>1
    <3>3. t < u
      BY <2>7, <3>2
    <3>4. /\ job[t].path \subseteq job[u].path
          /\ st'[t] = "waiting" /\ t < on'[t] /\ on'[t] <= u
          /\ job'[on'[t]].flight = job'[t].flight
          /\ st'[on'[t]] \in LiveStates \cup {"cancelled"}
      BY <2>2, <2>5, <3>1, <3>3
    <3>5. on'[t] <= new
      <4>1. on'[t] \in Nat
        <5>1. on'[t] = on[t] /\ on[t] \in TaskOrNone
          BY <2>2, <2>3, <2>7 DEF TypeOK
        <5> QED
          BY <5>1 DEF TaskOrNone
      <4> QED
        BY <2>2, <3>4, <4>1
    <3>6. job'[t].path \subseteq job'[new].path
      BY <2>2, <2>3, <3>4
    <3> QED
      BY <2>7, <3>4, <3>5, <3>6
  <2>8. CASE w # new
    <3>1. w < new
      BY <2>2, <2>4, <2>8 DEF LiveStates
    <3> QED
      BY <1>0, <2>2, <2>3, <2>4, <2>5, <2>8, <3>1
  <2> QED
    BY <2>6, <2>7, <2>8
<1>5. CASE Embarks
  <2> DEFINE new == spawned + 1
  <2>1. PICK d \in Def : Creates(d, {}, new)
    BY <1>5 DEF Embarks
  <2>2. /\ \A x \in Task \ {new} : st'[x] = st[x] /\ on'[x] = on[x]
        /\ new \in Task /\ st[new] = "unborn" /\ st'[new] = "queued"
        /\ \A x \in Task \ {new} : job'[x] = job[x]
        /\ job'[new].flight = new
    BY <1>5, <2>1 DEF Embarks, Creates
  <2>3. t # new
    BY <1>0, <2>2 DEF LiveStates
  <2>4. st[t] \in LiveStates /\ job'[t].flight <= spawned /\ job'[t].flight \in Nat
    BY <1>0, <2>2, <2>3 DEF PathsKept, LiveStates, TasksBorn, Job, Task
  <2>5. w # new
    BY <1>0, <2>2, <2>4
  <2>6. st[w] \in LiveStates /\ w <= spawned
    BY <1>0, <2>2, <2>5 DEF LiveStates
  <2>7. /\ job[t].path \subseteq job[w].path
        /\ st[t] = "waiting" /\ t < on[t] /\ on[t] <= w /\ on[t] \in Task
        /\ job[on[t]].flight = job[t].flight
        /\ st[on[t]] \in LiveStates \cup {"cancelled"}
    BY <1>0, <1>1, <2>2, <2>3, <2>4, <2>5, <2>6
  <2>8. on[t] # new
    BY <2>6, <2>7
  <2> QED
    BY <2>2, <2>3, <2>5, <2>7, <2>8
<1> QED
  BY <1>2, <1>3, <1>4, <1>5, TasksMove

\* The initial state satisfies the invariant.
LEMMA InitInv ==
  Init => Inv
<1> SUFFICES ASSUME Init PROVE Inv
  OBVIOUS
<1> TaskLimit \in Nat /\ OwnerOf \in [Def -> Frame]
  BY ConstantsAssumption
<1>1. TypeOK
  BY DEF Init, TypeOK, Idle, NoCall, Unanswered, LiveStates, EndStates
<1>2. /\ spawned = 0 /\ cancelReq = {}
      /\ \A t \in Task : st[t] = "unborn" /\ job[t] = NoJob
      /\ \A d \in Def : inflight[d] = NoTask /\ refreshes[d] = NoTask /\ results[d] = NoTask
      /\ \A f \in Frame : phase[f] = "open" /\ retired[f] = {} /\ toRelease[f] = {} /\ released[f] = {}
      /\ \A c \in Caller : call[c] = Idle /\ answer[c] = Unanswered
      /\ \A d \in Def : failed[d] = NoTask /\ history[d] = << >>
  BY DEF Init
<1>3. TasksBorn /\ WaitsNamed /\ FiledByDefinition /\ OwnersRegistered /\ ClosePhases
      /\ NothingCachedWhenClosed /\ CancelsFromClose
  BY <1>2 DEF TasksBorn, WaitsNamed, FiledByDefinition, OwnersRegistered, Undisturbed, ClosePhases,
     NothingCachedWhenClosed, CancelsFromClose, CancellationHasCause, Live, Ended, LiveStates, EndStates, Idle
<1>4. \A f \in Frame : Held(f) = {} /\ Committed(f) = {}
  BY <1>2 DEF Held, Committed, Cached, DefsOf
<1>5. ObjectsTracked
  BY <1>2, <1>4 DEF ObjectsTracked
<1>6. ObjectsCreated
  BY DEF Init, ObjectsCreated
<1>7. RegistrationsPending /\ LatestShown /\ CallsTracked /\ AnswerCurrent
  BY <1>2 DEF RegistrationsPending, LatestShown, Cached, CachedFailure, CallsTracked, CallTracked,
     AnswerCurrent, Answered, Idle, NoCall, Unanswered
<1>8. InputsTracked /\ InputsCurrent /\ PathsKept /\ FlightsLine
  <2>1. \A t \in Task : seen[t] = 0
    BY DEF Init
  <2> QED
    BY <1>2, <2>1 DEF InputsTracked, InputsCurrent, Answered, PathsKept, FlightsLine, Below, Live,
       LiveStates, Idle, NoCall, Unanswered
<1> QED
  BY <1>1, <1>3, <1>5, <1>6, <1>7, <1>8 DEF Inv

\* Every step preserves the invariant.
LEMMA InvStep ==
  Inv /\ [Next]_vars => Inv'
<1> SUFFICES ASSUME Inv, [Next]_vars PROVE Inv'
  OBVIOUS
<1>1. TypeOK'
  BY TypeStep
<1> QED
  BY <1>1, BornStep, WaitsStep, FiledStep, OwnersStep, PhasesStep, ClosedStep, ObjectsStep,
     CancelsStep, CreatedStep, PendingStep, LatestStep, CallsStep, AnswersStep,
     InputsStep, InputsAnswered, PathsStep, LineStep DEF Inv

----------------------------------------------------------------------------
\* The theorems.

\* The inductive invariant holds in every reachable state: registrations,
\* snapshots, objects and cancellations fit together as FrameInvariant says.
THEOREM InvHolds == Spec => []Inv
BY InitInv, InvStep, PTL DEF Spec

\* Registrations, snapshots and objects always name tasks, whatever host code
\* raises, swallows or cancels.
THEOREM TypeCorrect == Spec => []TypeOK
<1>1. Inv => TypeOK
  BY DEF Inv
<1> QED
  BY <1>1, InvHolds, PTL

\* get and recalculate share one owner task per definition
\* (internal_refresh_definition, read_binding_result), until an owner task is
\* cancelled by something other than its Frame's close.
THEOREM OneOwnerTask == Spec => []SingleOwner
<1>1. Inv => SingleOwner
  <2> SUFFICES ASSUME Inv, NEW t \in Task, NEW u \in Task, Live(t), Live(u),
                      DefOf(t) = DefOf(u), DefOf(t) \notin aborted
               PROVE  t = u
    BY DEF SingleOwner
  <2>1. DefOf(t) \in Def
    BY LiveHasDef DEF Inv
  <2>2. Undisturbed(DefOf(t))
    BY <2>1 DEF Inv, OwnersRegistered
  <2> QED
    BY <2>2 DEF Undisturbed
<1> QED
  BY <1>1, InvHolds, PTL

\* Once a Frame is closed none of its owner tasks is left to run, and its cache
\* stays empty (internal_run_close).
THEOREM CloseSettlesEverything == Spec => []ClosedIsQuiet
<1>1. Inv => ClosedIsQuiet
  <2> SUFFICES ASSUME Inv, NEW f \in Frame, phase[f] = "closed", NEW d \in DefsOf(f) \ aborted
               PROVE  /\ ~Cached(d) /\ ~CachedFailure(d)
                      /\ \A t \in Task : DefOf(t) = d => ~Live(t)
    BY DEF ClosedIsQuiet
  <2> QED
    BY DEF Inv, NothingCachedWhenClosed, ClosePhases
<1> QED
  BY <1>1, InvHolds, PTL

\* close releases exactly the objects the Frame's evaluations ever published,
\* replaced snapshots included (commit_result, commit_failure and the list
\* internal_run_close builds).
THEOREM CloseReleasesEverything == Spec => []EveryObjectReleased
<1>1. Inv => EveryObjectReleased
  BY DEF Inv, ObjectsTracked, EveryObjectReleased
<1> QED
  BY <1>1, InvHolds, PTL

\* A cancelled owner task always has a closing Frame in its lineage to blame:
\* cancelling a waiting caller reaches no owner task (asyncio.shield).
THEOREM CancellationIsolated == Spec => []CancellationHasCause
<1>1. Inv => CancellationHasCause
  BY DEF Inv, CancelsFromClose
<1> QED
  BY <1>1, InvHolds, PTL

\* Nobody is answered with a snapshot older than the request allows, and a
\* recalculation only by a refresh that published after it was asked for
\* (read_binding_result, internal_refresh_definition).
THEOREM AnswersAreCurrent == Spec => []AnswerCurrent
<1>1. Inv => AnswerCurrent
  BY DEF Inv
<1> QED
  BY <1>1, InvHolds, PTL

\* A recalculation that found no refresh registered sees the host inputs of its
\* request: whichever refresh it takes up after an evaluation it waited for
\* (internal_refresh_definition rereads the table) started later than the request.
THEOREM RecalculationSeesInputs == Spec => []InputsCurrent
<1>1. Inv => InputsCurrent
  BY DEF Inv
<1> QED
  BY <1>1, InvHolds, PTL

\* The step part of SnapshotStable: a settled definition is republished only by
\* a task that is live and not a first evaluation, hence a registered refresh.
LEMMA SnapshotStepHolds ==
  ASSUME Inv, [Next]_vars PROVE SnapshotStep
<1> TypeOK /\ OwnersRegistered
  BY DEF Inv
<1> SUFFICES ASSUME NEW d \in Def, d \notin aborted, Cached(d) \/ CachedFailure(d),
                    results'[d] # results[d] \/ failed'[d] # failed[d]
             PROVE  \/ refreshes[d] # NoTask /\ history'[d] # history[d]
                    \/ phase'[OwnerOf[d]] = "closed"
  BY DEF SnapshotStep
<1>1. CASE Calm \/ \E e \in Def, kind \in Kind : Birth(e, kind)
  BY <1>1 DEF Calm, Birth, cacheVars
<1>2. ASSUME NEW t \in Task, Returns(t) \/ Raises(t) PROVE refreshes[d] # NoTask /\ history'[d] # history[d]
  <2>1. DefOf(t) = d
    BY <1>2 DEF Returns, Raises, CommitResult, CommitFailure, TypeOK
  <2>2. Live(t) /\ job[t] \in Job
    BY <1>2 DEF Returns, Raises, Ends, Inv, TasksBorn, Live, LiveStates
  <2>3. Undisturbed(d) /\ job[t].kind \in {"initial", "refresh"}
    BY <2>2 DEF OwnersRegistered, Job, Kind
  <2>4. refreshes[d] = t
    BY <2>1, <2>2, <2>3 DEF Undisturbed
  <2>5. history' = [history EXCEPT ![d] = Append(history[d], t)]
    BY <1>2, <2>1 DEF Returns, Raises, CommitResult, CommitFailure
  <2>6. history[d] \in Seq(Task)
    BY DEF TypeOK
  <2>7. Len(Append(history[d], t)) = Len(history[d]) + 1
    BY <2>6
  <2>8. history'[d] = Append(history[d], t)
    BY <2>5 DEF TypeOK
  <2>9. Append(history[d], t) # history[d]
    BY <2>6, <2>7
  <2> QED
    BY <2>4, <2>8, <2>9
<1>3. ASSUME NEW t \in Task, Aborts(t) \/ DropUnstarted(t) PROVE FALSE
  BY <1>3 DEF Aborts, DropUnstarted, cacheVars
<1>4. ASSUME NEW f \in Frame, Closing(f) \/ CloseStep(f) PROVE phase'[OwnerOf[d]] = "closed"
  <2>1. ClearFrame(f) /\ OwnerOf[d] = f
    BY ZenonT(40), <1>4 DEF Closing, CloseStep, CancelInflight, CollectResources, ReleaseResource, ClearFrame,
                cacheVars, TypeOK
  <2> QED
    BY <2>1 DEF ClearFrame, TypeOK
<1> QED
  BY <1>1, <1>2, <1>3, <1>4, StepHasShape DEF Shapes

\* A snapshot is replaced only by a registered recalculation and dropped only by
\* the Frame's close: get never disturbs it (commit_result, commit_failure).
THEOREM SnapshotsStable == Spec => SnapshotStable
<1>1. Inv /\ [Next]_vars => [SnapshotStep]_vars
  BY SnapshotStepHolds
<1> QED
  BY <1>1, InvHolds, PTL DEF Spec, SnapshotStable

\* Bodies wait for the definitions they read, so owner tasks never wait in a
\* circle when the definitions can be ranked below their readers.  The flight
\* path check of internal_evaluation_flight_check_cycle is not needed for that;
\* for circular definitions it is not enough (runtime.md promises it is).
THEOREM AcyclicNeverDeadlocks ==
  ASSUME NEW rank \in [Def -> Nat],
         \A d \in Def : \A i \in DOMAIN Deps[d] : rank[Deps[d][i]] < rank[d]
  PROVE  Spec => []NoOwnerDeadlock
<1>1. Inv => NoOwnerDeadlock
  <2> SUFFICES ASSUME Inv, NEW circle \in SUBSET {t \in Task : st[t] = "waiting"}, circle # {},
                      \A t \in circle : on[t] \in circle
               PROVE  FALSE
    BY DEF NoOwnerDeadlock
  <2>1. ASSUME NEW t \in circle
        PROVE  /\ DefOf(t) \in Def /\ on[t] \in circle
               /\ rank[DefOf(on[t])] < rank[DefOf(t)]
    <3>1. t \in Task /\ st[t] = "waiting"
      OBVIOUS
    <3>2. DefOf(t) \in Def
      BY <3>1, LiveHasDef DEF Inv, Live, LiveStates
    <3>3. \E i \in DOMAIN Deps[DefOf(t)] : Deps[DefOf(t)][i] = DefOf(on[t])
      BY <3>1 DEF Inv, WaitsNamed
    <3> QED
      BY <3>2, <3>3
  <2> DEFINE ranks == {rank[DefOf(t)] : t \in circle}
  <2>2. ranks \subseteq Nat /\ ranks # {}
    BY <2>1
  <2>3. \E n \in ranks : \A m \in ranks : ~(<<m, n>> \in OpToRel(<, Nat))
    <3> HIDE DEF ranks
    <3> QED
      BY <2>2, NatLessThanWellFounded, WFMin
  <2>4. PICK t \in circle : \A m \in ranks : ~(<<m, rank[DefOf(t)]>> \in OpToRel(<, Nat))
    BY <2>3
  <2>5. rank[DefOf(on[t])] \in ranks /\ rank[DefOf(on[t])] \in Nat /\ rank[DefOf(t)] \in Nat
    BY <2>1
  <2>6. <<rank[DefOf(on[t])], rank[DefOf(t)]>> \in OpToRel(<, Nat)
    BY <2>1, <2>5 DEF OpToRel
  <2> QED
    BY <2>4, <2>5, <2>6
<1> QED
  BY <1>1, InvHolds, PTL

\* Whatever the definitions read, the flight path check of internal_check_cycle
\* keeps the tasks of one flight from waiting for each other in a circle: the
\* latest of them would wait for one above it, whose definition is on its path.
THEOREM CirclesCrossFlights == Spec => []CircleNeedsTwoFlights
<1>1. Inv => CircleNeedsTwoFlights
  <2> SUFFICES ASSUME Inv, NEW circle \in SUBSET {t \in Task : st[t] = "waiting"}, circle # {},
                      \A t \in circle : on[t] \in circle,
                      \A t, u \in circle : job[t].flight = job[u].flight
               PROVE  FALSE
    BY DEF CircleNeedsTwoFlights
  <2>1. TaskLimit \in Nat /\ \A t \in circle : t \in Nat /\ t <= TaskLimit /\ t \in Task
    BY ConstantsAssumption DEF Task
  <2> DEFINE gaps == {TaskLimit - t : t \in circle}
  <2>2. gaps \subseteq Nat /\ gaps # {}
    <3>1. ASSUME NEW t \in circle PROVE TaskLimit - t \in Nat
      BY <2>1
    <3> QED
      BY <3>1
  <2>3. \E n \in gaps : \A m \in gaps : ~(<<m, n>> \in OpToRel(<, Nat))
    <3> HIDE DEF gaps
    <3> QED
      BY <2>2, NatLessThanWellFounded, WFMin
  <2>4. PICK t \in circle : \A m \in gaps : ~(<<m, TaskLimit - t>> \in OpToRel(<, Nat))
    BY <2>3
  <2>5. PICK u \in circle : u = on[t]
    OBVIOUS
  <2>6. u <= t
    <3>1. <<TaskLimit - u, TaskLimit - t>> \notin OpToRel(<, Nat)
      BY <2>4
    <3>2. TaskLimit - u \in Nat /\ TaskLimit - t \in Nat
      BY <2>1
    <3> QED
      BY <2>1, <3>1, <3>2 DEF OpToRel
  <2>7. /\ st[t] = "waiting" /\ st[u] = "waiting"
        /\ DefOf(u) \in job[u].path /\ DefOf(u) \notin job[t].path
    BY <2>1, <2>5 DEF Inv, PathsKept
  <2>8. job[u].path \subseteq job[t].path
    <3>1. CASE u < t
      BY <2>1, <2>7, <3>1 DEF Inv, FlightsLine, Below, Live, LiveStates
    <3> QED
      BY <2>1, <2>6, <3>1
  <2> QED
    BY <2>7, <2>8
<1> QED
  BY <1>1, InvHolds, PTL

-----------------------------------------------------------------------------
\* FrameEvaluation implements SnapshotStore (FrameRefinement): its initial states map
\* to the store's, and every step maps to a step of the store or to a stutter.  The
\* hypothesis that no owner task is cancelled in an open Frame is needed: after such a
\* cancellation an evaluation can outlive its registration, and publish while its
\* Frame disposes of its objects.

USE DEF Task, NoTask, TaskOrNone, Store!None

\* The initial state of a hierarchy is an empty, open store.
LEMMA StoreInit ==
  ASSUME Init PROVE Store!Init
<1>1. /\ \A d \in Def : results[d] = NoTask /\ failed[d] = NoTask
      /\ \A f \in Frame : phase[f] = "open" /\ retired[f] = {}
      /\ released = [f \in Frame |-> {}]
      /\ \A c \in Caller : call[c] = Idle /\ answer[c] = Unanswered
  BY DEF Init
<1>2. Shown = [d \in Def |-> NoTask] /\ Life = [f \in Frame |-> "open"]
  BY <1>1 DEF Shown, Cached, Life, LifeOf
<1>3. Owned = [f \in Frame |-> {}]
  BY <1>1 DEF Owned, Held, Cached, DefsOf
<1>4. /\ Wanted = [c \in Caller |-> {}] /\ Acceptable = [c \in Caller |-> {}]
      /\ Served = [c \in Caller |-> NoTask]
  BY <1>1 DEF Wanted, Requests, Acceptable, AnswersFor, Served, ServedBy, Idle, NoCall, Unanswered
<1> QED
  BY <1>1, <1>2, <1>3, <1>4 DEF Store!Init

\* What the store's users see of the cache depends on these variables only.
LEMMA CacheUnseen ==
  ASSUME UNCHANGED <<results, failed, retired, val, phase, released>>
  PROVE  UNCHANGED <<Shown, Life, Owned, released>>
BY DEF Shown, Life, LifeOf, Owned, Held, Cached, DefsOf

\* ... and of a caller on its record, its answer and the publications.
LEMMA CallerUnseen ==
  ASSUME NEW c \in Caller, call'[c].ask = call[c].ask, call'[c].since = call[c].since,
         answer'[c].how = "closed" <=> answer[c].how = "closed",
         history' = history
  PROVE  Requests(c)' = Requests(c) /\ AnswersFor(c)' = AnswersFor(c)
BY DEF Requests, AnswersFor, Counts, FromNow

LEMMA CallersUnseen ==
  ASSUME UNCHANGED <<call, answer, history>>
  PROVE  UNCHANGED <<Wanted, Acceptable, Served>>
<1>1. ASSUME NEW c \in Caller
      PROVE  Requests(c)' = Requests(c) /\ AnswersFor(c)' = AnswersFor(c) /\ ServedBy(c)' = ServedBy(c)
  BY CallerUnseen DEF ServedBy
<1> QED
  BY <1>1 DEF Wanted, Acceptable, Served

\* One caller's step changes what is seen of that caller alone.
LEMMA OneCaller ==
  ASSUME NEW c \in Caller, history' = history,
         \A b \in Caller : b # c => call'[b] = call[b] /\ answer'[b] = answer[b]
  PROVE  /\ Wanted' = [Wanted EXCEPT ![c] = Requests(c)']
         /\ Acceptable' = [Acceptable EXCEPT ![c] = AnswersFor(c)']
         /\ Served' = [Served EXCEPT ![c] = ServedBy(c)']
<1>1. ASSUME NEW b \in Caller, b # c
      PROVE  Requests(b)' = Requests(b) /\ AnswersFor(b)' = AnswersFor(b) /\ ServedBy(b)' = ServedBy(b)
  <2>1. call'[b] = call[b] /\ answer'[b] = answer[b]
    BY <1>1
  <2> QED
    BY <2>1, CallerUnseen DEF ServedBy
<1> QED
  BY <1>1 DEF Wanted, Acceptable, Served

\* What an answered or a waiting caller is entitled to.
LEMMA Entitled ==
  ASSUME NEW c \in Caller, call[c].ask \in Request, NEW d, d = call[c].ask.def, NEW x
  PROVE  /\ Requests(c) = {d}
         /\ x \in AnswersFor(c) <=> \E i \in DOMAIN history[d] : x = history[d][i] /\ Counts(c, i)
<1>1. Requests(c) = {d}
  BY DEF Requests, Request
<1> QED
  BY <1>1 DEF AnswersFor


----------------------------------------------------------------------------
\* The steps of callers.

\* An idle caller has asked for nothing.
LEMMA IdleUnseen ==
  ASSUME NEW c \in Caller, CallTracked(c), call[c].at = "idle"
  PROVE  Requests(c) = {} /\ AnswersFor(c) = {} /\ ServedBy(c) = NoTask
BY DEF CallTracked, Idle, NoCall, Unanswered, Requests, AnswersFor, ServedBy

\* A request that is refused, answered from a snapshot, or made to wait.
LEMMA RequestStep ==
  ASSUME Inv, NEW c \in Caller, Alone(c), Refuses(c) \/ Snaps(c) \/ BeginsWait(c)
  PROVE  \E d \in Def : Store!Request(c, d)
<1> TypeOK /\ LatestShown /\ CallTracked(c)
  BY DEF Inv, CallsTracked
<1>1. PICK q \in Request, at \in {"owner", "initial", "done"}, y \in TaskOrNone :
        /\ call[c].at = "idle"
        /\ call'[c] = NewCall(q, at, y)
        /\ \/ answer'[c].how = "closed"
           \/ at # "done" /\ answer'[c] = answer[c] /\ IsOpen(OwnerOf[q.def])
                /\ (q.op = "get" => ~Cached(q.def) /\ ~CachedFailure(q.def))
           \/ /\ q.op = "get"
              /\ \/ Cached(q.def) /\ answer'[c] = [how |-> "value", of |-> results[q.def]]
                 \/ /\ ~Cached(q.def) /\ CachedFailure(q.def)
                    /\ answer'[c] = [how |-> "failure", of |-> failed[q.def]]
  <2>1. CASE Refuses(c)
    BY <2>1, TaskNames DEF Refuses
  <2>2. CASE Snaps(c)
    BY <2>2, TaskNames DEF Snaps
  <2>3. CASE BeginsWait(c)
    BY <2>3, TaskNames DEF BeginsWait
  <2> QED
    BY <2>1, <2>2, <2>3
<1>2. PICK d \in Def : d = q.def /\ OwnerOf[d] \in Frame
  BY ConstantsAssumption DEF Request
<1>3. /\ history[d] \in Seq(Task) /\ history' = history
      /\ call'[c].at = at /\ call'[c].ask = q /\ call'[c].since = Len(history[d])
      /\ q.op \in {"get", "recalculate"}
  BY <1>1, <1>2 DEF TypeOK, Alone, NewCall, Request
<1>4. PICK n \in Nat : n = Len(history[d]) /\ DOMAIN history[d] = 1 .. n
  BY <1>3
<1>5. Requests(c)' = {d}
  BY <1>2, <1>3 DEF Requests
<1>6. \A x : x \in AnswersFor(c)' <=> FromNow(c)' /\ n > 0 /\ x = history[d][n]
  <2>1. \A j \in DOMAIN history[d] : Counts(c, j)' <=> FromNow(c)' /\ j = n
    BY <1>3, <1>4 DEF Counts
  <2>2. n > 0 <=> n \in DOMAIN history[d]
    BY <1>4
  <2>3. \A x : x \in AnswersFor(c)' <=> \E j \in DOMAIN history[d] : x = history[d][j] /\ Counts(c, j)'
    BY <1>3, <1>5 DEF AnswersFor
  <2> QED
    BY <2>1, <2>2, <2>3
<1>7. UNCHANGED <<Shown, Life, Owned, released>>
  <2>1. phase' = phase
    BY <1>1, <1>3 DEF Alone, AsksClose
  <2> QED
    BY <2>1, CacheUnseen DEF Alone
<1>8. /\ Wanted[c] = {}
      /\ Wanted' = [Wanted EXCEPT ![c] = {d}]
      /\ Acceptable' = [Acceptable EXCEPT ![c] = AnswersFor(c)']
      /\ Served' = [Served EXCEPT ![c] = ServedBy(c)']
  BY <1>1, <1>3, <1>5, OneCaller, IdleUnseen DEF Alone, Wanted
<1>9. \/ AnswersFor(c)' = {} /\ ServedBy(c)' = NoTask
      \/ /\ AnswersFor(c)' = {Shown[d]} \ {NoTask}
         /\ ServedBy(c)' \in AnswersFor(c)'
  <2>1. CASE answer'[c].how = "closed"
    BY <1>6, <2>1 DEF FromNow, ServedBy
  <2>2. CASE /\ at # "done" /\ answer'[c] = answer[c] /\ IsOpen(OwnerOf[q.def])
             /\ (q.op = "get" => ~Cached(q.def) /\ ~CachedFailure(q.def))
    <3>1. answer'[c] = Unanswered
      BY <1>1, <2>2 DEF CallTracked
    <3>2. FromNow(c)' => n = 0
      BY <1>2, <1>3, <1>4, <2>2 DEF FromNow, LatestShown, IsOpen
    <3> QED
      BY <1>6, <3>1, <3>2 DEF ServedBy, Unanswered
  <2>3. CASE /\ q.op = "get"
             /\ \/ Cached(q.def) /\ answer'[c] = [how |-> "value", of |-> results[q.def]]
                \/ /\ ~Cached(q.def) /\ CachedFailure(q.def)
                   /\ answer'[c] = [how |-> "failure", of |-> failed[q.def]]
    <3>1. /\ n > 0 /\ Shown[d] = history[d][n] /\ Shown[d] # NoTask
          /\ answer'[c].of = Shown[d] /\ answer'[c].how \in {"value", "failure"}
      BY <1>2, <1>4, <2>3 DEF LatestShown, Shown, Cached, CachedFailure
    <3>2. FromNow(c)'
      BY <1>3, <2>3, <3>1 DEF FromNow
    <3>3. AnswersFor(c)' = {Shown[d]} \ {NoTask}
      BY <1>6, <3>1, <3>2
    <3> QED
      BY <3>1, <3>3 DEF ServedBy
  <2> QED
    BY <1>1, <2>1, <2>2, <2>3
<1> QED
  <2>1. \E now \in {{}, {Shown[d]} \ {NoTask}} :
          /\ Acceptable' = [Acceptable EXCEPT ![c] = now]
          /\ \E x \in now \cup {NoTask} : Served' = [Served EXCEPT ![c] = x]
    BY <1>8, <1>9
  <2> QED
    BY <1>7, <1>8, <2>1 DEF Store!Request


\* A wait that ends because a Frame is closed is not a get's.
LEMMA ClosedAnswer ==
  ASSUME NEW c, IsAnswered(c), answer'[c].how = "closed"
  PROVE  call[c].at \in {"initial", "close"}
<1>1. ASSUME NEW how \in {"value", "failure", "cancelled"}, NEW of,
             answer'[c] = [how |-> how, of |-> of]
      PROVE  FALSE
  BY <1>1
<1>2. PICK of \in TaskOrNone, how \in {"cancelled", "closed"} :
        /\ call[c].at \in {"owner", "initial", "close"}
        /\ how = "closed" => call[c].at # "owner"
        /\ answer'[c] = [how |-> how, of |-> of]
  BY Zenon, <1>1 DEF IsAnswered
<1> QED
  BY <1>2

\* The first close of a Frame is the store's.
LEMMA OpenToClosing ==
  ASSUME TypeOK, NEW f \in Frame, IsOpen(f), phase' = [phase EXCEPT ![f] = "closing"],
         UNCHANGED <<results, failed, retired, val, released>>
  PROVE  /\ UNCHANGED <<Shown, Owned, released>>
         /\ Life[f] = "open" /\ Life' = [Life EXCEPT ![f] = "closing"]
<1>1. phase'[f] = "closing" /\ \A g \in Frame : g # f => phase'[g] = phase[g]
  BY DEF TypeOK
<1>2. Shown' = Shown
  BY DEF Shown, Cached
<1>3. Owned' = Owned
  <2>1. \A g \in Frame : Held(g)' = Held(g) /\ (phase'[g] = "closed" <=> phase[g] = "closed")
    BY <1>1 DEF Held, Cached, DefsOf, IsOpen
  <2> QED
    BY <2>1 DEF Owned
<1>4. Life[f] = "open" /\ Life' = [Life EXCEPT ![f] = "closing"]
  <2>1. LifeOf(f) = "open" /\ LifeOf(f)' = "closing"
    BY <1>1 DEF LifeOf, IsOpen
  <2>2. \A g \in Frame : g # f => LifeOf(g)' = LifeOf(g)
    BY <1>1 DEF LifeOf
  <2> QED
    BY <2>1, <2>2 DEF Life
<1> QED
  BY <1>2, <1>3, <1>4

\* A caller that is answered by the owner task it waits for is answered by one
\* of the publications it may be answered by.
LEMMA ServeStep ==
  ASSUME Inv, NEW c \in Caller, Alone(c), IsAnswered(c)
  PROVE  Store!Serve(c) \/ UNCHANGED <<Shown, Life, Owned, released, Wanted, Acceptable, Served>>
<1> TypeOK /\ WaitsNamed /\ CallTracked(c)
  BY DEF Inv, CallsTracked
<1>1. /\ call[c] \in [at : {"idle", "owner", "initial", "close", "done"},
                      ask : Call \cup {NoCall}, on : TaskOrNone, since : Nat, asked : Nat]
      /\ call'[c].ask = call[c].ask /\ call'[c].since = call[c].since
      /\ call[c].at \in {"owner", "initial", "close"}
      /\ answer[c] = Unanswered /\ history' = history
  <2>1. call[c] \in [at : {"idle", "owner", "initial", "close", "done"},
                      ask : Call \cup {NoCall}, on : TaskOrNone, since : Nat, asked : Nat]
    BY DEF TypeOK
  <2>2. /\ call[c].at \in {"owner", "initial", "close"}
        /\ call'[c] = [call[c] EXCEPT !.at = "done", !.on = NoTask]
    BY DEF IsAnswered
  <2>3. answer[c] = Unanswered /\ history' = history
    BY <2>2 DEF CallTracked, Alone
  <2> QED
    BY <2>1, <2>2, <2>3
<1>2. UNCHANGED <<Shown, Life, Owned, released>>
  <2>1. ~AsksClose(c)
    BY <1>1 DEF AsksClose
  <2>2. phase' = phase
    BY <2>1 DEF Alone
  <2> QED
    BY <2>2, CacheUnseen DEF Alone
<1>3. /\ Wanted' = [Wanted EXCEPT ![c] = Requests(c)']
      /\ Acceptable' = [Acceptable EXCEPT ![c] = AnswersFor(c)']
      /\ Served' = [Served EXCEPT ![c] = ServedBy(c)']
      /\ Wanted \in [Caller -> {Wanted[b] : b \in Caller}] /\ Wanted[c] = Requests(c)
      /\ Acceptable \in [Caller -> {Acceptable[b] : b \in Caller}] /\ Acceptable[c] = AnswersFor(c)
      /\ Served \in [Caller -> {Served[b] : b \in Caller}] /\ Served[c] = NoTask
  <2>1. ServedBy(c) = NoTask
    BY <1>1 DEF ServedBy, Unanswered
  <2> QED
    BY <1>1, <2>1, OneCaller DEF Alone, Wanted, Acceptable, Served
<1>4. Requests(c)' = Requests(c) /\ AnswersFor(c)' = AnswersFor(c)
  <2>1. CASE answer'[c].how # "closed"
    BY <1>1, <2>1, CallerUnseen DEF Unanswered
  <2>2. CASE answer'[c].how = "closed"
    <3>1. call[c].at \in {"initial", "close"} /\ call[c].ask.op # "get"
      BY <2>2, ClosedAnswer DEF CallTracked
    <3>2. FromNow(c)' = FromNow(c)
      BY <1>1, <3>1 DEF FromNow
    <3> QED
      BY <1>1, <3>2 DEF Requests, AnswersFor, Counts
  <2> QED
    BY <2>1, <2>2
<1>5. UNCHANGED <<Wanted, Acceptable>>
  BY <1>3, <1>4
<1>6. CASE answer'[c].how \in {"value", "failure"}
  <2>1. call[c].at = "owner" /\ Settled(call[c].on) /\ answer'[c].of = call[c].on
    BY <1>6, AnsweredByOwner
  <2>2. PICK d \in Def : d = call[c].ask.def /\ call[c].ask \in Request
    BY <2>1 DEF WaitsNamed, Request
  <2>3. PublishedAfter(call[c].on, d, call[c].since)
    BY <2>1, <2>2 DEF CallTracked
  <2>4. call[c].on \in AnswersFor(c)
    BY <2>2, <2>3, Entitled DEF PublishedAfter, Counts
  <2>5. ServedBy(c)' = call[c].on
    BY <1>6, <2>1 DEF ServedBy
  <2> QED
    BY <1>2, <1>3, <1>5, <2>4, <2>5 DEF Store!Serve
<1>7. CASE answer'[c].how \notin {"value", "failure"}
  <2>1. ServedBy(c)' = NoTask
    BY <1>7 DEF ServedBy
  <2>2. Served' = Served
    BY <1>3, <2>1
  <2> QED
    BY <1>2, <1>5, <2>2
<1> QED
  BY <1>6, <1>7

\* Asking for a close, or turning from one owner task to the next, is not seen
\* of the caller.
LEMMA UnseenStep ==
  ASSUME Inv, NEW c \in Caller, Alone(c), AsksClose(c) \/ TurnsToRefresh(c)
  PROVE  /\ UNCHANGED <<Wanted, Acceptable, Served>>
         /\ \/ UNCHANGED <<Shown, Life, Owned, released>>
            \/ \E f \in Frame : Store!BeginClose(f)
<1> TypeOK /\ CallTracked(c)
  BY DEF Inv, CallsTracked
<1>1. Requests(c)' = Requests(c) /\ AnswersFor(c)' = AnswersFor(c) /\ ServedBy(c)' = ServedBy(c)
  <2>1. CASE TurnsToRefresh(c)
    <3>1. /\ call'[c].ask = call[c].ask /\ call'[c].since = call[c].since
          /\ answer'[c] = answer[c] /\ history' = history
      BY <2>1 DEF TurnsToRefresh, Alone, TypeOK
    <3> QED
      BY <3>1, CallerUnseen DEF ServedBy
  <2>2. CASE AsksClose(c)
    <3>1. call[c].at = "idle" /\ answer'[c] = answer[c] /\ call'[c].ask.op = "close"
      BY <2>2 DEF AsksClose
    <3>2. Requests(c)' = {} /\ AnswersFor(c)' = {} /\ ServedBy(c)' = ServedBy(c)
      BY <3>1 DEF Requests, AnswersFor, ServedBy
    <3> QED
      BY <3>1, <3>2, IdleUnseen
  <2> QED
    BY <2>1, <2>2
<1>2. UNCHANGED <<Wanted, Acceptable, Served>>
  <2>1. /\ Wanted' = [Wanted EXCEPT ![c] = Requests(c)'] /\ Wanted[c] = Requests(c)
        /\ Acceptable' = [Acceptable EXCEPT ![c] = AnswersFor(c)'] /\ Acceptable[c] = AnswersFor(c)
        /\ Served' = [Served EXCEPT ![c] = ServedBy(c)'] /\ Served[c] = ServedBy(c)
        /\ Wanted \in [Caller -> {Wanted[b] : b \in Caller}]
        /\ Acceptable \in [Caller -> {Acceptable[b] : b \in Caller}]
        /\ Served \in [Caller -> {Served[b] : b \in Caller}]
    BY OneCaller DEF Alone, Wanted, Acceptable, Served
  <2> QED
    BY <1>1, <2>1
<1>3. CASE phase' = phase
  BY <1>2, <1>3, CacheUnseen DEF Alone
<1>4. ASSUME NEW f \in Frame, IsOpen(f), phase' = [phase EXCEPT ![f] = "closing"]
      PROVE  Store!BeginClose(f)
  BY <1>2, <1>4, OpenToClosing DEF Alone, Store!BeginClose
<1> QED
  BY <1>2, <1>3, <1>4 DEF Alone

----------------------------------------------------------------------------
\* The steps of owner tasks and of the close task.

\* Appending keeps what is there and adds one element at the end.
LEMMA AppendExtends ==
  ASSUME NEW S, NEW s \in Seq(S), NEW x \in S
  PROVE  \E n \in Nat : /\ n = Len(s) /\ DOMAIN s = 1 .. n
                        /\ DOMAIN Append(s, x) = 1 .. (n + 1)
                        /\ Append(s, x)[n + 1] = x
                        /\ \A i \in 1 .. n : Append(s, x)[i] = s[i]
OBVIOUS

\* The definition a caller has requested.
LEMMA RequestedDef ==
  ASSUME Inv, NEW c \in Caller, NEW d \in Requests(c)
  PROVE  call[c].ask \in Request /\ d = call[c].ask.def /\ Requests(c) = {d} /\ d \in Def
BY DEF Requests, Request, Inv, CallsTracked, CallTracked

\* A publication is accepted by whoever has asked for its definition.
LEMMA PublicationSeen ==
  ASSUME Inv, NEW d \in Def, NEW t \in Task, UNCHANGED <<call, answer>>,
         history' = [history EXCEPT ![d] = Append(@, t)]
  PROVE  /\ UNCHANGED <<Wanted, Served>>
         /\ Acceptable' = [c \in Caller |->
              IF d \in Wanted[c] THEN Acceptable[c] \cup {t} ELSE Acceptable[c]]
<1> TypeOK /\ CallsTracked
  BY DEF Inv
<1>1. UNCHANGED <<Wanted, Served>>
  BY DEF Wanted, Requests, Served, ServedBy
<1>2. ASSUME NEW c \in Caller
      PROVE  AnswersFor(c)' = IF d \in Requests(c) THEN AnswersFor(c) \cup {t} ELSE AnswersFor(c)
  <2>1. Requests(c)' = Requests(c) /\ \A i : Counts(c, i)' <=> Counts(c, i)
    BY DEF Requests, Counts, FromNow
  <2>2. CASE d \notin Requests(c)
    <3>1. \A e \in Requests(c) : history'[e] = history[e]
      BY <2>2, RequestedDef DEF TypeOK
    <3> QED
      BY <2>1, <2>2, <3>1 DEF AnswersFor
  <2>3. CASE d \in Requests(c)
    <3>1. call[c].ask \in Request /\ d = call[c].ask.def /\ Requests(c) = {d}
      BY <2>3, RequestedDef
    <3>2. PICK n \in Nat : /\ n = Len(history[d]) /\ DOMAIN history[d] = 1 .. n
                           /\ DOMAIN history'[d] = 1 .. (n + 1)
                           /\ history'[d][n + 1] = t
                           /\ \A i \in 1 .. n : history'[d][i] = history[d][i]
      <4>1. history[d] \in Seq(Task) /\ history'[d] = Append(history[d], t)
        BY DEF TypeOK
      <4> QED
        BY <4>1, AppendExtends
    <3>3. call[c].since \in Nat /\ call[c].since <= n
      BY <3>1, <3>2 DEF CallsTracked, CallTracked, TypeOK, Request
    <3>4. Counts(c, n + 1)
      BY <3>2, <3>3 DEF Counts
    <3>5. \A x : x \in AnswersFor(c) <=> \E i \in 1 .. n : x = history[d][i] /\ Counts(c, i)
      BY <3>1, <3>2, Entitled
    <3>6. \A x : x \in AnswersFor(c)' <=> \E i \in 1 .. (n + 1) : x = history'[d][i] /\ Counts(c, i)
      <4>1. \A x : x \in AnswersFor(c)' <=>
                    \E i \in DOMAIN history'[d] : x = history'[d][i] /\ Counts(c, i)'
        <5>1. Requests(c)' = {d}
          BY <2>1, <3>1
        <5> QED
          BY <5>1 DEF AnswersFor
      <4> QED
        BY <2>1, <3>2, <4>1
    <3>7. \A i : i \in 1 .. (n + 1) <=> i \in 1 .. n \/ i = n + 1
      OBVIOUS
    <3>8. \A x : x \in AnswersFor(c)' <=> x \in AnswersFor(c) \/ x = t
      BY <3>2, <3>4, <3>5, <3>6, <3>7
    <3> QED
      BY <2>3, <3>8
  <2> QED
    BY <2>2, <2>3
<1> QED
  BY <1>1, <1>2 DEF Wanted, Acceptable

\* A settling task publishes into a Frame that still accepts publications.
LEMMA PublishStep ==
  ASSUME Inv, NEW t \in Task, Returns(t) \/ Raises(t), UNCHANGED callVars, aborted = {}
  PROVE  \E d \in Def : \E objects \in {{}} \cup {{v} : v \in Task} : Store!Publish(d, t, objects)
<1> TypeOK /\ ClosePhases /\ ObjectsCreated
  BY DEF Inv
<1>1. PICK d \in Def : d = DefOf(t)
  BY EndingKeeps
<1>2. /\ OwnerOf[d] \in Frame /\ Live(t) /\ UNCHANGED <<phase, released>>
      /\ phase[OwnerOf[d]] \in {"open", "closing", "gathering"}
  <2>1. Live(t) /\ OwnerOf[d] \in Frame /\ UNCHANGED closeVars
    BY <1>1, EndingKeeps, ConstantsAssumption
  <2>2. phase[OwnerOf[d]] \notin {"releasing", "closed"}
    BY <1>1, <2>1 DEF ClosePhases, DefsOf
  <2> QED
    BY <2>1, <2>2 DEF TypeOK, closeVars
<1>3. Life[OwnerOf[d]] \in {"open", "closing"} /\ Life' = Life
  BY <1>2 DEF Life, LifeOf
<1>4. Shown' = [Shown EXCEPT ![d] = t]
  <2>1. \A e \in Def : e # d => results'[e] = results[e] /\ failed'[e] = failed[e]
    BY <1>1 DEF Returns, Raises, CommitResult, CommitFailure, TypeOK
  <2>2. \/ results'[d] = t
        \/ results'[d] = NoTask /\ failed'[d] = t
    BY <1>1 DEF Returns, Raises, CommitResult, CommitFailure, TypeOK
  <2> DEFINE Now(e) == IF Cached(e) THEN results[e] ELSE failed[e]
  <2>3. \A e \in Def : e # d => Now(e)' = Now(e)
    BY <2>1 DEF Cached
  <2>4. Now(d)' = t
    BY <2>2 DEF Cached
  <2>5. Shown = [e \in Def |-> Now(e)] /\ Shown' = [e \in Def |-> Now(e)']
    BY DEF Shown
  <2> HIDE DEF Now
  <2> QED
    BY <2>3, <2>4, <2>5
<1>5. history' = [history EXCEPT ![d] = Append(@, t)]
  BY <1>1 DEF Returns, Raises, CommitResult, CommitFailure
<1>6. PICK objects \in {{}} \cup {{v} : v \in Task} :
        Held(OwnerOf[d])' = Held(OwnerOf[d]) \cup objects
  <2>1. \/ Held(OwnerOf[d])' = Held(OwnerOf[d])
        \/ \E v \in Task : Held(OwnerOf[d])' = Held(OwnerOf[d]) \cup {v}
    BY <1>1, <1>2, PublishingHolds DEF ObjectsCreated
  <2> QED
    BY <2>1
<1>7. Owned' = [Owned EXCEPT ![OwnerOf[d]] = @ \cup objects]
  <2>1. \A f \in Frame : f # OwnerOf[d] => Held(f)' = Held(f)
    BY <1>1, PublishingHolds
  <2> QED
    BY <1>2, <1>6, <2>1 DEF Owned
<1>8. /\ UNCHANGED <<Wanted, Served>>
      /\ Acceptable' = [c \in Caller |->
           IF d \in Wanted[c] THEN Acceptable[c] \cup {t} ELSE Acceptable[c]]
  BY <1>5, PublicationSeen DEF callVars
<1> QED
  BY <1>2, <1>3, <1>4, <1>7, <1>8 DEF Store!Publish

\* A Frame that moves on without being closed holds and shows what it did.
LEMMA SameHoldings ==
  ASSUME TypeOK, NEW f \in Frame, NEW there, there # "closed", phase[f] # "closed",
         phase' = [phase EXCEPT ![f] = there],
         UNCHANGED <<results, failed, retired, val, released>>
  PROVE  UNCHANGED <<Shown, Owned>>
<1>1. Shown' = Shown
  BY DEF Shown, Cached
<1>2. \A g \in Frame : Held(g)' = Held(g) /\ (phase'[g] = "closed" <=> phase[g] = "closed")
  BY DEF Held, Cached, DefsOf, TypeOK
<1> QED
  BY <1>1, <1>2 DEF Owned

\* The store's life of one Frame moves with its phase.
LEMMA LifeMoves ==
  ASSUME TypeOK, NEW f \in Frame, NEW there, phase' = [phase EXCEPT ![f] = there]
  PROVE  Life[f] = LifeOf(f) /\ Life' = [Life EXCEPT ![f] = LifeOf(f)'] /\ phase'[f] = there
<1>1. phase'[f] = there /\ \A g \in Frame : g # f => phase'[g] = phase[g]
  BY DEF TypeOK
<1>2. \A g \in Frame : g # f => LifeOf(g)' = LifeOf(g)
  BY <1>1 DEF LifeOf
<1> QED
  BY <1>1, <1>2 DEF Life

\* The close task's four steps, as the store sees them.
LEMMA CloseStepSeen ==
  ASSUME Inv, NEW f \in Frame, CloseStep(f), UNCHANGED callVars, aborted = {}
  PROVE  \/ UNCHANGED <<Shown, Life, Owned, released, Wanted, Acceptable, Served>>
         \/ Store!BeginDisposal(f) \/ Store!FinishClose(f)
         \/ \E v \in Task : Store!Dispose(f, v)
<1> TypeOK /\ ObjectsTracked
  BY DEF Inv
<1> /\ phase \in [Frame -> {"open", "closing", "gathering", "releasing", "closed"}]
    /\ results \in [Def -> TaskOrNone] /\ failed \in [Def -> TaskOrNone]
    /\ released \in [Frame -> SUBSET TaskOrNone]
  BY DEF TypeOK
<1>1. UNCHANGED <<Wanted, Acceptable, Served>>
  BY CallersUnseen DEF CloseStep, CancelInflight, CollectResources, ReleaseResource, ClearFrame,
                       callVars, histVars
<1>2. DefsOf(f) \cap aborted = {}
  OBVIOUS
<1>3. CASE CancelInflight(f)
  <2>1. /\ phase[f] = "closing" /\ phase' = [phase EXCEPT ![f] = "gathering"]
        /\ UNCHANGED <<results, failed, retired, val, released>>
    BY <1>3 DEF CancelInflight, taskVars, cacheVars
  <2>2. UNCHANGED <<Shown, Owned>>
    BY <2>1, SameHoldings
  <2>3. Life' = Life
    BY <2>1 DEF Life, LifeOf
  <2> QED
    BY <1>1, <2>1, <2>2, <2>3
<1>4. CASE CollectResources(f)
  <2>1. /\ phase[f] = "gathering" /\ phase' = [phase EXCEPT ![f] = "releasing"]
        /\ UNCHANGED <<results, failed, retired, val, released>>
    BY <1>4 DEF CollectResources, taskVars, cacheVars
  <2>2. UNCHANGED <<Shown, Owned>>
    BY <2>1, SameHoldings
  <2>3. Life[f] = "closing" /\ Life' = [Life EXCEPT ![f] = "disposing"]
    BY <2>1, LifeMoves DEF LifeOf
  <2> QED
    BY <1>1, <2>1, <2>2, <2>3 DEF Store!BeginDisposal
<1>5. CASE ReleaseResource(f)
  <2>1. PICK v \in toRelease[f] : released' = [released EXCEPT ![f] = @ \cup {v}]
    BY <1>5 DEF ReleaseResource
  <2>2. /\ phase[f] = "releasing" /\ UNCHANGED <<results, failed, retired, val, phase>>
    BY <1>5 DEF ReleaseResource, taskVars, cacheVars
  <2>3. v \in Committed(f) /\ Held(f) = Committed(f) /\ v \notin released[f]
    BY <1>2, <2>2 DEF ObjectsTracked
  <2>4. v \in Task
    BY <2>3 DEF Committed, Inv, ObjectsCreated
  <2>5. UNCHANGED <<Shown, Life, Owned>>
    <3>1. \A g \in Frame : /\ Held(g)' = Held(g)
                           /\ phase[g] = "closed" => released'[g] = released[g]
      BY <2>1, <2>2 DEF Held, Cached, DefsOf
    <3> QED
      BY <2>2, <3>1 DEF Shown, Cached, Life, LifeOf, Owned
  <2>6. Life[f] = "disposing" /\ Owned[f] = Held(f)
    BY <2>2 DEF Life, LifeOf, Owned
  <2> QED
    BY <1>1, <2>1, <2>3, <2>4, <2>5, <2>6 DEF Store!Dispose
<1>6. CASE ClearFrame(f)
  <2>1. /\ phase[f] = "releasing" /\ toRelease[f] = {}
        /\ phase' = [phase EXCEPT ![f] = "closed"]
        /\ results' = [d \in Def |-> IF OwnerOf[d] = f THEN NoTask ELSE results[d]]
        /\ failed' = [d \in Def |-> IF OwnerOf[d] = f THEN NoTask ELSE failed[d]]
        /\ \A g \in Frame : g # f => retired'[g] = retired[g]
        /\ UNCHANGED <<val, released>>
    BY <1>6 DEF ClearFrame, taskVars
  <2>2. released[f] = Held(f)
    BY <1>2, <2>1 DEF ObjectsTracked
  <2>3. Shown' = [d \in Def |-> IF OwnerOf[d] = f THEN NoTask ELSE Shown[d]]
    BY <2>1 DEF Shown, Cached
  <2>4. Life[f] = "disposing" /\ Life' = [Life EXCEPT ![f] = "closed"]
    BY <2>1, LifeMoves DEF LifeOf
  <2>5. Owned[f] = released[f]
    BY <2>1, <2>2 DEF Owned
  <2>6. Owned' = Owned
    <3>1. \A g \in Frame : g # f => Held(g)' = Held(g) /\ phase'[g] = phase[g]
      BY <2>1 DEF Held, Cached, DefsOf
    <3> QED
      BY <2>1, <2>2, <3>1 DEF Owned
  <2> QED
    BY <1>1, <2>1, <2>3, <2>4, <2>5, <2>6 DEF Store!FinishClose
<1> QED
  BY <1>3, <1>4, <1>5, <1>6 DEF CloseStep

\* Every step of the hierarchy is a step of the store, or is not seen.
LEMMA StoreStep ==
  ASSUME Inv, [Next]_vars, aborted = {}
  PROVE  [Store!Next]_(Store!vars)
<1>1. CASE UNCHANGED <<Shown, Life, Owned, released, Wanted, Acceptable, Served>>
  BY <1>1 DEF Store!vars
<1>2. ASSUME NEW c \in Caller, CallerShape(c), Alone(c)
      PROVE  \/ Store!Next
             \/ UNCHANGED <<Shown, Life, Owned, released, Wanted, Acceptable, Served>>
  <2>1. CASE Refuses(c) \/ Snaps(c) \/ BeginsWait(c)
    BY <1>2, <2>1, RequestStep DEF Store!Next
  <2>2. CASE IsAnswered(c)
    BY <1>2, <2>2, ServeStep DEF Store!Next
  <2>3. CASE AsksClose(c) \/ TurnsToRefresh(c)
    BY <1>2, <2>3, UnseenStep DEF Store!Next
  <2> QED
    BY <1>2, <2>1, <2>2, <2>3 DEF CallerShape
<1>3. CASE UNCHANGED callVars
  <2>1. CASE \/ Calm \/ \E d \in Def, kind \in Kind : Birth(d, kind)
             \/ \E t \in Task : Aborts(t) \/ DropUnstarted(t)
    <3>1. UNCHANGED <<results, failed, retired, val, phase, released, history>>
      BY <2>1 DEF Calm, Birth, Aborts, Ends, DropUnstarted, cacheVars, closeVars, histVars
    <3> QED
      BY <1>1, <1>3, <3>1, CacheUnseen, CallersUnseen DEF callVars
  <2>2. ASSUME NEW t \in Task, Returns(t) \/ Raises(t) PROVE Store!Next
    BY <1>3, <2>2, PublishStep DEF Store!Next
  <2>3. ASSUME NEW f \in Frame, Closing(f) PROVE Store!Next
    <3>1. UNCHANGED <<Wanted, Acceptable, Served>>
      BY <1>3, <2>3, CallersUnseen DEF Closing, callVars
    <3>2. Store!BeginClose(f)
      BY <2>3, <3>1, OpenToClosing DEF Closing, taskVars, cacheVars, Store!BeginClose, Inv
    <3> QED
      BY <3>2 DEF Store!Next
  <2>4. ASSUME NEW f \in Frame, CloseStep(f) PROVE [Store!Next]_(Store!vars)
    <3>1. \/ UNCHANGED <<Shown, Life, Owned, released, Wanted, Acceptable, Served>>
          \/ Store!BeginDisposal(f) \/ Store!FinishClose(f)
          \/ \E v \in Task : Store!Dispose(f, v)
      BY <1>3, <2>4, CloseStepSeen
    <3> QED
      BY <1>1, <3>1 DEF Store!Next
  <2> QED
    BY <2>1, <2>2, <2>3, <2>4, StepHasShape DEF Shapes
<1> QED
  BY <1>1, <1>2, <1>3, StepHasCaller

\* The runtime keeps the store's promises to the users of a Frame as long as no
\* owner task is cancelled while its Frame is open.
THEOREM StoreImplemented == Spec /\ [](aborted = {}) => ImplementsStore
<1>1. Init => Store!Init
  BY StoreInit
<1>2. Inv /\ aborted = {} /\ [Next]_vars => [Store!Next]_(Store!vars)
  BY StoreStep
<1> QED
  BY <1>1, <1>2, InvHolds, PTL DEF Spec, ImplementsStore, Store!Spec

\* In a Frame that reads from no other Frame an owner task is cancelled only by
\* its own Frame's close, unless host code raises CancelledError.
LEMMA NothingAborted ==
  ASSUME Interruptible = {}, \A f \in Frame : Lineage[f] = {f}
  PROVE  Spec => [](aborted = {})
<1>1. Init => aborted = {}
  BY DEF Init
<1>2. Inv /\ aborted = {} /\ [Next]_vars => (aborted = {})'
  <2> SUFFICES ASSUME Inv, aborted = {}, [Next]_vars PROVE aborted' = {}
    OBVIOUS
  <2> TypeOK /\ TasksBorn /\ WaitsNamed /\ CancelsFromClose
    BY DEF Inv
  <2>1. ASSUME NEW t \in Task, Aborts(t) PROVE ~IsOpen(FrameOf(t))
    <3>1. CASE t \in cancelReq
      BY <3>1 DEF CancelsFromClose
    <3>2. CASE st[t] = "waiting" /\ st[on[t]] = "cancelled"
      <4>1. /\ on[t] \in Task /\ DefOf(t) \in Def /\ FrameOf(t) \in Frame
            /\ FrameOf(on[t]) \in Lineage[FrameOf(t)]
        <5>1. on[t] \in 1 .. spawned /\ \E i \in DOMAIN Deps[DefOf(t)] : Deps[DefOf(t)][i] = DefOf(on[t])
          BY <3>2 DEF WaitsNamed
        <5>2. DefOf(t) \in Def /\ on[t] \in Task
          <6>1. DefOf(t) \in Def
            BY <2>1, EndingKeeps
          <6>2. spawned \in Nat /\ spawned <= TaskLimit /\ TaskLimit \in Nat
            BY ConstantsAssumption DEF TypeOK
          <6> QED
            BY <5>1, <6>1, <6>2
        <5> QED
          BY <5>1, <5>2, ConstantsAssumption, VisibilityAssumption DEF FrameOf
      <4>2. FrameOf(on[t]) = FrameOf(t)
        BY <4>1
      <4> QED
        BY <3>2, <4>1, <4>2 DEF CancelsFromClose, CancellationHasCause
    <3> QED
      BY <2>1, <3>1, <3>2 DEF Aborts
  <2>2. CASE \E t \in Task : Aborts(t)
    BY <2>1, <2>2 DEF Aborts
  <2>3. CASE ~\E t \in Task : Aborts(t)
    BY <2>3, StepHasShape DEF Shapes, Calm, Birth, Returns, Raises, DropUnstarted, Closing,
       CloseStep, CancelInflight, CollectResources, ReleaseResource, ClearFrame, histVars
  <2> QED
    BY <2>2, <2>3
<1> QED
  BY <1>1, <1>2, InvHolds, PTL DEF Spec

\* So for Frames without parents, whose host code leaves cancellation alone, the
\* store's promises hold without a condition on the behaviour.
THEOREM RootFramesImplementStore ==
  ASSUME Interruptible = {}, \A f \in Frame : Lineage[f] = {f}
  PROVE  Spec => ImplementsStore
BY NothingAborted, StoreImplemented, PTL

=============================================================================
