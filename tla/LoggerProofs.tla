---------------------------- MODULE LoggerProofs ----------------------------
(***************************************************************************)
(* For every set of callers, producers and sinks: the logging scope is     *)
(* exclusive, gives back what it found once its writer has drained, a      *)
(* Logger's record never reaches handlers outside a scope, and every       *)
(* record a handler admits goes once and in order through every sink that  *)
(* selects it, whichever of their operations fail.  At the end, the same   *)
(* for the exception hooks: a failure reaches the newest that is in use.   *)
(***************************************************************************)
EXTENDS LoggerScope, ExceptionHooks, FiniteSetTheorems, SequenceTheorems, WellFoundedInduction, TLAPS

Installing == {"inside", "stopping", "joining", "restoring"}

\* The slot belongs to whoever is between reservation and release.
SlotHeld == \A s \in Scope : at[s] \in Entered => active = s

\* Only an entered scope that saved the application's handlers is installed.
InstalledSaved ==
  /\ \A s \in Scope : saved[s] \in {None, Original}
  /\ \A s \in Scope : installed = s => at[s] \in Installing /\ saved[s] # None

\* A scope that accepts Logger calls is installed until it ends admission.
StartedInstalled ==
  /\ \A s \in Scope : at[s] \in {"joining", "restoring", "releasing", "left"} => s \in closing
  /\ \A s \in started : at[s] \in Installing /\ (s \in closing \/ installed = s)

\* A thread that found a scope still finds it installed, or closing.
FoundInstalled ==
  \A p \in Wrapped :
    /\ producer[p] # Original
    /\ producer[p] \in Scope => producer[p] \in closing \/ installed = producer[p]

\* A scope past its join has no running writer, nor one before its start.
WriterDone ==
  \A s \in Scope :
    /\ at[s] \in {"restoring", "releasing", "left"} => writer[s] \in {"none", "dead"}
    /\ at[s] \in {"outside", "refused", "reserved"} => writer[s] = "none"

\* What the steps of the scope protocol need of the types.
ScopeTypes ==
  /\ active \in Scope \cup {None}
  /\ at \in [Scope -> Place]
  /\ started \subseteq Scope /\ closing \subseteq Scope
  /\ installed \in Scope \cup {Original}
  /\ saved \in [Scope -> Scope \cup {Original, None}]
  /\ writer \in [Scope -> {"none", "initializing", "running", "dead"}]
  /\ producer \in [Producer -> Scope \cup {Original, None}]

IInv ==
  /\ ScopeTypes
  /\ SlotHeld
  /\ InstalledSaved
  /\ StartedInstalled
  /\ FoundInstalled
  /\ WriterDone
  /\ escaped = {}

----------------------------------------------------------------------------
\* None is no scope and no handler set, and the constants' strings differ.
LEMMA Names ==
  /\ None \notin Scope /\ Original \notin Scope /\ None # Original
  /\ Wrapped \subseteq Producer
  BY ScopeAssumption DEF None, Original

LEMMA LoggerInit == Init => IInv
<1> SUFFICES ASSUME Init
             PROVE  IInv
  OBVIOUS
<1> USE Names DEF Init
<1>1. ScopeTypes
  BY DEF ScopeTypes, Place
<1>2. SlotHeld /\ WriterDone
  BY DEF SlotHeld, WriterDone, Entered
<1>3. InstalledSaved
  BY DEF InstalledSaved
<1>4. StartedInstalled
  BY DEF StartedInstalled
<1>5. FoundInstalled
  BY DEF FoundInstalled
<1> QED
  BY <1>1, <1>2, <1>3, <1>4, <1>5 DEF IInv

----------------------------------------------------------------------------
\* What a step of a scope's caller does to the scope protocol's state: the
\* caller moves on, and each case adds its own effect.

\* Between reservation and release only the owner of the slot moves; a caller
\* that only changes place between two steps in which it holds the slot keeps
\* everything but what its new place promises.
LEMMA Moves ==
  ASSUME IInv, NEW s \in Scope, NEW place \in Entered,
         Goto(s, place), at[s] \in Entered,
         UNCHANGED <<active, started, installed, saved, writer, producer, escaped>>,
         closing \subseteq closing', closing' \subseteq Scope,
         installed = s \/ s \in started => place \in Installing,
         place \in {"joining", "restoring", "releasing"} => s \in closing',
         place \in {"restoring", "releasing"} => writer[s] \in {"none", "dead"},
         place # "reserved"
  PROVE  IInv'
<1> USE Names
<1>1. /\ at' = [at EXCEPT ![s] = place] /\ at \in [Scope -> Place]
      /\ at'[s] = place /\ \A r \in Scope \ {s} : at'[r] = at[r]
      /\ place \in Place
  BY DEF Goto, IInv, ScopeTypes, Entered, Place
<1>2. ScopeTypes'
  BY <1>1 DEF IInv, ScopeTypes
<1>3. SlotHeld'
  BY <1>1 DEF IInv, SlotHeld
<1>4. InstalledSaved'
  BY <1>1 DEF IInv, InstalledSaved
<1>5. StartedInstalled'
  <2>1. \A r \in Scope : at'[r] \in {"joining", "restoring", "releasing", "left"} => r \in closing'
    BY <1>1 DEF IInv, StartedInstalled, Entered
  <2>2. \A r \in started : at'[r] \in Installing /\ (r \in closing' \/ installed = r)
    BY <1>1 DEF IInv, StartedInstalled, ScopeTypes
  <2> QED
    BY <2>1, <2>2 DEF StartedInstalled
<1>6. FoundInstalled'
  BY DEF IInv, FoundInstalled
<1>7. WriterDone'
  BY <1>1 DEF IInv, WriterDone, Entered
<1> QED
  BY <1>2, <1>3, <1>4, <1>5, <1>6, <1>7 DEF IInv

\* A step that leaves the protocol's state alone but for a writer that comes
\* to an end.
LEMMA WriterSteps ==
  ASSUME IInv, NEW s \in Scope, NEW phase \in {"running", "dead"},
         UNCHANGED <<scopeVars, producer, escaped>>,
         writer' = writer \/ (writer' = [writer EXCEPT ![s] = phase] /\ writer[s] # "none"),
         writer[s] = "dead" => phase = "dead" \/ writer' = writer
  PROVE  IInv'
<1> USE DEF scopeVars
<1>1. ScopeTypes'
  BY DEF IInv, ScopeTypes
<1>2. SlotHeld' /\ InstalledSaved'
  BY DEF IInv, SlotHeld, InstalledSaved
<1>3. StartedInstalled' /\ FoundInstalled'
  BY DEF IInv, StartedInstalled, FoundInstalled
<1>4. ASSUME NEW r \in Scope
      PROVE  /\ at[r] \in {"restoring", "releasing", "left"} => writer'[r] \in {"none", "dead"}
             /\ at[r] \in {"outside", "refused", "reserved"} => writer'[r] = "none"
  <2>1. writer'[r] = writer[r] \/ (r = s /\ writer'[r] = phase)
    BY DEF IInv, ScopeTypes
  <2> QED
    BY <2>1 DEF IInv, WriterDone
<1>5. WriterDone'
  BY <1>4 DEF WriterDone
<1> QED
  BY <1>1, <1>2, <1>3, <1>5 DEF IInv

----------------------------------------------------------------------------

LEMMA ReserveStep ==
  ASSUME IInv, NEW s \in Scope, Reserve(s)
  PROVE  IInv'
<1> USE Names DEF Reserve
<1>1. /\ at' = [at EXCEPT ![s] = "reserved"] /\ at[s] = "outside"
      /\ at \in [Scope -> Place] /\ active = None
      /\ at'[s] = "reserved" /\ \A r \in Scope \ {s} : at'[r] = at[r]
  BY DEF Goto, IInv, ScopeTypes
<1>2. ScopeTypes'
  BY <1>1 DEF IInv, ScopeTypes, Place, writerVars, producerVars
<1>3. SlotHeld'
  <2>1. \A r \in Scope : at[r] \notin Entered
    BY <1>1 DEF IInv, SlotHeld
  <2>2. \A r \in Scope : at'[r] \in Entered => r = s
    BY <1>1, <2>1
  <2> QED
    BY <2>2 DEF SlotHeld
<1>4. InstalledSaved'
  BY <1>1 DEF IInv, InstalledSaved, Installing
<1>5. StartedInstalled'
  BY <1>1 DEF IInv, StartedInstalled, Installing, ScopeTypes
<1>6. FoundInstalled'
  BY DEF IInv, FoundInstalled, producerVars
<1>7. WriterDone' /\ escaped' = {}
  BY <1>1 DEF IInv, WriterDone, writerVars, producerVars
<1> QED
  BY <1>2, <1>3, <1>4, <1>5, <1>6, <1>7 DEF IInv

LEMMA RefuseStep ==
  ASSUME IInv, NEW s \in Scope, Refuse(s)
  PROVE  IInv'
<1> USE Names DEF Refuse
<1>1. /\ at' = [at EXCEPT ![s] = "refused"] /\ at[s] = "outside"
      /\ at \in [Scope -> Place]
      /\ at'[s] = "refused" /\ \A r \in Scope \ {s} : at'[r] = at[r]
  BY DEF Goto, IInv, ScopeTypes
<1>2. ScopeTypes'
  BY <1>1 DEF IInv, ScopeTypes, Place, writerVars, producerVars
<1>3. SlotHeld'
  BY <1>1 DEF IInv, SlotHeld, Entered
<1>4. InstalledSaved'
  BY <1>1 DEF IInv, InstalledSaved, Installing
<1>5. StartedInstalled'
  BY <1>1 DEF IInv, StartedInstalled, Installing, ScopeTypes
<1>6. FoundInstalled'
  BY DEF IInv, FoundInstalled, producerVars
<1>7. WriterDone' /\ escaped' = {}
  BY <1>1 DEF IInv, WriterDone, writerVars, producerVars
<1> QED
  BY <1>2, <1>3, <1>4, <1>5, <1>6, <1>7 DEF IInv

LEMMA StartWriterStep ==
  ASSUME IInv, NEW s \in Scope, NEW launched \in BOOLEAN, StartWriter(s, launched)
  PROVE  IInv'
<1> USE Names DEF StartWriter
<1> DEFINE place == IF launched THEN "waiting" ELSE "stopping"
<1>1. /\ at' = [at EXCEPT ![s] = place] /\ at[s] = "reserved"
      /\ at \in [Scope -> Place] /\ place \in {"waiting", "stopping"}
      /\ at'[s] = place /\ \A r \in Scope \ {s} : at'[r] = at[r]
  BY DEF Goto, IInv, ScopeTypes
<1>2. /\ writer' \in [Scope -> {"none", "initializing", "running", "dead"}]
      /\ \A r \in Scope \ {s} : writer'[r] = writer[r]
  BY DEF IInv, ScopeTypes
<1> HIDE DEF place
<1>3. ScopeTypes'
  BY <1>1, <1>2 DEF IInv, ScopeTypes, Place, producerVars
<1>4. SlotHeld'
  BY <1>1 DEF IInv, SlotHeld, Entered
<1>5. InstalledSaved'
  BY <1>1 DEF IInv, InstalledSaved, Installing
<1>6. StartedInstalled'
  BY <1>1 DEF IInv, StartedInstalled, Installing, ScopeTypes
<1>7. FoundInstalled'
  BY DEF IInv, FoundInstalled, producerVars
<1>8. WriterDone' /\ escaped' = {}
  BY <1>1, <1>2 DEF IInv, WriterDone, producerVars
<1> QED
  BY <1>3, <1>4, <1>5, <1>6, <1>7, <1>8 DEF IInv

\* The scope finds the application's handlers: were another scope installed, it
\* would hold the slot, and this one is installed only after its takeover.
LEMMA TakeoverStep ==
  ASSUME IInv, NEW s \in Scope, Takeover(s)
  PROVE  IInv'
<1> USE Names DEF Takeover
<1>1. /\ at' = [at EXCEPT ![s] = "inside"] /\ at[s] = "waiting"
      /\ at \in [Scope -> Place] /\ active = s
      /\ at'[s] = "inside" /\ \A r \in Scope \ {s} : at'[r] = at[r]
  BY DEF Goto, IInv, ScopeTypes, SlotHeld, Entered
<1>2. installed = Original
  <2>1. ASSUME installed \in Scope
        PROVE  FALSE
    <3>1. at[installed] \in Installing
      BY <2>1 DEF IInv, InstalledSaved
    <3>2. active = installed
      BY <2>1, <3>1 DEF IInv, SlotHeld, Installing, Entered
    <3> QED
      BY <1>1, <3>1, <3>2 DEF Installing
  <2> QED
    BY <2>1 DEF IInv, ScopeTypes
<1>3. /\ saved' \in [Scope -> Scope \cup {Original, None}]
      /\ saved'[s] = Original /\ \A r \in Scope \ {s} : saved'[r] = saved[r]
  BY <1>2 DEF IInv, ScopeTypes
<1>4. ScopeTypes'
  BY <1>1, <1>3 DEF IInv, ScopeTypes, Place, writerVars, producerVars
<1>5. SlotHeld'
  BY <1>1 DEF IInv, SlotHeld
<1>6. InstalledSaved'
  BY <1>1, <1>3 DEF IInv, InstalledSaved, Installing
<1>7. StartedInstalled'
  <2>1. \A r \in Scope : at'[r] \in {"joining", "restoring", "releasing", "left"} => r \in closing
    BY <1>1 DEF IInv, StartedInstalled
  <2>2. \A r \in started' : at'[r] \in Installing /\ (r \in closing \/ installed' = r)
    BY <1>1, <1>2 DEF IInv, StartedInstalled, Installing, ScopeTypes
  <2> QED
    BY <2>1, <2>2 DEF StartedInstalled
<1>8. FoundInstalled'
  BY <1>2 DEF IInv, FoundInstalled, producerVars
<1>9. WriterDone' /\ escaped' = {}
  BY <1>1 DEF IInv, WriterDone, writerVars, producerVars
<1> QED
  BY <1>4, <1>5, <1>6, <1>7, <1>8, <1>9 DEF IInv

LEMMA StopStep ==
  ASSUME IInv, NEW s \in Scope, Stop(s)
  PROVE  IInv'
<1> USE Names
<1> DEFINE place == IF writer[s] = "none" THEN "restoring" ELSE "joining"
<1>1. /\ Goto(s, place) /\ at[s] = "stopping"
      /\ UNCHANGED <<active, started, installed, saved, writer, producer, escaped>>
      /\ closing' = closing \cup {s}
  BY DEF Stop, writerVars, producerVars
<1>2. /\ place \in Entered /\ at[s] \in Entered
      /\ place \in Installing /\ place # "reserved"
      /\ place = "restoring" => writer[s] = "none"
      /\ place # "releasing"
  BY <1>1 DEF Entered, Installing
<1>3. closing' \subseteq Scope /\ closing \subseteq closing' /\ s \in closing'
  BY <1>1 DEF IInv, ScopeTypes
<1> HIDE DEF place
<1> QED
  BY <1>1, <1>2, <1>3, Moves

\* A failed startup, the end of the body, and the end of the join only move the
\* caller.
LEMMA PlainMoves ==
  ASSUME IInv, NEW s \in Scope, StartupFails(s) \/ Leave(s) \/ Join(s)
  PROVE  IInv'
<1> USE Names DEF writerVars, producerVars
<1>1. CASE StartupFails(s) \/ Leave(s)
  <2>1. /\ Goto(s, "stopping") /\ at[s] \in {"waiting", "inside"}
        /\ UNCHANGED <<active, started, closing, installed, saved, writer, producer, escaped>>
    BY <1>1 DEF StartupFails, Leave
  <2>2. at[s] \in Entered /\ "stopping" \in Entered /\ "stopping" \in Installing
    BY <2>1 DEF Entered, Installing
  <2>3. closing \subseteq closing' /\ closing' \subseteq Scope
    BY <2>1 DEF IInv, ScopeTypes
  <2> QED
    BY <2>1, <2>2, <2>3, Moves
<1>2. CASE Join(s)
  <2>1. /\ Goto(s, "restoring") /\ at[s] = "joining" /\ writer[s] = "dead"
        /\ UNCHANGED <<active, started, closing, installed, saved, writer, producer, escaped>>
    BY <1>2 DEF Join
  <2>2. at[s] \in Entered /\ "restoring" \in Entered /\ "restoring" \in Installing
    BY <2>1 DEF Entered, Installing
  <2>3. closing \subseteq closing' /\ closing' \subseteq Scope /\ s \in closing'
    BY <2>1 DEF IInv, ScopeTypes, StartedInstalled
  <2> QED
    BY <2>1, <2>2, <2>3, Moves
<1> QED
  BY <1>1, <1>2

LEMMA RestoreStep ==
  ASSUME IInv, NEW s \in Scope, Restore(s)
  PROVE  IInv'
<1> USE Names DEF Restore
<1>1. /\ at' = [at EXCEPT ![s] = "releasing"] /\ at[s] = "restoring"
      /\ at \in [Scope -> Place]
      /\ at'[s] = "releasing" /\ \A r \in Scope \ {s} : at'[r] = at[r]
      /\ s \in closing /\ saved[s] \in {None, Original} /\ active = s
  BY DEF Goto, IInv, ScopeTypes, StartedInstalled, InstalledSaved, SlotHeld, Entered
<1>2. \A r \in Scope \ {s} : installed # r
  <2> TAKE r \in Scope \ {s}
  <2>1. at[r] \notin Entered
    BY <1>1 DEF IInv, SlotHeld
  <2>2. at[r] \notin Installing
    BY <2>1 DEF Entered, Installing
  <2> QED
    BY <2>2 DEF IInv, InstalledSaved
<1>3. installed' = Original
  <2>1. CASE saved[s] = None
    BY <1>2, <2>1 DEF IInv, InstalledSaved, ScopeTypes
  <2>2. CASE saved[s] = Original
    BY <2>2
  <2> QED
    BY <1>1, <2>1, <2>2
<1>4. ScopeTypes'
  BY <1>1, <1>3 DEF IInv, ScopeTypes, Place, writerVars, producerVars
<1>5. SlotHeld'
  BY <1>1 DEF IInv, SlotHeld
<1>6. InstalledSaved'
  BY <1>1, <1>3 DEF IInv, InstalledSaved
<1>7. StartedInstalled'
  <2>1. \A r \in Scope : at'[r] \in {"joining", "restoring", "releasing", "left"} => r \in closing
    BY <1>1 DEF IInv, StartedInstalled
  <2>2. \A r \in started' : at'[r] \in Installing /\ (r \in closing \/ installed' = r)
    BY <1>1, <1>2 DEF IInv, StartedInstalled, ScopeTypes
  <2> QED
    BY <2>1, <2>2 DEF StartedInstalled
<1>8. FoundInstalled'
  BY <1>1, <1>2 DEF IInv, FoundInstalled, producerVars
<1>9. WriterDone' /\ escaped' = {}
  BY <1>1 DEF IInv, WriterDone, writerVars, producerVars
<1> QED
  BY <1>4, <1>5, <1>6, <1>7, <1>8, <1>9 DEF IInv

LEMMA ReleaseStep ==
  ASSUME IInv, NEW s \in Scope, Release(s)
  PROVE  IInv'
<1> USE Names DEF Release
<1>1. /\ at' = [at EXCEPT ![s] = "left"] /\ at[s] = "releasing"
      /\ at \in [Scope -> Place] /\ active = s
      /\ at'[s] = "left" /\ \A r \in Scope \ {s} : at'[r] = at[r]
  BY DEF Goto, IInv, ScopeTypes, SlotHeld, Entered
<1>2. ScopeTypes'
  BY <1>1 DEF IInv, ScopeTypes, Place, writerVars, producerVars
<1>3. SlotHeld'
  <2>1. \A r \in Scope \ {s} : at[r] \notin Entered
    BY <1>1 DEF IInv, SlotHeld
  <2>2. \A r \in Scope : at'[r] \notin Entered
    BY <1>1, <2>1 DEF Entered
  <2> QED
    BY <2>2 DEF SlotHeld
<1>4. InstalledSaved'
  BY <1>1 DEF IInv, InstalledSaved, Installing
<1>5. StartedInstalled'
  BY <1>1 DEF IInv, StartedInstalled, Installing, ScopeTypes
<1>6. FoundInstalled'
  BY DEF IInv, FoundInstalled, producerVars
<1>7. WriterDone' /\ escaped' = {}
  BY <1>1 DEF IInv, WriterDone, writerVars, producerVars
<1> QED
  BY <1>2, <1>3, <1>4, <1>5, <1>6, <1>7 DEF IInv

----------------------------------------------------------------------------
\* Producers never touch the protocol's state: what they found stays true.

LEMMA ProducerSteps ==
  ASSUME IInv, NEW p \in Producer, ProducerNext(p)
  PROVE  IInv'
<1> USE Names
<1>1. UNCHANGED <<active, at, started, closing, installed, saved, writer>>
  BY DEF ProducerNext, Resolve, Emit, LogWrapped, scopeVars, writerVars
<1>2. SlotHeld' /\ InstalledSaved' /\ StartedInstalled' /\ WriterDone'
  BY <1>1 DEF IInv, SlotHeld, InstalledSaved, StartedInstalled, WriterDone
<1>3. ASSUME NEW found, producer' = [producer EXCEPT ![p] = found],
             found \in Scope \cup {Original, None},
             p \in Wrapped => found # Original,
             p \in Wrapped /\ found \in Scope => found \in closing \/ installed = found
      PROVE  ScopeTypes' /\ FoundInstalled'
  <2>1. ScopeTypes'
    BY <1>1, <1>3 DEF IInv, ScopeTypes
  <2>2. \A q \in Wrapped : producer'[q] = IF q = p THEN found ELSE producer[q]
    BY <1>3 DEF IInv, ScopeTypes
  <2>3. ASSUME NEW q \in Wrapped
        PROVE  /\ producer'[q] # Original
               /\ producer'[q] \in Scope => producer'[q] \in closing \/ installed = producer'[q]
    <3>1. CASE q = p
      BY <1>3, <2>2, <3>1
    <3>2. CASE q # p
      <4>1. producer'[q] = producer[q]
        BY <2>2, <3>2
      <4> QED
        BY <4>1 DEF IInv, FoundInstalled
    <3> QED
      BY <3>1, <3>2
  <2>4. FoundInstalled'
    BY <1>1, <2>3 DEF FoundInstalled
  <2> QED
    BY <2>1, <2>4
<1>4. CASE Resolve(p)
  <2> DEFINE found == IF p \in Wrapped THEN IF active \in started THEN active ELSE None
                      ELSE installed
  <2>1. producer' = [producer EXCEPT ![p] = found] /\ escaped' = escaped
    BY <1>4 DEF Resolve
  <2>2. found \in Scope \cup {Original, None}
    BY DEF IInv, ScopeTypes
  <2>3. /\ p \in Wrapped => found # Original
        /\ p \in Wrapped /\ found \in Scope => found \in closing \/ installed = found
    BY DEF IInv, StartedInstalled, ScopeTypes
  <2> HIDE DEF found
  <2>4. ScopeTypes' /\ FoundInstalled'
    BY <1>3, <2>1, <2>2, <2>3
  <2> QED
    BY <1>2, <2>1, <2>4 DEF IInv
<1>5. CASE Emit(p)
  <2>1. producer' = [producer EXCEPT ![p] = None] /\ escaped' = escaped
    BY <1>5 DEF Emit
  <2>2. ScopeTypes' /\ FoundInstalled'
    BY <1>3, <2>1
  <2> QED
    BY <1>2, <2>1, <2>2 DEF IInv
<1>6. CASE LogWrapped(p)
  <2>1. /\ p \in Wrapped /\ producer[p] # None
        /\ producer' = [producer EXCEPT ![p] = None]
    BY <1>6 DEF LogWrapped
  <2>2. producer[p] \in Scope
    BY <2>1 DEF IInv, FoundInstalled, ScopeTypes
  <2>3. producer[p] \in closing \/ installed \in Scope
    BY <2>1, <2>2 DEF IInv, FoundInstalled
  <2>4. escaped' = escaped
    <3>1. CASE producer[p] \in closing
      BY <1>6, <3>1 DEF LogWrapped
    <3>2. CASE producer[p] \notin closing /\ installed \in Scope
      BY <1>6, <3>2 DEF LogWrapped
    <3> QED
      BY <2>3, <3>1, <3>2
  <2>5. ScopeTypes' /\ FoundInstalled'
    BY <1>3, <2>1
  <2> QED
    BY <1>2, <2>4, <2>5 DEF IInv
<1> QED
  BY <1>4, <1>5, <1>6 DEF ProducerNext

\* The writer thread moves only its own phase, forward from its start.
LEMMA WriterNextSteps ==
  ASSUME IInv, NEW s \in Scope, WriterNext(s)
  PROVE  IInv'
<1>1. ASSUME NEW ok \in BOOLEAN, Initialize(s, ok)
      PROVE  IInv'
  <2> DEFINE phase == IF ok THEN "running" ELSE "dead"
  <2>1. /\ UNCHANGED <<scopeVars, producer, escaped>>
        /\ writer' = [writer EXCEPT ![s] = phase] /\ writer[s] = "initializing"
    BY <1>1 DEF Initialize, producerVars
  <2>2. phase \in {"running", "dead"}
    OBVIOUS
  <2> HIDE DEF phase
  <2> QED
    BY <2>1, <2>2, WriterSteps
<1>2. ASSUME NEW bad \in Sink, NEW fault \in Fault \cup {"none"}, Dispatch(s, bad, fault)
      PROVE  IInv'
  <2>1. UNCHANGED <<scopeVars, producer, escaped, writer>>
    BY <1>2 DEF Dispatch, producerVars
  <2> QED
    BY <2>1, WriterSteps
<1>3. ASSUME NEW k \in Sink, NEW due \in BOOLEAN, NEW fault \in Fault \cup {"none"},
             Rotate(s, k, due, fault)
      PROVE  IInv'
  <2>1. UNCHANGED <<scopeVars, producer, escaped, writer>>
    BY <1>3 DEF Rotate, producerVars
  <2> QED
    BY <2>1, WriterSteps
<1>4. ASSUME NEW bad \in Sink, NEW fault \in Fault \cup {"none"}, FinishWriter(s, bad, fault)
      PROVE  IInv'
  <2>1. /\ UNCHANGED <<scopeVars, producer, escaped>>
        /\ writer' = [writer EXCEPT ![s] = "dead"] /\ writer[s] = "running"
    BY <1>4 DEF FinishWriter, producerVars
  <2> QED
    BY <2>1, WriterSteps
<1>5. CASE Poll(s)
  <2>1. UNCHANGED <<scopeVars, producer, escaped, writer>>
    BY <1>5 DEF Poll, vars, producerVars, writerVars
  <2> QED
    BY <2>1, WriterSteps
<1> QED
  BY <1>1, <1>2, <1>3, <1>4, <1>5 DEF WriterNext

LEMMA LoggerStep == IInv /\ [Next]_vars => IInv'
<1> SUFFICES ASSUME IInv, [Next]_vars
             PROVE  IInv'
  OBVIOUS
<1>1. ASSUME NEW s \in Scope, CallerNext(s)
      PROVE  IInv'
  BY <1>1, ReserveStep, RefuseStep, StartWriterStep, TakeoverStep, StopStep, PlainMoves,
     RestoreStep, ReleaseStep DEF CallerNext
<1>2. ASSUME NEW s \in Scope, WriterNext(s)
      PROVE  IInv'
  BY <1>2, WriterNextSteps
<1>3. ASSUME NEW p \in Producer, ProducerNext(p)
      PROVE  IInv'
  BY <1>3, ProducerSteps
<1>4. CASE UNCHANGED vars
  BY <1>4 DEF vars, scopeVars, writerVars, producerVars, IInv, ScopeTypes, SlotHeld,
     InstalledSaved, StartedInstalled, FoundInstalled, WriterDone
<1>5. CASE Finished
  BY <1>4, <1>5 DEF Finished
<1> QED
  BY <1>1, <1>2, <1>3, <1>4, <1>5 DEF Next

LEMMA LoggerInvariance == Spec => []IInv
  BY LoggerInit, LoggerStep, PTL DEF Spec

----------------------------------------------------------------------------

\* One scope at a time has the slot, and only it is installed or accepting.
THEOREM ScopeIsExclusive == Spec => []ExclusiveScope
<1>1. IInv => ExclusiveScope
  BY DEF IInv, ScopeTypes, SlotHeld, InstalledSaved, StartedInstalled, Installing,
     ExclusiveScope
<1> QED
  BY <1>1, LoggerInvariance, PTL

\* Whenever the slot is free, the application's handlers are in place.
THEOREM LoggingIsRestored == Spec => []RestoredOutside
<1>1. IInv => RestoredOutside
  <2> SUFFICES ASSUME IInv, active = None, installed # Original
               PROVE  FALSE
    BY DEF RestoredOutside
  <2>1. installed \in Scope
    BY DEF IInv, ScopeTypes
  <2>2. at[installed] \in Entered
    BY <2>1 DEF IInv, InstalledSaved, Installing, Entered
  <2> QED
    BY <2>1, <2>2, Names DEF IInv, SlotHeld
<1> QED
  BY <1>1, LoggerInvariance, PTL

\* No scope gives the logging state back before its writer has ended.
THEOREM RestoredAfterDrain == Spec => []DrainedBeforeRestore
<1>1. IInv => DrainedBeforeRestore
  BY DEF IInv, WriterDone, DrainedBeforeRestore
<1> QED
  BY <1>1, LoggerInvariance, PTL

\* A Logger's record never falls through to handlers outside a scope.
THEOREM WrappedRecordsStay == Spec => []WrappedStayInScope
<1>1. IInv => WrappedStayInScope
  BY DEF IInv, WrappedStayInScope
<1> QED
  BY <1>1, LoggerInvariance, PTL

----------------------------------------------------------------------------
\* What a sink is

Segment == [lines : Seq(Record), open : BOOLEAN, footer : BOOLEAN]

SinkState ==
  [segments : Seq(Segment), stream : Nat, size : Nat, records : Nat,
   counts : [Count -> Nat]]

\* A sink writes to its last segment or to none; that one alone is open, and
\* only its first record may take it past the limit.
SinkSound(k, f) ==
  /\ f \in SinkState
  /\ f.stream # 0 => f.stream = Len(f.segments)
  /\ k = Console => f.stream # 0
  /\ k \in File => \A i \in 1 .. Len(f.segments) : f.segments[i].open <=> i = f.stream
  /\ k \in Sized /\ f.records > 1 => f.size <= MaxBytes

\* No record is added, taken away or moved from f to g.
KeepsLines(f, g) ==
  /\ Len(f.segments) <= Len(g.segments)
  /\ \A i \in 1 .. Len(f.segments) : g.segments[i].lines = f.segments[i].lines
  /\ \A i \in 1 .. Len(g.segments) : i > Len(f.segments) => g.segments[i].lines = <<>>

\* The record r follows what f holds.
PutsLine(f, g, r) ==
  /\ Len(g.segments) = Len(f.segments) /\ Len(f.segments) > 0
  /\ \A i \in 1 .. Len(f.segments) : i # Len(f.segments) =>
       g.segments[i].lines = f.segments[i].lines
  /\ g.segments[Len(f.segments)].lines = Append(f.segments[Len(f.segments)].lines, r)

\* What g has counted more than f.
Counts(f, g, enqueued, written, errors) ==
  /\ g.counts["records_enqueued"] = f.counts["records_enqueued"] + enqueued
  /\ g.counts["records_written"] = f.counts["records_written"] + written
  /\ g.counts["writer_errors"] = f.counts["writer_errors"] + errors

----------------------------------------------------------------------------
\* The operations of a sink

LEMMA SinkNames == Console \notin File /\ Sized \subseteq File /\ MaxBytes \in Nat /\ Header \in Nat
                   /\ MaxBytes > 0
  BY SinkAssumption

LEMMA CountNames ==
  {"records_enqueued", "records_written", "writer_errors", "rollover_count"} = Count
  BY DEF Count

\* A tally changes one counter and nothing else.
LEMMA TallyStep ==
  ASSUME NEW f \in SinkState, NEW c \in Count
  PROVE  /\ Tally(f, c) \in SinkState
         /\ Tally(f, c).segments = f.segments /\ Tally(f, c).stream = f.stream
         /\ Tally(f, c).size = f.size /\ Tally(f, c).records = f.records
         /\ Tally(f, c).counts[c] = f.counts[c] + 1
         /\ \A d \in Count : d # c => Tally(f, c).counts[d] = f.counts[d]
<1> DEFINE n == [f.counts EXCEPT ![c] = f.counts[c] + 1]
           g == [f EXCEPT !.counts = n]
<1>1. Tally(f, c) = g
  BY DEF Tally
<1>2. f.counts \in [Count -> Nat]
  BY DEF SinkState
<1>3. n \in [Count -> Nat] /\ n[c] = f.counts[c] + 1 /\ \A d \in Count : d # c => n[d] = f.counts[d]
  BY <1>2
<1> HIDE DEF n
<1>4. /\ g \in SinkState /\ g.segments = f.segments /\ g.stream = f.stream
      /\ g.size = f.size /\ g.records = f.records /\ g.counts = n
  BY <1>3 DEF SinkState
<1> QED
  BY <1>1, <1>3, <1>4

LEMMA TallySound ==
  ASSUME NEW k \in Sink, NEW f, SinkSound(k, f), NEW c \in Count
  PROVE  SinkSound(k, Tally(f, c)) /\ KeepsLines(f, Tally(f, c))
<1>1. f \in SinkState
  BY DEF SinkSound
<1>2. f.segments \in Seq(Segment)
  BY <1>1 DEF SinkState
<1> QED
  BY <1>1, <1>2, TallyStep DEF SinkSound, KeepsLines

\* A new segment is empty, open and the last.
LEMMA OpenSegmentStep ==
  ASSUME NEW f \in SinkState
  PROVE  /\ OpenSegment(f) \in SinkState
         /\ OpenSegment(f).segments = Append(f.segments, NewSegment)
         /\ OpenSegment(f).stream = Len(f.segments) + 1
         /\ OpenSegment(f).size = Header /\ OpenSegment(f).records = 0
         /\ OpenSegment(f).counts = f.counts
<1> DEFINE segments == Append(f.segments, NewSegment)
           last == Len(f.segments) + 1
<1>1. NewSegment \in Segment
  BY DEF NewSegment, Segment
<1>2. segments \in Seq(Segment) /\ last \in Nat
  BY <1>1 DEF SinkState
<1>3. OpenSegment(f) = [f EXCEPT !.segments = segments, !.stream = last, !.size = Header,
                                 !.records = 0]
  BY DEF OpenSegment
<1> HIDE DEF segments, last
<1>4. QED
  <2>1. /\ OpenSegment(f) \in SinkState
        /\ OpenSegment(f).segments = segments /\ OpenSegment(f).stream = last
        /\ OpenSegment(f).size = Header /\ OpenSegment(f).records = 0
        /\ OpenSegment(f).counts = f.counts
    <3>1. OpenSegment(f) =
            [segments |-> segments, stream |-> last, size |-> Header, records |-> 0,
             counts |-> f.counts]
      BY <1>3 DEF SinkState
    <3>2. f.counts \in [Count -> Nat]
      BY DEF SinkState
    <3> QED
      BY <1>2, <3>1, <3>2, SinkNames DEF SinkState
  <2> QED
    BY <2>1 DEF segments, last

LEMMA OpenSegmentLines ==
  ASSUME NEW f \in SinkState
  PROVE  /\ KeepsLines(f, OpenSegment(f))
         /\ Len(OpenSegment(f).segments) = Len(f.segments) + 1
         /\ \A i \in 1 .. Len(f.segments) : OpenSegment(f).segments[i] = f.segments[i]
         /\ OpenSegment(f).segments[Len(f.segments) + 1] = NewSegment
<1>1. f.segments \in Seq(Segment) /\ Len(f.segments) \in Nat
  BY DEF SinkState
<1>2. OpenSegment(f).segments = Append(f.segments, NewSegment)
  BY OpenSegmentStep
<1>3. /\ Len(OpenSegment(f).segments) = Len(f.segments) + 1
      /\ \A i \in 1 .. Len(f.segments) : OpenSegment(f).segments[i] = f.segments[i]
      /\ OpenSegment(f).segments[Len(f.segments) + 1] = NewSegment
  BY <1>1, <1>2
<1>4. KeepsLines(f, OpenSegment(f))
  BY <1>1, <1>3 DEF KeepsLines, NewSegment
<1> QED
  BY <1>3, <1>4

\* A sink opens its first segment, or one after it failed.
LEMMA OpenSound ==
  ASSUME NEW k \in Sink, NEW f, SinkSound(k, f), f.stream = 0
  PROVE  SinkSound(k, OpenSegment(f)) /\ OpenSegment(f).stream # 0
<1> DEFINE g == OpenSegment(f)
           n == Len(f.segments)
<1>1. f \in SinkState /\ n \in Nat
  BY DEF SinkSound, SinkState
<1>2. /\ g \in SinkState /\ g.stream = n + 1 /\ g.records = 0 /\ Len(g.segments) = n + 1
      /\ \A i \in 1 .. n : g.segments[i] = f.segments[i]
      /\ g.segments[n + 1] = NewSegment
  BY <1>1, OpenSegmentStep, OpenSegmentLines
<1>3. k \in File => \A i \in 1 .. n : ~f.segments[i].open
  BY <1>1 DEF SinkSound
<1> HIDE DEF g, n
<1>4. k \in File => \A i \in 1 .. n + 1 : g.segments[i].open <=> i = n + 1
  BY <1>1, <1>2, <1>3 DEF NewSegment
<1>5. SinkSound(k, g) /\ g.stream # 0
  BY <1>1, <1>2, <1>4 DEF SinkSound
<1> QED
  BY <1>5 DEF g

\* Replacing one segment keeps the others.
LEMMA SegmentReplaced ==
  ASSUME NEW segments \in Seq(Segment), NEW n \in 1 .. Len(segments), NEW segment \in Segment
  PROVE  LET new == [segments EXCEPT ![n] = segment]
         IN  /\ new \in Seq(Segment) /\ Len(new) = Len(segments)
             /\ new[n] = segment
             /\ \A i \in 1 .. Len(segments) : i # n => new[i] = segments[i]
  OBVIOUS

LEMMA CloseStreamStep ==
  ASSUME NEW k \in Sink, NEW f, SinkSound(k, f), k \in File
  PROVE  LET g == CloseStream(f)
         IN  /\ SinkSound(k, g) /\ g.stream = 0
             /\ KeepsLines(f, g) /\ g.counts = f.counts
<1> DEFINE g == CloseStream(f)
<1> SUFFICES /\ SinkSound(k, g) /\ g.stream = 0
             /\ KeepsLines(f, g) /\ g.counts = f.counts
  OBVIOUS
<1>1. /\ f \in SinkState /\ f.segments \in Seq(Segment) /\ Len(f.segments) \in Nat
      /\ f.stream \in Nat /\ k # Console
  BY SinkNames DEF SinkSound, SinkState
<1>2. CASE f.stream = 0
  <2>1. g = f
    BY <1>2 DEF CloseStream
  <2> QED
    BY <1>1, <1>2, <2>1 DEF KeepsLines
<1>3. CASE f.stream # 0
  <2> DEFINE n == f.stream
             old == f.segments[n]
             closed == [old EXCEPT !.open = FALSE]
             segments == [f.segments EXCEPT ![n] = closed]
  <2>1. n \in 1 .. Len(f.segments) /\ n = Len(f.segments)
    BY <1>1, <1>3 DEF SinkSound
  <2>2. old \in Segment
    BY <1>1, <2>1
  <2>3. closed \in Segment /\ closed.open = FALSE /\ closed.lines = old.lines
    BY <2>2 DEF Segment
  <2>4. /\ segments \in Seq(Segment) /\ Len(segments) = Len(f.segments)
        /\ segments[n] = closed
        /\ \A i \in 1 .. Len(f.segments) : i # n => segments[i] = f.segments[i]
    BY <1>1, <2>1, <2>3, SegmentReplaced
  <2>5. g = [f EXCEPT !.segments = segments, !.stream = 0]
    BY <1>3 DEF CloseStream
  <2>6. f.segments[n].lines = closed.lines /\ closed.open = FALSE
    BY <2>3
  <2> HIDE DEF n, closed, segments
  <2>7. g = [segments |-> segments, stream |-> 0, size |-> f.size, records |-> f.records,
             counts |-> f.counts]
    BY <1>1, <2>5 DEF SinkState
  <2>8. f.counts \in [Count -> Nat] /\ f.size \in Nat /\ f.records \in Nat
    BY <1>1 DEF SinkState
  <2>9. /\ g \in SinkState /\ g.segments = segments /\ g.stream = 0
        /\ g.size = f.size /\ g.records = f.records /\ g.counts = f.counts
    BY <2>4, <2>7, <2>8 DEF SinkState
  <2> HIDE DEF g
  <2>10. \A i \in 1 .. Len(f.segments) : f.segments[i].open => i = n
    BY DEF SinkSound, n
  <2>11. \A i \in 1 .. Len(g.segments) : ~g.segments[i].open
    <3> TAKE i \in 1 .. Len(g.segments)
    <3>1. CASE i = n
      BY <2>4, <2>6, <2>9, <3>1
    <3>2. CASE i # n
      <4>1. i \in 1 .. Len(f.segments) /\ g.segments[i] = f.segments[i]
        BY <2>4, <2>9, <3>2
      <4>2. f.segments[i].open \in BOOLEAN
        <5>1. f.segments[i] \in Segment
          BY <1>1, <4>1
        <5> QED
          BY <5>1 DEF Segment
      <4> QED
        BY <2>10, <3>2, <4>1, <4>2
    <3> QED
      BY <3>1, <3>2
  <2>12. SinkSound(k, g)
    BY <1>1, <2>9, <2>11 DEF SinkSound
  <2>13. KeepsLines(f, g)
    <3>1. ASSUME NEW i \in 1 .. Len(f.segments)
          PROVE  g.segments[i].lines = f.segments[i].lines
      <4>1. CASE i = n
        BY <2>4, <2>6, <2>9, <4>1
      <4>2. CASE i # n
        BY <2>4, <2>9, <4>2
      <4> QED
        BY <4>1, <4>2
    <3>2. Len(g.segments) = Len(f.segments)
      BY <2>4, <2>9
    <3> QED
      BY <1>1, <3>1, <3>2 DEF KeepsLines
  <2> QED
    BY <2>9, <2>12, <2>13
<1> QED
  BY <1>2, <1>3

\* Each step keeps what the step before it kept.
LEMMA KeepsTransitive ==
  ASSUME NEW f \in SinkState, NEW g \in SinkState, NEW h \in SinkState,
         KeepsLines(f, g), KeepsLines(g, h)
  PROVE  KeepsLines(f, h)
<1> DEFINE a == Len(f.segments)
           b == Len(g.segments)
           c == Len(h.segments)
<1>1. a \in Nat /\ b \in Nat /\ c \in Nat /\ a <= b /\ b <= c
  BY DEF SinkState, KeepsLines
<1>2. \A i \in 1 .. a : g.segments[i].lines = f.segments[i].lines
  BY DEF KeepsLines
<1>3. \A i \in 1 .. b : h.segments[i].lines = g.segments[i].lines
  BY DEF KeepsLines
<1>4. \A i \in 1 .. b : i > a => g.segments[i].lines = <<>>
  BY DEF KeepsLines
<1>5. \A i \in 1 .. c : i > b => h.segments[i].lines = <<>>
  BY DEF KeepsLines
<1> SUFFICES /\ a <= c
             /\ \A i \in 1 .. a : h.segments[i].lines = f.segments[i].lines
             /\ \A i \in 1 .. c : i > a => h.segments[i].lines = <<>>
  BY DEF KeepsLines
<1> HIDE DEF a, b, c
<1>6. a <= c
  BY <1>1
<1>7. ASSUME NEW i \in 1 .. a
      PROVE  h.segments[i].lines = f.segments[i].lines
  <2>1. i \in 1 .. b
    BY ONLY <1>1, i \in 1 .. a
  <2> QED
    BY <1>2, <1>3, <2>1
<1>8. ASSUME NEW i \in 1 .. c, i > a
      PROVE  h.segments[i].lines = <<>>
  <2>1. CASE i > b
    BY <1>5, <2>1
  <2>2. CASE i \in 1 .. b
    BY <1>3, <1>4, <1>8, <2>2
  <2> QED
    BY <1>1, <2>1, <2>2
<1> QED
  BY <1>6, <1>7, <1>8

LEMMA KeepsSame ==
  ASSUME NEW f \in SinkState
  PROVE  KeepsLines(f, f)
  BY DEF SinkState, KeepsLines

----------------------------------------------------------------------------
\* A rotation that cannot create its segment changes nothing; any other leaves
\* the sink at a new, empty segment with the one before it closed.
LEMMA RolloverStep ==
  ASSUME NEW k \in Sink, NEW f, SinkSound(k, f), NEW fault \in Fault \cup {"none"}
  PROVE  LET g == Rollover(f, fault).sink
         IN  /\ SinkSound(k, g) /\ KeepsLines(f, g) /\ Counts(f, g, 0, 0, 0)
             /\ Rollover(f, fault).ok \in BOOLEAN
             /\ Rollover(f, fault).ok => g.stream # 0 /\ g.records = 0
<1> DEFINE w == Rollover(f, fault)
           g == w.sink
           n == Len(f.segments)
           opened == OpenSegment(f)
           retired == Retire(opened, f.stream, fault)
<1> SUFFICES /\ SinkSound(k, g) /\ KeepsLines(f, g) /\ Counts(f, g, 0, 0, 0)
             /\ w.ok \in BOOLEAN
             /\ w.ok => g.stream # 0 /\ g.records = 0
  OBVIOUS
<1>1. /\ f \in SinkState /\ f.segments \in Seq(Segment) /\ n \in Nat
      /\ f.stream \in Nat /\ f.counts \in [Count -> Nat]
  BY DEF SinkSound, SinkState
<1>2. CASE fault = "create"
  <2>1. w = [sink |-> f, ok |-> FALSE]
    BY <1>2 DEF Rollover
  <2>2. g = f /\ w.ok = FALSE
    BY <2>1
  <2>3. Counts(f, f, 0, 0, 0)
    BY <1>1, CountNames DEF Counts
  <2> QED
    BY <1>1, <2>2, <2>3, KeepsSame
<1>3. CASE fault # "create"
  <2>1. /\ opened \in SinkState /\ opened.stream = n + 1 /\ opened.records = 0
        /\ opened.counts = f.counts /\ Len(opened.segments) = n + 1
        /\ \A i \in 1 .. n : opened.segments[i] = f.segments[i]
        /\ opened.segments[n + 1] = NewSegment /\ KeepsLines(f, opened)
    BY <1>1, OpenSegmentStep, OpenSegmentLines
  <2>2. /\ retired \in SinkState /\ retired.stream = n + 1 /\ retired.records = 0
        /\ retired.counts = f.counts /\ Len(retired.segments) = n + 1
        /\ KeepsLines(f, retired)
        /\ k \in File => \A i \in 1 .. n + 1 : retired.segments[i].open <=> i = n + 1
    <3>1. CASE f.stream = 0
      <4>1. retired = opened
        BY <3>1 DEF Retire
      <4>2. SinkSound(k, opened)
        BY <3>1, OpenSound
      <4> QED
        BY <2>1, <4>1, <4>2 DEF SinkSound
    <3>2. CASE f.stream # 0
      <4> DEFINE old == opened.segments[n]
                 done == [old EXCEPT !.open = FALSE, !.footer = fault # "footer"]
                 segments == [opened.segments EXCEPT ![n] = done]
      <4>1. n \in 1 .. Len(opened.segments) /\ n = f.stream /\ n \in 1 .. n
        BY <1>1, <2>1, <3>2 DEF SinkSound
      <4>2. old = f.segments[n] /\ old \in Segment
        BY <1>1, <2>1, <4>1
      <4>3. done \in Segment /\ done.open = FALSE /\ done.lines = old.lines
        BY <4>2 DEF Segment
      <4>4. opened.segments \in Seq(Segment)
        BY <2>1 DEF SinkState
      <4>5. /\ segments \in Seq(Segment) /\ Len(segments) = n + 1
            /\ segments[n] = done
            /\ \A i \in 1 .. n + 1 : i # n => segments[i] = opened.segments[i]
        BY <2>1, <4>1, <4>3, <4>4, SegmentReplaced
      <4>6. retired = [opened EXCEPT !.segments = segments]
        BY <3>2, <4>1 DEF Retire
      <4>7. done.open = FALSE /\ done.lines = f.segments[n].lines
        BY <4>2, <4>3
      <4> HIDE DEF segments, done, opened, retired
      <4>8. /\ retired \in SinkState /\ retired.stream = n + 1 /\ retired.records = 0
            /\ retired.counts = f.counts /\ retired.segments = segments
        BY <2>1, <4>5, <4>6 DEF SinkState
      <4>9. KeepsLines(f, retired)
        <5>1. ASSUME NEW i \in 1 .. n
              PROVE  segments[i].lines = f.segments[i].lines
          <6>1. CASE i = n
            BY <4>5, <4>7, <6>1
          <6>2. CASE i # n
            <7>1. i \in 1 .. n + 1
              BY <1>1
            <7> QED
              BY <2>1, <4>5, <6>2, <7>1
          <6> QED
            BY <6>1, <6>2
        <5>2. segments[n + 1].lines = <<>>
          BY <1>1, <2>1, <4>5 DEF NewSegment
        <5>3. \A i \in 1 .. n + 1 : i > n => i = n + 1
          BY <1>1
        <5> QED
          BY <1>1, <4>5, <4>8, <5>1, <5>2, <5>3 DEF KeepsLines
      <4>10. k \in File => \A i \in 1 .. n + 1 : retired.segments[i].open <=> i = n + 1
        <5> SUFFICES ASSUME k \in File, NEW i \in 1 .. n + 1
                     PROVE  segments[i].open <=> i = n + 1
          BY <4>8
        <5>1. CASE i = n + 1
          BY <1>1, <2>1, <4>5, <5>1 DEF NewSegment
        <5>2. CASE i = n
          BY <1>1, <4>5, <4>7, <5>2
        <5>3. CASE i \in 1 .. n /\ i # n
          <6>1. segments[i] = f.segments[i]
            BY <2>1, <4>5, <5>3
          <6>2. f.segments[i].open <=> i = f.stream
            BY <5>3 DEF SinkSound
          <6> QED
            BY <1>1, <4>1, <5>3, <6>1, <6>2
        <5> QED
          BY <1>1, <5>1, <5>2, <5>3
      <4> QED
        BY <4>5, <4>8, <4>9, <4>10
    <3> QED
      BY <3>1, <3>2
  <2> HIDE DEF opened, retired
  <2>3. SinkSound(k, retired)
    BY <1>1, <2>2 DEF SinkSound
  <2>4. CASE fault = "footer" /\ f.stream # 0
    <3>1. w = [sink |-> retired, ok |-> FALSE]
      BY <1>3, <2>4 DEF Rollover, retired, opened
    <3>2. g = retired /\ w.ok = FALSE
      BY <3>1
    <3>3. Counts(f, retired, 0, 0, 0)
      BY <1>1, <2>2, CountNames DEF Counts
    <3> QED
      BY <2>2, <2>3, <3>2, <3>3
  <2>5. CASE ~(fault = "footer" /\ f.stream # 0)
    <3> DEFINE counted == Tally(retired, "rollover_count")
    <3>1. w = [sink |-> counted, ok |-> TRUE]
      BY <1>3, <2>5 DEF Rollover, retired, opened
    <3>2. g = counted /\ w.ok = TRUE
      BY <3>1
    <3>3. /\ counted \in SinkState /\ counted.stream = n + 1 /\ counted.records = 0
          /\ \A d \in Count : d # "rollover_count" => counted.counts[d] = f.counts[d]
      BY <2>2, TallyStep, CountNames
    <3>4. SinkSound(k, counted) /\ KeepsLines(retired, counted)
      BY <2>3, TallySound, CountNames
    <3>5. KeepsLines(f, counted)
      BY <1>1, <2>2, <3>3, <3>4, KeepsTransitive
    <3>6. Counts(f, counted, 0, 0, 0)
      BY <1>1, <3>3, CountNames DEF Counts
    <3>7. counted.stream # 0
      BY <1>1, <3>3
    <3> HIDE DEF counted, w
    <3> QED
      BY <3>2, <3>3, <3>4, <3>5, <3>6, <3>7
  <2> QED
    BY <2>4, <2>5
<1> QED
  BY <1>2, <1>3

\* A record is put after all the sink holds, and may be the first past the limit.
LEMMA PutStep ==
  ASSUME NEW k \in Sink, NEW f, SinkSound(k, f), f.stream # 0, ~MustRotate(k, f),
         NEW r \in Record
  PROVE  SinkSound(k, Put(f, r)) /\ PutsLine(f, Put(f, r), r) /\ Put(f, r).counts = f.counts
<1> DEFINE g == Put(f, r)
           n == f.stream
           old == f.segments[n]
           longer == [old EXCEPT !.lines = Append(old.lines, r)]
           segments == [f.segments EXCEPT ![n] = longer]
<1>1. /\ f \in SinkState /\ f.segments \in Seq(Segment) /\ Len(f.segments) \in Nat
      /\ f.stream \in Nat /\ f.size \in Nat /\ f.records \in Nat
      /\ f.counts \in [Count -> Nat]
  BY DEF SinkSound, SinkState
<1>2. n = Len(f.segments) /\ n \in 1 .. Len(f.segments)
  BY <1>1 DEF SinkSound
<1>3. old \in Segment /\ old.lines \in Seq(Record)
  <2>1. old \in Segment
    BY <1>1, <1>2
  <2> QED
    BY <2>1 DEF Segment
<1>4. Append(old.lines, r) \in Seq(Record)
  BY <1>3
<1>5. longer \in Segment /\ longer.lines = Append(old.lines, r) /\ longer.open = old.open
  BY <1>3, <1>4 DEF Segment
<1>6. /\ segments \in Seq(Segment) /\ Len(segments) = n
      /\ segments[n] = longer
      /\ \A i \in 1 .. n : i # n => segments[i] = f.segments[i]
  BY <1>1, <1>2, <1>5, SegmentReplaced
<1>7. g = [f EXCEPT !.segments = segments, !.size = f.size + 1, !.records = f.records + 1]
  BY DEF Put
<1>8. longer.lines = Append(f.segments[n].lines, r) /\ longer.open = f.segments[n].open
  BY <1>5
<1> HIDE DEF segments, longer, g
<1>9. g = [segments |-> segments, stream |-> f.stream, size |-> f.size + 1,
           records |-> f.records + 1, counts |-> f.counts]
  BY <1>1, <1>7 DEF SinkState
<1>10. f.size + 1 \in Nat /\ f.records + 1 \in Nat
  BY <1>1
<1>11. /\ g \in SinkState /\ g.segments = segments /\ g.stream = n /\ g.size = f.size + 1
       /\ g.records = f.records + 1 /\ g.counts = f.counts
  BY <1>1, <1>6, <1>9, <1>10 DEF SinkState
<1> HIDE DEF n, old
<1>12. k \in Sized /\ g.records > 1 => g.size <= MaxBytes
  <2> SUFFICES ASSUME k \in Sized, g.records > 1
               PROVE  g.size <= MaxBytes
    OBVIOUS
  <2>1. f.records > 0
    BY <1>1, <1>11
  <2>2. ~(f.size + 1 > MaxBytes)
    BY <2>1 DEF MustRotate
  <2> QED
    BY <1>1, <1>11, <2>2, SinkNames
<1>13. ASSUME k \in File, NEW i \in 1 .. n
       PROVE  segments[i].open <=> i = n
  <2>1. f.segments[i].open <=> i = n
    BY <1>2, <1>13 DEF SinkSound, n
  <2>2. CASE i = n
    BY <1>6, <1>8, <2>1, <2>2
  <2>3. CASE i # n
    BY <1>6, <2>1, <2>3
  <2> QED
    BY <2>2, <2>3
<1>14. SinkSound(k, g)
  BY <1>1, <1>2, <1>6, <1>11, <1>12, <1>13 DEF SinkSound, n
<1>15. PutsLine(f, g, r)
  <2>1. \A i \in 1 .. n : i # n => g.segments[i].lines = f.segments[i].lines
    BY <1>6, <1>11
  <2>2. g.segments[n].lines = Append(f.segments[n].lines, r)
    BY <1>6, <1>8, <1>11
  <2>3. Len(g.segments) = n /\ Len(f.segments) = n /\ n > 0
    BY <1>2, <1>6, <1>11
  <2> QED
    BY <2>1, <2>2, <2>3 DEF PutsLine
<1> QED
  BY <1>11, <1>14, <1>15 DEF g

\* The console is never full; a sink at a fresh segment is not either.
LEMMA NotFull ==
  ASSUME NEW k \in Sink, NEW f \in SinkState, k = Console \/ f.records = 0
  PROVE  ~MustRotate(k, f)
  BY SinkNames DEF MustRotate

LEMMA PreparedStep ==
  ASSUME NEW k \in Sink, NEW f, SinkSound(k, f), NEW fault \in Fault \cup {"none"}
  PROVE  LET p == Prepared(k, f, fault)
         IN  /\ SinkSound(k, p.sink) /\ KeepsLines(f, p.sink) /\ Counts(f, p.sink, 0, 0, 0)
             /\ p.ok \in BOOLEAN
             /\ p.ok => p.sink.stream # 0 /\ ~MustRotate(k, p.sink)
             /\ DOMAIN p = {"sink", "ok"}
<1> DEFINE p == Prepared(k, f, fault)
<1> SUFFICES /\ SinkSound(k, p.sink) /\ KeepsLines(f, p.sink) /\ Counts(f, p.sink, 0, 0, 0)
             /\ p.ok \in BOOLEAN
             /\ p.ok => p.sink.stream # 0 /\ ~MustRotate(k, p.sink)
             /\ DOMAIN p = {"sink", "ok"}
  OBVIOUS
<1>1. f \in SinkState /\ f.counts \in [Count -> Nat] /\ KeepsLines(f, f)
  BY KeepsSame DEF SinkSound, SinkState
<1>2. Counts(f, f, 0, 0, 0)
  BY <1>1, CountNames DEF Counts
<1>3. CASE f.stream = 0 /\ fault = "create"
  <2>1. p = [sink |-> f, ok |-> FALSE]
    BY <1>3 DEF Prepared
  <2>2. p.sink = f /\ p.ok = FALSE /\ DOMAIN p = {"sink", "ok"}
    BY <2>1
  <2> HIDE DEF p
  <2> QED
    BY <1>1, <1>2, <2>2
<1>4. CASE f.stream = 0 /\ fault # "create"
  <2> DEFINE g == OpenSegment(f)
  <2>1. p = [sink |-> g, ok |-> TRUE]
    BY <1>4 DEF Prepared
  <2>2. p.sink = g /\ p.ok = TRUE /\ DOMAIN p = {"sink", "ok"}
    BY <2>1
  <2>3. SinkSound(k, g) /\ g.stream # 0
    BY <1>4, OpenSound
  <2>4. g \in SinkState /\ g.records = 0 /\ g.counts = f.counts /\ KeepsLines(f, g)
    BY <1>1, OpenSegmentStep, OpenSegmentLines
  <2>5. ~MustRotate(k, g) /\ Counts(f, g, 0, 0, 0)
    BY <1>1, <1>2, <2>4, NotFull DEF Counts
  <2> HIDE DEF p, g
  <2> QED
    BY <2>2, <2>3, <2>4, <2>5
<1>5. CASE f.stream # 0 /\ MustRotate(k, f)
  <2>1. p = Rollover(f, fault)
    BY <1>5 DEF Prepared
  <2>2. /\ SinkSound(k, p.sink) /\ KeepsLines(f, p.sink) /\ Counts(f, p.sink, 0, 0, 0)
        /\ p.ok \in BOOLEAN
        /\ p.ok => p.sink.stream # 0 /\ p.sink.records = 0
    BY <2>1, RolloverStep
  <2>3. p.ok => ~MustRotate(k, p.sink)
    BY <2>2, NotFull DEF SinkSound
  <2>4. DOMAIN p = {"sink", "ok"}
    BY <2>1 DEF Rollover
  <2> HIDE DEF p
  <2> QED
    BY <2>2, <2>3, <2>4
<1>6. CASE f.stream # 0 /\ ~MustRotate(k, f)
  <2>1. p = [sink |-> f, ok |-> TRUE]
    BY <1>6 DEF Prepared
  <2>2. p.sink = f /\ p.ok = TRUE /\ DOMAIN p = {"sink", "ok"}
    BY <2>1
  <2> HIDE DEF p
  <2> QED
    BY <1>1, <1>2, <1>6, <2>2
<1> HIDE DEF p
<1> QED
  BY <1>3, <1>4, <1>5, <1>6

\* What a sink's write leaves behind, before it is counted.
Wrote(k, f, r, w) ==
  /\ SinkSound(k, w.sink) /\ Counts(f, w.sink, 0, 0, 0)
  /\ w.ok \in BOOLEAN
  /\ ~w.ok => KeepsLines(f, w.sink)
  /\ w.ok => \E m \in SinkState : KeepsLines(f, m) /\ PutsLine(m, w.sink, r)

LEMMA WriteStep ==
  ASSUME NEW k \in Sink, NEW f, SinkSound(k, f), NEW fault \in Fault \cup {"none"},
         NEW r \in Record
  PROVE  Wrote(k, f, r, Write(k, f, r, fault))
<1> DEFINE p == Prepared(k, f, fault)
           w == Write(k, f, r, fault)
<1>1. /\ SinkSound(k, p.sink) /\ KeepsLines(f, p.sink) /\ Counts(f, p.sink, 0, 0, 0)
      /\ p.ok \in BOOLEAN
      /\ p.ok => p.sink.stream # 0 /\ ~MustRotate(k, p.sink)
      /\ DOMAIN p = {"sink", "ok"}
  BY PreparedStep
<1>2. CASE ~p.ok \/ fault = "write"
  <2>1. w = [p EXCEPT !.ok = FALSE]
    BY <1>2 DEF Write
  <2> HIDE DEF p, w
  <2>2. w.sink = p.sink /\ w.ok = FALSE
    BY <1>1, <2>1
  <2>3. Wrote(k, f, r, w)
    BY <1>1, <2>2 DEF Wrote
  <2> QED
    BY <2>3 DEF w
<1>3. CASE p.ok /\ fault # "write"
  <2>1. w = [sink |-> Put(p.sink, r), ok |-> TRUE]
    BY <1>3 DEF Write
  <2> HIDE DEF p, w
  <2>2. w.sink = Put(p.sink, r) /\ w.ok = TRUE
    BY <2>1
  <2>3. /\ SinkSound(k, w.sink) /\ PutsLine(p.sink, w.sink, r)
        /\ w.sink.counts = p.sink.counts
    BY <1>1, <1>3, <2>2, PutStep
  <2>4. Counts(f, w.sink, 0, 0, 0)
    BY <1>1, <2>3 DEF Counts
  <2>5. p.sink \in SinkState
    BY <1>1 DEF SinkSound
  <2>6. Wrote(k, f, r, w)
    BY <1>1, <2>2, <2>3, <2>4, <2>5 DEF Wrote
  <2> QED
    BY <2>6 DEF w
<1> HIDE DEF p
<1> QED
  BY <1>1, <1>2, <1>3

LEMMA ConsoleStep ==
  ASSUME NEW f, SinkSound(Console, f), NEW fault \in Fault \cup {"none"}, NEW r \in Record
  PROVE  Wrote(Console, f, r,
               [sink |-> IF fault = "write" THEN f ELSE Put(f, r), ok |-> fault # "write"])
<1>1. /\ f \in SinkState /\ f.counts \in [Count -> Nat] /\ KeepsLines(f, f)
      /\ Console \in Sink /\ f.stream # 0
  BY KeepsSame DEF SinkSound, SinkState, Sink
<1>2. ~MustRotate(Console, f) /\ Counts(f, f, 0, 0, 0)
  BY <1>1, NotFull, CountNames DEF Counts
<1>3. /\ SinkSound(Console, Put(f, r)) /\ PutsLine(f, Put(f, r), r)
      /\ Put(f, r).counts = f.counts
  BY <1>1, <1>2, PutStep
<1>4. Counts(f, Put(f, r), 0, 0, 0)
  BY <1>2, <1>3 DEF Counts
<1>5. CASE fault = "write"
  <2>1. Wrote(Console, f, r, [sink |-> f, ok |-> FALSE])
    BY <1>1, <1>2 DEF Wrote
  <2> QED
    BY <1>5, <2>1
<1>6. CASE fault # "write"
  <2>1. Wrote(Console, f, r, [sink |-> Put(f, r), ok |-> TRUE])
    BY <1>1, <1>3, <1>4 DEF Wrote
  <2> QED
    BY <1>6, <2>1
<1> QED
  BY <1>5, <1>6

\* Tallies of different counters add up.
LEMMA TallyCounts ==
  ASSUME NEW f \in SinkState, NEW g \in SinkState, NEW n \in {0, 1}, Counts(f, g, n, 0, 0)
  PROVE  /\ Counts(f, Tally(g, "records_written"), n, 1, 0)
         /\ Counts(f, Tally(g, "writer_errors"), n, 0, 1)
<1> DEFINE a == Tally(g, "records_written")
           b == Tally(g, "writer_errors")
<1>1. /\ a.counts["records_written"] = g.counts["records_written"] + 1
      /\ a.counts["records_enqueued"] = g.counts["records_enqueued"]
      /\ a.counts["writer_errors"] = g.counts["writer_errors"]
  BY TallyStep, CountNames
<1>2. /\ b.counts["writer_errors"] = g.counts["writer_errors"] + 1
      /\ b.counts["records_enqueued"] = g.counts["records_enqueued"]
      /\ b.counts["records_written"] = g.counts["records_written"]
  BY TallyStep, CountNames
<1>3. /\ g.counts["records_enqueued"] = f.counts["records_enqueued"] + n
      /\ g.counts["records_written"] = f.counts["records_written"] + 0
      /\ g.counts["writer_errors"] = f.counts["writer_errors"] + 0
  BY DEF Counts
<1>4. /\ g.counts["records_enqueued"] \in Nat /\ g.counts["records_written"] \in Nat
      /\ g.counts["writer_errors"] \in Nat
  BY CountNames DEF SinkState
<1> HIDE DEF a, b
<1>5. Counts(f, a, n, 1, 0) /\ Counts(f, b, n, 0, 1)
  <2>1. /\ f.counts["records_enqueued"] \in Nat /\ f.counts["records_written"] \in Nat
        /\ f.counts["writer_errors"] \in Nat
    BY CountNames DEF SinkState
  <2> QED
    BY <1>1, <1>2, <1>3, <1>4, <2>1 DEF Counts
<1> QED
  BY <1>5 DEF a, b

\* A failure is counted once, and moves no record.
LEMMA FailStep ==
  ASSUME NEW k \in Sink, NEW f \in SinkState, NEW g, SinkSound(k, g), NEW n \in {0, 1}, Counts(f, g, n, 0, 0)
  PROVE  /\ SinkSound(k, Fail(k, g)) /\ KeepsLines(g, Fail(k, g))
         /\ Counts(f, Fail(k, g), n, 0, 1)
<1> DEFINE reported == Tally(g, "writer_errors")
<1>1. g \in SinkState
  BY DEF SinkSound
<1>2. SinkSound(k, reported) /\ KeepsLines(g, reported) /\ Counts(f, reported, n, 0, 1)
  BY <1>1, TallySound, TallyCounts, CountNames
<1>3. reported \in SinkState
  BY <1>2 DEF SinkSound
<1> HIDE DEF reported
<1>4. CASE k \in File
  <2> DEFINE h == CloseStream(reported)
  <2>1. Fail(k, g) = h
    BY <1>4 DEF Fail, reported
  <2>2. SinkSound(k, h) /\ KeepsLines(reported, h) /\ h.counts = reported.counts
    BY <1>2, <1>4, CloseStreamStep
  <2>3. h \in SinkState
    BY <2>2 DEF SinkSound
  <2>4. KeepsLines(g, h)
    BY <1>1, <1>2, <1>3, <2>2, <2>3, KeepsTransitive
  <2>5. Counts(f, h, n, 0, 1)
    BY <1>2, <2>2 DEF Counts
  <2> QED
    BY <2>1, <2>2, <2>4, <2>5
<1>5. CASE k \notin File
  <2>1. Fail(k, g) = reported
    BY <1>5 DEF Fail, reported
  <2> QED
    BY <1>2, <2>1
<1> QED
  BY <1>4, <1>5

\* A record that reaches a sink is enqueued there, and written or counted as an
\* error, never both.
LEMMA DeliverStep ==
  ASSUME NEW k \in Sink, NEW f, SinkSound(k, f), NEW fault \in Fault \cup {"none"},
         NEW r \in Record
  PROVE  LET g == Deliver(k, f, r, fault)
         IN  /\ SinkSound(k, g)
             /\ \/ KeepsLines(f, g) /\ Counts(f, g, 1, 0, 1)
                \/ /\ \E m \in SinkState : KeepsLines(f, m) /\ PutsLine(m, g, r)
                   /\ Counts(f, g, 1, 1, 0)
<1> DEFINE w == IF k = Console
                THEN [sink |-> IF fault = "write" THEN f ELSE Put(f, r), ok |-> fault # "write"]
                ELSE Write(k, f, r, fault)
           counted == Tally(w.sink, "records_enqueued")
           written == Tally(counted, "records_written")
           g == Deliver(k, f, r, fault)
<1>1. Wrote(k, f, r, w)
  <2>1. CASE k = Console
    <3>1. w = [sink |-> IF fault = "write" THEN f ELSE Put(f, r), ok |-> fault # "write"]
      BY <2>1
    <3> HIDE DEF w
    <3> QED
      BY <2>1, <3>1, ConsoleStep
  <2>2. CASE k # Console
    <3>1. w = Write(k, f, r, fault)
      BY <2>2
    <3> HIDE DEF w
    <3> QED
      BY <3>1, WriteStep
  <2> QED
    BY <2>1, <2>2
<1>2. /\ w.ok => g = written
      /\ ~w.ok => g = Fail(k, counted)
  BY DEF Deliver
<1> HIDE DEF w, g
<1>3. SinkSound(k, w.sink) /\ w.sink \in SinkState /\ w.ok \in BOOLEAN /\ Counts(f, w.sink, 0, 0, 0)
  BY <1>1 DEF Wrote, SinkSound
<1>4. SinkSound(k, counted) /\ KeepsLines(w.sink, counted) /\ counted \in SinkState
  BY <1>3, TallySound, TallyStep, CountNames
<1>5. Counts(f, counted, 1, 0, 0)
  <2>1. /\ counted.counts["records_enqueued"] = w.sink.counts["records_enqueued"] + 1
        /\ counted.counts["records_written"] = w.sink.counts["records_written"]
        /\ counted.counts["writer_errors"] = w.sink.counts["writer_errors"]
    BY <1>3, TallyStep, CountNames
  <2>2. f.counts["records_enqueued"] \in Nat
    BY CountNames DEF SinkState, SinkSound
  <2> HIDE DEF counted
  <2> QED
    BY <1>3, <2>1, <2>2 DEF Counts
<1>6. counted.segments = w.sink.segments
  BY <1>3, TallyStep, CountNames
<1> HIDE DEF counted
<1>7. f \in SinkState
  BY DEF SinkSound
<1>8. CASE ~w.ok
  <2>1. SinkSound(k, g) /\ KeepsLines(counted, g) /\ Counts(f, g, 1, 0, 1)
    BY <1>2, <1>4, <1>5, <1>7, <1>8, FailStep
  <2>2. KeepsLines(f, w.sink)
    BY <1>1, <1>8 DEF Wrote
  <2>3. g \in SinkState
    BY <2>1 DEF SinkSound
  <2>4. KeepsLines(f, counted)
    BY <1>3, <1>4, <1>7, <2>2, KeepsTransitive
  <2>5. KeepsLines(f, g)
    BY <1>4, <1>7, <2>1, <2>3, <2>4, KeepsTransitive
  <2> QED
    BY <2>1, <2>5 DEF g
<1>9. CASE w.ok
  <2>1. SinkSound(k, written)
    BY <1>4, TallySound, CountNames
  <2>2. Counts(f, written, 1, 1, 0)
    BY <1>4, <1>5, <1>7, TallyCounts
  <2>3. written.segments = counted.segments
    BY <1>4, TallyStep, CountNames
  <2>4. PICK m \in SinkState : KeepsLines(f, m) /\ PutsLine(m, w.sink, r)
    BY SMTT(30), <1>1, <1>9 DEF Wrote
  <2>5. PutsLine(m, written, r)
    BY <1>6, <2>3, <2>4 DEF PutsLine
  <2>6. g = written
    BY <1>2, <1>9
  <2> HIDE DEF written
  <2> QED
    BY <2>1, <2>2, <2>4, <2>5, <2>6 DEF g
<1> QED
  BY <1>3, <1>8, <1>9

\* A timer moves no record, and counts at most an error.
LEMMA TimersStep ==
  ASSUME NEW k \in File, NEW f, SinkSound(k, f), NEW fault \in Fault \cup {"none"},
         NEW due \in BOOLEAN
  PROVE  LET g == Timers(k, f, due, fault)
         IN  /\ SinkSound(k, g) /\ KeepsLines(f, g)
             /\ Counts(f, g, 0, 0, 0) \/ Counts(f, g, 0, 0, 1)
<1> DEFINE w == IF due THEN Rollover(f, fault) ELSE [sink |-> f, ok |-> TRUE]
           g == Timers(k, f, due, fault)
<1>1. f \in SinkState /\ f.counts \in [Count -> Nat] /\ KeepsLines(f, f) /\ k \in Sink
  BY KeepsSame DEF SinkSound, SinkState, Sink
<1>2. SinkSound(k, w.sink) /\ KeepsLines(f, w.sink) /\ Counts(f, w.sink, 0, 0, 0)
  <2>1. CASE due
    <3>1. w = Rollover(f, fault)
      BY <2>1
    <3> HIDE DEF w
    <3> QED
      BY <1>1, <3>1, RolloverStep
  <2>2. CASE ~due
    <3>1. w.sink = f
      BY <2>2
    <3> HIDE DEF w
    <3> QED
      BY <1>1, <3>1, CountNames DEF Counts
  <2> QED
    BY <2>1, <2>2
<1>3. /\ w.ok /\ fault # "flush" => g = w.sink
      /\ ~(w.ok /\ fault # "flush") => g = Fail(k, w.sink)
  BY DEF Timers
<1> HIDE DEF w, g
<1>4. CASE g = w.sink
  BY <1>2, <1>4 DEF g
<1>5. CASE g = Fail(k, w.sink)
  <2>1. SinkSound(k, g) /\ KeepsLines(w.sink, g) /\ Counts(f, g, 0, 0, 1)
    BY <1>1, <1>2, <1>5, FailStep
  <2>2. KeepsLines(f, g)
    BY <1>1, <1>2, <2>1, KeepsTransitive DEF SinkSound
  <2> QED
    BY <2>1, <2>2 DEF g
<1> QED
  BY <1>3, <1>4, <1>5

LEMMA ClosedStep ==
  ASSUME NEW k \in Sink, NEW f, SinkSound(k, f), NEW fault \in Fault \cup {"none"}
  PROVE  LET g == Closed(k, f, fault)
         IN  /\ SinkSound(k, g) /\ KeepsLines(f, g)
             /\ Counts(f, g, 0, 0, 0) \/ Counts(f, g, 0, 0, 1)
             /\ k \in File => g.stream = 0
<1> DEFINE flushed == IF fault = "flush" THEN Tally(f, "writer_errors") ELSE f
           g == Closed(k, f, fault)
<1>1. f \in SinkState /\ f.counts \in [Count -> Nat] /\ KeepsLines(f, f)
  BY KeepsSame DEF SinkSound, SinkState
<1>2. Counts(f, f, 0, 0, 0)
  BY <1>1, CountNames DEF Counts
<1>3. /\ SinkSound(k, flushed) /\ KeepsLines(f, flushed)
      /\ Counts(f, flushed, 0, 0, 0) \/ Counts(f, flushed, 0, 0, 1)
  <2>1. CASE fault = "flush"
    <3>1. flushed = Tally(f, "writer_errors")
      BY <2>1
    <3> HIDE DEF flushed
    <3> QED
      BY <1>1, <1>2, <3>1, TallySound, TallyCounts, CountNames
  <2>2. CASE fault # "flush"
    BY <1>1, <1>2, <2>2
  <2> QED
    BY <2>1, <2>2
<1>4. /\ k \in File => g = CloseStream(flushed)
      /\ k \notin File => g = flushed
  BY DEF Closed
<1> HIDE DEF flushed, g
<1>5. CASE k \notin File
  BY <1>3, <1>4, <1>5 DEF g
<1>6. CASE k \in File
  <2>1. SinkSound(k, g) /\ g.stream = 0 /\ KeepsLines(flushed, g) /\ g.counts = flushed.counts
    BY <1>3, <1>4, <1>6, CloseStreamStep
  <2>2. KeepsLines(f, g)
    BY <1>1, <1>3, <2>1, KeepsTransitive DEF SinkSound
  <2>3. Counts(f, g, 0, 0, 0) \/ Counts(f, g, 0, 0, 1)
    BY <1>3, <2>1 DEF Counts
  <2> QED
    BY <2>1, <2>2, <2>3 DEF g
<1> QED
  BY <1>5, <1>6

\* A sink starts with one empty segment and nothing counted.
LEMMA OpenedStep ==
  ASSUME NEW k \in Sink
  PROVE  /\ SinkSound(k, Opened) /\ Opened.stream # 0
         /\ Opened.segments = <<NewSegment>> /\ Opened.counts = NoCounts
<1> DEFINE blank == [segments |-> <<>>, stream |-> 0, size |-> 0, records |-> 0,
                     counts |-> NoCounts]
<1>1. blank \in SinkState
  BY DEF SinkState, NoCounts
<1>2. Opened = OpenSegment(blank)
  BY DEF Opened
<1>3. blank.segments = <<>> /\ blank.counts = NoCounts
  OBVIOUS
<1> HIDE DEF blank
<1>4. /\ Opened \in SinkState
      /\ Opened.segments = Append(<<>>, NewSegment) /\ Opened.stream = Len(<<>>) + 1
      /\ Opened.records = 0 /\ Opened.counts = NoCounts
  BY <1>1, <1>2, <1>3, OpenSegmentStep
<1>5. Opened.segments = <<NewSegment>> /\ Opened.stream = 1
  BY <1>4
<1>6. Len(Opened.segments) = 1 /\ Opened.segments[1].open = TRUE
  BY <1>5 DEF NewSegment
<1>7. k \in File => \A i \in 1 .. Len(Opened.segments) : Opened.segments[i].open <=> i = Opened.stream
  BY <1>5, <1>6
<1>8. SinkSound(k, Opened)
  BY <1>4, <1>5, <1>6, <1>7 DEF SinkSound
<1> QED
  BY <1>4, <1>5, <1>8

----------------------------------------------------------------------------
\* The records a sink holds, against the records its handler admitted

Distinct(records) ==
  \A i, j \in 1 .. Len(records) : records[i] = records[j] => i = j

\* What the sink holds comes from the first h records, in their order.
TextMatches(f, records, h) ==
  /\ IsFiniteSet(Places(f))
  /\ \A a \in Places(f) : \E i \in 1 .. h : records[i] = LineAt(f, a)
  /\ \A a, b \in Places(f) : Precedes(a, b) =>
       \A i, j \in 1 .. h : records[i] = LineAt(f, a) /\ records[j] = LineAt(f, b) => i < j

Selecting(k, records, h) == {i \in 1 .. h : records[i].by \in Selected[k]}

\* The sink has seen the first h records: those it selects are counted, and each
\* was written or its failure counted.
SinkMatches(k, f, records, h) ==
  /\ SinkSound(k, f)
  /\ TextMatches(f, records, h)
  /\ Cardinality(Places(f)) = f.counts["records_written"]
  /\ f.counts["records_enqueued"] = Cardinality(Selecting(k, records, h))
  /\ f.counts["records_enqueued"] <= f.counts["records_written"] + f.counts["writer_errors"]

LEMMA PlaceMember ==
  ASSUME NEW f \in SinkState, NEW a
  PROVE  a \in Places(f) <=>
           \E i \in 1 .. Len(f.segments) : \E j \in 1 .. Len(f.segments[i].lines) : a = <<i, j>>
<1>1. f.segments \in Seq(Segment)
  BY DEF SinkState
<1>2. DOMAIN f.segments = 1 .. Len(f.segments)
  BY <1>1
<1>3. ASSUME NEW i \in 1 .. Len(f.segments)
      PROVE  DOMAIN f.segments[i].lines = 1 .. Len(f.segments[i].lines)
  <2>1. f.segments[i] \in Segment
    BY <1>1
  <2>2. f.segments[i].lines \in Seq(Record)
    BY <2>1 DEF Segment
  <2> QED
    BY <2>2
<1>4. a \in Places(f) <=>
        \E i \in DOMAIN f.segments : a \in {i} \X DOMAIN f.segments[i].lines
  BY DEF Places
<1> QED
  BY <1>2, <1>3, <1>4

LEMMA LineCount ==
  ASSUME NEW f \in SinkState, NEW i \in 1 .. Len(f.segments)
  PROVE  /\ Len(f.segments) \in Nat /\ Len(f.segments[i].lines) \in Nat
         /\ f.segments[i].lines \in Seq(Record)
<1>1. f.segments \in Seq(Segment)
  BY DEF SinkState
<1>2. f.segments[i] \in Segment
  BY <1>1
<1>3. f.segments[i].lines \in Seq(Record)
  BY <1>2 DEF Segment
<1> QED
  BY <1>1, <1>3

\* A step that keeps the lines keeps every record in its place.
LEMMA KeepsPlaces ==
  ASSUME NEW f \in SinkState, NEW g \in SinkState, KeepsLines(f, g)
  PROVE  /\ Places(g) = Places(f)
         /\ \A a \in Places(f) : LineAt(g, a) = LineAt(f, a)
<1> DEFINE m == Len(f.segments)
           n == Len(g.segments)
<1>1. m \in Nat /\ n \in Nat /\ m <= n
  BY DEF SinkState, KeepsLines
<1>2. \A i \in 1 .. m : i \in 1 .. n /\ g.segments[i].lines = f.segments[i].lines
  BY <1>1 DEF KeepsLines
<1>3. \A i \in 1 .. n : i \notin 1 .. m => g.segments[i].lines = <<>>
  BY <1>1 DEF KeepsLines
<1>4. \A a : a \in Places(f) <=> \E i \in 1 .. m : \E j \in 1 .. Len(f.segments[i].lines) : a = <<i, j>>
  BY PlaceMember
<1>5. \A a : a \in Places(g) <=> \E i \in 1 .. n : \E j \in 1 .. Len(g.segments[i].lines) : a = <<i, j>>
  BY PlaceMember
<1> HIDE DEF m, n
<1>6. \A i \in 1 .. n : i \notin 1 .. m => 1 .. Len(g.segments[i].lines) = {}
  BY <1>3
<1>7. Places(g) = Places(f)
  <2>1. ASSUME NEW a
        PROVE  a \in Places(g) <=> a \in Places(f)
    BY SMTT(30), <1>2, <1>4, <1>5, <1>6
  <2> QED
    BY <2>1
<1>8. ASSUME NEW a \in Places(f)
      PROVE  LineAt(g, a) = LineAt(f, a)
  <2>1. PICK i \in 1 .. m : \E j \in 1 .. Len(f.segments[i].lines) : a = <<i, j>>
    BY <1>4
  <2>2. PICK j \in 1 .. Len(f.segments[i].lines) : a = <<i, j>>
    BY <2>1
  <2> QED
    BY <1>2, <2>2 DEF LineAt
<1> QED
  BY <1>7, <1>8

\* A record put after the others has a place of its own, after all of theirs.
LEMMA PutPlaces ==
  ASSUME NEW f \in SinkState, NEW g \in SinkState, NEW r \in Record, PutsLine(f, g, r)
  PROVE  \E p : /\ p \notin Places(f) /\ Places(g) = Places(f) \cup {p}
                /\ LineAt(g, p) = r
                /\ \A a \in Places(f) : LineAt(g, a) = LineAt(f, a)
                /\ \A a \in Places(g) : ~Precedes(p, a)
<1> DEFINE n == Len(f.segments)
           l == Len(f.segments[n].lines)
           p == <<n, l + 1>>
<1>1. n \in Nat /\ n \in 1 .. n /\ Len(g.segments) = n
  BY DEF SinkState, PutsLine
<1>2. l \in Nat /\ f.segments[n].lines \in Seq(Record)
  BY <1>1, LineCount
<1>3. \A i \in 1 .. n : i # n => g.segments[i].lines = f.segments[i].lines
  BY DEF PutsLine
<1>4. g.segments[n].lines = Append(f.segments[n].lines, r)
  BY DEF PutsLine
<1>5. /\ Len(g.segments[n].lines) = l + 1 /\ g.segments[n].lines[l + 1] = r
      /\ \A j \in 1 .. l : g.segments[n].lines[j] = f.segments[n].lines[j]
  BY SMTT(30), <1>2, <1>4
<1>6. \A a : a \in Places(f) <=> \E i \in 1 .. n : \E j \in 1 .. Len(f.segments[i].lines) : a = <<i, j>>
  BY PlaceMember
<1>7. \A a : a \in Places(g) <=> \E i \in 1 .. n : \E j \in 1 .. Len(g.segments[i].lines) : a = <<i, j>>
  <2>1. Len(g.segments) = n
    BY <1>1
  <2>2. \A a : a \in Places(g) <=>
          \E i \in 1 .. Len(g.segments) : \E j \in 1 .. Len(g.segments[i].lines) : a = <<i, j>>
    BY PlaceMember
  <2>3. 1 .. Len(g.segments) = 1 .. n
    BY <2>1
  <2> HIDE DEF n
  <2> QED
    BY ONLY <2>2, <2>3
<1>8. \A i \in 1 .. n : Len(f.segments[i].lines) \in Nat
  BY LineCount
<1>9. 1 .. l + 1 = (1 .. l) \cup {l + 1} /\ l + 1 \notin 1 .. l /\ 1 .. l \subseteq 1 .. l + 1
  <2>1. \A x \in Nat : /\ 1 .. x + 1 = (1 .. x) \cup {x + 1} /\ x + 1 \notin 1 .. x
                      /\ 1 .. x \subseteq 1 .. x + 1
    BY ONLY TRUE
  <2> QED
    BY <1>2, <2>1
<1>10. ASSUME NEW i \in 1 .. n, NEW j
       PROVE  j \in 1 .. Len(g.segments[i].lines) <=>
                j \in 1 .. Len(f.segments[i].lines) \/ (i = n /\ j = l + 1)
  <2>1. CASE i = n
    BY <1>5, <1>9, <2>1
  <2>2. CASE i # n
    BY <1>3, <2>2
  <2> QED
    BY <2>1, <2>2
<1> HIDE DEF l, n
<1>11. p \notin Places(f)
  <2>1. 1 .. Len(f.segments[n].lines) = 1 .. l
    BY DEF l
  <2>2. ASSUME NEW i \in 1 .. n, NEW j \in 1 .. Len(f.segments[i].lines), p = <<i, j>>
        PROVE  FALSE
    <3>1. i = n /\ j = l + 1
      BY <2>2
    <3>2. j \in 1 .. l
      BY <2>1, <2>2, <3>1
    <3> QED
      BY <1>9, <3>1, <3>2
  <2> QED
    BY <1>6, <2>2
<1>12. Places(g) = Places(f) \cup {p}
  <2>1. ASSUME NEW a
        PROVE  a \in Places(g) <=> a \in Places(f) \/ a = p
    <3>1. ASSUME a \in Places(g)
          PROVE  a \in Places(f) \/ a = p
      <4>1. PICK i \in 1 .. n : \E j \in 1 .. Len(g.segments[i].lines) : a = <<i, j>>
        BY <1>7, <3>1
      <4>2. PICK j \in 1 .. Len(g.segments[i].lines) : a = <<i, j>>
        BY <4>1
      <4>3. j \in 1 .. Len(f.segments[i].lines) \/ (i = n /\ j = l + 1)
        BY <1>10, <4>2
      <4> QED
        BY <1>6, <4>2, <4>3
    <3>2. ASSUME a \in Places(f)
          PROVE  a \in Places(g)
      <4>1. PICK i \in 1 .. n : \E j \in 1 .. Len(f.segments[i].lines) : a = <<i, j>>
        BY <1>6, <3>2
      <4>2. PICK j \in 1 .. Len(f.segments[i].lines) : a = <<i, j>>
        BY <4>1
      <4>3. j \in 1 .. Len(g.segments[i].lines)
        BY <1>10, <4>2
      <4> QED
        BY <1>7, <4>2, <4>3
    <3>3. p \in Places(g)
      <4>1. l + 1 \in 1 .. Len(g.segments[n].lines)
        BY <1>1, <1>10
      <4> QED
        BY <1>1, <1>7, <4>1
    <3> QED
      BY <3>1, <3>2, <3>3
  <2> QED
    BY <2>1
<1>13. LineAt(g, p) = r
  BY <1>5 DEF LineAt
<1>14. ASSUME NEW a \in Places(f)
       PROVE  LineAt(g, a) = LineAt(f, a)
  <2>1. PICK i \in 1 .. n : \E j \in 1 .. Len(f.segments[i].lines) : a = <<i, j>>
    BY <1>6
  <2>2. PICK j \in 1 .. Len(f.segments[i].lines) : a = <<i, j>>
    BY <2>1
  <2>3. CASE i = n
    BY <1>5, <2>2, <2>3 DEF LineAt, l
  <2>4. CASE i # n
    BY <1>3, <2>2, <2>4 DEF LineAt
  <2> QED
    BY <2>3, <2>4
<1>15. ASSUME NEW a \in Places(g), Precedes(p, a)
       PROVE  FALSE
  <2>1. PICK i \in 1 .. n : \E j \in 1 .. Len(g.segments[i].lines) : a = <<i, j>>
    BY <1>7
  <2>2. PICK j \in 1 .. Len(g.segments[i].lines) : a = <<i, j>>
    BY <2>1
  <2>3. n < i \/ (n = i /\ l + 1 < j)
    BY <1>15, <2>2 DEF Precedes
  <2>4. i = n /\ l + 1 < j
    BY <1>1, <2>2, <2>3
  <2>5. j \in 1 .. l + 1
    BY <1>5, <2>2, <2>4
  <2> QED
    BY <1>2, <2>4, <2>5
<1> QED
  BY <1>11, <1>12, <1>13, <1>14, <1>15

\* A sink that keeps its lines matches as before, whatever it has failed at.
LEMMA KeepsMatches ==
  ASSUME NEW k \in Sink, NEW f, NEW g, NEW records, NEW h \in Nat,
         SinkMatches(k, f, records, h), SinkSound(k, g), KeepsLines(f, g),
         Counts(f, g, 0, 0, 0) \/ Counts(f, g, 0, 0, 1)
  PROVE  SinkMatches(k, g, records, h)
<1>1. f \in SinkState /\ g \in SinkState
  BY DEF SinkMatches, SinkSound
<1>2. Places(g) = Places(f) /\ \A a \in Places(f) : LineAt(g, a) = LineAt(f, a)
  BY <1>1, KeepsPlaces
<1>3. TextMatches(g, records, h)
  BY <1>2 DEF SinkMatches, TextMatches
<1>4. /\ f.counts["records_enqueued"] \in Nat /\ f.counts["records_written"] \in Nat
      /\ f.counts["writer_errors"] \in Nat
  BY <1>1, CountNames DEF SinkState
<1>5. /\ g.counts["records_enqueued"] = f.counts["records_enqueued"]
      /\ g.counts["records_written"] = f.counts["records_written"]
      /\ g.counts["writer_errors"] \in {f.counts["writer_errors"], f.counts["writer_errors"] + 1}
  BY <1>4 DEF Counts
<1>6. g.counts["records_enqueued"] <= g.counts["records_written"] + g.counts["writer_errors"]
  <2>1. f.counts["records_enqueued"] <= f.counts["records_written"] + f.counts["writer_errors"]
    BY DEF SinkMatches
  <2> QED
    BY <1>4, <1>5, <2>1
<1> QED
  BY <1>2, <1>3, <1>5, <1>6 DEF SinkMatches

\* The next record is counted by the sinks that select it and by no other.
LEMMA SelectingNext ==
  ASSUME NEW k \in Sink, NEW records, NEW h \in Nat
  PROVE  /\ Cardinality(Selecting(k, records, h)) \in Nat
         /\ records[h + 1].by \in Selected[k] =>
              Cardinality(Selecting(k, records, h + 1)) = Cardinality(Selecting(k, records, h)) + 1
         /\ records[h + 1].by \notin Selected[k] =>
              Selecting(k, records, h + 1) = Selecting(k, records, h)
<1> DEFINE S == Selecting(k, records, h)
<1>1. 1 .. h + 1 = (1 .. h) \cup {h + 1} /\ h + 1 \notin 1 .. h
  OBVIOUS
<1>2. IsFiniteSet(1 .. h) /\ S \in SUBSET (1 .. h)
  BY FS_Interval DEF Selecting
<1>3. IsFiniteSet(S) /\ Cardinality(S) \in Nat
  BY <1>2, FS_Subset, FS_CardinalityType
<1>4. h + 1 \notin S
  BY <1>1, <1>2
<1>5. Cardinality(S \cup {h + 1}) = Cardinality(S) + 1
  BY <1>3, <1>4, FS_AddElement
<1>6. records[h + 1].by \in Selected[k] => Selecting(k, records, h + 1) = S \cup {h + 1}
  BY <1>1 DEF Selecting
<1>7. records[h + 1].by \notin Selected[k] => Selecting(k, records, h + 1) = S
  BY <1>1 DEF Selecting
<1> HIDE DEF S
<1>8. /\ Cardinality(S) \in Nat
      /\ records[h + 1].by \in Selected[k] =>
           Cardinality(Selecting(k, records, h + 1)) = Cardinality(S) + 1
      /\ records[h + 1].by \notin Selected[k] => Selecting(k, records, h + 1) = S
  BY <1>3, <1>5, <1>6, <1>7
<1> QED
  BY <1>8 DEF S

\* The places of a sink match one record more: nothing it holds is new.
LEMMA TextLater ==
  ASSUME NEW f \in SinkState, NEW records \in Seq(Record), NEW h \in Nat, h + 1 <= Len(records),
         Distinct(records), TextMatches(f, records, h)
  PROVE  TextMatches(f, records, h + 1)
<1> DEFINE N == Len(records)
<1>1. N \in Nat /\ h + 1 <= N
  OBVIOUS
<1> HIDE DEF N
<1>2. 1 .. h \subseteq 1 .. h + 1 /\ 1 .. h + 1 \subseteq 1 .. N
  BY <1>1
<1>3. \A a \in Places(f) : \A i \in 1 .. h + 1 : records[i] = LineAt(f, a) => i \in 1 .. h
  BY <1>2 DEF TextMatches, Distinct, N
<1> QED
  BY <1>2, <1>3 DEF TextMatches

\* The next record put after the others keeps them in order.
LEMMA TextPut ==
  ASSUME NEW f \in SinkState, NEW g \in SinkState, NEW records \in Seq(Record), NEW h \in Nat,
         h + 1 <= Len(records), Distinct(records), TextMatches(f, records, h),
         PutsLine(f, g, records[h + 1])
  PROVE  /\ TextMatches(g, records, h + 1)
         /\ Cardinality(Places(g)) = Cardinality(Places(f)) + 1
<1> DEFINE N == Len(records)
           r == records[h + 1]
<1>1. N \in Nat /\ h + 1 \in 1 .. N /\ r \in Record
  OBVIOUS
<1>2. PICK p : /\ p \notin Places(f) /\ Places(g) = Places(f) \cup {p}
               /\ LineAt(g, p) = r
               /\ \A a \in Places(f) : LineAt(g, a) = LineAt(f, a)
               /\ \A a \in Places(g) : ~Precedes(p, a)
  BY <1>1, PutPlaces
<1>3. IsFiniteSet(Places(g)) /\ Cardinality(Places(g)) = Cardinality(Places(f)) + 1
  BY <1>2, FS_AddElement DEF TextMatches
<1>4. TextMatches(f, records, h + 1)
  BY TextLater
<1>5. /\ 1 .. h + 1 \subseteq 1 .. N /\ h + 1 \in 1 .. h + 1
      /\ \A i \in 1 .. h : i \in 1 .. N /\ i < h + 1
  BY <1>1
<1>6. \A i \in 1 .. h + 1 : records[i] = r => i = h + 1
  BY <1>1, <1>5 DEF Distinct
<1>7. \A a \in Places(f) : \A i \in 1 .. h + 1 : records[i] = LineAt(f, a) => i < h + 1
  <2> TAKE a \in Places(f)
  <2>1. PICK i \in 1 .. h : records[i] = LineAt(f, a)
    BY DEF TextMatches
  <2> QED
    BY <1>5, <2>1 DEF Distinct
<1> HIDE DEF N, r
<1>8. ASSUME NEW a \in Places(g)
      PROVE  \E i \in 1 .. h + 1 : records[i] = LineAt(g, a)
  <2>1. CASE a \in Places(f)
    BY <1>2, <1>4, <2>1 DEF TextMatches
  <2>2. CASE a = p
    BY <1>2, <1>5, <2>2 DEF r
  <2> QED
    BY <1>2, <2>1, <2>2
<1>9. ASSUME NEW a \in Places(g), NEW b \in Places(g), Precedes(a, b),
             NEW i \in 1 .. h + 1, NEW j \in 1 .. h + 1,
             records[i] = LineAt(g, a), records[j] = LineAt(g, b)
      PROVE  i < j
  <2>1. a # p
    BY <1>2, <1>9
  <2>2. a \in Places(f) /\ records[i] = LineAt(f, a)
    BY <1>2, <1>9, <2>1
  <2>3. CASE b = p
    <3>1. j = h + 1
      BY <1>2, <1>6, <1>9, <2>3
    <3> QED
      BY <1>7, <2>2, <3>1
  <2>4. CASE b # p
    <3>1. b \in Places(f) /\ records[j] = LineAt(f, b)
      BY <1>2, <1>9, <2>4
    <3> QED
      BY <1>4, <1>9, <2>2, <3>1 DEF TextMatches
  <2> QED
    BY <2>3, <2>4
<1>10. TextMatches(g, records, h + 1)
  BY <1>3, <1>8, <1>9 DEF TextMatches
<1> QED
  BY <1>3, <1>10

LEMMA OpenedMatches ==
  ASSUME NEW k \in Sink, NEW records
  PROVE  SinkMatches(k, Opened, records, 0)
<1>1. /\ SinkSound(k, Opened) /\ Opened \in SinkState
      /\ Opened.segments = <<NewSegment>> /\ Opened.counts = NoCounts
  BY OpenedStep DEF SinkSound
<1>2. \A c \in Count : Opened.counts[c] = 0
  BY <1>1 DEF NoCounts
<1>3. Len(Opened.segments) = 1 /\ Opened.segments[1].lines = <<>>
  BY <1>1 DEF NewSegment
<1>4. Places(Opened) = {}
  <2>1. ASSUME NEW a \in Places(Opened)
        PROVE  FALSE
    <3>1. \E i \in 1 .. Len(Opened.segments) : \E j \in 1 .. Len(Opened.segments[i].lines) : a = <<i, j>>
      BY <1>1, PlaceMember
    <3> QED
      BY <1>3, <3>1
  <2> QED
    BY <2>1
<1>5. Selecting(k, records, 0) = {}
  BY DEF Selecting
<1>6. IsFiniteSet({}) /\ Cardinality({}) = 0
  BY FS_EmptySet
<1>7. TextMatches(Opened, records, 0)
  BY <1>4, <1>6 DEF TextMatches
<1> QED
  BY <1>1, <1>2, <1>4, <1>5, <1>6, <1>7, CountNames DEF SinkMatches

\* A record the sink selects reaches it.
LEMMA DeliverMatches ==
  ASSUME NEW k \in Sink, NEW f, NEW records \in Seq(Record), NEW h \in Nat,
         h + 1 <= Len(records), Distinct(records), SinkMatches(k, f, records, h),
         records[h + 1].by \in Selected[k], NEW fault \in Fault \cup {"none"}
  PROVE  SinkMatches(k, Deliver(k, f, records[h + 1], fault), records, h + 1)
<1> DEFINE r == records[h + 1]
           g == Deliver(k, f, r, fault)
<1>1. r \in Record /\ SinkSound(k, f) /\ f \in SinkState
  BY DEF SinkMatches, SinkSound
<1>2. /\ SinkSound(k, g)
      /\ \/ KeepsLines(f, g) /\ Counts(f, g, 1, 0, 1)
         \/ /\ \E m \in SinkState : KeepsLines(f, m) /\ PutsLine(m, g, r)
            /\ Counts(f, g, 1, 1, 0)
  BY <1>1, DeliverStep
<1> HIDE DEF g, r
<1>3. g \in SinkState
  BY <1>2 DEF SinkSound
<1>4. /\ f.counts["records_enqueued"] \in Nat /\ f.counts["records_written"] \in Nat
      /\ f.counts["writer_errors"] \in Nat
  BY <1>1, CountNames DEF SinkState
<1>5. /\ Cardinality(Selecting(k, records, h + 1)) = Cardinality(Selecting(k, records, h)) + 1
      /\ f.counts["records_enqueued"] = Cardinality(Selecting(k, records, h))
      /\ f.counts["records_enqueued"] <= f.counts["records_written"] + f.counts["writer_errors"]
      /\ Cardinality(Places(f)) = f.counts["records_written"]
  BY SelectingNext DEF SinkMatches
<1>6. CASE KeepsLines(f, g) /\ Counts(f, g, 1, 0, 1)
  <2>1. Places(g) = Places(f) /\ \A a \in Places(f) : LineAt(g, a) = LineAt(f, a)
    BY <1>1, <1>3, <1>6, KeepsPlaces
  <2>2. TextMatches(f, records, h + 1)
    BY <1>1, TextLater DEF SinkMatches
  <2>3. TextMatches(g, records, h + 1)
    BY <2>1, <2>2 DEF TextMatches
  <2>4. /\ g.counts["records_enqueued"] = f.counts["records_enqueued"] + 1
        /\ g.counts["records_written"] = f.counts["records_written"]
        /\ g.counts["writer_errors"] = f.counts["writer_errors"] + 1
    BY <1>4, <1>6 DEF Counts
  <2>5. g.counts["records_enqueued"] <= g.counts["records_written"] + g.counts["writer_errors"]
    BY SMTT(30), <1>4, <1>5, <2>4
  <2>6. SinkMatches(k, g, records, h + 1)
    BY <1>2, <1>5, <2>1, <2>3, <2>4, <2>5 DEF SinkMatches
  <2> QED
    BY <2>6 DEF g, r
<1>7. ASSUME NEW m \in SinkState, KeepsLines(f, m), PutsLine(m, g, r), Counts(f, g, 1, 1, 0)
      PROVE  SinkMatches(k, Deliver(k, f, records[h + 1], fault), records, h + 1)
  <2>1. Places(m) = Places(f) /\ \A a \in Places(f) : LineAt(m, a) = LineAt(f, a)
    BY <1>1, <1>7, KeepsPlaces
  <2>2. TextMatches(m, records, h)
    BY <2>1 DEF SinkMatches, TextMatches
  <2>3. /\ TextMatches(g, records, h + 1)
        /\ Cardinality(Places(g)) = Cardinality(Places(m)) + 1
    BY <1>3, <1>7, <2>2, TextPut DEF r
  <2>4. /\ g.counts["records_enqueued"] = f.counts["records_enqueued"] + 1
        /\ g.counts["records_written"] = f.counts["records_written"] + 1
        /\ g.counts["writer_errors"] = f.counts["writer_errors"]
    BY <1>4, <1>7 DEF Counts
  <2>5. g.counts["records_enqueued"] <= g.counts["records_written"] + g.counts["writer_errors"]
    BY SMTT(30), <1>4, <1>5, <2>4
  <2>6. SinkMatches(k, g, records, h + 1)
    BY <1>2, <1>5, <2>1, <2>3, <2>4, <2>5 DEF SinkMatches
  <2> QED
    BY <2>6 DEF g, r
<1> QED
  BY <1>2, <1>6, <1>7

\* A record the sink does not select passes it by.
LEMMA SkipMatches ==
  ASSUME NEW k \in Sink, NEW f, NEW records \in Seq(Record), NEW h \in Nat,
         h + 1 <= Len(records), Distinct(records), SinkMatches(k, f, records, h),
         records[h + 1].by \notin Selected[k]
  PROVE  SinkMatches(k, f, records, h + 1)
<1>1. TextMatches(f, records, h + 1)
  BY TextLater DEF SinkMatches, SinkSound
<1> QED
  BY <1>1, SelectingNext DEF SinkMatches

\* A record admitted later changes nothing of what is handled already.
LEMMA AdmitMatches ==
  ASSUME NEW k \in Sink, NEW f, NEW records \in Seq(Record), NEW r \in Record,
         NEW h \in 0 .. Len(records), SinkMatches(k, f, records, h)
  PROVE  SinkMatches(k, f, Append(records, r), h)
<1> DEFINE more == Append(records, r)
<1>1. \A i \in 1 .. h : more[i] = records[i]
  OBVIOUS
<1> HIDE DEF more
<1>2. Selecting(k, more, h) = Selecting(k, records, h)
  BY <1>1 DEF Selecting
<1>3. TextMatches(f, more, h)
  BY <1>1 DEF SinkMatches, TextMatches
<1>4. SinkMatches(k, f, more, h)
  BY <1>2, <1>3 DEF SinkMatches
<1> QED
  BY <1>4 DEF more

----------------------------------------------------------------------------
\* A queue holds the admitted records not handled yet, in order, and at its end
\* the sentinel, if any.
QueueMatches(q, records, h) ==
  /\ Len(q) >= Len(records) - h
  /\ \A i \in 1 .. Len(records) - h : q[i] = records[h + i]
  /\ Len(q) > Len(records) - h => Len(q) = Len(records) - h + 1 /\ q[Len(q)] = Sentinel

LEMMA SentinelIsNone == Sentinel \notin Record
<1> SUFFICES ASSUME Sentinel \in Record
             PROVE  FALSE
  OBVIOUS
<1>1. Sentinel.n = 0
  BY DEF Sentinel
<1> QED
  BY <1>1 DEF Record

\* Without a sentinel the queue holds the records to come and nothing else.
LEMMA QueueOpen ==
  ASSUME NEW q \in Seq(Record \cup {Sentinel}), NEW records \in Seq(Record),
         NEW h \in 0 .. Len(records), QueueMatches(q, records, h),
         \A i \in 1 .. Len(q) : q[i] # Sentinel
  PROVE  Len(q) = Len(records) - h
<1>1. Len(q) \in Nat /\ Len(records) \in Nat
  OBVIOUS
<1>2. ASSUME Len(q) > Len(records) - h
      PROVE  FALSE
  <2>1. Len(q) = Len(records) - h + 1 /\ q[Len(q)] = Sentinel
    BY <1>2 DEF QueueMatches
  <2>2. Len(q) \in 1 .. Len(q)
    BY <1>1, <2>1
  <2> QED
    BY <2>1, <2>2
<1> QED
  BY <1>1, <1>2 DEF QueueMatches

LEMMA QueueAdmits ==
  ASSUME NEW q \in Seq(Record \cup {Sentinel}), NEW records \in Seq(Record),
         NEW h \in 0 .. Len(records), QueueMatches(q, records, h), NEW r \in Record,
         \A i \in 1 .. Len(q) : q[i] # Sentinel
  PROVE  QueueMatches(Append(q, r), Append(records, r), h)
<1> DEFINE m == Len(q)
           n == Len(records)
           q1 == Append(q, r)
           r1 == Append(records, r)
<1>1. m \in Nat /\ n \in Nat /\ h \in 0 .. n /\ Len(q1) = m + 1 /\ Len(r1) = n + 1
  OBVIOUS
<1>2. \A i \in 1 .. m : q1[i] = q[i]
  OBVIOUS
<1>3. q1[m + 1] = r /\ r1[n + 1] = r
  OBVIOUS
<1>4. \A i \in 1 .. n : r1[i] = records[i]
  OBVIOUS
<1>5. m = n - h
  BY QueueOpen
<1>6. \A i \in 1 .. m : q[i] = records[h + i]
  BY <1>5 DEF QueueMatches
<1> HIDE DEF m, n, q1, r1
<1>7. ASSUME NEW i \in 1 .. m + 1
      PROVE  q1[i] = r1[h + i]
  <2>1. CASE i = m + 1
    <3>1. h + i = n + 1
      BY <1>1, <1>5, <2>1
    <3> QED
      BY <1>3, <2>1, <3>1
  <2>2. CASE i \in 1 .. m
    <3>1. h + i \in 1 .. n
      BY <1>1, <1>5, <2>2
    <3> QED
      BY <1>2, <1>4, <1>6, <2>2, <3>1
  <2> QED
    BY <1>1, <2>1, <2>2
<1>8. n + 1 - h = m + 1
  BY <1>1, <1>5
<1>9. QueueMatches(q1, r1, h)
  BY <1>1, <1>7, <1>8 DEF QueueMatches
<1> QED
  BY <1>9 DEF q1, r1

LEMMA QueueEnds ==
  ASSUME NEW q \in Seq(Record \cup {Sentinel}), NEW records \in Seq(Record),
         NEW h \in 0 .. Len(records), QueueMatches(q, records, h),
         \A i \in 1 .. Len(q) : q[i] # Sentinel
  PROVE  QueueMatches(Append(q, Sentinel), records, h)
<1> DEFINE m == Len(q)
           n == Len(records)
           q1 == Append(q, Sentinel)
<1>1. m \in Nat /\ n \in Nat /\ h \in 0 .. n /\ Len(q1) = m + 1
  OBVIOUS
<1>2. \A i \in 1 .. m : q1[i] = q[i]
  OBVIOUS
<1>3. q1[m + 1] = Sentinel
  OBVIOUS
<1>4. m = n - h
  BY QueueOpen
<1>5. \A i \in 1 .. m : q[i] = records[h + i]
  BY <1>4 DEF QueueMatches
<1> HIDE DEF m, n, q1
<1>6. Len(q1) >= n - h /\ Len(q1) = n - h + 1
  BY <1>1, <1>4
<1>7. QueueMatches(q1, records, h)
  BY <1>1, <1>2, <1>3, <1>4, <1>5, <1>6 DEF QueueMatches, n
<1> QED
  BY <1>7 DEF q1

\* The next record in the queue is the first not handled.
LEMMA QueueGives ==
  ASSUME NEW q \in Seq(Record \cup {Sentinel}), NEW records \in Seq(Record),
         NEW h \in 0 .. Len(records), QueueMatches(q, records, h),
         q # <<>>, Head(q) # Sentinel
  PROVE  /\ h + 1 <= Len(records) /\ Head(q) = records[h + 1]
         /\ Tail(q) \in Seq(Record \cup {Sentinel})
         /\ QueueMatches(Tail(q), records, h + 1)
<1> DEFINE m == Len(q)
           n == Len(records)
           q1 == Tail(q)
<1>1. m \in Nat /\ m > 0 /\ n \in Nat /\ h \in 0 .. n /\ Len(q1) = m - 1 /\ Head(q) = q[1]
  OBVIOUS
<1>2. \A i \in 1 .. m - 1 : q1[i] = q[i + 1]
  OBVIOUS
<1>3. q1 \in Seq(Record \cup {Sentinel})
  OBVIOUS
<1>4. /\ m >= n - h
      /\ m > n - h => m = n - h + 1 /\ q[m] = Sentinel
      /\ \A i \in 1 .. n - h : q[i] = records[h + i]
  BY DEF QueueMatches
<1>5. q[1] # Sentinel
  BY <1>1
<1> HIDE DEF m, n, q1
<1>6. n - h # 0
  BY <1>1, <1>4, <1>5
<1>7. 1 \in 1 .. n - h /\ h + 1 <= n
  BY <1>1, <1>6
<1>8. q[1] = records[h + 1]
  BY <1>4, <1>7
<1>9. ASSUME NEW i \in 1 .. n - (h + 1)
      PROVE  q1[i] = records[h + 1 + i]
  <2>1. i + 1 \in 1 .. n - h /\ h + (i + 1) = h + 1 + i /\ i \in 1 .. m - 1
    BY <1>1, <1>4
  <2> QED
    BY <1>2, <1>4, <2>1
<1>10. m - 1 >= n - (h + 1)
  BY <1>1, <1>4
<1>11. m - 1 > n - (h + 1) => m - 1 = n - (h + 1) + 1 /\ q1[m - 1] = Sentinel
  <2> SUFFICES ASSUME m - 1 > n - (h + 1)
               PROVE  m - 1 = n - (h + 1) + 1 /\ q1[m - 1] = Sentinel
    OBVIOUS
  <2>1. m = n - h + 1 /\ q[m] = Sentinel
    BY <1>1, <1>4
  <2>2. m - 1 \in 1 .. m - 1 /\ (m - 1) + 1 = m /\ m - 1 = n - (h + 1) + 1
    BY <1>1, <1>7, <2>1
  <2> QED
    BY <1>2, <2>1, <2>2
<1>12. QueueMatches(q1, records, h + 1)
  BY <1>1, <1>9, <1>10, <1>11 DEF QueueMatches, n
<1> QED
  BY <1>1, <1>3, <1>7, <1>8, <1>12 DEF n, q1

\* The sentinel is the last of its queue, and nothing is waiting before it.
LEMMA QueueSpent ==
  ASSUME NEW q \in Seq(Record \cup {Sentinel}), NEW records \in Seq(Record),
         NEW h \in 0 .. Len(records), QueueMatches(q, records, h),
         q # <<>>, Head(q) = Sentinel
  PROVE  /\ Tail(q) = <<>> /\ QueueMatches(<<>>, records, h) /\ h = Len(records)
         /\ \E i \in 1 .. Len(q) : q[i] = Sentinel
<1> DEFINE n == Len(records)
<1>1. Len(q) \in Nat /\ Len(q) > 0 /\ q[1] = Sentinel /\ n \in Nat
  OBVIOUS
<1>2. \A i \in 1 .. n : records[i] # Sentinel
  BY SentinelIsNone
<1> HIDE DEF n
<1>3. n = h
  <2> SUFFICES ASSUME n # h
               PROVE  FALSE
    OBVIOUS
  <2>1. 1 \in 1 .. n - h /\ h + 1 \in 1 .. n
    BY <1>1 DEF n
  <2> QED
    BY <1>1, <1>2, <2>1 DEF QueueMatches, n
<1>4. Len(q) = 1
  BY <1>1, <1>3 DEF QueueMatches, n
<1>5. Tail(q) = <<>>
  <2>1. Tail(q) \in Seq(Record \cup {Sentinel}) /\ Len(Tail(q)) = 0
    BY <1>1, <1>4
  <2> QED
    BY <2>1, EmptySeq
<1>6. QueueMatches(<<>>, records, h)
  BY <1>1, <1>3 DEF QueueMatches, n
<1> QED
  BY <1>1, <1>3, <1>4, <1>5, <1>6 DEF n

LEMMA QueueDone ==
  ASSUME NEW records \in Seq(Record), NEW h \in 0 .. Len(records), QueueMatches(<<>>, records, h)
  PROVE  h = Len(records)
<1>1. Len(records) \in Nat /\ 0 >= Len(records) - h
  BY DEF QueueMatches
<1> QED
  BY <1>1

----------------------------------------------------------------------------
\* The records of the scopes

\* What the history of the records needs of the types.
RecordTypes ==
  /\ queue \in [Scope -> Seq(Record \cup {Sentinel})]
  /\ admitted \in [Scope -> Seq(Record)]
  /\ DOMAIN sent = Producer /\ \A p \in Producer : sent[p] \in 0 .. RecordLimit[p]
  /\ faults \in 0 .. FaultLimit
  /\ DOMAIN sinks = Scope

\* A producer admits each record once: what it is about to emit is new.
RecordsNumbered ==
  /\ \A p \in Producer : producer[p] # None => sent[p] > 0
  /\ \A s \in Scope : Distinct(admitted[s])
  /\ \A s \in Scope : \A i \in 1 .. Len(admitted[s]) :
       LET r == admitted[s][i]
       IN  /\ r.n <= sent[r.by]
           /\ producer[r.by] # None => r.n < sent[r.by]

\* Only a scope that took the logging state over, with its sinks open, is ever
\* found by a producer; admission ends when the caller leaves.
Phases ==
  /\ \A s \in Scope : s \in closing => at[s] \in {"joining", "restoring", "releasing", "left"}
  /\ \A s \in Scope : writer[s] \in {"none", "initializing"} => DOMAIN sinks[s] = {}
  /\ \A s \in Scope : writer[s] = "running" => DOMAIN sinks[s] = Sink
  /\ \A s \in Scope : DOMAIN sinks[s] \in {{}, Sink}
  /\ \A s \in Scope : saved[s] # None => DOMAIN sinks[s] = Sink
  /\ \A s \in Scope : admitted[s] # <<>> => saved[s] # None
  /\ \A s \in started : saved[s] # None
  /\ \A p \in Producer : producer[p] \in Scope => saved[producer[p]] # None

\* The writer has handled all but the records in the queue, and ends with none.
ScopeDrains(s) ==
  /\ \E h \in 0 .. Len(admitted[s]) :
       /\ QueueMatches(queue[s], admitted[s], h)
       /\ \A k \in DOMAIN sinks[s] : SinkMatches(k, sinks[s][k], admitted[s], h)
  /\ \A i \in 1 .. Len(queue[s]) : queue[s][i] = Sentinel => s \in closing
  /\ writer[s] = "dead" => \A k \in DOMAIN sinks[s] \cap File : sinks[s][k].stream = 0
  /\ writer[s] = "dead" /\ DOMAIN sinks[s] = Sink => queue[s] = <<>> /\ s \in closing

RInv ==
  /\ RecordTypes
  /\ RecordsNumbered
  /\ Phases
  /\ \A s \in Scope : ScopeDrains(s)

LEMMA RecordsInit == Init => RInv
<1> SUFFICES ASSUME Init
             PROVE  RInv
  OBVIOUS
<1> USE Names DEF Init
<1>1. RecordTypes
  BY ScopeAssumption DEF RecordTypes
<1>2. RecordsNumbered
  BY DEF RecordsNumbered, Distinct
<1>3. \A s \in Scope : sinks[s] = [k \in {} |-> Opened] /\ DOMAIN sinks[s] = {}
  OBVIOUS
<1>4. Phases
  BY <1>3 DEF Phases
<1>5. ASSUME NEW s \in Scope
      PROVE  ScopeDrains(s)
  <2>1. queue[s] = <<>> /\ admitted[s] = <<>> /\ writer[s] = "none" /\ DOMAIN sinks[s] = {}
    BY <1>3
  <2>2. QueueMatches(<<>>, <<>>, 0) /\ Len(<<>>) = 0 /\ 0 \in 0 .. 0
    BY DEF QueueMatches
  <2> QED
    BY <2>1, <2>2 DEF ScopeDrains
<1> QED
  BY <1>1, <1>2, <1>4, <1>5 DEF RInv

\* Steps that touch no queue, sink or record.
LEMMA DrainsKept ==
  ASSUME NEW s \in Scope, ScopeDrains(s), queue'[s] = queue[s], admitted'[s] = admitted[s],
         sinks'[s] = sinks[s], s \in closing => s \in closing',
         writer'[s] = writer[s] \/ writer'[s] # "dead"
  PROVE  ScopeDrains(s)'
  BY DEF ScopeDrains

LEMMA RecordsKept ==
  ASSUME RInv, UNCHANGED <<queue, sinks, faults, sent, producer, admitted>>,
         closing \subseteq closing',
         \A s \in Scope : writer'[s] = writer[s] \/ writer'[s] # "dead",
         Phases'
  PROVE  RInv'
<1>1. RecordTypes' /\ RecordsNumbered'
  BY DEF RInv, RecordTypes, RecordsNumbered
<1>2. ASSUME NEW s \in Scope
      PROVE  ScopeDrains(s)'
  BY DrainsKept DEF RInv
<1> QED
  BY <1>1, <1>2 DEF RInv

LEMMA PlainCallerKeeps ==
  ASSUME IInv, RInv, NEW s \in Scope,
         \/ Reserve(s) \/ Refuse(s) \/ StartupFails(s) \/ Leave(s) \/ Join(s) \/ Restore(s)
         \/ Release(s)
  PROVE  RInv'
<1> USE DEF writerVars, producerVars
<1>1. /\ UNCHANGED <<closing, saved, queue, writer, sinks, faults, sent, producer, admitted>>
      /\ started' \subseteq started
      /\ \E place : Goto(s, place) /\
           (at[s] \in {"joining", "restoring", "releasing", "left"} =>
              place \in {"joining", "restoring", "releasing", "left"})
  BY DEF Reserve, Refuse, StartupFails, Leave, Join, Restore, Release
<1>2. PICK place : Goto(s, place) /\
           (at[s] \in {"joining", "restoring", "releasing", "left"} =>
              place \in {"joining", "restoring", "releasing", "left"})
  BY <1>1
<1>3. \A r \in Scope : at'[r] = IF r = s THEN place ELSE at[r]
  BY <1>2 DEF Goto, IInv, ScopeTypes
<1>4. Phases'
  BY <1>1, <1>2, <1>3 DEF RInv, Phases
<1> QED
  BY <1>1, <1>4, RecordsKept

LEMMA StartWriterKeeps ==
  ASSUME IInv, RInv, NEW s \in Scope, NEW launched \in BOOLEAN, StartWriter(s, launched)
  PROVE  RInv'
<1> USE DEF producerVars
<1>1. /\ UNCHANGED <<closing, started, saved, queue, sinks, faults, sent, producer, admitted>>
      /\ at[s] = "reserved" /\ writer[s] = "none" /\ s \notin closing
  BY DEF StartWriter, IInv, WriterDone, RInv, Phases
<1>2. \A r \in Scope : writer'[r] = writer[r] \/ (r = s /\ writer'[r] = "initializing")
  <2>1. CASE launched
    BY <2>1 DEF StartWriter, IInv, ScopeTypes
  <2>2. CASE ~launched
    BY <2>2 DEF StartWriter
  <2> QED
    BY <2>1, <2>2
<1>3. \A r \in Scope : r # s => at'[r] = at[r]
  BY DEF StartWriter, Goto, IInv, ScopeTypes
<1>4. Phases'
  BY <1>1, <1>2, <1>3 DEF RInv, Phases
<1> QED
  BY <1>1, <1>2, <1>4, RecordsKept

LEMMA TakeoverKeeps ==
  ASSUME IInv, RInv, NEW s \in Scope, Takeover(s)
  PROVE  RInv'
<1> USE Names DEF writerVars, producerVars
<1>1. /\ UNCHANGED <<closing, queue, writer, sinks, faults, sent, producer, admitted>>
      /\ at[s] = "waiting" /\ writer[s] = "running" /\ s \notin closing
      /\ started' = started \cup {s} /\ saved' = [saved EXCEPT ![s] = installed]
  BY DEF Takeover, RInv, Phases
<1>2. /\ \A r \in Scope : r # s => at'[r] = at[r]
      /\ \A r \in Scope : r # s => saved'[r] = saved[r]
      /\ saved'[s] # None
  BY <1>1 DEF Takeover, Goto, IInv, ScopeTypes
<1>3. Phases'
  BY <1>1, <1>2 DEF RInv, Phases, IInv, ScopeTypes
<1> QED
  BY <1>1, <1>3, RecordsKept

LEMMA StopKeeps ==
  ASSUME IInv, RInv, NEW s \in Scope, Stop(s)
  PROVE  RInv'
<1> USE DEF writerVars, producerVars
<1>1. /\ UNCHANGED <<started, saved, writer, sinks, faults, sent, producer, admitted>>
      /\ at[s] = "stopping" /\ s \notin closing /\ closing' = closing \cup {s}
      /\ queue' = [queue EXCEPT ![s] = Append(@, Sentinel)]
  BY DEF Stop, RInv, Phases
<1>2. /\ queue \in [Scope -> Seq(Record \cup {Sentinel})]
      /\ admitted \in [Scope -> Seq(Record)]
  BY DEF RInv, RecordTypes
<1>3. /\ queue' \in [Scope -> Seq(Record \cup {Sentinel})]
      /\ queue'[s] = Append(queue[s], Sentinel)
      /\ \A r \in Scope : r # s => queue'[r] = queue[r]
  BY <1>1, <1>2
<1>4. /\ \A r \in Scope : r # s => at'[r] = at[r]
      /\ at'[s] \in {"restoring", "joining"}
  BY DEF Stop, Goto, IInv, ScopeTypes
<1>5. RecordTypes' /\ RecordsNumbered'
  BY <1>1, <1>3 DEF RInv, RecordTypes, RecordsNumbered
<1>6. Phases'
  BY <1>1, <1>4 DEF RInv, Phases
<1>7. ASSUME NEW r \in Scope
      PROVE  ScopeDrains(r)'
  <2>1. CASE r # s
    BY <1>1, <1>3, <2>1, DrainsKept DEF RInv
  <2>2. CASE r = s
    <3>1. ScopeDrains(s)
      BY DEF RInv
    <3>2. PICK h \in 0 .. Len(admitted[s]) :
            /\ QueueMatches(queue[s], admitted[s], h)
            /\ \A k \in DOMAIN sinks[s] : SinkMatches(k, sinks[s][k], admitted[s], h)
      BY <3>1 DEF ScopeDrains
    <3>3. \A i \in 1 .. Len(queue[s]) : queue[s][i] # Sentinel
      BY <1>1, <3>1 DEF ScopeDrains
    <3>4. QueueMatches(Append(queue[s], Sentinel), admitted[s], h)
      BY <1>2, <3>2, <3>3, QueueEnds
    <3>5. ~(writer[s] = "dead" /\ DOMAIN sinks[s] = Sink)
      BY <1>1, <3>1 DEF ScopeDrains
    <3>6. s \in closing'
      BY <1>1
    <3> QED
      BY <1>1, <1>3, <2>2, <3>1, <3>2, <3>4, <3>5, <3>6 DEF ScopeDrains
  <2> QED
    BY <2>1, <2>2
<1> QED
  BY <1>5, <1>6, <1>7 DEF RInv

\* Admission: the record a producer is about to emit joins the queue of a
\* handler that is still open.
LEMMA AdmitKeeps ==
  ASSUME RInv, NEW p \in Producer, NEW t \in Scope, saved[t] # None, Admit(t, p),
         producer[p] # None, producer \in [Producer -> Scope \cup {Original, None}],
         producer' = [producer EXCEPT ![p] = None],
         UNCHANGED <<scopeVars, writerVars, sent>>
  PROVE  RInv'
<1> USE Names DEF scopeVars, writerVars
<1> DEFINE r == [by |-> p, n |-> sent[p]]
<1>1. /\ queue \in [Scope -> Seq(Record \cup {Sentinel})]
      /\ admitted \in [Scope -> Seq(Record)]
      /\ sent[p] \in Nat /\ sent[p] > 0
  BY ScopeAssumption DEF RInv, RecordTypes, RecordsNumbered
<1>2. r \in Record /\ r.by = p /\ r.n = sent[p]
  BY <1>1 DEF Record
<1>3. /\ producer'[p] = None
      /\ \A q \in Producer : q # p => producer'[q] = producer[q]
  OBVIOUS
<1>4. CASE t \in closing
  <2>1. UNCHANGED <<queue, admitted>>
    BY <1>4 DEF Admit
  <2>2. RecordTypes'
    BY <2>1 DEF RInv, RecordTypes
  <2>3. RecordsNumbered'
    <3>1. ASSUME NEW s \in Scope, NEW i \in 1 .. Len(admitted[s])
          PROVE  admitted[s][i].by \in Producer
      <4>1. admitted[s][i] \in Record
        BY <1>1
      <4> QED
        BY <4>1 DEF Record
    <3> QED
      BY <1>3, <2>1, <3>1 DEF RInv, RecordsNumbered
  <2>4. Phases'
    BY <1>3, <2>1 DEF RInv, Phases
  <2>5. \A s \in Scope : ScopeDrains(s)'
    BY <2>1, DrainsKept DEF RInv
  <2> QED
    BY <2>2, <2>3, <2>4, <2>5 DEF RInv
<1>5. CASE t \notin closing
  <2>1. /\ queue' = [queue EXCEPT ![t] = Append(@, r)]
        /\ admitted' = [admitted EXCEPT ![t] = Append(@, r)]
    BY <1>5 DEF Admit
  <2> HIDE DEF r
  <2>2. /\ queue' \in [Scope -> Seq(Record \cup {Sentinel})]
        /\ queue'[t] = Append(queue[t], r)
        /\ \A s \in Scope : s # t => queue'[s] = queue[s]
    BY <1>1, <1>2, <2>1
  <2>3. /\ admitted' \in [Scope -> Seq(Record)]
        /\ admitted'[t] = Append(admitted[t], r)
        /\ \A s \in Scope : s # t => admitted'[s] = admitted[s]
    BY <1>1, <1>2, <2>1
  <2>4. RecordTypes'
    BY <2>2, <2>3 DEF RInv, RecordTypes
  <2>5. ASSUME NEW i \in 1 .. Len(admitted'[t])
        PROVE  \/ i \in 1 .. Len(admitted[t]) /\ admitted'[t][i] = admitted[t][i]
               \/ i = Len(admitted[t]) + 1 /\ admitted'[t][i] = r
    BY <1>1, <1>2, <2>3
  <2>6. ASSUME NEW s \in Scope, NEW i \in 1 .. Len(admitted[s])
        PROVE  /\ admitted[s][i] \in Record /\ admitted[s][i].by \in Producer
               /\ admitted[s][i].n \in Nat
               /\ admitted[s][i].n <= sent[admitted[s][i].by]
               /\ admitted[s][i].by = p => admitted[s][i].n < sent[p]
    <3>1. admitted[s][i] \in Record
      BY <1>1
    <3> QED
      BY <3>1 DEF Record, RInv, RecordsNumbered
  <2>7. ASSUME NEW i \in 1 .. Len(admitted[t])
        PROVE  admitted[t][i] # r
    <3>1. admitted[t][i].by = p => admitted[t][i].n < sent[p]
      BY <2>6
    <3> QED
      BY <1>1, <1>2, <3>1
  <2>8. Distinct(admitted'[t])
    <3>1. \A i, j \in 1 .. Len(admitted[t]) : admitted[t][i] = admitted[t][j] => i = j
      BY DEF RInv, RecordsNumbered, Distinct
    <3> QED
      BY <2>5, <2>7, <3>1 DEF Distinct
  <2>9. ASSUME NEW s \in Scope, NEW i \in 1 .. Len(admitted'[s])
        PROVE  LET x == admitted'[s][i]
               IN  /\ x.n <= sent[x.by]
                   /\ producer'[x.by] # None => x.n < sent[x.by]
    <3>1. CASE s # t
      <4>1. i \in 1 .. Len(admitted[s]) /\ admitted'[s][i] = admitted[s][i]
        BY <2>3, <3>1
      <4> QED
        BY <1>3, <2>6, <4>1 DEF RInv, RecordsNumbered
    <3>2. CASE s = t /\ i \in 1 .. Len(admitted[t]) /\ admitted'[t][i] = admitted[t][i]
      BY <1>3, <2>6, <3>2 DEF RInv, RecordsNumbered
    <3>3. CASE s = t /\ admitted'[t][i] = r
      BY <1>1, <1>2, <1>3, <3>3
    <3> QED
      BY <2>5, <3>1, <3>2, <3>3
  <2>10. RecordsNumbered'
    <3>1. \A s \in Scope : Distinct(admitted'[s])
      BY <2>3, <2>8 DEF RInv, RecordsNumbered
    <3>2. \A q \in Producer : producer'[q] # None => sent[q] > 0
      BY <1>3 DEF RInv, RecordsNumbered
    <3> QED
      BY <2>9, <3>1, <3>2 DEF RecordsNumbered
  <2>11. Phases'
    <3>1. \A s \in Scope : admitted'[s] # <<>> => saved[s] # None
      BY <2>3 DEF RInv, Phases
    <3>2. \A q \in Producer : producer'[q] \in Scope => saved[producer'[q]] # None
      BY <1>3 DEF RInv, Phases
    <3> QED
      BY <3>1, <3>2 DEF RInv, Phases
  <2>12. ASSUME NEW s \in Scope
         PROVE  ScopeDrains(s)'
    <3>1. CASE s # t
      BY <2>2, <2>3, <3>1, DrainsKept DEF RInv
    <3>2. CASE s = t
      <4>1. ScopeDrains(t)
        BY DEF RInv
      <4>2. PICK h \in 0 .. Len(admitted[t]) :
              /\ QueueMatches(queue[t], admitted[t], h)
              /\ \A k \in DOMAIN sinks[t] : SinkMatches(k, sinks[t][k], admitted[t], h)
        BY <4>1 DEF ScopeDrains
      <4>3. \A i \in 1 .. Len(queue[t]) : queue[t][i] # Sentinel
        BY <1>5, <4>1 DEF ScopeDrains
      <4>4. QueueMatches(queue'[t], admitted'[t], h)
        <5>1. queue[t] \in Seq(Record \cup {Sentinel}) /\ admitted[t] \in Seq(Record)
          BY <1>1
        <5>2. QueueMatches(Append(queue[t], r), Append(admitted[t], r), h)
          BY <1>2, <4>2, <4>3, <5>1, QueueAdmits
        <5> QED
          BY <2>2, <2>3, <5>2
      <4>5. DOMAIN sinks[t] \subseteq Sink
        BY DEF RInv, Phases
      <4>6. \A k \in DOMAIN sinks[t] : SinkMatches(k, sinks[t][k], admitted'[t], h)
        BY <1>1, <1>2, <2>3, <4>2, <4>5, AdmitMatches
      <4>7. h \in 0 .. Len(admitted'[t])
        BY <1>1, <1>2, <2>3, <4>2
      <4>8. \A i \in 1 .. Len(queue'[t]) : queue'[t][i] # Sentinel
        <5>1. \A i \in 1 .. Len(queue'[t]) :
                 (i \in 1 .. Len(queue[t]) /\ queue'[t][i] = queue[t][i]) \/ queue'[t][i] = r
          BY <1>1, <1>2, <2>2
        <5> QED
          BY <1>2, <4>3, <5>1, SentinelIsNone
      <4>9. ~(writer[t] = "dead" /\ DOMAIN sinks[t] = Sink)
        BY <1>5, <4>1 DEF ScopeDrains
      <4> QED
        BY <3>2, <4>1, <4>4, <4>6, <4>7, <4>8, <4>9 DEF ScopeDrains
    <3> QED
      BY <3>1, <3>2
  <2> QED
    BY <2>4, <2>10, <2>11, <2>12 DEF RInv
<1> QED
  BY <1>4, <1>5

\* A step of a producer that admits nothing.
LEMMA ProducerIdles ==
  ASSUME RInv, NEW p \in Producer, NEW found \in Scope \cup {Original, None},
         producer' = [producer EXCEPT ![p] = found],
         producer \in [Producer -> Scope \cup {Original, None}],
         found \in Scope => saved[found] # None,
         \/ sent' = sent /\ found = None
         \/ sent' = [sent EXCEPT ![p] = @ + 1] /\ producer[p] = None /\ sent[p] < RecordLimit[p],
         UNCHANGED <<scopeVars, queue, writerVars, admitted>>
  PROVE  RInv'
<1> USE DEF scopeVars, writerVars
<1>1. /\ producer'[p] = found
      /\ \A q \in Producer : q # p => producer'[q] = producer[q]
  OBVIOUS
<1>2. DOMAIN sent = Producer /\ \A q \in Producer : sent[q] \in Nat /\ RecordLimit[q] \in Nat
      /\ sent[q] \in 0 .. RecordLimit[q]
  BY ScopeAssumption DEF RInv, RecordTypes
<1>3. /\ DOMAIN sent' = Producer
      /\ \A q \in Producer : q # p => sent'[q] = sent[q]
      /\ sent'[p] \in 0 .. RecordLimit[p] /\ sent'[p] >= sent[p]
      /\ found # None => sent'[p] = sent[p] + 1 /\ producer[p] = None
  BY <1>2
<1>4. RecordTypes'
  BY <1>2, <1>3 DEF RInv, RecordTypes
<1>5. ASSUME NEW s \in Scope, NEW i \in 1 .. Len(admitted[s])
      PROVE  LET x == admitted[s][i]
             IN  /\ x.n <= sent'[x.by]
                 /\ producer'[x.by] # None => x.n < sent'[x.by]
  <2> DEFINE x == admitted[s][i]
  <2>1. x \in Record
    BY DEF RInv, RecordTypes
  <2>2. x.by \in Producer /\ x.n \in Nat
    BY <2>1 DEF Record
  <2>3. x.n <= sent[x.by] /\ (producer[x.by] # None => x.n < sent[x.by])
    BY DEF RInv, RecordsNumbered
  <2> HIDE DEF x
  <2>4. CASE x.by = p
    BY <1>1, <1>2, <1>3, <2>2, <2>3, <2>4 DEF x
  <2>5. CASE x.by # p
    BY <1>1, <1>3, <2>2, <2>3, <2>5 DEF x
  <2> QED
    BY <2>4, <2>5
<1>6. RecordsNumbered'
  <2>1. \A q \in Producer : producer'[q] # None => sent'[q] > 0
    BY <1>1, <1>2, <1>3 DEF RInv, RecordsNumbered
  <2> QED
    BY <1>5, <2>1 DEF RInv, RecordsNumbered
<1>7. Phases'
  BY <1>1 DEF RInv, Phases
<1>8. \A s \in Scope : ScopeDrains(s)'
  BY DrainsKept DEF RInv
<1> QED
  BY <1>4, <1>6, <1>7, <1>8 DEF RInv

LEMMA ProducerKeeps ==
  ASSUME IInv, RInv, NEW p \in Producer, ProducerNext(p)
  PROVE  RInv'
<1> USE Names
<1>1. producer \in [Producer -> Scope \cup {Original, None}]
  BY DEF IInv, ScopeTypes
<1>2. CASE Resolve(p)
  <2> DEFINE found == IF p \in Wrapped THEN IF active \in started THEN active ELSE None
                      ELSE installed
  <2>1. /\ producer' = [producer EXCEPT ![p] = found]
        /\ sent' = [sent EXCEPT ![p] = @ + 1] /\ producer[p] = None /\ sent[p] < RecordLimit[p]
        /\ UNCHANGED <<scopeVars, queue, writerVars, admitted>>
    BY <1>2 DEF Resolve
  <2>2. found \in Scope \cup {Original, None}
    BY DEF IInv, ScopeTypes
  <2>3. found \in Scope => saved[found] # None
    BY DEF IInv, InstalledSaved, RInv, Phases
  <2> HIDE DEF found
  <2> QED
    BY <1>1, <2>1, <2>2, <2>3, ProducerIdles
<1>3. CASE Emit(p)
  <2>1. /\ producer[p] # None /\ producer' = [producer EXCEPT ![p] = None]
        /\ UNCHANGED <<scopeVars, writerVars, sent>>
    BY <1>3 DEF Emit
  <2>2. CASE producer[p] = Original
    <3>1. UNCHANGED <<queue, admitted>>
      BY <1>3, <2>2 DEF Emit
    <3> QED
      BY <1>1, <2>1, <3>1, ProducerIdles
  <2>3. CASE producer[p] # Original
    <3>1. Admit(producer[p], p)
      BY <1>3, <2>3 DEF Emit
    <3>2. producer[p] \in Scope
      BY <1>1, <2>1, <2>3
    <3>3. saved[producer[p]] # None
      BY <3>2 DEF RInv, Phases
    <3> QED
      BY <1>1, <2>1, <3>1, <3>2, <3>3, AdmitKeeps
  <2> QED
    BY <2>2, <2>3
<1>4. CASE LogWrapped(p)
  <2>1. /\ producer[p] # None /\ producer' = [producer EXCEPT ![p] = None]
        /\ UNCHANGED <<scopeVars, writerVars, sent>>
    BY <1>4 DEF LogWrapped
  <2>2. CASE producer[p] \notin closing /\ installed \in Scope
    <3>1. Admit(installed, p)
      BY <1>4, <2>2 DEF LogWrapped
    <3>2. saved[installed] # None
      BY <2>2 DEF IInv, InstalledSaved
    <3> QED
      BY <1>1, <2>1, <2>2, <3>1, <3>2, AdmitKeeps
  <2>3. CASE ~(producer[p] \notin closing /\ installed \in Scope)
    <3>1. UNCHANGED <<queue, admitted>>
      BY <1>4, <2>3 DEF LogWrapped
    <3> QED
      BY <1>1, <2>1, <3>1, ProducerIdles
  <2> QED
    BY <2>2, <2>3
<1> QED
  BY <1>2, <1>3, <1>4 DEF ProducerNext

\* Opening the sinks: no record was admitted before.
LEMMA InitializeKeeps ==
  ASSUME IInv, RInv, NEW s \in Scope, NEW ok \in BOOLEAN, Initialize(s, ok)
  PROVE  RInv'
<1> USE DEF scopeVars, producerVars
<1>1. /\ UNCHANGED <<at, started, closing, saved, queue, sent, producer, admitted>>
      /\ writer[s] = "initializing" /\ DOMAIN sinks[s] = {} /\ saved[s] = None
      /\ admitted[s] = <<>>
  <2>1. Sink # {}
    BY DEF Sink
  <2> QED
    BY <2>1 DEF Initialize, RInv, Phases
<1>2. /\ \A r \in Scope : r # s => writer'[r] = writer[r]
      /\ ok => writer'[s] = "running"
      /\ ~ok => writer'[s] = "dead"
  BY DEF Initialize, IInv, ScopeTypes
<1>3. /\ \A r \in Scope : r # s => sinks'[r] = sinks[r]
      /\ ok => sinks'[s] = [k \in Sink |-> Opened]
      /\ ~ok => sinks'[s] = sinks[s]
      /\ DOMAIN sinks' = Scope
  BY DEF Initialize, RInv, RecordTypes
<1>4. faults' \in 0 .. FaultLimit
  <2>1. FaultLimit \in Nat /\ faults \in 0 .. FaultLimit
    BY ScopeAssumption DEF RInv, RecordTypes
  <2> QED
    BY <2>1 DEF Initialize
<1>5. RecordTypes' /\ RecordsNumbered'
  BY <1>1, <1>3, <1>4 DEF RInv, RecordTypes, RecordsNumbered
<1>6. DOMAIN sinks'[s] = (IF ok THEN Sink ELSE {})
  BY <1>1, <1>3
<1>7. Phases'
  BY <1>1, <1>2, <1>3, <1>6 DEF RInv, Phases
<1>8. ASSUME NEW r \in Scope
      PROVE  ScopeDrains(r)'
  <2>1. CASE r # s
    BY <1>1, <1>2, <1>3, <2>1, DrainsKept DEF RInv
  <2>2. CASE r = s
    <3>1. ScopeDrains(s) /\ Len(admitted[s]) = 0
      BY <1>1 DEF RInv
    <3>2. /\ 0 \in 0 .. Len(admitted[s]) /\ QueueMatches(queue[s], admitted[s], 0)
          /\ \A i \in 1 .. Len(queue[s]) : queue[s][i] = Sentinel => s \in closing
      BY <3>1 DEF ScopeDrains
    <3>3. \A k \in DOMAIN sinks'[s] : SinkMatches(k, sinks'[s][k], admitted[s], 0)
      <4>1. CASE ok
        BY <1>3, <4>1, OpenedMatches
      <4>2. CASE ~ok
        BY <1>6, <4>2
      <4> QED
        BY <4>1, <4>2
    <3>4. writer'[s] = "dead" => DOMAIN sinks'[s] = {}
      BY <1>2, <1>6
    <3>5. Sink # {}
      BY DEF Sink
    <3> QED
      BY <1>1, <2>2, <3>2, <3>3, <3>4, <3>5 DEF ScopeDrains
  <2> QED
    BY <2>1, <2>2
<1> QED
  BY <1>5, <1>7, <1>8 DEF RInv

\* A step of a running writer: it handles n more records, none or one, and takes
\* what it handled from the queue.
LEMMA RunningKeeps ==
  ASSUME IInv, RInv, NEW s \in Scope, writer[s] = "running",
         UNCHANGED <<scopeVars, producerVars>>,
         faults' \in 0 .. FaultLimit,
         NEW new, DOMAIN new = Sink, sinks' = [sinks EXCEPT ![s] = new],
         NEW q \in Seq(Record \cup {Sentinel}), queue' = [queue EXCEPT ![s] = q],
         \A i \in 1 .. Len(q) : q[i] = Sentinel => s \in closing,
         NEW h \in 0 .. Len(admitted[s]), QueueMatches(q, admitted[s], h),
         \A k \in Sink : SinkMatches(k, new[k], admitted[s], h),
         \/ writer' = writer
         \/ /\ writer' = [writer EXCEPT ![s] = "dead"]
            /\ q = <<>> /\ s \in closing
            /\ \A k \in File : new[k].stream = 0
  PROVE  RInv'
<1> USE DEF scopeVars, producerVars
<1>1. /\ DOMAIN sinks' = Scope /\ sinks'[s] = new
      /\ \A r \in Scope : r # s => sinks'[r] = sinks[r]
  BY DEF RInv, RecordTypes
<1>2. /\ queue' \in [Scope -> Seq(Record \cup {Sentinel})]
      /\ queue'[s] = q /\ \A r \in Scope : r # s => queue'[r] = queue[r]
  BY DEF RInv, RecordTypes
<1>3. /\ \A r \in Scope : r # s => writer'[r] = writer[r]
      /\ \/ writer'[s] = "running"
         \/ /\ writer'[s] = "dead" /\ q = <<>> /\ s \in closing
            /\ \A k \in File : new[k].stream = 0
  BY DEF IInv, ScopeTypes
<1>4. RecordTypes' /\ RecordsNumbered'
  BY <1>1, <1>2 DEF RInv, RecordTypes, RecordsNumbered
<1>5. DOMAIN sinks[s] = Sink
  BY DEF RInv, Phases
<1>6. Phases'
  BY <1>1, <1>3, <1>5 DEF RInv, Phases
<1>7. ASSUME NEW r \in Scope
      PROVE  ScopeDrains(r)'
  <2>1. CASE r # s
    BY <1>1, <1>2, <1>3, <2>1, DrainsKept DEF RInv
  <2>2. CASE r = s
    <3>1. writer'[s] = "dead" => \A k \in DOMAIN sinks'[s] \cap File : sinks'[s][k].stream = 0
      BY <1>1, <1>3
    <3>2. writer'[s] = "dead" /\ DOMAIN sinks'[s] = Sink => queue'[s] = <<>> /\ s \in closing
      BY <1>2, <1>3
    <3> QED
      BY <1>1, <1>2, <2>2, <3>1, <3>2 DEF ScopeDrains
  <2> QED
    BY <2>1, <2>2
<1> QED
  BY <1>4, <1>6, <1>7 DEF RInv

LEMMA DispatchKeeps ==
  ASSUME IInv, RInv, NEW s \in Scope, NEW bad \in Sink, NEW fault \in Fault \cup {"none"},
         Dispatch(s, bad, fault)
  PROVE  RInv'
<1> DEFINE r == Head(queue[s])
           Trouble(k) == IF k = bad THEN fault ELSE "none"
           new == [k \in Sink |-> IF r.by \in Selected[k]
                                  THEN Deliver(k, sinks[s][k], r, Trouble(k))
                                  ELSE sinks[s][k]]
           records == admitted[s]
<1>1. /\ writer[s] = "running" /\ queue[s] # <<>> /\ r # Sentinel
      /\ UNCHANGED <<scopeVars, producerVars, writer>>
      /\ sinks' = [sinks EXCEPT ![s] = new]
      /\ queue' = [queue EXCEPT ![s] = Tail(queue[s])]
  BY DEF Dispatch
<1>2. faults' \in 0 .. FaultLimit
  <2>1. FaultLimit \in Nat /\ faults \in 0 .. FaultLimit
    BY ScopeAssumption DEF RInv, RecordTypes
  <2> QED
    BY <2>1 DEF Dispatch
<1>3. queue[s] \in Seq(Record \cup {Sentinel}) /\ records \in Seq(Record) /\ Distinct(records)
  BY DEF RInv, RecordTypes, RecordsNumbered
<1>4. DOMAIN sinks[s] = Sink /\ ScopeDrains(s)
  BY <1>1 DEF RInv, Phases
<1>5. PICK h \in 0 .. Len(records) :
        /\ QueueMatches(queue[s], records, h)
        /\ \A k \in Sink : SinkMatches(k, sinks[s][k], records, h)
  BY <1>4 DEF ScopeDrains
<1>6. /\ h + 1 <= Len(records) /\ r = records[h + 1]
      /\ Tail(queue[s]) \in Seq(Record \cup {Sentinel})
      /\ QueueMatches(Tail(queue[s]), records, h + 1)
  BY <1>1, <1>3, <1>5, QueueGives
<1>7. h \in Nat /\ h + 1 \in 0 .. Len(records)
  BY <1>3, <1>5, <1>6
<1>8. DOMAIN new = Sink
  OBVIOUS
<1>9. ASSUME NEW k \in Sink
      PROVE  SinkMatches(k, new[k], records, h + 1)
  <2>1. Trouble(k) \in Fault \cup {"none"}
    OBVIOUS
  <2>2. /\ r.by \in Selected[k] => new[k] = Deliver(k, sinks[s][k], r, Trouble(k))
        /\ r.by \notin Selected[k] => new[k] = sinks[s][k]
    OBVIOUS
  <2> HIDE DEF new, Trouble, r
  <2>3. CASE r.by \in Selected[k]
    <3>1. SinkMatches(k, Deliver(k, sinks[s][k], records[h + 1], Trouble(k)), records, h + 1)
      BY <1>3, <1>5, <1>6, <1>7, <2>1, <2>3, DeliverMatches
    <3> QED
      BY <1>6, <2>2, <2>3, <3>1
  <2>4. CASE r.by \notin Selected[k]
    <3>1. SinkMatches(k, sinks[s][k], records, h + 1)
      BY <1>3, <1>5, <1>6, <1>7, <2>4, SkipMatches
    <3> QED
      BY <2>2, <2>4, <3>1
  <2> QED
    BY <2>3, <2>4
<1>10. \A i \in 1 .. Len(Tail(queue[s])) : Tail(queue[s])[i] = Sentinel => s \in closing
  <2>1. \A i \in 1 .. Len(Tail(queue[s])) :
          i + 1 \in 1 .. Len(queue[s]) /\ Tail(queue[s])[i] = queue[s][i + 1]
    BY <1>1, <1>3
  <2> QED
    BY <1>4, <2>1 DEF ScopeDrains
<1> HIDE DEF new, r
<1> QED
  BY <1>1, <1>2, <1>6, <1>7, <1>8, <1>9, <1>10, RunningKeeps

LEMMA RotateKeeps ==
  ASSUME IInv, RInv, NEW s \in Scope, NEW k \in Sink, NEW due \in BOOLEAN,
         NEW fault \in Fault \cup {"none"}, Rotate(s, k, due, fault)
  PROVE  RInv'
<1> DEFINE changed == Timers(k, sinks[s][k], due, fault)
           new == [sinks[s] EXCEPT ![k] = changed]
           records == admitted[s]
<1>1. /\ writer[s] = "running" /\ k \in File
      /\ UNCHANGED <<scopeVars, producerVars, writer, queue>>
      /\ sinks' = [sinks EXCEPT ![s] = new]
  BY DEF Rotate
<1>2. faults' \in 0 .. FaultLimit
  <2>1. FaultLimit \in Nat /\ faults \in 0 .. FaultLimit
    BY ScopeAssumption DEF RInv, RecordTypes
  <2> QED
    BY <2>1 DEF Rotate
<1>3. queue \in [Scope -> Seq(Record \cup {Sentinel})] /\ records \in Seq(Record)
  BY DEF RInv, RecordTypes
<1>4. DOMAIN sinks[s] = Sink /\ ScopeDrains(s)
  BY <1>1 DEF RInv, Phases
<1>5. PICK h \in 0 .. Len(records) :
        /\ QueueMatches(queue[s], records, h)
        /\ \A j \in Sink : SinkMatches(j, sinks[s][j], records, h)
  BY <1>4 DEF ScopeDrains
<1>6. SinkMatches(k, changed, records, h)
  <2>1. SinkSound(k, sinks[s][k])
    BY <1>5 DEF SinkMatches
  <2>2. /\ SinkSound(k, changed) /\ KeepsLines(sinks[s][k], changed)
        /\ Counts(sinks[s][k], changed, 0, 0, 0) \/ Counts(sinks[s][k], changed, 0, 0, 1)
    BY <1>1, <2>1, TimersStep
  <2> HIDE DEF changed
  <2>3. h \in Nat
    BY <1>3, <1>5
  <2> QED
    BY <1>5, <2>2, <2>3, KeepsMatches
<1> HIDE DEF changed
<1>7. DOMAIN new = Sink /\ \A j \in Sink : new[j] = IF j = k THEN changed ELSE sinks[s][j]
  BY <1>4
<1>8. \A j \in Sink : SinkMatches(j, new[j], records, h)
  BY <1>5, <1>6, <1>7
<1>9. queue' = [queue EXCEPT ![s] = queue[s]] /\ queue[s] \in Seq(Record \cup {Sentinel})
  BY <1>1, <1>3
<1>10. \A i \in 1 .. Len(queue[s]) : queue[s][i] = Sentinel => s \in closing
  BY <1>4 DEF ScopeDrains
<1> HIDE DEF new
<1> QED
  BY <1>1, <1>2, <1>5, <1>7, <1>8, <1>9, <1>10, RunningKeeps

LEMMA FinishWriterKeeps ==
  ASSUME IInv, RInv, NEW s \in Scope, NEW bad \in Sink, NEW fault \in Fault \cup {"none"},
         FinishWriter(s, bad, fault)
  PROVE  RInv'
<1> DEFINE Trouble(k) == IF k = bad THEN fault ELSE "none"
           new == [k \in Sink |-> Closed(k, sinks[s][k], Trouble(k))]
           records == admitted[s]
<1>1. /\ writer[s] = "running" /\ queue[s] # <<>> /\ Head(queue[s]) = Sentinel
      /\ UNCHANGED <<scopeVars, producerVars>>
      /\ sinks' = [sinks EXCEPT ![s] = new]
      /\ writer' = [writer EXCEPT ![s] = "dead"]
      /\ queue' = [queue EXCEPT ![s] = Tail(queue[s])]
  BY DEF FinishWriter
<1>2. faults' \in 0 .. FaultLimit
  <2>1. FaultLimit \in Nat /\ faults \in 0 .. FaultLimit
    BY ScopeAssumption DEF RInv, RecordTypes
  <2> QED
    BY <2>1 DEF FinishWriter
<1>3. queue[s] \in Seq(Record \cup {Sentinel}) /\ records \in Seq(Record)
  BY DEF RInv, RecordTypes
<1>4. DOMAIN sinks[s] = Sink /\ ScopeDrains(s)
  BY <1>1 DEF RInv, Phases
<1>5. PICK h \in 0 .. Len(records) :
        /\ QueueMatches(queue[s], records, h)
        /\ \A k \in Sink : SinkMatches(k, sinks[s][k], records, h)
  BY <1>4 DEF ScopeDrains
<1>6. /\ Tail(queue[s]) = <<>> /\ QueueMatches(<<>>, records, h)
      /\ \E i \in 1 .. Len(queue[s]) : queue[s][i] = Sentinel
  BY <1>1, <1>3, <1>5, QueueSpent
<1>7. s \in closing
  BY <1>4, <1>6 DEF ScopeDrains
<1>8. ASSUME NEW k \in Sink
      PROVE  SinkMatches(k, new[k], records, h) /\ (k \in File => new[k].stream = 0)
  <2>1. Trouble(k) \in Fault \cup {"none"} /\ new[k] = Closed(k, sinks[s][k], Trouble(k))
    OBVIOUS
  <2> HIDE DEF new, Trouble
  <2>2. SinkSound(k, sinks[s][k])
    BY <1>5 DEF SinkMatches
  <2>3. /\ SinkSound(k, new[k]) /\ KeepsLines(sinks[s][k], new[k])
        /\ Counts(sinks[s][k], new[k], 0, 0, 0) \/ Counts(sinks[s][k], new[k], 0, 0, 1)
        /\ k \in File => new[k].stream = 0
    BY <2>1, <2>2, ClosedStep
  <2>4. h \in Nat
    BY <1>3, <1>5
  <2> QED
    BY <1>5, <2>3, <2>4, KeepsMatches
<1>9. DOMAIN new = Sink /\ \A k \in File : new[k].stream = 0
  BY <1>8 DEF Sink
<1>10. <<>> \in Seq(Record \cup {Sentinel}) /\ queue' = [queue EXCEPT ![s] = <<>>]
  <2>1. queue' = [queue EXCEPT ![s] = <<>>]
    BY <1>1, <1>6, Zenon
  <2> QED
    BY <2>1, EmptySeq
<1>11. \A i \in 1 .. Len(<<>>) : <<>>[i] = Sentinel => s \in closing
  BY <1>7
<1> HIDE DEF new
<1> QED
  BY <1>1, <1>2, <1>5, <1>6, <1>7, <1>8, <1>9, <1>10, <1>11, RunningKeeps

LEMMA WriterKeeps ==
  ASSUME IInv, RInv, NEW s \in Scope, WriterNext(s)
  PROVE  RInv'
<1>1. ASSUME NEW ok \in BOOLEAN, Initialize(s, ok)
      PROVE  RInv'
  BY <1>1, InitializeKeeps
<1>2. ASSUME NEW bad \in Sink, NEW fault \in Fault \cup {"none"}, Dispatch(s, bad, fault)
      PROVE  RInv'
  BY <1>2, DispatchKeeps
<1>3. ASSUME NEW k \in Sink, NEW due \in BOOLEAN, NEW fault \in Fault \cup {"none"},
             Rotate(s, k, due, fault)
      PROVE  RInv'
  BY <1>3, RotateKeeps
<1>4. ASSUME NEW bad \in Sink, NEW fault \in Fault \cup {"none"}, FinishWriter(s, bad, fault)
      PROVE  RInv'
  BY <1>4, FinishWriterKeeps
<1>5. CASE Poll(s)
  <2>1. UNCHANGED <<queue, sinks, faults, sent, producer, admitted, closing, writer, at, started,
                    saved>>
    BY <1>5 DEF Poll, vars, scopeVars, producerVars, writerVars
  <2>2. Phases'
    BY <2>1 DEF RInv, Phases
  <2> QED
    BY <2>1, <2>2, RecordsKept
<1> QED
  BY <1>1, <1>2, <1>3, <1>4, <1>5 DEF WriterNext

LEMMA RecordsStep == IInv /\ RInv /\ [Next]_vars => RInv'
<1> SUFFICES ASSUME IInv, RInv, [Next]_vars
             PROVE  RInv'
  OBVIOUS
<1>1. ASSUME NEW s \in Scope, CallerNext(s)
      PROVE  RInv'
  BY <1>1, PlainCallerKeeps, StartWriterKeeps, TakeoverKeeps, StopKeeps DEF CallerNext
<1>2. ASSUME NEW s \in Scope, WriterNext(s)
      PROVE  RInv'
  BY <1>2, WriterKeeps
<1>3. ASSUME NEW p \in Producer, ProducerNext(p)
      PROVE  RInv'
  BY <1>3, ProducerKeeps
<1>4. CASE UNCHANGED vars
  <2>1. UNCHANGED <<queue, sinks, faults, sent, producer, admitted, closing, writer, at, started,
                    saved>>
    BY <1>4 DEF vars, scopeVars, producerVars, writerVars
  <2>2. Phases'
    BY <2>1 DEF RInv, Phases
  <2> QED
    BY <2>1, <2>2, RecordsKept
<1>5. CASE Finished
  BY <1>4, <1>5 DEF Finished
<1> QED
  BY <1>1, <1>2, <1>3, <1>4, <1>5 DEF Next

LEMMA RecordsInvariance == Spec => [](IInv /\ RInv)
<1>1. Init => IInv /\ RInv
  BY LoggerInit, RecordsInit
<1>2. IInv /\ RInv /\ [Next]_vars => IInv' /\ RInv'
  BY LoggerStep, RecordsStep
<1> QED
  BY <1>1, <1>2, PTL DEF Spec

----------------------------------------------------------------------------

\* Whatever producers, timers and faults did meanwhile, a writer that has ended
\* has put every admitted record through every sink that selects it.
THEOREM EveryRecordHandled == Spec => []AdmittedHandled
<1>1. RInv => AdmittedHandled
  <2> SUFFICES ASSUME RInv, NEW s \in Scope, writer[s] = "dead"
               PROVE  /\ admitted[s] # <<>> => queue[s] = <<>>
                      /\ DOMAIN sinks[s] = Sink => \A k \in Sink :
                           LET c == sinks[s][k].counts
                               selects == {i \in DOMAIN admitted[s] :
                                             admitted[s][i].by \in Selected[k]}
                           IN  /\ c["records_enqueued"] = Cardinality(selects)
                               /\ c["records_enqueued"]
                                    <= c["records_written"] + c["writer_errors"]
    BY DEF AdmittedHandled
  <2>1. ScopeDrains(s) /\ admitted[s] \in Seq(Record)
    BY DEF RInv, RecordTypes
  <2>2. DOMAIN sinks[s] = Sink => queue[s] = <<>>
    BY <2>1 DEF ScopeDrains
  <2>3. admitted[s] # <<>> => DOMAIN sinks[s] = Sink
    BY DEF RInv, Phases
  <2>4. ASSUME DOMAIN sinks[s] = Sink, NEW k \in Sink
        PROVE  LET c == sinks[s][k].counts
                   selects == {i \in DOMAIN admitted[s] : admitted[s][i].by \in Selected[k]}
               IN  /\ c["records_enqueued"] = Cardinality(selects)
                   /\ c["records_enqueued"] <= c["records_written"] + c["writer_errors"]
    <3>1. PICK h \in 0 .. Len(admitted[s]) :
            /\ QueueMatches(queue[s], admitted[s], h)
            /\ \A j \in Sink : SinkMatches(j, sinks[s][j], admitted[s], h)
      BY <2>1, <2>4 DEF ScopeDrains
    <3>2. h = Len(admitted[s])
      BY <2>1, <2>2, <2>4, <3>1, QueueDone
    <3>3. DOMAIN admitted[s] = 1 .. h
      BY <2>1, <3>2
    <3>4. {i \in DOMAIN admitted[s] : admitted[s][i].by \in Selected[k]}
            = Selecting(k, admitted[s], h)
      BY <3>3 DEF Selecting
    <3> QED
      BY <3>1, <3>4 DEF SinkMatches
  <2> QED
    BY <2>2, <2>3, <2>4
<1> QED
  BY <1>1, RecordsInvariance, PTL

\* Over all its segments each sink holds the records it wrote once and in the
\* order of admission, through any failure, rotation and reopening.
LEMMA RecordsInOrder == RInv => WrittenOnceInOrder
<1> SUFFICES ASSUME RInv, NEW s \in Scope, NEW k \in DOMAIN sinks[s]
             PROVE  LET f == sinks[s][k]
                        Position(r) == CHOOSE i \in DOMAIN admitted[s] : admitted[s][i] = r
                    IN  /\ Cardinality(Places(f)) = f.counts["records_written"]
                        /\ \A a, b \in Places(f) :
                             Precedes(a, b) => Position(LineAt(f, a)) < Position(LineAt(f, b))
  BY DEF WrittenOnceInOrder
<1> DEFINE f == sinks[s][k]
           records == admitted[s]
           Position(r) == CHOOSE i \in DOMAIN records : records[i] = r
<1>1. ScopeDrains(s) /\ records \in Seq(Record) /\ Distinct(records)
  BY DEF RInv, RecordTypes, RecordsNumbered
<1>2. PICK h \in 0 .. Len(records) : SinkMatches(k, f, records, h)
  BY <1>1 DEF ScopeDrains
<1>3. DOMAIN records = 1 .. Len(records) /\ 1 .. h \subseteq 1 .. Len(records)
  BY <1>1
<1> HIDE DEF f
<1>4. ASSUME NEW a \in Places(f)
      PROVE  /\ Position(LineAt(f, a)) \in 1 .. h
             /\ records[Position(LineAt(f, a))] = LineAt(f, a)
  <2>1. PICK i \in 1 .. h : records[i] = LineAt(f, a)
    BY <1>2 DEF SinkMatches, TextMatches
  <2>2. i \in DOMAIN records
    BY <1>3
  <2>3. \E j \in DOMAIN records : records[j] = LineAt(f, a)
    BY <2>1, <2>2
  <2>4. /\ Position(LineAt(f, a)) \in DOMAIN records
        /\ records[Position(LineAt(f, a))] = LineAt(f, a)
    BY <2>3
  <2> HIDE DEF Position
  <2>5. Position(LineAt(f, a)) = i
    BY <1>1, <1>3, <2>1, <2>2, <2>4 DEF Distinct
  <2> QED
    BY <2>4, <2>5
<1> HIDE DEF Position
<1>5. ASSUME NEW a \in Places(f), NEW b \in Places(f), Precedes(a, b)
      PROVE  Position(LineAt(f, a)) < Position(LineAt(f, b))
  BY <1>2, <1>4, <1>5 DEF SinkMatches, TextMatches
<1>6. Cardinality(Places(f)) = f.counts["records_written"]
  BY <1>2 DEF SinkMatches
<1> QED
  BY <1>5, <1>6 DEF Position, f

\* A sink's stream is its only open segment, and closed when the writer ends.
LEMMA StreamsClosed == RInv => OneOpenSegment /\ SizeBounded
<1> SUFFICES ASSUME RInv
             PROVE  OneOpenSegment /\ SizeBounded
  OBVIOUS
<1>1. ASSUME NEW s \in Scope, NEW k \in DOMAIN sinks[s]
      PROVE  SinkSound(k, sinks[s][k]) /\ k \in Sink
  <2>1. ScopeDrains(s)
    BY DEF RInv
  <2> QED
    BY <2>1 DEF ScopeDrains, SinkMatches, RInv, Phases
<1>2. ASSUME NEW s \in Scope, NEW k \in DOMAIN sinks[s] \cap File
      PROVE  LET f == sinks[s][k]
             IN  /\ OpenSegments(f) = {f.stream} \ {0}
                 /\ writer[s] = "dead" => f.stream = 0
  <2> DEFINE f == sinks[s][k]
  <2>1. SinkSound(k, f) /\ k \in File
    BY <1>1
  <2>2. ScopeDrains(s)
    BY DEF RInv
  <2>3. writer[s] = "dead" => f.stream = 0
    BY <2>2 DEF ScopeDrains
  <2> HIDE DEF f
  <2>4. /\ f.segments \in Seq(Segment) /\ f.stream \in Nat /\ Len(f.segments) \in Nat
        /\ f.stream # 0 => f.stream = Len(f.segments)
        /\ \A i \in 1 .. Len(f.segments) : f.segments[i].open <=> i = f.stream
    BY <2>1 DEF SinkSound, SinkState
  <2>5. DOMAIN f.segments = 1 .. Len(f.segments)
    BY <2>4
  <2>6. OpenSegments(f) = {i \in 1 .. Len(f.segments) : i = f.stream}
    BY <2>4, <2>5 DEF OpenSegments
  <2>7. OpenSegments(f) = {f.stream} \ {0}
    BY <2>4, <2>6
  <2> QED
    BY <2>3, <2>7 DEF f
<1>3. OneOpenSegment
  BY <1>2 DEF OneOpenSegment
<1>4. SizeBounded
  BY <1>1 DEF SizeBounded, SinkSound
<1> QED
  BY <1>3, <1>4

\* The logging state has its types, every file one open segment at most and no
\* overfull one, and the records in all of them are in order.
THEOREM SinksSound == Spec => []SinkInv
<1>1. IInv /\ RInv => TypeOK
  <2> SUFFICES ASSUME IInv, RInv
               PROVE  TypeOK
    OBVIOUS
  <2>1. ScopeTypes /\ RecordTypes /\ escaped \subseteq Record
    BY DEF IInv, RInv
  <2> QED
    BY <2>1 DEF ScopeTypes, RecordTypes, TypeOK
<1>2. IInv /\ RInv => SinkInv
  BY <1>1, RecordsInOrder, StreamsClosed DEF SinkInv
<1> QED
  BY <1>2, RecordsInvariance, PTL

----------------------------------------------------------------------------
(***************************************************************************)
(* Exception hooks, the part of the logger that stands by itself: in       *)
(* whatever order installations end and third parties come and go, an      *)
(* uncaught failure reaches the newest hook whose owner has not ended.     *)
(*                                                                         *)
(* What an installation found is older than itself, so that whoever passes *)
(* over the ended ones arrives somewhere.  The hooks in use are a line in  *)
(* which what each found leads to the one before it, over any number of    *)
(* ended ones in between.                                                  *)
(***************************************************************************)
\* Installations, third parties and what is there at first are told apart.
HooksDistinct ==
  /\ Installation \cap ThirdParty = {}
  /\ Native \notin Installation \cup ThirdParty

\* f leads from each hook to the one that reports: installations that have ended are
\* passed over.
Passes(f, k, living) ==
  f = [h \in Hooks |-> IF h \in Installation \ living THEN f[previous[h][k]] ELSE h]

\* An installation is younger than what it found.
Ages(age) ==
  /\ age \in [Hooks -> Nat]
  /\ \A i \in Installation, k \in Kind : age[previous[i][k]] < age[i]

Leads(f, k, age) ==
  /\ Passes(f, k, holding)
  /\ \A h \in Hooks :
       f[h] \in Hooks /\ f[h] \notin Installation \ holding /\ age[f[h]] <= age[h]

\* The hooks of one kind that are in use are a line: the current hook leads to the last
\* one placed, and what each found leads to the one before it.
Top(line) == IF line = << >> THEN Native ELSE line[Len(line)]
Beneath(h, k) == IF h \in Installation THEN previous[h][k] ELSE replaced[h].found
HooksLine(f, k) ==
  /\ f[hook[k]] = Top(placed[k])
  /\ \A n \in DOMAIN placed[k] :
       f[Beneath(placed[k][n], k)] = IF n = 1 THEN Native ELSE placed[k][n - 1]

HooksTyped ==
  /\ hook \in [Kind -> Hooks]
  /\ previous \in [Installation -> [Kind -> Hooks]]
  /\ holding \subseteq Installation /\ restored \subseteq Installation
  /\ holding \cap restored = {}
  /\ DOMAIN replaced \subseteq ThirdParty
  /\ \A p \in DOMAIN replaced : replaced[p].kind \in Kind /\ replaced[p].found \in Hooks
  /\ placed \in [Kind -> Seq(Hooks)]

PlacedOnce ==
  \A k \in Kind : \A n \in DOMAIN placed[k] :
    /\ \/ placed[k][n] \in holding /\ k \in Covered(placed[k][n])
       \/ placed[k][n] \in DOMAIN replaced /\ replaced[placed[k][n]].kind = k
    /\ \A m \in DOMAIN placed[k] : placed[k][m] = placed[k][n] => m = n

\* Nobody has found an installation that is still to come.
Unfound ==
  \A i \in Installation \ (holding \cup restored) :
    /\ \A k \in Kind : hook[k] # i /\ \A j \in Installation : previous[j][k] # i
    /\ \A p \in DOMAIN replaced : replaced[p].found # i

Lined == \E age : Ages(age) /\ \A k \in Kind : \E f : Leads(f, k, age) /\ HooksLine(f, k)

EndedGone == \A k \in Kind \ disturbed : hook[k] \notin restored

HInv == HooksTyped /\ PlacedOnce /\ Unfound /\ Lined /\ EndedGone

LEMMA LeastNumber ==
  ASSUME NEW S \in SUBSET Nat, S # {}
  PROVE  \E n \in S : \A m \in S : n <= m
<1>1. PICK n \in S : \A m \in S : ~(<<m, n>> \in OpToRel(<, Nat))
  BY NatLessThanWellFounded, WFMin
<1>2. ASSUME NEW m \in S
      PROVE  n <= m
  <2>1. m \in Nat /\ n \in Nat
    OBVIOUS
  <2>2. ~(m < n)
    BY <1>1, <2>1 DEF OpToRel
  <2> QED
    BY <2>1, <2>2
<1> QED
  BY <1>2

\* An earliest hook on which two such functions differ would be one both pass over.
LEMMA PassesOneWay ==
  ASSUME HooksTyped, NEW age, Ages(age), NEW k \in Kind, NEW living,
         NEW f, NEW g, Passes(f, k, living), Passes(g, k, living)
  PROVE  f = g
<1>1. /\ DOMAIN f = Hooks /\ DOMAIN g = Hooks
      /\ f = [h \in Hooks |-> f[h]] /\ g = [h \in Hooks |-> g[h]]
  BY DEF Passes
<1> DEFINE differing == {h \in Hooks : f[h] # g[h]}
           ages == {age[h] : h \in differing}
<1>2. SUFFICES ASSUME differing # {}
               PROVE  FALSE
  BY <1>1
<1>3. ages \in SUBSET Nat /\ ages # {}
  BY <1>2 DEF Ages
<1>4. PICK least \in ages : \A other \in ages : least <= other
  <2> HIDE DEF ages
  <2> QED
    BY <1>3, LeastNumber
<1>5. PICK h \in differing : least = age[h]
  BY <1>4
<1>6. h \in Hooks /\ f[h] # g[h]
  BY <1>5
<1>7. /\ h \in Installation \ living
      /\ f[h] = f[previous[h][k]] /\ g[h] = g[previous[h][k]]
  BY <1>6 DEF Passes
<1>8. previous[h][k] \in Hooks /\ age[previous[h][k]] < age[h]
  BY <1>7 DEF HooksTyped, Ages
<1>9. previous[h][k] \in differing
  BY <1>6, <1>7, <1>8
<1>10. age[h] <= age[previous[h][k]]
  BY <1>4, <1>5, <1>9
<1> QED
  BY <1>6, <1>8, <1>10 DEF Ages

LEMMA SelectsPassing ==
  ASSUME HooksTyped, NEW age, Ages(age), NEW k \in Kind, NEW living,
         NEW f, Passes(f, k, living), NEW found
  PROVE  select_previous_hook(found, k, living) = f[found]
<1>1. \A g : Passes(g, k, living) => g = f
  BY PassesOneWay
<1> QED
  BY <1>1 DEF select_previous_hook, Passes

LEMMA Concatenation ==
  ASSUME NEW S, NEW s \in Seq(S), NEW t \in Seq(S)
  PROVE  /\ s \o t \in Seq(S)
         /\ Len(s \o t) = Len(s) + Len(t)
         /\ \A i \in 1 .. Len(s) : (s \o t)[i] = s[i]
         /\ \A i \in 1 .. Len(t) : (s \o t)[Len(s) + i] = t[i]
OBVIOUS

LEMMA RemovedOnce ==
  ASSUME NEW S, NEW s \in Seq(S), NEW n \in DOMAIN s,
         \A m \in DOMAIN s : s[m] = s[n] => m = n
  PROVE  /\ RemoveFirst(s, s[n]) \in Seq(S)
         /\ Len(RemoveFirst(s, s[n])) = Len(s) - 1
         /\ \A m \in 1 .. Len(s) - 1 :
              RemoveFirst(s, s[n])[m] = IF m < n THEN s[m] ELSE s[m + 1]
<1>1. {i \in 1 .. Len(s) : s[i] = s[n]} = {n} /\ n \in 1 .. Len(s) /\ Len(s) \in Nat
  OBVIOUS
<1>2. (CHOOSE x \in {n} : \A y \in {n} : x <= y) = n
  OBVIOUS
<1> DEFINE new == RemoveFirst(s, s[n])
           front == SubSeq(s, 1, n - 1)
           back == SubSeq(s, n + 1, Len(s))
<1>3. new = front \o back
  BY <1>1, <1>2 DEF RemoveFirst, RemoveAt, SelectInSeq, Min
<1>4. /\ front \in Seq(S) /\ Len(front) = n - 1
      /\ \A i \in 1 .. n - 1 : front[i] = s[i]
  BY <1>1
<1>5. /\ back \in Seq(S) /\ Len(back) = Len(s) - n
      /\ \A i \in 1 .. Len(s) - n : back[i] = s[n + i]
  BY <1>1
<1> HIDE DEF front, back, new
<1>6. new \in Seq(S) /\ Len(new) = Len(s) - 1
  <2>1. new \in Seq(S) /\ Len(new) = Len(front) + Len(back)
    BY <1>3, <1>4, <1>5
  <2> QED
    BY <1>1, <1>4, <1>5, <2>1
<1>7. ASSUME NEW m \in 1 .. Len(s) - 1
      PROVE  new[m] = IF m < n THEN s[m] ELSE s[m + 1]
  <2>1. CASE m < n
    BY <1>1, <1>3, <1>4, <1>5, <2>1
  <2>2. CASE ~(m < n)
    <3>1. m - (n - 1) \in 1 .. Len(s) - n /\ n + (m - (n - 1)) = m + 1
      BY <1>1, <2>2
    <3>2. new[m] = back[m - (n - 1)]
      <4>1. m = Len(front) + (m - (n - 1)) /\ m - (n - 1) \in 1 .. Len(back)
        BY <1>1, <1>4, <1>5, <3>1
      <4>2. \A j \in 1 .. Len(back) : (front \o back)[Len(front) + j] = back[j]
        <5>1. front \in Seq(S) /\ back \in Seq(S)
          BY <1>4, <1>5
        <5> QED
          BY <5>1, Concatenation
      <4> QED
        BY <1>3, <4>1, <4>2
    <3> QED
      BY <1>5, <2>2, <3>1, <3>2
  <2> QED
    BY <2>1, <2>2
<1> QED
  BY <1>6, <1>7 DEF new

LEMMA RemovedNone ==
  ASSUME NEW S, NEW s \in Seq(S), NEW e, \A n \in DOMAIN s : s[n] # e
  PROVE  RemoveFirst(s, e) = s
BY DEF RemoveFirst

LEMMA HInitHolds ==
  ASSUME HooksDistinct, HookInit
  PROVE  HInv
<1>1. HooksTyped /\ PlacedOnce /\ EndedGone
  BY DEF HookInit, HooksTyped, PlacedOnce, EndedGone, Hooks
<1>2. Unfound
  BY DEF HookInit, Unfound, HooksDistinct
<1>3. Lined
  <2> DEFINE age == [h \in Hooks |-> IF h = Native THEN 0 ELSE 1]
             f == [h \in Hooks |-> IF h \in Installation THEN Native ELSE h]
  <2>1. Ages(age)
    BY DEF HookInit, Ages, Hooks, HooksDistinct
  <2>2. ASSUME NEW k \in Kind
        PROVE  Leads(f, k, age) /\ HooksLine(f, k)
    <3>1. Passes(f, k, holding)
      BY DEF HookInit, Passes, Hooks, HooksDistinct
    <3>2. HooksLine(f, k)
      BY DEF HookInit, HooksLine, Top, Hooks, HooksDistinct
    <3> QED
      BY <3>1, <3>2 DEF Leads, HookInit, Hooks, HooksDistinct
  <2> QED
    BY <2>1, <2>2 DEF Lined
<1> QED
  BY <1>1, <1>2, <1>3 DEF HInv

LEMMA LineNext ==
  ASSUME NEW f, NEW k, f[hook'[k]] = Top(placed'[k]),
         \A n \in DOMAIN placed'[k] : \A h : h = placed'[k][n] =>
           f[Beneath(h, k)'] = IF n = 1 THEN Native ELSE placed'[k][n - 1]
  PROVE  HooksLine(f, k)'
BY DEF HooksLine, Beneath, Top

LEMMA KindsFew == Kind = {"system", "thread", "loop"}
BY DEF Kind

LEMMA InstallLines ==
  ASSUME HInv, HooksDistinct, NEW i \in Installation, Install(i)
  PROVE  Lined'
<1>1. /\ i \notin holding \cup restored
      /\ previous' = [previous EXCEPT ![i] = hook]
      /\ holding' = holding \cup {i} /\ UNCHANGED replaced
      /\ \A k \in Kind :
           \/ hook'[k] = i /\ placed'[k] = Append(placed[k], i)
           \/ hook'[k] = hook[k] /\ placed'[k] = placed[k]
  BY DEF Install
<1>2. HooksTyped /\ PlacedOnce /\ Unfound
  BY DEF HInv
<1>3. PICK age : Ages(age) /\ \A k \in Kind : \E f : Leads(f, k, age) /\ HooksLine(f, k)
  BY DEF HInv, Lined
<1>4. /\ i \in Hooks /\ Native \in Hooks /\ Installation \subseteq Hooks
      /\ \A k \in Kind : hook[k] \in Hooks /\ age[hook[k]] \in Nat /\ hook[k] # i
  BY <1>1, <1>2, <1>3 DEF Hooks, HooksTyped, Ages, Unfound
<1>5. PICK new \in [Hooks -> Nat] :
        /\ new[i] > age[i]
        /\ \A k \in Kind : age[hook[k]] < new[i]
        /\ \A h \in Hooks \ {i} : new[h] = age[h]
  <2> DEFINE above == age[hook["system"]] + age[hook["thread"]] + age[hook["loop"]] + age[i] + 1
             older == [age EXCEPT ![i] = above]
  <2>1. age \in [Hooks -> Nat]
    BY <1>3 DEF Ages
  <2>2. /\ age[hook["system"]] \in Nat /\ age[hook["thread"]] \in Nat
        /\ age[hook["loop"]] \in Nat /\ age[i] \in Nat
    BY <1>4, <2>1, KindsFew
  <2>3. above \in Nat /\ above > age[i] /\ above > age[hook["system"]]
        /\ above > age[hook["thread"]] /\ above > age[hook["loop"]]
    BY <2>2
  <2> HIDE DEF above
  <2>4. /\ older \in [Hooks -> Nat] /\ older[i] = above
        /\ \A h \in Hooks \ {i} : older[h] = age[h]
    BY <1>4, <2>1, <2>3
  <2> HIDE DEF older
  <2> QED
    BY <2>3, <2>4, KindsFew
<1>6. Ages(new)'
  <2>1. ASSUME NEW j \in Installation, NEW k \in Kind
        PROVE  new[previous'[j][k]] < new[j]
    <3>1. CASE j = i
      BY <1>1, <1>2, <1>4, <1>5, <3>1 DEF HooksTyped
    <3>2. CASE j # i
      <4>1. previous'[j] = previous[j] /\ previous[j][k] # i /\ previous[j][k] \in Hooks
        BY <1>1, <1>2, <3>2 DEF HooksTyped, Unfound
      <4>2. age[previous[j][k]] < age[j]
        BY <1>3 DEF Ages
      <4> QED
        BY <1>4, <1>5, <3>2, <4>1, <4>2
    <3> QED
      BY <3>1, <3>2
  <2> QED
    BY <1>5, <2>1 DEF Ages, Kind, Hooks
<1>7. ASSUME NEW k \in Kind
      PROVE  \E f : (Leads(f, k, new) /\ HooksLine(f, k))'
  <2>1. PICK f : Leads(f, k, age) /\ HooksLine(f, k)
    BY <1>3
  <2> DEFINE led == [f EXCEPT ![i] = i]
  <2>2. /\ DOMAIN f = Hooks
        /\ \A h \in Hooks : f[h] = IF h \in Installation \ holding
                                     THEN f[previous[h][k]] ELSE h
    BY <2>1 DEF Leads, Passes
  <2>3. /\ led = [h \in Hooks |-> led[h]] /\ led[i] = i
        /\ \A h \in Hooks \ {i} : led[h] = f[h]
    BY <1>4, <2>2
  <2> HIDE DEF led
  <2>4. \A h \in Hooks : f[h] # i
    BY <1>1, <2>1 DEF Leads
  <2>5. Passes(led, k, holding)'
    <3>1. ASSUME NEW h \in Hooks
          PROVE  led[h] = IF h \in Installation \ holding' THEN led[previous'[h][k]] ELSE h
      <4>1. CASE h = i
        BY <1>1, <2>3, <4>1
      <4>2. CASE h # i /\ h \in Installation \ holding
        <5>1. /\ h \in Installation \ holding'
              /\ previous'[h][k] = previous[h][k] /\ previous[h][k] # i
              /\ previous[h][k] \in Hooks
          BY <1>1, <1>2, <4>2 DEF HooksTyped, Unfound
        <5> QED
          BY <2>2, <2>3, <4>2, <5>1
      <4>3. CASE h # i /\ h \notin Installation \ holding
        BY <1>1, <2>2, <2>3, <4>3
      <4> QED
        BY <4>1, <4>2, <4>3
    <3> QED
      BY <2>3, <3>1 DEF Passes, Hooks
  <2>6. ASSUME NEW h \in Hooks
        PROVE  led[h] \in Hooks /\ led[h] \notin Installation \ holding' /\ new[led[h]] <= new[h]
    <3>1. CASE h = i
      BY <1>1, <1>4, <1>5, <2>3, <3>1
    <3>2. CASE h # i
      BY <1>1, <1>5, <2>1, <2>3, <2>4, <3>2 DEF Leads
    <3> QED
      BY <3>1, <3>2
  <2>7. HooksLine(led, k)'
    <3>1. /\ placed[k] \in Seq(Hooks)
          /\ f[hook[k]] = Top(placed[k])
          /\ \A n \in DOMAIN placed[k] :
               f[Beneath(placed[k][n], k)] = IF n = 1 THEN Native ELSE placed[k][n - 1]
      BY <1>2, <2>1 DEF HooksTyped, HooksLine
    <3>2. ASSUME NEW n \in DOMAIN placed[k], NEW h, h = placed[k][n]
          PROVE  h # i /\ led[Beneath(h, k)'] = IF n = 1 THEN Native ELSE placed[k][n - 1]
      <4>1. h # i
        BY <1>1, <1>2, <3>2, HooksDistinct DEF PlacedOnce, HooksTyped, HooksDistinct
      <4>2. Beneath(h, k)' = Beneath(h, k)
        BY <1>1, <1>2, <4>1 DEF Beneath, HooksTyped
      <4>3. Beneath(h, k) # i /\ Beneath(h, k) \in Hooks
        BY <1>1, <1>2, <3>2, HooksDistinct
        DEF Beneath, Unfound, PlacedOnce, HooksTyped, HooksDistinct
      <4> QED
        BY <2>3, <3>1, <3>2, <4>1, <4>2, <4>3
    <3>3. CASE hook'[k] = hook[k] /\ placed'[k] = placed[k]
      <4>1. led[hook'[k]] = Top(placed'[k])
        BY <1>4, <2>3, <3>1, <3>3
      <4>2. \A n \in DOMAIN placed'[k] : \A h : h = placed'[k][n] =>
              led[Beneath(h, k)'] = IF n = 1 THEN Native ELSE placed'[k][n - 1]
        BY <3>2, <3>3
      <4> QED
        BY <4>1, <4>2, LineNext
    <3>4. CASE hook'[k] = i /\ placed'[k] = Append(placed[k], i)
      <4>1. /\ Len(placed[k]) \in Nat /\ DOMAIN placed[k] = 1 .. Len(placed[k])
            /\ Len(placed'[k]) = Len(placed[k]) + 1 /\ DOMAIN placed'[k] = 1 .. Len(placed[k]) + 1
            /\ placed'[k][Len(placed[k]) + 1] = i
            /\ \A n \in DOMAIN placed[k] : placed'[k][n] = placed[k][n]
        BY <3>1, <3>4
      <4>2. Top(placed'[k]) = i
        BY <4>1 DEF Top
      <4>3. Beneath(i, k)' = hook[k]
        BY <1>1, <1>2 DEF Beneath, HooksTyped
      <4>4. led[hook[k]] = Top(placed[k])
        BY <1>4, <2>3, <3>1
      <4>5. ASSUME NEW n \in DOMAIN placed'[k], NEW h, h = placed'[k][n]
            PROVE  led[Beneath(h, k)'] = IF n = 1 THEN Native ELSE placed'[k][n - 1]
        <5>1. CASE n = Len(placed[k]) + 1
          <6>1. h = i /\ led[Beneath(h, k)'] = Top(placed[k])
            BY <4>1, <4>3, <4>4, <4>5, <5>1
          <6>2. Top(placed[k]) = IF n = 1 THEN Native ELSE placed[k][n - 1]
            BY <3>1, <4>1, <5>1 DEF Top
          <6>3. n # 1 => n - 1 \in DOMAIN placed[k]
            BY <4>1, <5>1
          <6> QED
            BY <4>1, <6>1, <6>2, <6>3
        <5>2. CASE n \in DOMAIN placed[k]
          BY <3>2, <4>1, <4>5, <5>2
        <5> QED
          BY <4>1, <5>1, <5>2
      <4>6. led[hook'[k]] = Top(placed'[k])
        BY <2>3, <3>4, <4>2
      <4> QED
        BY <4>5, <4>6, LineNext
    <3> QED
      BY <1>1, <3>3, <3>4
  <2> QED
    <3>1. Leads(led, k, new)'
      BY <2>5, <2>6 DEF Leads, Hooks
    <3> QED
      BY <2>7, <3>1
<1> QED
  BY <1>6, <1>7 DEF Lined, Kind

\* Who led to i is led to what i found.
LEMMA GivesBackLines ==
  ASSUME HInv, HooksDistinct, NEW i \in Installation, NEW kinds, GivesBack(i, kinds)
  PROVE  Lined'
<1>1. /\ i \in holding /\ holding' = holding \ {i} /\ UNCHANGED <<previous, replaced>>
      /\ \A k \in Kind :
           /\ placed'[k] = RemoveFirst(placed[k], i)
           /\ \/ hook'[k] = hook[k]
              \/ /\ hook[k] = i
                 /\ hook'[k] = select_previous_hook(previous[i][k], k, holding')
  BY DEF GivesBack
<1>2. HooksTyped /\ PlacedOnce /\ Unfound
  BY DEF HInv
<1>3. PICK age : Ages(age) /\ \A k \in Kind : \E f : Leads(f, k, age) /\ HooksLine(f, k)
  BY DEF HInv, Lined
<1>4. i \in Hooks /\ Native \in Hooks /\ Native # i
  BY HooksDistinct DEF Hooks, HooksDistinct
<1>5. Ages(age)'
  BY <1>1, <1>3 DEF Ages, Hooks, Kind
<1>6. ASSUME NEW k \in Kind
      PROVE  \E f : (Leads(f, k, age) /\ HooksLine(f, k))'
  <2>1. PICK f : Leads(f, k, age) /\ HooksLine(f, k)
    BY <1>3
  <2>2. PICK found \in Hooks : found = previous[i][k]
    BY <1>2 DEF HooksTyped
  <2>3. /\ DOMAIN f = Hooks
        /\ \A h \in Hooks : f[h] = IF h \in Installation \ holding
                                     THEN f[previous[h][k]] ELSE h
    BY <2>1 DEF Leads, Passes
  <2>4. f[i] = i /\ f[found] # i
    <3>1. age[found] < age[i] /\ age[f[found]] <= age[found] /\ f[found] \in Hooks
      BY <1>3, <2>1, <2>2 DEF Ages, Leads
    <3>2. age[found] \in Nat /\ age[i] \in Nat /\ age[f[found]] \in Nat
      BY <1>3, <1>4, <3>1 DEF Ages
    <3> QED
      BY <1>1, <1>4, <2>3, <3>1, <3>2
  <2> DEFINE led == [h \in Hooks |-> IF f[h] = i THEN f[found] ELSE f[h]]
  <2>5. /\ led = [h \in Hooks |-> led[h]]
        /\ \A h \in Hooks : led[h] = IF f[h] = i THEN f[found] ELSE f[h]
    OBVIOUS
  <2> HIDE DEF led
  <2>6. Passes(led, k, holding')
    <3>1. ASSUME NEW h \in Hooks
          PROVE  led[h] = IF h \in Installation \ holding' THEN led[previous[h][k]] ELSE h
      <4>1. CASE h = i
        BY <1>1, <2>2, <2>4, <2>5, <4>1
      <4>2. CASE h # i /\ h \in Installation \ holding
        <5>1. previous[h][k] \in Hooks
          BY <1>2, <4>2 DEF HooksTyped
        <5> QED
          BY <1>1, <2>3, <2>5, <4>2, <5>1
      <4>3. CASE h # i /\ h \notin Installation \ holding
        BY <1>1, <2>3, <2>5, <4>3
      <4> QED
        BY <4>1, <4>2, <4>3
    <3> QED
      BY <2>5, <3>1 DEF Passes
  <2>7. Leads(led, k, age)'
    <3>1. ASSUME NEW h \in Hooks
          PROVE  led[h] \in Hooks /\ led[h] \notin Installation \ holding' /\ age[led[h]] <= age[h]
      <4>1. /\ f[h] \in Hooks /\ f[h] \notin Installation \ holding /\ age[f[h]] <= age[h]
            /\ f[found] \in Hooks /\ f[found] \notin Installation \ holding
            /\ age[f[found]] <= age[found]
        BY <2>1 DEF Leads
      <4>2. age[found] < age[i]
        BY <1>3, <2>2 DEF Ages
      <4>3. /\ age[h] \in Nat /\ age[found] \in Nat /\ age[i] \in Nat
            /\ age[f[found]] \in Nat
        BY <1>3, <1>4, <4>1 DEF Ages
      <4>4. CASE f[h] = i
        BY <1>1, <2>4, <2>5, <4>1, <4>2, <4>3, <4>4
      <4>5. CASE f[h] # i
        BY <1>1, <2>5, <4>1, <4>5
      <4> QED
        BY <4>4, <4>5
    <3>2. Passes(led, k, holding)'
      BY <1>1, <2>6 DEF Passes, Hooks
    <3> QED
      BY <3>1, <3>2 DEF Leads, Hooks
  <2>8. /\ placed[k] \in Seq(Hooks)
        /\ f[hook[k]] = Top(placed[k]) /\ hook[k] \in Hooks
        /\ \A n \in DOMAIN placed[k] :
             f[Beneath(placed[k][n], k)] = IF n = 1 THEN Native ELSE placed[k][n - 1]
    BY <1>2, <2>1 DEF HooksTyped, HooksLine
  <2>9. ASSUME NEW n \in DOMAIN placed[k], NEW h, h = placed[k][n]
        PROVE  /\ Beneath(h, k)' = Beneath(h, k)
               /\ Beneath(h, k) \in Hooks
               /\ f[Beneath(h, k)] = IF n = 1 THEN Native ELSE placed[k][n - 1]
    BY <1>1, <1>2, <2>8, <2>9, HooksDistinct DEF Beneath, PlacedOnce, HooksTyped, HooksDistinct
  <2>10. CASE \A n \in DOMAIN placed[k] : placed[k][n] # i
    <3>1. placed'[k] = placed[k]
      BY <1>1, <2>8, <2>10, RemovedNone
    <3>2. Top(placed[k]) # i
      BY <1>4, <2>8, <2>10 DEF Top
    <3>3. hook'[k] = hook[k]
      BY <1>1, <2>4, <2>8, <3>2
    <3>4. \A n \in DOMAIN placed'[k] : \A h : h = placed'[k][n] =>
            led[Beneath(h, k)'] = IF n = 1 THEN Native ELSE placed'[k][n - 1]
      <4>1. ASSUME NEW n \in DOMAIN placed'[k], NEW h, h = placed'[k][n]
            PROVE  led[Beneath(h, k)'] = IF n = 1 THEN Native ELSE placed'[k][n - 1]
        <5>1. n = 1 \/ n - 1 \in DOMAIN placed[k]
          BY <2>8, <3>1, <4>1
        <5> QED
          BY <1>4, <2>5, <2>9, <2>10, <3>1, <4>1, <5>1
      <4> QED
        BY <4>1
    <3>5. led[hook'[k]] = Top(placed'[k])
      <4>1. led[hook[k]] = IF f[hook[k]] = i THEN f[found] ELSE f[hook[k]]
        BY <2>5, <2>8
      <4>2. f[hook[k]] # i
        BY <2>8, <3>2
      <4>3. Top(placed'[k]) = Top(placed[k])
        BY <3>1
      <4> QED
        BY <2>8, <3>3, <4>1, <4>2, <4>3
    <3>6. HooksLine(led, k)'
      BY <3>4, <3>5, LineNext
    <3> QED
      BY <2>7, <3>6
  <2>11. CASE \E n \in DOMAIN placed[k] : placed[k][n] = i
    <3>1. PICK p \in DOMAIN placed[k] : placed[k][p] = i
      BY <2>11
    <3>2. \A m \in DOMAIN placed[k] : placed[k][m] = placed[k][p] => m = p
      BY <1>2 DEF PlacedOnce
    <3>3. /\ placed'[k] \in Seq(Hooks) /\ Len(placed'[k]) = Len(placed[k]) - 1
          /\ \A m \in 1 .. Len(placed[k]) - 1 :
               placed'[k][m] = IF m < p THEN placed[k][m] ELSE placed[k][m + 1]
      <4>1. placed'[k] = RemoveFirst(placed[k], placed[k][p])
        BY <1>1, <3>1
      <4> QED
        BY <2>8, <3>1, <3>2, <4>1, RemovedOnce
    <3>4. /\ Len(placed[k]) \in Nat /\ DOMAIN placed[k] = 1 .. Len(placed[k])
          /\ DOMAIN placed'[k] = 1 .. Len(placed[k]) - 1 /\ p \in 1 .. Len(placed[k])
      BY <2>8, <3>1, <3>3
    <3>5. f[found] = IF p = 1 THEN Native ELSE placed[k][p - 1]
      BY <2>2, <2>9, <3>1 DEF Beneath
    <3>6. led[hook'[k]] = Top(placed'[k])
      <4>1. Top(placed'[k]) = IF p = Len(placed[k]) THEN f[found] ELSE Top(placed[k])
        <5>1. placed[k] # << >>
          BY <3>4
        <5>2. CASE Len(placed[k]) = 1
          <6>1. placed'[k] = << >> /\ p = 1
            BY <3>3, <3>4, <5>2
          <6> QED
            BY <3>5, <5>2, <6>1 DEF Top
        <5>3. CASE Len(placed[k]) # 1
          <6>1. placed'[k] # << >> /\ Len(placed[k]) - 1 \in 1 .. Len(placed[k]) - 1
            <7>1. Len(placed[k]) - 1 \in 1 .. Len(placed[k]) - 1 /\ Len(placed[k]) - 1 # 0
              <8>1. PICK len \in Nat : len = Len(placed[k])
                BY <3>4
              <8>2. p \in 1 .. len /\ len # 1
                BY <3>4, <5>3, <8>1
              <8>3. len - 1 \in 1 .. len - 1 /\ len - 1 # 0
                BY <8>2
              <8> QED
                BY <8>1, <8>3
            <7>2. Len(<< >>) = 0
              OBVIOUS
            <7> QED
              BY <3>3, <7>1, <7>2
          <6>2. placed'[k][Len(placed[k]) - 1] =
                  IF Len(placed[k]) - 1 < p THEN placed[k][Len(placed[k]) - 1]
                  ELSE placed[k][Len(placed[k]) - 1 + 1]
            BY <3>3, <6>1
          <6>3. Len(placed[k]) - 1 < p <=> p = Len(placed[k])
            BY <3>4
          <6>4. Len(placed[k]) - 1 + 1 = Len(placed[k])
            BY <3>4
          <6> QED
            BY <3>3, <3>4, <3>5, <5>1, <5>3, <6>1, <6>2, <6>3, <6>4 DEF Top
        <5> QED
          BY <5>2, <5>3
      <4>2. Top(placed[k]) = i <=> p = Len(placed[k])
        BY <3>1, <3>2, <3>4 DEF Top
      <4>3. CASE hook'[k] = hook[k]
        BY <2>5, <2>8, <4>1, <4>2, <4>3
      <4>4. CASE hook[k] = i /\ hook'[k] = select_previous_hook(found, k, holding')
        <5>1. hook'[k] = led[found]
          BY <1>2, <1>3, <2>6, <4>4, SelectsPassing
        <5>2. led[found] = f[found] /\ f[found] \in Hooks
          BY <2>1, <2>4, <2>5 DEF Leads
        <5>3. f[f[found]] = f[found]
          BY <2>1, <2>3, <5>2 DEF Leads
        <5> QED
          BY <2>4, <2>5, <2>8, <4>1, <4>2, <4>4, <5>1, <5>2, <5>3
      <4> QED
        BY <1>1, <2>2, <4>3, <4>4
    <3>7. ASSUME NEW n \in DOMAIN placed'[k], NEW h, h = placed'[k][n]
          PROVE  led[Beneath(h, k)'] = IF n = 1 THEN Native ELSE placed'[k][n - 1]
      <4>1. CASE n < p
        <5>1. n \in DOMAIN placed[k] /\ h = placed[k][n] /\ n # p
          BY <3>3, <3>4, <3>7, <4>1
        <5>2. n # 1 => n - 1 \in DOMAIN placed[k] /\ placed[k][n - 1] # i
                       /\ placed'[k][n - 1] = placed[k][n - 1]
          <6>1. SUFFICES ASSUME n # 1
                         PROVE  /\ n - 1 \in DOMAIN placed[k] /\ placed[k][n - 1] # i
                                /\ placed'[k][n - 1] = placed[k][n - 1]
            OBVIOUS
          <6>2. n - 1 \in 1 .. Len(placed[k]) - 1 /\ n - 1 < p /\ n - 1 \in DOMAIN placed[k] /\ n - 1 # p
            BY <3>4, <3>7, <4>1, <6>1
          <6> QED
            BY <3>1, <3>2, <3>3, <6>2
        <5> QED
          BY <1>4, <2>5, <2>9, <5>1, <5>2
      <4>2. CASE n = p
        <5>1. n + 1 \in DOMAIN placed[k] /\ h = placed[k][n + 1] /\ n + 1 # 1 /\ (n + 1) - 1 = p
          BY <3>3, <3>4, <3>7, <4>2
        <5>2. f[Beneath(h, k)] = i
          BY <2>9, <3>1, <5>1
        <5>3. n # 1 => placed'[k][n - 1] = placed[k][p - 1]
          <6>1. SUFFICES ASSUME n # 1
                         PROVE  placed'[k][n - 1] = placed[k][p - 1]
            OBVIOUS
          <6>2. n - 1 \in 1 .. Len(placed[k]) - 1 /\ n - 1 < p /\ n - 1 = p - 1
            BY <3>4, <3>7, <4>2, <6>1
          <6> QED
            BY <3>3, <6>2
        <5> QED
          BY <2>5, <2>9, <3>5, <4>2, <5>1, <5>2, <5>3
      <4>3. CASE n > p
        <5>1. n + 1 \in DOMAIN placed[k] /\ h = placed[k][n + 1] /\ n + 1 # 1 /\ (n + 1) - 1 = n
              /\ n # 1 /\ placed'[k][n - 1] = placed[k][n]
          <6>1. /\ n + 1 \in DOMAIN placed[k] /\ n \in 1 .. Len(placed[k]) - 1 /\ ~(n < p)
                /\ n - 1 \in 1 .. Len(placed[k]) - 1 /\ ~(n - 1 < p)
                /\ (n - 1) + 1 = n /\ (n + 1) - 1 = n /\ n # 1 /\ n + 1 # 1
            BY SMTT(30), <3>4, <3>7, <4>3
          <6>2. placed'[k][n - 1] = placed[k][(n - 1) + 1] /\ placed'[k][n] = placed[k][n + 1]
            BY <3>3, <6>1
          <6> QED
            BY <3>7, <6>1, <6>2
        <5>2. n \in DOMAIN placed[k] /\ placed[k][n] # i
          BY <3>1, <3>2, <3>4, <4>3, <3>7
        <5>3. f[Beneath(h, k)] = placed[k][n]
          BY <2>9, <5>1
        <5> QED
          BY <2>5, <2>9, <5>1, <5>2, <5>3
      <4> QED
        BY <3>4, <4>1, <4>2, <4>3
    <3> QED
      BY <2>7, <3>6, <3>7, LineNext
  <2> QED
    BY <2>10, <2>11
<1> QED
  BY <1>5, <1>6 DEF Lined, Kind

LEMMA ReplaceLines ==
  ASSUME HInv, HooksDistinct, NEW p \in ThirdParty, NEW kind \in Kind, Replace(p, kind)
  PROVE  Lined'
<1>1. /\ p \notin DOMAIN replaced /\ UNCHANGED <<previous, holding>>
      /\ DOMAIN replaced' = DOMAIN replaced \cup {p} /\ replaced'[p].found = hook[kind]
      /\ \A q \in DOMAIN replaced : replaced'[q] = replaced[q]
  BY DEF Replace
<1>2. HooksTyped /\ PlacedOnce
  BY DEF HInv
<1>3. /\ hook'[kind] = p /\ placed'[kind] = Append(placed[kind], p)
      /\ \A k \in Kind \ {kind} : hook'[k] = hook[k] /\ placed'[k] = placed[k]
  BY <1>2 DEF Replace, HooksTyped
<1>4. PICK age : Ages(age) /\ \A k \in Kind : \E f : Leads(f, k, age) /\ HooksLine(f, k)
  BY DEF HInv, Lined
<1>5. p \in Hooks /\ p \notin Installation
  BY HooksDistinct DEF Hooks, HooksDistinct
<1>6. Ages(age)'
  BY <1>1, <1>4 DEF Ages, Hooks, Kind
<1>7. ASSUME NEW k \in Kind
      PROVE  \E f : (Leads(f, k, age) /\ HooksLine(f, k))'
  <2>1. PICK f : Leads(f, k, age) /\ HooksLine(f, k)
    BY <1>4
  <2>2. Leads(f, k, age)'
    BY <1>1, <2>1 DEF Leads, Passes, Hooks
  <2>3. f[p] = p
    BY <1>5, <2>1 DEF Leads, Passes
  <2>4. /\ placed[k] \in Seq(Hooks)
        /\ f[hook[k]] = Top(placed[k])
        /\ \A n \in DOMAIN placed[k] :
             f[Beneath(placed[k][n], k)] = IF n = 1 THEN Native ELSE placed[k][n - 1]
    BY <1>2, <2>1 DEF HooksTyped, HooksLine
  <2>5. ASSUME NEW n \in DOMAIN placed[k], NEW h, h = placed[k][n]
        PROVE  f[Beneath(h, k)'] = IF n = 1 THEN Native ELSE placed[k][n - 1]
    <3>1. Beneath(h, k)' = Beneath(h, k)
      BY <1>1, <1>2, <2>5 DEF Beneath, PlacedOnce, HooksTyped
    <3> QED
      BY <2>4, <2>5, <3>1
  <2>6. CASE k # kind
    <3>1. hook'[k] = hook[k] /\ placed'[k] = placed[k]
      BY <1>3, <2>6
    <3>2. \A n \in DOMAIN placed'[k] : \A h : h = placed'[k][n] =>
            f[Beneath(h, k)'] = IF n = 1 THEN Native ELSE placed'[k][n - 1]
      BY <2>5, <3>1
    <3>3. f[hook'[k]] = Top(placed'[k])
      BY <2>4, <3>1
    <3> QED
      BY <2>2, <3>2, <3>3, LineNext
  <2>7. CASE k = kind
    <3>1. /\ Len(placed[k]) \in Nat /\ DOMAIN placed[k] = 1 .. Len(placed[k])
          /\ Len(placed'[k]) = Len(placed[k]) + 1 /\ DOMAIN placed'[k] = 1 .. Len(placed[k]) + 1
          /\ placed'[k][Len(placed[k]) + 1] = p
          /\ \A n \in DOMAIN placed[k] : placed'[k][n] = placed[k][n]
      BY <1>3, <2>4, <2>7
    <3>2. f[hook'[k]] = Top(placed'[k])
      BY <1>3, <2>3, <2>7, <3>1 DEF Top
    <3>3. Beneath(p, k)' = hook[k]
      BY <1>1, <1>5, <2>7 DEF Beneath
    <3>4. ASSUME NEW n \in DOMAIN placed'[k], NEW h, h = placed'[k][n]
          PROVE  f[Beneath(h, k)'] = IF n = 1 THEN Native ELSE placed'[k][n - 1]
      <4>1. CASE n = Len(placed[k]) + 1
        BY <2>4, <3>1, <3>3, <3>4, <4>1 DEF Top
      <4>2. CASE n \in DOMAIN placed[k]
        BY SMTT(30), <2>5, <3>1, <3>4, <4>2
      <4> QED
        BY <3>1, <4>1, <4>2
    <3> QED
      BY <2>2, <3>2, <3>4, LineNext
  <2> QED
    BY <2>6, <2>7
<1> QED
  BY <1>6, <1>7 DEF Lined, Kind

LEMMA GiveBackLines ==
  ASSUME HInv, HooksDistinct, NEW p \in ThirdParty, GiveBack(p)
  PROVE  Lined'
<1> DEFINE kind == replaced[p].kind
<1>1. /\ p \in DOMAIN replaced /\ kind \in Kind /\ hook[kind] = p
      /\ UNCHANGED <<previous, holding, replaced>>
  BY DEF GiveBack, HInv, HooksTyped
<1>2. HooksTyped /\ PlacedOnce
  BY DEF HInv
<1>3. /\ hook'[kind] = replaced[p].found /\ placed'[kind] = RemoveFirst(placed[kind], p)
      /\ \A k \in Kind \ {kind} : hook'[k] = hook[k] /\ placed'[k] = placed[k]
  BY <1>1, <1>2 DEF GiveBack, HooksTyped
<1>4. PICK age : Ages(age) /\ \A k \in Kind : \E f : Leads(f, k, age) /\ HooksLine(f, k)
  BY DEF HInv, Lined
<1>5. p \in Hooks /\ p \notin Installation /\ p # Native
  BY HooksDistinct DEF Hooks, HooksDistinct
<1>6. Ages(age)'
  BY <1>1, <1>4 DEF Ages, Hooks, Kind
<1>7. ASSUME NEW k \in Kind
      PROVE  \E f : (Leads(f, k, age) /\ HooksLine(f, k))'
  <2>1. PICK f : Leads(f, k, age) /\ HooksLine(f, k)
    BY <1>4
  <2>2. Leads(f, k, age)'
    BY <1>1, <2>1 DEF Leads, Passes, Hooks
  <2>3. f[p] = p
    BY <1>5, <2>1 DEF Leads, Passes
  <2>4. /\ placed[k] \in Seq(Hooks)
        /\ f[hook[k]] = Top(placed[k])
    BY <1>2, <2>1 DEF HooksTyped, HooksLine
  <2>5. ASSUME NEW n \in DOMAIN placed[k], NEW h, h = placed[k][n]
        PROVE  f[Beneath(h, k)'] = IF n = 1 THEN Native ELSE placed[k][n - 1]
    BY <1>1, <2>1, <2>5 DEF HooksLine, Beneath
  <2>6. CASE k # kind
    <3>1. hook'[k] = hook[k] /\ placed'[k] = placed[k]
      BY <1>3, <2>6
    <3>2. \A n \in DOMAIN placed'[k] : \A h : h = placed'[k][n] =>
            f[Beneath(h, k)'] = IF n = 1 THEN Native ELSE placed'[k][n - 1]
      BY <2>5, <3>1
    <3>3. f[hook'[k]] = Top(placed'[k])
      BY <2>4, <3>1
    <3> QED
      BY <2>2, <3>2, <3>3, LineNext
  <2>7. CASE k = kind
    <3> DEFINE last == Len(placed[k])
    <3>1. /\ last \in Nat /\ DOMAIN placed[k] = 1 .. last
          /\ last \in DOMAIN placed[k] /\ placed[k][last] = p
      <4>1. Top(placed[k]) = p
        BY <1>1, <2>3, <2>4, <2>7
      <4>2. placed[k] # << >> /\ placed[k][last] = p
        BY <1>5, <4>1 DEF Top
      <4>3. last \in Nat /\ DOMAIN placed[k] = 1 .. last /\ last # 0
        BY <2>4, <4>2
      <4> QED
        BY <4>2, <4>3
    <3>2. \A m \in DOMAIN placed[k] : placed[k][m] = placed[k][last] => m = last
      BY <1>2, <3>1 DEF PlacedOnce
    <3>3. placed'[k] = RemoveFirst(placed[k], placed[k][last])
      BY <1>3, <2>7, <3>1
    <3>4. /\ placed'[k] \in Seq(Hooks) /\ Len(placed'[k]) = last - 1
          /\ \A m \in 1 .. last - 1 :
               placed'[k][m] = IF m < last THEN placed[k][m] ELSE placed[k][m + 1]
      <4> DEFINE rest == RemoveFirst(placed[k], placed[k][last])
      <4>1. /\ rest \in Seq(Hooks) /\ Len(rest) = Len(placed[k]) - 1
            /\ \A m \in 1 .. Len(placed[k]) - 1 :
                 rest[m] = IF m < last THEN placed[k][m] ELSE placed[k][m + 1]
        <5> HIDE DEF last
        <5> QED
          BY <2>4, <3>1, <3>2, RemovedOnce
      <4> QED
        BY <3>3, <4>1
    <3> HIDE DEF last
    <3>5. /\ DOMAIN placed'[k] = 1 .. last - 1
          /\ \A m \in 1 .. last - 1 : m \in DOMAIN placed[k] /\ placed'[k][m] = placed[k][m]
      BY <3>1, <3>4
    <3>6. f[hook'[k]] = IF last = 1 THEN Native ELSE placed[k][last - 1]
      <4>1. Beneath(p, k)' = hook'[k]
        BY <1>1, <1>3, <1>5, <2>7 DEF Beneath
      <4> QED
        BY <2>5, <3>1, <4>1
    <3>7. f[hook'[k]] = Top(placed'[k])
      <4>1. CASE last = 1
        <5>1. placed'[k] = << >>
          BY <3>4, <4>1
        <5> QED
          BY <3>6, <4>1, <5>1 DEF Top
      <4>2. CASE last # 1
        <5>1. last - 1 \in 1 .. last - 1 /\ last - 1 # 0
          BY <3>1, <4>2
        <5>2. Len(<< >>) = 0
          OBVIOUS
        <5>3. placed'[k] # << >> /\ placed'[k][last - 1] = placed[k][last - 1]
          BY <3>4, <3>5, <5>1, <5>2
        <5> QED
          BY <3>4, <3>6, <4>2, <5>3 DEF Top
      <4> QED
        BY <4>1, <4>2
    <3>8. ASSUME NEW n \in DOMAIN placed'[k], NEW h, h = placed'[k][n]
          PROVE  f[Beneath(h, k)'] = IF n = 1 THEN Native ELSE placed'[k][n - 1]
      <4>1. n \in DOMAIN placed[k] /\ h = placed[k][n]
        BY <3>5, <3>8
      <4>2. n # 1 => placed'[k][n - 1] = placed[k][n - 1]
        <5>1. SUFFICES ASSUME n # 1
                       PROVE  placed'[k][n - 1] = placed[k][n - 1]
          OBVIOUS
        <5>2. n - 1 \in 1 .. last - 1
          BY <3>1, <3>5, <3>8, <5>1
        <5> QED
          BY <3>5, <5>2
      <4> QED
        BY <2>5, <4>1, <4>2
    <3> QED
      BY <2>2, <3>7, <3>8, LineNext
  <2> QED
    BY <2>6, <2>7
<1> QED
  BY <1>6, <1>7 DEF Lined, Kind

-----------------------------------------------------------------------------
\* The other parts of the invariant.

LEMMA InstallKeeps ==
  ASSUME HInv, HooksDistinct, NEW i \in Installation, Install(i)
  PROVE  HInv'
<1>1. /\ i \notin holding \cup restored /\ i \in Hooks
      /\ previous' = [previous EXCEPT ![i] = hook]
      /\ holding' = holding \cup {i} /\ UNCHANGED <<restored, replaced, disturbed>>
      /\ hook' = [k \in Kind |-> IF k \in Covered(i) THEN i ELSE hook[k]]
      /\ placed' = [k \in Kind |-> IF k \in Covered(i) THEN Append(placed[k], i)
                                   ELSE placed[k]]
  BY DEF Install, Hooks
<1>2. HooksTyped /\ PlacedOnce /\ Unfound /\ EndedGone
  BY DEF HInv
<1>3. HooksTyped'
  <2>1. hook' \in [Kind -> Hooks] /\ placed' \in [Kind -> Seq(Hooks)]
    BY <1>1, <1>2 DEF HooksTyped
  <2>2. previous' \in [Installation -> [Kind -> Hooks]]
    BY <1>1, <1>2 DEF HooksTyped
  <2> QED
    BY <1>1, <1>2, <2>1, <2>2 DEF HooksTyped, Kind, Hooks
<1>4. PlacedOnce'
  <2>1. ASSUME NEW k \in Kind, NEW n \in DOMAIN placed'[k]
        PROVE  /\ \/ placed'[k][n] \in holding' /\ k \in Covered(placed'[k][n])
                  \/ placed'[k][n] \in DOMAIN replaced /\ replaced[placed'[k][n]].kind = k
               /\ \A m \in DOMAIN placed'[k] : placed'[k][m] = placed'[k][n] => m = n
    <3>1. placed[k] \in Seq(Hooks) /\ \A m \in DOMAIN placed[k] : placed[k][m] # i
      BY <1>1, <1>2, HooksDistinct DEF HooksTyped, PlacedOnce, HooksDistinct
    <3>2. CASE placed'[k] = placed[k]
      <4>1. n \in DOMAIN placed[k]
        BY <2>1, <3>2
      <4>2. /\ \/ placed[k][n] \in holding /\ k \in Covered(placed[k][n])
               \/ placed[k][n] \in DOMAIN replaced /\ replaced[placed[k][n]].kind = k
            /\ \A m \in DOMAIN placed[k] : placed[k][m] = placed[k][n] => m = n
        BY <1>2, <4>1 DEF PlacedOnce
      <4> QED
        BY <1>1, <3>2, <4>2
    <3>3. CASE placed'[k] = Append(placed[k], i) /\ k \in Covered(i)
      <4>1. /\ Len(placed[k]) \in Nat /\ DOMAIN placed[k] = 1 .. Len(placed[k])
            /\ DOMAIN placed'[k] = 1 .. Len(placed[k]) + 1
            /\ placed'[k][Len(placed[k]) + 1] = i
            /\ \A m \in DOMAIN placed[k] : placed'[k][m] = placed[k][m]
        BY <3>1, <3>3
      <4>2. CASE n = Len(placed[k]) + 1
        BY <1>1, <3>1, <3>3, <4>1, <4>2
      <4>3. CASE n \in DOMAIN placed[k]
        BY <1>1, <1>2, <2>1, <3>1, <4>1, <4>3 DEF PlacedOnce
      <4> QED
        BY <2>1, <4>1, <4>2, <4>3
    <3> QED
      BY <1>1, <3>2, <3>3
  <2> QED
    BY SMTT(30), <1>1, <2>1 DEF PlacedOnce, Kind, Covered
<1>5. Unfound'
  BY <1>1, <1>2 DEF Unfound, HooksTyped, Kind
<1>6. EndedGone'
  BY <1>1, <1>2 DEF EndedGone, Kind
<1> QED
  BY <1>3, <1>4, <1>5, <1>6, InstallLines DEF HInv

\* The line of a kind without one hook.
LEMMA RemovalKeepsLine ==
  ASSUME HInv, NEW k \in Kind, NEW gone
  PROVE  LET rest == RemoveFirst(placed[k], gone) IN
         /\ rest \in Seq(Hooks)
         /\ \A n \in DOMAIN rest :
              /\ rest[n] # gone
              /\ \E m \in DOMAIN placed[k] : rest[n] = placed[k][m]
              /\ \A m \in DOMAIN rest : rest[m] = rest[n] => m = n
<1> DEFINE rest == RemoveFirst(placed[k], gone)
<1>1. /\ placed[k] \in Seq(Hooks) /\ Len(placed[k]) \in Nat
      /\ DOMAIN placed[k] = 1 .. Len(placed[k])
      /\ \A n, m \in DOMAIN placed[k] : placed[k][m] = placed[k][n] => m = n
  BY DEF HInv, HooksTyped, PlacedOnce
<1>2. CASE \A n \in DOMAIN placed[k] : placed[k][n] # gone
  <2>1. rest = placed[k]
    BY <1>1, <1>2, RemovedNone
  <2> QED
    BY <1>1, <1>2, <2>1
<1>3. ASSUME NEW p \in DOMAIN placed[k], placed[k][p] = gone
      PROVE  /\ rest \in Seq(Hooks)
             /\ \A n \in DOMAIN rest :
                  /\ rest[n] # gone
                  /\ \E m \in DOMAIN placed[k] : rest[n] = placed[k][m]
                  /\ \A m \in DOMAIN rest : rest[m] = rest[n] => m = n
  <2>1. rest = RemoveFirst(placed[k], placed[k][p])
    BY <1>3
  <2>2. /\ rest \in Seq(Hooks) /\ Len(rest) = Len(placed[k]) - 1
        /\ \A m \in 1 .. Len(placed[k]) - 1 :
             rest[m] = IF m < p THEN placed[k][m] ELSE placed[k][m + 1]
    <3>1. PICK s \in Seq(Hooks) : s = placed[k]
      BY <1>1
    <3>2. p \in DOMAIN s /\ \A m \in DOMAIN s : s[m] = s[p] => m = p
      BY <1>1, <3>1
    <3>3. /\ RemoveFirst(s, s[p]) \in Seq(Hooks)
          /\ Len(RemoveFirst(s, s[p])) = Len(s) - 1
          /\ \A m \in 1 .. Len(s) - 1 :
               RemoveFirst(s, s[p])[m] = IF m < p THEN s[m] ELSE s[m + 1]
      BY <3>2, RemovedOnce
    <3> QED
      BY <2>1, <3>1, <3>3
  <2>3. DOMAIN rest = 1 .. Len(placed[k]) - 1
    BY <1>1, <2>2
  <2> DEFINE from(n) == IF n < p THEN n ELSE n + 1
  <2>4. ASSUME NEW n \in DOMAIN rest
        PROVE  from(n) \in DOMAIN placed[k] /\ from(n) # p /\ rest[n] = placed[k][from(n)]
    <3>1. PICK len \in Nat : len = Len(placed[k])
      BY <1>1
    <3>2. n \in 1 .. len - 1 /\ p \in 1 .. len
      BY <1>1, <1>3, <2>3, <3>1
    <3>3. from(n) \in 1 .. len /\ from(n) # p
      BY <3>2
    <3> QED
      BY <1>1, <2>2, <2>3, <3>1, <3>3
  <2>5. \A n, m \in DOMAIN rest : from(n) = from(m) => m = n
    BY <2>3, <1>1
  <2> HIDE DEF from
  <2> QED
    BY SMTT(30), <1>1, <1>3, <2>2, <2>4, <2>5
<1> QED
  BY <1>2, <1>3

\* What select_previous_hook returns is a hook whose owner has not ended.
LEMMA SelectsLiving ==
  ASSUME HInv, HooksDistinct, NEW i \in Installation, NEW kinds, GivesBack(i, kinds),
         NEW k \in Kind
  PROVE  /\ select_previous_hook(previous[i][k], k, holding') \in Hooks
         /\ select_previous_hook(previous[i][k], k, holding') \notin Installation \ holding'
<1>1. UNCHANGED previous
  BY DEF GivesBack
<1>2. PICK age, f : Ages(age)' /\ Leads(f, k, age)'
  BY GivesBackLines DEF Lined, Kind
<1>3. Ages(age) /\ Passes(f, k, holding')
  BY <1>1, <1>2 DEF Ages, Leads, Passes, Hooks, Kind
<1>4. select_previous_hook(previous[i][k], k, holding') = f[previous[i][k]]
  BY <1>3, SelectsPassing DEF HInv
<1>5. previous[i][k] \in Hooks
  BY DEF HInv, HooksTyped
<1> QED
  BY <1>2, <1>4, <1>5 DEF Leads, Hooks

\* All but EndedGone, which depends on what the loop does.
LEMMA GivesBackKeeps ==
  ASSUME HInv, HooksDistinct, NEW i \in Installation, NEW kinds, GivesBack(i, kinds)
  PROVE  HooksTyped' /\ PlacedOnce' /\ Unfound' /\ Lined'
<1>1. /\ i \in holding /\ holding' = holding \ {i} /\ restored' = restored \cup {i}
      /\ UNCHANGED <<previous, replaced>>
      /\ hook' = [k \in Kind |->
             IF k \in kinds /\ hook[k] = i
             THEN select_previous_hook(previous[i][k], k, holding') ELSE hook[k]]
      /\ placed' = [k \in Kind |-> RemoveFirst(placed[k], i)]
  BY DEF GivesBack
<1>2. HooksTyped /\ PlacedOnce /\ Unfound
  BY DEF HInv
<1>3. HooksTyped'
  <2>1. \A k \in Kind : hook'[k] \in Hooks /\ placed'[k] \in Seq(Hooks)
    BY <1>1, <1>2, SelectsLiving, RemovalKeepsLine DEF HooksTyped
  <2>2. hook' \in [Kind -> Hooks] /\ placed' \in [Kind -> Seq(Hooks)]
    BY <1>1, <2>1
  <2> QED
    BY <1>1, <1>2, <2>2 DEF HooksTyped, Kind, Hooks
<1>4. PlacedOnce'
  <2>1. ASSUME NEW k \in Kind, NEW n \in DOMAIN placed'[k]
        PROVE  /\ \/ placed'[k][n] \in holding' /\ k \in Covered(placed'[k][n])
                  \/ placed'[k][n] \in DOMAIN replaced /\ replaced[placed'[k][n]].kind = k
               /\ \A m \in DOMAIN placed'[k] : placed'[k][m] = placed'[k][n] => m = n
    <3>1. placed'[k] = RemoveFirst(placed[k], i)
      BY <1>1
    <3>2. /\ placed'[k][n] # i
          /\ \E m \in DOMAIN placed[k] : placed'[k][n] = placed[k][m]
          /\ \A m \in DOMAIN placed'[k] : placed'[k][m] = placed'[k][n] => m = n
      <4> DEFINE rest == RemoveFirst(placed[k], i)
      <4>1. \A j \in DOMAIN rest :
              /\ rest[j] # i
              /\ \E m \in DOMAIN placed[k] : rest[j] = placed[k][m]
              /\ \A m \in DOMAIN rest : rest[m] = rest[j] => m = j
        BY RemovalKeepsLine
      <4> HIDE DEF rest
      <4>2. placed'[k] = rest
        BY <3>1 DEF rest
      <4> QED
        BY <2>1, <4>1, <4>2
    <3>3. PICK m \in DOMAIN placed[k] : placed'[k][n] = placed[k][m]
      BY <3>2
    <3>4. \/ placed[k][m] \in holding /\ k \in Covered(placed[k][m])
          \/ placed[k][m] \in DOMAIN replaced /\ replaced[placed[k][m]].kind = k
      BY <1>2 DEF PlacedOnce
    <3> QED
      BY <1>1, <3>2, <3>3, <3>4
  <2> QED
    BY <1>1, <2>1 DEF PlacedOnce, Kind
<1>5. Unfound'
  <2>1. ASSUME NEW j \in Installation \ (holding' \cup restored'), NEW k \in Kind
        PROVE  hook'[k] # j
    <3>1. j \in Installation \ (holding \cup restored) /\ j # i
      BY <1>1, <2>1
    <3>2. j \in Installation \ holding'
      BY <2>1
    <3> QED
      BY SMTT(30), <1>1, <1>2, <3>1, <3>2, SelectsLiving DEF Unfound
  <2> QED
    BY <1>1, <1>2, <2>1 DEF Unfound, Kind
<1> QED
  BY <1>3, <1>4, <1>5, GivesBackLines

\* An installation that is a current hook was placed there.
LEMMA HolderPlaced ==
  ASSUME HInv, HooksDistinct, NEW k \in Kind, hook[k] \in holding
  PROVE  k \in Covered(hook[k])
<1>1. PICK age, f : Leads(f, k, age) /\ HooksLine(f, k)
  BY DEF HInv, Lined
<1>2. hook[k] \in Hooks /\ hook[k] \in Installation
  BY DEF HInv, HooksTyped
<1>3. Top(placed[k]) = hook[k]
  BY <1>1, <1>2 DEF Leads, Passes, HooksLine
<1>4. placed[k] \in Seq(Hooks) /\ placed[k] # << >> /\ placed[k][Len(placed[k])] = hook[k]
  BY <1>2, <1>3, HooksDistinct DEF Top, HInv, HooksTyped, HooksDistinct
<1>5. Len(placed[k]) \in DOMAIN placed[k]
  BY <1>4
<1> QED
  BY <1>2, <1>4, <1>5, HooksDistinct DEF HInv, PlacedOnce, HooksTyped, HooksDistinct

LEMMA RestoreKeeps ==
  ASSUME HInv, HooksDistinct, NEW i \in Installation, RestoreHook(i) \/ RestoreRefused(i)
  PROVE  HInv'
<1>1. PICK kinds : /\ GivesBack(i, kinds)
                   /\ \A k \in Kind \ disturbed' : k \in kinds \/ k \notin Covered(i)
                   /\ disturbed \subseteq disturbed'
  BY DEF RestoreHook, RestoreRefused
<1>2. EndedGone'
  <2>1. ASSUME NEW k \in Kind \ disturbed'
        PROVE  hook'[k] \notin restored'
    <3>1. k \notin disturbed /\ hook[k] \notin restored
      BY <1>1 DEF HInv, EndedGone
    <3>2. /\ restored' = restored \cup {i}
          /\ hook'[k] = IF k \in kinds /\ hook[k] = i
                        THEN select_previous_hook(previous[i][k], k, holding') ELSE hook[k]
      BY <1>1 DEF GivesBack
    <3>3. hook[k] = i => k \in kinds
      BY <1>1, <2>1, HolderPlaced DEF GivesBack
    <3>4. CASE hook[k] = i
      <4>1. hook'[k] \notin Installation \ holding'
        BY <1>1, <3>2, <3>3, <3>4, SelectsLiving
      <4>2. restored' \subseteq Installation \ holding'
        BY <1>1, GivesBackKeeps DEF HooksTyped
      <4> QED
        BY <4>1, <4>2
    <3> QED
      BY <3>1, <3>2, <3>4
  <2> QED
    BY <2>1 DEF EndedGone, Kind
<1> QED
  BY <1>1, <1>2, GivesBackKeeps DEF HInv

LEMMA LinedKept ==
  ASSUME Lined, UNCHANGED <<hook, previous, holding, replaced, placed>>
  PROVE  Lined'
<1>1. PICK age : Ages(age) /\ \A k \in Kind : \E f : Leads(f, k, age) /\ HooksLine(f, k)
  BY DEF Lined
<1>2. Ages(age)'
  BY <1>1 DEF Ages, Hooks, Kind
<1>3. ASSUME NEW k \in Kind
      PROVE  \E f : (Leads(f, k, age) /\ HooksLine(f, k))'
  <2>1. PICK f : Leads(f, k, age) /\ HooksLine(f, k)
    BY SMTT(30), <1>1
  <2>2. (Leads(f, k, age) /\ HooksLine(f, k))'
    BY <2>1 DEF Leads, Passes, HooksLine, Top, Beneath, Hooks
  <2> QED
    BY <2>2
<1> QED
  BY <1>2, <1>3 DEF Lined, Kind

LEMMA RefusalKeeps ==
  ASSUME HInv, NEW i \in Installation, InstallRefused(i)
  PROVE  HInv'
<1>1. /\ i \notin holding \cup restored /\ restored' = restored \cup {i}
      /\ UNCHANGED <<hook, previous, holding, replaced, placed, disturbed>>
  BY DEF InstallRefused
<1>2. \A k \in Kind : hook[k] # i
  BY <1>1 DEF HInv, Unfound
<1>3. Lined'
  BY <1>1, LinedKept DEF HInv
<1>4. HooksTyped' /\ PlacedOnce' /\ Unfound' /\ EndedGone'
  BY <1>1, <1>2 DEF HInv, HooksTyped, PlacedOnce, Unfound, EndedGone, Kind, Hooks,
                    Covered
<1> QED
  BY <1>3, <1>4 DEF HInv

LEMMA ReplaceKeeps ==
  ASSUME HInv, HooksDistinct, NEW p \in ThirdParty, NEW kind \in Kind, Replace(p, kind)
  PROVE  HInv'
<1>1. /\ p \notin DOMAIN replaced /\ UNCHANGED <<previous, holding, restored, disturbed>>
      /\ DOMAIN replaced' = DOMAIN replaced \cup {p}
      /\ replaced'[p].kind = kind /\ replaced'[p].found = hook[kind]
      /\ \A q \in DOMAIN replaced : replaced'[q] = replaced[q]
      /\ hook' = [hook EXCEPT ![kind] = p]
      /\ placed' = [placed EXCEPT ![kind] = Append(placed[kind], p)]
  BY DEF Replace
<1>2. HooksTyped /\ PlacedOnce /\ Unfound /\ EndedGone
  BY DEF HInv
<1>3. p \in Hooks /\ p \notin Installation
  BY HooksDistinct DEF Hooks, HooksDistinct
<1>4. /\ hook'[kind] = p /\ placed'[kind] = Append(placed[kind], p)
      /\ \A k \in Kind \ {kind} : hook'[k] = hook[k] /\ placed'[k] = placed[k]
  BY <1>1, <1>2 DEF HooksTyped
<1>5. HooksTyped'
  <2>1. placed' \in [Kind -> Seq(Hooks)] /\ hook' \in [Kind -> Hooks]
    BY <1>1, <1>2, <1>3 DEF HooksTyped
  <2> QED
    BY <1>1, <1>2, <1>3, <2>1 DEF HooksTyped, Kind, Hooks
<1>6. PlacedOnce'
  <2>1. ASSUME NEW k \in Kind, NEW n \in DOMAIN placed'[k]
        PROVE  /\ \/ placed'[k][n] \in holding /\ k \in Covered(placed'[k][n])
                  \/ placed'[k][n] \in DOMAIN replaced' /\ replaced'[placed'[k][n]].kind = k
               /\ \A m \in DOMAIN placed'[k] : placed'[k][m] = placed'[k][n] => m = n
    <3>1. placed[k] \in Seq(Hooks) /\ \A m \in DOMAIN placed[k] : placed[k][m] # p
      BY <1>1, <1>2, <1>3 DEF HooksTyped, PlacedOnce
    <3>2. ASSUME NEW m \in DOMAIN placed[k]
          PROVE  /\ \/ placed[k][m] \in holding /\ k \in Covered(placed[k][m])
                    \/ placed[k][m] \in DOMAIN replaced' /\ replaced'[placed[k][m]].kind = k
                 /\ \A j \in DOMAIN placed[k] : placed[k][j] = placed[k][m] => j = m
      BY <1>1, <1>2 DEF PlacedOnce
    <3>3. CASE k # kind
      BY <1>4, <2>1, <3>2, <3>3
    <3>4. CASE k = kind
      <4>1. /\ Len(placed[k]) \in Nat /\ DOMAIN placed[k] = 1 .. Len(placed[k])
            /\ DOMAIN placed'[k] = 1 .. Len(placed[k]) + 1
            /\ placed'[k][Len(placed[k]) + 1] = p
            /\ \A m \in DOMAIN placed[k] : placed'[k][m] = placed[k][m]
        BY <1>4, <3>1, <3>4
      <4>2. CASE n = Len(placed[k]) + 1
        BY <1>1, <3>1, <3>4, <4>1, <4>2
      <4>3. CASE n \in DOMAIN placed[k]
        BY <3>1, <3>2, <4>1, <4>3
      <4> QED
        BY <2>1, <4>1, <4>2, <4>3
    <3> QED
      BY <3>3, <3>4
  <2> QED
    BY <1>1, <2>1 DEF PlacedOnce, Kind, Covered
<1>7. Unfound'
  BY <1>1, <1>2, <1>3, <1>4 DEF Unfound, Kind
<1>8. EndedGone'
  BY <1>1, <1>2, <1>3, <1>4 DEF EndedGone, HooksTyped, Kind
<1> QED
  BY <1>5, <1>6, <1>7, <1>8, ReplaceLines DEF HInv

LEMMA GiveBackKeeps ==
  ASSUME HInv, HooksDistinct, NEW p \in ThirdParty, GiveBack(p)
  PROVE  HInv'
<1> DEFINE kind == replaced[p].kind
<1>1. /\ p \in DOMAIN replaced /\ kind \in Kind
      /\ UNCHANGED <<previous, holding, restored, replaced>>
      /\ hook' = [hook EXCEPT ![kind] = replaced[p].found]
      /\ placed' = [placed EXCEPT ![kind] = RemoveFirst(placed[kind], p)]
      /\ disturbed' = disturbed \cup {kind}
  BY DEF GiveBack, HInv, HooksTyped
<1>2. HooksTyped /\ PlacedOnce /\ Unfound /\ EndedGone
  BY DEF HInv
<1> HIDE DEF kind
<1>3. /\ hook'[kind] = replaced[p].found /\ replaced[p].found \in Hooks
      /\ placed'[kind] = RemoveFirst(placed[kind], p)
      /\ \A k \in Kind \ {kind} : hook'[k] = hook[k] /\ placed'[k] = placed[k]
  BY <1>1, <1>2 DEF HooksTyped
<1>4. /\ placed'[kind] \in Seq(Hooks)
      /\ \A n \in DOMAIN placed'[kind] :
           /\ \E m \in DOMAIN placed[kind] : placed'[kind][n] = placed[kind][m]
           /\ \A m \in DOMAIN placed'[kind] : placed'[kind][m] = placed'[kind][n] => m = n
  <2> DEFINE rest == RemoveFirst(placed[kind], p)
  <2>1. /\ rest \in Seq(Hooks)
        /\ \A n \in DOMAIN rest :
             /\ \E m \in DOMAIN placed[kind] : rest[n] = placed[kind][m]
             /\ \A m \in DOMAIN rest : rest[m] = rest[n] => m = n
    BY <1>1, RemovalKeepsLine
  <2> HIDE DEF rest
  <2>2. placed'[kind] = rest
    BY <1>3 DEF rest
  <2> QED
    BY <2>1, <2>2
<1>5. HooksTyped'
  <2>1. placed' \in [Kind -> Seq(Hooks)] /\ hook' \in [Kind -> Hooks]
    BY <1>1, <1>2, <1>3, <1>4 DEF HooksTyped
  <2> QED
    BY <1>1, <1>2, <2>1 DEF HooksTyped, Kind, Hooks
<1>6. PlacedOnce'
  <2>1. ASSUME NEW k \in Kind, NEW n \in DOMAIN placed'[k]
        PROVE  /\ \/ placed'[k][n] \in holding /\ k \in Covered(placed'[k][n])
                  \/ placed'[k][n] \in DOMAIN replaced /\ replaced[placed'[k][n]].kind = k
               /\ \A m \in DOMAIN placed'[k] : placed'[k][m] = placed'[k][n] => m = n
    <3>1. CASE k # kind
      <4>1. placed'[k] = placed[k]
        BY <1>3, <3>1
      <4> QED
        BY <1>2, <2>1, <4>1 DEF PlacedOnce
    <3>2. CASE k = kind
      <4>1. PICK m \in DOMAIN placed[k] : placed'[k][n] = placed[k][m]
        BY <1>4, <2>1, <3>2
      <4>2. \/ placed[k][m] \in holding /\ k \in Covered(placed[k][m])
            \/ placed[k][m] \in DOMAIN replaced /\ replaced[placed[k][m]].kind = k
        BY <1>2 DEF PlacedOnce
      <4>3. \A j \in DOMAIN placed'[k] : placed'[k][j] = placed'[k][n] => j = n
        BY <1>4, <2>1, <3>2
      <4> QED
        BY <4>1, <4>2, <4>3
    <3> QED
      BY <3>1, <3>2
  <2> QED
    BY <1>1, <2>1 DEF PlacedOnce, Kind, Covered
<1>7. Unfound'
  <2>1. ASSUME NEW j \in Installation \ (holding \cup restored), NEW k \in Kind
        PROVE  hook'[k] # j
    BY <1>1, <1>2, <1>3, <2>1 DEF Unfound
  <2> QED
    BY <1>1, <1>2, <2>1 DEF Unfound, Kind
<1>8. EndedGone'
  <2>1. ASSUME NEW k \in Kind \ disturbed'
        PROVE  hook'[k] \notin restored
    BY <1>1, <1>2, <1>3, <2>1 DEF EndedGone
  <2> QED
    BY <1>1, <2>1 DEF EndedGone, Kind
<1> QED
  BY <1>5, <1>6, <1>7, <1>8, GiveBackLines DEF HInv

LEMMA HStepKeeps ==
  ASSUME HooksDistinct
  PROVE  HInv /\ [HookNext]_hookVars => HInv'
<1> SUFFICES ASSUME HInv, [HookNext]_hookVars
             PROVE  HInv'
  OBVIOUS
<1>1. ASSUME NEW i \in Installation,
             Install(i) \/ InstallRefused(i) \/ RestoreHook(i) \/ RestoreRefused(i)
      PROVE  HInv'
  BY <1>1, InstallKeeps, RefusalKeeps, RestoreKeeps
<1>2. ASSUME NEW p \in ThirdParty, GiveBack(p)
      PROVE  HInv'
  BY <1>2, GiveBackKeeps
<1>3. ASSUME NEW p \in ThirdParty, NEW k \in Kind, Replace(p, k)
      PROVE  HInv'
  BY <1>3, ReplaceKeeps
<1>4. CASE UNCHANGED hookVars
  <2>1. UNCHANGED <<hook, previous, holding, restored, replaced, placed, disturbed>>
    BY <1>4 DEF hookVars
  <2>2. Lined'
    BY <2>1, LinedKept DEF HInv
  <2>3. HooksTyped' /\ PlacedOnce' /\ Unfound' /\ EndedGone'
    BY <2>1 DEF HInv, HooksTyped, PlacedOnce, Unfound, EndedGone, Kind, Hooks, Covered
  <2> QED
    BY <2>2, <2>3 DEF HInv
<1> QED
  BY <1>1, <1>2, <1>3, <1>4 DEF HookNext

LEMMA LineReports ==
  ASSUME HooksDistinct
  PROVE  HInv => HookInPlace
<1> SUFFICES ASSUME HInv, NEW k \in Kind
             PROVE  Reporter(k) = Newest(k) /\ (k \notin disturbed => hook[k] \notin restored)
  BY DEF HookInPlace
<1>1. PICK age, f : Ages(age) /\ Leads(f, k, age) /\ HooksLine(f, k)
  BY DEF HInv, Lined
<1>2. Reporter(k) = f[hook[k]]
  BY <1>1, SelectsPassing DEF Reporter, Leads, HInv
<1>3. Newest(k) = Top(placed[k])
  BY DEF Newest, Last, Top
<1> QED
  BY <1>1, <1>2, <1>3 DEF HooksLine, HInv, EndedGone

\* In whatever order installations end, are refused or are refused their end, and
\* whatever third parties replace and give back in between, an uncaught failure
\* reaches the newest hook whose owner has not ended (exception_hook_installation.py:78).
THEOREM HooksStayInPlace ==
  ASSUME HooksDistinct
  PROVE  HookSpec => []HookInPlace
<1>1. HookInit => HInv
  BY HInitHolds
<1>2. HInv /\ [HookNext]_hookVars => HInv'
  BY HStepKeeps
<1>3. HInv => HookInPlace
  BY LineReports
<1> QED
  BY <1>1, <1>2, <1>3, PTL DEF HookSpec
============================================================================
