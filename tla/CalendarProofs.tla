--------------------------- MODULE CalendarProofs ---------------------------
(***************************************************************************)
(* For every set of callers, calendars, loader scripts and load tasks: no  *)
(* calendar is loaded by two tasks at a time, load tasks wait for each     *)
(* other in a circle only where two callers met, and a retirement removes  *)
(* everything that builds on the retired calendar.                         *)
(*                                                                         *)
(* The tasks a caller began, its chain, are a line: each but the deepest   *)
(* waits for the next, and the path of each is a prefix of the next one's. *)
(* So the deepest sees the whole line in its path and refuses a circle     *)
(* that closes on its own chain.                                           *)
(***************************************************************************)
EXTENDS NamedCalendars, TLAPS, WellFoundedInduction

Fallbacks == Ids \cup {"none", "own"}
LoadRecords == [state : {"blank", "running"}, id : Ids, path : Seq(Ids), loader : Nat,
                script : Seq(Requests), chain : 0..LoadCount]
UseRecords == [waits : 0..LoadCount, wake : Results, fallback : Fallbacks,
               outcomes : Seq(Results)]
Retirements == [state : {"idle", "inspecting"}, id : Ids, replacement : SUBSET Replacements,
                removed : SUBSET Ids, todo : SUBSET (Ids \X Calendars), changed : BOOLEAN]

TablesTyped ==
  /\ DOMAIN cached \subseteq Ids
  /\ cached \in [DOMAIN cached -> Calendars]
  /\ retirement \in Retirements
  /\ stable \subseteq Ids

WorkTyped ==
  /\ DOMAIN flights \subseteq Ids
  /\ flights \in [DOMAIN flights -> LoadTasks]
  /\ loads \in [LoadTasks -> LoadRecords]
  /\ uses \in [Clients -> UseRecords]

\* A flight is registered exactly while its task runs.
Registered ==
  /\ \A n \in LoadTasks :
       Running(n) => loads[n].id \in DOMAIN flights /\ flights[loads[n].id] = n
  /\ \A i \in DOMAIN flights : Running(flights[i]) /\ loads[flights[i]].id = i

\* Nobody waits for a task that has ended, and a task that has ended asks nothing.
WaitsRun ==
  /\ \A c \in Clients :
       uses[c].waits # NoTask => uses[c].wake = Nothing /\ Running(uses[c].waits)
  /\ \A n \in LoadTasks : ~Running(n) => uses[n] = NotAsking

Depth(n) == Len(loads[n].path)
SameChain(m, n) == loads[m].chain = loads[n].chain
Waiting(n) == uses[n].waits # NoTask

\* A path ends with what its task loads, and a chain has its head while it has a task.
PathsHeaded ==
  \A n \in LoadTasks : Running(n) =>
    /\ Depth(n) >= 1
    /\ loads[n].path[Depth(n)] = loads[n].id
    /\ loads[n].chain \in LoadTasks
    /\ Running(loads[n].chain)
    /\ loads[loads[n].chain].chain = loads[n].chain
    /\ Depth(loads[n].chain) = 1

\* Within a chain a task waits for the next one only ...
WaitsDescend ==
  \A n \in LoadTasks :
    Running(n) /\ Waiting(n) /\ SameChain(uses[n].waits, n)
      => Depth(uses[n].waits) = Depth(n) + 1

\* ... and all but the deepest do.
Above(m, n) ==
  /\ \A k \in 1..Depth(m) : loads[m].path[k] = loads[n].path[k]
  /\ Waiting(m)
  /\ SameChain(uses[m].waits, m)
ChainsLine ==
  \A m, n \in LoadTasks :
    Running(m) /\ Running(n) /\ SameChain(m, n) /\ m # n =>
      /\ Depth(m) # Depth(n)
      /\ Depth(m) < Depth(n) => Above(m, n)

WorkInv == WorkTyped /\ Registered /\ WaitsRun /\ PathsHeaded /\ WaitsDescend /\ ChainsLine
IInv == TablesTyped /\ WorkInv

-----------------------------------------------------------------------------
\* Numbers.

\* A set of natural numbers has a least element.
LEMMA LeastNumber ==
  ASSUME NEW S \in SUBSET Nat, S # {}
  PROVE  \E n \in S : \A m \in S : n <= m
<1>1. PICK n \in S : \A m \in S : ~(<<m, n>> \in OpToRel(<, Nat))
  BY NatLessThanWellFounded, WFMin
<1>2. ASSUME NEW m \in S
      PROVE  n <= m
  <2>1. m \in Nat /\ n \in Nat
    OBVIOUS
  <2>2. ~(m < n)
    BY <1>1, <2>1 DEF OpToRel
  <2> QED
    BY <2>1, <2>2
<1> QED
  BY <1>2

\* Finitely many natural numbers have a bound.
LEMMA Bounded ==
  ASSUME NEW n \in Nat, NEW f \in [1..n -> Nat]
  PROVE  \E b \in Nat : \A k \in 1..n : f[k] <= b
<1> DEFINE HasBound(k) == \E b \in Nat : \A j \in 1..k : f[j] <= b
           unbounded == {k \in 0..n : ~HasBound(k)}
<1>1. SUFFICES ASSUME unbounded # {}
               PROVE  FALSE
  <2>1. n \in 0..n
    OBVIOUS
  <2> QED
    BY <2>1
<1>2. PICK k \in unbounded : \A j \in unbounded : k <= j
  <2>1. unbounded \in SUBSET Nat
    OBVIOUS
  <2> HIDE DEF unbounded
  <2> QED
    BY <1>1, <2>1, LeastNumber
<1>3. HasBound(0)
  <2>1. \A j \in 1..0 : f[j] <= 0
    OBVIOUS
  <2> QED
    BY <2>1
<1>4. k \in 1..n /\ k - 1 \in 0..n /\ ~HasBound(k)
  BY <1>3
<1>5. PICK b \in Nat : \A j \in 1..(k - 1) : f[j] <= b
  <2>1. k - 1 \notin unbounded
    <3> HIDE DEF unbounded
    <3> QED
      BY <1>2, <1>4
  <2> QED
    BY <1>4, <2>1
<1>6. \A j \in 1..k : f[j] <= b + f[k]
  <2>1. f[k] \in Nat /\ \A j \in 1..k : f[j] \in Nat
    BY <1>4
  <2> QED
    BY <1>4, <1>5, <2>1
<1> QED
  <2>1. b + f[k] \in Nat
    BY <1>4
  <2> QED
    BY <1>4, <1>6, <2>1

LEMMA FreeTask ==
  ASSUME NEW t \in LoadTasks, ~Running(t)
  PROVE  NextFree \in LoadTasks /\ ~Running(NextFree)
<1> DEFINE free == {n \in LoadTasks : ~Running(n)}
<1>1. free \in SUBSET Nat /\ free # {}
  BY TasksAssumption DEF LoadTasks
<1>2. \E n \in free : \A m \in free : n <= m
  <2> HIDE DEF free
  <2> QED
    BY <1>1, LeastNumber
<1> QED
  BY <1>2 DEF NextFree

-----------------------------------------------------------------------------
\* What the pieces of a step do to the tables.

LEMMA NothingTyped ==
  /\ Nothing \in Results /\ Declined \in Results /\ Failed \in Results /\ Cancelled \in Results
  /\ \A calendar \in Calendars : Found(calendar) \in Results
BY DEF Nothing, Declined, Failed, Cancelled, Found, Results

LEMMA NotAskingTyped ==
  /\ NotAsking \in UseRecords
  /\ NotAsking.waits = NoTask
  /\ NotAsking.wake = Nothing
  /\ NotAsking.outcomes = << >>
BY NothingTyped, TasksAssumption DEF NotAsking, UseRecords, NoTask, Fallbacks

LEMMA NoLoadTyped ==
  /\ NoLoad \in LoadRecords
  /\ NoLoad.state = "blank"
<1>1. (CHOOSE i \in Ids : TRUE) \in Ids
  BY RequestsAssumption
<1> QED
  BY <1>1, TasksAssumption DEF NoLoad, LoadRecords, NoTask

LEMMA AnswerGives ==
  ASSUME WorkTyped, NEW c \in Clients, NEW outcome \in Results, Answer(c, outcome)
  PROVE  /\ uses' \in [Clients -> UseRecords]
         /\ uses'[c].waits = NoTask /\ uses'[c].wake = Nothing
         /\ \A d \in Clients \ {c} : uses'[d] = uses[d]
<1> DEFINE told == [NotAsking EXCEPT !.outcomes = Append(uses[c].outcomes, outcome)]
<1>1. told \in UseRecords /\ told.waits = NoTask /\ told.wake = Nothing
  <2>1. Append(uses[c].outcomes, outcome) \in Seq(Results)
    BY DEF WorkTyped, UseRecords
  <2> QED
    BY <2>1, NotAskingTyped DEF UseRecords
<1>2. uses' = [uses EXCEPT ![c] = IF c \in Callers THEN NotAsking ELSE told]
  BY DEF Answer
<1> HIDE DEF told
<1> QED
  BY <1>1, <1>2, NotAskingTyped DEF WorkTyped

LEMMA UseChanged ==
  ASSUME NEW use \in UseRecords
  PROVE  /\ \A n \in 0..LoadCount : LET changed == [use EXCEPT !.waits = n] IN
              changed \in UseRecords /\ changed.waits = n /\ changed.wake = use.wake
         /\ \A result \in Results : LET changed == [use EXCEPT !.wake = result] IN
              changed \in UseRecords /\ changed.wake = result /\ changed.waits = use.waits
         /\ \A name \in Fallbacks : LET changed == [use EXCEPT !.fallback = name] IN
              changed \in UseRecords /\ changed.wake = use.wake /\ changed.waits = use.waits
BY DEF UseRecords

LEMMA AwaitGives ==
  ASSUME WorkTyped, NEW c \in Clients, NEW n \in LoadTasks, NEW fallback \in Fallbacks,
         Await(c, n, fallback)
  PROVE  /\ uses' \in [Clients -> UseRecords]
         /\ uses'[c].waits = n /\ uses'[c].wake = Nothing
         /\ \A d \in Clients \ {c} : uses'[d] = uses[d]
<1> DEFINE first == [uses[c] EXCEPT !.waits = n]
           second == [first EXCEPT !.wake = Nothing]
           awaits == [second EXCEPT !.fallback = fallback]
<1>1. awaits \in UseRecords /\ awaits.waits = n /\ awaits.wake = Nothing
  <2>1. uses[c] \in UseRecords /\ n \in 0..LoadCount /\ Nothing \in Results
    BY NothingTyped DEF WorkTyped, LoadTasks
  <2>2. first \in UseRecords /\ first.waits = n
    BY <2>1, UseChanged
  <2> HIDE DEF first
  <2>3. second \in UseRecords /\ second.waits = n /\ second.wake = Nothing
    BY <2>1, <2>2, UseChanged
  <2> HIDE DEF second
  <2> QED
    BY <2>3, UseChanged
<1>2. uses' = [uses EXCEPT ![c] = awaits]
  BY DEF Await, WorkTyped
<1> HIDE DEF awaits
<1> QED
  BY <1>1, <1>2 DEF WorkTyped

LEMMA Restricted ==
  ASSUME NEW f, NEW S
  PROVE  /\ DOMAIN Restrict(f, S) = S
         /\ \A j \in S : Restrict(f, S)[j] = f[j]
         /\ Restrict(f, S) = [j \in S |-> f[j]]
BY DEF Restrict

\* A new task: it extends the path of who asks and joins the chain, or heads one.
LEMMA SpawnGives ==
  ASSUME WorkTyped, NEW c \in Clients, NEW i \in Ids, Spawn(c, i)
  PROVE  /\ NextFree \in LoadTasks /\ ~Running(NextFree)
         /\ loads' \in [LoadTasks -> LoadRecords]
         /\ loads'[NextFree].state = "running"
         /\ loads'[NextFree].id = i
         /\ loads'[NextFree].path = Append(ActivePath(c), i)
         /\ loads'[NextFree].chain = IF c \in Callers THEN NextFree ELSE loads[c].chain
         /\ \A n \in LoadTasks \ {NextFree} : loads'[n] = loads[n]
         /\ DOMAIN flights' = DOMAIN flights \cup {i}
         /\ flights' \in [DOMAIN flights' -> LoadTasks]
         /\ flights'[i] = NextFree
         /\ \A j \in DOMAIN flights \ {i} : flights'[j] = flights[j]
<1>1. NextFree \in LoadTasks /\ ~Running(NextFree)
  <2>1. PICK t \in LoadTasks : ~Running(t)
    BY DEF Spawn
  <2> QED
    BY <2>1, FreeTask
<1> DEFINE chain == IF c \in Callers THEN NextFree ELSE loads[c].chain
           Born(script) == [NoLoad EXCEPT !.state = "running", !.id = i, !.script = script,
                                          !.path = Append(ActivePath(c), i), !.chain = chain]
<1>2. Append(ActivePath(c), i) \in Seq(Ids)
  <2>1. ActivePath(c) \in Seq(Ids)
    BY DEF ActivePath, Clients, WorkTyped, LoadRecords
  <2> QED
    BY <2>1
<1>3. chain \in 0..LoadCount
  BY <1>1, TasksAssumption DEF Clients, WorkTyped, LoadRecords, LoadTasks
<1>4. PICK script \in Scripts[i] : loads' = [loads EXCEPT ![NextFree] = Born(script)]
  BY DEF Spawn
<1>5. script \in Seq(Requests)
  BY RequestsAssumption
<1>6. /\ Born(script) \in LoadRecords
      /\ Born(script).state = "running" /\ Born(script).id = i
      /\ Born(script).path = Append(ActivePath(c), i) /\ Born(script).chain = chain
  <2> DEFINE path == Append(ActivePath(c), i)
  <2> HIDE DEF path, chain
  <2>1. (CHOOSE j \in Ids : TRUE) \in Ids
    BY RequestsAssumption
  <2> QED
    BY <1>2, <1>3, <1>5, <2>1 DEF NoLoad, LoadRecords, path
<1> HIDE DEF Born, chain
<1>7. /\ loads' \in [LoadTasks -> LoadRecords]
      /\ loads'[NextFree] = Born(script)
      /\ \A n \in LoadTasks \ {NextFree} : loads'[n] = loads[n]
  BY <1>1, <1>4, <1>6 DEF WorkTyped
<1>8. flights' = Put(flights, i, NextFree)
  BY DEF Spawn
<1>9. /\ DOMAIN flights' = DOMAIN flights \cup {i}
      /\ flights'[i] = NextFree
      /\ \A j \in DOMAIN flights \ {i} : flights'[j] = flights[j]
  BY <1>8 DEF Put
<1>10. flights' \in [DOMAIN flights' -> LoadTasks]
  BY <1>1, <1>8 DEF WorkTyped, Put
<1> QED
  BY <1>1, <1>6, <1>7, <1>9, <1>10 DEF chain

\* A task that ends: its flight is forgotten and everybody who waits is woken.
LEMMA EndGives ==
  ASSUME WorkTyped, Registered, NEW n \in LoadTasks, Running(n), NEW result \in Results,
         End(n, result)
  PROVE  /\ loads' \in [LoadTasks -> LoadRecords]
         /\ ~Running(n)'
         /\ \A m \in LoadTasks \ {n} : loads'[m] = loads[m]
         /\ DOMAIN flights' = DOMAIN flights \ {loads[n].id}
         /\ flights' \in [DOMAIN flights' -> LoadTasks]
         /\ \A i \in DOMAIN flights' : flights'[i] = flights[i]
         /\ uses' \in [Clients -> UseRecords]
         /\ uses'[n] = NotAsking
         /\ \A c \in Clients \ {n} : uses[c].waits = n => uses'[c].waits = NoTask
         /\ \A c \in Clients \ {n} : uses[c].waits # n => uses'[c] = uses[c]
<1>1. /\ loads' \in [LoadTasks -> LoadRecords]
      /\ ~Running(n)'
      /\ \A m \in LoadTasks \ {n} : loads'[m] = loads[m]
  BY NoLoadTyped DEF End, WorkTyped, Running
<1>2. {i \in DOMAIN flights : ~(i = loads[n].id /\ flights[i] = n)} = DOMAIN flights \ {loads[n].id}
  BY DEF Registered
<1>3. flights' = Restrict(flights, DOMAIN flights \ {loads[n].id})
  BY <1>2 DEF End, FlightsWithout
<1>4. /\ DOMAIN flights' = DOMAIN flights \ {loads[n].id}
      /\ flights' \in [DOMAIN flights' -> LoadTasks]
      /\ \A i \in DOMAIN flights' : flights'[i] = flights[i]
  BY <1>3, Restricted DEF WorkTyped
<1> DEFINE Woken(c) == [uses[c] EXCEPT !.waits = NoTask, !.wake = result]
<1>5. ASSUME NEW c \in Clients
      PROVE  Woken(c) \in UseRecords /\ Woken(c).waits = NoTask
  <2> DEFINE first == [uses[c] EXCEPT !.waits = NoTask]
             second == [first EXCEPT !.wake = result]
  <2>1. uses[c] \in UseRecords /\ NoTask \in 0..LoadCount
    BY TasksAssumption DEF WorkTyped, NoTask
  <2>2. first \in UseRecords /\ first.waits = NoTask
    BY <2>1, UseChanged
  <2> HIDE DEF first
  <2>3. second \in UseRecords /\ second.waits = NoTask
    BY <2>2, UseChanged
  <2> QED
    BY <2>3 DEF first
<1> HIDE DEF Woken
<1>6. uses' = [c \in Clients |-> IF c = n THEN NotAsking
                                 ELSE IF uses[c].waits = n THEN Woken(c) ELSE uses[c]]
  BY DEF End, Resolved, Woken
<1>7. n \in Clients
  BY DEF Clients
<1>8. /\ uses' \in [Clients -> UseRecords]
      /\ uses'[n] = NotAsking
      /\ \A c \in Clients \ {n} : uses[c].waits = n => uses'[c].waits = NoTask
      /\ \A c \in Clients \ {n} : uses[c].waits # n => uses'[c] = uses[c]
  BY <1>5, <1>6, <1>7, NotAskingTyped DEF WorkTyped
<1> QED
  BY <1>1, <1>4, <1>8

-----------------------------------------------------------------------------
\* The shapes of a step preserve the invariant of the work in progress.

\* A client is told the outcome of its call, or gives the call up.
LEMMA AnsweringKeeps ==
  ASSUME WorkInv, NEW c \in Clients, NEW outcome \in Results, Answer(c, outcome),
         UNCHANGED <<loads, flights>>,
         c \in LoadTasks => Running(c) /\ ~Waiting(c)
  PROVE  WorkInv'
<1>1. /\ uses' \in [Clients -> UseRecords]
      /\ uses'[c].waits = NoTask /\ uses'[c].wake = Nothing
      /\ \A d \in Clients \ {c} : uses'[d] = uses[d]
  BY AnswerGives DEF WorkInv
<1>2. WorkTyped' /\ Registered' /\ PathsHeaded'
  BY <1>1 DEF WorkInv, WorkTyped, Registered, PathsHeaded, Running, Depth
<1>3. WaitsRun'
  <2>1. ASSUME NEW d \in Clients, uses'[d].waits # NoTask
        PROVE  uses'[d].wake = Nothing /\ Running(uses[d].waits)'
    BY <1>1, <2>1 DEF WorkInv, WaitsRun, Running
  <2>2. ASSUME NEW n \in LoadTasks, ~Running(n)'
        PROVE  uses'[n] = NotAsking
    <3>1. ~Running(n) /\ n # c /\ n \in Clients
      BY <2>2 DEF Running, Clients
    <3> QED
      BY <1>1, <3>1 DEF WorkInv, WaitsRun
  <2> QED
    BY <2>1, <2>2 DEF WaitsRun
<1>4. \A n \in LoadTasks : Waiting(n)' <=> Waiting(n)
  BY <1>1 DEF Waiting, Clients
<1>5. \A n \in LoadTasks : Waiting(n) => uses'[n] = uses[n]
  BY <1>1 DEF Waiting, Clients
<1>6. WaitsDescend'
  BY <1>4, <1>5 DEF WorkInv, WaitsDescend, Running, SameChain, Depth
<1>7. ChainsLine'
  BY <1>4, <1>5 DEF WorkInv, ChainsLine, Above, Running, SameChain, Depth
<1> QED
  BY <1>2, <1>3, <1>6, <1>7 DEF WorkInv

\* The deepest task of a chain is the only one that does not wait for another of it.
LEMMA OnlyDeepestRuns ==
  ASSUME WorkInv, NEW n \in LoadTasks, Running(n), ~Waiting(n),
         NEW m \in LoadTasks, Running(m), SameChain(m, n), m # n
  PROVE  Depth(m) < Depth(n) /\ Above(m, n)
<1>1. Depth(m) \in Nat /\ Depth(n) \in Nat
  BY DEF Depth, WorkInv, WorkTyped, LoadRecords
<1>2. Depth(m) # Depth(n)
  BY DEF WorkInv, ChainsLine
<1>3. ~(Depth(n) < Depth(m))
  <2>1. SameChain(n, m)
    BY DEF SameChain
  <2> QED
    BY <2>1 DEF WorkInv, ChainsLine, Above
<1>4. Depth(m) < Depth(n)
  BY <1>1, <1>2, <1>3
<1> QED
  BY <1>4 DEF WorkInv, ChainsLine

\* A client joins a flight; a loader's own chain has none of a calendar not in its path.
LEMMA JoiningKeeps ==
  ASSUME WorkInv, NEW c \in Clients, NEW i \in DOMAIN flights, NEW fallback \in Fallbacks,
         Await(c, flights[i], fallback), UNCHANGED <<loads, flights>>,
         c \in LoadTasks => /\ Running(c) /\ ~Waiting(c)
                            /\ \A k \in 1..Depth(c) : loads[c].path[k] # i
  PROVE  WorkInv'
<1> DEFINE t == flights[i]
<1>1. t \in LoadTasks /\ Running(t) /\ loads[t].id = i
  BY DEF WorkInv, WorkTyped, Registered
<1>2. /\ uses' \in [Clients -> UseRecords]
      /\ uses'[c].waits = t /\ uses'[c].wake = Nothing
      /\ \A d \in Clients \ {c} : uses'[d] = uses[d]
  BY <1>1, AwaitGives DEF WorkInv
<1> HIDE DEF t
<1>3. WorkTyped' /\ Registered' /\ PathsHeaded'
  BY <1>2 DEF WorkInv, WorkTyped, Registered, PathsHeaded, Running, Depth
<1>4. WaitsRun'
  <2>1. ASSUME NEW d \in Clients, uses'[d].waits # NoTask
        PROVE  uses'[d].wake = Nothing /\ Running(uses[d].waits)'
    BY <1>1, <1>2, <2>1 DEF WorkInv, WaitsRun, Running
  <2>2. ASSUME NEW n \in LoadTasks, ~Running(n)'
        PROVE  uses'[n] = NotAsking
    <3>1. ~Running(n) /\ n # c /\ n \in Clients
      BY <2>2 DEF Running, Clients
    <3> QED
      BY <1>2, <3>1 DEF WorkInv, WaitsRun
  <2> QED
    BY <2>1, <2>2 DEF WaitsRun
<1>5. ASSUME c \in LoadTasks
      PROVE  ~SameChain(t, c)
  <2>1. Running(c) /\ ~Waiting(c) /\ \A k \in 1..Depth(c) : loads[c].path[k] # i
    BY <1>5
  <2>2. Depth(c) \in 1..Depth(c) /\ loads[c].path[Depth(c)] = loads[c].id
    BY <1>5, <2>1 DEF WorkInv, PathsHeaded, Depth, WorkTyped, LoadRecords
  <2>3. t # c
    BY <1>1, <2>1, <2>2
  <2>4. ASSUME SameChain(t, c)
        PROVE  FALSE
    <3>1. Depth(t) < Depth(c) /\ Above(t, c)
      BY <1>1, <1>5, <2>1, <2>3, <2>4, OnlyDeepestRuns
    <3>2. Depth(t) \in 1..Depth(t) /\ Depth(t) \in 1..Depth(c) /\ loads[t].path[Depth(t)] = i
      BY SMTT(30), <1>1, <1>5, <3>1 DEF WorkInv, PathsHeaded, Depth, WorkTyped, LoadRecords
    <3> QED
      BY <2>1, <3>1, <3>2 DEF Above
  <2> QED
    BY <2>4
<1>6. WaitsDescend'
  <2>1. ASSUME NEW n \in LoadTasks, Running(n), Waiting(n)', SameChain(uses'[n].waits, n)
        PROVE  Depth(uses'[n].waits) = Depth(n) + 1
    <3>1. n # c
      BY <1>2, <1>5, <2>1
    <3>2. uses'[n] = uses[n]
      BY <1>2, <3>1 DEF Clients
    <3> QED
      BY <2>1, <3>2 DEF WorkInv, WaitsDescend, Waiting
  <2> QED
    BY <2>1 DEF WaitsDescend, Running, SameChain, Depth
<1>7. ChainsLine'
  <2>1. ASSUME NEW m \in LoadTasks, NEW n \in LoadTasks,
               Running(m), Running(n), SameChain(m, n), m # n
        PROVE  /\ Depth(m) # Depth(n)
               /\ Depth(m) < Depth(n) => Above(m, n) /\ uses'[m] = uses[m]
    <3>1. /\ Depth(m) # Depth(n)
          /\ Depth(m) < Depth(n) => Above(m, n)
      BY <2>1 DEF WorkInv, ChainsLine
    <3>2. Above(m, n) => m # c
      BY DEF Above
    <3> QED
      BY <1>2, <3>1, <3>2 DEF Clients
  <2> QED
    BY <2>1 DEF ChainsLine, Above, Running, SameChain, Depth, Waiting
<1> QED
  BY <1>3, <1>4, <1>6, <1>7 DEF WorkInv

\* A client begins a load: a new chain, or the next task of the loader's own.
LEMMA SpawningKeeps ==
  ASSUME WorkInv, NEW c \in Clients, NEW i \in Ids, i \notin DOMAIN flights,
         NEW fallback \in Fallbacks, Spawn(c, i), Await(c, NextFree, fallback),
         c \in LoadTasks => Running(c) /\ ~Waiting(c)
  PROVE  WorkInv'
<1>0. PICK k \in LoadTasks : k = NextFree
  BY SpawnGives DEF WorkInv
<1>1. /\ k \in LoadTasks /\ ~Running(k)
      /\ loads' \in [LoadTasks -> LoadRecords]
      /\ Running(k)'
      /\ loads'[k].id = i
      /\ loads'[k].path = Append(ActivePath(c), i)
      /\ loads'[k].chain = IF c \in Callers THEN k ELSE loads[c].chain
      /\ \A n \in LoadTasks \ {k} : loads'[n] = loads[n]
      /\ DOMAIN flights' = DOMAIN flights \cup {i}
      /\ flights' \in [DOMAIN flights' -> LoadTasks]
      /\ flights'[i] = k
      /\ \A j \in DOMAIN flights \ {i} : flights'[j] = flights[j]
  BY <1>0, SpawnGives DEF WorkInv, Running
<1>2. /\ uses' \in [Clients -> UseRecords]
      /\ uses'[c].waits = k /\ uses'[c].wake = Nothing
      /\ \A d \in Clients \ {c} : uses'[d] = uses[d]
  BY <1>0, <1>1, AwaitGives DEF WorkInv
<1>3. /\ \A n \in LoadTasks \ {k} : Running(n)' <=> Running(n)
      /\ c # k /\ k # NoTask
      /\ uses'[k] = NotAsking
      /\ \A d \in Clients : Waiting(d) => uses[d].waits \in LoadTasks \ {k} /\ Running(uses[d].waits)
  <2>1. \A n \in LoadTasks \ {k} : Running(n)' <=> Running(n)
    BY <1>1 DEF Running
  <2>2. c # k /\ k # NoTask
    BY <1>1, TasksAssumption DEF Clients, LoadTasks, NoTask
  <2>3. uses'[k] = NotAsking
    BY <1>1, <1>2, <2>2 DEF Clients, WorkInv, WaitsRun
  <2>4. ASSUME NEW d \in Clients, Waiting(d)
        PROVE  uses[d].waits \in LoadTasks \ {k} /\ Running(uses[d].waits)
    <3>1. Running(uses[d].waits) /\ uses[d].waits \in 0..LoadCount /\ uses[d].waits # 0
      BY <2>4 DEF WorkInv, WaitsRun, WorkTyped, UseRecords, Waiting, NoTask
    <3>2. uses[d].waits \in LoadTasks
      BY <3>1, TasksAssumption DEF LoadTasks
    <3> QED
      BY <1>1, <3>1, <3>2
  <2> QED
    BY <2>1, <2>2, <2>3, <2>4
<1>4. WorkTyped'
  BY <1>1, <1>2 DEF WorkInv, WorkTyped
<1>5. Registered'
  <2>1. ASSUME NEW n \in LoadTasks, Running(n)'
        PROVE  loads'[n].id \in DOMAIN flights' /\ flights'[loads'[n].id] = n
    BY <1>1, <1>3, <2>1 DEF WorkInv, Registered
  <2>2. ASSUME NEW j \in DOMAIN flights'
        PROVE  Running(flights[j])' /\ loads'[flights'[j]].id = j
    <3>1. CASE j = i
      BY <1>1, <3>1 DEF Running
    <3>2. CASE j # i
      <4>1. /\ j \in DOMAIN flights /\ flights'[j] = flights[j]
            /\ flights[j] \in LoadTasks /\ Running(flights[j]) /\ loads[flights[j]].id = j
        BY <1>1, <3>2 DEF WorkInv, WorkTyped, Registered
      <4> QED
        BY <1>1, <4>1 DEF Running
    <3> QED
      BY <3>1, <3>2
  <2> QED
    BY <2>1, <2>2 DEF Registered
<1>6. WaitsRun'
  <2>1. ASSUME NEW d \in Clients, uses'[d].waits # NoTask
        PROVE  uses'[d].wake = Nothing /\ Running(uses[d].waits)'
    <3>1. CASE d = c
      BY <1>1, <1>2, <3>1 DEF Running
    <3>2. CASE d # c
      <4>1. uses'[d] = uses[d] /\ Waiting(d)
        BY <1>2, <2>1, <3>2 DEF Waiting
      <4>2. uses[d].wake = Nothing /\ uses[d].waits \in LoadTasks \ {k} /\ Running(uses[d].waits)
        BY <1>3, <4>1 DEF WorkInv, WaitsRun, Waiting
      <4> QED
        BY <1>1, <4>1, <4>2 DEF Running
    <3> QED
      BY <3>1, <3>2
  <2>2. ASSUME NEW n \in LoadTasks, ~Running(n)'
        PROVE  uses'[n] = NotAsking
    <3>1. n # k /\ ~Running(n) /\ n # c /\ n \in Clients
      BY <1>1, <1>3, <2>2 DEF Clients
    <3> QED
      BY <1>2, <3>1 DEF WorkInv, WaitsRun
  <2> QED
    BY <2>1, <2>2 DEF WaitsRun
<1>7. /\ \A n \in LoadTasks \ {k} : Depth(n)' = Depth(n)
      /\ \A m, n \in LoadTasks \ {k} : SameChain(m, n)' <=> SameChain(m, n)
      /\ loads'[k].path[Depth(k)'] = i
      /\ c \in Callers => Depth(k)' = 1
      /\ c \in LoadTasks => /\ Depth(k)' = Depth(c) + 1
                            /\ \A j \in 1..Depth(c) : loads'[k].path[j] = loads[c].path[j]
  <2>1. ActivePath(c) \in Seq(Ids)
    BY DEF ActivePath, Clients, WorkInv, WorkTyped, LoadRecords
  <2>2. loads'[k].path = Append(ActivePath(c), i) /\ Depth(k)' = Len(ActivePath(c)) + 1
    BY <1>1, <2>1 DEF Depth
  <2>3. /\ loads'[k].path[Depth(k)'] = i
        /\ \A j \in 1..Len(ActivePath(c)) : loads'[k].path[j] = ActivePath(c)[j]
    BY <2>1, <2>2
  <2>4. c \in Callers => Len(ActivePath(c)) = 0
    BY DEF ActivePath
  <2>5. c \in LoadTasks => Len(ActivePath(c)) = Depth(c) /\ ActivePath(c) = loads[c].path
    BY TasksAssumption DEF ActivePath, Depth
  <2>6. \A n \in LoadTasks \ {k} : Depth(n)' = Depth(n)
    BY <1>1 DEF Depth
  <2>7. \A m, n \in LoadTasks \ {k} : SameChain(m, n)' <=> SameChain(m, n)
    BY <1>1 DEF SameChain
  <2> QED
    BY <2>2, <2>3, <2>4, <2>5, <2>6, <2>7
<1>8. ASSUME NEW m \in LoadTasks \ {k}, Running(m), SameChain(m, k)'
      PROVE  c \in LoadTasks /\ SameChain(m, c)
  <2>1. loads[m].chain \in LoadTasks /\ Running(loads[m].chain) /\ loads[m].chain # k
    BY <1>1, <1>8 DEF WorkInv, PathsHeaded
  <2> QED
    BY <1>1, <1>8, <2>1 DEF SameChain, Clients
<1>9. PathsHeaded'
  <2>1. ASSUME NEW n \in LoadTasks \ {k}, Running(n)
        PROVE  /\ Depth(n)' >= 1
               /\ loads'[n].path[Depth(n)'] = loads'[n].id
               /\ loads'[n].chain = loads[n].chain
               /\ loads[n].chain \in LoadTasks
               /\ Running(loads[n].chain)'
               /\ loads'[loads[n].chain].chain = loads[n].chain
               /\ Depth(loads[n].chain)' = 1
    <3>1. /\ Depth(n) >= 1
          /\ loads[n].path[Depth(n)] = loads[n].id
          /\ loads[n].chain \in LoadTasks
          /\ Running(loads[n].chain)
          /\ loads[loads[n].chain].chain = loads[n].chain
          /\ Depth(loads[n].chain) = 1
      BY <2>1 DEF WorkInv, PathsHeaded
    <3>2. loads[n].chain \in LoadTasks \ {k}
      BY <1>1, <3>1
    <3>3. Running(loads[n].chain)' /\ Depth(loads[n].chain)' = 1
      BY <1>1, <3>1, <3>2 DEF Running, Depth
    <3> QED
      BY <1>1, <1>7, <3>1, <3>2, <3>3
  <2>2. Depth(k)' >= 1 /\ loads'[k].path[Depth(k)'] = loads'[k].id
    <3>1. c \in LoadTasks => Depth(c) \in Nat
      BY DEF Depth, WorkInv, WorkTyped, LoadRecords
    <3> QED
      BY <1>1, <1>7, <3>1 DEF Clients
  <2>3. CASE c \in Callers
    <3>1. loads'[k].chain = k /\ k \in LoadTasks /\ Running(k)' /\ Depth(k)' = 1
      BY <1>1, <1>7, <2>3
    <3>2. Running(loads[k].chain)' /\ Depth(loads[k].chain)' = 1
      BY <3>1 DEF Running, Depth
    <3>3. ASSUME NEW n \in LoadTasks, Running(n)'
          PROVE  /\ Depth(n)' >= 1
                 /\ loads'[n].path[Depth(n)'] = loads'[n].id
                 /\ loads'[n].chain \in LoadTasks
                 /\ Running(loads[n].chain)'
                 /\ loads'[loads'[n].chain].chain = loads'[n].chain
                 /\ Depth(loads[n].chain)' = 1
      <4>1. CASE n = k
        BY <2>2, <3>1, <3>2, <4>1
      <4>2. CASE n # k
        <5>1. n \in LoadTasks \ {k} /\ Running(n)
          BY <1>3, <3>3, <4>2
        <5> QED
          BY <2>1, <5>1 DEF Running, Depth
      <4> QED
        BY <4>1, <4>2
    <3> QED
      BY <3>3 DEF PathsHeaded
  <2>4. CASE c \in LoadTasks
    <3>1. c \in LoadTasks \ {k} /\ Running(c) /\ loads'[k].chain = loads[c].chain
      BY <1>1, <1>3, <2>4, TasksAssumption
    <3>2. /\ loads'[k].chain \in LoadTasks
          /\ Running(loads[k].chain)'
          /\ loads'[loads'[k].chain].chain = loads'[k].chain
          /\ Depth(loads[k].chain)' = 1
      BY <2>1, <3>1 DEF Running, Depth
    <3>3. ASSUME NEW n \in LoadTasks, Running(n)'
          PROVE  /\ Depth(n)' >= 1
                 /\ loads'[n].path[Depth(n)'] = loads'[n].id
                 /\ loads'[n].chain \in LoadTasks
                 /\ Running(loads[n].chain)'
                 /\ loads'[loads'[n].chain].chain = loads'[n].chain
                 /\ Depth(loads[n].chain)' = 1
      <4>1. CASE n = k
        BY <2>2, <3>2, <4>1
      <4>2. CASE n # k
        <5>1. n \in LoadTasks \ {k} /\ Running(n)
          BY <1>3, <3>3, <4>2
        <5> QED
          BY <2>1, <5>1 DEF Running, Depth
      <4> QED
        BY <4>1, <4>2
    <3> QED
      BY <3>3 DEF PathsHeaded
  <2> QED
    BY <2>3, <2>4 DEF Clients
<1>10. WaitsDescend'
  <2>1. ASSUME NEW n \in LoadTasks, Running(n)', Waiting(n)', SameChain(uses[n].waits, n)'
        PROVE  Depth(uses[n].waits)' = Depth(n)' + 1
    <3>1. n # k
      BY <1>3, <2>1, NotAskingTyped DEF Waiting
    <3>2. CASE n = c
      <4>1. uses'[n].waits = k /\ Depth(k)' = Depth(n)' + 1
        BY <1>2, <1>7, <3>1, <3>2
      <4> QED
        BY <4>1 DEF Depth
    <3>3. CASE n # c
      <4>1. uses'[n] = uses[n] /\ Waiting(n) /\ Running(n)
        BY <1>2, <1>3, <2>1, <3>1, <3>3 DEF Clients, Waiting
      <4>2. uses[n].waits \in LoadTasks \ {k}
        BY <1>3, <4>1 DEF Clients
      <4>3. SameChain(uses[n].waits, n)
        BY <1>1, <2>1, <3>1, <4>1, <4>2 DEF SameChain
      <4>4. Depth(uses[n].waits) = Depth(n) + 1
        BY <4>1, <4>3 DEF WorkInv, WaitsDescend
      <4> QED
        BY <1>1, <3>1, <4>1, <4>2, <4>4 DEF Depth
    <3> QED
      BY <3>2, <3>3
  <2> QED
    BY <2>1 DEF WaitsDescend
<1>11. ASSUME NEW m \in LoadTasks \ {k}, NEW n \in LoadTasks, Running(m), Above(m, n), m # c,
              \A j \in 1..Depth(m) : loads[m].path[j] = loads'[n].path[j]
       PROVE  Above(m, n)'
  <2>1. uses'[m] = uses[m] /\ loads'[m] = loads[m] /\ uses[m].waits \in LoadTasks \ {k}
    BY <1>1, <1>2, <1>3, <1>11 DEF Above, Clients
  <2>2. Waiting(m)' /\ SameChain(uses[m].waits, m)'
    BY <1>1, <1>11, <2>1 DEF Above, Waiting, SameChain
  <2>3. \A j \in 1..Depth(m)' : loads'[m].path[j] = loads'[n].path[j]
    BY <1>7, <1>11, <2>1
  <2> QED
    BY <2>2, <2>3 DEF Above
<1>12. ASSUME NEW m \in LoadTasks \ {k}, Running(m), SameChain(m, k)'
       PROVE  Depth(m)' < Depth(k)' /\ Above(m, k)'
  <2>1. c \in LoadTasks /\ SameChain(m, c) /\ Running(c) /\ ~Waiting(c)
    BY <1>8, <1>12
  <2>2. Depth(m) \in Nat /\ Depth(c) \in Nat
    BY <2>1 DEF Depth, WorkInv, WorkTyped, LoadRecords
  <2>3. CASE m = c
    <3>1. Depth(c)' < Depth(k)'
      BY <1>3, <1>7, <2>1, <2>2
    <3>2. \A j \in 1..Depth(c)' : loads'[c].path[j] = loads'[k].path[j]
      BY <1>1, <1>3, <1>7, <2>1
    <3>3. Waiting(c)'
      BY <1>2, <1>3 DEF Waiting
    <3>4. SameChain(uses[c].waits, c)'
      BY <1>2, <1>12, <2>3 DEF SameChain
    <3> QED
      BY <2>3, <3>1, <3>2, <3>3, <3>4 DEF Above
  <2>4. CASE m # c
    <3>1. Depth(m) < Depth(c) /\ Above(m, c)
      BY <1>12, <2>1, <2>4, OnlyDeepestRuns
    <3>2. Depth(m)' < Depth(k)'
      BY <1>7, <2>1, <2>2, <3>1
    <3>3. 1..Depth(m) \subseteq 1..Depth(c)
      BY <2>2, <3>1
    <3>4. \A j \in 1..Depth(m) : loads[m].path[j] = loads'[k].path[j]
      BY <1>7, <2>1, <3>1, <3>3 DEF Above
    <3>5. uses'[m] = uses[m] /\ loads'[m] = loads[m] /\ uses[m].waits \in LoadTasks \ {k}
      BY <1>1, <1>2, <1>3, <2>4, <3>1 DEF Above, Clients
    <3>6. Waiting(m)' /\ SameChain(uses[m].waits, m)'
      BY <1>1, <3>1, <3>5 DEF Above, Waiting, SameChain
    <3> QED
      BY <1>7, <3>2, <3>4, <3>5, <3>6 DEF Above
  <2> QED
    BY <2>3, <2>4
<1>13. ChainsLine'
  <2>1. ASSUME NEW m \in LoadTasks, NEW n \in LoadTasks,
               Running(m)', Running(n)', SameChain(m, n)', m # n
        PROVE  Depth(m)' # Depth(n)' /\ (Depth(m)' < Depth(n)' => Above(m, n)')
    <3>1. Depth(m)' \in Nat /\ Depth(n)' \in Nat
      BY <1>1 DEF Depth, LoadRecords
    <3>2. CASE m # k /\ n # k
      <4>1. Running(m) /\ Running(n) /\ SameChain(m, n)
        BY <1>3, <1>7, <2>1, <3>2
      <4>2. Depth(m) # Depth(n) /\ (Depth(m) < Depth(n) => Above(m, n))
        BY <2>1, <4>1 DEF WorkInv, ChainsLine
      <4>3. ASSUME Above(m, n)
            PROVE  Above(m, n)'
        <5>1. m # c
          BY <4>3 DEF Above
        <5>2. \A j \in 1..Depth(m) : loads[m].path[j] = loads'[n].path[j]
          BY <1>1, <3>2, <4>3 DEF Above
        <5> QED
          BY <1>11, <3>2, <4>1, <4>3, <5>1, <5>2
      <4> QED
        BY <1>7, <3>2, <4>2, <4>3
    <3>3. CASE n = k
      <4>1. Depth(m)' < Depth(k)' /\ Above(m, k)'
        BY <1>3, <1>12, <2>1, <3>3
      <4> QED
        BY <3>1, <3>3, <4>1
    <3>4. CASE m = k
      <4>1. n \in LoadTasks \ {k} /\ Running(n) /\ SameChain(n, k)'
        BY <1>3, <2>1, <3>4 DEF SameChain
      <4>2. Depth(n)' < Depth(k)'
        BY <1>12, <4>1
      <4> QED
        BY <3>1, <3>4, <4>2
    <3> QED
      BY <3>2, <3>3, <3>4
  <2> QED
    BY <2>1 DEF ChainsLine
<1> QED
  BY <1>4, <1>5, <1>6, <1>9, <1>10, <1>13 DEF WorkInv

\* A load ends: nobody of its chain is deeper, and whoever waited for it is woken.
LEMMA EndingKeeps ==
  ASSUME WorkInv, NEW n \in LoadTasks, Running(n), ~Waiting(n), NEW result \in Results,
         End(n, result)
  PROVE  WorkInv'
<1>1. /\ loads' \in [LoadTasks -> LoadRecords]
      /\ ~Running(n)'
      /\ \A m \in LoadTasks \ {n} : loads'[m] = loads[m]
      /\ DOMAIN flights' = DOMAIN flights \ {loads[n].id}
      /\ flights' \in [DOMAIN flights' -> LoadTasks]
      /\ \A i \in DOMAIN flights' : flights'[i] = flights[i]
      /\ uses' \in [Clients -> UseRecords]
      /\ uses'[n] = NotAsking
      /\ \A c \in Clients \ {n} : uses[c].waits = n => uses'[c].waits = NoTask
      /\ \A c \in Clients \ {n} : uses[c].waits # n => uses'[c] = uses[c]
  BY EndGives DEF WorkInv
<1>2. /\ \A m \in LoadTasks \ {n} : Running(m)' <=> Running(m)
      /\ \A m \in LoadTasks \ {n} : Depth(m)' = Depth(m)
      /\ \A l, m \in LoadTasks \ {n} : SameChain(l, m)' <=> SameChain(l, m)
      /\ n # NoTask /\ LoadTasks \subseteq Clients
  <2>1. n # NoTask /\ LoadTasks \subseteq Clients
    BY TasksAssumption DEF LoadTasks, Clients, NoTask
  <2> QED
    BY <1>1, <2>1 DEF Running, Depth, SameChain
<1>3. ASSUME NEW c \in Clients, uses'[c].waits # NoTask
      PROVE  /\ c # n /\ uses'[c] = uses[c] /\ uses[c].wake = Nothing
             /\ uses[c].waits \in LoadTasks \ {n} /\ Running(uses[c].waits)
  <2>1. c # n /\ uses[c].waits # n /\ uses'[c] = uses[c]
    BY <1>1, <1>3, NotAskingTyped
  <2>2. uses[c].wake = Nothing /\ Running(uses[c].waits) /\ uses[c].waits \in 0..LoadCount
    BY <1>3, <2>1 DEF WorkInv, WaitsRun, WorkTyped, UseRecords
  <2>3. uses[c].waits \in LoadTasks
    BY <1>3, <2>1, <2>2, TasksAssumption DEF LoadTasks, NoTask
  <2> QED
    BY <2>1, <2>2, <2>3
<1>4. WorkTyped'
  BY <1>1 DEF WorkInv, WorkTyped
<1>5. Registered'
  <2>1. ASSUME NEW m \in LoadTasks, Running(m)'
        PROVE  loads'[m].id \in DOMAIN flights' /\ flights'[loads'[m].id] = m
    <3>1. m # n /\ Running(m) /\ loads'[m] = loads[m]
      BY <1>1, <1>2, <2>1
    <3> QED
      BY <1>1, <3>1 DEF WorkInv, Registered
  <2>2. ASSUME NEW i \in DOMAIN flights'
        PROVE  Running(flights[i])' /\ loads'[flights'[i]].id = i
    <3>1. /\ i \in DOMAIN flights /\ i # loads[n].id /\ flights'[i] = flights[i]
          /\ flights[i] \in LoadTasks /\ Running(flights[i]) /\ loads[flights[i]].id = i
      BY <1>1 DEF WorkInv, WorkTyped, Registered
    <3> QED
      BY <1>1, <3>1 DEF Running
  <2> QED
    BY <2>1, <2>2 DEF Registered
<1>6. WaitsRun'
  <2>1. ASSUME NEW c \in Clients, uses'[c].waits # NoTask
        PROVE  uses'[c].wake = Nothing /\ Running(uses[c].waits)'
    BY <1>1, <1>3, <2>1 DEF Running
  <2>2. ASSUME NEW m \in LoadTasks, ~Running(m)', m # n
        PROVE  uses'[m] = NotAsking
    <3>1. uses[m] = NotAsking /\ m \in Clients
      BY <1>2, <2>2 DEF WorkInv, WaitsRun
    <3> QED
      BY <1>1, <1>2, <2>2, <3>1, NotAskingTyped
  <2> QED
    BY <1>1, <2>1, <2>2 DEF WaitsRun
<1>7. PathsHeaded'
  <2>1. ASSUME NEW m \in LoadTasks, Running(m)'
        PROVE  /\ Depth(m)' >= 1
               /\ loads'[m].path[Depth(m)'] = loads'[m].id
               /\ loads'[m].chain \in LoadTasks
               /\ Running(loads[m].chain)'
               /\ loads'[loads'[m].chain].chain = loads'[m].chain
               /\ Depth(loads[m].chain)' = 1
    <3>1. m # n /\ Running(m) /\ loads'[m] = loads[m]
      BY <1>1, <1>2, <2>1
    <3>2. /\ Depth(m) >= 1
          /\ loads[m].path[Depth(m)] = loads[m].id
          /\ loads[m].chain \in LoadTasks
          /\ Running(loads[m].chain)
          /\ loads[loads[m].chain].chain = loads[m].chain
          /\ Depth(loads[m].chain) = 1
      BY <3>1 DEF WorkInv, PathsHeaded
    <3>3. loads[m].chain # n
      <4>1. SUFFICES ASSUME loads[m].chain = n
                     PROVE  FALSE
        OBVIOUS
      <4>2. SameChain(m, n) /\ Depth(n) = 1
        BY <3>2, <4>1 DEF SameChain
      <4>3. Depth(m) < Depth(n)
        BY <3>1, <4>2, OnlyDeepestRuns
      <4>4. Depth(m) \in Nat
        BY DEF Depth, WorkInv, WorkTyped, LoadRecords
      <4> QED
        BY <3>2, <4>2, <4>3, <4>4
    <3>4. Running(loads[m].chain)' /\ Depth(loads[m].chain)' = 1
      BY <1>1, <3>1, <3>2, <3>3 DEF Running, Depth
    <3> QED
      BY <1>1, <1>2, <3>1, <3>2, <3>3, <3>4
  <2> QED
    BY <2>1 DEF PathsHeaded
<1>8. WaitsDescend'
  <2>1. ASSUME NEW m \in LoadTasks, Running(m)', Waiting(m)', SameChain(uses[m].waits, m)'
        PROVE  Depth(uses[m].waits)' = Depth(m)' + 1
    <3>1. /\ m # n /\ uses'[m] = uses[m] /\ Waiting(m) /\ Running(m)
          /\ uses[m].waits \in LoadTasks \ {n}
      BY <1>1, <1>2, <1>3, <2>1 DEF Waiting
    <3>2. SameChain(uses[m].waits, m)
      BY <1>1, <2>1, <3>1 DEF SameChain
    <3>3. Depth(uses[m].waits) = Depth(m) + 1
      BY <3>1, <3>2 DEF WorkInv, WaitsDescend
    <3> QED
      BY <1>1, <3>1, <3>3 DEF Depth
  <2> QED
    BY <2>1 DEF WaitsDescend
<1>9. ChainsLine'
  <2>1. ASSUME NEW l \in LoadTasks, NEW m \in LoadTasks,
               Running(l)', Running(m)', SameChain(l, m)', l # m
        PROVE  Depth(l)' # Depth(m)' /\ (Depth(l)' < Depth(m)' => Above(l, m)')
    <3>1. l # n /\ m # n /\ Running(l) /\ Running(m) /\ SameChain(l, m)
      BY <1>1, <1>2, <2>1
    <3>2. Depth(l) # Depth(m) /\ (Depth(l) < Depth(m) => Above(l, m))
      BY <2>1, <3>1 DEF WorkInv, ChainsLine
    <3>3. ASSUME Depth(l) < Depth(m)
          PROVE  Above(l, m)'
      <4>1. Above(l, m) /\ uses[l].waits # NoTask
        BY <3>2, <3>3 DEF Above, Waiting
      <4>2. uses[l].waits # n
        <5>1. SUFFICES ASSUME uses[l].waits = n
                       PROVE  FALSE
          OBVIOUS
        <5>2. SameChain(n, l) /\ SameChain(m, n)
          BY <3>1, <4>1, <5>1 DEF Above, SameChain
        <5>3. Depth(n) = Depth(l) + 1
          BY <3>1, <4>1, <5>1, <5>2 DEF WorkInv, WaitsDescend, Waiting
        <5>4. Depth(m) < Depth(n)
          BY <3>1, <5>2, OnlyDeepestRuns
        <5>5. Depth(l) \in Nat /\ Depth(m) \in Nat
          BY DEF Depth, WorkInv, WorkTyped, LoadRecords
        <5> QED
          BY <3>3, <5>3, <5>4, <5>5
      <4>3. uses'[l] = uses[l] /\ loads'[l] = loads[l] /\ loads'[m] = loads[m]
        BY <1>1, <1>2, <3>1, <4>2
      <4>4. uses[l].waits \in LoadTasks \ {n}
        BY <1>2, <1>3, <4>1, <4>3
      <4>5. Waiting(l)' /\ SameChain(uses[l].waits, l)'
        BY <1>1, <4>1, <4>3, <4>4 DEF Above, Waiting, SameChain
      <4>6. \A j \in 1..Depth(l)' : loads'[l].path[j] = loads'[m].path[j]
        BY <1>2, <3>1, <4>1, <4>3 DEF Above
      <4> QED
        BY <4>5, <4>6 DEF Above
    <3> QED
      BY <1>2, <3>1, <3>2, <3>3
  <2> QED
    BY <2>1 DEF ChainsLine
<1> QED
  BY <1>4, <1>5, <1>6, <1>7, <1>8, <1>9 DEF WorkInv

\* The next loader is asked in the same task.
LEMMA DecliningKeeps ==
  ASSUME WorkInv, NEW n \in LoadTasks, LoaderDeclines(n)
  PROVE  WorkInv'
<1>1. Running(n) /\ ~Waiting(n)
  BY DEF LoaderDeclines, LoaderGoesOn, LoaderRuns, Calling, Waiting
<1>2. PICK script \in Scripts[loads[n].id] :
        loads' = [loads EXCEPT ![n].loader = @ + 1, ![n].script = script]
  BY DEF LoaderDeclines
<1> DEFINE first == [loads[n] EXCEPT !.loader = @ + 1]
           second == [first EXCEPT !.script = script]
<1>3. /\ second \in LoadRecords
      /\ second.state = loads[n].state /\ second.id = loads[n].id
      /\ second.path = loads[n].path /\ second.chain = loads[n].chain
  <2>1. loads[n] \in LoadRecords
    BY DEF WorkInv, WorkTyped
  <2>2. script \in Seq(Requests)
    BY <2>1, RequestsAssumption DEF LoadRecords
  <2>3. /\ first \in LoadRecords
        /\ first.state = loads[n].state /\ first.id = loads[n].id
        /\ first.path = loads[n].path /\ first.chain = loads[n].chain
    BY <2>1 DEF LoadRecords
  <2> HIDE DEF first
  <2> QED
    BY <2>2, <2>3 DEF LoadRecords
<1>4. loads' = [loads EXCEPT ![n] = second]
  BY <1>2 DEF WorkInv, WorkTyped
<1> HIDE DEF second
<1>5. /\ loads' \in [LoadTasks -> LoadRecords]
      /\ \A m \in LoadTasks :
           /\ loads'[m].state = loads[m].state /\ loads'[m].id = loads[m].id
           /\ loads'[m].path = loads[m].path /\ loads'[m].chain = loads[m].chain
  BY <1>3, <1>4 DEF WorkInv, WorkTyped
<1>6. /\ uses' \in [Clients -> UseRecords]
      /\ uses'[n] = NotAsking
      /\ \A d \in Clients \ {n} : uses'[d] = uses[d]
      /\ UNCHANGED flights
      /\ LoadTasks \subseteq Clients
  BY NotAskingTyped DEF LoaderDeclines, WorkInv, WorkTyped, Clients
<1>7. /\ \A m \in LoadTasks : (Running(m)' <=> Running(m)) /\ Depth(m)' = Depth(m)
      /\ \A l, m \in LoadTasks : SameChain(l, m)' <=> SameChain(l, m)
      /\ \A m \in LoadTasks : uses'[m].waits = uses[m].waits
      /\ \A c \in Clients : Waiting(c) => uses[c].waits \in LoadTasks
  <2>1. \A m \in LoadTasks : (Running(m)' <=> Running(m)) /\ Depth(m)' = Depth(m)
    BY <1>5 DEF Running, Depth
  <2>2. \A l, m \in LoadTasks : SameChain(l, m)' <=> SameChain(l, m)
    BY <1>5 DEF SameChain
  <2>3. \A m \in LoadTasks : uses'[m].waits = uses[m].waits
    BY <1>1, <1>6, NotAskingTyped DEF Waiting
  <2>4. \A c \in Clients : Waiting(c) => uses[c].waits \in LoadTasks
    BY TasksAssumption DEF WorkInv, WorkTyped, UseRecords, Waiting, LoadTasks, NoTask
  <2> QED
    BY <2>1, <2>2, <2>3, <2>4
<1>8. WorkTyped'
  BY <1>5, <1>6 DEF WorkInv, WorkTyped
<1>9. Registered'
  BY <1>5, <1>6 DEF WorkInv, WorkTyped, Registered, Running
<1>10. WaitsRun'
  <2>1. ASSUME NEW c \in Clients, uses'[c].waits # NoTask
        PROVE  uses'[c].wake = Nothing /\ Running(uses[c].waits)'
    <3>1. c # n /\ uses'[c] = uses[c]
      BY <1>6, <2>1, NotAskingTyped
    <3>2. uses[c].wake = Nothing /\ Running(uses[c].waits) /\ uses[c].waits \in LoadTasks
      BY <1>7, <2>1, <3>1 DEF WorkInv, WaitsRun, Waiting
    <3> QED
      BY <1>5, <3>1, <3>2 DEF Running
  <2>2. ASSUME NEW m \in LoadTasks, ~Running(m)'
        PROVE  uses'[m] = NotAsking
    BY <1>1, <1>6, <1>7, <2>2 DEF WorkInv, WaitsRun
  <2> QED
    BY <2>1, <2>2 DEF WaitsRun
<1>11. PathsHeaded'
  BY <1>5 DEF WorkInv, PathsHeaded, Running, Depth
<1>12. WaitsDescend'
  <2>1. ASSUME NEW m \in LoadTasks, Running(m)', Waiting(m)', SameChain(uses[m].waits, m)'
        PROVE  Depth(uses[m].waits)' = Depth(m)' + 1
    <3>1. uses'[m].waits = uses[m].waits /\ uses[m].waits \in LoadTasks
      BY <1>6, <1>7, <2>1 DEF Waiting
    <3>2. Running(m) /\ Waiting(m) /\ SameChain(uses[m].waits, m)
      BY <1>5, <1>7, <2>1, <3>1 DEF Waiting, SameChain
    <3>3. Depth(uses[m].waits) = Depth(m) + 1
      BY <3>2 DEF WorkInv, WaitsDescend
    <3> QED
      BY <1>5, <3>1, <3>3 DEF Depth
  <2> QED
    BY <2>1 DEF WaitsDescend
<1>13. ChainsLine'
  <2>1. ASSUME NEW l \in LoadTasks, NEW m \in LoadTasks,
               Running(l)', Running(m)', SameChain(l, m)', l # m
        PROVE  Depth(l)' # Depth(m)' /\ (Depth(l)' < Depth(m)' => Above(l, m)')
    <3>1. Depth(l) # Depth(m) /\ (Depth(l) < Depth(m) => Above(l, m))
      BY <1>7, <2>1 DEF WorkInv, ChainsLine
    <3>2. ASSUME Above(l, m)
          PROVE  Above(l, m)'
      <4>1. uses'[l].waits = uses[l].waits /\ uses[l].waits \in LoadTasks
        BY <1>6, <1>7, <3>2 DEF Above
      <4>2. Waiting(l)' /\ SameChain(uses[l].waits, l)'
        BY <1>5, <3>2, <4>1 DEF Above, Waiting, SameChain
      <4>3. \A j \in 1..Depth(l)' : loads'[l].path[j] = loads'[m].path[j]
        BY <1>5, <1>7, <3>2 DEF Above
      <4> QED
        BY <4>2, <4>3 DEF Above
    <3> QED
      BY <1>7, <3>1, <3>2
  <2> QED
    BY <2>1 DEF ChainsLine
<1> QED
  BY <1>8, <1>9, <1>10, <1>11, <1>12, <1>13 DEF WorkInv

\* The call of use_calendar up to its first suspension.
LEMMA UsingKeeps ==
  ASSUME IInv, NEW c \in Clients, NEW i \in Ids, NEW fallback \in Fallbacks,
         UseCalendar(c, i, fallback),
         c \in LoadTasks => Running(c) /\ ~Waiting(c)
  PROVE  WorkInv'
<1>1. CASE i \in DOMAIN cached /\ Answer(c, Found(cached[i])) /\ UNCHANGED <<loads, flights>>
  <2>1. Found(cached[i]) \in Results
    BY <1>1, NothingTyped DEF IInv, TablesTyped
  <2> QED
    BY <1>1, <2>1, AnsweringKeeps DEF IInv
<1>2. CASE Answer(c, Failed) /\ UNCHANGED <<loads, flights>>
  BY <1>2, NothingTyped, AnsweringKeeps DEF IInv
<1>3. CASE /\ ~Contains(ActivePath(c), i) /\ i \in DOMAIN flights
           /\ Await(c, flights[i], fallback) /\ UNCHANGED <<loads, flights>>
  <2>1. c \in LoadTasks => \A k \in 1..Depth(c) : loads[c].path[k] # i
    BY <1>3, TasksAssumption DEF Contains, ActivePath, Depth
  <2> QED
    BY <1>3, <2>1, JoiningKeeps DEF IInv
<1>4. CASE i \notin DOMAIN flights /\ Spawn(c, i) /\ Await(c, NextFree, fallback)
  BY <1>4, SpawningKeeps DEF IInv
<1> QED
  BY <1>1, <1>2, <1>3, <1>4 DEF UseCalendar

LEMMA WakeKeeps ==
  ASSUME IInv, NEW c \in Clients, Wake(c)
  PROVE  WorkInv'
<1>1. /\ uses[c] \in UseRecords
      /\ uses[c].wake \in Results /\ uses[c].fallback \in Fallbacks
  BY DEF IInv, WorkInv, WorkTyped, UseRecords
<1>2. uses[c].wake # Nothing
  BY DEF Wake
<1>3. c \in LoadTasks => Running(c) /\ ~Waiting(c)
  BY <1>2, NotAskingTyped DEF IInv, WorkInv, WaitsRun, Waiting, Clients
<1>4. CASE Answer(c, uses[c].wake) /\ UNCHANGED <<loads, flights>>
  BY <1>1, <1>3, <1>4, AnsweringKeeps DEF IInv
<1>5. CASE /\ Answer(c, IF uses[c].fallback = "own" THEN Found(OwnCalendar) ELSE Failed)
           /\ UNCHANGED <<loads, flights>>
  <2>1. OwnCalendar \in Calendars
    BY DEF OwnCalendar, Calendar, Calendars
  <2> QED
    BY <1>3, <1>5, <2>1, NothingTyped, AnsweringKeeps DEF IInv
<1>6. CASE uses[c].fallback \in Ids /\ UseCalendar(c, uses[c].fallback, "none")
  BY <1>3, <1>6, UsingKeeps DEF Fallbacks
<1> QED
  BY <1>4, <1>5, <1>6 DEF Wake

LEMMA CallerKeeps ==
  ASSUME IInv, NEW c \in Callers, Ask(c) \/ Cancel(c)
  PROVE  WorkInv'
<1>1. c \in Clients /\ c \notin LoadTasks
  BY TasksAssumption DEF Clients
<1>2. CASE Ask(c)
  <2>1. PICK wish \in Wishes[c] : UseCalendar(c, wish.id, wish.fallback)
    BY <1>2 DEF Ask
  <2>2. wish.id \in Ids /\ wish.fallback \in Fallbacks
    BY RequestsAssumption DEF Requests, Fallbacks
  <2> QED
    BY <1>1, <2>1, <2>2, UsingKeeps
<1>3. CASE Cancel(c)
  BY <1>1, <1>3, NothingTyped, AnsweringKeeps DEF Cancel, IInv
<1> QED
  BY <1>2, <1>3

\* What a loader returns: it names the calendars it was given.
LEMMA ReturnedTyped ==
  ASSUME WorkTyped, NEW n \in LoadTasks
  PROVE  LET operands == {Outcomes(n)[k].calendar : k \in 1..Len(Outcomes(n))} IN
         Calendar(loads[n].id, {operand.id : operand \in UNION operands}) \in Calendars
<1> DEFINE outcomes == Outcomes(n)
           operands == {outcomes[k].calendar : k \in 1..Len(outcomes)}
<1>1. outcomes \in Seq(Results) /\ loads[n].id \in Ids
  BY DEF Outcomes, WorkTyped, UseRecords, LoadRecords, Clients
<1> HIDE DEF outcomes
<1>2. \A result \in Results : result.calendar \subseteq Calendars
  BY DEF Results, Found
<1>3. UNION operands \subseteq Calendars
  <2>1. \A k \in 1..Len(outcomes) : outcomes[k] \in Results
    BY <1>1
  <2> QED
    BY <1>2, <2>1
<1> HIDE DEF operands
<1>4. {operand.id : operand \in UNION operands}
        \subseteq Ids \cup {"own"} \cup {r.id : r \in Replacements}
  BY <1>3 DEF Calendars
<1>5. Calendar(loads[n].id, {operand.id : operand \in UNION operands}) \in Calendars
  BY <1>1, <1>4 DEF Calendar, Calendars
<1> QED
  BY <1>5 DEF operands, outcomes

LEMMA LoaderKeeps ==
  ASSUME IInv, NEW n \in LoadTasks, LoaderStep(n)
  PROVE  WorkInv'
<1>1. Running(n) /\ ~Waiting(n)
  BY DEF LoaderStep, LoaderUses, LoaderDeclines, AllDecline, LoaderFails, LoaderCancels,
         LoaderReturns, LoaderGoesOn, LoaderRuns, Calling, Waiting
<1>2. CASE LoaderUses(n)
  <2> DEFINE position == Len(Outcomes(n)) + 1
             wish == loads[n].script[position]
  <2>1. UseCalendar(n, wish.id, wish.fallback) /\ Len(Outcomes(n)) < Len(loads[n].script)
    BY <1>2 DEF LoaderUses
  <2>2. wish \in Requests
    <3>1. Outcomes(n) \in Seq(Results) /\ loads[n].script \in Seq(Requests)
      BY DEF Outcomes, IInv, WorkInv, WorkTyped, UseRecords, LoadRecords, Clients
    <3>2. position \in 1..Len(loads[n].script)
      BY <2>1, <3>1
    <3> HIDE DEF position
    <3> QED
      BY <3>1, <3>2
  <2>3. wish.id \in Ids /\ wish.fallback \in Fallbacks /\ n \in Clients
    BY <2>2 DEF Requests, Fallbacks, Clients
  <2> HIDE DEF wish
  <2> QED
    BY <1>1, <2>1, <2>3, UsingKeeps
<1>3. CASE LoaderDeclines(n)
  BY <1>3, DecliningKeeps DEF IInv
<1>4. CASE AllDecline(n)
  BY <1>1, <1>4, NothingTyped, EndingKeeps DEF AllDecline, IInv
<1>5. CASE LoaderFails(n)
  BY <1>1, <1>5, NothingTyped, EndingKeeps DEF LoaderFails, IInv
<1>6. CASE LoaderCancels(n)
  BY <1>1, <1>6, NothingTyped, EndingKeeps DEF LoaderCancels, IInv
<1>7. CASE LoaderReturns(n)
  <2>1. PICK calendar \in Calendars : End(n, Found(calendar))
    BY <1>7, ReturnedTyped DEF LoaderReturns, IInv, WorkInv
  <2> QED
    BY <1>1, <2>1, NothingTyped, EndingKeeps DEF IInv
<1> QED
  BY <1>2, <1>3, <1>4, <1>5, <1>6, <1>7 DEF LoaderStep

-----------------------------------------------------------------------------
\* The cache and the retirement keep their types.

LEMMA NoRetirementTyped == NoRetirement \in Retirements /\ NoRetirement.removed = {}
<1>1. (CHOOSE i \in Ids : TRUE) \in Ids
  BY RequestsAssumption
<1> QED
  BY <1>1 DEF NoRetirement, Retirements

LEMMA RetirementChanged ==
  ASSUME NEW call \in Retirements
  PROVE  /\ \A entries \in SUBSET (Ids \X Calendars) :
              [call EXCEPT !.todo = entries] \in Retirements
         /\ \A keys \in SUBSET Ids : [call EXCEPT !.removed = keys] \in Retirements
         /\ \A flag \in BOOLEAN : [call EXCEPT !.changed = flag] \in Retirements
BY DEF Retirements

LEMMA WatchTyped ==
  ASSUME TablesTyped, Watch, DOMAIN cached' \subseteq Ids
  PROVE  stable' \subseteq Ids
BY DEF TablesTyped, Watch

LEMMA PutTyped ==
  ASSUME NEW table, DOMAIN table \subseteq Ids, table \in [DOMAIN table -> Calendars],
         NEW i \in Ids, NEW calendar \in Calendars
  PROVE  /\ DOMAIN Put(table, i, calendar) \subseteq Ids
         /\ Put(table, i, calendar) \in [DOMAIN Put(table, i, calendar) -> Calendars]
BY DEF Put

LEMMA ReplacedTyped ==
  ASSUME NEW table, DOMAIN table \subseteq Ids, table \in [DOMAIN table -> Calendars],
         NEW i \in Ids, NEW replacement \in SUBSET Replacements
  PROVE  /\ DOMAIN Replaced(table, i, replacement) \subseteq Ids
         /\ Replaced(table, i, replacement)
              \in [DOMAIN Replaced(table, i, replacement) -> Calendars]
<1>1. CASE replacement = {}
  BY <1>1 DEF Replaced
<1>2. CASE replacement # {}
  <2>1. PICK calendar \in Calendars : calendar = CHOOSE r \in replacement : TRUE
    <3>1. (CHOOSE r \in replacement : TRUE) \in replacement
      BY <1>2
    <3> QED
      BY <3>1, ReplacementsAssumption
  <2>2. Replaced(table, i, replacement) = Put(table, i, calendar)
    BY <1>2, <2>1 DEF Replaced
  <2>3. /\ DOMAIN Put(table, i, calendar) \subseteq Ids
        /\ Put(table, i, calendar) \in [DOMAIN Put(table, i, calendar) -> Calendars]
    BY PutTyped
  <2> QED
    BY <2>2, <2>3
<1> QED
  BY <1>1, <1>2

LEMMA ProceedTyped ==
  ASSUME TablesTyped, NEW call \in Retirements, Proceed(call)
  PROVE  /\ DOMAIN cached' \subseteq Ids
         /\ cached' \in [DOMAIN cached' -> Calendars]
         /\ retirement' \in Retirements
<1> DEFINE pass == IF call.todo = {} /\ call.changed THEN Copy(call.removed) ELSE call.todo
           first == [call EXCEPT !.todo = pass]
<1>1. /\ call.id \in Ids /\ call.replacement \in SUBSET Replacements
      /\ call.removed \in SUBSET Ids /\ call.todo \in SUBSET (Ids \X Calendars)
      /\ call.changed \in BOOLEAN
  BY DEF Retirements
<1>2. CASE Drop(call)
  <2> DEFINE kept == Restrict(cached, DOMAIN cached \ call.removed)
  <2>1. DOMAIN kept \subseteq Ids /\ kept \in [DOMAIN kept -> Calendars]
    BY Restricted DEF TablesTyped
  <2> HIDE DEF kept
  <2>2. cached' = Replaced(kept, call.id, call.replacement) /\ retirement' = NoRetirement
    BY <1>2 DEF Drop, kept
  <2> QED
    BY <1>1, <2>1, <2>2, ReplacedTyped, NoRetirementTyped
<1>3. CASE UNCHANGED cached /\ retirement' = [first EXCEPT !.changed = @ /\ call.todo # {}]
  <2>1. pass \in SUBSET (Ids \X Calendars)
    <3>1. Copy(call.removed) \in SUBSET (Ids \X Calendars)
      BY DEF Copy, TablesTyped
    <3> QED
      BY <1>1, <3>1
  <2> HIDE DEF pass
  <2>2. first \in Retirements
    BY <2>1, RetirementChanged
  <2> DEFINE flag == first.changed /\ call.todo # {}
  <2>3. retirement' = [first EXCEPT !.changed = flag] /\ flag \in BOOLEAN
    BY <1>3, <2>2 DEF Retirements
  <2> HIDE DEF first, flag
  <2>4. retirement' \in Retirements
    BY <2>2, <2>3, RetirementChanged
  <2> QED
    BY <1>3, <2>4 DEF TablesTyped
<1>4. pass # {} /\ ~Drop(call) =>
        UNCHANGED cached /\ retirement' = [first EXCEPT !.changed = @ /\ call.todo # {}]
  BY DEF Proceed
<1> QED
  BY <1>2, <1>3, <1>4 DEF Proceed

LEMMA RetireKeeps ==
  ASSUME IInv, NEW i \in Retirable, Retire(i)
  PROVE  IInv'
<1>1. i \in Ids /\ UNCHANGED <<flights, loads, uses>> /\ Watch /\ retirement.state = "idle"
  BY RequestsAssumption DEF Retire
<1>2. PICK replacement \in SUBSET Replacements :
         \/ cached' = Replaced(cached, i, replacement) /\ UNCHANGED retirement
         \/ i \in DOMAIN cached /\
            Proceed([NoRetirement EXCEPT !.state = "inspecting", !.id = i,
                                         !.replacement = replacement,
                                         !.removed = {i}, !.changed = TRUE])
  <2>1. \A replacement \in {{}} \cup {{calendar} : calendar \in Replacements} :
          replacement \in SUBSET Replacements
    OBVIOUS
  <2> QED
    BY <2>1 DEF Retire
<1>3. /\ DOMAIN cached' \subseteq Ids
      /\ cached' \in [DOMAIN cached' -> Calendars]
      /\ retirement' \in Retirements
  <2>1. CASE cached' = Replaced(cached, i, replacement) /\ UNCHANGED retirement
    BY <1>1, <2>1, ReplacedTyped DEF IInv, TablesTyped
  <2>2. ASSUME NEW call, call = [NoRetirement EXCEPT !.state = "inspecting", !.id = i,
                                         !.replacement = replacement,
                                         !.removed = {i}, !.changed = TRUE],
               Proceed(call)
        PROVE  /\ DOMAIN cached' \subseteq Ids
               /\ cached' \in [DOMAIN cached' -> Calendars]
               /\ retirement' \in Retirements
    <3>1. call \in Retirements
      BY <1>1, <2>2 DEF NoRetirement, Retirements
    <3> QED
      BY <2>2, <3>1, ProceedTyped DEF IInv
  <2> QED
    BY <1>2, <2>1, <2>2
<1>4. TablesTyped'
  BY <1>1, <1>3, WatchTyped DEF IInv, TablesTyped
<1>5. WorkInv'
  BY <1>1 DEF IInv, WorkInv, WorkTyped, Registered, WaitsRun, PathsHeaded, WaitsDescend,
              ChainsLine, Above, Running, Depth, SameChain, Waiting
<1> QED
  BY <1>4, <1>5 DEF IInv

LEMMA InspectKeeps ==
  ASSUME IInv, Inspect \/ InspectFails
  PROVE  IInv'
<1>1. UNCHANGED <<flights, loads, uses>>
  BY DEF Inspect, InspectFails
<1>2. ASSUME InspectFails
      PROVE  TablesTyped'
  BY <1>2, NoRetirementTyped DEF InspectFails, IInv, TablesTyped
<1>3. ASSUME Inspect
      PROVE  TablesTyped'
  <2>1. PICK entry \in retirement.todo :
          LET found == retirement.removed \cap entry[2].dependencies # {} IN
          Proceed([retirement EXCEPT !.todo = @ \ {entry},
                                     !.removed = IF found THEN @ \cup {entry[1]} ELSE @,
                                     !.changed = @ \/ found])
    BY <1>3 DEF Inspect
  <2> DEFINE found == retirement.removed \cap entry[2].dependencies # {}
             keys == IF found THEN retirement.removed \cup {entry[1]} ELSE retirement.removed
             flag == retirement.changed \/ found
             first == [retirement EXCEPT !.todo = retirement.todo \ {entry}]
             second == [first EXCEPT !.removed = keys]
             call == [second EXCEPT !.changed = flag]
  <2>2. /\ retirement \in Retirements /\ retirement.removed \in SUBSET Ids
        /\ retirement.todo \in SUBSET (Ids \X Calendars) /\ retirement.changed \in BOOLEAN
    BY DEF IInv, TablesTyped, Retirements
  <2>3. keys \in SUBSET Ids /\ flag \in BOOLEAN
    BY <2>2
  <2>4. Proceed(call)
    BY <2>1, <2>2 DEF Retirements
  <2> HIDE DEF found, keys, flag
  <2>5. first \in Retirements
    BY <2>2, RetirementChanged
  <2> HIDE DEF first
  <2>6. second \in Retirements
    BY <2>3, <2>5, RetirementChanged
  <2> HIDE DEF second
  <2>7. call \in Retirements
    BY <2>3, <2>6, RetirementChanged
  <2> HIDE DEF call
  <2>8. /\ DOMAIN cached' \subseteq Ids
        /\ cached' \in [DOMAIN cached' -> Calendars]
        /\ retirement' \in Retirements
    BY <2>4, <2>7, ProceedTyped DEF IInv
  <2>9. stable' \subseteq Ids
    BY <1>3, <2>8, WatchTyped DEF Inspect, IInv
  <2> QED
    BY <2>8, <2>9 DEF TablesTyped
<1>4. WorkInv'
  BY <1>1 DEF IInv, WorkInv, WorkTyped, Registered, WaitsRun, PathsHeaded, WaitsDescend,
              ChainsLine, Above, Running, Depth, SameChain, Waiting
<1> QED
  BY <1>2, <1>3, <1>4 DEF IInv

LEMMA LoaderTyped ==
  ASSUME IInv, NEW n \in LoadTasks, LoaderStep(n)
  PROVE  TablesTyped'
<1>1. CASE LoaderReturns(n)
  <2>1. PICK calendar \in Calendars : cached' = Put(cached, loads[n].id, calendar)
    BY <1>1, ReturnedTyped DEF LoaderReturns, IInv, WorkInv
  <2>2. loads[n].id \in Ids /\ UNCHANGED retirement
    BY <1>1 DEF IInv, WorkInv, WorkTyped, LoadRecords, LoaderReturns, End
  <2>3. DOMAIN cached' \subseteq Ids /\ cached' \in [DOMAIN cached' -> Calendars]
    BY <2>1, <2>2, PutTyped DEF IInv, TablesTyped
  <2>4. stable' \subseteq Ids
    BY <1>1, <2>3, WatchTyped DEF LoaderReturns, IInv
  <2> QED
    BY <2>2, <2>3, <2>4 DEF IInv, TablesTyped
<1>2. CASE ~LoaderReturns(n)
  <2>1. UNCHANGED <<cached, retirement, stable>>
    BY <1>2 DEF LoaderStep, LoaderUses, LoaderDeclines, AllDecline, LoaderFails,
                LoaderCancels, End
  <2> QED
    BY <2>1 DEF IInv, TablesTyped
<1> QED
  BY <1>1, <1>2

-----------------------------------------------------------------------------
\* The invariant, and what follows from it.

LEMMA InitHolds == Init => IInv
<1>1. SUFFICES ASSUME Init
               PROVE  IInv
  OBVIOUS
<1>2. TablesTyped
  BY <1>1, NoRetirementTyped DEF Init, TablesTyped
<1>3. WorkTyped
  BY <1>1, NoLoadTyped, NotAskingTyped DEF Init, WorkTyped
<1>4. \A n \in LoadTasks : ~Running(n) /\ ~Waiting(n) /\ uses[n] = NotAsking
  BY <1>1, NoLoadTyped, NotAskingTyped DEF Init, Running, Waiting, Clients
<1>5. DOMAIN flights = {} /\ \A c \in Clients : uses[c].waits = NoTask
  BY <1>1, NotAskingTyped DEF Init
<1> QED
  BY <1>2, <1>3, <1>4, <1>5 DEF IInv, WorkInv, Registered, WaitsRun, PathsHeaded,
                                WaitsDescend, ChainsLine

LEMMA StepKeeps == IInv /\ [Next]_vars => IInv'
<1>1. SUFFICES ASSUME IInv, [Next]_vars
               PROVE  IInv'
  OBVIOUS
<1>2. ASSUME NEW c \in Clients, Wake(c)
      PROVE  IInv'
  <2>1. UNCHANGED <<cached, retirement, stable>>
    BY <1>2 DEF Wake
  <2> QED
    BY <1>1, <1>2, <2>1, WakeKeeps DEF IInv, TablesTyped
<1>3. ASSUME NEW c \in Callers, Ask(c) \/ Cancel(c)
      PROVE  IInv'
  <2>1. UNCHANGED <<cached, retirement, stable>>
    BY <1>3 DEF Ask, Cancel
  <2> QED
    BY <1>1, <1>3, <2>1, CallerKeeps DEF IInv, TablesTyped
<1>4. ASSUME NEW n \in LoadTasks, LoaderStep(n)
      PROVE  IInv'
  BY <1>1, <1>4, LoaderKeeps, LoaderTyped DEF IInv
<1>5. ASSUME NEW i \in Retirable, Retire(i)
      PROVE  IInv'
  BY <1>1, <1>5, RetireKeeps
<1>6. CASE Inspect \/ InspectFails
  BY <1>1, <1>6, InspectKeeps
<1>7. CASE UNCHANGED vars
  BY <1>1, <1>7 DEF vars, IInv, TablesTyped, WorkInv, WorkTyped, Registered, WaitsRun,
                    PathsHeaded, WaitsDescend, ChainsLine, Above, Running, Depth,
                    SameChain, Waiting
<1> QED
  BY <1>1, <1>2, <1>3, <1>4, <1>5, <1>6, <1>7 DEF Next

LEMMA TypesFollow == IInv => TypeOK
<1>1. SUFFICES ASSUME IInv
               PROVE  TypeOK
  OBVIOUS
<1>2. ASSUME NEW c \in Clients
      PROVE  /\ uses[c].waits \in {n \in LoadTasks : Running(n)} \cup {NoTask}
             /\ uses[c].wake \in Results
             /\ uses[c].fallback \in Ids \cup {"none", "own"}
             /\ \A k \in 1..Len(uses[c].outcomes) : uses[c].outcomes[k] \in Results
  <2>1. uses[c] \in UseRecords
    BY <1>1 DEF IInv, WorkInv, WorkTyped
  <2>2. /\ uses[c].waits \in 0..LoadCount /\ uses[c].wake \in Results
        /\ uses[c].fallback \in Fallbacks /\ uses[c].outcomes \in Seq(Results)
    BY <2>1 DEF UseRecords
  <2>3. uses[c].waits = NoTask \/ (uses[c].waits \in LoadTasks /\ Running(uses[c].waits))
    BY <1>1, <2>2, TasksAssumption DEF IInv, WorkInv, WaitsRun, LoadTasks, NoTask
  <2>4. \A k \in 1..Len(uses[c].outcomes) : uses[c].outcomes[k] \in Results
    BY <2>2
  <2> QED
    BY <2>2, <2>3, <2>4 DEF Fallbacks
<1>3. retirement.removed \subseteq Ids
  BY <1>1 DEF IInv, TablesTyped, Retirements
<1>4. /\ DOMAIN cached \subseteq Ids
      /\ \A i \in DOMAIN cached : cached[i] \in Calendars
      /\ stable \subseteq Ids
  BY <1>1 DEF IInv, TablesTyped
<1>5. /\ DOMAIN flights \subseteq Ids
      /\ \A i \in DOMAIN flights :
           flights[i] \in LoadTasks /\ Running(flights[i]) /\ loads[flights[i]].id = i
      /\ \A n \in LoadTasks : Running(n) => loads[n].id \in DOMAIN flights
  BY <1>1 DEF IInv, WorkInv, WorkTyped, Registered
<1> QED
  BY <1>2, <1>3, <1>4, <1>5 DEF TypeOK

LEMMA FlightsSingle == IInv => SingleFlight
BY DEF IInv, WorkInv, Registered, SingleFlight

\* The deepest task of a circle within one chain would wait for a deeper one.
LEMMA CirclesCross == IInv => CircleNeedsTwoCallers
<1>1. SUFFICES ASSUME IInv, NEW S \in Circles,
                      \A m, n \in S : loads[m].chain = loads[n].chain
               PROVE  FALSE
  BY DEF CircleNeedsTwoCallers
<1>2. /\ S \subseteq LoadTasks /\ S # {} /\ LoadTasks \subseteq Clients
      /\ \A n \in S : Running(n) /\ uses[n].waits \in S
  BY <1>1 DEF Circles, Clients
<1>3. \A n \in S : Depth(uses[n].waits) = Depth(n) + 1
  <2>1. ASSUME NEW n \in S
        PROVE  Running(n) /\ Waiting(n) /\ SameChain(uses[n].waits, n) /\ n \in LoadTasks
    <3>1. NoTask \notin LoadTasks
      BY TasksAssumption DEF LoadTasks, NoTask
    <3>2. uses[n].waits \in S /\ Running(n)
      BY <1>2
    <3>3. Waiting(n)
      BY <1>2, <3>1, <3>2 DEF Waiting
    <3> QED
      BY <1>1, <1>2, <3>2, <3>3 DEF SameChain
  <2> QED
    BY <1>1, <2>1 DEF IInv, WorkInv, WaitsDescend
<1>4. \A n \in LoadTasks : Depth(n) \in Nat
  BY <1>1 DEF Depth, IInv, WorkInv, WorkTyped, LoadRecords
<1>5. PICK b \in Nat : \A n \in LoadTasks : Depth(n) <= b
  <2> DEFINE depths == [n \in 1..LoadCount |-> Depth(n)]
  <2>1. depths \in [1..LoadCount -> Nat]
    BY <1>4 DEF LoadTasks
  <2>2. \A n \in LoadTasks : depths[n] = Depth(n)
    BY DEF LoadTasks
  <2> HIDE DEF depths
  <2>3. \E b \in Nat : \A n \in 1..LoadCount : depths[n] <= b
    BY <2>1, TasksAssumption, Bounded
  <2> QED
    BY <2>2, <2>3 DEF LoadTasks
<1> DEFINE room == {b - Depth(n) : n \in S}
<1>6. room \in SUBSET Nat /\ room # {}
  BY <1>2, <1>4, <1>5
<1>7. PICK least \in room : \A other \in room : least <= other
  <2> HIDE DEF room
  <2> QED
    BY <1>6, LeastNumber
<1>8. PICK n \in S : least = b - Depth(n)
  BY <1>7
<1>9. uses[n].waits \in S /\ Depth(uses[n].waits) = Depth(n) + 1
  BY <1>2, <1>3
<1>10. least <= b - Depth(uses[n].waits)
  BY <1>7, <1>9
<1>11. Depth(n) \in Nat
  BY <1>2, <1>4
<1> QED
  BY <1>8, <1>9, <1>10, <1>11

\* However requests, cancellations, failures and retirements interleave, each
\* flight is registered exactly while its one task runs, nobody waits for a task
\* that has ended, and load tasks wait for each other in a circle only where two
\* callers met (calendar_manager.py:90-98, 116, 155-160).
THEOREM CalendarsSound == Spec => []CalendarInv
<1>1. Init => IInv
  BY InitHolds
<1>2. IInv /\ [Next]_vars => IInv'
  BY StepKeeps
<1>3. IInv => CalendarInv
  BY TypesFollow, FlightsSingle, CirclesCross DEF CalendarInv
<1> QED
  BY <1>1, <1>2, <1>3, PTL DEF Spec

-----------------------------------------------------------------------------
\* What a retirement has yet to look at.

\* An entry cached since the retirement began is removed, waits in this pass to be
\* asked, will be asked in another pass, or builds on nothing that is removed.
Settled(key, call) ==
  \/ <<key, cached[key]>> \in call.todo
  \/ call.changed
  \/ cached[key].dependencies \cap call.removed = {}

Examined ==
  retirement.state = "inspecting" =>
    /\ retirement.id \in retirement.removed
    /\ stable \subseteq DOMAIN cached
    /\ \A key \in stable \ retirement.removed : Settled(key, retirement)

\* A retirement that goes on has everything before it, one that ends nothing.
LEMMA ProceedExamines ==
  ASSUME NEW call \in Retirements, call.state = "inspecting", Proceed(call),
         NEW S \in SUBSET DOMAIN cached,
         \A key \in S \ call.removed : Settled(key, call)
  PROVE  \/ /\ retirement' = NoRetirement
            /\ cached' = Replaced(Restrict(cached, DOMAIN cached \ call.removed),
                                  call.id, call.replacement)
            /\ \A key \in S \ call.removed :
                 cached[key].dependencies \cap call.removed = {}
         \/ /\ retirement'.state = "inspecting"
            /\ retirement'.id = call.id /\ retirement'.removed = call.removed
            /\ cached' = cached
            /\ \A key \in S \ call.removed : Settled(key, retirement)'
<1> DEFINE pass == IF call.todo = {} /\ call.changed THEN Copy(call.removed) ELSE call.todo
<1>1. CASE pass = {} /\ Drop(call)
  <2>1. ASSUME NEW key \in S \ call.removed
        PROVE  cached[key].dependencies \cap call.removed = {}
    <3>1. <<key, cached[key]>> \in Copy(call.removed)
      BY DEF Copy
    <3> QED
      BY <1>1, <3>1 DEF Settled
  <2> QED
    BY <1>1, <2>1 DEF Drop
<1>2. CASE /\ pass # {}
           /\ retirement' = [call EXCEPT !.todo = pass, !.changed = @ /\ call.todo # {}]
           /\ UNCHANGED cached
  <2>1. /\ retirement'.state = "inspecting" /\ retirement'.id = call.id
        /\ retirement'.removed = call.removed /\ retirement'.todo = pass
        /\ retirement'.changed = (call.changed /\ call.todo # {})
    BY <1>2 DEF Retirements
  <2>2. ASSUME NEW key \in S \ call.removed
        PROVE  Settled(key, retirement)'
    <3>1. CASE call.todo = {} /\ call.changed
      <4>1. <<key, cached[key]>> \in Copy(call.removed)
        BY DEF Copy
      <4> QED
        BY <1>2, <2>1, <3>1, <4>1 DEF Settled
    <3>2. CASE ~(call.todo = {} /\ call.changed)
      <4>1. retirement'.todo = call.todo /\ call.todo # {} /\ retirement'.changed = call.changed
        BY <1>2, <2>1, <3>2 DEF Retirements
      <4>2. Settled(key, call)
        OBVIOUS
      <4> QED
        BY <1>2, <2>1, <4>1, <4>2 DEF Settled
    <3> QED
      BY <3>1, <3>2
  <2> QED
    BY <1>2, <2>1, <2>2
<1> QED
  BY <1>1, <1>2 DEF Proceed

LEMMA ExaminedAtFirst == Init => Examined
BY DEF Init, Examined, NoRetirement

\* An entry that is asked is removed or builds on nothing that is removed, and a
\* removal calls for another pass.
LEMMA InspectedSettled ==
  ASSUME IInv, Examined, retirement.state = "inspecting", NEW entry \in retirement.todo,
         NEW call,
         LET found == retirement.removed \cap entry[2].dependencies # {} IN
         call = [retirement EXCEPT !.todo = @ \ {entry},
                                   !.removed = IF found THEN @ \cup {entry[1]} ELSE @,
                                   !.changed = @ \/ found]
  PROVE  /\ call \in Retirements /\ call.state = "inspecting" /\ call.id = retirement.id
         /\ call.id \in call.removed
         /\ \A key \in stable \ call.removed : Settled(key, call)
<1> DEFINE found == retirement.removed \cap entry[2].dependencies # {}
<1>1. retirement \in Retirements
  BY DEF IInv, TablesTyped
<1>2. entry \in Ids \X Calendars
  BY <1>1 DEF Retirements
<1>3. /\ call.state = "inspecting" /\ call.id = retirement.id
      /\ call.replacement = retirement.replacement
      /\ call.todo = retirement.todo \ {entry}
      /\ call.removed = IF found THEN retirement.removed \cup {entry[1]}
                        ELSE retirement.removed
      /\ call.changed = (retirement.changed \/ found)
  BY <1>1 DEF Retirements
<1>4. call \in Retirements
  BY <1>1, <1>2, <1>3 DEF Retirements
<1>5. ASSUME NEW key \in stable \ call.removed
      PROVE  Settled(key, call)
  <2>1. CASE found
    BY <1>3, <2>1 DEF Settled
  <2>2. CASE ~found
    <3>1. call.removed = retirement.removed /\ call.changed = retirement.changed
      BY <1>1, <1>3, <2>2 DEF Retirements
    <3>2. Settled(key, retirement)
      BY <3>1 DEF Examined
    <3>3. CASE <<key, cached[key]>> = entry
      BY <2>2, <3>1, <3>3 DEF Settled
    <3>4. CASE <<key, cached[key]>> # entry
      BY <1>3, <3>1, <3>2, <3>4 DEF Settled
    <3> QED
      BY <3>3, <3>4
  <2> QED
    BY <2>1, <2>2
<1>6. call.id \in call.removed
  BY <1>3 DEF Examined
<1> QED
  BY <1>3, <1>4, <1>5, <1>6

\* What was watched and is cached with the same calendar stays settled.
LEMMA WatchedExamines ==
  ASSUME Examined, UNCHANGED retirement, Watch
  PROVE  Examined'
<1> SUFFICES ASSUME retirement.state = "inspecting"
             PROVE  Examined'
  BY DEF Examined
<1>1. /\ stable' \subseteq stable \cap DOMAIN cached'
      /\ \A key \in stable' : cached'[key] = cached[key]
  BY DEF Watch
<1>2. ASSUME NEW key \in stable' \ retirement'.removed
      PROVE  Settled(key, retirement)'
  <2>1. Settled(key, retirement)
    BY <1>1 DEF Examined
  <2> QED
    BY <1>1, <2>1 DEF Settled
<1> QED
  BY <1>1, <1>2 DEF Examined

LEMMA InspectExamines ==
  ASSUME IInv, Examined, Inspect
  PROVE  Examined'
<1> DEFINE found(entry) == retirement.removed \cap entry[2].dependencies # {}
           call(entry) == [retirement EXCEPT !.todo = @ \ {entry},
                             !.removed = IF found(entry) THEN @ \cup {entry[1]} ELSE @,
                             !.changed = @ \/ found(entry)]
<1>1. PICK entry \in retirement.todo : Proceed(call(entry))
  BY DEF Inspect
<1>2. /\ call(entry) \in Retirements /\ call(entry).state = "inspecting"
      /\ call(entry).id = retirement.id
      /\ call(entry).id \in call(entry).removed
      /\ \A key \in stable \ call(entry).removed : Settled(key, call(entry))
  BY InspectedSettled DEF Inspect
<1>3. stable \in SUBSET DOMAIN cached
  BY DEF Examined, Inspect
<1> HIDE DEF call
<1>4. CASE retirement'.state # "inspecting"
  BY <1>4 DEF Examined
<1>5. CASE retirement'.state = "inspecting"
  <2>1. /\ retirement'.id = call(entry).id /\ retirement'.removed = call(entry).removed
        /\ cached' = cached
        /\ \A key \in stable \ call(entry).removed : Settled(key, retirement)'
    <3>1. retirement' # NoRetirement
      BY <1>5 DEF NoRetirement
    <3> QED
      BY <1>1, <1>2, <1>3, <3>1, ProceedExamines
  <2>2. stable' \subseteq stable
    BY <1>5 DEF Inspect, Watch
  <2> QED
    BY <1>2, <1>3, <2>1, <2>2 DEF Examined
<1> QED
  BY <1>4, <1>5

LEMMA RetireExamines ==
  ASSUME IInv, Examined, NEW i \in Retirable, Retire(i)
  PROVE  Examined'
<1>1. CASE retirement'.state # "inspecting"
  BY <1>1 DEF Examined
<1>2. CASE retirement'.state = "inspecting"
  <2>1. PICK replacement \in {{}} \cup {{calendar} : calendar \in Replacements} :
          /\ i \in DOMAIN cached
          /\ Proceed([NoRetirement EXCEPT !.state = "inspecting", !.id = i,
                                          !.replacement = replacement,
                                          !.removed = {i}, !.changed = TRUE])
    BY <1>2 DEF Retire
  <2> DEFINE call == [NoRetirement EXCEPT !.state = "inspecting", !.id = i,
                                          !.replacement = replacement,
                                          !.removed = {i}, !.changed = TRUE]
  <2>2. /\ call.state = "inspecting" /\ call.id = i /\ call.removed = {i} /\ call.changed
        /\ call.todo = {} /\ call.replacement = replacement
    BY DEF NoRetirement
  <2>3. call \in Retirements
    BY <2>1, RequestsAssumption, NoRetirementTyped DEF Retirements
  <2>4. Proceed(call)
    BY <2>1
  <2> HIDE DEF call
  <2>5. \A key \in DOMAIN cached \ call.removed : Settled(key, call)
    BY <2>2 DEF Settled
  <2>6. /\ retirement'.id = i /\ retirement'.removed = {i} /\ cached' = cached
        /\ \A key \in DOMAIN cached \ {i} : Settled(key, retirement)'
    <3>1. retirement' # NoRetirement
      BY <1>2 DEF NoRetirement
    <3>2. DOMAIN cached \in SUBSET DOMAIN cached
      OBVIOUS
    <3> QED
      BY <2>2, <2>3, <2>4, <2>5, <3>1, <3>2, ProceedExamines
  <2>7. stable' = DOMAIN cached
    BY <1>2 DEF Retire, Watch
  <2> QED
    BY <2>6, <2>7 DEF Examined
<1> QED
  BY <1>1, <1>2

LEMMA StepExamines == IInv /\ Examined /\ [Next]_vars => Examined'
<1> SUFFICES ASSUME IInv, Examined, [Next]_vars
             PROVE  Examined'
  OBVIOUS
<1>1. CASE UNCHANGED <<cached, retirement, stable>>
  BY <1>1 DEF Examined, Settled
<1>2. ASSUME NEW c \in Clients, Wake(c)
      PROVE  Examined'
  BY <1>1, <1>2 DEF Wake
<1>3. ASSUME NEW c \in Callers, Ask(c) \/ Cancel(c)
      PROVE  Examined'
  BY <1>1, <1>3 DEF Ask, Cancel
<1>4. ASSUME NEW n \in LoadTasks, LoaderStep(n)
      PROVE  Examined'
  <2>1. CASE LoaderReturns(n)
    BY <2>1, WatchedExamines DEF LoaderReturns, End
  <2>2. CASE ~LoaderReturns(n)
    BY <1>1, <1>4, <2>2 DEF LoaderStep, LoaderUses, LoaderDeclines, AllDecline, LoaderFails,
                            LoaderCancels, End
  <2> QED
    BY <2>1, <2>2
<1>5. ASSUME NEW i \in Retirable, Retire(i)
      PROVE  Examined'
  BY <1>5, RetireExamines
<1>6. CASE Inspect
  BY <1>6, InspectExamines
<1>7. CASE InspectFails
  BY <1>7 DEF InspectFails, Examined, NoRetirement
<1>8. CASE UNCHANGED vars
  BY <1>1, <1>8 DEF vars
<1> QED
  BY <1>2, <1>3, <1>4, <1>5, <1>6, <1>7, <1>8 DEF Next

\* When a retirement ends, the entries it removes hold all that builds on them and
\* was cached throughout.
LEMMA EndsComplete ==
  ASSUME IInv, Examined, Inspect, retirement' = NoRetirement,
         NEW key \in Dependants(stable, retirement.id)
  PROVE  key \notin DOMAIN cached' \/ key = retirement.id
<1> DEFINE found(entry) == retirement.removed \cap entry[2].dependencies # {}
           call(entry) == [retirement EXCEPT !.todo = @ \ {entry},
                             !.removed = IF found(entry) THEN @ \cup {entry[1]} ELSE @,
                             !.changed = @ \/ found(entry)]
<1>1. PICK entry \in retirement.todo : Proceed(call(entry))
  BY DEF Inspect
<1>2. /\ call(entry) \in Retirements /\ call(entry).state = "inspecting"
      /\ call(entry).id = retirement.id
      /\ call(entry).id \in call(entry).removed
      /\ \A k \in stable \ call(entry).removed : Settled(k, call(entry))
  BY InspectedSettled DEF Inspect
<1>3. stable \in SUBSET DOMAIN cached
  BY DEF Examined, Inspect
<1> HIDE DEF call
<1>4. /\ cached' = Replaced(Restrict(cached, DOMAIN cached \ call(entry).removed),
                            retirement.id, call(entry).replacement)
      /\ \A k \in stable \ call(entry).removed :
           cached[k].dependencies \cap call(entry).removed = {}
  BY <1>1, <1>2, <1>3, ProceedExamines DEF NoRetirement
<1> DEFINE T == call(entry).removed \cap (stable \cup {retirement.id})
<1>5. T \in SUBSET (stable \cup {retirement.id}) /\ retirement.id \in T
  BY <1>2
<1>6. \A k \in stable : cached[k].dependencies \cap T # {} => k \in T
  BY <1>4
<1> HIDE DEF T
<1>7. key \in T
  BY <1>5, <1>6 DEF Dependants
<1>8. key \in call(entry).removed
  BY <1>7 DEF T
<1>9. DOMAIN cached' \subseteq (DOMAIN cached \ call(entry).removed) \cup {retirement.id}
  BY <1>4 DEF Replaced, Put, Restrict
<1> QED
  BY <1>8, <1>9

\* Whatever is loaded, replaced or removed while a retirement asks one calendar after
\* the other, it removes every entry that builds on the retired one through entries
\* that were all cached while it lasted (calendar_manager.py:179-207).
THEOREM RetirementsComplete == Spec => RetirementComplete
<1>1. Init => IInv /\ Examined
  BY InitHolds, ExaminedAtFirst
<1>2. IInv /\ Examined /\ [Next]_vars => (IInv /\ Examined)'
  BY StepKeeps, StepExamines
<1>3. IInv /\ Examined /\ [Next]_vars =>
        [Inspect /\ retirement' = NoRetirement =>
           \A key \in Dependants(stable, retirement.id) :
              key \notin DOMAIN cached' \/ key = retirement.id]_vars
  BY EndsComplete
<1> QED
  BY <1>1, <1>2, <1>3, PTL DEF Spec, RetirementComplete
=============================================================================
