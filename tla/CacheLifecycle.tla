--------------------------- MODULE CacheLifecycle ---------------------------
(***************************************************************************)
(* One Frame's snapshot cache at the level of its Python containers:       *)
(* insertion-ordered dictionaries, the list of retired objects, and the    *)
(* close task's walk over both.  Evaluation is reduced to what it commits: *)
(* FrameEvaluation models when an owner task may commit and which.         *)
(***************************************************************************)
EXTENDS Naturals, Sequences, FiniteSets, SequencesExt

CONSTANTS
  Name,         \* definition names of the Frame
  ObjectLimit,  \* bound: distinct objects the bodies create
  CommitLimit,  \* bound: snapshots published before the Frame closes
  MayAlias      \* whether a body may return an object published before

Object == 1 .. ObjectLimit

\* How an object's close may end.
CloseResult == {"ok", "ordinary", "control"}

VARIABLES
  results,   \* _results: insertion-ordered pairs <<name, object>>
  failures,  \* _failures: the names with a failure snapshot
  retired,   \* lifecycle.retired, in order of retirement
  phase,     \* "open", "releasing", "closed"
  pending,   \* resources the close loop has not reached yet
  closes,    \* history: the objects closed so far, in order
  failure,   \* the cleanup failures so far, combined: close raises it
  badCloses, \* history: objects whose close failed, with how, in order
  acquired,  \* history: the objects in order of their first publication
  commits,   \* history: publications so far
  plain      \* history: every publication so far bound a new object to a
             \* name that had no value snapshot

cacheVars == <<results, failures, retired, phase, pending, closes, failure, badCloses,
          acquired, commits, plain>>

----------------------------------------------------------------------------
\* Insertion-ordered dictionaries

Keys(dict) == {dict[i][1] : i \in DOMAIN dict}
Values(dict) == [i \in DOMAIN dict |-> dict[i][2]]
At(dict, name) == CHOOSE i \in DOMAIN dict : dict[i][1] = name
Lookup(dict, name) == dict[At(dict, name)][2]

\* Assignment to a present key keeps the key's position.
Put(dict, name, object) ==
  IF name \in Keys(dict)
  THEN [dict EXCEPT ![At(dict, name)] = <<name, object>>]
  ELSE Append(dict, <<name, object>>)

Pop(dict, name) == IF name \in Keys(dict) THEN RemoveAt(dict, At(dict, name)) ELSE dict

----------------------------------------------------------------------------
\* Cleanup failures

NoFailure == [head |-> "none", first |-> 0, retained |-> {}]
Failing(kind, object) == [head |-> kind, first |-> object, retained |-> {object}]

\* combine_failures: a control signal stays in front of ordinary failures,
\* the earlier of two control signals in front of the later, and the other
\* failure is retained as group member or cause.
Combine(earlier, later) ==
  CASE earlier = NoFailure -> later
    [] earlier.head = "ordinary" /\ later.head = "control" ->
         [later EXCEPT !.retained = @ \cup earlier.retained]
    [] OTHER -> [earlier EXCEPT !.retained = @ \cup later.retained]

----------------------------------------------------------------------------
CacheInit ==
  /\ results = <<>>
  /\ failures = {}
  /\ retired = <<>>
  /\ phase = "open"
  /\ pending = <<>>
  /\ closes = <<>>
  /\ failure = NoFailure
  /\ badCloses = <<>>
  /\ acquired = <<>>
  /\ commits = 0
  /\ plain = TRUE

Publishing ==
  /\ phase = "open"
  /\ commits < CommitLimit
  /\ commits' = commits + 1
  /\ UNCHANGED <<phase, pending, closes, failure, badCloses>>

\* A body returns an object it has just created or one published before.
CommitResult(name, object) ==
  LET previous == name \in Keys(results)
      known == object \in ToSet(acquired) IN
  /\ Publishing
  /\ (MayAlias /\ known) \/ object = Len(acquired) + 1
  /\ retired' = IF previous /\ Lookup(results, name) # object
                THEN Append(retired, Lookup(results, name))
                ELSE retired
  /\ results' = Put(results, name, object)
  /\ failures' = failures \ {name}
  /\ acquired' = IF known THEN acquired ELSE Append(acquired, object)
  /\ plain' = (plain /\ ~previous /\ ~known)

CommitFailure(name) ==
  LET previous == name \in Keys(results) IN
  /\ Publishing
  /\ retired' = IF previous THEN Append(retired, Lookup(results, name)) ELSE retired
  /\ results' = Pop(results, name)
  /\ failures' = failures \cup {name}
  /\ plain' = (plain /\ ~previous)
  /\ UNCHANGED acquired

\* A wrong form: shared objects are listed again.
ResourcesWithRepeats == Reverse(retired \o Values(results))

\* reversed([*retired, *results.values()]) with the first occurrence of every
\* identity kept.
Resources ==
  LET listed == Reverse(retired \o Values(results))
      Fresh(i) == \A j \in 1 .. i - 1 : listed[j] # listed[i]
  IN  [k \in 1 .. Cardinality(ToSet(listed)) |->
         listed[CHOOSE i \in DOMAIN listed :
                  Fresh(i) /\ Cardinality({j \in 1 .. i : Fresh(j)}) = k]]

\* The owner tasks have settled: the close loop lists the resources.
BeginRelease ==
  /\ phase = "open"
  /\ phase' = "releasing"
  /\ pending' = Resources
  /\ UNCHANGED <<results, failures, retired, closes, failure, badCloses, acquired,
                 commits, plain>>

\* One resource is closed; a failure is noted and the loop goes on.  The failures are
\* combined in the order they were noted, which the code does when all are known.
ReleaseNext(how) ==
  /\ phase = "releasing"
  /\ pending # <<>>
  /\ pending' = Tail(pending)
  /\ closes' = Append(closes, Head(pending))
  /\ badCloses' = IF how = "ok" THEN badCloses ELSE Append(badCloses, <<how, Head(pending)>>)
  /\ failure' = IF how = "ok" THEN failure ELSE Combine(failure, Failing(how, Head(pending)))
  /\ UNCHANGED <<results, failures, retired, phase, acquired, commits, plain>>

\* The finally block empties the cache.
FinishClose ==
  /\ phase = "releasing"
  /\ pending = <<>>
  /\ results' = <<>>
  /\ failures' = {}
  /\ retired' = <<>>
  /\ phase' = "closed"
  /\ UNCHANGED <<pending, closes, failure, badCloses, acquired, commits, plain>>

\* The close task is done; every later close call sees its outcome.
Closed == phase = "closed" /\ UNCHANGED cacheVars

CacheNext ==
  \/ \E name \in Name, object \in Object : CommitResult(name, object)
  \/ \E name \in Name : CommitFailure(name)
  \/ BeginRelease
  \/ \E how \in CloseResult : ReleaseNext(how)
  \/ FinishClose
  \/ Closed

CacheSpec == CacheInit /\ [][CacheNext]_cacheVars

----------------------------------------------------------------------------
\* Properties

\* Snapshots, retirements and closes are over this Frame's names and objects.
CacheTypeOK ==
  /\ results \in Seq(Name \X Object)
  /\ failures \subseteq Name
  /\ retired \in Seq(Object)
  /\ phase \in {"open", "releasing", "closed"}
  /\ pending \in Seq(Object)
  /\ closes \in Seq(Object)
  /\ failure.head \in {"none", "ordinary", "control"}
  /\ failure.retained \subseteq Object
  /\ badCloses \in Seq(CloseResult \X Object)
  /\ acquired \in Seq(Object)
  /\ commits \in Nat
  /\ plain \in BOOLEAN

\* No object is lost or closed twice, however often it was published, replaced
\* by a value or a failure, or published under several names.
ReleasedExactlyOnce ==
  phase = "closed" =>
    /\ ToSet(closes) = ToSet(acquired)
    /\ Len(closes) = Len(acquired)

\* Without recalculation and without shared objects, objects are closed in the
\* reverse of the order they were published in: dependants before what they
\* were built from, failure snapshots in between or not.  (After a recalculation
\* they are not: a replaced result keeps its key's place, cache_lifecycle.py:118.)
ReverseWhenPlain ==
  phase = "closed" /\ plain => closes = Reverse(acquired)

\* The failure close raises is a control signal exactly when some close raised
\* one, it is the first such signal, and no cleanup failure is dropped.
CleanupFailureComplete ==
  phase = "closed" =>
    LET controls == {i \in DOMAIN badCloses : badCloses[i][1] = "control"}
        FirstIn(indices) == badCloses[CHOOSE i \in indices : \A j \in indices : i <= j]
        lead == IF controls # {} THEN FirstIn(controls)
                ELSE IF badCloses # <<>> THEN FirstIn(DOMAIN badCloses)
                ELSE <<"none", 0>>
    IN  /\ failure.head = lead[1]
        /\ failure.first = lead[2]
        /\ failure.retained = {badCloses[i][2] : i \in DOMAIN badCloses}

\* What the close loop releases is well formed, complete and in order, and so is
\* the failure it raises (cache_lifecycle.py:118-127).
CacheInv == CacheTypeOK /\ ReleasedExactlyOnce /\ ReverseWhenPlain /\ CleanupFailureComplete

============================================================================
