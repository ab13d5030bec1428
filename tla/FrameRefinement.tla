-------------------------- MODULE FrameRefinement --------------------------
(***************************************************************************)
(* Owner tasks, flights and the close task implement SnapshotStore.        *)
(***************************************************************************)
EXTENDS FrameEvaluation

LifeOf(f) ==
  IF phase[f] \in {"closing", "gathering"} THEN "closing"
  ELSE IF phase[f] = "releasing" THEN "disposing" ELSE phase[f]

Requests(c) == IF call[c].ask.op \in {"get", "recalculate"} THEN {call[c].ask.def} ELSE {}

\* The publications a caller may be answered with: for a get that was not
\* refused, from the one that was current when it asked; otherwise later ones.
FromNow(c) == call[c].ask.op = "get" /\ answer[c].how # "closed"
Counts(c, i) == i > call[c].since \/ (FromNow(c) /\ i = call[c].since)

AnswersFor(c) ==
  UNION {{history[d][i] : i \in {j \in DOMAIN history[d] : Counts(c, j)}} : d \in Requests(c)}

\* What the store's users see of the runtime's state.
Shown == [d \in Def |-> IF Cached(d) THEN results[d] ELSE failed[d]]
Life == [f \in Frame |-> LifeOf(f)]
Owned == [f \in Frame |-> IF phase[f] = "closed" THEN released[f] ELSE Held(f)]
Wanted == [c \in Caller |-> Requests(c)]
Acceptable == [c \in Caller |-> AnswersFor(c)]
ServedBy(c) == IF answer[c].how \in {"value", "failure"} THEN answer[c].of ELSE NoTask
Served == [c \in Caller |-> ServedBy(c)]

Store == INSTANCE SnapshotStore WITH
  Snapshot <- Task,
  Object <- Task,
  shown <- Shown,
  life <- Life,
  owned <- Owned,
  disposed <- released,
  wants <- Wanted,
  acceptable <- Acceptable,
  served <- Served

\* However requests, refreshes, cancellations and closes interleave, callers
\* see only the store's promises: no answer older than the request allows, no
\* publication once disposal has begun, no object lost or disposed of twice.
ImplementsStore == Store!Spec

============================================================================
