--------------------------- MODULE SnapshotStore ---------------------------
(***************************************************************************)
(* What the runtime promises the users of a Frame hierarchy, with no task, *)
(* flight or cancellation in sight: every definition shows at most one     *)
(* snapshot, a request is answered by a snapshot shown since it was made,  *)
(* and a Frame disposes of every object it published exactly once, after   *)
(* the last publication and before it reports itself closed.               *)
(***************************************************************************)
EXTENDS Naturals

CONSTANTS
  Def, Frame, Caller,
  OwnerOf,    \* [Def -> Frame]
  Snapshot,   \* identities of snapshots, positive numbers
  Object      \* identities of published objects

None == 0

VARIABLES
  shown,       \* per definition: the current snapshot
  life,        \* per Frame: "open", "closing", "disposing", "closed"
  owned,       \* per Frame: objects it published
  disposed,    \* per Frame: objects it closed
  wants,       \* per caller: the definitions it has requested, at most one
  acceptable,  \* per caller: snapshots that may answer its request
  served       \* per caller: the snapshot that did

vars == <<shown, life, owned, disposed, wants, acceptable, served>>

Init ==
  /\ shown = [d \in Def |-> None]
  /\ life = [f \in Frame |-> "open"]
  /\ owned = [f \in Frame |-> {}]
  /\ disposed = [f \in Frame |-> {}]
  /\ wants = [c \in Caller |-> {}]
  /\ acceptable = [c \in Caller |-> {}]
  /\ served = [c \in Caller |-> None]

\* A request may be answered at once.  A get accepts the snapshot shown when
\* it is made, a recalculation only a later one.
Request(c, d) ==
  /\ wants[c] = {}
  /\ wants' = [wants EXCEPT ![c] = {d}]
  /\ \E now \in {{}, {shown[d]} \ {None}} :
       /\ acceptable' = [acceptable EXCEPT ![c] = now]
       /\ \E s \in now \cup {None} : served' = [served EXCEPT ![c] = s]
  /\ UNCHANGED <<shown, life, owned, disposed>>

Serve(c) ==
  /\ served[c] = None
  /\ \E s \in acceptable[c] : served' = [served EXCEPT ![c] = s]
  /\ UNCHANGED <<shown, life, owned, disposed, wants, acceptable>>

\* A value snapshot brings one object into the Frame's care, a failure none.
Publish(d, s, objects) ==
  /\ life[OwnerOf[d]] \in {"open", "closing"}
  /\ shown' = [shown EXCEPT ![d] = s]
  /\ owned' = [owned EXCEPT ![OwnerOf[d]] = @ \cup objects]
  /\ acceptable' = [c \in Caller |->
                      IF d \in wants[c] THEN acceptable[c] \cup {s} ELSE acceptable[c]]
  /\ UNCHANGED <<life, disposed, wants, served>>

BeginClose(f) ==
  /\ life[f] = "open"
  /\ life' = [life EXCEPT ![f] = "closing"]
  /\ UNCHANGED <<shown, owned, disposed, wants, acceptable, served>>

BeginDisposal(f) ==
  /\ life[f] = "closing"
  /\ life' = [life EXCEPT ![f] = "disposing"]
  /\ UNCHANGED <<shown, owned, disposed, wants, acceptable, served>>

Dispose(f, v) ==
  /\ life[f] = "disposing"
  /\ v \in owned[f] \ disposed[f]
  /\ disposed' = [disposed EXCEPT ![f] = @ \cup {v}]
  /\ UNCHANGED <<shown, life, owned, wants, acceptable, served>>

FinishClose(f) ==
  /\ life[f] = "disposing"
  /\ disposed[f] = owned[f]
  /\ life' = [life EXCEPT ![f] = "closed"]
  /\ shown' = [d \in Def |-> IF OwnerOf[d] = f THEN None ELSE shown[d]]
  /\ UNCHANGED <<owned, disposed, wants, acceptable, served>>

Next ==
  \/ \E c \in Caller : Serve(c) \/ \E d \in Def : Request(c, d)
  \/ \E d \in Def, s \in Snapshot : \E objects \in {{}} \cup {{v} : v \in Object} :
       Publish(d, s, objects)
  \/ \E f \in Frame : \/ BeginClose(f) \/ BeginDisposal(f) \/ FinishClose(f)
                      \/ \E v \in Object : Dispose(f, v)

Spec == Init /\ [][Next]_vars

============================================================================
