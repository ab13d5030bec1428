--------------------------- MODULE TopologicalOrder ---------------------------
(***************************************************************************)
(* The order in which the definitions of a Module can be evaluated         *)
(* (runtime/dependency/dependency_ordering.py): Kahn's algorithm, then,    *)
(* where definitions are left over, a depth-first walk for the circle to   *)
(* report.  One iteration of a loop is one step.  An edge is [source,      *)
(* target, kind] and is known by its position in the graph; a list of      *)
(* edges in the order of the graph is the set of their positions, gone     *)
(* through from the least.                                                 *)
(***************************************************************************)
EXTENDS Naturals, Sequences, SequencesExt, FiniteSets, Functions

CONSTANTS Definitions,      \* the definitions of a Module, in their order
          Externals,        \* names it does not define
          MaxEdges          \* bound: references that its definitions have

\* DependencyGraph refuses a name that is defined twice.
ASSUME DefinitionsAssumption ==
    /\ Definitions \in Seq(Range(Definitions))
    /\ \A i, j \in DOMAIN Definitions : Definitions[i] = Definitions[j] => i = j

VARIABLES edges,            \* of the graph, in the order of the source
          selection,        \* the kinds of edges asked for
          doing,            \* what the call is at, or how it ended
          listed,           \* index of the next definition looked at
          remaining, ready, ordered,   \* Kahn's algorithm
          due,              \* edges to the last definition ordered, still to go through
          mark, path,       \* the walk: 0 unseen, 1 on the path, 2 done
          left,             \* edges of each definition the walk has not followed
          circle, closing   \* what is reported

orderVars == <<edges, selection, doing, listed, remaining, ready, ordered, due,
               mark, path, left, circle, closing>>

Kinds == {"eager", "conditional"}
Local == Range(Definitions)

OrderInit ==
    /\ edges = <<>> /\ selection = {} /\ doing = "referring" /\ listed = 1
    /\ remaining = [name \in Local |-> 0] /\ ready = <<>> /\ ordered = <<>> /\ due = {}
    /\ mark = [name \in Local |-> 0] /\ path = <<>> /\ left = [name \in Local |-> {}]
    /\ circle = <<>> /\ closing = 0

(* build_module_dependency_graph: the next reference, of the definition whose
   references are listed or of a later one. *)
Refer ==
    /\ doing = "referring" /\ Len(edges) < MaxEdges
    /\ \E place \in DOMAIN Definitions, target \in Local \cup Externals, kind \in Kinds :
         /\ \A k \in DOMAIN edges : \E earlier \in 1..place : edges[k].source = Definitions[earlier]
         /\ edges' = Append(edges, [source |-> Definitions[place], target |-> target, kind |-> kind])
    /\ UNCHANGED <<selection, doing, listed, remaining, ready, ordered, due, mark, path, left,
                   circle, closing>>

-----------------------------------------------------------------------------
(* topological_order *)

Chosen(kinds) == {k \in DOMAIN edges : edges[k].kind \in kinds /\ edges[k].target \in Local}
Selected == Chosen(selection)
From(name) == {k \in Selected : edges[k].source = name}
To(name) == {k \in Selected : edges[k].target = name}
IsNext(k, positions) == k \in positions /\ \A j \in positions : k <= j

Ask(kinds) ==
    /\ doing = "referring"
    /\ doing' = "ordering" /\ selection' = kinds
    /\ remaining' = [name \in Local |->
                       Cardinality({k \in Chosen(kinds) : edges[k].source = name})]
    /\ UNCHANGED <<edges, listed, ready, ordered, due, mark, path, left, circle, closing>>

(* The definitions that wait for nothing are ready. *)
List ==
    /\ doing = "ordering" /\ listed <= Len(Definitions)
    /\ listed' = listed + 1
    /\ ready' = IF remaining[Definitions[listed]] = 0 THEN Append(ready, Definitions[listed])
                ELSE ready
    /\ UNCHANGED <<edges, selection, doing, remaining, ordered, due, mark, path, left,
                   circle, closing>>

Take ==
    /\ doing = "ordering" /\ listed > Len(Definitions) /\ due = {} /\ ready # <<>>
    /\ ready' = Tail(ready)
    /\ ordered' = Append(ordered, Head(ready))
    /\ due' = To(Head(ready))
    /\ UNCHANGED <<edges, selection, doing, listed, remaining, mark, path, left, circle, closing>>

(* A dependant has one edge less to wait for. *)
Release ==
    /\ doing = "ordering"
    /\ \E k \in due :
         LET dependant == edges[k].source IN
         /\ IsNext(k, due)
         /\ due' = due \ {k}
         /\ remaining' = [remaining EXCEPT ![dependant] = @ - 1]
         /\ ready' = IF remaining[dependant] = 1 THEN Append(ready, dependant) ELSE ready
    /\ UNCHANGED <<edges, selection, doing, listed, ordered, mark, path, left, circle, closing>>

(* All that was ready is ordered: either everything, or there is a circle. *)
Conclude ==
    /\ doing = "ordering" /\ listed > Len(Definitions) /\ due = {} /\ ready = <<>>
    /\ IF Len(ordered) = Len(Definitions)
       THEN doing' = "ordered" /\ UNCHANGED <<listed, mark, path, left>>
       ELSE /\ doing' = "searching" /\ listed' = 1
            /\ mark' = [name \in Local |-> 0] /\ path' = <<>>
            /\ left' = [name \in Local |-> From(name)]
    /\ UNCHANGED <<edges, selection, remaining, ready, ordered, due, circle, closing>>

-----------------------------------------------------------------------------
(* internal_find_cycle and internal_closing_edge *)

UnchangedOrder == UNCHANGED <<edges, selection, remaining, ready, ordered, due>>

(* The next definition begins a walk; once there is none, internal_find_cycle
   returns None, which its caller takes for a circle ("lost"). *)
Start ==
    /\ doing = "searching" /\ path = <<>>
    /\ IF listed > Len(Definitions) THEN doing' = "lost" /\ UNCHANGED <<listed, mark, path>>
       ELSE LET start == Definitions[listed] IN
            /\ listed' = listed + 1 /\ UNCHANGED doing
            /\ IF mark[start] = 0
               THEN mark' = [mark EXCEPT ![start] = 1] /\ path' = <<start>>
               ELSE UNCHANGED <<mark, path>>
    /\ UnchangedOrder /\ UNCHANGED <<left, circle, closing>>

(* A wrong form: what leads to the circle is taken for part of it. *)
FromTheStart(name) == 1
PositionOf(name) == CHOOSE i \in DOMAIN path : path[i] = name
CircleTo(target) == Append(SubSeq(path, PositionOf(target), Len(path)), target)
ClosingEdge(cycle) ==
    CHOOSE k \in Selected :
        IsNext(k, {j \in Selected : /\ edges[j].source = cycle[Len(cycle) - 1]
                                    /\ edges[j].target = cycle[Len(cycle)]})

Follow ==
    /\ doing = "searching" /\ path # <<>>
    /\ \E k \in left[Last(path)] :
         LET target == edges[k].target IN
         /\ IsNext(k, left[Last(path)])
         /\ left' = [left EXCEPT ![Last(path)] = @ \ {k}]
         /\ \/ /\ mark[target] = 0
               /\ mark' = [mark EXCEPT ![target] = 1] /\ path' = Append(path, target)
               /\ UNCHANGED <<doing, circle, closing>>
            \/ /\ mark[target] = 1
               /\ doing' = "circular"
               /\ circle' = CircleTo(target) /\ closing' = ClosingEdge(CircleTo(target))
               /\ UNCHANGED <<mark, path>>
            \/ mark[target] = 2 /\ UNCHANGED <<doing, mark, path, circle, closing>>
    /\ UnchangedOrder /\ UNCHANGED listed

StepBack ==
    /\ doing = "searching" /\ path # <<>> /\ left[Last(path)] = {}
    /\ path' = Front(path) /\ mark' = [mark EXCEPT ![Last(path)] = 2]
    /\ UnchangedOrder /\ UNCHANGED <<doing, listed, left, circle, closing>>

OrderNext ==
    \/ Refer \/ \E kinds \in SUBSET Kinds : Ask(kinds)
    \/ List \/ Take \/ Release \/ Conclude \/ Start \/ Follow \/ StepBack
OrderSpec == OrderInit /\ [][OrderNext]_orderVars

-----------------------------------------------------------------------------
(* The order has every definition once, each after those it refers to. *)
IsOrder ==
    /\ Range(ordered) = Local /\ Len(ordered) = Len(Definitions)
    /\ \A k \in Selected : \E i, j \in DOMAIN ordered :
         i < j /\ ordered[i] = edges[k].target /\ ordered[j] = edges[k].source

(* The circle leads along references back to where it begins. *)
IsCircle ==
    /\ Len(circle) >= 2 /\ circle[1] = Last(circle)
    /\ \A i \in 1..(Len(circle) - 1) : \E k \in Selected :
         edges[k].source = circle[i] /\ edges[k].target = circle[i + 1]
    /\ \A i, j \in 1..(Len(circle) - 1) : circle[i] = circle[j] => i = j
    /\ closing \in Selected
    /\ edges[closing].source = circle[Len(circle) - 1]
    /\ edges[closing].target = Last(circle)

(* Every definition comes after those it refers to by an edge of the kinds
   asked for, edges of other kinds and to other names notwithstanding; where
   that fails, the graph has a circle, which is reported with no part twice
   and with the reference that closes it (dependency_ordering.py:55-73). *)
OrderIsRight ==
    /\ doing = "ordered" => IsOrder
    /\ doing = "circular" => IsCircle
    /\ doing # "lost"
=============================================================================
