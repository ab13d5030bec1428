------------------------- MODULE StaticDependencies -------------------------
(***************************************************************************)
(* The static dependencies of a tree (runtime/dependency/): the names it   *)
(* may read from outside, each with how surely it reads it.  A reference   *)
(* is a path of names, <<name>> unless it was qualified, and a kind.       *)
(***************************************************************************)
EXTENDS SyntaxTrees

Strength == [eager |-> 0, conditional |-> 1, deferred |-> 2, dynamic |-> 3]
internal_weaken(current, requested) == IF Strength[current] >= Strength[requested] THEN current ELSE requested

RECURSIVE internal_visit(_, _, _)
VisitAll(nodes, kind, bound) == FlattenSeq([k \in DOMAIN nodes |-> internal_visit(nodes[k], kind, bound)])

(* The clauses from the k-th on, then the head.  All of a generator is
   deferred; elsewhere only the first iterable is sure to be evaluated. *)
RECURSIVE internal_visit_comprehension(_, _, _, _)
(* A wrong form: the target is bound in its own iterable. *)
TargetInIterable(node, k, kind, bound) ==
    LET later == internal_weaken(kind, "conditional") IN
    IF k > Len(node.parts)
    THEN internal_visit(node.parts[1], IF node.kind = "Generator" THEN kind ELSE later, bound)
    ELSE LET scope == bound \cup {node.parts[k].parts[1].label[1]}
         IN internal_visit(node.parts[k].parts[2], IF k = 2 THEN kind ELSE later, scope)
            \o VisitAll(Conditions(node.parts[k]), later, scope)
            \o internal_visit_comprehension(node, k + 1, kind, scope)
internal_visit_comprehension(node, k, kind, bound) ==
    LET later == internal_weaken(kind, "conditional") IN
    IF k > Len(node.parts)
    THEN internal_visit(node.parts[1], IF node.kind = "Generator" THEN kind ELSE later, bound)
    ELSE LET clause == node.parts[k]
             scope == bound \cup {clause.parts[1].label[1]}
         IN internal_visit(clause.parts[2], IF k = 2 THEN kind ELSE later, bound)
            \o VisitAll(Conditions(clause), later, scope)
            \o internal_visit_comprehension(node, k + 1, kind, scope)

internal_visit_handler(handler, kind, bound) ==
    (IF handler.parts[1] = Absent THEN <<>> ELSE internal_visit(handler.parts[1], kind, bound))
    \o internal_visit(handler.parts[2], kind, bound \cup Range(handler.label))
internal_visit_try(node, kind, bound) ==
    LET sometimes == internal_weaken(kind, "conditional")
        handlers == Handlers(node)
    IN internal_visit(node.parts[1], kind, bound)
       \o FlattenSeq([k \in DOMAIN handlers |-> internal_visit_handler(handlers[k], sometimes, bound)])
       \o (IF Last(node.parts) = Absent THEN <<>> ELSE internal_visit(Last(node.parts), kind, bound))

(* The targets of the items before the k-th part are bound in it. *)
InternalVisitWith(node, kind, bound) ==
    FlattenSeq([k \in DOMAIN node.parts |->
        internal_visit(IF k < Len(node.parts) THEN node.parts[k].parts[1] ELSE node.parts[k], kind,
                       bound \cup UNION {Range(node.parts[j].label) : j \in 1..(k - 1)})])

internal_visit(node, kind, bound) ==
    LET part == node.parts
        sometimes == internal_weaken(kind, "conditional")
        (* the first so many children as the node, the others conditional *)
        Sure(n) == FlattenSeq([k \in DOMAIN part |->
                        internal_visit(part[k], IF k <= n THEN kind ELSE sometimes, bound)])
    IN CASE node = Absent         -> <<>>
         [] node.kind = "Name"    -> IF node.label[1] \in bound THEN <<>> ELSE <<<<node.label, kind>>>>
         [] node.kind = "Function" ->
              VisitAll([k \in DOMAIN Parameters(node) |-> Parameters(node)[k].parts[1]], kind, bound)
              \o internal_visit(Last(part), internal_weaken(kind, "deferred"),
                                bound \cup {Parameters(node)[k].label[1] : k \in DOMAIN Parameters(node)})
         [] node.kind = "Generator" -> internal_visit_comprehension(node, 2, internal_weaken(kind, "deferred"), bound)
         [] node.kind \in Comprehensions \ {"Generator"} -> internal_visit_comprehension(node, 2, kind, bound)
         [] node.kind \in {"Boolean", "Coalesce", "Assert"} -> Sure(1)
         [] node.kind = "Compare" -> Sure(2)
         [] node.kind = "Conditional" ->
              internal_visit(part[2], kind, bound) \o VisitAll(<<part[1], part[3]>>, sometimes, bound)
         [] node.kind = "Try"     -> internal_visit_try(node, kind, bound)
         [] node.kind = "With"    -> InternalVisitWith(node, kind, bound)
         [] OTHER                 -> VisitAll(children(node), kind, bound)

(* qualified_dependency.py: a chain of attributes on a name that is the root
   of a scoped name is one reference, by its whole path. *)
RECURSIVE attribute_path(_)
attribute_path(node) ==
    CASE node.kind = "Name" -> node.label
      [] node.kind \in {"Attribute", "SafeAttribute"} /\ attribute_path(node.parts[1]) # <<>> ->
            attribute_path(node.parts[1]) \o node.label
      [] OTHER -> <<>>
RECURSIVE Qualified(_, _)
Qualified(node, roots) ==
    IF attribute_path(node) # <<>> /\ Head(attribute_path(node)) \in roots
    THEN Node("Name", attribute_path(node), <<>>)
    ELSE [node EXCEPT !.parts = [k \in DOMAIN @ |-> Qualified(@[k], roots)]]

(* scoped: the scoped names, as paths. *)
analyze_dependencies(node, scoped) ==
    internal_visit(Qualified(node, {Head(path) : path \in {p \in scoped : Len(p) > 1}}), "eager", {})

(* The kinds each name is read with. *)
KindsOf(node) ==
    LET references == Range(analyze_dependencies(node, {}))
    IN [name \in {r[1][1] : r \in references} |-> {r[2] : r \in {q \in references : q[1] = <<name>>}}]
=============================================================================
