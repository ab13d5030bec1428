--------------------------- MODULE DependencyGraphs ---------------------------
(***************************************************************************)
(* What is known of the names a definition reads, before and after it is   *)
(* read: the static graphs of a Module and of a chain of Frames, the tree  *)
(* an inspection shows, and the snapshot that compares the static edges    *)
(* with the reads that were traced (runtime/dependency/, inspection and    *)
(* snapshots of runtime/frame/).                                           *)
(***************************************************************************)
EXTENDS FrameBindings

(* An expression here reads all its references, eagerly; which of them are
   conditional or deferred is StaticDependencies.  A reference is a path; it
   counts as one name when its root is the root of a scoped name. *)
Qualify(path, scoped_names) ==
    IF path[1] \in {name[1] : name \in {n \in scoped_names : Len(n) > 1}} THEN path ELSE SubSeq(path, 1, 1)
analyze_dependencies(definition, scoped_names) ==
    {[path |-> path, name |-> Qualify(path, scoped_names)] : path \in definition.references}

Edge(source, name, span) == [source |-> source, target |-> name, span |-> span]
build_module_dependency_graph(module, scoped_names) ==
    [definitions |-> DOMAIN module.definitions,
     edges |-> UNION {{Edge(source, r.name, <<r.path, Len(r.name)>>) :
                          r \in analyze_dependencies(module.definitions[source], scoped_names)} :
                      source \in DOMAIN module.definitions}]
dependencies(graph, source) == {edge \in graph.edges : edge.source = source}
external_names(graph) == {edge.target : edge \in {e \in graph.edges : e.target \notin graph.definitions}}

(* The graph of a chain of Frames: its bindings by owner, and each edge with
   the binding it was resolved to. *)
Binding(owner, name, kind) == [owner |-> owner, name |-> name, kind |-> kind]
NoBinding == Binding(None, <<>>, "none")
BindingAt(owner, name) ==
    LET definitions == DOMAIN frames[owner].module.definitions
    IN IF name \in definitions THEN Binding(owner, name, "definition")
       ELSE IF name \in DOMAIN frames[owner].values THEN Binding(owner, name, "value") ELSE NoBinding
collect_frames(frame) == walk_hierarchy(frame)
(* The owner is found by its distance in the chain: what the defaults bind
   is beyond it.  A wrong form: the path is counted from the root asked. *)
ResolvedFromRoot(chain, index, name) ==
    LET selected == select_binding(chain[1], name)
        place == Len(selected.path)
    IN IF place \in DOMAIN chain THEN BindingAt(chain[place], name) ELSE NoBinding
resolve_frame_binding(chain, index, name) ==
    LET selected == select_binding(chain[index], name)
        place == index + Len(selected.path) - 1
    IN IF place \in DOMAIN chain THEN BindingAt(chain[place], name) ELSE NoBinding
edges_for_node(chain, index, source) ==
    LET scoped == UNION {OwnNames(chain[k]) : k \in index..Len(chain)}
    IN {[source |-> Binding(chain[index], source, "definition"), name |-> r.name,
         target |-> resolve_frame_binding(chain, index, r.name)] :
           r \in analyze_dependencies(frames[chain[index]].module.definitions[source], scoped)}
build_frame_dependency_graph(frame) ==
    LET chain == collect_frames(frame)
        all == {BindingAt(owner, name) : owner \in Range(chain), name \in UNION {OwnNames(o) : o \in Range(chain)}} \ {NoBinding}
    IN [root |-> frame,
        definitions |-> {binding \in all : binding.kind = "definition"},
        values |-> {binding \in all : binding.kind = "value"},
        edges |-> UNION {UNION {edges_for_node(chain, index, source) :
                                   source \in DOMAIN frames[chain[index]].module.definitions} :
                            index \in DOMAIN chain}]

(* inspection_builder.py; nothing is cached here, so a definition that was
   selected is not evaluated.  A node lists what it reads, once per name. *)
HasDefinition(selected, name) ==
    selected.kind # "host" /\ name \in DOMAIN frames[selected.owner].module.definitions
StatusOf(selected, name) ==
    IF selected.owner = None THEN "NotEvaluated"
    ELSE IF selected.kind = "proxy" THEN "FrameProxy"
    ELSE IF HasDefinition(selected, name) THEN "NotEvaluated"
    ELSE IF frames[selected.owner].native THEN "NativeProvided" ELSE "ExternalProvided"
RECURSIVE build_inspection_tree(_, _, _)
build_inspection_tree(origin, name, ancestors) ==
    LET selected == select_binding(origin, name)
        owner == selected.owner
        key == <<owner, name>>
        expands == /\ owner # None /\ selected.kind # "proxy"
                   /\ HasDefinition(selected, name) /\ key \notin ancestors
    IN [name |-> name, owner |-> owner, status |-> StatusOf(selected, name),
        masked |-> is_name_masked(origin, name),
        dependencies |-> IF ~ expands THEN {}
            ELSE {build_inspection_tree(owner, r.name, ancestors \cup {key}) :
                    r \in analyze_dependencies(frames[owner].module.definitions[name], hierarchy_binding_names(owner))}]
inspect_variable(frame, name) == build_inspection_tree(frame, name, {})

(* A read of a path stops at the first name that is not a proxy; the trace
   records that name and where it was read, or nothing when a proxy has no
   such attribute (TracingResolver, FrameProxy.resolve_attribute). *)
RECURSIVE TracedRead(_, _, _)
TracedRead(owner, path, k) ==
    LET selected == select_binding(owner, SubSeq(path, 1, k))
    IN IF selected.kind \in {"proxy", "factory"} /\ k < Len(path) THEN TracedRead(owner, path, k + 1)
       ELSE IF selected.owner = None /\ k > 1 THEN 0 ELSE k
record(owner, source, path) ==
    LET read == TracedRead(owner, path, 1)
    IN IF read = 0 THEN {} ELSE {Edge(source, SubSeq(path, 1, read), <<path, read>>)}

reconcile_dependency_edges(static_edges, dynamic_edges) ==
    [confirmed |-> static_edges \cap dynamic_edges,
     inactive |-> static_edges \ dynamic_edges,
     unexpected |-> dynamic_edges \ static_edges]
(* The static edges are those of the Frame as it was made. *)
dependency_snapshot(frame, name) ==
    reconcile_dependency_edges(
        dependencies(build_module_dependency_graph(frames[frame].module, expected[frame]), name),
        UNION {record(frame, name, path) : path \in frames[frame].module.definitions[name].references})

-----------------------------------------------------------------------------
RECURSIVE TreeReads(_)
TreeReads(tree) ==
    {[source |-> <<tree.owner, tree.name>>, target |-> <<child.owner, child.name>>] : child \in tree.dependencies}
    \cup UNION {TreeReads(child) : child \in tree.dependencies}
LentIn(frame) == {default_frame_for(owner) : owner \in Owners(frame)} \ {None}

(* What is foretold of a definition is what a read of it meets: the tree of an
   inspection has the same edges as the graph of the Frames, where both are
   asked of Frames without defaults; and a read is an expected edge of the
   snapshot as long as no name was bound after the Frame was made and the
   reference names a binding that is not lent below a host value. *)
TracesForetold ==
    \A frame \in {f \in Frame \ Lent : Usable(f)} :
       LET graph == build_frame_dependency_graph(frame) IN
       /\ \A name \in Lookups : LentIn(frame) = {} =>
            \A read \in TreeReads(inspect_variable(frame, name)) :
               \E edge \in graph.edges :
                  /\ <<edge.source.owner, edge.source.name>> = read.source
                  /\ edge.name = read.target[2]
                  /\ read.target[1] # None /\ edge.target # NoBinding => edge.target.owner = read.target[1]
       /\ \A name \in DOMAIN frames[frame].module.definitions :
            (/\ expected[frame] = hierarchy_binding_names(frame)
             /\ \A path \in frames[frame].module.definitions[name].references :
                   /\ select_binding(frame, path).kind \in {"real", "host", "runtime"}
                   /\ ~ BelowHost(frame, path))
            => dependency_snapshot(frame, name).unexpected = {}

(* What can be asked of a Frame's names before a read is what the read finds:
   the names around a name and the fields of a proxy, and the names that the
   evaluation of a definition meets. *)
ReadsForetold == NamesReachable /\ TracesForetold
=============================================================================
