---------------------------- MODULE FrameBindings ----------------------------
(***************************************************************************)
(* Which binding a name selects in a chain of Frames                       *)
(* (runtime/frame/binding_lookup.py), while Frames are created, given host *)
(* values, lent default values and closed.                                 *)
(*                                                                         *)
(* frames is the sequence of the Frames made so far; a Frame is its place  *)
(* in it, and its parent is an earlier place or 0.  scopes is the stack    *)
(* of default scopes of the running task (DEFAULT_SCOPES).  expected has   *)
(* the names that were bound around each Frame when it was made.           *)
(***************************************************************************)
EXTENDS BindingNames, SequencesExt

CONSTANTS Offers,       \* what Frames are made of: a Module and a declaration of host values
          Updates,      \* the declarations of host values that come later
          Defaults,     \* the declarations of defaults that are lent to Frames
          Lookups,      \* the names asked for
          MaxFrames,    \* a bound on the Frames made
          MaxEvents     \* a bound on all that happens to Frames after they are made

VARIABLES frames, expected, scopes, events
bindingVars == <<frames, expected, scopes, events>>

Frame == DOMAIN frames
None == 0

(* The chain of each Frame: the Frame, then all above it. *)
Chains(fs) ==
    LET chain[frame \in 0..Len(fs)] == IF frame = None THEN <<>> ELSE <<frame>> \o chain[fs[frame].parent]
    IN chain
OwnersIn(fs, frame) == Range(Chains(fs)[frame])
walk_hierarchy(frame) == Chains(frames)[frame]
Owners(frame) == OwnersIn(frames, frame)

(* default_frame_scope.py: the innermost scope that covers the Frame, then
   the nearest Frame defaults were attached to. *)
default_frame_for(frame) ==
    LET covering == {k \in DOMAIN scopes : frame \in scopes[k].owners \/ scopes[k].root \in Owners(frame)}
        attached == {owner \in Owners(frame) : frames[owner].default # None}
    IN IF covering # {} THEN scopes[Max(covering)].defaults
       ELSE IF attached # {} THEN frames[Max(attached)].default ELSE None

local_binding_kind(frame, name) ==
    LET definitions == frames[frame].module.definitions
        values == frames[frame].values
    IN CASE name \in DOMAIN definitions ->
              IF definitions[name].kind = "runtime" THEN IF name \in DOMAIN values THEN "host" ELSE "runtime"
              ELSE IF is_frame_proxy(definitions[name]) THEN "proxy" ELSE "real"
         [] name \notin DOMAIN definitions /\ name \in DOMAIN values -> values[name]
         [] OTHER -> IF \E known \in DOMAIN definitions \cup DOMAIN values : name \in Outer(known)
                     THEN "proxy" ELSE "none"

Selection(owner, kind, path) == [owner |-> owner, kind |-> kind, path |-> path]
(* A value in the way hides the defaults below it. *)
Blocked(frame, name) ==
    \E owner \in Owners(frame), prefix \in Outer(name) : local_binding_kind(owner, prefix) \in {"real", "factory"}

(* The first Frame that decides: a value, or a proxy it declares a namespace.
   Otherwise the first inferred proxy, unless the name is reserved for the
   run; then the defaults; then the reservation.  kinds are those of the name
   along the chain, declared the places where it is declared a namespace.
   A wrong form: the defaults come before the inferred proxies. *)
Deciding(kinds, declared) ==
    {k \in DOMAIN kinds : kinds[k] \in {"real", "host", "factory"} \/ (kinds[k] = "proxy" /\ k \in declared)}
Being(kinds, kind) == {k \in DOMAIN kinds : kinds[k] = kind}
SelectedAt(chain, kinds, k) == Selection(chain[k], kinds[k], SubSeq(chain, 1, k))
DefaultsFirst(chain, kinds, declared, defaults, lent) ==
    IF Deciding(kinds, declared) # {} THEN SelectedAt(chain, kinds, Min(Deciding(kinds, declared)))
    ELSE IF lent # "none" THEN Selection(defaults, lent, Append(chain, defaults))
    ELSE IF Being(kinds, "proxy") # {} THEN SelectedAt(chain, kinds, Min(Being(kinds, "proxy")))
    ELSE Selection(None, "none", chain)
FirstBinding(chain, kinds, declared, defaults, lent) ==
    IF Deciding(kinds, declared) # {} THEN SelectedAt(chain, kinds, Min(Deciding(kinds, declared)))
    ELSE IF Being(kinds, "proxy") # {} /\ Being(kinds, "runtime") = {}
      THEN SelectedAt(chain, kinds, Min(Being(kinds, "proxy")))
    ELSE IF lent # "none" THEN Selection(defaults, lent, Append(chain, defaults))
    ELSE IF Being(kinds, "runtime") # {} THEN SelectedAt(chain, kinds, Min(Being(kinds, "runtime")))
    ELSE Selection(None, "none", chain)

kinds_along(frame, name) ==
    LET chain == walk_hierarchy(frame) IN [k \in DOMAIN chain |-> local_binding_kind(chain[k], name)]
declared_along(frame, name) ==
    LET chain == walk_hierarchy(frame) IN {k \in DOMAIN chain : name \in frames[chain[k]].module.namespaces}
lent_kind(frame, name) ==
    LET defaults == default_frame_for(frame)
    IN IF defaults = None \/ Blocked(frame, name) THEN "none" ELSE local_binding_kind(defaults, name)
select_binding(frame, name) ==
    FirstBinding(walk_hierarchy(frame), kinds_along(frame, name), declared_along(frame, name),
             default_frame_for(frame), lent_kind(frame, name))
Found(frame, name) == select_binding(frame, name).owner # None

is_name_masked(frame, name) ==
    LET defaults == default_frame_for(frame)
    IN \/ \E owner \in Owners(frame) : name \in frames[owner].masked
       \/ defaults # None /\ name \in frames[defaults].masked

OwnNames(frame) == DOMAIN frames[frame].module.definitions \cup DOMAIN frames[frame].values
hierarchy_binding_names(frame) ==
    LET above == UNION {OwnNames(owner) : owner \in Owners(frame)}
        defaults == default_frame_for(frame)
    IN above \cup IF defaults = None THEN {} ELSE {name \in OwnNames(defaults) \ above : Found(frame, name)}

(* scoped_proxy.py: the names one level below a path. *)
field_names(frame, path) ==
    {name[Len(path) + 1] : name \in {n \in hierarchy_binding_names(frame) : path \in Outer(n)}}
(* FrameProxy.resolve_attribute: what the attribute of a proxy is. *)
resolve_attribute(frame, path, name) ==
    LET selected == select_binding(frame, Child(path, name))
    IN IF selected.owner = None THEN "unknown" ELSE IF selected.kind = "proxy" THEN "proxy" ELSE "value"

-----------------------------------------------------------------------------
(* Checks of a hierarchy, over the Frames as they would be. *)
hierarchy_real_names(fs, frame) ==
    UNION {real_binding_names(fs[owner].module.definitions, fs[owner].values) : owner \in OwnersIn(fs, frame)}
validate_frame_hierarchy(fs, frame) ==
    /\ validate_real_conflicts(hierarchy_real_names(fs, frame))
    /\ validate_namespace_conflicts(UNION {fs[owner].module.namespaces : owner \in OwnersIn(fs, frame)},
                                    hierarchy_real_names(fs, frame))

Children(fs, frame) == {child \in DOMAIN fs : fs[child].parent = frame}
IsOpen(fs, frame) == ~ fs[frame].closing
(* A closing Frame is passed over, and all below it with it: the Frames that
   are met are those reached from the one updated through open Frames only. *)
Reaches(fs, frame, below) ==
    /\ frame \in OwnersIn(fs, below)
    /\ \A owner \in OwnersIn(fs, below) : frame \in OwnersIn(fs, owner) => IsOpen(fs, owner)
(* A wrong form: only the Frame that is updated is checked. *)
MixinChecksOwnOnly(fs, frame) == validate_frame_hierarchy(fs, frame)
validate_mixin_tree(fs, frame) ==
    \A below \in DOMAIN fs : Reaches(fs, frame, below) => validate_frame_hierarchy(fs, below)

-----------------------------------------------------------------------------
Lent == {frame \in Frame : frames[frame].lent}
Happens == events < MaxEvents /\ events' = events + 1

BindingInit == frames = <<>> /\ expected = <<>> /\ scopes = <<>> /\ events = 0

NewFrame(module, normalized, parent, native) ==
    [module |-> module, values |-> normalized.values, parent |-> parent, native |-> native,
     masked |-> module.masked \cup normalized.masked, closing |-> FALSE, default |-> None, lent |-> FALSE]
(* What is expected of a Frame are the names bound around it in its first state. *)
MadeLast == expected' = Append(expected, hierarchy_binding_names(Len(frames))')

(* Frame.__init__ and derive: the Frame is kept when its hierarchy is valid. *)
Create(module, values, parent, native) ==
    LET normalized == normalize_masked_mapping(values, {})
        grown == Append(frames, NewFrame(module, normalized, parent, native))
    IN /\ Cardinality(Frame \ Lent) < MaxFrames
       /\ Accepted(normalized)
       /\ validate_frame_hierarchy(grown, Len(grown))
       /\ frames' = grown
       /\ UNCHANGED <<scopes, events>>
       /\ MadeLast

(* update_host_bindings: all values of the update, or none. *)
Mixin(frame, values) ==
    LET normalized == normalize_masked_mapping(values, {})
        updated == [frames EXCEPT ![frame].values = Merged(@, normalized.values),
                                  ![frame].masked = @ \cup normalized.masked]
    IN /\ Happens
       /\ IsOpen(frames, frame)
       /\ Accepted(normalized)
       /\ validate_mixin_tree(updated, frame)
       /\ frames' = updated
       /\ UNCHANGED <<expected, scopes>>

(* create_default_frame: factories become definitions that call them, literals
   become values. *)
Call == [kind |-> "expression", references |-> {}]
Declaring(declared, kind, as) ==
    {[name |-> entry.name, marked |-> entry.marked, bound |-> as] : entry \in {e \in declared : e.bound = kind}}
create_default_frame(declared) ==
    LET module == Module(Declaring(declared, "factory", Call), {}, {})
        normalized == normalize_masked_mapping(Declaring(declared, "value", "real"), {})
        grown == Append(frames, [NewFrame(module, normalized, None, FALSE) EXCEPT !.lent = TRUE])
    IN IF ~ Accepted(module) \/ ~ Accepted(normalized) \/ ~ validate_frame_hierarchy(grown, Len(grown))
       THEN Refused ELSE [refused |-> FALSE, frames |-> grown]

(* attach_defaults, which cli/frame_binding.py calls for a Frame nothing is
   derived from yet, below Frames that have no defaults. *)
AttachDefaults(frame, declared) ==
    LET made == create_default_frame(declared)
    IN /\ Happens
       /\ Children(frames, frame) = {}
       /\ \A owner \in Owners(frame) : frames[owner].default = None
       /\ Accepted(made)
       /\ frames' = [made.frames EXCEPT ![frame].default = Len(made.frames)]
       /\ UNCHANGED scopes
       /\ MadeLast

(* default_scope, entered with the defaults the root has no binding for
   (workflow/variable_default.py): the Frames above it are covered as they
   are now. *)
EnterScope(root, declared) ==
    LET made == create_default_frame(declared)
    IN /\ Happens
       /\ \A entry \in declared : ~ Found(root, entry.name)
       /\ Accepted(made)
       /\ frames' = made.frames
       /\ scopes' = Append(scopes, [root |-> root, owners |-> Owners(root), defaults |-> Len(made.frames)])
       /\ MadeLast
(* The scope is left before the Frame of its defaults is closed. *)
LeaveScope ==
    /\ Happens
    /\ scopes # <<>>
    /\ scopes' = Front(scopes)
    /\ frames' = [frames EXCEPT ![Last(scopes).defaults].closing = TRUE]
    /\ UNCHANGED expected

Close(frame) ==
    /\ Happens
    /\ IsOpen(frames, frame)
    /\ frames' = [frames EXCEPT ![frame].closing = TRUE]
    /\ UNCHANGED <<expected, scopes>>

(* One tree of Frames: others have no name in common with it. *)
Parents == IF Frame \ Lent = {} THEN {None} ELSE Frame \ Lent
BindingNext ==
    \/ \E offer \in Offers, parent \in Parents :
          Create(offer.module, offer.values, parent, parent = None)
    \/ \E frame \in Frame \ Lent, values \in Updates : Mixin(frame, values)
    \/ \E frame \in Frame \ Lent, declared \in Defaults : AttachDefaults(frame, declared)
    \/ \E root \in Frame \ Lent, declared \in Defaults : EnterScope(root, declared)
    \/ LeaveScope
    \/ \E frame \in Frame \ Lent : Close(frame)
BindingSpec == BindingInit /\ [][BindingNext]_bindingVars

-----------------------------------------------------------------------------
(* A Frame in use: it and all Frames above it are open. *)
Usable(frame) == \A owner \in Owners(frame) : IsOpen(frames, owner)

(* No Frame in use has a value at a name inside another value's name, in its
   own bindings and those of all Frames above it together: an update of a
   Frame may never make a name ambiguous in the Frames below it
   (validate_mixin_tree). *)
NamesUnambiguous == \A frame \in Frame : Usable(frame) => validate_frame_hierarchy(frames, frame)

(* Every name a Frame in use can read can also be read attribute by attribute:
   each name around it is a proxy or a factory, and the fields a proxy lists
   are exactly the attributes it resolves (FrameProxy).  Left out is the one
   case where the code does not see to it: defaults are lent below a name that
   was reserved and then given a host value. *)
BelowHost(frame, name) ==
    \E owner \in Owners(frame), path \in Outer(name) : local_binding_kind(owner, path) = "host"
NamesReachable ==
    \A frame \in {f \in Frame \ Lent : Usable(f)}, name \in Lookups : ~ BelowHost(frame, name) =>
       /\ select_binding(frame, name).kind \in {"real", "host", "runtime"} =>
            \A path \in Outer(name) : select_binding(frame, path).kind \in {"proxy", "factory"}
       /\ \A field \in {n[Len(n)] : n \in Lookups} :
            (field \in field_names(frame, name)) <=> (resolve_attribute(frame, name, field) # "unknown")

(* Defaults lent to a run only fill in: they give a binding to names that had
   none or were reserved for the run, leave every other selection as it was,
   and no mask is lost but those of a scope that is left. *)
DefaultsOnlyFill ==
    [][\A frame \in Frame, name \in Lookups :
         LET before == select_binding(frame, name)
             lends == (\E k \in Frame' : k \notin Frame /\ k \in Lent') \/ Len(scopes') # Len(scopes)
         IN /\ lends /\ before.kind \notin {"none", "runtime"} /\ before.owner \in Owners(frame)
                 => select_binding(frame, name)' = before
            /\ Len(scopes') = Len(scopes) /\ is_name_masked(frame, name) => is_name_masked(frame, name)']_bindingVars

(* docs/reference/runtime.md:272: the check of an update covers every open Frame
   below the one updated. *)
OpenDescendantsChecked ==
    \A frame \in Frame : IsOpen(frames, frame) => validate_frame_hierarchy(frames, frame)
=============================================================================
