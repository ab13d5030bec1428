----------------------------- MODULE BindingNames -----------------------------
(***************************************************************************)
(* Names of bindings and the immutable values built from them: Modules,    *)
(* Presets and the mappings they are declared with.                        *)
(*                                                                         *)
(* A qualified name a.b is <<"a", "b">>.  A declaration is a set of        *)
(* records [name, marked, bound]: marked says the name was written with    *)
(* the trailing ! of a masked name.  What a definition is bound to is      *)
(* [kind, references], where references are the attribute paths its        *)
(* expression reads; a host value is one of "real", "proxy", "factory".    *)
(***************************************************************************)
EXTENDS Naturals, Sequences, FiniteSets, FiniteSetsExt, Functions

Refused == [refused |-> TRUE]
Accepted(result) == result # Refused

Outer(name) == {SubSeq(name, 1, k) : k \in 1..(Len(name) - 1)}
Child(path, name) == Append(path, name)

(* binding_mask.py: every name once, and every masked name bound. *)
normalize_masked_mapping(declared, masked_names) ==
    LET names == {entry.name : entry \in declared}
    IN IF Cardinality(names) # Cardinality(declared) \/ ~ masked_names \subseteq names THEN Refused
       ELSE [values |-> [name \in names |-> (CHOOSE entry \in declared : entry.name = name).bound],
             masked |-> masked_names \cup {entry.name : entry \in {e \in declared : e.marked}}]

is_frame_proxy(bound) == bound.kind = "proxy"
(* Names that stand for a value of their own, neither proxy nor factory. *)
real_binding_names(definitions, values) ==
    {name \in DOMAIN definitions : ~ is_frame_proxy(definitions[name])}
    \cup {name \in DOMAIN values \ DOMAIN definitions : values[name] = "real"}

validate_real_conflicts(names) == \A name \in names : Outer(name) \cap names = {}
validate_namespace_conflicts(namespaces, names) ==
    \A namespace \in namespaces : (Outer(namespace) \cup {namespace}) \cap names = {}

Proxy == [kind |-> "proxy", references |-> {}]
(* A Module binds each of its namespaces to a proxy unless it is declared. *)
Module(declared, masked_names, namespace_names) ==
    LET normalized == normalize_masked_mapping(declared, masked_names) IN
    IF ~ Accepted(normalized) THEN Refused
    ELSE LET real == real_binding_names(normalized.values, <<>>)
             spaces == [namespace \in namespace_names |-> Proxy]
         IN IF ~ validate_real_conflicts(real) \/ ~ validate_namespace_conflicts(namespace_names, real) THEN Refused
            ELSE [definitions |-> [name \in DOMAIN normalized.values \cup namespace_names |->
                                     IF name \in DOMAIN normalized.values THEN normalized.values[name] ELSE spaces[name]],
                  masked |-> normalized.masked, namespaces |-> namespace_names]

Merged(below, above) == [name \in DOMAIN below \cup DOMAIN above |->
                            IF name \in DOMAIN above THEN above[name] ELSE below[name]]
Declared(values) == {[name |-> name, marked |-> FALSE, bound |-> values[name]] : name \in DOMAIN values}

mixin(module, other) ==
    Module(Declared(Merged(module.definitions, other.definitions)),
           module.masked \cup other.masked, module.namespaces \cup other.namespaces)

Preset(declared, masked_names) ==
    LET normalized == normalize_masked_mapping(declared, masked_names) IN
    IF ~ Accepted(normalized) \/ ~ validate_real_conflicts(real_binding_names(<<>>, normalized.values))
    THEN Refused ELSE normalized
overlay(preset, other) ==
    Preset(Declared(Merged(preset.values, other.values)), preset.masked \cup other.masked)

(* FrameFactory.create: the preset below the values of the call. *)
FactoryValues(preset, declared) ==
    LET updates == normalize_masked_mapping(declared, {}) IN
    IF ~ Accepted(updates) THEN Refused
    ELSE [values |-> Merged(preset.values, updates.values), masked |-> preset.masked \cup updates.masked]
=============================================================================
