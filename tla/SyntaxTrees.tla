----------------------------- MODULE SyntaxTrees -----------------------------
(***************************************************************************)
(* The abstract syntax of the expression language (lang/ast/).  A node has *)
(* a kind, a label (the texts it carries: a name, an operator, a literal)  *)
(* and the sequence of its parts.  A part that may be missing is Absent.   *)
(* Source spans are left out: the printer drops them and no evaluation     *)
(* depends on them.                                                        *)
(***************************************************************************)
EXTENDS Naturals, Sequences, SequencesExt

Node(kind, label, parts) == [kind |-> kind, label |-> label, parts |-> parts]
Absent == Node("Absent", <<>>, <<>>)

(* atom_nodes.py.  A constant is labelled by its type and its canonical text. *)
Constant(type, text) == Node("Constant", <<type, text>>, <<>>)
Name(identifier)     == Node("Name", <<identifier>>, <<>>)
Tuple(elements)      == Node("Tuple", <<>>, elements)

(* call_argument_nodes.py *)
PositionalArgument(value)    == Node("PositionalArgument", <<>>, <<value>>)
StarArgument(value)          == Node("StarArgument", <<>>, <<value>>)
KeywordArgument(name, value) == Node("KeywordArgument", <<name>>, <<value>>)
KeywordUnpackArgument(value) == Node("KeywordUnpackArgument", <<>>, <<value>>)

(* display_nodes.py *)
Starred(value)           == Node("Starred", <<>>, <<value>>)
List(elements)           == Node("List", <<>>, elements)
RecordField(name, value) == Node("RecordField", <<name>>, <<value>>)
RecordDisplay(fields)    == Node("RecordDisplay", <<>>, fields)
SetDisplay(elements)     == Node("Set", <<>>, elements)
KeyValue(key, value)     == Node("KeyValue", <<>>, <<key, value>>)
DictUnpack(value)        == Node("DictUnpack", <<>>, <<value>>)
Dict(entries)            == Node("Dict", <<>>, entries)

(* expression_nodes.py; the label of a comparison is its operators. *)
Unary(operator, operand)        == Node("Unary", <<operator>>, <<operand>>)
Binary(left, operator, right)   == Node("Binary", <<operator>>, <<left, right>>)
Boolean(operator, values)       == Node("Boolean", <<operator>>, values)
Compare(left, operators, others) == Node("Compare", operators, <<left>> \o others)
Conditional(whenTrue, condition, whenFalse) ==
    Node("Conditional", <<>>, <<whenTrue, condition, whenFalse>>)
Coalesce(left, right) == Node("Coalesce", <<>>, <<left, right>>)

(* fstring_nodes.py; a field is labelled by its conversion ("" for none)
   and by "=" when it shows its own expression. *)
StringText(text) == Node("StringText", <<text>>, <<>>)
FormattedValue(expression, conversion, spec, debug) ==
    Node("FormattedValue", <<conversion, IF debug THEN "=" ELSE "">>, <<expression, spec>>)
JoinedString(values) == Node("JoinedString", <<>>, values)

(* primary_nodes.py *)
Attribute(value, name)     == Node("Attribute", <<name>>, <<value>>)
SafeAttribute(value, name) == Node("SafeAttribute", <<name>>, <<value>>)
Slice(lower, upper, step)  == Node("Slice", <<>>, <<lower, upper, step>>)
Subscript(value, index)    == Node("Subscript", <<>>, <<value, index>>)
Call(function, arguments)  == Node("Call", <<>>, <<function>> \o arguments)

(* comprehension_nodes.py; parts of a comprehension: the head, the clauses. *)
Clause(target, iterable, conditions) ==
    Node("Clause", <<>>, <<target, iterable>> \o conditions)
SequenceComprehension(kind, element, clauses) == Node(kind, <<>>, <<element>> \o clauses)
Generator(element, clauses)         == SequenceComprehension("Generator", element, clauses)
ListComprehension(element, clauses) == SequenceComprehension("ListComprehension", element, clauses)
SetComprehension(element, clauses)  == SequenceComprehension("SetComprehension", element, clauses)
DictComprehension(entry, clauses)   == Node("DictComprehension", <<>>, <<entry>> \o clauses)

(* control_form_nodes.py; an optional name is a label of length 0 or 1. *)
ExceptHandler(exception, name, body)   == Node("ExceptHandler", name, <<exception, body>>)
Try(body, handlers, finallyBody)       == Node("Try", <<>>, <<body>> \o handlers \o <<finallyBody>>)
WithItem(context, target)              == Node("WithItem", target, <<context>>)
With(items, body)                      == Node("With", <<>>, items \o <<body>>)

(* function_error_nodes.py *)
Parameter(name, kind, default) == Node("Parameter", <<name, kind>>, <<default>>)
Function(parameters, body)     == Node("Function", <<>>, parameters \o <<body>>)
Raise(value)                   == Node("Raise", <<>>, <<value>>)
AssertForm(condition, message) == Node("Assert", <<>>, <<condition, message>>)

(* The parts that are there, in source order. *)
children(node) == SelectSeq(node.parts, LAMBDA part : part # Absent)

RECURSIVE walk(_)
walk(node) ==
    LET below == [i \in DOMAIN children(node) |-> walk(children(node)[i])]
    IN FoldLeft(LAMBDA nodes, more : nodes \o more, <<node>>, below)

Comprehensions == {"Generator", "ListComprehension", "SetComprehension", "DictComprehension"}
Displays == {"Tuple", "List", "Set", "Dict", "RecordDisplay"}
Forms == {"Function", "Raise", "Assert", "Try", "With"}
Variadic == {"variadic-positional", "variadic-keyword"}

Handlers(try) == SubSeq(try.parts, 2, Len(try.parts) - 1)
Parameters(function) == Front(function.parts)
Conditions(clause) == SubSeq(clause.parts, 3, Len(clause.parts))

(* What the constructors refuse (their __post_init__). *)
Constructible(node) ==
    LET names == node.label IN
    CASE node.kind \in {"Name", "KeywordArgument", "RecordField", "Attribute", "SafeAttribute"}
                                     -> names # <<"">>
      [] node.kind = "RecordDisplay" -> node.parts # <<>>
      [] node.kind = "Boolean"       -> Len(node.parts) >= 2
      [] node.kind = "Compare"       -> names # <<>> /\ Len(node.parts) = Len(names) + 1
      [] node.kind = "StringText"    -> names # <<"">>
      [] node.kind = "FormattedValue" -> names[1] \in {"", "s", "r", "a"}
      [] node.kind \in Comprehensions -> Len(node.parts) >= 2
      [] node.kind = "ExceptHandler" -> names # <<"">> /\ (names # <<>> => node.parts[1] # Absent)
      [] node.kind = "Try"           -> Handlers(node) # <<>> \/ Last(node.parts) # Absent
      [] node.kind = "WithItem"      -> names # <<"">>
      [] node.kind = "With"          -> Len(node.parts) >= 2
      [] node.kind = "Parameter"     -> /\ names[1] # ""
                                        /\ names[2] \in Variadic => node.parts[1] = Absent
      [] OTHER                       -> TRUE

RECURSIVE WellFormed(_)
WellFormed(node) == Constructible(node) /\ \A i \in DOMAIN node.parts : WellFormed(node.parts[i])
=============================================================================
