---------------------------- MODULE SourcePrinter ----------------------------
(***************************************************************************)
(* The canonical text of a tree (lang/engine/printer/).  Each node has a   *)
(* precedence, and a child weaker than its place asks for is put in        *)
(* parentheses.  Lists of children are printed by printing each one and    *)
(* joining the texts.                                                      *)
(***************************************************************************)
EXTENDS SyntaxTrees, SourceText

Join(texts, separator) ==
    FoldLeft(LAMBDA joined, k : joined \o (IF k = 1 THEN "" ELSE separator) \o texts[k],
             "", [k \in DOMAIN texts |-> k])
-----------------------------------------------------------------------------
(* Constants are printed by repr; FRAME_PROXY and the override markers by name. *)

Controls == "\n" :> "\\n" @@ "\r" :> "\\r" @@ "\t" :> "\\t"
StringRepr(text) ==
    LET quote == IF {"'"} = CharactersOf(text) \cap Quotes THEN "\"" ELSE "'"
    IN quote \o Escaped(text, Controls @@ ("\\" :> "\\\\") @@ (quote :> ("\\" \o quote))) \o quote

internal_constant(constant) ==
    LET text == constant.label[2] IN
    CASE constant.label[1] = "str"   -> StringRepr(text)
      [] constant.label[1] = "bytes" -> "b" \o StringRepr(text)
      [] OTHER                       -> text

internal_ftext(text) ==
    Escaped(text, Controls @@ ("\\" :> "\\\\") @@ ("\"" :> "\\\"") @@ ("{" :> "{{") @@ ("}" :> "}}"))

-----------------------------------------------------------------------------

BinaryPrecedence == "|" :> 50 @@ "^" :> 55 @@ "&" :> 60 @@ "<<" :> 65 @@ ">>" :> 65
                 @@ "+" :> 70 @@ "-" :> 70 @@ "*" :> 75 @@ "@" :> 75 @@ "/" :> 75
                 @@ "//" :> 75 @@ "%" :> 75 @@ "**" :> 85

(* The precedence each renderer returns with its text. *)
Precedence(node) ==
    CASE node.kind = "Unary"       -> IF node.label = <<"not">> THEN 40 ELSE 80
      [] node.kind = "Binary"      -> BinaryPrecedence[node.label[1]]
      [] node.kind = "Compare"     -> 45
      [] node.kind = "Boolean"     -> IF node.label = <<"and">> THEN 35 ELSE 30
      [] node.kind = "Coalesce"    -> 20
      [] node.kind = "Conditional" -> 10
      [] node.kind \in {"Attribute", "SafeAttribute", "Subscript", "Call", "Slice"} -> 90
      [] node.kind \in Forms       -> 5
      [] OTHER                     -> 100

Prefix == "positional" :> "" @@ "keyword-only" :> ""
       @@ "variadic-positional" :> "*" @@ "variadic-keyword" :> "**"

RECURSIVE internal_render(_, _)
RECURSIVE Text(_)
RECURSIVE internal_joined(_)

Whole(node) == internal_render(node, 0)
Wholes(nodes) == Join([k \in DOMAIN nodes |-> Text(nodes[k])], ", ")
Optional(before, node) == IF node = Absent THEN "" ELSE before \o Whole(node)

internal_slice(slice) ==
    Optional("", slice.parts[1]) \o ":" \o Optional("", slice.parts[2]) \o Optional(":", slice.parts[3])
internal_index(index) ==
    CASE index.kind = "Tuple" -> Join([k \in DOMAIN index.parts |-> Whole(index.parts[k])], ", ")
      [] index.kind = "Slice" -> internal_slice(index)
      [] OTHER                -> Whole(index)

internal_unary(unary) ==
    IF unary.label = <<"not">> THEN "not " \o internal_render(unary.parts[1], 40)
    ELSE unary.label[1] \o internal_render(unary.parts[1], 80)
(* A wrong form: ** groups like the other operators. *)
LeftGroupedBinary(binary) ==
    internal_render(binary.parts[1], Precedence(binary)) \o " " \o binary.label[1] \o " "
    \o internal_render(binary.parts[2], Precedence(binary) + 1)
internal_binary(binary) ==
    LET mine == Precedence(binary)
        power == binary.label[1] = "**"
    IN internal_render(binary.parts[1], IF power THEN mine + 1 ELSE mine)
       \o " " \o binary.label[1] \o " "
       \o internal_render(binary.parts[2], IF power THEN 80 ELSE mine + 1)
InternalCompare(compare) ==
    FoldLeft(LAMBDA text, k : text \o " " \o compare.label[k] \o " " \o internal_render(compare.parts[k + 1], 46),
             internal_render(compare.parts[1], 46), [k \in DOMAIN compare.label |-> k])

ClauseText(clause) ==
    " for " \o clause.parts[1].label[1] \o " in " \o Whole(clause.parts[2])
    \o Join([k \in DOMAIN Conditions(clause) |-> " if " \o Whole(Conditions(clause)[k])], "")
internal_clauses(clauses) == Join([k \in DOMAIN clauses |-> ClauseText(clauses[k])], "")
Comprehension(node) == Text(node.parts[1]) \o internal_clauses(Tail(node.parts))

internal_handler(handler) ==
    " except" \o Optional(" ", handler.parts[1])
    \o (IF handler.label = <<>> THEN "" ELSE " as " \o handler.label[1]) \o ": " \o Whole(handler.parts[2])
internal_try(try) ==
    "try: " \o Whole(try.parts[1]) \o Join([k \in DOMAIN Handlers(try) |-> internal_handler(Handlers(try)[k])], "")
    \o Optional(" finally: ", Last(try.parts))

internal_joined(joined) ==
    Join([k \in DOMAIN joined.parts |->
            LET value == joined.parts[k] IN
            IF value.kind = "StringText" THEN internal_ftext(value.label[1])
            ELSE "{" \o Whole(value.parts[1]) \o value.label[2]
                 \o (IF value.label[1] = "" THEN "" ELSE "!" \o value.label[1])
                 \o (IF value.parts[2] = Absent THEN "" ELSE ":" \o internal_joined(value.parts[2]))
                 \o "}"], "")

(* One renderer for each family of nodes. *)
render_atom(node) ==
    CASE node.kind = "Constant"     -> internal_constant(node)
      [] node.kind = "Name"         -> node.label[1]
      [] node.kind = "JoinedString" -> "f\"" \o internal_joined(node) \o "\""
render_expression(node) ==
    LET part == node.parts
        mine == Precedence(node)
    IN CASE node.kind = "Unary"    -> internal_unary(node)
         [] node.kind = "Binary"   -> internal_binary(node)
         [] node.kind = "Compare"  -> InternalCompare(node)
         [] node.kind = "Boolean"  ->
              Join([k \in DOMAIN part |-> internal_render(part[k], mine)], " " \o node.label[1] \o " ")
         [] node.kind = "Coalesce" -> internal_render(part[1], mine + 1) \o " ?? " \o internal_render(part[2], mine)
         [] node.kind = "Conditional" ->
              internal_render(part[1], mine + 1) \o " if " \o internal_render(part[2], mine + 1)
              \o " else " \o internal_render(part[3], mine)

internal_argument(argument) ==
    CASE argument.kind = "PositionalArgument" -> Whole(argument.parts[1])
      [] argument.kind = "StarArgument"       -> "*" \o Whole(argument.parts[1])
      [] argument.kind = "KeywordUnpackArgument" -> "**" \o Whole(argument.parts[1])
      [] argument.kind = "KeywordArgument"    -> argument.label[1] \o "=" \o Whole(argument.parts[1])
render_primary(node) ==
    IF node.kind = "Slice" THEN internal_slice(node)
    ELSE internal_render(node.parts[1], 90) \o
         CASE node.kind = "Attribute"     -> "." \o node.label[1]
           [] node.kind = "SafeAttribute" -> "?." \o node.label[1]
           [] node.kind = "Subscript"     -> "[" \o internal_index(node.parts[2]) \o "]"
           [] node.kind = "Call"          -> "(" \o Wholes(Tail(node.parts)) \o ")"

internal_tuple(elements) == "(" \o Wholes(elements) \o (IF Len(elements) = 1 THEN ",)" ELSE ")")
internal_entry(entry) ==
    IF entry.kind = "KeyValue" THEN Whole(entry.parts[1]) \o ": " \o Whole(entry.parts[2])
    ELSE "**" \o Whole(entry.parts[1])
render_collection(node) ==
    CASE node.kind = "Tuple" -> internal_tuple(node.parts)
      [] node.kind = "List"  -> "[" \o Wholes(node.parts) \o "]"
      [] node.kind \in {"Set", "Dict", "RecordDisplay"} -> "{" \o Wholes(node.parts) \o "}"
      [] node.kind = "Generator" -> "(" \o Comprehension(node) \o ")"
      [] node.kind = "ListComprehension" -> "[" \o Comprehension(node) \o "]"
      [] node.kind \in {"SetComprehension", "DictComprehension"} -> "{" \o Comprehension(node) \o "}"

internal_parameter(parameter) == Prefix[parameter.label[2]] \o parameter.label[1] \o Optional("=", parameter.parts[1])
internal_with_item(item) == Whole(item.parts[1]) \o (IF item.label = <<>> THEN "" ELSE " as " \o item.label[1])
render_form(node) ==
    CASE node.kind = "Function" -> "(" \o Wholes(Parameters(node)) \o ") -> " \o Whole(Last(node.parts))
      [] node.kind = "Raise"    -> "raise(" \o Whole(node.parts[1]) \o ")"
      [] node.kind = "Assert"   -> "assert(" \o Whole(node.parts[1]) \o Optional(", ", node.parts[2]) \o ")"
      [] node.kind = "Try"      -> internal_try(node)
      [] node.kind = "With"     -> "with " \o Wholes(Front(node.parts)) \o ": " \o Whole(Last(node.parts))

(* The text of a node, before any parentheses; a part is printed by the
   node that holds it. *)
Text(node) ==
    CASE node.kind \in {"Constant", "Name", "JoinedString"} -> render_atom(node)
      [] node.kind \in {"Unary", "Binary", "Compare", "Boolean", "Coalesce", "Conditional"} -> render_expression(node)
      [] node.kind \in {"Attribute", "SafeAttribute", "Subscript", "Call", "Slice"} -> render_primary(node)
      [] node.kind \in Displays \cup Comprehensions -> render_collection(node)
      [] node.kind \in Forms        -> render_form(node)
      [] node.kind = "Starred"      -> "*" \o Whole(node.parts[1])
      [] node.kind = "RecordField"  -> node.label[1] \o "=" \o Whole(node.parts[1])
      [] node.kind \in {"KeyValue", "DictUnpack"} -> internal_entry(node)
      [] node.kind = "Clause"       -> ClauseText(node)
      [] node.kind = "Parameter"    -> internal_parameter(node)
      [] node.kind = "WithItem"     -> internal_with_item(node)
      [] OTHER                      -> internal_argument(node)

internal_render(node, parent) ==
    IF Precedence(node) < parent THEN "(" \o Text(node) \o ")" ELSE Text(node)

(* Some nodes are only printed by the node that holds them. *)
Unprintable == {"Starred", "Clause", "Parameter", "WithItem", "ExceptHandler", "KeyValue", "DictUnpack",
                "PositionalArgument", "StarArgument", "KeywordArgument", "KeywordUnpackArgument", "RecordField"}
(* Nor does an index print a starred element of its tuple. *)
RECURSIVE StarredIndex(_)
StarredIndex(node) ==
    \/ /\ node.kind = "Subscript" /\ node.parts[2].kind = "Tuple"
       /\ \E k \in DOMAIN node.parts[2].parts : node.parts[2].parts[k].kind = "Starred"
    \/ \E k \in DOMAIN node.parts : StarredIndex(node.parts[k])
to_source(node) ==
    IF node.kind \in Unprintable \/ StarredIndex(node) THEN Bad("unsupported AST node") ELSE Ok(Whole(node), 0)
=============================================================================
