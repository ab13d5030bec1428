---------------------------- MODULE SourceParser ----------------------------
(***************************************************************************)
(* The parser (lang/engine/parser/): tokens t to a tree.  Every parser     *)
(* takes the number of the current token and returns a tree with the       *)
(* number of the token after it, or the code of the syntax error.          *)
(***************************************************************************)
EXTENDS SyntaxTrees, SourceText

(* token_stream.py: newlines are dropped, and the last token ends the input. *)
TokenStream(tokens) == SelectSeq(tokens, LAMBDA token : token.kind # "newline")
Kind(t, i) == IF i <= Len(t) THEN t[i].kind ELSE "end of input"
Expect(t, i, kind) == IF Kind(t, i) = kind THEN Ok(t[i].lexeme, i + 1) ELSE Bad("expected " \o kind)

(* binding_validation.py *)
ExpectBinding(t, i) ==
    Then(Expect(t, i, "identifier"), LAMBDA name :
         IF StartsWith(name.v, "__", 1) THEN Bad("binding name cannot start with double underscore")
         ELSE name)
(* as NAME, if it is there: a sequence of at most one name. *)
OptionalTarget(t, i) ==
    IF Kind(t, i) # "as" THEN Ok(<<>>, i)
    ELSE Then(ExpectBinding(t, i + 1), LAMBDA name : Ok(<<name.v>>, name.end))

(* The expressions inside an expression, by the rule that parses them. *)
RECURSIVE ParseBy(_, _, _)
parse_complete(t, i) == ParseBy(<<"complete">>, t, i)
parse_nonconditional(t, i) == ParseBy(<<"nonconditional">>, t, i)
internal_parse_bp(t, i, minimum) == ParseBy(<<"operand", minimum>>, t, i)

-----------------------------------------------------------------------------
(* Atoms.                                                                  *)

RECURSIVE AdjacentText(_, _, _)
AdjacentText(t, i, kind) ==
    IF Kind(t, i) = kind
    THEN Then(AdjacentText(t, i + 1, kind), LAMBDA rest : Ok(t[i].value[2] \o rest.v, rest.end))
    ELSE IF Kind(t, i) \in {"string", "bytes"} THEN Bad("cannot mix adjacent text and bytes literals")
    ELSE Ok("", i)

internal_parse_literal(t, i) ==
    IF Kind(t, i) \in {"string", "bytes"}
    THEN Then(AdjacentText(t, i, Kind(t, i)), LAMBDA r : Ok(Constant(t[i].value[1], r.v), r.end))
    ELSE Ok(Constant(t[i].value[1], t[i].value[2]), i + 1)

ConstantKeywords == "true" :> Constant("bool", "True") @@ "false" :> Constant("bool", "False")
                 @@ "none" :> Constant("none", "None")
Markers == {"FRAME_PROXY", "NEED_OVERRIDE", "RUNTIME_OVERRIDE"}

RECURSIVE internal_convert_value(_, _)
internal_convert_value(parts, joined) ==
    IF parts = <<>> THEN Ok(JoinedString(joined), 0)
    ELSE LET part == Head(parts)
             Continue(value) == internal_convert_value(Tail(parts), Append(joined, value))
         IN IF ~part.field THEN Continue(StringText(part.text))
            ELSE Then(Then(scan_tokens(part.text), LAMBDA r : ParseBy(<<"tokens">>, r.v, 1)), LAMBDA expression :
                 IF ~part.hasSpec
                 THEN Continue(FormattedValue(expression.v, part.conversion, Absent, part.debug))
                 ELSE Then(internal_convert_value(part.spec, <<>>), LAMBDA spec :
                           Continue(FormattedValue(expression.v, part.conversion, spec.v, part.debug))))

-----------------------------------------------------------------------------
(* Displays and comprehensions.                                            *)

internal_sequence_element(t, i) ==
    CASE Kind(t, i) = "**" -> Bad("mapping unpack is invalid in a sequence")
      [] Kind(t, i) = "*"  -> Then(parse_complete(t, i + 1), LAMBDA r : Ok(Starred(r.v), r.end))
      [] OTHER             -> parse_complete(t, i)

(* The elements after the first one, up to the closer.  Stars are for the
   displays; an index and the top level take plain expressions. *)
RECURSIVE Others(_, _, _, _, _)
Others(t, i, closer, stars, elements) ==
    IF Kind(t, i) # "," \/ Kind(t, i + 1) = closer
    THEN Then(Expect(t, IF Kind(t, i) = "," THEN i + 1 ELSE i, closer), LAMBDA r : Ok(elements, r.end))
    ELSE Then(IF stars THEN internal_sequence_element(t, i + 1) ELSE parse_complete(t, i + 1),
              LAMBDA r : Others(t, r.end, closer, stars, Append(elements, r.v)))

RECURSIVE InternalConditions(_, _, _)
InternalConditions(t, i, conditions) ==
    IF Kind(t, i) # "if" THEN Ok(conditions, i)
    ELSE Then(parse_nonconditional(t, i + 1), LAMBDA r :
              InternalConditions(t, r.end, Append(conditions, r.v)))

RECURSIVE Clauses(_, _, _)
Clauses(t, i, clauses) ==
    IF Kind(t, i) # "for" THEN Ok(clauses, i)
    ELSE Then(ExpectBinding(t, i + 1), LAMBDA target :
         Then(Expect(t, target.end, "in"), LAMBDA in :
         Then(parse_nonconditional(t, in.end), LAMBDA iterable :
         Then(InternalConditions(t, iterable.end, <<>>), LAMBDA conditions :
              Clauses(t, conditions.end,
                      Append(clauses, Clause(Name(target.v), iterable.v, conditions.v)))))))

(* The head is parsed before its clauses are seen. *)
parse_comprehension(t, i, head, kind, closer) ==
    Then(Clauses(t, i, <<>>), LAMBDA clauses :
    Then(Expect(t, clauses.end, closer), LAMBDA r :
         Ok(SequenceComprehension(kind, head, clauses.v), r.end)))

internal_parenthesized(t, i) ==
    IF Kind(t, i + 1) = ")" THEN Ok(Tuple(<<>>), i + 2)
    ELSE Then(internal_sequence_element(t, i + 1), LAMBDA first :
         CASE Kind(t, first.end) = "for" -> parse_comprehension(t, first.end, first.v, "Generator", ")")
           [] Kind(t, first.end) = ","   -> Then(Others(t, first.end, ")", TRUE, <<first.v>>),
                                                 LAMBDA r : Ok(Tuple(r.v), r.end))
           [] OTHER -> Then(Expect(t, first.end, ")"), LAMBDA r : Ok(first.v, r.end)))

internal_list(t, i) ==
    IF Kind(t, i + 1) = "]" THEN Ok(List(<<>>), i + 2)
    ELSE Then(internal_sequence_element(t, i + 1), LAMBDA first :
         IF Kind(t, first.end) = "for"
         THEN parse_comprehension(t, first.end, first.v, "ListComprehension", "]")
         ELSE Then(Others(t, first.end, "]", TRUE, <<first.v>>), LAMBDA r : Ok(List(r.v), r.end)))

DictEntry(t, i) ==
    CASE Kind(t, i) = "**" -> Then(parse_complete(t, i + 1), LAMBDA r : Ok(DictUnpack(r.v), r.end))
      [] Kind(t, i) = "*"  -> Bad("iterable unpack is invalid in a dict")
      [] OTHER -> Then(parse_complete(t, i), LAMBDA key :
                  Then(Expect(t, key.end, ":"), LAMBDA colon :
                  Then(parse_complete(t, colon.end), LAMBDA r : Ok(KeyValue(key.v, r.v), r.end))))
RECURSIVE internal_dict(_, _, _)
internal_dict(t, i, entries) ==
    IF Kind(t, i) # "," \/ Kind(t, i + 1) = "}"
    THEN Then(Expect(t, IF Kind(t, i) = "," THEN i + 1 ELSE i, "}"), LAMBDA r : Ok(Dict(entries), r.end))
    ELSE Then(DictEntry(t, i + 1), LAMBDA r : internal_dict(t, r.end, Append(entries, r.v)))

RECURSIVE parse_record(_, _, _)
parse_record(t, i, fields) ==
    Then(ExpectBinding(t, i), LAMBDA name :
    IF \E k \in DOMAIN fields : fields[k].label = <<name.v>> THEN Bad("duplicate record field")
    ELSE Then(Expect(t, name.end, "="), LAMBDA equals :
         Then(parse_complete(t, equals.end), LAMBDA value :
              LET known == Append(fields, RecordField(name.v, value.v)) IN
              IF Kind(t, value.end) = "," /\ Kind(t, value.end + 1) # "}"
              THEN parse_record(t, value.end + 1, known)
              ELSE Then(Expect(t, IF Kind(t, value.end) = "," THEN value.end + 1 ELSE value.end, "}"),
                        LAMBDA r : Ok(RecordDisplay(known), r.end)))))

internal_braces(t, i) ==
    LET Entries(entry, end) ==
            IF Kind(t, end) = "for" THEN parse_comprehension(t, end, entry, "DictComprehension", "}")
            ELSE internal_dict(t, end, <<entry>>)
    IN CASE Kind(t, i + 1) = "}"  -> Ok(Dict(<<>>), i + 2)
         [] Kind(t, i + 1) = "**" -> Then(DictEntry(t, i + 1), LAMBDA r : Entries(r.v, r.end))
         [] Kind(t, i + 1) = "identifier" /\ Kind(t, i + 2) = "=" -> parse_record(t, i + 1, <<>>)
         [] OTHER ->
              Then(internal_sequence_element(t, i + 1), LAMBDA first :
              CASE Kind(t, first.end) = ":" ->
                     Then(parse_complete(t, first.end + 1), LAMBDA r : Entries(KeyValue(first.v, r.v), r.end))
                [] Kind(t, first.end) = "for" ->
                     parse_comprehension(t, first.end, first.v, "SetComprehension", "}")
                [] OTHER -> Then(Others(t, first.end, "}", TRUE, <<first.v>>),
                                 LAMBDA r : Ok(SetDisplay(r.v), r.end)))

parse_atom(t, i) ==
    LET kind == Kind(t, i) IN
    CASE kind \in {"integer", "float", "string", "bytes"} -> internal_parse_literal(t, i)
      [] kind \in DOMAIN ConstantKeywords -> Ok(ConstantKeywords[kind], i + 1)
      [] kind = "identifier" ->
            Ok(IF t[i].lexeme \in Markers THEN Constant("marker", t[i].lexeme) ELSE Name(t[i].lexeme), i + 1)
      [] kind = "(" -> internal_parenthesized(t, i)
      [] kind = "[" -> internal_list(t, i)
      [] kind = "{" -> internal_braces(t, i)
      [] kind = "f-string" -> Then(internal_convert_value(t[i].value, <<>>), LAMBDA r : Ok(r.v, i + 1))
      [] OTHER -> Bad("expected an expression atom")

-----------------------------------------------------------------------------
(* Attributes, subscripts and calls.                                       *)

OptionalPart(t, i, stops) == IF Kind(t, i) \in stops THEN Ok(Absent, i) ELSE parse_complete(t, i)
internal_slice(t, i, lower) ==
    Then(OptionalPart(t, i, {":", "]"}), LAMBDA upper :
    Then(IF Kind(t, upper.end) = ":" THEN OptionalPart(t, upper.end + 1, {"]"}) ELSE Ok(Absent, upper.end),
         LAMBDA step :
    Then(Expect(t, step.end, "]"), LAMBDA r : Ok(Slice(lower, upper.v, step.v), r.end))))

internal_subscript(t, i, value) ==
    Then(CASE Kind(t, i + 1) = "]" -> Bad("subscript cannot be empty")
           [] Kind(t, i + 1) = ":" -> internal_slice(t, i + 2, Absent)
           [] OTHER ->
                Then(parse_complete(t, i + 1), LAMBDA first :
                CASE Kind(t, first.end) = ":" -> internal_slice(t, first.end + 1, first.v)
                  [] Kind(t, first.end) = "," -> Then(Others(t, first.end, "]", FALSE, <<first.v>>),
                                                      LAMBDA r : Ok(Tuple(r.v), r.end))
                  [] OTHER -> Then(Expect(t, first.end, "]"), LAMBDA r : Ok(first.v, r.end))),
         LAMBDA index : Ok(Subscript(value, index.v), index.end))

internal_argument(t, i, seen) ==
    LET kinds == {seen[k].kind : k \in DOMAIN seen} IN
    CASE Kind(t, i) = "**" -> Then(parse_complete(t, i + 1), LAMBDA r : Ok(KeywordUnpackArgument(r.v), r.end))
      [] Kind(t, i) = "*" ->
            IF "KeywordUnpackArgument" \in kinds THEN Bad("star argument cannot follow keyword unpacking")
            ELSE Then(parse_complete(t, i + 1), LAMBDA r : Ok(StarArgument(r.v), r.end))
      [] OTHER ->
            Then(parse_complete(t, i), LAMBDA candidate :
            CASE Kind(t, candidate.end) = "=" /\ candidate.v.kind # "Name" -> Bad("keyword target must be a name")
              [] /\ Kind(t, candidate.end) = "="
                 /\ \E k \in DOMAIN seen : /\ seen[k].kind = "KeywordArgument"
                                           /\ seen[k].label = candidate.v.label -> Bad("duplicate keyword argument")
              [] Kind(t, candidate.end) = "=" ->
                    Then(parse_complete(t, candidate.end + 1), LAMBDA r :
                         Ok(KeywordArgument(candidate.v.label[1], r.v), r.end))
              [] kinds \cap {"KeywordArgument", "KeywordUnpackArgument"} # {} ->
                    Bad("positional argument follows keyword argument")
              [] OTHER -> Ok(PositionalArgument(candidate.v), candidate.end))

RECURSIVE Arguments(_, _, _)
Arguments(t, i, seen) ==
    Then(internal_argument(t, i, seen), LAMBDA r :
         LET all == Append(seen, r.v) IN
         IF Kind(t, r.end) = "," /\ Kind(t, r.end + 1) # ")" THEN Arguments(t, r.end + 1, all)
         ELSE Ok(all, IF Kind(t, r.end) = "," THEN r.end + 1 ELSE r.end))
internal_call(t, i, function) ==
    Then(IF Kind(t, i + 1) = ")" THEN Ok(<<>>, i + 1) ELSE Arguments(t, i + 1, <<>>), LAMBDA arguments :
    Then(Expect(t, arguments.end, ")"), LAMBDA r : Ok(Call(function, arguments.v), r.end)))

internal_attribute(t, i, value) ==
    Then(Expect(t, i + 1, "identifier"), LAMBDA name :
         Ok(IF Kind(t, i) = "." THEN Attribute(value, name.v) ELSE SafeAttribute(value, name.v), name.end))

RECURSIVE parse_primaries(_, _, _)
parse_primaries(t, i, value) ==
    LET Continue(result) == Then(result, LAMBDA r : parse_primaries(t, r.end, r.v))
    IN CASE Kind(t, i) \in {".", "?."} -> Continue(internal_attribute(t, i, value))
         [] Kind(t, i) = "["          -> Continue(internal_subscript(t, i, value))
         [] Kind(t, i) = "("          -> Continue(internal_call(t, i, value))
         [] OTHER                     -> Ok(value, i)

-----------------------------------------------------------------------------
(* Operators.  A binding power is what an operator asks of its left and    *)
(* gives to its right operand.                                             *)

LeftPower == "|" :> 10 @@ "^" :> 20 @@ "&" :> 30 @@ "<<" :> 40 @@ ">>" :> 40 @@ "+" :> 50 @@ "-" :> 50
          @@ "*" :> 60 @@ "@" :> 60 @@ "/" :> 60 @@ "//" :> 60 @@ "%" :> 60 @@ "**" :> 80
RightPower(operator) == IF operator = "**" THEN 80 ELSE LeftPower[operator] + 1

RECURSIVE BinaryRest(_, _, _, _)
BinaryRest(t, i, left, minimum) ==
    LET operator == Kind(t, i) IN
    IF operator \notin DOMAIN LeftPower THEN Ok(left, i)
    ELSE IF LeftPower[operator] < minimum THEN Ok(left, i)
    ELSE Then(internal_parse_bp(t, i + 1, RightPower(operator)), LAMBDA right :
              BinaryRest(t, right.end, Binary(left, operator, right.v), minimum))

Operand(t, i, minimum) ==
    Then(IF Kind(t, i) \in {"+", "-", "~"}
         THEN Then(internal_parse_bp(t, i + 1, 70), LAMBDA r : Ok(Unary(Kind(t, i), r.v), r.end))
         ELSE Then(parse_atom(t, i), LAMBDA r : parse_primaries(t, r.end, r.v)),
         LAMBDA left : BinaryRest(t, left.end, left.v, minimum))

ComparisonAt(t, i) ==
    LET next == Kind(t, i + 1) IN
    CASE Kind(t, i) \in {"<", "<=", ">", ">=", "==", "!=", "in"} -> <<Kind(t, i), 1>>
      [] Kind(t, i) = "not" /\ next = "in" -> <<"not in", 2>>
      [] Kind(t, i) = "is" -> IF next = "not" THEN <<"is not", 2>> ELSE <<"is", 1>>
      [] OTHER -> <<"", 0>>
RECURSIVE internal_comparison(_, _, _, _, _)
internal_comparison(t, i, left, operators, others) ==
    LET operator == ComparisonAt(t, i) IN
    IF operator[2] = 0 THEN Ok(IF operators = <<>> THEN left ELSE Compare(left, operators, others), i)
    ELSE Then(internal_parse_bp(t, i + operator[2], 0), LAMBDA r :
              internal_comparison(t, r.end, left, Append(operators, operator[1]), Append(others, r.v)))

RECURSIVE internal_not(_, _)
internal_not(t, i) ==
    IF Kind(t, i) = "not" THEN Then(internal_not(t, i + 1), LAMBDA r : Ok(Unary("not", r.v), r.end))
    ELSE Then(internal_parse_bp(t, i, 0), LAMBDA r : internal_comparison(t, r.end, r.v, <<>>, <<>>))

(* A chain of one operator is one flat node. *)
RECURSIVE internal_boolean(_, _, _, _)
internal_boolean(t, i, operator, values) ==
    Then(IF operator = "or" THEN internal_boolean(t, i, "and", <<>>) ELSE internal_not(t, i), LAMBDA r :
         LET all == Append(values, r.v) IN
         IF Kind(t, r.end) = operator THEN internal_boolean(t, r.end + 1, operator, all)
         ELSE Ok(IF Len(all) = 1 THEN r.v ELSE Boolean(operator, all), r.end))

RECURSIVE internal_coalesce(_, _)
internal_coalesce(t, i) ==
    Then(internal_boolean(t, i, "or", <<>>), LAMBDA left :
    IF Kind(t, left.end) # "??" THEN left
    ELSE Then(internal_coalesce(t, left.end + 1), LAMBDA right : Ok(Coalesce(left.v, right.v), right.end)))

RECURSIVE internal_conditional(_, _)
internal_conditional(t, i) ==
    Then(internal_coalesce(t, i), LAMBDA whenTrue :
    IF Kind(t, whenTrue.end) # "if" THEN whenTrue
    ELSE Then(internal_coalesce(t, whenTrue.end + 1), LAMBDA condition :
         Then(Expect(t, condition.end, "else"), LAMBDA r :
         Then(internal_conditional(t, r.end), LAMBDA whenFalse :
              Ok(Conditional(whenTrue.v, condition.v, whenFalse.v), whenFalse.end)))))

-----------------------------------------------------------------------------
(* Control forms, functions and error forms.                               *)

ColonBody(t, i) == Then(Expect(t, i, ":"), LAMBDA colon : parse_complete(t, colon.end))

InternalHandler(t, i) ==
    IF Kind(t, i) = ":" THEN Then(ColonBody(t, i), LAMBDA r : Ok(ExceptHandler(Absent, <<>>, r.v), r.end))
    ELSE Then(parse_nonconditional(t, i), LAMBDA exception :
         Then(OptionalTarget(t, exception.end), LAMBDA name :
         Then(ColonBody(t, name.end), LAMBDA r : Ok(ExceptHandler(exception.v, name.v, r.v), r.end))))
RECURSIVE InternalHandlers(_, _, _)
InternalHandlers(t, i, handlers) ==
    IF Kind(t, i) # "except" THEN Ok(handlers, i)
    ELSE IF handlers # <<>> /\ Last(handlers).parts[1] = Absent THEN Bad("bare except handler must be last")
    ELSE Then(InternalHandler(t, i + 1), LAMBDA r : InternalHandlers(t, r.end, Append(handlers, r.v)))

internal_try(t, i) ==
    Then(ColonBody(t, i + 1), LAMBDA body :
    Then(InternalHandlers(t, body.end, <<>>), LAMBDA handlers :
    Then(IF Kind(t, handlers.end) = "finally" THEN ColonBody(t, handlers.end + 1) ELSE Ok(Absent, handlers.end),
         LAMBDA finally :
         IF handlers.v = <<>> /\ finally.v = Absent THEN Bad("try form requires except or finally")
         ELSE Ok(Try(body.v, handlers.v, finally.v), finally.end))))

RECURSIVE internal_with(_, _, _)
internal_with(t, i, items) ==
    Then(parse_nonconditional(t, i), LAMBDA context :
    Then(OptionalTarget(t, context.end), LAMBDA target :
         LET all == Append(items, WithItem(context.v, target.v)) IN
         IF Kind(t, target.end) = "," THEN internal_with(t, target.end + 1, all)
         ELSE Then(ColonBody(t, target.end), LAMBDA body : Ok(With(all, body.v), body.end))))

(* From an opening parenthesis: is the one that closes it followed by an arrow? *)
RECURSIVE FunctionAhead(_, _, _)
FunctionAhead(t, i, depth) ==
    CASE Kind(t, i) = "end of input" -> FALSE
      [] Kind(t, i) = ")" /\ depth = 1 -> Kind(t, i + 1) = "->"
      [] OTHER -> FunctionAhead(t, i + 1, CASE Kind(t, i) = "(" -> depth + 1
                                            [] Kind(t, i) = ")" -> depth - 1
                                            [] OTHER -> depth)

internal_parameter(t, i, known) ==
    LET kinds == {known[k].label[2] : k \in DOMAIN known}
        starred == Kind(t, i) \in {"*", "**"}
        kind == CASE Kind(t, i) = "**" -> "variadic-keyword"
                  [] Kind(t, i) = "*"  -> "variadic-positional"
                  [] "variadic-positional" \in kinds -> "keyword-only"
                  [] OTHER -> "positional"
        defaultSeen == \E k \in DOMAIN known : known[k].label[2] = "positional" /\ known[k].parts[1] # Absent
    IN Then(ExpectBinding(t, IF starred THEN i + 1 ELSE i), LAMBDA name :
       CASE \E k \in DOMAIN known : known[k].label[1] = name.v -> Bad("duplicate function parameter")
         [] Kind(t, name.end) = "=" /\ starred -> Bad("variadic parameter cannot have a default")
         [] Kind(t, name.end) = "=" /\ ~starred ->
              Then(parse_nonconditional(t, name.end + 1), LAMBDA r : Ok(Parameter(name.v, kind, r.v), r.end))
         [] kind = "positional" /\ defaultSeen /\ Kind(t, name.end) # "=" ->
              Bad("required parameter follows default")
         [] OTHER -> Ok(Parameter(name.v, kind, Absent), name.end))
RECURSIVE InternalParameters(_, _, _)
InternalParameters(t, i, known) ==
    CASE Kind(t, i) = ")" -> Ok(known, i)
      [] known # <<>> /\ Last(known).label[2] = "variadic-keyword" -> Bad("parameter follows variadic keyword")
      [] OTHER -> Then(internal_parameter(t, i, known), LAMBDA r :
                       IF Kind(t, r.end) = "," THEN InternalParameters(t, r.end + 1, Append(known, r.v))
                       ELSE Ok(Append(known, r.v), r.end))

ArrowBody(t, i) == Then(Expect(t, i, "->"), LAMBDA arrow : parse_complete(t, arrow.end))
internal_bare_function(t, i) ==
    Then(ExpectBinding(t, i), LAMBDA name :
    Then(ArrowBody(t, name.end), LAMBDA body :
         Ok(Function(<<Parameter(name.v, "positional", Absent)>>, body.v), body.end)))
internal_function(t, i) ==
    Then(InternalParameters(t, i + 1, <<>>), LAMBDA parameters :
    Then(Expect(t, parameters.end, ")"), LAMBDA r :
    Then(ArrowBody(t, r.end), LAMBDA body : Ok(Function(parameters.v, body.v), body.end))))

internal_raise(t, i) ==
    Then(Expect(t, i + 1, "("), LAMBDA opening :
    Then(parse_complete(t, opening.end), LAMBDA value :
    Then(Expect(t, value.end, ")"), LAMBDA r : Ok(Raise(value.v), r.end))))
internal_assert(t, i) ==
    Then(Expect(t, i + 1, "("), LAMBDA opening :
    Then(parse_complete(t, opening.end), LAMBDA condition :
    Then(IF Kind(t, condition.end) = "," THEN parse_complete(t, condition.end + 1) ELSE Ok(Absent, condition.end),
         LAMBDA message :
    Then(Expect(t, message.end, ")"), LAMBDA r : Ok(AssertForm(condition.v, message.v), r.end)))))

CompleteExpression(t, i) ==
    CASE Kind(t, i) = "try"    -> internal_try(t, i)
      [] Kind(t, i) = "with"   -> internal_with(t, i + 1, <<>>)
      [] Kind(t, i) = "raise"  -> internal_raise(t, i)
      [] Kind(t, i) = "assert" -> internal_assert(t, i)
      [] Kind(t, i) = "identifier" /\ Kind(t, i + 1) = "->" -> internal_bare_function(t, i)
      [] Kind(t, i) = "(" /\ FunctionAhead(t, i, 0)         -> internal_function(t, i)
      [] OTHER -> internal_conditional(t, i)

-----------------------------------------------------------------------------
(* The whole text: one expression, or a tuple without parentheses. *)
parse(t) ==
    Then(parse_complete(t, 1), LAMBDA first :
    IF Kind(t, first.end) # "," THEN Then(Expect(t, first.end, "end of input"), LAMBDA r : first)
    ELSE Then(Others(t, first.end, "end of input", FALSE, <<first.v>>), LAMBDA r : Ok(Tuple(r.v), r.end)))

IsMarker(node) == node.kind = "Constant" /\ node.label[1] = "marker"
parse_tokens(tokens) ==
    Then(ParseBy(<<"whole">>, TokenStream(tokens), 1), LAMBDA r :
    IF ~IsMarker(r.v) /\ \E node \in Range(walk(r.v)) : IsMarker(node)
    THEN Bad("a marker must be a complete expression") ELSE r)

ParseBy(rule, t, i) ==
    CASE rule[1] = "complete"       -> CompleteExpression(t, i)
      [] rule[1] = "nonconditional" -> internal_coalesce(t, i)
      [] rule[1] = "operand"        -> Operand(t, i, rule[2])
      [] rule[1] = "whole"          -> parse(t)
      [] rule[1] = "tokens"         -> parse_tokens(t)

parse_expression(text) == Then(scan_tokens(text), LAMBDA r : parse_tokens(r.v))
=============================================================================
