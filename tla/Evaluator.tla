------------------------------ MODULE Evaluator ------------------------------
(***************************************************************************)
(* The evaluation of a tree (lang/engine/evaluator/).                      *)
(*                                                                         *)
(* An operator named after a function of the code takes a context c and a  *)
(* store s and returns a result: a value or a failure, with the store      *)
(* after it.  The context holds what the code keeps in resolvers and in    *)
(* context variables: the bindings in scope (env) above the external ones  *)
(* (root), the depth, the functions being called and the stack of          *)
(* definitions.  The store holds what lasts: the log of what happened, the *)
(* steps taken, the next identity, the generators already iterated.        *)
(*                                                                         *)
(* A value is a tuple that starts with its type.  Operators, conversions   *)
(* and host values are Python's; they are modelled for the values that the *)
(* inputs hold.  Spans, displays, journals and traces are left out.        *)
(***************************************************************************)
EXTENDS SyntaxTrees, SourceText, Failures

Printed == INSTANCE SourcePrinter

CONSTANTS MaxDepth, MaxSteps, MaxItems  \* EvaluationLimits
ASSUME LimitsPositive == {MaxDepth, MaxSteps, MaxItems} \subseteq Nat \ {0}

Store == [log |-> <<>>, steps |-> 0, next |-> 1, iterated |-> {}]
Context(root) == [root |-> root, env |-> <<>>, depth |-> 0, active |-> {}, stack |-> <<>>]

Value(v, s) == [ok |-> TRUE, v |-> v, s |-> s]
Go(result, Continue(_, _)) == IF result.ok THEN Continue(result.v, result.s) ELSE result
Logged(s, event) == [s EXCEPT !.log = Append(@, event)]
Bound(c, name, value) == [c EXCEPT !.env = (name :> value) @@ @]

None == <<"none">>
Bool(b) == <<"bool", b>>
Integer(n) == <<"int", n>>

-----------------------------------------------------------------------------
(* Python's values (external).                                             *)

Number(v) == CASE v[1] = "int" -> v[2] [] v[1] = "bool" -> IF v[2] THEN 1 ELSE 0
IsNumber(v) == v[1] \in {"int", "bool"}
Truth(v) == CASE v[1] = "none" -> FALSE
              [] IsNumber(v)   -> Number(v) # 0
              [] v[1] = "str"  -> v[2] # ""
              [] v[1] \in {"list", "tuple", "set", "dict"} -> v[2] # <<>>
              [] OTHER         -> TRUE

RECURSIVE Same(_, _)
Same(a, b) ==
    CASE IsNumber(a) /\ IsNumber(b) -> Number(a) = Number(b)
      [] a[1] # b[1]                -> FALSE
      [] a[1] \in {"list", "tuple"} ->
            Len(a[2]) = Len(b[2]) /\ \A k \in DOMAIN a[2] : Same(a[2][k], b[2][k])
      [] a[1] \in {"set", "dict", "record"} ->
            Len(a[2]) = Len(b[2]) /\ \A k \in DOMAIN a[2] : \E j \in DOMAIN b[2] :
                IF a[1] = "set" THEN Same(a[2][k], b[2][j])
                ELSE Same(a[2][k][1], b[2][j][1]) /\ Same(a[2][k][2], b[2][j][2])
      [] a[1] = "none"              -> TRUE
      [] OTHER                      -> a[2] = b[2]
RECURSIVE Hashable(_)
Hashable(v) == CASE v[1] \in {"list", "set", "dict"} -> FALSE
                 [] v[1] = "tuple"  -> \A k \in DOMAIN v[2] : Hashable(v[2][k])
                 [] v[1] = "record" -> \A k \in DOMAIN v[2] : Hashable(v[2][k][2])
                 [] OTHER           -> TRUE
Member(v, values) == \E k \in DOMAIN values : Same(v, values[k])
WithMember(values, v) == IF Member(v, values) THEN values ELSE Append(values, v)
Find(pairs, key) == {k \in DOMAIN pairs : Same(pairs[k][1], key)}
(* A key keeps its place when its value is replaced. *)
Put(pairs, key, value) ==
    IF Find(pairs, key) = {} THEN Append(pairs, <<key, value>>)
    ELSE [k \in DOMAIN pairs |-> IF k \in Find(pairs, key) THEN <<pairs[k][1], value>> ELSE pairs[k]]
Merge(pairs, others) == FoldLeft(LAMBDA all, p : Put(all, p[1], p[2]), pairs, others)
Items(v) == CASE v[1] = "dict" -> [k \in DOMAIN v[2] |-> v[2][k][1]]
              [] v[1] = "str"  -> [k \in 1..Len(v[2]) |-> <<"str", At(v[2], k)>>]
              [] OTHER         -> v[2]
Sized == {"list", "tuple", "set", "dict", "str"}

RECURSIVE Shown(_)
Shown(v) ==
    LET All(values) == Printed!Join([k \in DOMAIN values |-> Shown(values[k])], ", ") IN
    CASE v[1] = "none"  -> "None"
      [] v[1] = "bool"  -> IF v[2] THEN "True" ELSE "False"
      [] v[1] = "int"   -> ToString(v[2])
      [] v[1] = "str"   -> Printed!StringRepr(v[2])
      [] v[1] = "list"  -> "[" \o All(v[2]) \o "]"
      [] v[1] = "tuple" -> "(" \o All(v[2]) \o (IF Len(v[2]) = 1 THEN ",)" ELSE ")")
      [] OTHER          -> "<" \o v[1] \o ">"
Str(v) == IF v[1] = "str" THEN v[2] ELSE Shown(v)

UNARY(operator, v, s) ==
    CASE ~IsNumber(v)   -> Fail("TypeError", "", s)
      [] operator = "-" -> Value(Integer(-Number(v)), s)
      [] operator = "+" -> Value(Integer(Number(v)), s)
      [] operator = "~" -> Value(Integer(-Number(v) - 1), s)
Quotient(m, n) == IF n > 0 THEN m \div n ELSE (-m) \div (-n)
Repeated(v, n) ==
    FoldLeft(LAMBDA all, k : <<v[1], all[2] \o v[2]>>, <<v[1], IF v[1] = "str" THEN "" ELSE <<>>>>, [k \in 1..n |-> k])
BINARY(operator, a, b, s) ==
    CASE operator = "+" /\ a[1] = b[1] /\ a[1] \in {"list", "tuple", "str"} -> Value(<<a[1], a[2] \o b[2]>>, s)
      [] operator = "*" /\ IsNumber(b) /\ a[1] \in {"list", "tuple", "str"} -> Value(Repeated(a, Number(b)), s)
      [] operator = "*" /\ IsNumber(a) /\ b[1] \in {"list", "tuple", "str"} -> Value(Repeated(b, Number(a)), s)
      [] ~IsNumber(a) \/ ~IsNumber(b) -> Fail("TypeError", "", s)
      [] operator = "+" -> Value(Integer(Number(a) + Number(b)), s)
      [] operator = "-" -> Value(Integer(Number(a) - Number(b)), s)
      [] operator = "*" -> Value(Integer(Number(a) * Number(b)), s)
      [] operator \in {"//", "/", "%"} ->  \* the quotient is a float
            IF Number(b) = 0 THEN Fail("ZeroDivisionError", "", s)
            ELSE Value(CASE operator = "//" -> Integer(Quotient(Number(a), Number(b)))
                         [] operator = "/"  -> <<"float", <<Number(a), Number(b)>>>>
                         [] operator = "%"  -> Integer(Number(a) - Number(b) * Quotient(Number(a), Number(b))), s)
      [] operator = "**" /\ Number(b) >= 0 ->
            Value(Integer(IF Number(b) = 0 THEN 1 ELSE Number(a) ^ Number(b)), s)
      [] operator = "<<" /\ Number(b) >= 0 -> Value(Integer(Number(a) * 2^Number(b)), s)
      [] operator = ">>" /\ Number(b) >= 0 -> Value(Integer(Number(a) \div 2^Number(b)), s)
      [] operator \in {"&", "|", "^"} /\ {Number(a), Number(b)} \subseteq {0, 1} ->
            Value(Integer(CASE operator = "&" -> Number(a) * Number(b)
                            [] operator = "|" -> Number(a) + Number(b) - Number(a) * Number(b)
                            [] operator = "^" -> (Number(a) + Number(b)) % 2), s)
      [] OTHER -> Fail("TypeError", "", s)
COMPARE(operator, a, b, s) ==
    CASE operator = "==" -> Value(Same(a, b), s)
      [] operator = "!=" -> Value(~Same(a, b), s)
      [] operator = "is" -> Value(a[1] = b[1] /\ Same(a, b), s)
      [] operator = "is not" -> Value(~(a[1] = b[1] /\ Same(a, b)), s)
      [] operator \in {"in", "not in"} ->
            IF b[1] \notin Sized \/ (b[1] = "str" /\ a[1] # "str") THEN Fail("TypeError", "", s)
            ELSE Value(Member(a, Items(b)) <=> operator = "in", s)
      [] ~IsNumber(a) \/ ~IsNumber(b) -> Fail("TypeError", "", s)
      [] operator = "<"  -> Value(Number(a) < Number(b), s)
      [] operator = "<=" -> Value(Number(a) <= Number(b), s)
      [] operator = ">"  -> Value(Number(a) > Number(b), s)
      [] operator = ">=" -> Value(Number(a) >= Number(b), s)

(* value[index]; a slice counts from the end for a negative bound, and its
   step is not negative. *)
Edge(bound, default, n) ==
    CASE bound = None      -> default
      [] Number(bound) < 0 -> IF Number(bound) + n < 0 THEN 0 ELSE Number(bound) + n
      [] OTHER             -> IF Number(bound) > n THEN n ELSE Number(bound)
Sliced(value, slice, s) ==
    LET n == Len(value[2])
        from == Edge(slice[2], 0, n)
        to == Edge(slice[3], n, n)
        step == IF slice[4] = None THEN 1 ELSE Number(slice[4])
        kept == IF to <= from THEN 0 ELSE (to - from - 1) \div step + 1
    IN IF \E k \in 2..4 : slice[k] # None /\ ~IsNumber(slice[k]) THEN Fail("TypeError", "", s)
       ELSE IF step = 0 THEN Fail("ValueError", "", s)
       ELSE Value(<<value[1], [k \in 1..kept |-> value[2][from + 1 + (k - 1) * step]]>>, s)
Item(value, index, s) ==
    LET n == Len(value[2])
        at == IF Number(index) < 0 THEN Number(index) + n + 1 ELSE Number(index) + 1
    IN CASE value[1] = "dict" ->
              IF ~Hashable(index) THEN Fail("TypeError", "", s)
              ELSE IF Find(value[2], index) = {} THEN Fail("KeyError", "", s)
              ELSE Value(value[2][CHOOSE k \in Find(value[2], index) : TRUE][2], s)
         [] value[1] \notin {"list", "tuple", "str"} -> Fail("TypeError", "", s)
         [] value[1] \in {"list", "tuple"} /\ index[1] = "slice" -> Sliced(value, index, s)
         [] ~IsNumber(index) -> Fail("TypeError", "", s)
         [] at \notin 1..n -> Fail("IndexError", "", s)
         [] OTHER -> Value(IF value[1] = "str" THEN <<"str", At(value[2], at)>> ELSE value[2][at], s)
Getattr(value, name, s) ==
    IF value[1] = "record" /\ Find(value[2], <<"str", name>>) # {}
    THEN Value(value[2][CHOOSE k \in Find(value[2], <<"str", name>>) : TRUE][2], s)
    ELSE Fail("AttributeError", "", s)

(* Host functions: a class makes an exception, and the others are named for
   what they do. *)
HostCall(target, positional, keywords, c, s) ==
    CASE target = <<"host", "fail">>   -> Fail("ValueError", "", s)
      [] target = <<"host", "cancel">> -> Fail("CancelledError", "", s)
      [] target = <<"host", "args">>   -> Value(<<"tuple", positional>>, s)
      [] target = <<"host", "lhs">>    ->  \* definition_scope.py: lhs
            IF c.stack = <<>> THEN Fail("LclEvaluationError", "E33_LHS_FAILURE", s)
            ELSE Value(<<"str", Last(c.stack)>>, s)
      [] target[1] = "class" -> Value(<<"exception", Made(s.next, target[2], "", <<>>, <<>>)>>,
                                      [s EXCEPT !.next = @ + 1])
      [] OTHER -> Fail("TypeError", "", s)

-----------------------------------------------------------------------------

RECURSIVE internal_evaluate(_, _, _)

(* name_resolver.py: the bindings in scope, then the external ones, where a
   name may be marked as masked and a value may still have to be awaited. *)
ScopedResolve(name, c, s) ==
    LET marked == name \o "!"
        selected == c.root[IF marked \in DOMAIN c.root THEN marked ELSE name]
        failed == Fail(selected[2], "", s)
    IN CASE name \in DOMAIN c.env -> Value(c.env[name], s)
         [] {name, marked} \subseteq DOMAIN c.root -> Fail("LclEvaluationError", "E33_DUPLICATE_BINDING_NAME", s)
         [] {name, marked} \cap DOMAIN c.root = {} -> Fail("LclNameError", "E33_UNKNOWN_VARIABLE", s)
         [] selected[1] = "failing" ->
              wrap_failure(failed.v, "LclEvaluationError", "E33_NAME_RESOLUTION_NATIVE_FAILURE",
                           Logged(failed.s, <<"read", name>>))
         [] OTHER -> Value(selected, Logged(s, <<"read", name>>))

(* logical_evaluation.py *)
RECURSIVE internal_boolean(_, _, _, _)
internal_boolean(operator, values, c, s) ==
    Go(internal_evaluate(Head(values), c, s), LAMBDA v, s1 :
       IF Len(values) = 1 \/ (operator = "and" /\ ~Truth(v)) \/ (operator = "or" /\ Truth(v))
       THEN Value(v, s1) ELSE internal_boolean(operator, Tail(values), c, s1))
internal_evaluate_logical(node, c, s) ==
    CASE node.kind = "Boolean" -> internal_boolean(node.label[1], node.parts, c, s)
      [] node.kind = "Unary" -> Go(internal_evaluate(node.parts[1], c, s), LAMBDA v, s1 : Value(Bool(~Truth(v)), s1))
      [] node.kind = "Conditional" ->
            Go(internal_evaluate(node.parts[2], c, s), LAMBDA v, s1 :
               internal_evaluate(node.parts[IF Truth(v) THEN 1 ELSE 3], c, s1))
      [] node.kind = "Coalesce" ->
            Go(internal_evaluate(node.parts[1], c, s), LAMBDA v, s1 :
               IF v # None THEN Value(v, s1) ELSE internal_evaluate(node.parts[2], c, s1))

(* operator_evaluation.py *)
RECURSIVE internal_compare(_, _, _, _, _)
internal_compare(node, k, left, c, s) ==
    IF k > Len(node.label) THEN Value(Bool(TRUE), s)
    ELSE Go(internal_evaluate(node.parts[k + 1], c, s), LAMBDA right, s1 :
         Go(COMPARE(node.label[k], left, right, s1), LAMBDA holds, s2 :
            IF holds THEN internal_compare(node, k + 1, right, c, s2) ELSE Value(Bool(FALSE), s2)))
internal_evaluate_operation(node, c, s) ==
    Go(internal_evaluate(node.parts[1], c, s), LAMBDA left, s1 :
       CASE node.kind = "Unary"   -> UNARY(node.label[1], left, s1)
         [] node.kind = "Binary"  -> Go(internal_evaluate(node.parts[2], c, s1), LAMBDA right, s2 :
                                        BINARY(node.label[1], left, right, s2))
         [] node.kind = "Compare" -> internal_compare(node, 1, left, c, s1))

(* primary_evaluation.py; the missing parts of a slice are None. *)
OptionalValue(node, c, s) == IF node = Absent THEN Value(None, s) ELSE internal_evaluate(node, c, s)
internal_slice(node, c, s) ==
    Go(OptionalValue(node.parts[1], c, s), LAMBDA lower, s1 :
    Go(OptionalValue(node.parts[2], c, s1), LAMBDA upper, s2 :
    Go(OptionalValue(node.parts[3], c, s2), LAMBDA step, s3 : Value(<<"slice", lower, upper, step>>, s3))))
internal_evaluate_primary(node, c, s) ==
    IF node.kind = "Slice" THEN internal_slice(node, c, s)
    ELSE Go(internal_evaluate(node.parts[1], c, s), LAMBDA value, s1 :
         CASE node.kind = "SafeAttribute" /\ value = None -> Value(None, s1)
           [] node.kind = "Subscript" -> Go(internal_evaluate(node.parts[2], c, s1), LAMBDA index, s2 :
                                            Item(value, index, s2))
           [] OTHER -> Getattr(value, node.label[1], s1))

-----------------------------------------------------------------------------
(* Iteration (value_iteration.py, comprehension_evaluation.py).  The values *)
(* of an iterable are delivered one by one to a chain of consumers: each    *)
(* clause that is being iterated, and at the end the collection they build. *)
(* A generator runs only while someone consumes it, once; one that a failed *)
(* consumer left half way is not taken up again, which no input does.       *)

RECURSIVE internal_bindings(_, _, _, _, _, _)
RECURSIVE internal_conditions(_, _, _)
RECURSIVE Feed(_, _, _, _, _)
internal_conditions(conditions, c, s) ==
    IF conditions = <<>> THEN Value(TRUE, s)
    ELSE Go(internal_evaluate(Head(conditions), c, s), LAMBDA v, s1 :
            IF Truth(v) THEN internal_conditions(Tail(conditions), c, s1) ELSE Value(FALSE, s1))

(* consumers: the collection last, before it the clauses, innermost first. *)
Deliver(item, consumers, collected, c, s) ==
    LET consumer == Head(consumers)
        clause == Head(consumer.clauses)
        scope == Bound([c EXCEPT !.env = consumer.env], clause.parts[1].label[1], item)
    IN CASE Len(consumers) = 1 /\ consumer.into = "set" ->
              IF Hashable(item) THEN Value(WithMember(collected, item), s) ELSE Fail("TypeError", "", s)
         [] Len(consumers) = 1 /\ consumer.into = "list" -> Value(Append(collected, item), s)
         [] OTHER -> Go(internal_conditions(Conditions(clause), scope, s), LAMBDA kept, s1 :
                        IF kept THEN internal_bindings(Tail(consumer.clauses), consumer.element, Tail(consumers),
                                                       collected, scope, s1)
                        ELSE Value(collected, s1))
Feed(items, consumers, collected, c, s) ==
    IF items = <<>> THEN Value(collected, s)
    ELSE Go(Deliver(Head(items), consumers, collected, c, s), LAMBDA more, s1 :
            Feed(Tail(items), consumers, more, c, s1))
iterate_values(value, consumers, collected, c, s) ==
    CASE value[1] = "generator" /\ value[2] \in s.iterated -> Value(collected, s)
      [] value[1] = "generator" ->
            internal_bindings(value[4], value[3], consumers, collected, [c EXCEPT !.env = value[5]],
                              Logged([s EXCEPT !.iterated = @ \cup {value[2]}], <<"iterated">>))
      [] value[1] = "feed" ->  \* a host iterable that fails after its items
            Go(Feed(value[2], consumers, collected, c, s), LAMBDA more, s1 :
               LET failed == Fail("ValueError", "", s1)
               IN wrap_failure(failed.v, "LclEvaluationError", "E35_ITERATION_FAILURE", failed.s))
      [] value[1] \in Sized -> Feed(Items(value), consumers, collected, c, s)
      [] OTHER -> Fail("LclEvaluationError", "E35_NOT_ITERABLE", s)
AllOf(value, c, s) == iterate_values(value, <<[into |-> "list", clauses |-> <<Absent>>]>>, <<>>, c, s)

(* One entry of a dict display or comprehension, which have a code each for
   what is unpacked and is no mapping. *)
Entry(entry, code, collected, c, s) ==
    Go(internal_evaluate(entry.parts[1], c, s), LAMBDA first, s1 :
       CASE entry.kind = "KeyValue" ->
              Go(internal_evaluate(entry.parts[2], c, s1), LAMBDA value, s2 :
                 IF Hashable(first) THEN Value(Put(collected, first, value), s2) ELSE Fail("TypeError", "", s2))
         [] entry.kind = "DictUnpack" ->
              IF first[1] = "dict" THEN Value(Merge(collected, first[2]), s1)
              ELSE Fail("LclEvaluationError", code, s1))

internal_bindings(clauses, element, consumers, collected, c, s) ==
    CASE clauses # <<>> ->
            Go(internal_evaluate(Head(clauses).parts[2], c, s), LAMBDA iterable, s1 :
               iterate_values(iterable, <<[into |-> "", clauses |-> clauses, element |-> element, env |-> c.env]>>
                                        \o consumers, collected, c, s1))
      [] element.kind \in {"KeyValue", "DictUnpack"} ->
            Entry(element, "E35_DICTIONARY_UNPACKING_REQUIRES_A_MAPPING", collected, c, s)
      [] element.kind = "Starred" ->
            Go(internal_evaluate(element.parts[1], c, s), LAMBDA expanded, s1 :
               iterate_values(expanded, consumers, collected, c, s1))
      [] OTHER -> Go(internal_evaluate(element, c, s), LAMBDA v, s1 : Deliver(v, consumers, collected, c, s1))

internal_evaluate_comprehension(node, c, s) ==
    LET into == CASE node.kind = "ListComprehension" -> "list"
                  [] node.kind = "SetComprehension" -> "set"
                  [] node.kind = "DictComprehension" -> "dict"
    IN IF node.kind = "Generator"
       THEN Value(<<"generator", s.next, node.parts[1], Tail(node.parts), c.env>>, [s EXCEPT !.next = @ + 1])
       ELSE Go(internal_bindings(Tail(node.parts), node.parts[1], <<[into |-> into, clauses |-> <<Absent>>]>>, <<>>, c, s),
               LAMBDA collected, s1 : Value(<<into, collected>>, s1))

(* collection_evaluation.py *)
RECURSIVE internal_sequence(_, _, _, _)
internal_sequence(elements, values, c, s) ==
    IF elements = <<>> THEN Value(values, s)
    ELSE LET element == Head(elements) IN
         IF element.kind = "Starred"
         THEN Go(internal_evaluate(element.parts[1], c, s), LAMBDA expanded, s1 :
              Go(AllOf(expanded, c, s1), LAMBDA items, s2 :
                 internal_sequence(Tail(elements), values \o items, c, s2)))
         ELSE Go(internal_evaluate(element, c, s), LAMBDA v, s1 :
                 internal_sequence(Tail(elements), Append(values, v), c, s1))
RECURSIVE internal_dictionary(_, _, _, _)
internal_dictionary(entries, pairs, c, s) ==
    IF entries = <<>> THEN Value(<<"dict", pairs>>, s)
    ELSE Go(Entry(Head(entries), "E34_DICTIONARY_UNPACKING_REQUIRES_A_MAPPING", pairs, c, s), LAMBDA more, s1 :
            internal_dictionary(Tail(entries), more, c, s1))
internal_evaluate_display(node, c, s) ==
    CASE node.kind = "Dict" -> internal_dictionary(node.parts, <<>>, c, s)
      [] node.kind = "RecordDisplay" ->
            Go(internal_sequence([k \in DOMAIN node.parts |-> node.parts[k].parts[1]], <<>>, c, s), LAMBDA values, s1 :
               Value(<<"record", [k \in DOMAIN values |-> <<<<"str", node.parts[k].label[1]>>, values[k]>>]>>, s1))
      [] node.kind = "Set" ->
            Go(internal_sequence(node.parts, <<>>, c, s), LAMBDA values, s1 :
               IF \A k \in DOMAIN values : Hashable(values[k])
               THEN Value(<<"set", FoldLeft(WithMember, <<>>, values)>>, s1) ELSE Fail("TypeError", "", s1))
      [] OTHER -> Go(internal_sequence(node.parts, <<>>, c, s), LAMBDA values, s1 :
                     Value(<<IF node.kind = "List" THEN "list" ELSE "tuple", values>>, s1))

(* fstring_evaluation.py.  What format does with a value and a specification
   it accepts is named, not computed. *)
Specifications == {"", ">"} \cup {ToString(n) : n \in -9..9}
RECURSIVE internal_evaluate_joined(_, _, _, _)
internal_format_value(field, c, s) ==
    Go(internal_evaluate(field.parts[1], c, s), LAMBDA v, s1 :
       LET debug == field.label[2] = "="
           conversion == IF field.label[1] = "" /\ debug /\ field.parts[2] = Absent THEN "r" ELSE field.label[1]
           value == CASE conversion = "s" -> Str(v) [] conversion \in {"r", "a"} -> Shown(v) [] OTHER -> Str(v)
           source == Printed!to_source(field.parts[1])
           prefix == IF debug THEN source.v \o "=" ELSE ""
       IN CASE debug /\ ~source.ok -> Fail("LclValidationError", "E41_UNSUPPORTED_AST_NODE", s1)
            [] field.parts[2] = Absent -> Value(prefix \o value, s1)
            [] OTHER ->
               Go(internal_evaluate(field.parts[2], c, s1), LAMBDA spec, s2 :
                  IF spec[2] \notin Specifications THEN Fail("ValueError", "", s2)
                  ELSE Value(prefix \o "format(" \o value \o "," \o spec[2] \o ")", s2)))
internal_evaluate_joined(values, text, c, s) ==
    IF values = <<>> THEN Value(<<"str", text>>, s)
    ELSE IF Head(values).kind = "StringText"
    THEN internal_evaluate_joined(Tail(values), text \o Head(values).label[1], c, s)
    ELSE Go(internal_format_value(Head(values), c, s), LAMBDA shown, s1 :
            internal_evaluate_joined(Tail(values), text \o shown, c, s1))

-----------------------------------------------------------------------------
(* Functions and calls.                                                    *)

(* function_arguments.py; a parameter is [name, kind, default], named is a
   sequence of pairs, and the state of the loop is what the code keeps. *)
Named(named, name) == {k \in DOMAIN named : named[k][1] = name}
take_named(parameter, b) ==
    LET here == Named(b.named, parameter.name) IN
    CASE here # {} -> [b EXCEPT !.values = (parameter.name :> b.named[CHOOSE k \in here : TRUE][2]) @@ @,
                                !.named = SelectSeq(@, LAMBDA p : p[1] # parameter.name)]
      [] here = {} /\ parameter.default # <<>> ->
            [b EXCEPT !.values = (parameter.name :> parameter.default[1]) @@ @]
      [] OTHER -> [b EXCEPT !.error = "E32_MISSING_REQUIRED_ARGUMENT"]
bind_positional(parameter, args, b) ==
    IF b.position > Len(args) THEN take_named(parameter, b)
    ELSE IF Named(b.named, parameter.name) # {} THEN [b EXCEPT !.error = "E32_MULTIPLE_VALUES_FOR_ARGUMENT"]
    ELSE [b EXCEPT !.values = (parameter.name :> args[b.position]) @@ @, !.position = @ + 1]
BindOne(parameter, args, b) ==
    CASE b.error # "" -> b
      [] parameter.kind = "positional" -> bind_positional(parameter, args, b)
      [] parameter.kind = "variadic-positional" ->
            [b EXCEPT !.values = (parameter.name :> <<"tuple", SubSeq(args, b.position, Len(args))>>) @@ @,
                      !.position = Len(args) + 1]
      [] parameter.kind = "keyword-only" -> take_named(parameter, b)
      [] parameter.kind = "variadic-keyword" ->
            [b EXCEPT !.values = (parameter.name :>
                         <<"dict", [k \in DOMAIN b.named |-> <<<<"str", b.named[k][1]>>, b.named[k][2]>>]>>) @@ @,
                      !.named = <<>>]
bind_arguments(parameters, args, named) ==
    LET b == FoldLeft(LAMBDA state, parameter : BindOne(parameter, args, state),
                      [values |-> <<>>, named |-> named, position |-> 1, error |-> ""], parameters)
    IN CASE b.error # ""              -> b
         [] b.position <= Len(args)   -> [b EXCEPT !.error = "E32_TOO_MANY_POSITIONAL_ARGUMENTS"]
         [] b.named # <<>>            -> [b EXCEPT !.error = "E32_UNEXPECTED_KEYWORD_ARGUMENT"]
         [] OTHER                     -> b

(* lcl_function.py *)
RECURSIVE Defaults(_, _, _, _)
Defaults(parameters, bound, c, s) ==
    IF parameters = <<>> THEN Value(bound, s)
    ELSE LET parameter == Head(parameters)
             Known(default) == Append(bound, [name |-> parameter.label[1], kind |-> parameter.label[2],
                                              default |-> default])
         IN IF parameter.parts[1] = Absent THEN Defaults(Tail(parameters), Known(<<>>), c, s)
            ELSE Go(internal_evaluate(parameter.parts[1], c, s), LAMBDA v, s1 :
                    Defaults(Tail(parameters), Known(<<v>>), c, s1))
create_function(node, c, s) ==
    Go(Defaults(Parameters(node), <<>>, c, s), LAMBDA parameters, s1 :
       Value(<<"function", s1.next, parameters, Last(node.parts), c.env,
               IF c.stack = <<>> THEN <<>> ELSE <<Last(c.stack)>> >>, [s1 EXCEPT !.next = @ + 1]))

(* definition_scope.py: a definition that is active already is not pushed. *)
definition_scope(name, stack) == IF stack # <<>> /\ Last(stack) = name THEN stack ELSE Append(stack, name)
CallFunction(function, positional, keywords, c, s) ==
    LET bound == bind_arguments(function[3], positional, keywords)
        stack == IF function[6] = <<>> THEN c.stack ELSE definition_scope(function[6][1], c.stack)
    IN CASE function[2] \in c.active -> Fail("LclEvaluationError", "E37_LCL_FUNCTION_RECURSION_IS_PROHIBITED", s)
         [] bound.error # "" -> Fail("LclEvaluationError", bound.error, s)
         [] OTHER -> internal_evaluate(function[4],
                         [c EXCEPT !.env = bound.values @@ function[5], !.active = @ \cup {function[2]},
                                   !.stack = stack],
                         Logged(s, <<"called">>))

(* call_evaluation.py *)
RECURSIVE internal_merge_keywords(_, _, _)
internal_merge_keywords(pairs, keywords, s) ==
    IF pairs = <<>> THEN Value(keywords, s)
    ELSE LET key == Head(pairs)[1] IN
         CASE key[1] # "str" -> Fail("LclEvaluationError", "E32_KEYWORD_UNPACKING_REQUIRES_STRING_KEYS", s)
           [] Named(keywords, key[2]) # {} -> Fail("LclEvaluationError", "E32_DUPLICATE_KEYWORD_ARGUMENT", s)
           [] OTHER -> internal_merge_keywords(Tail(pairs), Append(keywords, <<key[2], Head(pairs)[2]>>), s)
RECURSIVE EvaluateArguments(_, _, _, _)
EvaluateArguments(arguments, given, c, s) ==
    LET argument == Head(arguments)
        Next(more, s1) == EvaluateArguments(Tail(arguments), more, c, s1)
    IN IF arguments = <<>> THEN Value(given, s)
       ELSE IF argument.kind = "KeywordArgument" /\ Named(given.keywords, argument.label[1]) # {}
       THEN Fail("LclEvaluationError", "E32_DUPLICATE_KEYWORD_ARGUMENT", s)
       ELSE Go(internal_evaluate(argument.parts[1], c, s), LAMBDA v, s1 :
            CASE argument.kind = "PositionalArgument" -> Next([given EXCEPT !.positional = Append(@, v)], s1)
              [] argument.kind = "StarArgument" -> Go(AllOf(v, c, s1), LAMBDA items, s2 :
                                                      Next([given EXCEPT !.positional = @ \o items], s2))
              [] argument.kind = "KeywordArgument" ->
                    Next([given EXCEPT !.keywords = Append(@, <<argument.label[1], v>>)], s1)
              [] argument.kind = "KeywordUnpackArgument" ->
                    IF v[1] # "dict" THEN Fail("LclEvaluationError", "E32_KEYWORD_UNPACKING_REQUIRES_A_MAPPING", s1)
                    ELSE Go(internal_merge_keywords(v[2], given.keywords, s1), LAMBDA keywords, s2 :
                            Next([given EXCEPT !.keywords = keywords], s2)))
internal_evaluate_call(node, c, s) ==
    Go(internal_evaluate(node.parts[1], c, s), LAMBDA target, s1 :
    Go(EvaluateArguments(Tail(node.parts), [positional |-> <<>>, keywords |-> <<>>], c, s1), LAMBDA given, s2 :
       IF target[1] = "function" THEN CallFunction(target, given.positional, given.keywords, c, s2)
       ELSE HostCall(target, given.positional, given.keywords, c, s2)))

-----------------------------------------------------------------------------
(* Control forms.                                                          *)

(* context_manager_evaluation.py.  A context is <<"context", name, what its
   entry does, what its exit does>>. *)
HostStep(manager, action, error, s) ==
    LET done == Logged(s, <<action, manager[2]>>) IN
    CASE manager[1] # "context" -> Fail("AttributeError", "", s)
      [] action \notin {"enter", "exit"} -> Value(None, s)
      [] action = "enter" /\ manager[3] # "ok" -> Fail(manager[3], "", s)
      [] action = "enter" -> Value(<<"str", manager[2]>>, done)
      [] manager[4] = "reraises" /\ error # <<>> -> Raised(error[1], done)
      [] manager[4] \in {"quiet", "suppresses", "reraises"} -> Value(Bool(manager[4] = "suppresses"), done)
      [] OTHER -> Fail(manager[4], "", done)
internal_acquire(manager, s) == HostStep(manager, "enter", <<>>, s)
RECURSIVE internal_enter_item(_, _, _, _)
(* A wrong form: a failing body leaves its context open. *)
UnprotectedBody(items, body, c, s) ==
    IF items = <<>> THEN internal_evaluate(body, c, s)
    ELSE Go(internal_evaluate(Head(items).parts[1], c, s), LAMBDA manager, s1 :
         Go(internal_acquire(manager, s1), LAMBDA entered, s2 :
         Go(internal_enter_item(Tail(items), body,
                IF Head(items).label = <<>> THEN c ELSE Bound(c, Head(items).label[1], entered), s2), LAMBDA v, s3 :
         Go(HostStep(manager, "exit", <<>>, s3), LAMBDA suppressed, s4 : Value(v, s4)))))
internal_enter_item(items, body, c, s) ==
    IF items = <<>> THEN internal_evaluate(body, c, s)
    ELSE Go(internal_evaluate(Head(items).parts[1], c, s), LAMBDA manager, s1 :
         LET entered == internal_acquire(manager, s1)
             scope == IF Head(items).label = <<>> THEN c ELSE Bound(c, Head(items).label[1], entered.v)
             result == internal_enter_item(Tail(items), body, scope, entered.s)
             exit == HostStep(manager, "exit", IF result.ok THEN <<>> ELSE <<result.v>>, result.s)
             wrapped == wrap_failure(exit.v, "LclEvaluationError", "E38_CONTEXT_EXIT_FAILURE", exit.s)
         IN CASE ~entered.ok -> wrap_failure(entered.v, "LclEvaluationError", "E38_CONTEXT_ENTER_FAILURE", entered.s)
              [] entered.ok /\ result.ok /\ exit.ok   -> Value(result.v, exit.s)
              [] entered.ok /\ result.ok /\ ~exit.ok  -> wrapped
              [] entered.ok /\ ~result.ok /\ ~exit.ok ->
                    combine_failures(<<result.v>>, wrapped.v, "E38_COMPOSITE_FAILURE", wrapped.s)
              [] OTHER -> IF Truth(exit.v) THEN Value(None, Logged(exit.s, <<"forgiven", Closure(result.v)>>))
                          ELSE Raised(result.v, exit.s))
internal_evaluate_with(node, c, s) == internal_enter_item(Front(node.parts), Last(node.parts), c, s)

(* error_form_evaluation.py *)
internal_raise(value, s) ==
    LET given == value[2] IN
    CASE value[1] = "exception" /\ (IsLcl(given) \/ ~is_ordinary_failure(given)) ->
            Raised(given, Logged(s, <<"failed", given.id, given.code>>))
      [] value[1] = "exception" -> Raised(Made(s.next, "LclEvaluationError", "E36_EXPLICIT_RAISE", <<given>>, <<>>),
                                          Logged([s EXCEPT !.next = @ + 1], <<"failed", given.id, given.code>>))
      [] OTHER -> Fail("LclEvaluationError", "E36_EXPLICIT_RAISE", s)
internal_assert(node, c, s) ==
    Go(internal_evaluate(node.parts[1], c, s), LAMBDA v, s1 :
       IF Truth(v) THEN Value(v, s1)
       ELSE Go(OptionalValue(node.parts[2], c, s1), LAMBDA detail, s2 :
               Fail("LclEvaluationError", "E36_ASSERTION_FAILED", s2)))

(* isinstance along the chain of causes.  A matcher is a class or a tuple of
   matchers, looked at up to the first that tells; anything else is wrong. *)
RECURSIVE IsInstance(_, _)
IsInstance(failure, matcher) ==
    CASE matcher[1] = "class" -> IF IsA(failure, matcher[2]) THEN "yes" ELSE "no"
      [] matcher[1] = "tuple" ->
            LET answers == [k \in DOMAIN matcher[2] |-> IsInstance(failure, matcher[2][k])]
                telling == SelectSeq(answers, LAMBDA answer : answer # "no")
            IN IF telling = <<>> THEN "no" ELSE Head(telling)
      [] OTHER -> "wrong"
RECURSIVE internal_matches(_, _)
internal_matches(failure, matcher) ==
    LET here == IsInstance(failure, matcher) IN
    IF here # "no" \/ failure.cause = <<>> THEN here ELSE internal_matches(failure.cause[1], matcher)
RECURSIVE internal_handlers(_, _, _, _)
internal_handlers(error, handlers, c, s) ==
    LET handler == Head(handlers)
        forgiven == <<"forgiven", Closure(error)>>
        matcher == internal_evaluate(handler.parts[1], c, s)
        Selected(s1) == internal_evaluate(handler.parts[2],
                            IF handler.label = <<>> THEN c ELSE Bound(c, handler.label[1], <<"exception", error>>),
                            Logged(s1, forgiven))
    IN CASE handlers = <<>> -> Raised(error, s)
         [] handlers # <<>> /\ handler.parts[1] = Absent -> Selected(s)
         [] OTHER ->
              CASE ~matcher.ok -> [matcher EXCEPT !.s = Logged(@, forgiven)]  \* replaces the error
                [] internal_matches(error, matcher.v) = "wrong" -> Fail("TypeError", "", Logged(matcher.s, forgiven))
                [] internal_matches(error, matcher.v) = "yes" -> Selected(matcher.s)
                [] OTHER -> internal_handlers(error, Tail(handlers), c, matcher.s)

internal_try(node, c, s) ==
    LET started == IF Last(node.parts) = Absent THEN s ELSE Logged(s, <<"try", "">>)
        body == internal_evaluate(node.parts[1], c, started)
        handled == IF body.ok \/ ~IsA(body.v, "Exception") THEN body
                   ELSE internal_handlers(body.v, Handlers(node), c, body.s)
        cleanup == internal_evaluate(Last(node.parts), c, handled.s)
    IN CASE Last(node.parts) = Absent -> handled
         [] Last(node.parts) # Absent /\ cleanup.ok -> [handled EXCEPT !.s = Logged(cleanup.s, <<"finally", "">>)]
         [] OTHER -> combine_failures(IF handled.ok THEN <<>> ELSE <<handled.v>>, cleanup.v,
                                      "E36_FINALIZER_FAILURE", Logged(cleanup.s, <<"finally", "">>))

internal_evaluate_error_form(node, c, s) ==
    CASE node.kind = "Raise"  -> Go(internal_evaluate(node.parts[1], c, s), LAMBDA v, s1 : internal_raise(v, s1))
      [] node.kind = "Assert" -> internal_assert(node, c, s)
      [] node.kind = "Try"    -> internal_try(node, c, s)

-----------------------------------------------------------------------------
(* ast_interpreter.py, evaluation_budget.py, runtime/frame/evaluation_limit.py *)

ConstantValue(type, text) ==
    CASE type = "none" -> None
      [] type = "bool" -> Bool(text = "True")
      [] type = "int"  -> Integer(ValueIn(10, text))
      [] OTHER         -> <<type, text>>

internal_wrap_failure(error, node, s) ==
    wrap_failure(error, "LclEvaluationError",
        CASE node.kind = "Call"             -> "E32_HOST_CALL_FAILURE"
          [] IsA(error, "ZeroDivisionError") -> "E31_DIVISION_BY_ZERO"
          [] IsA(error, "ArithmeticError")   -> "E31_ARITHMETIC_FAILURE"
          [] IsA(error, "AttributeError")    -> "E33_MISSING_ATTRIBUTE"
          [] IsA(error, "KeyError")          -> "E33_MISSING_KEY"
          [] IsA(error, "IndexError")        -> "E33_INDEX_OUT_OF_RANGE"
          [] IsA(error, "TypeError")         -> "E31_OPERATOR_TYPE"
          [] OTHER                           -> "E39_EVALUATION_NATIVE_FAILURE", s)

internal_check_collection(node, result) ==
    IF /\ result.ok
       /\ node.kind \in Displays \cup (Comprehensions \ {"Generator"})
       /\ Len(result.v[2]) > MaxItems
    THEN Fail("LclEvaluationError", "E37_COLLECTION_ITEM_LIMIT_EXCEEDED", result.s) ELSE result

internal_evaluate_node(node, c, s) ==
    CASE node.kind = "Constant" /\ node.label[1] = "marker" /\ node.label[2] # "FRAME_PROXY" ->
            Fail("LclEvaluationError", "E39_EXPRESSION_VALUE_REQUIRED", s)
      [] node.kind = "Constant"     -> Value(ConstantValue(node.label[1], node.label[2]), s)
      [] node.kind = "Name"         -> ScopedResolve(node.label[1], c, s)
      [] node.kind \in {"Attribute", "SafeAttribute", "Subscript", "Slice"} -> internal_evaluate_primary(node, c, s)
      [] node.kind = "Call"         -> internal_evaluate_call(node, c, s)
      [] node.kind = "Function"     -> create_function(node, c, s)
      [] node.kind \in {"Raise", "Assert", "Try"} -> internal_evaluate_error_form(node, c, s)
      [] node.kind = "With"         -> internal_evaluate_with(node, c, s)
      [] node.kind = "JoinedString" -> internal_evaluate_joined(node.parts, "", c, s)
      [] node.kind \in Displays     -> internal_evaluate_display(node, c, s)
      [] node.kind \in Comprehensions -> internal_evaluate_comprehension(node, c, s)
      [] node.kind \in {"Boolean", "Coalesce", "Conditional"} \/ node.label = <<"not">> ->
            internal_evaluate_logical(node, c, s)
      [] node.kind \in {"Unary", "Binary", "Compare"} -> internal_evaluate_operation(node, c, s)
      [] OTHER -> Fail("LclEvaluationError", "E39_UNSUPPORTED_AST_NODE", s)

WrappedFor(node, result) == IF result.ok THEN result ELSE internal_wrap_failure(result.v, node, result.s)

(* A wrong form: the budget refuses the step that spends it and no later one. *)
RefusesOnce(node, c, s) ==
    LET inner == [c EXCEPT !.depth = @ + 1]
        counted == [s EXCEPT !.steps = @ + 1]
    IN CASE inner.depth > MaxDepth -> Fail("LclEvaluationError", "E37_EVALUATION_DEPTH_LIMIT_EXCEEDED", s)
         [] counted.steps = MaxSteps + 1 -> Fail("LclEvaluationError", "E37_EVALUATION_STEP_LIMIT_EXCEEDED", counted)
         [] OTHER -> WrappedFor(node, internal_check_collection(node, internal_evaluate_node(node, inner, counted)))
(* Every node counts a step and a level, and turns what is not an LCL error
   into one; control signals pass. *)
internal_evaluate(node, c, s) ==
    LET inner == [c EXCEPT !.depth = @ + 1]
        counted == [s EXCEPT !.steps = @ + 1]
    IN CASE inner.depth > MaxDepth -> Fail("LclEvaluationError", "E37_EVALUATION_DEPTH_LIMIT_EXCEEDED", s)
         [] counted.steps > MaxSteps -> Fail("LclEvaluationError", "E37_EVALUATION_STEP_LIMIT_EXCEEDED", counted)
         [] OTHER -> WrappedFor(node, internal_check_collection(node, internal_evaluate_node(node, inner, counted)))

interpret_expression(node, root, definition) ==
    internal_evaluate(node, [Context(root) EXCEPT !.stack = definition], Store)
=============================================================================
