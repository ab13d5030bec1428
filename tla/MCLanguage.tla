----------------------------- MODULE MCLanguage -----------------------------
(***************************************************************************)
(* Trees, texts and bindings for the language pipeline: every kind of      *)
(* expression in every place an expression can stand in, and the control   *)
(* forms nested in one another over pieces that return, fail, are          *)
(* cancelled or spend the budget.                                          *)
(***************************************************************************)
EXTENDS Language

a == Name("a")
b == Name("b")
x == Name("x")
xs == Name("xs")
One == Constant("int", "1")
TextConstant(t) == Constant("str", t)
For(target, iterable, conditions) == Clause(Name(target), iterable, conditions)
Bare(body) == ExceptHandler(Absent, <<>>, body)
Invoke(function) == Call(Name(function), <<>>)
Lambda(names, body) == Function([k \in DOMAIN names |-> Parameter(names[k], "positional", Absent)], body)

(* One expression of each kind, most of them in the shape that needs its
   precedence. *)
Children ==
    {a, x, One, TextConstant("it's \"}\n"), Constant("none", "None"),
     Tuple(<<>>), Tuple(<<a>>), Tuple(<<a, Starred(xs)>>), List(<<Starred(xs), b>>), SetDisplay(<<a, b>>),
     Dict(<<KeyValue(a, b), DictUnpack(Name("d"))>>), RecordDisplay(<<RecordField("f", a), RecordField("g", b)>>),
     Unary("-", a), Unary("not", a), Conditional(a, b, x), Coalesce(Name("n"), a),
     Boolean("and", <<a, b>>), Boolean("or", <<a, b>>), Compare(a, <<"<">>, <<b>>),
     Compare(a, <<"is not", "not in">>, <<b, xs>>),
     JoinedString(<<StringText("{'"), FormattedValue(a, "r", JoinedString(<<StringText(">")>>), FALSE),
                    FormattedValue(b, "", Absent, TRUE)>>),
     Attribute(Name("r"), "f"), SafeAttribute(Name("n"), "f"), Subscript(xs, One),
     Subscript(xs, Slice(Absent, One, Absent)), Subscript(Name("d"), Tuple(<<a, b>>)),
     Call(Name("args"), <<PositionalArgument(a), StarArgument(xs), KeywordArgument("k", b),
                          KeywordUnpackArgument(Name("d"))>>),
     Generator(x, <<For("x", xs, <<a>>)>>), ListComprehension(x, <<For("x", xs, <<x>>), For("y", xs, <<>>)>>),
     SetComprehension(Starred(xs), <<For("y", xs, <<>>)>>),
     DictComprehension(KeyValue(x, a), <<For("x", xs, <<>>)>>),
     Try(a, <<Bare(b)>>, Absent), Try(a, <<ExceptHandler(Name("Exception"), <<"x">>, x)>>, b), Try(a, <<>>, b),
     With(<<WithItem(Name("quiet"), <<"x">>)>>, x), Lambda(<<"x">>, x), Lambda(<<>>, a),
     Raise(Invoke("ValueError")), AssertForm(a, b), AssertForm(a, Absent)}
    \cup {Binary(a, operator, b) : operator \in DOMAIN Printed!BinaryPrecedence}

(* Every place an expression can stand in, with z in it. *)
Places(z) ==
    {Tuple(<<z>>), Tuple(<<Starred(z), One>>), List(<<One, z>>), SetDisplay(<<z>>), RecordDisplay(<<RecordField("f", z)>>),
     Dict(<<KeyValue(z, One)>>), Dict(<<KeyValue(One, z)>>), Dict(<<DictUnpack(z)>>),
     Unary("-", z), Unary("not", z), Coalesce(z, One), Coalesce(One, z),
     Boolean("and", <<z, One>>), Boolean("and", <<One, z>>), Boolean("or", <<z, One>>), Boolean("or", <<One, z>>),
     Compare(z, <<"<">>, <<One>>), Compare(One, <<"==", "in">>, <<z, One>>), Compare(One, <<"in">>, <<z>>),
     Conditional(z, One, One), Conditional(One, z, One), Conditional(One, One, z),
     JoinedString(<<FormattedValue(z, "", Absent, FALSE)>>),
     JoinedString(<<FormattedValue(One, "", JoinedString(<<FormattedValue(z, "s", Absent, FALSE)>>), FALSE)>>),
     Attribute(z, "f"), SafeAttribute(z, "f"), Subscript(z, One), Subscript(xs, z), Subscript(xs, Tuple(<<z, One>>)),
     Subscript(xs, Slice(z, Absent, One)), Subscript(xs, Slice(Absent, z, Absent)),
     Call(z, <<PositionalArgument(One)>>), Call(Name("args"), <<PositionalArgument(z), StarArgument(xs)>>),
     Call(Name("args"), <<StarArgument(z), KeywordArgument("k", One)>>),
     Call(Name("args"), <<KeywordArgument("k", z)>>), Call(Name("args"), <<KeywordUnpackArgument(z)>>),
     Generator(z, <<For("x", xs, <<>>)>>), ListComprehension(One, <<For("x", z, <<One>>)>>),
     ListComprehension(z, <<For("x", xs, <<>>), For("y", x, <<>>)>>), SetComprehension(One, <<For("x", xs, <<z>>)>>),
     SetComprehension(Starred(z), <<For("y", xs, <<>>)>>),
     ListComprehension(One, <<For("x", xs, <<>>), For("y", z, <<>>)>>),
     DictComprehension(KeyValue(One, z), <<For("x", xs, <<>>)>>),
     Try(z, <<Bare(One)>>, Absent), Try(One, <<Bare(z)>>, Absent), Try(One, <<Bare(z)>>, One), Try(One, <<>>, z),
     Try(Raise(One), <<ExceptHandler(z, <<>>, One), Bare(x)>>, Absent),
     With(<<WithItem(z, <<"x">>)>>, One), With(<<WithItem(Name("quiet"), <<"x">>), WithItem(z, <<>>)>>, One),
     With(<<WithItem(Name("quiet"), <<"x">>)>>, z),
     Lambda(<<"x">>, z), Call(Lambda(<<"x", "a">>, z), <<PositionalArgument(One), PositionalArgument(One)>>),
     Function(<<Parameter("p", "positional", z), Parameter("q", "variadic-positional", Absent),
                Parameter("x", "keyword-only", Absent), Parameter("y", "variadic-keyword", Absent)>>, x),
     List(<<Starred(Generator(x, <<For("x", xs, <<z>>)>>))>>),
     Raise(z), AssertForm(z, One), AssertForm(One, z)}
    \cup {Binary(z, operator, One) : operator \in DOMAIN Printed!BinaryPrecedence}
    \cup {Binary(One, operator, z) : operator \in DOMAIN Printed!BinaryPrecedence}

(* What the control forms are made of. *)
Spender == ListComprehension(Tuple(<<a, b>>), <<For("x", xs, <<>>), For("y", xs, <<>>)>>)
Pieces == {a, Name("late"), Invoke("cancel"), Name("unknown"), Raise(Invoke("ValueError")), Spender}
Endings == {Name("late"), Invoke("cancel"), Spender}
HandlerLists == {<<>>, <<Bare(b)>>, <<ExceptHandler(Name("ValueError"), <<"x">>, x), Bare(Name("unknown"))>>,
                 <<ExceptHandler(Name("Exception"), <<"x">>, Raise(x))>>,
                 <<ExceptHandler(Name("late"), <<>>, b)>>, <<Bare(Raise(Invoke("KeyError")))>>}
Tries == {Try(body, handlers, finally) :
             body \in Pieces, handlers \in HandlerLists, finally \in Endings \cup {Absent, b}} \ {Try(body, <<>>, Absent) : body \in Pieces}
Managers == {"quiet", "suppresses", "reraises", "failing", "cancelling", "unentered"}
Withs(bodies) == {With(<<WithItem(Name(manager), <<"c">>)>>, body) : manager \in Managers, body \in bodies}
TwoItems == {With(<<WithItem(Name(m1), <<>>), WithItem(Name(m2), <<"c">>)>>, body) :
                m1 \in Managers, m2 \in Managers, body \in Pieces}
Nested == {Try(body, handlers, finally) :
              body \in Withs(Pieces), handlers \in {<<>>, <<Bare(b)>>}, finally \in Endings}
CalledLater == {Call(Lambda(<<"c">>, body), <<PositionalArgument(One)>>) : body \in Withs(Pieces)}
Iterated == {List(<<Starred(Generator(body, <<For("y", xs, <<>>)>>))>>) : body \in Withs(Pieces)}
(* The call protocol: each kind of parameter against each kind of argument. *)
ParameterLists == {<<Parameter("p", "positional", Absent), Parameter("q", "positional", default)>> : default \in {a, Name("late")}}
    \cup {<<Parameter("p", "positional", Absent), Parameter("q", "variadic-positional", Absent),
            Parameter("k", "keyword-only", Absent)>>,
          <<Parameter("p", "positional", a), Parameter("q", "variadic-keyword", Absent)>>}
ArgumentLists == {<<>>, <<PositionalArgument(One)>>, <<PositionalArgument(One), PositionalArgument(b)>>,
    <<KeywordArgument("p", One)>>, <<PositionalArgument(One), KeywordArgument("p", b)>>,
    <<StarArgument(xs), KeywordArgument("k", b)>>, <<StarArgument(Name("feed"))>>,
    <<KeywordArgument("k", b), KeywordUnpackArgument(Name("d"))>>,
    <<KeywordArgument("p", b), KeywordUnpackArgument(Name("named"))>>}
Calls == {Call(Function(parameters, List(<<Name("p"), Name("q")>>)), arguments) :
             parameters \in ParameterLists, arguments \in ArgumentLists}
Recursive == Call(Lambda(<<"x">>, Call(x, <<PositionalArgument(x)>>)), <<PositionalArgument(Lambda(<<"x">>, Call(x, <<PositionalArgument(x)>>)))>>)

NoTrees == {}
TreeSet == UNION {Places(z) : z \in Children} \cup Children \cup Tries \cup TwoItems \cup Nested
           \cup Withs(Tries) \cup CalledLater \cup Iterated \cup Calls
           \cup {Recursive, Lambda(<<"x">>, Binary(Binary(a, "**", b), "**", x)), Invoke("lhs"), Name("hidden"),
                 List(<<Starred(Name("feed"))>>), Constant("bytes", "x"), Constant("float", "1.5"), Constant("marker", "NEED_OVERRIDE"), Constant("marker", "FRAME_PROXY"),
                 ListComprehension(x, <<For("x", Name("feed"), <<>>)>>), Subscript(xs, Tuple(<<Starred(a), b>>)),
                 DictComprehension(DictUnpack(x), <<For("x", xs, <<>>)>>)}
           \cup {Try(Raise(Invoke("ValueError")), <<ExceptHandler(Tuple(matchers), <<>>, b), Bare(x)>>, Absent) :
                    matchers \in {<<a, Name("ValueError")>>, <<Name("ValueError"), a>>, <<Name("KeyError"), a>>}}

TextSet == {"a # note", "0x1F + 0b11 + 0o7 + 1_000", "'a' 'b'", "'a' b'c'", "r'\\\\n'", "'\\x41\\u0042'", "f'{a!r:>{b}}{{x}}'",
    "f'{a=}'", "f'{'", "f'}'", "a\nb", "a, b,", "a,", "(a,)", "x[()]", "x[a,]", "a ?? b ?? x", "(a ?? b) ?? x",
    "a and b and x", "(a and b) and x", "not a in b", "a not in b is not x", "-a ** -b", "(-a) ** b",
    "x -> a -> x", "(x, *a, k=1, **d) -> x", "(x=1, a) -> x", "f(a=1, a=2)", "f(**d, *a)", "f(a=1, b)",
    "{x=1, y=[2, *c,]}", "{x=1, x=2}", "{*a, b}", "{**a, b: 1}", "{}", "[x for x in xs if a if b]", "[*x for x in xs]",
    "try: a except b as e: x except: b finally: a", "try: a except: b except: x", "try: a", "with a as b, x: b",
    "raise(a)", "assert(a, b)", "assert(a, b, x)", "{__x=1}", "a b", "1 if a else b if x else a", "NEED_OVERRIDE",
    "FRAME_PROXY + 1", "1.5e3", "1.", "_a", "'open", "\"it's\"", "a.b?.c[1:2:x](a)", "x[::]", "x[]", "@", "a \\", ""}
ReprintTexts == {"[x for x in (a if b else x)]", "(1).real", "x[()]", "x[(*a, b)]", "(a and b) and x",
                 "try: (try: a except: b) except: x", "a if b else x"}

Root ==
    "a" :> Integer(1) @@ "b" :> Integer(0) @@ "x" :> Integer(1) @@ "n" :> None
 @@ "xs" :> <<"list", <<Integer(1), Integer(0), Integer(2)>>>> @@ "feed" :> <<"feed", <<Integer(1)>>>>
 @@ "d" :> <<"dict", <<<<Integer(1), Integer(0)>>>>>> @@ "named" :> <<"dict", <<<<<<"str", "p">>, Integer(0)>>>>>>
 @@ "r" :> <<"record", <<<<<<"str", "f">>, Integer(1)>>>>>> @@ "hidden!" :> Integer(3) @@ "late" :> <<"failing", "ValueError">>
 @@ "args" :> <<"host", "args">> @@ "cancel" :> <<"host", "cancel">> @@ "lhs" :> <<"host", "lhs">>
 @@ "Exception" :> <<"class", "Exception">> @@ "ValueError" :> <<"class", "ValueError">>
 @@ "KeyError" :> <<"class", "KeyError">>
 @@ "quiet" :> <<"context", "quiet", "ok", "quiet">> @@ "suppresses" :> <<"context", "suppresses", "ok", "suppresses">>
 @@ "reraises" :> <<"context", "reraises", "ok", "reraises">> @@ "failing" :> <<"context", "failing", "ok", "ValueError">>
 @@ "cancelling" :> <<"context", "cancelling", "ok", "CancelledError">>
 @@ "unentered" :> <<"context", "unentered", "ValueError", "quiet">>
=============================================================================
