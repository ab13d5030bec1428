------------------------------ MODULE Language ------------------------------
(***************************************************************************)
(* The language from end to end: a tree is printed, the text is scanned    *)
(* and parsed, and the tree it gives is evaluated.  One step for each.     *)
(***************************************************************************)
EXTENDS Evaluator

CONSTANTS Trees, Texts, Bindings  \* what starts a run, and the external names
ASSUME TreesWellFormed == \A node \in Trees : WellFormed(node)

VARIABLES stage, tree, text, tokens, expr, outcome
vars == <<stage, tree, text, tokens, expr, outcome>>

Parser == INSTANCE SourceParser
Dependencies == INSTANCE StaticDependencies

Init == /\ \/ stage = "built" /\ tree \in Trees /\ text = ""
           \/ stage = "printed" /\ tree = Absent /\ text \in Texts
        /\ tokens = <<>> /\ expr = Absent /\ outcome = <<>>

(* A stage gives its result to the next one or refuses. *)
Becomes(result, variable, next) ==
    IF result.ok THEN variable' = result.v /\ stage' = next
    ELSE variable' = variable /\ stage' = "refused"

Render == /\ stage = "built"
         /\ Becomes(Printed!to_source(tree), text, "printed")
         /\ UNCHANGED <<tree, tokens, expr, outcome>>
Scan == /\ stage = "printed"
        /\ Becomes(scan_tokens(text), tokens, "scanned")
        /\ UNCHANGED <<tree, text, expr, outcome>>
Parse == /\ stage = "scanned"
         /\ Becomes(Parser!parse_tokens(tokens), expr, "parsed")
         /\ UNCHANGED <<tree, text, tokens, outcome>>
Evaluate == /\ stage = "parsed"
            /\ outcome' = interpret_expression(expr, Bindings, <<"definition">>)
            /\ stage' = "evaluated"
            /\ UNCHANGED <<tree, text, tokens, expr>>

Next == Render \/ Scan \/ Parse \/ Evaluate
Spec == Init /\ [][Next]_vars

-----------------------------------------------------------------------------
(* Trees that print without loss.  The printer puts parentheses by         *)
(* precedence alone, and these are the places where that is not enough.    *)

(* Parsed without the conditional and the forms, printed as if with them. *)
Narrow(node) ==
    CASE node.kind = "Clause" -> Tail(node.parts)
      [] node.kind \in {"WithItem", "ExceptHandler", "Parameter"} -> <<node.parts[1]>>
      [] OTHER -> <<>>

(* An except or a finally after the text of the node would join it. *)
RECURSIVE OpenTry(_)
OpenTry(node) ==
    CASE node.kind = "Try" -> Last(node.parts) = Absent \/ OpenTry(Last(node.parts))
      [] node.kind \in {"Function", "With"} -> OpenTry(Last(node.parts))
      [] OTHER -> FALSE
(* A colon of the node stands outside brackets. *)
RECURSIVE OpenColon(_)
OpenColon(node) == node.kind \in {"Try", "With"} \/ (node.kind = "Function" /\ OpenColon(Last(node.parts)))

PlainField(field) ==
    field.kind = "FormattedValue" =>
        /\ ~OpenColon(field.parts[1])
        /\ At(Printed!to_source(field.parts[1]).v, 1) # "{"
RECURSIVE Unambiguous(_)
Unambiguous(node) ==
    LET part == node.parts IN
    /\ \A k \in DOMAIN Narrow(node) : Narrow(node)[k].kind \notin Forms \cup {"Conditional"}
    /\ node.kind = "Try" => /\ ~OpenTry(part[1])
                            /\ \A k \in 2..(Len(part) - 1) :
                                  (k < Len(part) - 1 \/ Last(part) # Absent) => ~OpenTry(part[k].parts[2])
    /\ (node.kind = "Attribute" /\ part[1].kind = "Constant") => part[1].label[1] \notin {"int", "float"}
    /\ node.kind = "Subscript" => /\ part[2].kind # "Starred"
                                  /\ part[2].kind = "Tuple" => /\ Len(part[2].parts) >= 2
                                                               /\ \A k \in DOMAIN part[2].parts :
                                                                     part[2].parts[k].kind # "Starred"
    /\ node.kind = "Boolean" => \A k \in DOMAIN part : part[k].label # node.label
    /\ node.kind = "Set" => part # <<>>
    /\ node.kind = "JoinedString" => \A k \in DOMAIN part : PlainField(part[k])
    /\ \A k \in DOMAIN part : Unambiguous(part[k])

(* What parses is a well-formed tree, and what is printed from a tree parses to
   that tree: the parentheses that the renderers' precedences ask for are those
   that the parser's binding powers need, over every operator and every place an
   expression can stand in (operator_rendering.py, primary_rendering.py, expression_form_rendering.py
   against pratt_parser.py, logical_parser.py and the display parsers). *)
RoundTrip ==
    /\ stage = "parsed" => WellFormed(expr)
    /\ (stage \in {"parsed", "refused"} /\ tree # Absent /\ Unambiguous(tree))
           => stage = "parsed" /\ expr = tree

PrintsAs(canonical, parsed) == parsed.ok /\ Printed!to_source(parsed.v) = canonical

(* Every text that parses has a canonical text that parses too, and is
   canonical itself. *)
CanonicalTextStable ==
    stage = "parsed" =>
        PrintsAs(Printed!to_source(expr),
                 Then(Printed!to_source(expr), LAMBDA r : Parser!parse_expression(r.v)))

-----------------------------------------------------------------------------
(* Evaluation.                                                             *)

Log == outcome.s.log
Reads(from, to) == {Log[k][2] : k \in {j \in from..to : Log[j][1] = "read"}}
Positions(events) == {k \in DOMAIN Log : Log[k][1] \in events}
FailureLogged == Positions({"failed"}) # {}
(* Up to the first call of a function or iteration of a generator. *)
BeforeDeferred == LET first == {k \in Positions({"called", "iterated"}) :
                                   \A j \in Positions({"called", "iterated"}) : k <= j}
                  IN IF first = {} THEN Len(Log) ELSE (CHOOSE k \in first : TRUE) - 1

(* The static analysis tells the truth about every evaluation: a name read
   from outside is among the dependencies; one that is only deferred is read
   in no other way than by a call or an iteration; and where nothing failed
   an eager one has been read (ast_dependency_analysis.py against the
   evaluators: the Frame orders, caches and reports by these kinds). *)
DependenciesSound ==
    stage = "evaluated" =>
        LET kinds == Dependencies!KindsOf(expr)
            read == Reads(1, Len(Log))
        IN /\ read \subseteq DOMAIN kinds
           /\ \A name \in Reads(1, BeforeDeferred) : kinds[name] # {"deferred"}
           /\ ~FailureLogged => {name \in DOMAIN kinds : "eager" \in kinds[name]} \subseteq read

(* The contexts entered and the try forms begun, and not yet left, after the
   first k events; <<"wrong", k>> when event k leaves another one. *)
Opener == "exit" :> "enter" @@ "finally" :> "try"
StillOpen ==
    FoldLeft(LAMBDA open, event :
                 CASE event[1] \in {"enter", "try"} -> Append(open, <<event[1], event[2]>>)
                   [] event[1] \in {"exit", "finally"} ->
                        IF open # <<>> /\ Last(open) = <<Opener[event[1]], event[2]>> THEN Front(open)
                        ELSE Append(open, <<"wrong", event[2]>>)
                   [] OTHER -> open,
             <<>>, Log)

(* Whatever fails, every context that was entered is left and every try with
   a finally runs it, once, innermost first, before the outcome is known:
   also when an exit or a finally fails, when the budget is spent and when
   the evaluation is cancelled (context_manager_evaluation.py internal_enter_item,
   error_form_evaluation.py internal_try). *)
CleanupBalanced == stage = "evaluated" => StillOpen = <<>>

Forgiven == UNION {Log[k][2] : k \in Positions({"forgiven"})}
(* No failure disappears: each one that began is told by the outcome, as its
   cause or member, unless a handler or a suppressing context took it or it
   was replaced while the handlers were looked at.  So a failing finally or
   exit hides neither the failure before it nor its own
   (failure_aggregation.py combine_failures). *)
NoFailureLost ==
    stage = "evaluated" =>
        \A k \in Positions({"failed"}) :
            Log[k][2] \in Forgiven \cup (IF outcome.ok THEN {} ELSE Closure(outcome.v))

(* Once the step budget is spent nothing more is done: no name is read, no
   function called, no context entered, even by handlers and finally bodies;
   contexts that are open are still left (evaluation_limit.py).  No step is
   counted beyond the budget but the ones that were refused. *)
BudgetIsFinal ==
    stage = "evaluated" =>
     /\ outcome.s.steps <= MaxSteps + outcome.s.next
     /\ \A k \in Positions({"failed"}) :
            Log[k][3] = "E37_EVALUATION_STEP_LIMIT_EXCEEDED" =>
                Positions({"read", "called", "iterated", "enter"}) \subseteq 1..k
=============================================================================
