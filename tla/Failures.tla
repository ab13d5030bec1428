------------------------------ MODULE Failures ------------------------------
(***************************************************************************)
(* Failures and how several of them become one (error/native_wrap.py,      *)
(* error/failure_aggregation.py, error/exception_group.py).  A failure has *)
(* an identity, a class, an error code ("" for a native exception), at     *)
(* most one cause, and members when it is a group.                         *)
(*                                                                         *)
(* Exceptions are objects in the code and values here: combine_failures    *)
(* changes the cause of a control signal, and the changed failure is what  *)
(* is raised from then on.  A store keeps the next identity and a log.     *)
(***************************************************************************)
EXTENDS Naturals, Sequences, SequencesExt, TLC

(* The classes of the exceptions the model knows, each with its bases. *)
Bases == "BaseException" :> {} @@ "Exception" :> {"BaseException"}
      @@ "CancelledError" :> {"BaseException"} @@ "BaseExceptionGroup" :> {"BaseException"}
      @@ "ValueError" :> {"Exception", "BaseException"} @@ "TypeError" :> {"Exception", "BaseException"}
      @@ "AttributeError" :> {"Exception", "BaseException"}
      @@ "ArithmeticError" :> {"Exception", "BaseException"}
      @@ "ZeroDivisionError" :> {"ArithmeticError", "Exception", "BaseException"}
      @@ "LookupError" :> {"Exception", "BaseException"}
      @@ "KeyError" :> {"LookupError", "Exception", "BaseException"}
      @@ "IndexError" :> {"LookupError", "Exception", "BaseException"}
      @@ "LclError" :> {"Exception", "BaseException"}
      @@ "LclNameError" :> {"LclError", "Exception", "BaseException"}
      @@ "LclEvaluationError" :> {"LclError", "Exception", "BaseException"}
      @@ "LclValidationError" :> {"LclError", "Exception", "BaseException"}
      @@ "LclErrorGroup" :> {"LclError", "Exception", "BaseExceptionGroup", "BaseException"}
IsA(failure, class) == failure.class = class \/ class \in Bases[failure.class]
IsLcl(failure) == IsA(failure, "LclError")

(* native_wrap.py: a control signal is not an ordinary failure. *)
is_ordinary_failure(failure) == IsA(failure, "Exception")

Made(id, class, code, cause, members) ==
    [id |-> id, class |-> class, code |-> code, cause |-> cause, members |-> members]

(* Everything a failure still tells of: itself, its causes and its members. *)
RECURSIVE Closure(_)
Closure(failure) ==
    {failure.id} \cup UNION {Closure(failure.cause[k]) : k \in DOMAIN failure.cause}
                 \cup UNION {Closure(failure.members[k]) : k \in DOMAIN failure.members}

(* A failure that begins here is logged; one that wraps others is not. *)
Fail(class, code, s) ==
    [ok |-> FALSE, v |-> Made(s.next, class, code, <<>>, <<>>),
     s |-> [s EXCEPT !.next = @ + 1, !.log = Append(@, <<"failed", s.next, code>>)]]
Raised(failure, s) == [ok |-> FALSE, v |-> failure, s |-> s]

(* wrap_failure: an LCL error and a control signal keep their identity. *)
wrap_failure(failure, class, code, s) ==
    IF IsLcl(failure) \/ ~is_ordinary_failure(failure) THEN Raised(failure, s)
    ELSE Raised(Made(s.next, class, code, <<failure>>, <<>>), [s EXCEPT !.next = @ + 1])

(* failure_aggregation.py *)
RECURSIVE contains_failure(_, _)
contains_failure(error, failure) ==
    LET known == IF IsLcl(failure) /\ failure.class # "LclErrorGroup" /\ failure.cause # <<>>
                 THEN failure.cause[1] ELSE failure
    IN \/ error.id = known.id
       \/ IsLcl(error) /\ error.cause # <<>> /\ error.cause[1].id = known.id
       \/ \E k \in DOMAIN error.members : contains_failure(error.members[k], known)

(* A group wraps its native members. *)
LclErrorGroup(first, second, code, s) ==
    LET one == wrap_failure(first, "LclError", "E21_GROUP_MEMBER", s)
        two == wrap_failure(second, "LclError", "E21_GROUP_MEMBER", one.s)
    IN Raised(Made(two.s.next, "LclErrorGroup", code, <<>>, <<one.v, two.v>>),
              [two.s EXCEPT !.next = @ + 1])

(* A control signal keeps the ordinary failure it meets as its cause, beside
   the cause it already had. *)
AttachedCause(signal, other, code, s) ==
    LET cause == signal.cause[1] IN
    CASE signal.cause = <<>> -> Raised([signal EXCEPT !.cause = <<other>>], s)
      [] signal.cause # <<>> /\ is_ordinary_failure(cause) /\ is_ordinary_failure(other) ->
            LET group == LclErrorGroup(cause, other, code, s)
            IN Raised([signal EXCEPT !.cause = <<group.v>>], group.s)
      [] OTHER -> Raised([signal EXCEPT !.cause =
                            <<Made(s.next, "BaseExceptionGroup", "", <<>>, <<cause, other>>)>>],
                         [s EXCEPT !.next = @ + 1])

(* A wrong form: the failure of the cleanup replaces the one before it. *)
CleanupReplaces(pending, cleanup, code, s) == wrap_failure(cleanup, "LclError", "E21_GROUP_MEMBER", s)

(* The failure of a body (pending, if there is one) and of its cleanup. *)
combine_failures(pending, cleanup, code, s) ==
    LET last == wrap_failure(cleanup, "LclError", "E21_GROUP_MEMBER", s)
        first == pending[1]
    IN CASE pending = <<>> -> last
         [] pending # <<>> /\ (first.id = cleanup.id \/ contains_failure(last.v, first)) -> last
         [] pending # <<>> /\ first.id # cleanup.id /\ contains_failure(first, last.v) -> Raised(first, last.s)
         [] is_ordinary_failure(first) /\ is_ordinary_failure(last.v) -> LclErrorGroup(first, last.v, code, last.s)
         [] is_ordinary_failure(first) /\ ~is_ordinary_failure(last.v) -> 
                LET wrapped == wrap_failure(first, "LclError", "E21_GROUP_MEMBER", last.s)
                IN AttachedCause(last.v, wrapped.v, code, wrapped.s)
         [] OTHER -> AttachedCause(first, last.v, code, last.s)
=============================================================================
