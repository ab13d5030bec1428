--------------------------- MODULE MCLoggerScope ---------------------------
(***************************************************************************)
(* Two callers compete for the scope; one thread logs through the standard *)
(* library and one through Logger; a rotating file selects both, the       *)
(* console selects one.                                                    *)
(***************************************************************************)
EXTENDS LoggerScope

LogSelected == [k \in Sink |-> IF k = Console THEN {"worker"} ELSE Producer]
LogRecords == [p \in Producer |-> IF p = "worker" THEN 2 ELSE 1]

============================================================================
