--------------------------- MODULE MCNamedCalendars --------------------------
(* Calendars a and b may be built on each other, c is built on b.           *)
EXTENDS NamedCalendars

Wish(id, fallback) == [id |-> id, fallback |-> fallback]

MCIds == {"a", "b", "c"}
MCScripts ==
    [a |-> {<<>>, <<Wish("b", "none")>>},
     b |-> {<<Wish("a", "none")>>},
     c |-> {<<Wish("b", "own")>>}]
\* Numbers above those of the load tasks.
MCCallers == {8, 9}
MCWishes == (8 :> {Wish("a", "none")}) @@ (9 :> {Wish("c", "a")})
MCReplacements == {Calendar("other", {})}

==============================================================================
