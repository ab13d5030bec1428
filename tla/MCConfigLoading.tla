--------------------------- MODULE MCConfigLoading ---------------------------
(***************************************************************************)
(* Instances of ConfigLoading for TLC, and the expansion of a document     *)
(* written as a recursive definition, to compare a finished load with.     *)
(***************************************************************************)
EXTENDS ConfigLoading

\* expand as its documentation defines it: definitions in source order, a using
\* in its place, an import isolated and qualified; absent holds the placements
\* at which an optional file was missing.
RECURSIVE Expansion(_, _, _, _, _)
Expansion(l, document, next, place, scope) ==
    IF next > Len(Declarations[document]) THEN scope
    ELSE LET declaration == Declarations[document][next]
             here == Append(place, next)
             child == identities[IdentityOf[Target(l, declaration, scope.output)]]
             empty == [output |-> <<>>, spaces |-> {}]
             imported == Expansion(l, child, 1, here, empty)
             after ==
               CASE declaration.kind = "define" ->
                      [scope EXCEPT !.output = Append(@,
                        [name |-> declaration.name, value |-> declaration.value,
                         at |-> <<document, next>>])]
                 [] declaration.kind # "define" /\ declaration.optional
                      /\ here \in loads[l].skipped -> scope
                 [] declaration.kind = "using" /\ here \notin loads[l].skipped ->
                      Expansion(l, child, 1, here, scope)
                 [] OTHER ->
                      [output |-> scope.output \o Qualified(imported.output, declaration.alias),
                       spaces |-> scope.spaces \cup Reserved(imported.spaces, declaration.alias)]
         IN Expansion(l, document, next + 1, place, after)

\* A load that succeeds returns the expansion of the kept snapshots in source
\* order, with nothing missing but optional files that were absent when asked
\* for, although files change, owners settle and other loads run between any two
\* of its declarations (config_loader.py:224-311).
ResultIsExpansion ==
    \A l \in Loads : loads[l].state = "done" =>
        loads[l].result =
            Expansion(l, identities[IdentityOf[Root[l]]], 1, <<>>,
                      [output |-> <<>>, spaces |-> {}]).output

-----------------------------------------------------------------------------
Using(target, optional) ==
    [kind |-> "using", target |-> target, dynamic |-> FALSE, optional |-> optional,
     alias |-> <<>>]
Definition(name, value) == [kind |-> "define", name |-> name, value |-> value]

MCLoads == {1, 2}
MCRoot == <<"first", "second">>
MCPaths == {"first", "second", "part", "link"}
\* part and link are two paths of one source.
MCIdentityOf == [p \in MCPaths |-> IF p = "link" THEN "part" ELSE p]
MCDocuments == {"First", "Second", "Leaf", "Round", "Back", "Clash"}
MCDeclarations ==
    [First |-> <<Using("part", TRUE), Definition(<<"x">>, "link"),
                 [Using(<<"x">>, TRUE) EXCEPT !.dynamic = TRUE], Using("part", TRUE)>>,
     Second |-> <<Definition(<<"n">>, "none"),
                  [Using("part", TRUE) EXCEPT !.kind = "import", !.alias = <<"m">>],
                  [Using(<<"m", "x">>, FALSE) EXCEPT !.dynamic = TRUE]>>,
     Leaf |-> <<Definition(<<"x">>, "link")>>,
     \* x is its importer's name, which an import hides
     Round |-> <<[Using(<<"x">>, FALSE) EXCEPT !.dynamic = TRUE]>>,
     \* a circle with second, which the two loads enter at different ends
     Back |-> <<Using("second", FALSE)>>,
     Clash |-> <<Definition(<<"x">>, "link"), Definition(<<"x", "y">>, "link")>>,
     malformed |-> <<>>]
MCCharacters ==
    [First |-> 2, Second |-> 2, Leaf |-> 1, Round |-> 1, Back |-> 1, Clash |-> 1, malformed |-> 2]
\* The second call is sent on to first, and reads part where the first reads link.
MCOverrides == << <<>>, (<<"m", "x">> :> "first") @@ (<<"x">> :> "part") >>
MCFirstDisks ==
    [first : {"First"}, second : {"Second"}, part : {"missing", "Leaf"}]
MCEdits == [first |-> {}, second |-> {},
            part |-> {"missing", "denied", "malformed", "Leaf", "Round", "Back", "Clash"}]

=============================================================================
