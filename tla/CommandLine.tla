----------------------------- MODULE CommandLine -----------------------------
(***************************************************************************)
(* lclang/cli: what the arguments of a program mean.  argv_adapter.py      *)
(* accepts them, command_routing.py follows group names to a command, and  *)
(* option_parser.py reads the options behind it, twice: help_requested     *)
(* only looks for help, parse_common_options reads them all.  Each of the  *)
(* two knows on its own how many arguments an option takes.  An option has *)
(* one spelling here, and a usage error no text.                           *)
(***************************************************************************)
EXTENDS FiniteSets, SequencesExt

CONSTANTS
    Groups,         \* by group: its children by name, each a group or Leaf
    Names,          \* arguments that are qualified names
    Reserved,       \* those of them that belong to the run
    ValidDates      \* arguments that are dates

Leaf == "command"
Root == "root"

HELP_OPTIONS == {"-h"}
VERSION_OPTIONS == {"-v"}
FLAG_OPTIONS == {"--verbose", "-wif"}
ONE_VALUE_OPTIONS == {"-c", "-a"}
OVERRIDE_OPTIONS == {"-o"}

split_argv_accepts(tokens) == "" \notin ToSet(tokens)

-----------------------------------------------------------------------------
\* command_routing.py.
RouteResult(action, path, remaining) ==
    [action |-> action, path |-> path, remaining |-> remaining]
RouteFailure == RouteResult("usage", << >>, << >>)

\* Help and the version take no arguments.
Alone(action, tokens, index) ==
    IF index = Len(tokens)
    THEN RouteResult(action, SubSeq(tokens, 1, index - 1), << >>) ELSE RouteFailure

route_command(tokens) ==
    LET descend[index \in 1..(Len(tokens) + 1), group \in DOMAIN Groups] ==
            IF index > Len(tokens) THEN RouteFailure
            ELSE LET token == tokens[index] IN
                 IF token \in HELP_OPTIONS THEN Alone("help", tokens, index)
                 ELSE IF token \notin DOMAIN Groups[group] THEN RouteFailure
                 ELSE IF Groups[group][token] # Leaf THEN descend[index + 1, Groups[group][token]]
                 ELSE RouteResult("command", SubSeq(tokens, 1, index),
                                  SubSeq(tokens, index + 1, Len(tokens)))
    IN IF tokens # << >> /\ tokens[1] \in VERSION_OPTIONS
       THEN Alone("version", tokens, 1) ELSE descend[1, Root]

-----------------------------------------------------------------------------
\* option_parser.py.
IsOverride(tokens, index) == index <= Len(tokens) /\ tokens[index] \in OVERRIDE_OPTIONS

\* A wrong form: an override is taken to have no value.
ArityWithoutValue(tokens, index) == 2

\* The arguments an override takes with it: what follows its name is its value,
\* unless it begins another override.
OverrideArity(tokens, index) ==
    IF index + 2 > Len(tokens) \/ IsOverride(tokens, index + 2) THEN 2 ELSE 3

help_requested(tokens) ==
    LET boundary[index \in 1..(Len(tokens) + 3)] ==
            IF index > Len(tokens) THEN FALSE
            ELSE LET token == tokens[index] IN
                 \/ token \in HELP_OPTIONS
                 \/ boundary[index + (IF token \in ONE_VALUE_OPTIONS THEN 2
                                      ELSE IF token \in OVERRIDE_OPTIONS
                                      THEN OverrideArity(tokens, index) ELSE 1)]
    IN boundary[1]

\* ParsedCommonOptions: what has been read up to the next argument.
NothingRead == [ok |-> TRUE, next |-> 1, help |-> FALSE, flags |-> {},
                values |-> << >>, overrides |-> << >>]
UsageError(read) == [read EXCEPT !.ok = FALSE]

ReadOption(read, tokens) ==
    LET index == read.next
        token == tokens[index]
        value == IF index < Len(tokens) THEN tokens[index + 1] ELSE ""
        valued == index + 2 <= Len(tokens) /\ ~IsOverride(tokens, index + 2)
    IN CASE token \in HELP_OPTIONS ->
              [read EXCEPT !.next = index + 1, !.help = TRUE]
         [] token \in FLAG_OPTIONS \ read.flags ->
              [read EXCEPT !.next = index + 1, !.flags = @ \cup {token}]
         [] token \in ONE_VALUE_OPTIONS \ DOMAIN read.values /\ index < Len(tokens) ->
              [read EXCEPT !.next = index + 2, !.values = (token :> value) @@ @]
         [] token \in OVERRIDE_OPTIONS /\ value \in Names \ Reserved ->
              [read EXCEPT
                  !.next = index + (IF valued THEN 3 ELSE 2),
                  !.overrides = (value :> IF valued THEN tokens[index + 2] ELSE "True") @@ @]
         [] OTHER -> UsageError(read)

parse_common_options(tokens) ==
    LET step(read, k) == IF read.ok /\ read.next <= Len(tokens) THEN ReadOption(read, tokens) ELSE read
    IN FoldLeft(step, NothingRead, [k \in 1..Len(tokens) |-> k])

parse_cli_params(tokens) ==
    LET read == parse_common_options(tokens) IN
    IF "-a" \in DOMAIN read.values /\ read.values["-a"] \notin ValidDates
    THEN UsageError(read) ELSE read

-----------------------------------------------------------------------------
\* run_command and run_entrance up to the execution of a command: the action, and
\* the options of the command.
Answer(action, read) == [action |-> action, read |-> read]

OfCommand(options) ==
    LET read == parse_cli_params(options) IN
    IF help_requested(options) THEN Answer("help", NothingRead)
    ELSE Answer(IF read.ok THEN "command" ELSE "usage", read)

run_command(name, tokens) ==
    IF ~split_argv_accepts(tokens) THEN Answer("usage", NothingRead)
    ELSE OfCommand(IF tokens # << >> /\ tokens[1] = name THEN Tail(tokens) ELSE tokens)

run_entrance(tokens) ==
    LET route == route_command(tokens) IN
    IF ~split_argv_accepts(tokens) THEN Answer("usage", NothingRead)
    ELSE IF route.action # "command" THEN Answer(route.action, NothingRead)
    ELSE OfCommand(route.remaining)

-----------------------------------------------------------------------------
\* What options mean: their arguments are cut into phrases, each of them an
\* option with what it takes.
Phrases(tokens, cuts) ==
    LET starts == SetToSortSeq(cuts \cup {1}, <)
        end(i) == IF i = Len(starts) THEN Len(tokens) ELSE starts[i + 1] - 1
    IN [i \in DOMAIN starts |-> SubSeq(tokens, starts[i], end(i))]

IsPhrase(p, alone) ==
    \/ Len(p) = 1 /\ p[1] \in HELP_OPTIONS \cup FLAG_OPTIONS
    \/ Len(p) = 2 /\ p[1] \in ONE_VALUE_OPTIONS
    \/ Len(p) = 2 /\ p[1] \in OVERRIDE_OPTIONS /\ p[2] \in Names \ Reserved /\ alone
    \/ Len(p) = 3 /\ p[1] \in OVERRIDE_OPTIONS /\ p[2] \in Names \ Reserved
                  /\ p[3] \notin OVERRIDE_OPTIONS

\* An override without a value is the last phrase or stands before another one.
Readings(tokens) ==
    {phrases \in {Phrases(tokens, cuts) : cuts \in SUBSET (2..Len(tokens))} :
        /\ \A i \in DOMAIN phrases :
             IsPhrase(phrases[i], i = Len(phrases) \/ phrases[i + 1][1] \in OVERRIDE_OPTIONS)
        /\ \A i, j \in DOMAIN phrases :
             i # j /\ phrases[i][1] = phrases[j][1] =>
                 phrases[i][1] \in HELP_OPTIONS \cup OVERRIDE_OPTIONS}

LastWith(phrases, option, name) ==
    LET named == {i \in DOMAIN phrases : phrases[i][1] = option /\ phrases[i][2] = name}
    IN phrases[Max(named)]

Meaning(phrases) ==
    LET options == {phrases[i][1] : i \in DOMAIN phrases}
        valued == {p \in ToSet(phrases) : p[1] \in ONE_VALUE_OPTIONS}
        named == {p[2] : p \in {q \in ToSet(phrases) : q[1] \in OVERRIDE_OPTIONS}}
        last(name) == LastWith(phrases, "-o", name)
    IN [help |-> options \cap HELP_OPTIONS # {},
        flags |-> options \cap FLAG_OPTIONS,
        values |-> [o \in {p[1] : p \in valued} |-> (CHOOSE p \in valued : p[1] = o)[2]],
        overrides |-> [n \in named |-> IF Len(last(n)) = 3 THEN last(n)[3] ELSE "True"]]

\* Properties of the arguments typed so far.

\* The options are read if there is a way to cut them into phrases, which is the
\* only one, and as it says; and the search for help, which comes first and reads
\* what cannot be read otherwise, sees an option of help where the parser does
\* (option_parser.py:231, tests/cli/test_parser.py:124).
OptionsRead(tokens) ==
    LET read == parse_common_options(tokens)
        readings == IF tokens = << >> THEN {<< >>} ELSE Readings(tokens)
    IN /\ Cardinality(readings) = IF read.ok THEN 1 ELSE 0
       /\ \A phrases \in readings :
            /\ Meaning(phrases) = [help |-> read.help, flags |-> read.flags,
                                   values |-> read.values, overrides |-> read.overrides]
            /\ help_requested(tokens) = read.help

\* Routes lead through groups to a command, whose options are all that is left.
RoutesLead(tokens) ==
    LET route == route_command(tokens)
        reached == FoldLeft(LAMBDA group, name : Groups[group][name], Root, route.path)
    IN route.action \in {"help", "command"} =>
           /\ (route.action = "command") = (reached = Leaf)
           /\ tokens = route.path \o (IF reached = Leaf THEN << >> ELSE <<"-h">>) \o route.remaining
=============================================================================
