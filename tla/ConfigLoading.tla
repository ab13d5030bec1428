---------------------------- MODULE ConfigLoading ----------------------------
(***************************************************************************)
(* lclang/config/config_loader.py: one ConfigLoader shared by the load     *)
(* calls of one event loop.  A requested path has one owner task, which    *)
(* asks the resolver for the text (a thread reads the file) and then, in   *)
(* one step of the loop, parses it, charges the limits and keeps the       *)
(* snapshot under the resolver's identity.  A load expands documents in    *)
(* source order, waits for the owners of the files they name, and may be   *)
(* cancelled while it waits; files change on disk all the time.            *)
(*                                                                         *)
(* A step of a load runs up to the next declaration.  The code runs on to  *)
(* the next await that suspends, but what lies between touches only data   *)
(* of that load, so the finer steps add no outcome.                        *)
(***************************************************************************)
EXTENDS Naturals, Sequences, FiniteSets, SequencesExt, FiniteSetsExt

CONSTANTS
    Loads,          \* calls of ConfigLoader.load
    Root,           \* Root[l]: the path call l loads
    Overrides,      \* Overrides[l]: names the call overrides, with the path each gives
    Paths,          \* canonical paths
    IdentityOf,     \* IdentityOf[p]: the resolver's identity of the source at p
    Documents,      \* texts that parse; "malformed" is one that does not
    Declarations,   \* Declarations[d]: the declarations of document d in source order
    Characters,     \* Characters[d]: its length
    FirstDisks,     \* what the identities may hold on disk at the start
    Edits,          \* what each identity may be changed to
    EditLimit,      \* bound: changes on disk
    AbortLimit,     \* bound: owner tasks cancelled by somebody outside the loader
    MaxSources, MaxDepth, MaxCharacters, MaxDeclarations

Texts == Documents \cup {"malformed"}
Troubles == {"missing", "denied"}
\* What an owner has instead of a text: nothing yet, or why it was refused one.
Refusals == Troubles \cup {"none", "characters", "declarations"}
Identities == {IdentityOf[p] : p \in Paths}

ASSUME LimitsPositive ==
    /\ MaxSources \in Nat \ {0} /\ MaxDepth \in Nat \ {0}
    /\ MaxCharacters \in Nat \ {0} /\ MaxDeclarations \in Nat \ {0}

ASSUME LoadsAssumption ==
    /\ IsFiniteSet(Loads) /\ Loads # {}
    /\ IsFiniteSet(Paths) /\ Root \in [Loads -> Paths]

ASSUME TextsAssumption ==
    /\ Documents \cap ({"malformed"} \cup Refusals) = {}
    /\ \A text \in Texts : Characters[text] \in Nat /\ Len(Declarations[text]) \in Nat
    /\ FirstDisks \subseteq [Identities -> Texts \cup Troubles]
    /\ \A i \in Identities : Edits[i] \subseteq Texts \cup Troubles

\* A definition, and an import, has a name: a sequence of its parts.
Named(name) == name # <<>> /\ name \in Seq(Range(name))

ASSUME NamesAssumption ==
    \A text \in Documents : \A n \in 1..Len(Declarations[text]) :
        LET declaration == Declarations[text][n] IN
        /\ declaration.kind = "define" => Named(declaration.name)
        /\ declaration.kind = "import" => Named(declaration.alias)

VARIABLES
    disk,           \* disk[i]: a text, or "missing" or "denied"
    owners,         \* owners[o]: owner tasks somebody still refers to
    tasks,          \* tasks[p]: the owner registered for p, or 0
    identities,     \* identities[i]: the snapshot kept, or "none"
    characters,     \* accounted characters
    declarations,   \* accounted declarations
    loads,          \* loads[l]: where each call is
    edits, aborts   \* how often the environment has acted

vars == <<disk, owners, tasks, identities, characters, declarations, loads, edits, aborts>>

NoOwner == 0
\* An owner somebody refers to is registered or waited for.
Owners == 1..(Cardinality(Paths) + Cardinality(Loads))

Blank == [path |-> Root[CHOOSE l \in Loads : TRUE], state |-> "blank", what |-> "none"]
Settled == {"loaded", "failed", "cancelled"}
Fresh == [state |-> "idle", owner |-> NoOwner, stack |-> <<>>, result |-> <<>>,
          skipped |-> {}, error |-> "none"]

Init ==
    /\ disk \in FirstDisks
    /\ owners = [o \in Owners |-> Blank]
    /\ tasks = [p \in Paths |-> NoOwner]
    /\ identities = [i \in Identities |-> "none"]
    /\ characters = 0
    /\ declarations = 0
    /\ loads = [l \in Loads |-> Fresh]
    /\ edits = 0
    /\ aborts = 0

-----------------------------------------------------------------------------
(* Pure parts: names, targets, qualification, final validation.            *)

\* Where a load is: the index of the active declaration of every open document.
Placement(stack) == [i \in 1..Len(stack) |-> stack[i].next]

Top(load) == Last(load.stack)
Current(load) == Declarations[Top(load).document][Top(load).next]
AtEnd(load) == Top(load).next > Len(Declarations[Top(load).document])

\* evaluate_using_target: a literal path, or what a name means here, where an
\* override wins over the last definition so far.  "none" is a failed target.
Target(l, declaration, output) ==
    LET named == {i \in DOMAIN output : output[i].name = declaration.target} IN
    IF ~declaration.dynamic THEN declaration.target
    ELSE IF declaration.target \in DOMAIN Overrides[l] THEN Overrides[l][declaration.target]
    ELSE IF named # {} THEN output[Max(named)].value ELSE "none"

\* qualify_import
Qualified(output, alias) ==
    [i \in DOMAIN output |-> [output[i] EXCEPT !.name = alias \o @]]
Reserved(spaces, alias) == {alias} \cup {alias \o space : space \in spaces}

\* Config.__post_init__: no definition's name lies above another definition's
\* or is, or lies above, a namespace.
WellStructured(output, spaces) ==
    LET names == {output[i].name : i \in DOMAIN output} IN
    /\ \A a, b \in names : ~IsStrictPrefix(a, b)
    /\ \A a \in names, space \in spaces : ~IsPrefix(a, space)

-----------------------------------------------------------------------------
(* What becomes of a load's record.                                        *)

Failed(load, why) == [Fresh EXCEPT !.state = "failed", !.error = why, !.skipped = load.skipped]
Cancelled == [Fresh EXCEPT !.state = "cancelled"]

Advanced(load) == [load EXCEPT !.stack[Len(load.stack)].next = @ + 1]

\* The beginning of expand: depth is checked before the cycle.
Entered(load, document, identity, alias, output, spaces) ==
    IF Len(load.stack) + 1 > MaxDepth THEN Failed(load, "depth")
    ELSE IF \E i \in DOMAIN load.stack : load.stack[i].identity = identity
         THEN Failed(load, "cycle")
    ELSE [load EXCEPT !.state = "running", !.owner = NoOwner,
            !.stack = Append(@, [identity |-> identity, document |-> document, next |-> 1,
                                 alias |-> alias, output |-> output, spaces |-> spaces])]

\* A wrong form: an import starts from the importer's list.
LoadedUnisolated(load, document, identity) ==
    IF load.stack = <<>> THEN Entered(load, document, identity, <<>>, <<>>, {})
    ELSE LET declaration == Current(load)
             alias == IF declaration.kind = "import" THEN declaration.alias ELSE <<>>
         IN Entered(load, document, identity, alias, Top(load).output, Top(load).spaces)

\* A using continues its importer's list, an import starts a list of its own.
Loaded(load, document, identity) ==
    IF load.stack = <<>> THEN Entered(load, document, identity, <<>>, <<>>, {})
    ELSE LET declaration == Current(load) IN
         IF declaration.kind = "import"
         THEN Entered(load, document, identity, declaration.alias, <<>>, {})
         ELSE Entered(load, document, identity, <<>>, Top(load).output, Top(load).spaces)

Optional(load) == load.stack # <<>> /\ Current(load).optional

\* What source_for gives the load that awaited owner own.
Answered(load, own) ==
    CASE own.state = "loaded" -> Loaded(load, own.what, IdentityOf[own.path])
      [] own.state = "cancelled" -> Cancelled
      [] own.state = "failed" /\ own.what = "missing" /\ Optional(load) ->
           [Advanced(load) EXCEPT !.state = "running", !.owner = NoOwner,
                                  !.skipped = @ \cup {Placement(load.stack)}]
      [] OTHER -> Failed(load, own.what)

\* A wrong form: a load that fails removes whatever its path has registered.
ForgetAny(table, o) ==
    IF owners[o].state \in {"failed", "cancelled"}
    THEN [table EXCEPT ![owners[o].path] = NoOwner] ELSE table

\* The handlers of source_for: a failed or cancelled owner is unregistered by
\* the first load that learns of it, unless the path has a new owner by then.
Forget(table, o) ==
    IF owners[o].state \in {"failed", "cancelled"} /\ table[owners[o].path] = o
    THEN [table EXCEPT ![owners[o].path] = NoOwner] ELSE table

\* Only owners somebody refers to, or that still run, are kept.
Kept(own, table, all) ==
    [o \in Owners |->
        IF \/ own[o].state \notin Settled
           \/ \E p \in Paths : table[p] = o
           \/ \E l \in Loads : all[l].owner = o
        THEN own[o] ELSE Blank]

Deliver(l, load, o) ==
    /\ loads' = [loads EXCEPT ![l] = Answered(load, owners[o])]
    /\ tasks' = Forget(tasks, o)
    /\ owners' = Kept(owners, tasks', loads')

Register(l, load, path) ==
    LET o == CHOOSE b \in Owners : owners[b].state = "blank" IN
    /\ owners' = [owners EXCEPT ![o] = [path |-> path, state |-> "asking", what |-> "none"]]
    /\ tasks' = [tasks EXCEPT ![path] = o]
    /\ loads' = [loads EXCEPT ![l] = [load EXCEPT !.state = "waiting", !.owner = o]]

\* source_for up to its await; awaiting a settled task does not suspend.
SourceFor(l, load, path) ==
    LET o == tasks[path] IN
    \/ /\ o = NoOwner
       /\ Cardinality({p \in Paths : tasks[p] # NoOwner}) >= MaxSources
       /\ loads' = [loads EXCEPT ![l] = Failed(load, "sources")]
       /\ UNCHANGED <<owners, tasks>>
    \/ /\ o = NoOwner
       /\ Cardinality({p \in Paths : tasks[p] # NoOwner}) < MaxSources
       /\ Register(l, load, path)
    \/ /\ o # NoOwner
       /\ owners[o].state \in Settled
       /\ Deliver(l, load, o)
    \/ /\ o # NoOwner
       /\ owners[o].state \notin Settled
       /\ loads' = [loads EXCEPT ![l] = [load EXCEPT !.state = "waiting", !.owner = o]]
       /\ UNCHANGED <<owners, tasks>>

-----------------------------------------------------------------------------
(* Steps of a load.                                                        *)

ByLoad == UNCHANGED <<disk, identities, characters, declarations, edits, aborts>>

\* load: the root is requested as any other source.
Begin(l) ==
    /\ loads[l].state = "idle"
    /\ SourceFor(l, loads[l], Root[l])
    /\ ByLoad

\* expand, a definition
Define(l) ==
    LET load == loads[l] IN
    /\ load.state = "running" /\ ~AtEnd(load)
    /\ Current(load).kind = "define"
    /\ loads' = [loads EXCEPT ![l] =
         [Advanced(load) EXCEPT !.stack[Len(load.stack)].output =
            Append(@, [name |-> Current(load).name, value |-> Current(load).value,
                       at |-> <<Top(load).document, Top(load).next>>])]]
    /\ UNCHANGED <<owners, tasks>> /\ ByLoad

\* expand, using or import: evaluate the target and ask for its source
Request(l) ==
    LET load == loads[l] IN
    /\ load.state = "running" /\ ~AtEnd(load)
    /\ Current(load).kind # "define"
    /\ LET path == Target(l, Current(load), Top(load).output) IN
       \/ /\ path \in Paths
          /\ SourceFor(l, load, path)
       \/ /\ path \notin Paths
          /\ loads' = [loads EXCEPT ![l] = Failed(load, "target")]
          /\ UNCHANGED <<owners, tasks>>
    /\ ByLoad

\* A wrong form: a waiter returns to the registered task instead of the one it awaited.
WakeRegistered(l) ==
    /\ loads[l].state = "waiting"
    /\ tasks[owners[loads[l].owner].path] = loads[l].owner
    /\ owners[loads[l].owner].state \in Settled
    /\ Deliver(l, loads[l], loads[l].owner)
    /\ ByLoad

\* source_for after its await
Wake(l) ==
    /\ loads[l].state = "waiting"
    /\ owners[loads[l].owner].state \in Settled
    /\ Deliver(l, loads[l], loads[l].owner)
    /\ ByLoad

\* The end of a document: its list goes back to the importer, qualified when it
\* was imported; at the root the snapshot is validated and returned.
Return(l) ==
    LET load == loads[l]
        top == Top(load)
        below == [load EXCEPT !.stack = Front(@)]
        isolated == Len(load.stack) = 1 \/ top.alias # <<>>
        importer == Top(below)
        resumed == Advanced(below)
    IN
    /\ load.state = "running" /\ AtEnd(load)
    /\ loads' = [loads EXCEPT ![l] =
         IF isolated /\ ~WellStructured(top.output, top.spaces) THEN Failed(load, "structure")
         ELSE IF Len(load.stack) = 1
              THEN [load EXCEPT !.state = "done", !.stack = <<>>, !.result = top.output]
         ELSE IF isolated
              THEN [resumed EXCEPT
                     !.stack[Len(below.stack)].output =
                        importer.output \o Qualified(top.output, top.alias),
                     !.stack[Len(below.stack)].spaces =
                        importer.spaces \cup Reserved(top.spaces, top.alias)]
         ELSE [resumed EXCEPT !.stack[Len(below.stack)].output = top.output,
                              !.stack[Len(below.stack)].spaces = top.spaces]]
    /\ UNCHANGED <<owners, tasks>> /\ ByLoad

\* The caller cancels a load that waits.  The shield keeps the owner running;
\* source_for forgets the owner only if the owner itself was cancelled.
Cancel(l) ==
    LET o == loads[l].owner IN
    /\ loads[l].state = "waiting"
    /\ loads' = [loads EXCEPT ![l] = Cancelled]
    /\ tasks' = IF owners[o].state = "cancelled" THEN Forget(tasks, o) ELSE tasks
    /\ owners' = Kept(owners, tasks', loads')
    /\ ByLoad

-----------------------------------------------------------------------------
(* Steps of an owner task: resolve_and_parse.                              *)

\* The resolver's thread reads the file.
Read(o) ==
    /\ owners[o].state = "asking"
    /\ owners' = [owners EXCEPT ![o].state = "read",
                                ![o].what = disk[IdentityOf[owners[o].path]]]
    /\ UNCHANGED <<disk, tasks, identities, characters, declarations, loads, edits, aborts>>

Settle(o, state, what) == owners' = [owners EXCEPT ![o].state = state, ![o].what = what]

\* The file is missing, or cannot be read for another reason: the resolver raises.
Refused(o) ==
    /\ owners[o].state = "read"
    /\ owners[o].what \in Troubles
    /\ Settle(o, "failed", owners[o].what)
    /\ UNCHANGED <<identities, characters, declarations>>

\* The identity is known already: its snapshot answers, nothing is charged.
Known(o) ==
    LET identity == IdentityOf[owners[o].path] IN
    /\ owners[o].state = "read"
    /\ owners[o].what \notin Troubles
    /\ identities[identity] # "none"
    /\ Settle(o, "loaded", identities[identity])
    /\ UNCHANGED <<identities, characters, declarations>>

\* The character limit is checked before the parse, the declaration limit after
\* it; counters and snapshot are committed together.
Parsed(o) ==
    LET text == owners[o].what
        identity == IdentityOf[owners[o].path]
        newCharacters == characters + Characters[text]
        newDeclarations == declarations + Len(Declarations[text])
    IN
    /\ owners[o].state = "read"
    /\ text \notin Troubles
    /\ identities[identity] = "none"
    /\ \/ /\ newCharacters > MaxCharacters
          /\ Settle(o, "failed", "characters")
          /\ UNCHANGED <<identities, characters, declarations>>
       \/ /\ newCharacters <= MaxCharacters
          /\ text = "malformed" \/ newDeclarations > MaxDeclarations
          /\ Settle(o, "failed", IF text = "malformed" THEN text ELSE "declarations")
          /\ UNCHANGED <<identities, characters, declarations>>
       \/ /\ newCharacters <= MaxCharacters
          /\ text # "malformed" /\ newDeclarations <= MaxDeclarations
          /\ characters' = newCharacters
          /\ declarations' = newDeclarations
          /\ identities' = [identities EXCEPT ![identity] = text]
          /\ Settle(o, "loaded", text)

Finish(o) ==
    /\ Refused(o) \/ Known(o) \/ Parsed(o)
    /\ UNCHANGED <<disk, tasks, loads, edits, aborts>>

\* Somebody cancels the owner task, or the resolver itself ends cancelled.
Abort(o) ==
    /\ owners[o].state \in {"asking", "read"}
    /\ aborts < AbortLimit
    /\ aborts' = aborts + 1
    /\ Settle(o, "cancelled", "none")
    /\ UNCHANGED <<disk, tasks, identities, characters, declarations, loads, edits>>

\* A file appears, changes or goes away.
Edit(i) ==
    /\ edits < EditLimit
    /\ edits' = edits + 1
    /\ \E text \in Edits[i] \ {disk[i]} : disk' = [disk EXCEPT ![i] = text]
    /\ UNCHANGED <<owners, tasks, identities, characters, declarations, loads, aborts>>

-----------------------------------------------------------------------------
Ended(l) == loads[l].state \in {"done", "failed", "cancelled"}

\* Every call has ended and no owner runs.
Rest ==
    /\ \A l \in Loads : Ended(l)
    /\ \A o \in Owners : owners[o].state \in Settled \cup {"blank"}
    /\ UNCHANGED vars

Expand(l) == Define(l) \/ Request(l) \/ Wake(l) \/ Return(l)

Next ==
    \/ \E l \in Loads : Begin(l) \/ Expand(l) \/ Cancel(l)
    \/ \E o \in Owners : Read(o) \/ Finish(o) \/ Abort(o)
    \/ \E i \in Identities : Edit(i)
    \/ Rest

\* The loop resumes every task that is ready, and the resolver's thread ends.
Spec ==
    /\ Init /\ [][Next]_vars
    /\ \A l \in Loads : WF_vars(Expand(l))
    /\ \A o \in Owners : WF_vars(Read(o) \/ Finish(o))

-----------------------------------------------------------------------------
(* Properties.                                                             *)

\* The state has the shape the fields of ConfigLoader and its callers declare.
TypeOK ==
    /\ disk \in [Identities -> Texts \cup Troubles]
    /\ owners \in [Owners -> [path : Paths, what : Texts \cup Refusals,
                              state : {"blank", "asking", "read"} \cup Settled]]
    /\ tasks \in [Paths -> Owners \cup {NoOwner}]
    /\ identities \in [Identities -> Documents \cup {"none"}]
    /\ characters \in Nat /\ declarations \in Nat
    /\ \A l \in Loads :
        /\ loads[l].state \in {"idle", "waiting", "running", "done", "failed", "cancelled"}
        /\ loads[l].owner \in Owners \cup {NoOwner}
        /\ (loads[l].owner # NoOwner) <=> (loads[l].state = "waiting")

\* One retrieval of a path runs at a time, and it is the registered one, however
\* many loads request the path and fail on it: a load that learns late of an
\* old failure does not unregister the retry another load has begun
\* (config_loader.py:158, "if self.tasks.get(path) is task").
SingleFlight ==
    \A o \in Owners : owners[o].state \in {"asking", "read"} => tasks[owners[o].path] = o

\* What a path answers is the one snapshot kept for its source, whichever path
\* and whichever owner retrieved it first, however the file has changed since
\* (config_loader.py:200-220).
OneSnapshot ==
    \A o \in Owners :
        owners[o].state = "loaded" =>
            /\ owners[o].what # "none"
            /\ owners[o].what = identities[IdentityOf[owners[o].path]]

\* The units of sources of the given sizes, each by its place in its source: the
\* characters, and the declarations, of the kept snapshots.
Units(size) == UNION {{i} \X (1..size[i]) : i \in DOMAIN size}
Snapshots == {i \in Identities : identities[i] # "none"}
KeptCharacters == Units([i \in Snapshots |-> Characters[identities[i]]])
KeptDeclarations == Units([i \in Snapshots |-> Len(Declarations[identities[i]])])

\* Characters and declarations are charged once per kept snapshot, whatever
\* paths, placements and concurrent owners lead to it, failed retrievals cost
\* nothing, and no ceiling is exceeded (config_loader.py:200-220).
Accounted ==
    /\ characters = Cardinality(KeptCharacters)
    /\ declarations = Cardinality(KeptDeclarations)
    /\ characters <= MaxCharacters
    /\ declarations <= MaxDeclarations
    /\ Cardinality({p \in Paths : tasks[p] # NoOwner}) <= MaxSources

Poisoned(p) ==
    /\ tasks[p] # NoOwner
    /\ owners[tasks[p]].state = "failed"
    /\ \A l \in Loads : loads[l].owner # tasks[p]

\* A failed retrieval nobody waits for any more is not left behind for later
\* requests, as long as no load was cancelled (config_loader.py:157-160).
FailuresForgotten ==
    (\A l \in Loads : loads[l].state # "cancelled") => \A p \in Paths : ~Poisoned(p)

\* The loader's tables are well formed, every live retrieval is in them and none
\* that failed, a source has one snapshot, and they charge what they keep.
LoaderInv == TypeOK /\ SingleFlight /\ OneSnapshot /\ Accounted /\ FailuresForgotten

\* A load that has begun ends, also when documents use each other in a circle
\* and two loads enter it from both ends: no owner ever waits for another.
LoadsEnd == \A l \in Loads : (loads[l].state # "idle") ~> Ended(l)

=============================================================================
