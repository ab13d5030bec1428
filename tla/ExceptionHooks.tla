---------------------------- MODULE ExceptionHooks ---------------------------
(***************************************************************************)
(* lclang/logger/exception_hooks.py and exception_hook_installation.py:    *)
(* reports of uncaught failures.  An installation takes the interpreter's  *)
(* hook, that of worker threads if it is asked to and that of one loop if  *)
(* it is given one, remembers what it found there, and gives it back once, *)
(* in whatever order installations end.  Hooks it did not place it leaves  *)
(* alone: a third party may take a hook over at any time, and gives it     *)
(* back when it finds its own still in place.                              *)
(*                                                                         *)
(* Installing and restoring hold one lock and are one step each; third     *)
(* parties are taken not to act in between (they know of no lock).         *)
(***************************************************************************)
EXTENDS FiniteSets, SequencesExt

CONSTANTS
    Installation,
    Optional,       \* the hooks, beside the interpreter's, each of them takes
    ThirdParty,
    Native          \* what is in place when nobody has placed anything

Kind == {"system", "thread", "loop"}
Covered(i) == {"system"} \cup Optional[i]

VARIABLES
    hook,           \* sys.excepthook, threading.excepthook, the loop's handler
    previous,       \* previous_system, previous_thread, previous_loop
    holding,        \* installations that are
    restored,       \* installations that were restored or refused
    replaced,       \* by third party: the hook it took over and what it found
    placed,         \* history: by kind, who placed a hook and did not end, in order
    disturbed       \* history: kinds given back by others or kept by the loop

hookVars == <<hook, previous, holding, restored, replaced, placed, disturbed>>

Hooks == Installation \cup ThirdParty \cup {Native}

HookInit ==
    /\ hook = [k \in Kind |-> Native]
    /\ previous = [i \in Installation |-> [k \in Kind |-> Native]]
    /\ holding = {}
    /\ restored = {}
    /\ replaced = << >>
    /\ placed = [k \in Kind |-> << >>]
    /\ disturbed = {}

-----------------------------------------------------------------------------
\* install_exception_hooks: capture, then place.  A loop may refuse, before
\* anything has been placed.
Install(i) ==
    /\ i \notin holding \cup restored
    /\ previous' = [previous EXCEPT ![i] = hook]
    /\ hook' = [k \in Kind |-> IF k \in Covered(i) THEN i ELSE hook[k]]
    /\ holding' = holding \cup {i}
    /\ placed' = [k \in Kind |-> IF k \in Covered(i) THEN Append(placed[k], i) ELSE placed[k]]
    /\ UNCHANGED <<restored, replaced, disturbed>>

InstallRefused(i) ==
    /\ i \notin holding \cup restored
    /\ "loop" \in Covered(i)
    /\ restored' = restored \cup {i}
    /\ UNCHANGED <<hook, previous, holding, replaced, placed, disturbed>>

\* A wrong form: the captured hook is given back as it is.
CapturedHook(found, k, living) == found

\* Installations that have ended are passed over.
select_previous_hook(found, k, living) ==
    LET skip[h \in Hooks] == IF h \in Installation \ living THEN skip[previous[h][k]] ELSE h
    IN skip[found]

\* Each hook is given back where it is still this installation's; the loop, asked
\* last, may refuse.
GivesBack(i, kinds) ==
    /\ i \in holding
    /\ holding' = holding \ {i}
    /\ restored' = restored \cup {i}
    /\ hook' = [k \in Kind |->
            IF k \in kinds /\ hook[k] = i
            THEN select_previous_hook(previous[i][k], k, holding') ELSE hook[k]]
    /\ placed' = [k \in Kind |-> RemoveFirst(placed[k], i)]
    /\ UNCHANGED <<previous, replaced>>

RestoreHook(i) == GivesBack(i, Covered(i)) /\ UNCHANGED disturbed

RestoreRefused(i) ==
    /\ "loop" \in Covered(i)
    /\ hook["loop"] = i
    /\ GivesBack(i, Covered(i) \ {"loop"})
    /\ disturbed' = disturbed \cup {"loop"}

-----------------------------------------------------------------------------
\* Third parties.
Replace(p, k) ==
    /\ p \notin DOMAIN replaced
    /\ replaced' = [q \in DOMAIN replaced \cup {p} |->
            IF q = p THEN [kind |-> k, found |-> hook[k]] ELSE replaced[q]]
    /\ hook' = [hook EXCEPT ![k] = p]
    /\ placed' = [placed EXCEPT ![k] = Append(@, p)]
    /\ UNCHANGED <<previous, holding, restored, disturbed>>

GiveBack(p) ==
    /\ p \in DOMAIN replaced
    /\ LET taken == replaced[p] IN
        /\ hook[taken.kind] = p
        /\ hook' = [hook EXCEPT ![taken.kind] = taken.found]
        /\ placed' = [placed EXCEPT ![taken.kind] = RemoveFirst(@, p)]
        /\ disturbed' = disturbed \cup {taken.kind}
    /\ UNCHANGED <<previous, holding, restored, replaced>>

HookNext ==
    \/ \E i \in Installation :
        Install(i) \/ InstallRefused(i) \/ RestoreHook(i) \/ RestoreRefused(i)
    \/ \E p \in ThirdParty : GiveBack(p) \/ \E k \in Kind : Replace(p, k)

HookSpec == HookInit /\ [][HookNext]_hookVars

-----------------------------------------------------------------------------
\* Properties.

\* An installation that has ended delegates what it is told of.
Reporter(k) == select_previous_hook(hook[k], k, holding)
Newest(k) == IF placed[k] = << >> THEN Native ELSE Last(placed[k])

\* In whatever order installations end and others come and go, an uncaught failure
\* reaches the newest hook whose owner has not ended, and an installation that has
\* ended is not back in place unless another party put it there
\* (exception_hook_installation.py:78, select_previous_hook).
HookInPlace ==
    \A k \in Kind :
        /\ Reporter(k) = Newest(k)
        /\ k \notin disturbed => hook[k] \notin restored

=============================================================================
