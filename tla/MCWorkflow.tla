---------------------------- MODULE MCWorkflow ----------------------------
(***************************************************************************)
(* Two small workflows.  The first has every kind of node: a root with an  *)
(* application's context around a covering one, a child, and a child without *)
(* an action whose covering context guards the task it groups.             *)
(***************************************************************************)
EXTENDS Workflow

TreeTasks == {"root", "load", "group", "leaf"}
TreeContexts == {"lease", "guard", "lock"}
TreeChildren ==
  [t \in TreeTasks |-> CASE t = "root"  -> <<"load", "group">>
                         [] t = "group" -> <<"leaf">>
                         [] OTHER       -> <<>>]
TreeScopes ==
  [t \in TreeTasks |-> CASE t = "root"  -> <<"lease", "guard">>
                         [] t = "group" -> <<"lock">>
                         [] OTHER       -> <<>>]
TreeActing == TreeTasks \ {"group"}

\* One task with a covering context inside an application's context.
PairTasks == {"root"}
PairContexts == {"lease", "guard"}
PairChildren == [t \in PairTasks |-> <<>>]
PairScopes == [t \in PairTasks |-> <<"lease", "guard">>]

============================================================================
