--------------------------- MODULE WorkflowProofs ---------------------------
(***************************************************************************)
(* For every tree of tasks and contexts and everything their callbacks do: *)
(* resources nest, every declared branch is reported, a success is earned  *)
(* and nothing begins after a failure.  The parts of the inductive         *)
(* invariant are operators of the state they speak of, so that a lemma     *)
(* about a step speaks of two such states.                                 *)
(***************************************************************************)
EXTENDS Workflow, SequenceTheorems, WellFoundedInduction, TLAPS

\* What an activation may be followed by while it waits for its outcome.
Follows(a, b) ==
  \/ /\ a.do = "children" /\ b.do \in {"start", "task"}
     /\ a.index \in DOMAIN Children[a.of] /\ b.of = Children[a.of][a.index]
  \/ /\ a.do \in {"task", "inside"} /\ b.of = a.of
     /\ b.do \in {"open", "enter", "inside", "act", "children"}

Placed(a) ==
  /\ a.do \in {"open", "enter", "inside"} => a.index \in DOMAIN Scopes[a.of]
  /\ a.do = "children" => a.index \in 1 .. Len(Children[a.of]) + 1
  /\ a.do = "act" => a.of \in Acting

\* Only what waits for its callees is handed an outcome.
Innermost(a) ==
  /\ a.outcome # "none" => a.do \in {"task", "inside", "children"}
  /\ a.do \in {"task", "inside"} => a.outcome # "none"
  /\ a.do = "children" /\ a.outcome # "none" => a.index \in DOMAIN Children[a.of]

\* The recursion descends along the declared tree.
Linked(st, v) ==
  /\ v = "none" <=> Len(st) > 0
  /\ \A i \in DOMAIN st :
       /\ Placed(st[i])
       /\ i = 1 => st[i].do \in {"start", "task"} /\ st[i].of = Root
       /\ i < Len(st) => st[i].outcome = "none" /\ Follows(st[i], st[i + 1])
  /\ Len(st) > 0 => Innermost(st[Len(st)])

\* A task's body runs once at a time.
OneBody(st) ==
  \A i, j \in DOMAIN st :
    i < j /\ st[i].of = st[j].of => st[i].do \in {"task", "inside"}

\* The node an activation has reported, and whether it holds the node's resource.
Naming(a) == a.do \in {"task", "enter", "inside"}
Owning(a) == a.do \in {"task", "inside"}
NodeOf(a) == IF a.do = "task" THEN a.of ELSE Scopes[a.of][a.index]
NamesOf(a) == IF Naming(a) THEN {NodeOf(a)} ELSE {}
OwnsOf(a) == IF Owning(a) THEN {NodeOf(a)} ELSE {}

Around(a) ==
  IF a.do \in {"start", "task"} THEN Enclosing(a.of)
  ELSE IF a.do \in {"open", "enter", "inside"}
       THEN {a.of} \cup {Scopes[a.of][j] : j \in 1 .. a.index - 1}
       ELSE {a.of} \cup ToSet(Scopes[a.of])

\* What an activation runs inside of is held by activations below it.
Nested(st) ==
  \A i \in DOMAIN st : \A n \in Around(st[i]) :
    \E j \in 1 .. i - 1 : Owning(st[j]) /\ NodeOf(st[j]) = n

Control(st, v) == Linked(st, v) /\ OneBody(st) /\ Nested(st)

----------------------------------------------------------------------------
Absent(tr, n) == tr.status[n] = "ABSENT"

\* The nodes in progress
Going(tr) == {n \in Node : ~Absent(tr, n) /\ n \notin tr.locked}

\* They are those of the activations, one each, and each holds its resource from
\* the end of its entry on.
Names(st, tr, h) ==
  /\ \A i, j \in DOMAIN st :
       i # j /\ Naming(st[i]) /\ Naming(st[j]) => NodeOf(st[i]) # NodeOf(st[j])
  /\ UNION {NamesOf(st[i]) : i \in DOMAIN st} = Going(tr)
  /\ UNION {OwnsOf(st[i]) : i \in DOMAIN st} = h

----------------------------------------------------------------------------
Below(n) ==
  IF n = Run THEN {Root}
  ELSE IF n \in Tasks THEN ToSet(Scopes[n]) \cup ToSet(Children[n]) ELSE {}

\* Everything declared under a task is reported, unless its children are omitted.
Done(tr, om, t) ==
  /\ \A n \in ToSet(Scopes[t]) : ~Absent(tr, n)
  /\ t \in om \/ \A c \in ToSet(Children[t]) : ~Absent(tr, c)

\* The status tree grows downwards along the declared one, and what is final in
\* it is complete.
Grown(tr, om) ==
  /\ \A n \in Node \cup {Run} :
       /\ IsInjective(tr.subTasks[n])
       /\ ToSet(tr.subTasks[n]) = {m \in Below(n) : ~Absent(tr, m)}
  /\ \A n \in tr.locked : tr.status[n] \notin {"ABSENT", "RUNNING"}
  /\ \A t \in Tasks : \A n \in Below(t) : ~Absent(tr, n) => ~Absent(tr, t)
  /\ \A t \in om : ~Absent(tr, t) /\ \A c \in ToSet(Children[t]) : Absent(tr, c)
  /\ \A t \in Tasks \cap tr.locked : Done(tr, om, t)
  /\ tr.steps[Run] = {} /\ ~Absent(tr, Run)
  /\ Run \notin tr.locked => tr.status[Run] = "RUNNING"

\* The execution as a whole is reported last.
RunLast(st, tr, v) ==
  /\ Len(st) = 0 => ~Absent(tr, Root)
  /\ Run \in tr.locked =>
       /\ Len(st) = 0 /\ v # "signal"
       /\ tr.status[Root] \in STOP_STATUSES => tr.status[Run] \in STOP_STATUSES

----------------------------------------------------------------------------
Untouched(tr, a) ==
  /\ a.do = "start" => Absent(tr, a.of)
  /\ a.do \in {"open", "enter"} =>
       \A j \in DOMAIN Scopes[a.of] :
         j > a.index \/ (a.do = "open" /\ j = a.index) => Absent(tr, Scopes[a.of][j])
  /\ a.do \in {"open", "enter", "act"} => \A c \in ToSet(Children[a.of]) : Absent(tr, c)
  /\ a.do = "children" /\ a.outcome = "none" =>
       \A j \in DOMAIN Children[a.of] : j = a.index => Absent(tr, Children[a.of][j])

Later(tr, om, a) ==
  /\ a.of \notin om
  /\ \A j \in DOMAIN Children[a.of] : j > a.index => Absent(tr, Children[a.of][j])

\* What is still to come has not been reported.
Ahead(st, tr, om) ==
  /\ \A i \in DOMAIN st : st[i].do = "children" => Later(tr, om, st[i])
  /\ Len(st) > 0 => Untouched(tr, st[Len(st)])

Earlier(tr, a) ==
  \A j \in DOMAIN Children[a.of] : j < a.index => ~Absent(tr, Children[a.of][j])

Complete(tr, om, a) ==
  a.outcome # "none" =>
    /\ a.do = "children" => ~Absent(tr, Children[a.of][a.index])
    /\ a.do \in {"task", "inside"} /\ a.outcome = "more" => Done(tr, om, a.of)

\* What has been done is reported.
Behind(st, tr, om) ==
  /\ \A i \in DOMAIN st : st[i].do = "children" => Earlier(tr, st[i])
  /\ Len(st) > 0 => Complete(tr, om, st[Len(st)])

----------------------------------------------------------------------------
\* The outcome the innermost activation, or the whole execution, has come to,
\* and the node that is to show it.
Latest(st, v) == IF Len(st) > 0 THEN st[Len(st)].outcome ELSE v
Showing(st) == IF Len(st) > 0 THEN st[Len(st)].of ELSE Run

Blamed(tr, t) ==
  \/ tr.status[t] \in STOP_STATUSES
  \/ \E n \in ToSet(tr.subTasks[t]) : tr.status[n] \in STOP_STATUSES

\* As long as the recursion goes on nothing has failed, and a failure on its way
\* out is published and shows in a status.
Explained(o, n, tr, ex) ==
  /\ o \in {"none", "more"} =>
       /\ ex = Nobody
       /\ \A t \in Tasks \cap tr.locked : tr.status[t] \notin STOP_STATUSES
  /\ o \in Ordinary => ex # Nobody
  /\ o \in {"stop"} \cup Ordinary => Blamed(tr, n)

Inv ==
  /\ TypeOK
  /\ Control(stack, verdict)
  /\ Names(stack, tree, held)
  /\ Grown(tree, omitted)
  /\ RunLast(stack, tree, verdict)
  /\ Ahead(stack, tree, omitted)
  /\ Behind(stack, tree, omitted)
  /\ Explained(Latest(stack, verdict), Showing(stack), tree, exception)

----------------------------------------------------------------------------
\* The declared tree.

LEMMA Basics ==
  /\ Root \in Tasks /\ Acting \subseteq Tasks /\ Run \notin Node /\ Nobody \notin Node
  /\ Tasks \subseteq Node /\ Contexts \subseteq Node /\ Tasks \cap Contexts = {}
  /\ \A t \in Tasks :
       /\ Children[t] \in Seq(Tasks) /\ Scopes[t] \in Seq(Contexts)
       /\ DOMAIN Children[t] = 1 .. Len(Children[t]) /\ Len(Children[t]) \in Nat
       /\ DOMAIN Scopes[t] = 1 .. Len(Scopes[t]) /\ Len(Scopes[t]) \in Nat
       /\ \A i \in DOMAIN Children[t] : Children[t][i] \in Tasks
       /\ \A i \in DOMAIN Scopes[t] : Scopes[t][i] \in Contexts
       /\ IsInjective(Children[t]) /\ IsInjective(Scopes[t])
  /\ Reports \subseteq Status /\ StepStatuses \subseteq Status /\ CallResults \subseteq Status
<1>1. /\ Root \in Tasks /\ Acting \subseteq Tasks /\ Run \notin Node /\ Nobody \notin Node
      /\ Tasks \subseteq Node /\ Contexts \subseteq Node /\ Tasks \cap Contexts = {}
      /\ Reports \subseteq Status /\ StepStatuses \subseteq Status /\ CallResults \subseteq Status
  BY WorkflowAssumption DEF Node
<1>2. ASSUME NEW t \in Tasks
      PROVE  /\ Children[t] \in Seq(Tasks) /\ Scopes[t] \in Seq(Contexts)
             /\ DOMAIN Children[t] = 1 .. Len(Children[t]) /\ Len(Children[t]) \in Nat
             /\ DOMAIN Scopes[t] = 1 .. Len(Scopes[t]) /\ Len(Scopes[t]) \in Nat
             /\ \A i \in DOMAIN Children[t] : Children[t][i] \in Tasks
             /\ \A i \in DOMAIN Scopes[t] : Scopes[t][i] \in Contexts
  <2>1. Children[t] \in Seq(Tasks) /\ Scopes[t] \in Seq(Contexts)
    BY WorkflowAssumption
  <2> QED
    BY <2>1
<1>3. ASSUME NEW t \in Tasks PROVE IsInjective(Children[t]) /\ IsInjective(Scopes[t])
  BY TreeAssumption DEF IsInjective
<1> QED
  BY <1>1, <1>2, <1>3

\* A subtree is the least closed set with its root.
LEMMA SubtreeLeast ==
  ASSUME NEW t \in Tasks
  PROVE  /\ Subtree(t) \subseteq Tasks /\ t \in Subtree(t) /\ Closed(Subtree(t))
         /\ \A S \in SUBSET Tasks : t \in S /\ Closed(S) => Subtree(t) \subseteq S
<1>1. ASSUME NEW u \in Subtree(t), NEW c \in ToSet(Children[u]) PROVE c \in Subtree(t)
  <2>1. u \in Tasks /\ c \in Tasks
    BY <1>1, Basics DEF Subtree, ToSet
  <2>2. ASSUME NEW S \in SUBSET Tasks, t \in S, Closed(S) PROVE c \in S
    BY <1>1, <2>2 DEF Subtree, Closed
  <2> QED
    BY <2>1, <2>2 DEF Subtree
<1> QED
  BY <1>1 DEF Subtree, Closed

LEMMA ChildPlace ==
  ASSUME NEW p \in Tasks, NEW k \in DOMAIN Children[p]
  PROVE  /\ Children[p][k] \in Tasks /\ Children[p][k] # Root /\ Children[p][k] # p
         /\ Parent(Children[p][k]) = p
         /\ Enclosing(Children[p][k]) = {p} \cup ToSet(Scopes[p])
<1> DEFINE c == Children[p][k]
<1>1. c \in Tasks /\ c # Root /\ c \in ToSet(Children[p])
  BY Basics, TreeAssumption DEF ToSet
<1>2. \A q \in Tasks : c \in ToSet(Children[q]) => q = p
  BY TreeAssumption DEF ToSet
<1>3. c # p
  <2> SUFFICES ASSUME c = p PROVE FALSE
    OBVIOUS
  <2>1. Closed(Tasks \ {p})
    <3> SUFFICES ASSUME NEW q \in Tasks \ {p}, NEW d \in ToSet(Children[q]) PROVE d \in Tasks \ {p}
      BY DEF Closed
    <3>1. d \in Tasks
      BY Basics DEF ToSet
    <3> QED
      BY <1>1, <1>2, <3>1
  <2>2. Root \in Tasks \ {p}
    BY <1>1, Basics
  <2> QED
    BY <2>1, <2>2, SubtreeLeast, Basics, TreeAssumption
<1>4. Parent(c) = p
  BY <1>1, <1>2 DEF Parent
<1>5. c \notin Contexts
  BY <1>1, Basics
<1> QED
  BY <1>1, <1>3, <1>4, <1>5 DEF Enclosing

LEMMA ScopePlace ==
  ASSUME NEW t \in Tasks, NEW i \in DOMAIN Scopes[t]
  PROVE  /\ Scopes[t][i] \in Contexts
         /\ Enclosing(Scopes[t][i]) = {t} \cup {Scopes[t][j] : j \in 1 .. i - 1}
<1> DEFINE n == Scopes[t][i]
<1>1. n \in Contexts /\ n \in ToSet(Scopes[t])
  BY Basics DEF ToSet
<1>2. \A u \in Tasks : n \in ToSet(Scopes[u]) => u = t
  BY TreeAssumption DEF ToSet
<1> DEFINE T == CHOOSE u \in Tasks : n \in ToSet(Scopes[u])
           I == CHOOSE j \in DOMAIN Scopes[T] : Scopes[T][j] = n
<1>3. Enclosing(n) = {T} \cup {Scopes[T][j] : j \in 1 .. I - 1}
  BY <1>1 DEF Enclosing
<1>4. T = t
  BY <1>1, <1>2
<1>5. I = i
  <2> HIDE DEF T
  <2>1. \A j \in DOMAIN Scopes[T] : Scopes[T][j] = n => j = i
    BY <1>4, TreeAssumption
  <2>2. I \in DOMAIN Scopes[T] /\ Scopes[T][I] = n
    BY <1>4
  <2> QED
    BY <2>1, <2>2
<1> HIDE DEF T, I
<1> QED
  BY <1>1, <1>3, <1>4, <1>5

\* Every task but the root is declared under another, which is in every subtree
\* it is in without being its root.
LEMMA Reached ==
  ASSUME NEW c \in Tasks, c # Root
  PROVE  \E p \in Tasks : c \in ToSet(Children[p])
<1> SUFFICES ASSUME \A p \in Tasks : c \notin ToSet(Children[p]) PROVE FALSE
  OBVIOUS
<1>1. Closed(Tasks \ {c})
  BY Basics DEF Closed, ToSet
<1> QED
  BY <1>1, SubtreeLeast, Basics, TreeAssumption

LEMMA ParentInside ==
  ASSUME NEW t \in Tasks, NEW p \in Tasks, NEW c \in ToSet(Children[p]),
         c \in Subtree(t), c # t
  PROVE  p \in Subtree(t)
<1> SUFFICES ASSUME p \notin Subtree(t) PROVE FALSE
  OBVIOUS
<1>1. \A q \in Tasks : c \in ToSet(Children[q]) => q = p
  BY TreeAssumption DEF ToSet
<1>2. Subtree(t) \subseteq Tasks /\ t \in Subtree(t) /\ Closed(Subtree(t))
  BY SubtreeLeast
<1>3. Closed(Subtree(t) \ {c})
  <2> SUFFICES ASSUME NEW q \in Subtree(t) \ {c}, NEW d \in ToSet(Children[q])
               PROVE  d \in Subtree(t) \ {c}
    BY DEF Closed
  <2> QED
    BY <1>1, <1>2 DEF Closed
<1>4. Subtree(t) \subseteq Subtree(t) \ {c}
  BY <1>2, <1>3, SubtreeLeast
<1> QED
  BY <1>4

LEMMA BelowPlace ==
  ASSUME NEW p \in Node \cup {Run}, NEW n \in Below(p)
  PROVE  /\ n \in Node /\ n # p /\ p \in Tasks \cup {Run}
         /\ \A q \in Node \cup {Run} : n \in Below(q) => q = p
<1> USE Basics
<1>1. CASE p = Run
  BY <1>1, TreeAssumption DEF Below, ToSet, Node
<1>2. CASE p \in Tasks
  <2>1. CASE n \in ToSet(Scopes[p])
    BY <1>2, <2>1, TreeAssumption DEF Below, ToSet, Node
  <2>2. CASE n \in ToSet(Children[p])
    BY <1>2, <2>2, TreeAssumption, ChildPlace DEF Below, ToSet, Node
  <2> QED
    BY <1>2, <2>1, <2>2 DEF Below
<1> QED
  BY <1>1, <1>2 DEF Below, Node

----------------------------------------------------------------------------
\* Sequences: the stack's operations, and lists of nodes without repetition.

LEMMA StackTop ==
  ASSUME NEW S, NEW s \in Seq(S), Len(s) > 0
  PROVE  /\ Last(s) = s[Len(s)] /\ Last(s) \in S
         /\ Front(s) \in Seq(S) /\ Len(Front(s)) = Len(s) - 1
         /\ \A i \in 1 .. Len(s) - 1 : Front(s)[i] = s[i]
<1>1. Len(s) \in Nat /\ \A i \in 1 .. Len(s) : s[i] \in S
  OBVIOUS
<1>2. \A i \in 1 .. Len(s) - 1 : s[i] \in S
  BY <1>1
<1>3. /\ SubSeq(s, 1, Len(s) - 1) \in Seq(S)
      /\ Len(SubSeq(s, 1, Len(s) - 1)) = IF 1 <= Len(s) - 1 THEN Len(s) - 1 - 1 + 1 ELSE 0
      /\ \A i \in 1 .. Len(s) - 1 - 1 + 1 : SubSeq(s, 1, Len(s) - 1)[i] = s[1 + i - 1]
  BY <1>1, <1>2, SubSeqProperties
<1>4. \A n \in Nat : n > 0 =>
        /\ n - 1 - 1 + 1 = n - 1 /\ n \in 1 .. n /\ ~(1 <= n - 1) => n - 1 = 0
        /\ \A i \in 1 .. n - 1 : 1 + i - 1 = i
  OBVIOUS
<1>5. Last(s) = s[Len(s)] /\ Front(s) = SubSeq(s, 1, Len(s) - 1)
  BY DEF Last, Front
<1>6. Len(SubSeq(s, 1, Len(s) - 1)) = Len(s) - 1
  <2>1. CASE 1 <= Len(s) - 1
    BY <1>1, <1>3, <2>1
  <2>2. CASE ~(1 <= Len(s) - 1)
    <3>1. Len(s) - 1 = 0
      BY <1>1, <2>2
    <3>2. Len(SubSeq(s, 1, Len(s) - 1)) = 0
      BY <1>3, <2>2
    <3> QED
      BY <3>1, <3>2
  <2> QED
    BY <2>1, <2>2
<1>7. \A i \in 1 .. Len(s) - 1 : SubSeq(s, 1, Len(s) - 1)[i] = s[i]
  BY <1>1, <1>3, <1>4
<1> QED
  BY <1>1, <1>3, <1>4, <1>5, <1>6, <1>7

LEMMA StackBecome ==
  ASSUME NEW S, NEW s \in Seq(S), Len(s) > 0, NEW a \in S
  PROVE  LET r == Append(Front(s), a)
         IN  /\ r \in Seq(S) /\ Len(r) = Len(s) /\ r[Len(s)] = a
             /\ \A i \in 1 .. Len(s) - 1 : r[i] = s[i]
<1> DEFINE f == Front(s)
<1>1. f \in Seq(S) /\ Len(f) = Len(s) - 1 /\ \A i \in 1 .. Len(s) - 1 : f[i] = s[i]
  BY StackTop
<1> HIDE DEF f
<1>2. /\ Append(f, a) \in Seq(S) /\ Len(Append(f, a)) = Len(f) + 1
      /\ \A i \in 1 .. Len(f) : Append(f, a)[i] = f[i]
      /\ Append(f, a)[Len(f) + 1] = a
  BY <1>1
<1> QED
  BY <1>1, <1>2 DEF f

LEMMA StackCall ==
  ASSUME NEW S, NEW s \in Seq(S), Len(s) > 0, NEW a \in S, NEW b \in S
  PROVE  LET r == Front(s) \o <<a, b>>
         IN  /\ r \in Seq(S) /\ Len(r) = Len(s) + 1
             /\ r[Len(s)] = a /\ r[Len(s) + 1] = b
             /\ \A i \in 1 .. Len(s) - 1 : r[i] = s[i]
<1> DEFINE f == Front(s)  p == <<a, b>>
<1>1. f \in Seq(S) /\ Len(f) = Len(s) - 1 /\ \A i \in 1 .. Len(s) - 1 : f[i] = s[i]
  BY StackTop
<1>2. p \in Seq(S) /\ Len(p) = 2 /\ p[1] = a /\ p[2] = b
  OBVIOUS
<1> HIDE DEF f, p
<1>3. /\ f \o p \in Seq(S) /\ Len(f \o p) = Len(f) + Len(p)
      /\ \A i \in 1 .. Len(f) + Len(p) : (f \o p)[i] = IF i <= Len(f) THEN f[i] ELSE p[i - Len(f)]
  BY <1>1, <1>2, ConcatProperties
<1>4. Len(s) \in Nat
  OBVIOUS
<1>5. Len(f \o p) = Len(s) + 1 /\ (f \o p)[Len(s)] = a /\ (f \o p)[Len(s) + 1] = b
  <2>1. \A n \in Nat : n > 0 => /\ n \in 1 .. n - 1 + 2 /\ n + 1 \in 1 .. n - 1 + 2
                              /\ ~(n <= n - 1) /\ ~(n + 1 <= n - 1) /\ n - 1 + 2 = n + 1
                              /\ n - (n - 1) = 1 /\ n + 1 - (n - 1) = 2
    OBVIOUS
  <2> QED
    BY <1>1, <1>2, <1>3, <1>4, <2>1
<1>6. \A i \in 1 .. Len(s) - 1 : (f \o p)[i] = s[i]
  <2>1. \A n \in Nat : n > 0 => \A i \in 1 .. n - 1 : i \in 1 .. n - 1 + 2 /\ i <= n - 1
    OBVIOUS
  <2> QED
    BY <1>1, <1>2, <1>3, <1>4, <2>1
<1> QED
  BY <1>3, <1>5, <1>6 DEF f, p

LEMMA StackReturn ==
  ASSUME NEW S, NEW s \in Seq(S), Len(s) > 1, NEW a \in S
  PROVE  LET r == [Front(s) EXCEPT ![Len(s) - 1] = a]
         IN  /\ r \in Seq(S) /\ Len(r) = Len(s) - 1 /\ r[Len(s) - 1] = a
             /\ \A i \in 1 .. Len(s) - 2 : r[i] = s[i]
<1> DEFINE f == Front(s)
<1>1. f \in Seq(S) /\ Len(f) = Len(s) - 1 /\ \A i \in 1 .. Len(s) - 1 : f[i] = s[i]
  BY StackTop
<1>2. Len(s) \in Nat /\ Len(s) - 1 \in 1 .. Len(f)
  BY <1>1
<1> HIDE DEF f
<1>3. /\ [f EXCEPT ![Len(s) - 1] = a] \in Seq(S)
      /\ Len([f EXCEPT ![Len(s) - 1] = a]) = Len(f)
      /\ \A j \in 1 .. Len(f) : [f EXCEPT ![Len(s) - 1] = a][j] = IF j = Len(s) - 1 THEN a ELSE f[j]
  BY <1>1, <1>2, ExceptSeq
<1> QED
  BY <1>1, <1>2, <1>3 DEF f

LEMMA Listing ==
  ASSUME NEW S, NEW s \in Seq(S), NEW t \in Seq(S), IsInjective(s), IsInjective(t),
         ToSet(s) \cap ToSet(t) = {}
  PROVE  /\ s \o t \in Seq(S) /\ IsInjective(s \o t)
         /\ ToSet(s \o t) = ToSet(s) \cup ToSet(t)
<1> DEFINE r == s \o t
<1>1. /\ r \in Seq(S) /\ Len(r) = Len(s) + Len(t)
      /\ \A i \in 1 .. Len(s) + Len(t) : r[i] = IF i <= Len(s) THEN s[i] ELSE t[i - Len(s)]
  BY ConcatProperties
<1>2. /\ DOMAIN s = 1 .. Len(s) /\ DOMAIN t = 1 .. Len(t) /\ Len(s) \in Nat /\ Len(t) \in Nat
      /\ DOMAIN r = 1 .. Len(s) + Len(t)
  BY <1>1
<1> HIDE DEF r
<1>0. \A m, n \in Nat :
        /\ \A i \in 1 .. m : i \in 1 .. m + n /\ i <= m
        /\ \A i \in 1 .. n : m + i \in 1 .. m + n /\ ~(m + i <= m) /\ m + i - m = i
        /\ \A i \in 1 .. m + n : i \in 1 .. m \/ (i - m \in 1 .. n /\ i > m)
  OBVIOUS
<1>3. /\ \A i \in 1 .. Len(s) : r[i] = s[i] /\ i \in DOMAIN r
      /\ \A i \in 1 .. Len(t) : r[Len(s) + i] = t[i] /\ Len(s) + i \in DOMAIN r
      /\ \A i \in DOMAIN r : i \in 1 .. Len(s) \/ (i - Len(s) \in 1 .. Len(t) /\ i > Len(s))
  <2>1. \A i \in 1 .. Len(s) : r[i] = s[i] /\ i \in DOMAIN r
    BY <1>0, <1>1, <1>2
  <2>2. ASSUME NEW i \in 1 .. Len(t) PROVE r[Len(s) + i] = t[i] /\ Len(s) + i \in DOMAIN r
    <3>1. Len(s) + i \in 1 .. Len(s) + Len(t) /\ ~(Len(s) + i <= Len(s)) /\ Len(s) + i - Len(s) = i
      BY <1>0, <1>2
    <3> QED
      BY <1>1, <1>2, <3>1
  <2>3. \A i \in DOMAIN r : i \in 1 .. Len(s) \/ (i - Len(s) \in 1 .. Len(t) /\ i > Len(s))
    BY <1>0, <1>2
  <2> QED
    BY <2>1, <2>2, <2>3
<1>4. ToSet(r) = ToSet(s) \cup ToSet(t)
  <2>1. ASSUME NEW x \in ToSet(r) PROVE x \in ToSet(s) \cup ToSet(t)
    <3>1. PICK i \in DOMAIN r : x = r[i]
      BY DEF ToSet
    <3>2. CASE i \in 1 .. Len(s)
      BY <1>2, <1>3, <3>1, <3>2 DEF ToSet
    <3>3. CASE i - Len(s) \in 1 .. Len(t) /\ i > Len(s)
      <4>1. r[i] = t[i - Len(s)]
        BY <1>1, <1>2, <3>3
      <4> QED
        BY <1>2, <3>1, <3>3, <4>1 DEF ToSet
    <3> QED
      BY <1>3, <3>2, <3>3
  <2>2. ToSet(s) \subseteq ToSet(r)
    BY <1>2, <1>3 DEF ToSet
  <2>3. ToSet(t) \subseteq ToSet(r)
    BY <1>2, <1>3 DEF ToSet
  <2> QED
    BY <2>1, <2>2, <2>3
<1>5. IsInjective(r)
  <2> SUFFICES ASSUME NEW i \in DOMAIN r, NEW j \in DOMAIN r, r[i] = r[j] PROVE i = j
    BY DEF IsInjective
  <2>0. i \in Int /\ j \in Int /\ Len(s) \in Int
    BY <1>2
  <2>1. \A k \in DOMAIN r : IF k <= Len(s) THEN k \in DOMAIN s /\ r[k] = s[k]
                            ELSE k - Len(s) \in DOMAIN t /\ r[k] = t[k - Len(s)]
    <3>1. \A k \in DOMAIN r : r[k] = IF k <= Len(s) THEN s[k] ELSE t[k - Len(s)]
      BY <1>1, <1>2
    <3>2. \A m, n \in Nat : \A k \in 1 .. m + n :
            IF k <= m THEN k \in 1 .. m ELSE k - m \in 1 .. n
      OBVIOUS
    <3> QED
      BY <1>2, <3>1, <3>2
  <2>2. CASE i <= Len(s) /\ j <= Len(s)
    BY <2>1, <2>2 DEF IsInjective
  <2>3. CASE ~(i <= Len(s)) /\ ~(j <= Len(s))
    <3>1. i - Len(s) = j - Len(s)
      BY <2>1, <2>3 DEF IsInjective
    <3> QED
      BY <2>0, <3>1
  <2>4. CASE i <= Len(s) /\ ~(j <= Len(s))
    <3>1. r[i] \in ToSet(s) /\ r[j] \in ToSet(t)
      BY <2>1, <2>4 DEF ToSet
    <3> QED
      BY <3>1
  <2>5. CASE ~(i <= Len(s)) /\ j <= Len(s)
    <3>1. r[i] \in ToSet(t) /\ r[j] \in ToSet(s)
      BY <2>1, <2>5 DEF ToSet
    <3> QED
      BY <3>1
  <2> QED
    BY <2>2, <2>3, <2>4, <2>5
<1> QED
  BY <1>1, <1>4, <1>5 DEF r

LEMMA Appending ==
  ASSUME NEW S, NEW s \in Seq(S), IsInjective(s), NEW x \in S, x \notin ToSet(s)
  PROVE  /\ Append(s, x) \in Seq(S) /\ IsInjective(Append(s, x))
         /\ ToSet(Append(s, x)) = ToSet(s) \cup {x}
<1>1. /\ Append(s, x) \in Seq(S) /\ Len(Append(s, x)) = Len(s) + 1 /\ Len(s) \in Nat
      /\ \A i \in 1 .. Len(s) : Append(s, x)[i] = s[i]
      /\ Append(s, x)[Len(s) + 1] = x
      /\ DOMAIN s = 1 .. Len(s) /\ DOMAIN Append(s, x) = 1 .. Len(s) + 1
  OBVIOUS
<1> DEFINE r == Append(s, x)
<1> HIDE DEF r
<1>2. \A i \in DOMAIN r : (i \in DOMAIN s /\ r[i] = s[i]) \/ i = Len(s) + 1
  BY <1>1 DEF r
<1>3. r[Len(s) + 1] = x /\ Len(s) + 1 \in DOMAIN r /\ \A i \in DOMAIN s : i \in DOMAIN r /\ r[i] = s[i]
  BY <1>1 DEF r
<1>4. ToSet(r) = ToSet(s) \cup {x}
  BY <1>2, <1>3 DEF ToSet
<1>5. IsInjective(r)
  BY <1>2, <1>3 DEF IsInjective, ToSet
<1> QED
  BY <1>1, <1>4, <1>5 DEF r

LEMMA Suffix ==
  ASSUME NEW S, NEW s \in Seq(S), IsInjective(s), NEW k \in 1 .. Len(s)
  PROVE  LET r == SubSeq(s, k + 1, Len(s))
         IN  /\ r \in Seq(S) /\ IsInjective(r)
             /\ ToSet(r) = {s[j] : j \in k + 1 .. Len(s)}
<1> DEFINE r == SubSeq(s, k + 1, Len(s))
<1>1. Len(s) \in Nat /\ k \in Nat /\ DOMAIN s = 1 .. Len(s) /\ \A i \in k + 1 .. Len(s) : s[i] \in S
  OBVIOUS
<1>2. /\ r \in Seq(S) /\ Len(r) = IF k + 1 <= Len(s) THEN Len(s) - (k + 1) + 1 ELSE 0
      /\ \A i \in 1 .. Len(s) - (k + 1) + 1 : r[i] = s[k + 1 + i - 1]
  BY <1>1, SubSeqProperties
<1> HIDE DEF r
<1>3. /\ DOMAIN r = 1 .. Len(s) - k
      /\ \A i \in DOMAIN r : r[i] = s[k + i] /\ k + i \in k + 1 .. Len(s) /\ k + i \in DOMAIN s
      /\ \A j \in k + 1 .. Len(s) : j - k \in DOMAIN r /\ r[j - k] = s[j]
  <2>1. DOMAIN r = 1 .. Len(s) - k
    <3>1. DOMAIN r = 1 .. Len(r)
      BY <1>2
    <3>2. \A n, m \in Nat : (m + 1 <= n => n - (m + 1) + 1 = n - m) /\ (~(m + 1 <= n) => 1 .. 0 = 1 .. n - m)
      BY SMTT(30)
    <3> QED
      BY <1>1, <1>2, <3>1, <3>2
  <2>2. \A i \in 1 .. Len(s) - k : r[i] = s[k + i] /\ k + i \in k + 1 .. Len(s) /\ k + i \in DOMAIN s
    <3>1. \A n, m \in Nat : m >= 1 => \A i \in 1 .. n - m :
            /\ i \in 1 .. n - (m + 1) + 1 /\ m + 1 + i - 1 = m + i
            /\ m + i \in m + 1 .. n /\ m + i \in 1 .. n
      OBVIOUS
    <3>2. k >= 1
      OBVIOUS
    <3> QED
      BY <1>1, <1>2, <3>1, <3>2
  <2>3. \A j \in k + 1 .. Len(s) : j - k \in 1 .. Len(s) - k /\ k + (j - k) = j
    BY <1>1
  <2> QED
    BY SMTT(30), <2>1, <2>2, <2>3
<1>4. ToSet(r) = {s[j] : j \in k + 1 .. Len(s)}
  BY <1>3 DEF ToSet
<1>5. IsInjective(r)
  <2> SUFFICES ASSUME NEW i \in DOMAIN r, NEW j \in DOMAIN r, r[i] = r[j] PROVE i = j
    BY DEF IsInjective
  <2>1. k + i = k + j
    BY <1>3 DEF IsInjective
  <2> QED
    BY <1>1, <1>3, <2>1
<1> QED
  BY <1>2, <1>4, <1>5 DEF r

\* A set of natural numbers has a least element.
LEMMA LeastNumber ==
  ASSUME NEW S \in SUBSET Nat, S # {}
  PROVE  \E n \in S : \A m \in S : n <= m
<1>1. PICK n \in S : \A m \in S : ~(<<m, n>> \in OpToRel(<, Nat))
  BY NatLessThanWellFounded, WFMin
<1>2. ASSUME NEW m \in S PROVE n <= m
  <2>1. m \in Nat /\ n \in Nat
    OBVIOUS
  <2>2. ~(m < n)
    BY <1>1, <2>1 DEF OpToRel
  <2> QED
    BY <2>1, <2>2
<1> QED
  BY <1>2

\* What Unreported collects from the first m elements.
Collects(f, d, R, m) ==
  f = [i \in 0 .. m |-> IF i = 0 THEN <<>>
                       ELSE IF d[i] \in R THEN f[i - 1] ELSE Append(f[i - 1], d[i])]

LEMMA CollectsMore ==
  ASSUME NEW d, NEW R, NEW m \in Nat, NEW f, Collects(f, d, R, m)
  PROVE  \E g : Collects(g, d, R, m + 1)
<1> DEFINE last == IF d[m + 1] \in R THEN f[m] ELSE Append(f[m], d[m + 1])
           g == [i \in 0 .. m + 1 |-> IF i = m + 1 THEN last ELSE f[i]]
           h == [i \in 0 .. m + 1 |-> IF i = 0 THEN <<>>
                       ELSE IF d[i] \in R THEN g[i - 1] ELSE Append(g[i - 1], d[i])]
<1> HIDE DEF last
<1>1. \A i \in 0 .. m : f[i] = IF i = 0 THEN <<>>
                       ELSE IF d[i] \in R THEN f[i - 1] ELSE Append(f[i - 1], d[i])
  BY DEF Collects
<1>2. \A i \in 0 .. m + 1 : g[i] = IF i = m + 1 THEN last ELSE f[i]
  OBVIOUS
<1>3. ASSUME NEW i \in 0 .. m + 1 PROVE g[i] = h[i]
  <2>1. CASE i = m + 1
    <3>1. m \in 0 .. m + 1 /\ m # m + 1 /\ i - 1 = m /\ i # 0
      BY <2>1
    <3>2. g[m] = f[m] /\ g[i] = last
      BY <1>2, <2>1, <3>1
    <3>3. h[i] = IF d[i] \in R THEN g[i - 1] ELSE Append(g[i - 1], d[i])
      BY <3>1
    <3> HIDE DEF g, h
    <3> QED
      BY <2>1, <3>1, <3>2, <3>3 DEF last
  <2>2. CASE i = 0
    <3>1. i \in 0 .. m /\ i # m + 1
      BY <2>2
    <3>2. h[i] = <<>>
      BY <2>2
    <3> QED
      BY <1>1, <1>2, <2>2, <3>1, <3>2
  <2>3. CASE i \in 1 .. m
    <3>1. i \in 0 .. m /\ i # m + 1 /\ i # 0 /\ i - 1 \in 0 .. m + 1 /\ i - 1 # m + 1
      BY <2>3
    <3>2. h[i] = IF d[i] \in R THEN g[i - 1] ELSE Append(g[i - 1], d[i])
      BY <3>1
    <3>3. g[i] = f[i] /\ g[i - 1] = f[i - 1]
      BY <1>2, <3>1
    <3> HIDE DEF g, h
    <3> QED
      BY <1>1, <3>1, <3>2, <3>3
  <2> QED
    BY <2>1, <2>2, <2>3
<1>4. g = h
  BY <1>3
<1>5. Collects(g, d, R, m + 1)
  <2> HIDE DEF g
  <2> QED
    BY <1>4 DEF Collects
<1> HIDE DEF g
<1> QED
  BY <1>5

LEMMA CollectsAll ==
  ASSUME NEW d, NEW R, NEW n \in Nat
  PROVE  \E f : Collects(f, d, R, n)
<1> DEFINE Bad == {m \in Nat : ~\E f : Collects(f, d, R, m)}
<1> SUFFICES ASSUME Bad # {} PROVE FALSE
  BY Zenon
<1>1. PICK m \in Bad : \A k \in Bad : m <= k
  <2>1. Bad \in SUBSET Nat
    BY Zenon
  <2> HIDE DEF Bad
  <2> QED
    BY <2>1, LeastNumber
<1>2. m \in Nat /\ ~\E f : Collects(f, d, R, m)
  BY Zenon
<1> HIDE DEF Bad
<1>3. m # 0
  <2> DEFINE f == [i \in 0 .. 0 |-> <<>>]
  <2>1. f = [i \in 0 .. 0 |-> IF i = 0 THEN <<>>
                       ELSE IF d[i] \in R THEN f[i - 1] ELSE Append(f[i - 1], d[i])]
    OBVIOUS
  <2> HIDE DEF f
  <2>2. Collects(f, d, R, 0)
    BY <2>1 DEF Collects
  <2> QED
    BY <1>2, <2>2
<1>4. m - 1 \in Nat /\ m - 1 + 1 = m /\ ~(m <= m - 1)
  BY <1>2, <1>3
<1>5. \E f : Collects(f, d, R, m - 1)
  BY <1>1, <1>4 DEF Bad
<1> QED
  BY <1>2, <1>4, <1>5, CollectsMore

LEMMA Remaining ==
  ASSUME NEW S, NEW d \in Seq(S), IsInjective(d), NEW R
  PROVE  LET r == Unreported(d, R)
         IN  r \in Seq(S) /\ IsInjective(r) /\ ToSet(r) = ToSet(d) \ R
<1> DEFINE n == Len(d)  f == CHOOSE g : Collects(g, d, R, n)
<1>1. n \in Nat /\ DOMAIN d = 1 .. n /\ \A i \in 1 .. n : d[i] \in S
  OBVIOUS
<1>2. Unreported(d, R) = f[n]
  BY DEF Unreported, Collects
<1>3. Collects(f, d, R, n)
  <2>1. \E g : Collects(g, d, R, n)
    BY <1>1, CollectsAll
  <2> QED
    BY <2>1
<1> HIDE DEF f, n
<1>4. \A i \in 0 .. n : f[i] = IF i = 0 THEN <<>>
                       ELSE IF d[i] \in R THEN f[i - 1] ELSE Append(f[i - 1], d[i])
  BY <1>3 DEF Collects
<1> DEFINE Good(i) == /\ f[i] \in Seq(S) /\ IsInjective(f[i])
                      /\ ToSet(f[i]) = {d[j] : j \in 1 .. i} \ R
           Bad == {i \in 0 .. n : ~Good(i)}
<1>5. Bad = {}
  <2> SUFFICES ASSUME Bad # {} PROVE FALSE
    OBVIOUS
  <2>1. PICK m \in Bad : \A k \in Bad : m <= k
    <3>1. Bad \in SUBSET Nat
      BY <1>1
    <3> HIDE DEF Bad
    <3> QED
      BY <3>1, LeastNumber
  <2>2. m \in 0 .. n /\ ~Good(m) /\ \A k \in 0 .. n : ~Good(k) => m <= k
    BY <2>1
  <2>3. Good(0)
    <3>1. f[0] = <<>>
      BY <1>1, <1>4
    <3>2. {d[j] : j \in 1 .. 0} = {}
      OBVIOUS
    <3> QED
      BY <3>1, <3>2 DEF IsInjective, ToSet
  <2> HIDE DEF Bad
  <2>4. m \in 1 .. n /\ m - 1 \in 0 .. n /\ m # 0 /\ ~(m <= m - 1)
    <3>1. m # 0
      BY <2>2, <2>3
    <3> HIDE DEF Good
    <3> QED
      BY <1>1, <2>2, <3>1
  <2>5. Good(m - 1)
    <3> HIDE DEF Good
    <3> QED
      BY <2>2, <2>4
  <2>6. \A x : x \in {d[j] : j \in 1 .. m} <=> x \in {d[j] : j \in 1 .. m - 1} \/ x = d[m]
    <3>1. \A j : j \in 1 .. m <=> j \in 1 .. m - 1 \/ j = m
      BY <1>1, <2>4
    <3> QED
      BY <3>1
  <2>7. d[m] \in S /\ d[m] \notin {d[j] : j \in 1 .. m - 1}
    <3>1. \A j \in 1 .. m - 1 : j \in 1 .. n /\ j # m
      BY <1>1, <2>4
    <3> QED
      BY <1>1, <2>4, <3>1 DEF IsInjective
  <2>8. CASE d[m] \in R
    <3>1. f[m] = f[m - 1]
      BY <1>1, <1>4, <2>4, <2>8
    <3> QED
      BY <2>2, <2>5, <2>6, <2>8, <3>1
  <2>9. CASE d[m] \notin R
    <3>1. f[m] = Append(f[m - 1], d[m])
      <4> HIDE DEF Good
      <4>1. f[m] = IF m = 0 THEN <<>>
                   ELSE IF d[m] \in R THEN f[m - 1] ELSE Append(f[m - 1], d[m])
        BY ONLY <1>4, <2>2, Zenon
      <4> QED
        BY <2>4, <2>9, <4>1
    <3>2. f[m - 1] \in Seq(S) /\ IsInjective(f[m - 1]) /\ d[m] \notin ToSet(f[m - 1])
      BY <2>5, <2>7
    <3>3. /\ f[m] \in Seq(S) /\ IsInjective(f[m])
          /\ ToSet(f[m]) = ToSet(f[m - 1]) \cup {d[m]}
      BY <2>7, <3>1, <3>2, Appending
    <3>4. ToSet(f[m]) = {d[j] : j \in 1 .. m} \ R
      BY <2>5, <2>6, <2>9, <3>3
    <3> QED
      BY <2>2, <3>3, <3>4
  <2> QED
    BY <2>8, <2>9
<1>6. Good(n)
  <2>1. n \in 0 .. n
    BY <1>1
  <2> HIDE DEF Good
  <2> QED
    BY <1>5, <2>1
<1>7. ToSet(d) = {d[j] : j \in 1 .. n}
  BY <1>1 DEF ToSet
<1> QED
  BY <1>2, <1>6, <1>7

----------------------------------------------------------------------------
\* The operations on the status tree.

LEMMA TreeParts ==
  ASSUME NEW tr \in StatusTree
  PROVE  /\ tr.status \in [Node \cup {Run} -> Status \cup {"ABSENT"}]
         /\ tr.subTasks \in [Node \cup {Run} -> Seq(Node)]
         /\ tr.steps \in [Node \cup {Run} -> SUBSET Status]
         /\ tr.locked \subseteq Node \cup {Run}
BY DEF StatusTree

LEMMA TreeMade ==
  ASSUME NEW r, DOMAIN r = {"status", "subTasks", "steps", "locked"},
         r = [x \in DOMAIN r |-> r[x]],
         r.status \in [Node \cup {Run} -> Status \cup {"ABSENT"}],
         r.subTasks \in [Node \cup {Run} -> Seq(Node)],
         r.steps \in [Node \cup {Run} -> SUBSET Status],
         r.locked \subseteq Node \cup {Run}
  PROVE  r \in StatusTree
<1>1. r = [status |-> r.status, subTasks |-> r.subTasks, steps |-> r.steps, locked |-> r.locked]
  OBVIOUS
<1> QED
  BY <1>1 DEF StatusTree

LEMMA AttachTree ==
  ASSUME NEW tr \in StatusTree, NEW p \in Node \cup {Run}, NEW n \in Node, NEW s \in Status
  PROVE  LET r == Attach(tr, p, n, s)
         IN  /\ r \in StatusTree /\ r.steps = tr.steps /\ r.locked = tr.locked
             /\ \A m \in Node \cup {Run} :
                  /\ r.status[m] = IF m = n THEN s ELSE tr.status[m]
                  /\ r.subTasks[m] = IF m = p THEN Append(tr.subTasks[p], n) ELSE tr.subTasks[m]
<1> DEFINE r == Attach(tr, p, n, s)
<1>1. /\ r.status = [tr.status EXCEPT ![n] = s]
      /\ r.subTasks = [tr.subTasks EXCEPT ![p] = Append(tr.subTasks[p], n)]
      /\ r.steps = tr.steps /\ r.locked = tr.locked
  BY DEF Attach, StatusTree
<1>0. DOMAIN r = {"status", "subTasks", "steps", "locked"} /\ r = [x \in DOMAIN r |-> r[x]]
  BY DEF Attach, StatusTree
<1> HIDE DEF r
<1>2. Append(tr.subTasks[p], n) \in Seq(Node)
  BY TreeParts
<1>3. /\ r.status \in [Node \cup {Run} -> Status \cup {"ABSENT"}]
      /\ r.subTasks \in [Node \cup {Run} -> Seq(Node)]
  BY <1>1, <1>2, TreeParts
<1>4. r \in StatusTree
  BY <1>0, <1>1, <1>3, TreeParts, TreeMade
<1> QED
  BY <1>1, <1>4, TreeParts DEF r

LEMMA UpdateTree ==
  ASSUME NEW tr \in StatusTree, NEW n \in Node \cup {Run}, NEW s \in Status
  PROVE  LET r == Update(tr, n, s)
         IN  /\ r \in StatusTree /\ r.steps = tr.steps /\ r.locked = tr.locked
             /\ r.subTasks = tr.subTasks
             /\ \A m \in Node \cup {Run} : r.status[m] = IF m = n THEN s ELSE tr.status[m]
<1> DEFINE r == Update(tr, n, s)
<1>1. /\ r.status = [tr.status EXCEPT ![n] = s]
      /\ r.subTasks = tr.subTasks /\ r.steps = tr.steps /\ r.locked = tr.locked
  BY DEF Update, StatusTree
<1>0. DOMAIN r = {"status", "subTasks", "steps", "locked"} /\ r = [x \in DOMAIN r |-> r[x]]
  BY DEF Update, StatusTree
<1> HIDE DEF r
<1>3. r.status \in [Node \cup {Run} -> Status \cup {"ABSENT"}]
  BY <1>1, TreeParts
<1>2. r \in StatusTree
  BY <1>0, <1>1, <1>3, TreeParts, TreeMade
<1> QED
  BY <1>1, <1>2, TreeParts DEF r

LEMMA StepTree ==
  ASSUME NEW tr \in StatusTree, NEW n \in Node, NEW s \in Status
  PROVE  LET r == [tr EXCEPT !.steps[n] = @ \cup {s}]
         IN  /\ r \in StatusTree /\ r.status = tr.status /\ r.locked = tr.locked
             /\ r.subTasks = tr.subTasks /\ r.steps[Run] = tr.steps[Run]
<1> DEFINE r == [tr EXCEPT !.steps[n] = @ \cup {s}]
<1>1. /\ r.status = tr.status /\ r.subTasks = tr.subTasks /\ r.locked = tr.locked
      /\ r.steps = [tr.steps EXCEPT ![n] = tr.steps[n] \cup {s}]
  BY DEF StatusTree
<1>0. DOMAIN r = {"status", "subTasks", "steps", "locked"} /\ r = [x \in DOMAIN r |-> r[x]]
  BY DEF StatusTree
<1> HIDE DEF r
<1>2. r.steps \in [Node \cup {Run} -> SUBSET Status]
  BY <1>1, TreeParts
<1>3. r \in StatusTree
  BY <1>0, <1>1, <1>2, TreeParts, TreeMade
<1>4. n # Run
  BY Basics
<1> QED
  BY <1>1, <1>3, <1>4, TreeParts DEF r

\* Of a node that ran it makes a final status, and a stop status of the node or
\* of a node under it shows in the result.
LEMMA AggregateFinal ==
  ASSUME NEW own \in Status \ {"RUNNING"}, NEW below
  PROVE  /\ Aggregate(own, below) \in Status \ {"RUNNING"}
         /\ own \in STOP_STATUSES => Aggregate(own, below) \in STOP_STATUSES
         /\ below \cap STOP_STATUSES # {} => Aggregate(own, below) \in STOP_STATUSES
<1>1. CASE own \in {"FAILURE_COVERED", "ERROR"}
  BY <1>1 DEF Aggregate, Status, STOP_STATUSES
<1>2. CASE own \notin {"FAILURE_COVERED", "ERROR"} /\ "ERROR" \in below
  BY <1>2 DEF Aggregate, Status, STOP_STATUSES
<1>3. CASE own \notin {"FAILURE_COVERED", "ERROR"} /\ "ERROR" \notin below
  BY <1>3 DEF Aggregate, Status, STOP_STATUSES
<1> QED
  BY <1>1, <1>2, <1>3

LEMMA FinalizeTree ==
  ASSUME NEW tr \in StatusTree, NEW n \in Node \cup {Run}, ~Absent(tr, n)
  PROVE  LET r == FinalizeManager(tr, n)
         IN  /\ r \in StatusTree /\ r.steps = tr.steps /\ r.locked = tr.locked \cup {n}
             /\ r.subTasks = tr.subTasks
             /\ \A m \in Node \cup {Run} : m # n => r.status[m] = tr.status[m]
             /\ r.status[n] \in Status \ {"RUNNING"}
             /\ Blamed(tr, n) => r.status[n] \in STOP_STATUSES
<1> DEFINE r == FinalizeManager(tr, n)
           own == IF tr.status[n] = "RUNNING" THEN "SUCCESS" ELSE tr.status[n]
           below == ChildStatuses(tr, n)
           s == IF below = {} THEN own ELSE Aggregate(own, below)
<1>1. /\ r.status = [tr.status EXCEPT ![n] = s] /\ r.locked = tr.locked \cup {n}
      /\ r.subTasks = tr.subTasks /\ r.steps = tr.steps
  BY DEF FinalizeManager, StatusTree
<1>0. DOMAIN r = {"status", "subTasks", "steps", "locked"} /\ r = [x \in DOMAIN r |-> r[x]]
  BY DEF FinalizeManager, StatusTree
<1>2. own \in Status \ {"RUNNING"} /\ (tr.status[n] \in STOP_STATUSES => own \in STOP_STATUSES)
  BY TreeParts DEF Absent, Status, STOP_STATUSES
<1>3. (\E m \in ToSet(tr.subTasks[n]) : tr.status[m] \in STOP_STATUSES) => below \cap STOP_STATUSES # {}
  BY DEF ChildStatuses
<1> HIDE DEF r, own, below
<1>4. s \in Status \ {"RUNNING"} /\ (Blamed(tr, n) => s \in STOP_STATUSES)
  BY <1>2, <1>3, AggregateFinal DEF Blamed
<1> HIDE DEF s
<1>6. r.status \in [Node \cup {Run} -> Status \cup {"ABSENT"}]
  BY <1>1, <1>4, TreeParts
<1>5. r \in StatusTree
  BY <1>0, <1>1, <1>6, TreeParts, TreeMade
<1> QED
  BY <1>1, <1>4, <1>5, TreeParts DEF r

----------------------------------------------------------------------------
\* How the status tree grows.

\* At most n's status changes, and at most n is finalized.
Settles(tr, r, n) ==
  /\ r.subTasks = tr.subTasks /\ r.steps[Run] = tr.steps[Run]
  /\ \A m \in Node \cup {Run} : Absent(r, m) <=> Absent(tr, m)
  /\ \A m \in Node \cup {Run} : m # n => r.status[m] = tr.status[m]
  /\ tr.locked \subseteq r.locked /\ r.locked \subseteq tr.locked \cup {n}

LEMMA GrownSettles ==
  ASSUME NEW tr \in StatusTree, NEW r \in StatusTree, NEW om \in SUBSET Tasks, Grown(tr, om),
         NEW n \in Node \cup {Run}, Settles(tr, r, n),
         n \in r.locked => r.status[n] \notin {"ABSENT", "RUNNING"},
         n \in Tasks /\ n \in r.locked => Done(tr, om, n),
         n = Run => Run \in r.locked
  PROVE  Grown(r, om)
<1> USE Basics
<1>0. tr.locked \subseteq Node \cup {Run} /\ r.locked \subseteq Node \cup {Run}
  BY TreeParts
<1>1. \A m \in Node \cup {Run} :
        /\ IsInjective(r.subTasks[m])
        /\ ToSet(r.subTasks[m]) = {k \in Below(m) : ~Absent(r, k)}
  <2> SUFFICES ASSUME NEW m \in Node \cup {Run}
               PROVE  /\ IsInjective(r.subTasks[m])
                      /\ ToSet(r.subTasks[m]) = {k \in Below(m) : ~Absent(r, k)}
    OBVIOUS
  <2>1. \A k \in Below(m) : Absent(r, k) <=> Absent(tr, k)
    BY BelowPlace DEF Settles
  <2> QED
    BY <2>1 DEF Settles, Grown
<1>2. \A m \in r.locked : r.status[m] \notin {"ABSENT", "RUNNING"}
  BY <1>0 DEF Grown, Settles
<1>3. \A t \in Tasks : \A m \in Below(t) : ~Absent(r, m) => ~Absent(r, t)
  <2>1. \A t \in Tasks : \A m \in Below(t) : m \in Node /\ t \in Node
    BY BelowPlace
  <2> QED
    BY <2>1 DEF Grown, Settles
<1>4. \A t \in Tasks : (\A c \in ToSet(Children[t]) : c \in Node) /\ (\A c \in ToSet(Scopes[t]) : c \in Node)
  BY DEF ToSet
<1>5. \A t \in om : ~Absent(r, t) /\ \A c \in ToSet(Children[t]) : Absent(r, c)
  BY <1>4 DEF Grown, Settles
<1>6. \A t \in Tasks \cap r.locked : Done(r, om, t)
  <2> SUFFICES ASSUME NEW t \in Tasks \cap r.locked PROVE Done(r, om, t)
    OBVIOUS
  <2>1. Done(tr, om, t)
    BY DEF Grown, Settles
  <2> QED
    BY <1>4, <2>1 DEF Done, Settles
<1>7. r.steps[Run] = {} /\ ~Absent(r, Run) /\ (Run \notin r.locked => r.status[Run] = "RUNNING")
  BY DEF Grown, Settles
<1> QED
  BY <1>1, <1>2, <1>3, <1>5, <1>6, <1>7 DEF Grown

LEMMA GrownUpdate ==
  ASSUME NEW tr \in StatusTree, NEW om \in SUBSET Tasks, Grown(tr, om), NEW n \in Going(tr),
         NEW s \in Status
  PROVE  LET r == Update(tr, n, s)
         IN  /\ r \in StatusTree /\ Grown(r, om) /\ Settles(tr, r, n) /\ Going(r) = Going(tr)
             /\ r.status[n] = s /\ r.locked = tr.locked
<1> DEFINE r == Update(tr, n, s)
<1>1. n \in Node /\ n \in Node \cup {Run} /\ ~Absent(tr, n) /\ n \notin tr.locked /\ n # Run
  BY Basics DEF Going
<1>2. /\ r \in StatusTree /\ r.steps = tr.steps /\ r.locked = tr.locked
      /\ r.subTasks = tr.subTasks
      /\ \A m \in Node \cup {Run} : r.status[m] = IF m = n THEN s ELSE tr.status[m]
  BY <1>1, UpdateTree
<1> HIDE DEF r
<1>3. s # "ABSENT"
  BY DEF Status
<1>4. Settles(tr, r, n)
  BY <1>1, <1>2, <1>3 DEF Settles, Absent
<1>5. Grown(r, om)
  BY <1>1, <1>2, <1>4, GrownSettles
<1>6. Going(r) = Going(tr)
  BY <1>2, <1>4 DEF Going, Settles
<1> QED
  BY <1>1, <1>2, <1>4, <1>5, <1>6 DEF r

LEMMA GrownStep ==
  ASSUME NEW tr \in StatusTree, NEW om \in SUBSET Tasks, Grown(tr, om), NEW n \in Going(tr),
         NEW s \in Status
  PROVE  LET r == [tr EXCEPT !.steps[n] = @ \cup {s}]
         IN  /\ r \in StatusTree /\ Grown(r, om) /\ Settles(tr, r, n) /\ Going(r) = Going(tr)
             /\ r.status = tr.status /\ r.locked = tr.locked
<1> DEFINE r == [tr EXCEPT !.steps[n] = @ \cup {s}]
<1>1. n \in Node /\ n \in Node \cup {Run} /\ n \notin tr.locked /\ n # Run
  BY Basics DEF Going
<1>2. /\ r \in StatusTree /\ r.status = tr.status /\ r.locked = tr.locked
      /\ r.subTasks = tr.subTasks /\ r.steps[Run] = tr.steps[Run]
  BY <1>1, StepTree
<1> HIDE DEF r
<1>4. Settles(tr, r, n)
  BY <1>1, <1>2 DEF Settles, Absent
<1>5. Grown(r, om)
  BY <1>1, <1>2, <1>4, GrownSettles
<1>6. Going(r) = Going(tr)
  BY <1>2, <1>4 DEF Going, Settles
<1> QED
  BY <1>2, <1>4, <1>5, <1>6 DEF r

LEMMA GrownFinalize ==
  ASSUME NEW tr \in StatusTree, NEW om \in SUBSET Tasks, Grown(tr, om),
         NEW n \in Node \cup {Run}, ~Absent(tr, n), n \in Tasks => Done(tr, om, n)
  PROVE  LET r == FinalizeManager(tr, n)
         IN  /\ r \in StatusTree /\ Grown(r, om) /\ Settles(tr, r, n)
             /\ Going(r) = Going(tr) \ {n}
             /\ Blamed(tr, n) => r.status[n] \in STOP_STATUSES
             /\ r.locked = tr.locked \cup {n}
<1> DEFINE r == FinalizeManager(tr, n)
<1>2. /\ r \in StatusTree /\ r.steps = tr.steps /\ r.locked = tr.locked \cup {n}
      /\ r.subTasks = tr.subTasks
      /\ \A m \in Node \cup {Run} : m # n => r.status[m] = tr.status[m]
      /\ r.status[n] \in Status \ {"RUNNING"}
      /\ Blamed(tr, n) => r.status[n] \in STOP_STATUSES
  BY FinalizeTree
<1> HIDE DEF r
<1>3. r.status[n] # "ABSENT"
  BY <1>2 DEF Status
<1>4. Settles(tr, r, n)
  BY <1>2, <1>3 DEF Settles, Absent
<1>5. Grown(r, om)
  BY <1>2, <1>3, <1>4, GrownSettles
<1>6. Going(r) = Going(tr) \ {n}
  BY <1>2, <1>4 DEF Going, Settles
<1> QED
  BY <1>2, <1>4, <1>5, <1>6 DEF r

LEMMA GrownAttach ==
  ASSUME NEW tr \in StatusTree, NEW om \in SUBSET Tasks, Grown(tr, om),
         NEW p \in Node \cup {Run}, ~Absent(tr, p),
         NEW n \in Below(p), Absent(tr, n), p \notin om \/ n \in Contexts
  PROVE  LET r == Attach(tr, p, n, "RUNNING")
         IN  /\ r \in StatusTree /\ Grown(r, om) /\ Going(r) = Going(tr) \cup {n}
             /\ r.locked = tr.locked
             /\ \A m \in Node \cup {Run} : m # n => r.status[m] = tr.status[m]
             /\ ~Absent(r, n)
<1> DEFINE r == Attach(tr, p, n, "RUNNING")
<1>1. /\ n \in Node /\ n # p /\ n # Run
      /\ \A q \in Node \cup {Run} : n \in Below(q) => q = p
  BY BelowPlace, Basics
<1>2. /\ r \in StatusTree /\ r.steps = tr.steps /\ r.locked = tr.locked
      /\ \A m \in Node \cup {Run} :
           /\ r.status[m] = IF m = n THEN "RUNNING" ELSE tr.status[m]
           /\ r.subTasks[m] = IF m = p THEN Append(tr.subTasks[p], n) ELSE tr.subTasks[m]
  <2>1. "RUNNING" \in Status
    BY DEF Status
  <2> QED
    BY ONLY <1>1, <2>1, tr \in StatusTree, p \in Node \cup {Run}, AttachTree
<1> HIDE DEF r
<1>3. \A m \in Node \cup {Run} : Absent(r, m) <=> Absent(tr, m) /\ m # n
  BY <1>2 DEF Absent
<1>4. n \notin tr.locked
  BY DEF Grown, Absent
<1>5. ASSUME NEW q \in Node \cup {Run}
      PROVE  /\ IsInjective(r.subTasks[q])
             /\ ToSet(r.subTasks[q]) = {m \in Below(q) : ~Absent(r, m)}
  <2>0. \A m \in Below(q) : m \in Node
    BY BelowPlace
  <2>1. CASE q = p
    <3>1. /\ IsInjective(tr.subTasks[p]) /\ tr.subTasks[p] \in Seq(Node)
          /\ ToSet(tr.subTasks[p]) = {m \in Below(p) : ~Absent(tr, m)}
      BY TreeParts DEF Grown
    <3>2. /\ IsInjective(Append(tr.subTasks[p], n))
          /\ ToSet(Append(tr.subTasks[p], n)) = ToSet(tr.subTasks[p]) \cup {n}
      BY <1>1, <3>1, Appending
    <3> QED
      BY <1>2, <1>3, <2>0, <2>1, <3>1, <3>2
  <2>2. CASE q # p
    <3>1. n \notin Below(q)
      BY <1>1, <2>2
    <3>2. \A m \in Below(q) : Absent(r, m) <=> Absent(tr, m)
      BY <1>3, <2>0, <3>1
    <3> QED
      BY <1>2, <2>2, <3>2 DEF Grown
  <2> QED
    BY <2>1, <2>2
<1>6. \A m \in r.locked : r.status[m] \notin {"ABSENT", "RUNNING"}
  BY <1>2, <1>4, TreeParts DEF Grown
<1>7. ASSUME NEW t \in Tasks, NEW m \in Below(t), ~Absent(r, m) PROVE ~Absent(r, t)
  <2>1. m \in Node /\ t \in Node
    BY BelowPlace, Basics
  <2>2. CASE m = n
    BY <1>1, <1>3, <2>1, <2>2
  <2>3. CASE m # n
    BY <1>3, <1>7, <2>1, <2>3 DEF Grown
  <2> QED
    BY <2>2, <2>3
<1>8. ASSUME NEW t \in Tasks
      PROVE  /\ \A c \in ToSet(Children[t]) : c \in Node /\ c \in Below(t)
             /\ \A c \in ToSet(Scopes[t]) : c \in Node
             /\ t \in Node /\ t # Run
  BY Basics DEF ToSet, Below
<1>9. ASSUME NEW t \in om PROVE ~Absent(r, t) /\ \A c \in ToSet(Children[t]) : Absent(r, c)
  <2>1. \A c \in ToSet(Children[t]) : c \in Tasks
    BY Basics DEF ToSet
  <2>2. \A c \in ToSet(Children[t]) : c # n
    BY <1>1, <1>8, <2>1, Basics
  <2> QED
    BY <1>3, <1>8, <2>2 DEF Grown
<1>10. \A t \in Tasks \cap r.locked : Done(r, om, t)
  BY <1>2, <1>3, <1>8 DEF Done, Grown
<1>11. r.steps[Run] = {} /\ ~Absent(r, Run) /\ (Run \notin r.locked => r.status[Run] = "RUNNING")
  BY <1>1, <1>2, <1>3 DEF Grown
<1>12. Grown(r, om)
  BY <1>5, <1>6, <1>7, <1>9, <1>10, <1>11 DEF Grown
<1>13. Going(r) = Going(tr) \cup {n}
  BY <1>1, <1>2, <1>3, <1>4 DEF Going
<1> QED
  BY <1>1, <1>2, <1>3, <1>12, <1>13 DEF r

\* Reporting what did not run.

\* Nodes that did not run are reported as skipped, in place of nothing, below t.
Fills(tr, r, t) ==
  /\ \A m \in Node \cup {Run} : ~Absent(tr, m) => r.status[m] = tr.status[m]
  /\ \A m \in Node : Absent(tr, m) /\ ~Absent(r, m) =>
       /\ r.status[m] = "SKIPPED"
       /\ \A u \in Tasks : m \in ToSet(Children[u]) => u = t \/ Absent(tr, u)
  /\ Going(r) = Going(tr)
  /\ tr.locked \subseteq r.locked
  /\ \A m \in r.locked \ tr.locked : m \in Node /\ Absent(tr, m) /\ r.status[m] = "SKIPPED"

LEMMA FillsMore ==
  ASSUME NEW tr \in StatusTree, NEW q \in StatusTree, NEW r \in StatusTree, NEW t \in Tasks,
         Fills(tr, q, t), Fills(q, r, t)
  PROVE  Fills(tr, r, t)
<1>1. \A m \in Node \cup {Run} : ~Absent(tr, m) => ~Absent(q, m) /\ r.status[m] = tr.status[m]
  BY DEF Fills, Absent
<1>2. ASSUME NEW m \in Node, Absent(tr, m), ~Absent(r, m)
      PROVE  /\ r.status[m] = "SKIPPED"
             /\ \A u \in Tasks : m \in ToSet(Children[u]) => u = t \/ Absent(tr, u)
  <2>1. CASE Absent(q, m)
    <3>1. \A u \in Tasks : Absent(q, u) => Absent(tr, u)
      BY <1>1, Basics
    <3> QED
      BY <1>2, <2>1, <3>1 DEF Fills
  <2>2. CASE ~Absent(q, m)
    BY <1>2, <2>2 DEF Fills
  <2> QED
    BY <2>1, <2>2
<1>3. \A m \in r.locked \ tr.locked : m \in Node /\ Absent(tr, m) /\ r.status[m] = "SKIPPED"
  <2> SUFFICES ASSUME NEW m \in r.locked \ tr.locked
               PROVE  m \in Node /\ Absent(tr, m) /\ r.status[m] = "SKIPPED"
    OBVIOUS
  <2>1. CASE m \in q.locked
    <3>1. m \in Node /\ Absent(tr, m) /\ q.status[m] = "SKIPPED"
      BY <2>1 DEF Fills
    <3> QED
      BY <3>1 DEF Fills, Absent
  <2>2. CASE m \notin q.locked
    <3>1. m \in Node /\ Absent(q, m) /\ r.status[m] = "SKIPPED"
      BY <2>2 DEF Fills
    <3> QED
      BY <1>1, <3>1
  <2> QED
    BY <2>1, <2>2
<1> QED
  BY <1>1, <1>2, <1>3 DEF Fills

\* What is not reported under a task that is itself not reported.
LEMMA AbsentBranch ==
  ASSUME NEW tr \in StatusTree, NEW om, Grown(tr, om), NEW x \in Tasks, Absent(tr, x)
  PROVE  \A u \in Subtree(x) : Absent(tr, u) /\ \A n \in Below(u) : Absent(tr, n)
<1> DEFINE S == {u \in Tasks : Absent(tr, u)}
<1>1. Closed(S)
  <2> SUFFICES ASSUME NEW u \in S, NEW c \in ToSet(Children[u]) PROVE c \in S
    BY DEF Closed
  <2>1. c \in Tasks /\ c \in Below(u) /\ u \in Tasks /\ Absent(tr, u)
    BY Basics DEF ToSet, Below
  <2> QED
    BY <2>1 DEF Grown
<1>2. Subtree(x) \subseteq S
  BY <1>1, SubtreeLeast
<1>3. \A u \in S : \A n \in Below(u) : Absent(tr, n)
  BY DEF Grown
<1> QED
  BY <1>2, <1>3

\* The branches of some children of t.
Branches(ts) == UNION {Subtree(x) : x \in ToSet(ts)}
Whole(ts) == Branches(ts) \cup UNION {ToSet(Scopes[u]) : u \in Branches(ts)}

LEMMA BranchPlaces ==
  ASSUME NEW t \in Tasks, NEW ts, ToSet(ts) \subseteq ToSet(Children[t]), t \notin Branches(ts)
  PROVE  /\ Branches(ts) \subseteq Tasks /\ ToSet(ts) \subseteq Branches(ts)
         /\ Whole(ts) \subseteq Node
         /\ \A u \in Branches(ts) : Below(u) \subseteq Whole(ts)
         /\ \A q \in Node \cup {Run} : \A n \in Below(q) \cap Whole(ts) :
              q \in Branches(ts) \/ (q = t /\ n \in ToSet(ts))
<1> USE Basics
<1>1. \A x \in ToSet(ts) : x \in Tasks /\ x # Root /\ x \in ToSet(Children[t])
  <2>1. \A x \in ToSet(Children[t]) : x \in Tasks
    BY DEF ToSet
  <2>2. Root \notin ToSet(Children[t])
    BY TreeAssumption
  <2> QED
    BY <2>1, <2>2
<1>2. \A x \in ToSet(ts) : Subtree(x) \subseteq Tasks /\ x \in Subtree(x) /\ Closed(Subtree(x))
  BY <1>1, SubtreeLeast
<1>3. Branches(ts) \subseteq Tasks /\ ToSet(ts) \subseteq Branches(ts)
  BY <1>2 DEF Branches
<1>4. Whole(ts) \subseteq Node
  BY <1>3 DEF Whole, ToSet, Node
<1>5. ASSUME NEW u \in Branches(ts) PROVE Below(u) \subseteq Whole(ts)
  <2>1. PICK x \in ToSet(ts) : u \in Subtree(x)
    BY DEF Branches
  <2>2. ToSet(Children[u]) \subseteq Subtree(x)
    BY <1>2, <2>1 DEF Closed
  <2> QED
    BY <1>3, <2>2 DEF Below, Whole, Branches
<1>6. ASSUME NEW q \in Node \cup {Run}, NEW n \in Below(q), n \in Branches(ts)
      PROVE  q \in Branches(ts) \/ (q = t /\ n \in ToSet(ts))
  <2>1. PICK x \in ToSet(ts) : n \in Subtree(x)
    BY <1>6 DEF Branches
  <2>2. CASE n = x
    <3>1. x \in Below(t) /\ t \in Node \cup {Run}
      BY <1>1 DEF Below
    <3> QED
      BY <1>1, <2>1, <2>2, <3>1, BelowPlace
  <2>3. CASE n # x /\ q = Run
    <3>1. n = Root
      BY <2>3 DEF Below
    <3>2. Closed(Subtree(x) \ {Root})
      BY <1>2, TreeAssumption DEF Closed
    <3>3. Subtree(x) \subseteq Subtree(x) \ {Root}
      BY <1>1, <1>2, <3>2, SubtreeLeast
    <3> QED
      BY <2>1, <3>1, <3>3
  <2>4. CASE n # x /\ q # Run
    <3>1. q \in Tasks /\ n \in ToSet(Scopes[q]) \cup ToSet(Children[q])
      BY <2>4 DEF Below
    <3>2. n \in Tasks
      BY <1>3, <1>6
    <3>3. n \in ToSet(Children[q])
      BY <3>1, <3>2 DEF ToSet
    <3>4. q \in Subtree(x)
      BY <1>1, <2>1, <2>4, <3>1, <3>3, ParentInside
    <3> QED
      BY <3>4 DEF Branches
  <2> QED
    BY <2>2, <2>3, <2>4
<1>7. ASSUME NEW q \in Node \cup {Run}, NEW n \in Below(q), n \in Whole(ts), n \notin Branches(ts)
      PROVE  q \in Branches(ts)
  <2>1. PICK u \in Branches(ts) : n \in ToSet(Scopes[u])
    BY <1>7 DEF Whole
  <2>2. u \in Tasks /\ n \in Below(u) /\ u \in Node \cup {Run}
    BY <1>3, <2>1 DEF Below
  <2> QED
    BY <2>2, BelowPlace
<1> QED
  BY <1>3, <1>4, <1>5, <1>6, <1>7

LEMMA SkipTree ==
  ASSUME NEW tr \in StatusTree, NEW t \in Tasks, NEW ts \in Seq(Tasks),
         Branches(ts) \subseteq Tasks, Whole(ts) \subseteq Node
  PROVE  LET r == SkipTasks(tr, t, ts)
         IN  /\ r \in StatusTree /\ r.steps = tr.steps /\ r.locked = tr.locked \cup Whole(ts)
             /\ \A m \in Node \cup {Run} :
                  /\ r.status[m] = IF m \in Whole(ts) THEN "SKIPPED" ELSE tr.status[m]
                  /\ r.subTasks[m] = IF m \in Branches(ts) THEN Scopes[m] \o Children[m]
                                     ELSE IF m = t THEN tr.subTasks[m] \o ts ELSE tr.subTasks[m]
<1> DEFINE r == SkipTasks(tr, t, ts)
           B == Branches(ts)  W == Whole(ts)
           S == [n \in DOMAIN tr.status |-> IF n \in W THEN "SKIPPED" ELSE tr.status[n]]
           T == [n \in DOMAIN tr.subTasks |-> IF n \in B THEN Scopes[n] \o Children[n]
                       ELSE IF n = t THEN tr.subTasks[n] \o ts ELSE tr.subTasks[n]]
<1>1. r = [tr EXCEPT !.status = S, !.subTasks = T, !.locked = tr.locked \cup W]
  BY Zenon DEF SkipTasks, Branches, Whole
<1> HIDE DEF r, B, W
<1>2. /\ DOMAIN tr.status = Node \cup {Run} /\ DOMAIN tr.subTasks = Node \cup {Run}
  BY TreeParts
<1>3. S \in [Node \cup {Run} -> Status \cup {"ABSENT"}]
  <2>1. "SKIPPED" \in Status
    BY DEF Status
  <2> QED
    BY <1>2, <2>1, TreeParts
<1>4. ASSUME NEW n \in Node \cup {Run} PROVE T[n] \in Seq(Node)
  <2>1. tr.subTasks[n] \in Seq(Node) /\ tr.subTasks[n] \o ts \in Seq(Node)
    <3>1. tr.subTasks[n] \in Seq(Node) /\ ts \in Seq(Node)
      BY TreeParts, Basics
    <3> QED
      BY <3>1
  <2>2. ASSUME n \in B PROVE Scopes[n] \o Children[n] \in Seq(Node)
    <3>1. n \in Tasks
      BY <2>2 DEF B
    <3>2. Scopes[n] \in Seq(Node) /\ Children[n] \in Seq(Node)
      BY <3>1, Basics
    <3> QED
      BY <3>2
  <2> QED
    BY <1>2, <2>1, <2>2
<1>5. T \in [Node \cup {Run} -> Seq(Node)]
  <2> HIDE DEF T
  <2>1. T = [n \in Node \cup {Run} |-> T[n]]
    BY <1>2 DEF T
  <2> QED
    BY <1>4, <2>1
<1> HIDE DEF S, T
<1>6. /\ r.status = S /\ r.subTasks = T /\ r.steps = tr.steps /\ r.locked = tr.locked \cup W
      /\ DOMAIN r = {"status", "subTasks", "steps", "locked"} /\ r = [x \in DOMAIN r |-> r[x]]
  BY <1>1 DEF StatusTree
<1>7. r \in StatusTree
  <2>1. r.locked \subseteq Node \cup {Run}
    BY <1>6, TreeParts DEF W
  <2> QED
    BY <1>3, <1>5, <1>6, <2>1, TreeParts, TreeMade
<1> QED
  BY <1>2, <1>6, <1>7 DEF r, B, W, S, T

LEMMA GrownSkip ==
  ASSUME NEW tr \in StatusTree, NEW om \in SUBSET Tasks, Grown(tr, om),
         NEW t \in Tasks, ~Absent(tr, t), t \notin om,
         NEW ts \in Seq(Tasks), IsInjective(ts), ToSet(ts) \subseteq ToSet(Children[t]),
         \A x \in ToSet(ts) : Absent(tr, x)
  PROVE  LET r == SkipTasks(tr, t, ts)
         IN  /\ r \in StatusTree /\ Grown(r, om) /\ Fills(tr, r, t)
             /\ \A x \in ToSet(ts) : ~Absent(r, x)
<1> USE Basics
<1> DEFINE r == SkipTasks(tr, t, ts)
           B == Branches(ts)  W == Whole(ts)
<1>1. \A x \in ToSet(ts) : x \in Tasks
  BY DEF ToSet
<1>2. \A u \in B : Absent(tr, u) /\ \A n \in Below(u) : Absent(tr, n)
  BY <1>1, AbsentBranch DEF Branches
<1>3. t \notin B
  BY <1>2
<1>4. /\ B \subseteq Tasks /\ ToSet(ts) \subseteq B /\ W \subseteq Node
      /\ \A u \in B : Below(u) \subseteq W
      /\ \A q \in Node \cup {Run} : \A n \in Below(q) \cap W : q \in B \/ (q = t /\ n \in ToSet(ts))
  BY <1>3, BranchPlaces
<1>5. B \subseteq W
  BY DEF Whole
<1>6. \A n \in W : Absent(tr, n)
  <2>1. \A u \in B : \A n \in ToSet(Scopes[u]) : n \in Below(u)
    BY <1>4 DEF Below
  <2> QED
    BY <1>2, <2>1 DEF Whole
<1>7. /\ r \in StatusTree /\ r.steps = tr.steps /\ r.locked = tr.locked \cup W
      /\ \A m \in Node \cup {Run} :
           /\ r.status[m] = IF m \in W THEN "SKIPPED" ELSE tr.status[m]
           /\ r.subTasks[m] = IF m \in B THEN Scopes[m] \o Children[m]
                              ELSE IF m = t THEN tr.subTasks[m] \o ts ELSE tr.subTasks[m]
  BY <1>4, SkipTree
<1> HIDE DEF r, B, W
<1>8. \A m \in Node \cup {Run} : Absent(r, m) <=> Absent(tr, m) /\ m \notin W
  BY <1>7 DEF Absent
<1>9. W \cap tr.locked = {} /\ tr.locked \subseteq Node \cup {Run}
  BY <1>6, TreeParts DEF Grown, Absent
<1>10. ASSUME NEW q \in Node \cup {Run}
       PROVE  /\ IsInjective(r.subTasks[q])
              /\ ToSet(r.subTasks[q]) = {m \in Below(q) : ~Absent(r, m)}
  <2>0. \A m \in Below(q) : m \in Node
    BY BelowPlace
  <2>1. CASE q \in B
    <3>1. q \in Tasks /\ Below(q) = ToSet(Scopes[q]) \cup ToSet(Children[q]) /\ Below(q) \subseteq W
      BY <1>4, <2>1 DEF Below
    <3>2. /\ Scopes[q] \in Seq(Node) /\ Children[q] \in Seq(Node)
          /\ IsInjective(Scopes[q]) /\ IsInjective(Children[q])
          /\ ToSet(Scopes[q]) \cap ToSet(Children[q]) = {}
      BY <3>1 DEF ToSet
    <3>3. /\ IsInjective(Scopes[q] \o Children[q])
          /\ ToSet(Scopes[q] \o Children[q]) = ToSet(Scopes[q]) \cup ToSet(Children[q])
      BY <3>2, Listing
    <3> QED
      BY <1>7, <1>8, <2>0, <2>1, <3>1, <3>3
  <2>2. CASE q = t
    <3>1. /\ IsInjective(tr.subTasks[t]) /\ tr.subTasks[t] \in Seq(Node) /\ ts \in Seq(Node)
          /\ ToSet(tr.subTasks[t]) = {m \in Below(t) : ~Absent(tr, m)}
      BY TreeParts DEF Grown
    <3>2. /\ IsInjective(tr.subTasks[t] \o ts)
          /\ ToSet(tr.subTasks[t] \o ts) = ToSet(tr.subTasks[t]) \cup ToSet(ts)
      BY <3>1, Listing
    <3>3. ToSet(ts) \subseteq Below(t) \cap W
      BY <1>4, <1>5 DEF Below
    <3>4. \A m \in Below(t) \cap W : m \in ToSet(ts)
      BY <1>3, <1>4 DEF B
    <3>5. \A m \in Below(t) : Absent(r, m) <=> Absent(tr, m) /\ m \notin ToSet(ts)
      BY <1>8, <2>0, <2>2, <3>3, <3>4
    <3> QED
      BY <1>3, <1>7, <2>2, <3>1, <3>2, <3>3, <3>5
  <2>3. CASE q \notin B /\ q # t
    <3>1. \A m \in Below(q) : Absent(r, m) <=> Absent(tr, m)
      BY <1>4, <1>8, <2>0, <2>3
    <3> QED
      BY <1>7, <2>3, <3>1 DEF Grown
  <2> QED
    BY <2>1, <2>2, <2>3
<1>11. \A m \in r.locked : r.status[m] \notin {"ABSENT", "RUNNING"}
  BY <1>4, <1>7, <1>9 DEF Grown
<1>12. ASSUME NEW u \in Tasks, NEW m \in Below(u), ~Absent(r, m) PROVE ~Absent(r, u)
  <2>1. m \in Node /\ u \in Node
    BY BelowPlace
  <2>2. CASE m \in W
    <3>1. u \in B \/ u = t
      BY <1>4, <2>1, <2>2
    <3> QED
      BY <1>5, <1>8, <2>1, <3>1
  <2>3. CASE m \notin W
    <3>1. ~Absent(tr, m)
      BY <1>8, <1>12, <2>1, <2>3
    <3>2. ~Absent(tr, u)
      BY <3>1 DEF Grown
    <3> QED
      BY <1>8, <2>1, <3>2
  <2> QED
    BY <2>2, <2>3
<1>13. ASSUME NEW u \in Tasks
       PROVE  /\ \A c \in ToSet(Children[u]) : c \in Node /\ c \in Below(u)
              /\ \A c \in ToSet(Scopes[u]) : c \in Node /\ c \in Below(u)
              /\ u \in Node /\ u # Run
  BY DEF ToSet, Below
<1>14. ASSUME NEW u \in om PROVE ~Absent(r, u) /\ \A c \in ToSet(Children[u]) : Absent(r, c)
  <2>1. ~Absent(tr, u) /\ u # t /\ u \in Tasks
    BY DEF Grown
  <2>2. u \notin B
    BY <1>5, <1>6, <2>1
  <2>3. \A c \in ToSet(Children[u]) : c \notin W
    BY <1>4, <1>13, <2>1, <2>2
  <2> QED
    BY <1>8, <1>13, <2>1, <2>3 DEF Grown
<1>15. ASSUME NEW u \in Tasks \cap r.locked PROVE Done(r, om, u)
  <2>1. CASE u \in tr.locked
    <3>1. Done(tr, om, u)
      BY <2>1 DEF Grown
    <3> QED
      BY <1>8, <1>13, <3>1 DEF Done
  <2>2. CASE u \notin tr.locked
    <3>1. u \in W
      BY <1>7, <2>2
    <3>2. u \in B
      <4>1. u \in B \/ \E v \in B : u \in ToSet(Scopes[v])
        BY <3>1 DEF W, B, Whole
      <4>2. \A v \in Tasks : \A n \in ToSet(Scopes[v]) : n \in Contexts
        BY DEF ToSet
      <4> QED
        BY <1>4, <4>1, <4>2
    <3> QED
      BY <1>4, <1>8, <1>13, <3>2 DEF Done
  <2> QED
    BY <2>1, <2>2
<1>16. r.steps[Run] = {} /\ ~Absent(r, Run) /\ (Run \notin r.locked => r.status[Run] = "RUNNING")
  BY <1>4, <1>7, <1>8 DEF Grown
<1>17. Grown(r, om)
  BY <1>10, <1>11, <1>12, <1>14, <1>15, <1>16 DEF Grown
<1>18. Fills(tr, r, t)
  <2>1. ASSUME NEW m \in Node, Absent(tr, m), ~Absent(r, m)
        PROVE  /\ r.status[m] = "SKIPPED"
               /\ \A u \in Tasks : m \in ToSet(Children[u]) => u = t \/ Absent(tr, u)
    <3>1. m \in W
      BY <1>8, <2>1
    <3> QED
      BY <1>2, <1>4, <1>7, <1>13, <3>1 DEF B
  <2>2. Going(r) = Going(tr)
    BY <1>6, <1>7, <1>8 DEF Going
  <2>3. \A m \in Node \cup {Run} : ~Absent(tr, m) => r.status[m] = tr.status[m]
    BY <1>6, <1>7
  <2>4. tr.locked \subseteq r.locked
    BY <1>7
  <2>5. \A m \in r.locked \ tr.locked : m \in Node /\ Absent(tr, m) /\ r.status[m] = "SKIPPED"
    BY <1>4, <1>6, <1>7
  <2> QED
    BY <2>1, <2>2, <2>3, <2>4, <2>5 DEF Fills
<1>19. \A x \in ToSet(ts) : ~Absent(r, x)
  BY <1>1, <1>4, <1>5, <1>8
<1> QED
  BY <1>7, <1>17, <1>18, <1>19 DEF r

\* A task's contexts that never ran.
SkipScopes(tr, t, ts) ==
  [tr EXCEPT
     !.status = [n \in DOMAIN @ |-> IF n \in ToSet(ts) THEN "SKIPPED" ELSE @[n]],
     !.subTasks[t] = @ \o ts,
     !.locked = @ \cup ToSet(ts)]

LEMMA GrownScopes ==
  ASSUME NEW tr \in StatusTree, NEW om \in SUBSET Tasks, Grown(tr, om),
         NEW t \in Tasks, ~Absent(tr, t),
         NEW ts \in Seq(Contexts), IsInjective(ts), ToSet(ts) \subseteq ToSet(Scopes[t]),
         \A x \in ToSet(ts) : Absent(tr, x)
  PROVE  LET r == SkipScopes(tr, t, ts)
         IN  /\ r \in StatusTree /\ Grown(r, om) /\ Fills(tr, r, t)
             /\ \A x \in ToSet(ts) : ~Absent(r, x)
             /\ \A n \in Tasks : r.status[n] = tr.status[n]
<1> USE Basics
<1> DEFINE r == SkipScopes(tr, t, ts)  W == ToSet(ts)
           S == [n \in DOMAIN tr.status |-> IF n \in W THEN "SKIPPED" ELSE tr.status[n]]
           T == [tr.subTasks EXCEPT ![t] = tr.subTasks[t] \o ts]
<1>1. W \subseteq Contexts /\ W \subseteq Node /\ W \subseteq Below(t)
  <2>1. \A n \in ToSet(ts) : n \in Contexts
    BY DEF ToSet
  <2>2. ToSet(Scopes[t]) \subseteq Below(t)
    BY DEF Below
  <2> QED
    BY <2>1, <2>2
<1>2. r = [tr EXCEPT !.status = S, !.subTasks = T, !.locked = tr.locked \cup W]
  BY Zenon DEF SkipScopes
<1>3. \A n \in W : Absent(tr, n)
  OBVIOUS
<1> HIDE DEF r, W
<1>4. DOMAIN tr.status = Node \cup {Run} /\ DOMAIN tr.subTasks = Node \cup {Run}
  BY TreeParts
<1>5. S \in [Node \cup {Run} -> Status \cup {"ABSENT"}]
  <2>1. "SKIPPED" \in Status
    BY DEF Status
  <2> QED
    BY <1>4, <2>1, TreeParts
<1>6. T \in [Node \cup {Run} -> Seq(Node)]
  <2>1. tr.subTasks[t] \in Seq(Node) /\ ts \in Seq(Node)
    BY TreeParts
  <2>2. tr.subTasks[t] \o ts \in Seq(Node)
    BY <2>1
  <2> QED
    BY <2>2, TreeParts
<1>7. \A m \in Node \cup {Run} :
        /\ S[m] = IF m \in W THEN "SKIPPED" ELSE tr.status[m]
        /\ T[m] = IF m = t THEN tr.subTasks[t] \o ts ELSE tr.subTasks[m]
  BY <1>4
<1> HIDE DEF S, T
<1>8. /\ r.status = S /\ r.subTasks = T /\ r.steps = tr.steps /\ r.locked = tr.locked \cup W
      /\ DOMAIN r = {"status", "subTasks", "steps", "locked"} /\ r = [x \in DOMAIN r |-> r[x]]
  BY <1>2 DEF StatusTree
<1>9. r \in StatusTree
  <2>1. r.locked \subseteq Node \cup {Run}
    BY <1>1, <1>8, TreeParts
  <2> QED
    BY <1>5, <1>6, <1>8, <2>1, TreeParts, TreeMade
<1>10. \A m \in Node \cup {Run} : Absent(r, m) <=> Absent(tr, m) /\ m \notin W
  BY <1>7, <1>8 DEF Absent
<1>11. W \cap tr.locked = {} /\ tr.locked \subseteq Node \cup {Run}
  BY <1>3, TreeParts DEF Grown, Absent
<1>12. \A q \in Node \cup {Run} : \A n \in Below(q) \cap W : q = t
  BY <1>1, BelowPlace
<1>13. ASSUME NEW q \in Node \cup {Run}
       PROVE  /\ IsInjective(r.subTasks[q])
              /\ ToSet(r.subTasks[q]) = {m \in Below(q) : ~Absent(r, m)}
  <2>0. \A m \in Below(q) : m \in Node
    BY BelowPlace
  <2>1. CASE q = t
    <3>1. /\ IsInjective(tr.subTasks[t]) /\ tr.subTasks[t] \in Seq(Node) /\ ts \in Seq(Node)
          /\ ToSet(tr.subTasks[t]) = {m \in Below(t) : ~Absent(tr, m)}
      BY TreeParts DEF Grown
    <3>2. /\ IsInjective(tr.subTasks[t] \o ts)
          /\ ToSet(tr.subTasks[t] \o ts) = ToSet(tr.subTasks[t]) \cup W
      BY <1>3, <3>1, Listing DEF W
    <3> QED
      BY <1>1, <1>7, <1>8, <1>10, <2>0, <2>1, <3>1, <3>2
  <2>2. CASE q # t
    <3>1. \A m \in Below(q) : Absent(r, m) <=> Absent(tr, m)
      BY <1>10, <1>12, <2>0, <2>2
    <3> QED
      BY <1>7, <1>8, <2>2, <3>1 DEF Grown
  <2> QED
    BY <2>1, <2>2
<1>14. \A m \in r.locked : r.status[m] \notin {"ABSENT", "RUNNING"}
  BY <1>1, <1>7, <1>8, <1>11 DEF Grown
<1>15. ASSUME NEW u \in Tasks, NEW m \in Below(u), ~Absent(r, m) PROVE ~Absent(r, u)
  <2>1. m \in Node /\ u \in Node /\ u \notin W
    BY <1>1, BelowPlace
  <2>2. ~Absent(tr, u)
    BY <1>10, <1>12, <1>15, <2>1 DEF Grown
  <2> QED
    BY <1>10, <2>1, <2>2
<1>16. ASSUME NEW u \in Tasks
       PROVE  /\ \A c \in ToSet(Children[u]) : c \in Node /\ c \notin W
              /\ \A c \in ToSet(Scopes[u]) : c \in Node
              /\ u \in Node /\ u \notin W /\ u # Run
  BY <1>1 DEF ToSet
<1>17. \A u \in om : ~Absent(r, u) /\ \A c \in ToSet(Children[u]) : Absent(r, c)
  BY <1>10, <1>16 DEF Grown
<1>18. \A u \in Tasks \cap r.locked : Done(r, om, u)
  <2> SUFFICES ASSUME NEW u \in Tasks \cap r.locked PROVE Done(r, om, u)
    OBVIOUS
  <2>1. Done(tr, om, u)
    BY <1>8, <1>16 DEF Grown
  <2> QED
    BY <1>10, <1>16, <2>1, <1>1 DEF Done, ToSet
<1>19. r.steps[Run] = {} /\ ~Absent(r, Run) /\ (Run \notin r.locked => r.status[Run] = "RUNNING")
  BY <1>1, <1>7, <1>8, <1>10 DEF Grown
<1>20. Grown(r, om)
  BY <1>13, <1>14, <1>15, <1>17, <1>18, <1>19 DEF Grown
<1>21. Going(r) = Going(tr)
  BY <1>3, <1>8, <1>10 DEF Going
<1>22. Fills(tr, r, t)
  BY <1>1, <1>3, <1>7, <1>8, <1>10, <1>16, <1>21 DEF Fills
<1>23. \A n \in Tasks : r.status[n] = tr.status[n]
  BY <1>7, <1>8, <1>16
<1> QED
  BY <1>1, <1>9, <1>10, <1>20, <1>22, <1>23 DEF r, W

LEMMA GrownUnexecuted ==
  ASSUME NEW tr \in StatusTree, omitted \in SUBSET Tasks, Grown(tr, omitted),
         NEW t \in Tasks, ~Absent(tr, t)
  PROVE  LET r == AddUnexecuted(tr, t)
         IN  r \in StatusTree /\ Grown(r, omitted) /\ Fills(tr, r, t) /\ Done(r, omitted, t)
<1> DEFINE reported == ToSet(tr.subTasks[t])
           scopes == Unreported(Scopes[t], reported)
           children == Unreported(Children[t], reported)
           opened == SkipScopes(tr, t, scopes)
           r == AddUnexecuted(tr, t)
<1>1. r = IF t \in omitted THEN opened ELSE SkipTasks(opened, t, children)
  BY DEF AddUnexecuted, SkipScopes
<1>2. reported = {m \in Below(t) : ~Absent(tr, m)} /\ t \in Node
  BY Basics DEF Grown
<1>3. /\ scopes \in Seq(Contexts) /\ IsInjective(scopes) /\ ToSet(scopes) = ToSet(Scopes[t]) \ reported
      /\ children \in Seq(Tasks) /\ IsInjective(children) /\ ToSet(children) = ToSet(Children[t]) \ reported
  BY Basics, Remaining
<1>4. ToSet(Scopes[t]) \subseteq Below(t) /\ ToSet(Children[t]) \subseteq Below(t)
  BY Basics DEF Below
<1> HIDE DEF r, reported, scopes, children
<1>5. /\ opened \in StatusTree /\ Grown(opened, omitted) /\ Fills(tr, opened, t)
      /\ \A x \in ToSet(scopes) : ~Absent(opened, x)
      /\ \A n \in Tasks : opened.status[n] = tr.status[n]
  <2>1. ToSet(scopes) \subseteq ToSet(Scopes[t]) /\ \A x \in ToSet(scopes) : Absent(tr, x)
    BY <1>2, <1>3, <1>4
  <2> QED
    BY <1>3, <2>1, GrownScopes
<1> HIDE DEF opened
<1>6. \A n \in Node : ~Absent(tr, n) => ~Absent(opened, n)
  BY <1>5 DEF Fills, Absent
<1>7. \A n \in ToSet(Scopes[t]) : ~Absent(opened, n)
  <2>1. \A n \in ToSet(Scopes[t]) : n \in Node
    BY Basics DEF ToSet
  <2> QED
    BY <1>2, <1>3, <1>4, <1>5, <1>6, <2>1
<1>8. CASE t \in omitted
  BY <1>1, <1>5, <1>7, <1>8 DEF Done, r
<1>9. CASE t \notin omitted
  <2>1. ToSet(children) \subseteq ToSet(Children[t]) /\ ~Absent(opened, t)
    BY <1>2, <1>3, <1>6
  <2>2. \A x \in ToSet(children) : Absent(opened, x)
    <3>1. \A x \in ToSet(Children[t]) : x \in Tasks
      BY Basics DEF ToSet
    <3> QED
      BY <1>2, <1>3, <1>4, <1>5, <3>1 DEF Absent
  <2>3. /\ r \in StatusTree /\ Grown(r, omitted) /\ Fills(opened, r, t)
        /\ \A x \in ToSet(children) : ~Absent(r, x)
    BY <1>1, <1>3, <1>5, <1>9, <2>1, <2>2, GrownSkip
  <2>4. \A n \in Node : ~Absent(opened, n) => ~Absent(r, n)
    BY <2>3 DEF Fills, Absent
  <2>5. Done(r, omitted, t)
    <3>1. \A n \in ToSet(Scopes[t]) : ~Absent(r, n)
      BY <1>7, <2>4, Basics DEF ToSet
    <3>2. \A c \in ToSet(Children[t]) : c \in Tasks /\ (c \in ToSet(children) \/ ~Absent(tr, c))
      BY <1>2, <1>3, <1>4, Basics DEF ToSet
    <3> QED
      BY <1>6, <2>3, <2>4, <3>1, <3>2, Basics DEF Done
  <2>6. Fills(tr, r, t)
    BY <1>5, <2>3, FillsMore
  <2> QED
    BY <2>3, <2>5, <2>6 DEF r
<1> QED
  BY <1>8, <1>9

----------------------------------------------------------------------------
\* How the recursion moves.

Twin(a, b) == a.do = b.do /\ a.of = b.of /\ a.index = b.index

\* Under the innermost activation of st only an outcome may be handed over.
Rest(st, s) ==
  \A i \in 1 .. Len(st) - 1 :
    /\ i \in DOMAIN s /\ Twin(s[i], st[i])
    /\ i < Len(s) => s[i].outcome = st[i].outcome

LEMMA Twins ==
  ASSUME NEW a, NEW b, Twin(a, b)
  PROVE  /\ Placed(a) <=> Placed(b)
         /\ \A c : (Follows(a, c) <=> Follows(b, c)) /\ (Follows(c, a) <=> Follows(c, b))
         /\ Naming(a) <=> Naming(b)
         /\ Owning(a) <=> Owning(b)
         /\ NodeOf(a) = NodeOf(b) /\ NamesOf(a) = NamesOf(b) /\ OwnsOf(a) = OwnsOf(b)
         /\ Around(a) = Around(b)
BY DEF Twin, Placed, Follows, Naming, Owning, NodeOf, NamesOf, OwnsOf, Around

LEMMA Stacks ==
  ASSUME NEW st \in Seq(Activation)
  PROVE  /\ Len(st) \in Nat /\ DOMAIN st = 1 .. Len(st)
         /\ \A i \in DOMAIN st :
              /\ st[i] \in Activation /\ st[i].of \in Tasks /\ st[i].index \in Nat
              /\ st[i].do \in {"start", "task", "open", "enter", "inside", "act", "children"}
              /\ st[i].outcome \in Outcome \cup {"none"}
<1>1. Len(st) \in Nat /\ DOMAIN st = 1 .. Len(st) /\ \A i \in DOMAIN st : st[i] \in Activation
  OBVIOUS
<1>2. \A a \in Activation :
        /\ a.of \in Tasks /\ a.index \in Nat /\ a.outcome \in Outcome \cup {"none"}
        /\ a.do \in {"start", "task", "open", "enter", "inside", "act", "children"}
  BY DEF Activation
<1> QED
  BY <1>1, <1>2

\* Positions in a stack of length n.
LEMMA Under ==
  ASSUME NEW n \in Nat, n > 0
  PROVE  /\ n \in 1 .. n /\ n \in 1 .. n + 1 /\ n + 1 \in 1 .. n + 1
         /\ n < n + 1 /\ n # n + 1 /\ n + 1 # 1 /\ n + 1 - 1 = n /\ ~(n < n) /\ n + 1 > 0
         /\ n - 1 \in Nat /\ n + 1 \in Nat /\ (n - 1 > 0 => n - 1 \in 1 .. n - 1) /\ (n - 1 > 0 <=> n > 1)
         /\ n # 1 => n > 1 /\ n - 1 \in 1 .. n - 1 /\ n - 1 \in 1 .. n /\ n - 1 > 0 /\ n - 1 # 0
         /\ \A i \in 1 .. n : i \in 1 .. n - 1 \/ i = n
         /\ \A i \in 1 .. n + 1 : i \in 1 .. n - 1 \/ i = n \/ i = n + 1
         /\ \A i \in 1 .. n - 1 :
              /\ i \in 1 .. n /\ i \in 1 .. n + 1 /\ i < n /\ i < n + 1 /\ i # n /\ i # n + 1
              /\ i + 1 \in 1 .. n /\ (i + 1 < n \/ i + 1 = n)
              /\ i < n - 1 <=> i + 1 < n
              /\ i + 1 < n => i + 1 \in 1 .. n - 1
         /\ \A i \in 1 .. n : \A j \in 1 .. i - 1 : j \in 1 .. n - 1
         /\ \A i \in 1 .. n + 1 : i < n => i \in 1 .. n - 1
         /\ \A i \in 1 .. n + 1 : \A j \in 1 .. n - 1 : i < j => i \in 1 .. n - 1
         /\ \A i \in 1 .. n + 1 : i < n + 1 => i \in 1 .. n
OBVIOUS

\* What the activations under the innermost one, the L-th of st, keep.
Kept(st, s, L) ==
  /\ \A i \in 1 .. L - 1 :
       /\ i \in DOMAIN st /\ i \in DOMAIN s
       /\ Placed(s[i]) /\ Twin(s[i], st[i])
       /\ i = 1 => s[i].do \in {"start", "task"} /\ s[i].of = Root
       /\ i < Len(s) => s[i].outcome = "none"
       /\ s[i].do \in {"task", "inside", "children"}
       /\ \A n \in Around(s[i]) :
            \E j \in 1 .. i - 1 : Owning(s[j]) /\ NodeOf(s[j]) = n
       /\ Follows(s[i], st[i + 1])
  /\ \A i \in 1 .. L - 1 : i + 1 < L => Follows(s[i], s[i + 1])
  /\ \A i, j \in 1 .. L - 1 :
       i < j /\ s[i].of = s[j].of => s[i].do \in {"task", "inside"}
  /\ \A n \in Around(st[L]) :
       \E j \in 1 .. L - 1 : Owning(s[j]) /\ NodeOf(s[j]) = n

LEMMA RestControl ==
  ASSUME NEW st \in Seq(Activation), Len(st) > 0, NEW v, Control(st, v),
         NEW s \in Seq(Activation), Rest(st, s)
  PROVE  Kept(st, s, Len(st))
<1> DEFINE L == Len(st)
<1>0. L \in Nat /\ L > 0 /\ DOMAIN st = 1 .. L
  BY Stacks
<1>2. /\ Linked(st, v) /\ OneBody(st) /\ Nested(st)
  BY DEF Control
<1> HIDE DEF L
<1>1. /\ \A i \in 1 .. L - 1 :
           i \in DOMAIN st /\ i + 1 \in DOMAIN st /\ i < L /\ (i + 1 < L => i + 1 \in 1 .. L - 1)
      /\ L \in DOMAIN st
      /\ \A i \in DOMAIN st : \A j \in 1 .. i - 1 : j \in 1 .. L - 1
  BY <1>0, Under
<1>3. \A i \in 1 .. L - 1 : i \in DOMAIN s /\ Twin(s[i], st[i]) /\ (i < Len(s) => s[i].outcome = st[i].outcome)
  BY DEF Rest, L
<1>4. ASSUME NEW i \in 1 .. L - 1
      PROVE  /\ Placed(s[i])
             /\ i = 1 => s[i].do \in {"start", "task"} /\ s[i].of = Root
             /\ i < Len(s) => s[i].outcome = "none"
             /\ Follows(s[i], st[i + 1])
             /\ s[i].do \in {"task", "inside", "children"}
  <2>1. /\ Placed(st[i]) /\ st[i].outcome = "none" /\ Follows(st[i], st[i + 1])
        /\ i = 1 => st[i].do \in {"start", "task"} /\ st[i].of = Root
    BY <1>1, <1>2 DEF Linked, L
  <2>2. Twin(s[i], st[i]) /\ (i < Len(s) => s[i].outcome = st[i].outcome)
    BY <1>3
  <2>3. Placed(s[i]) /\ Follows(s[i], st[i + 1])
    BY <2>1, <2>2 DEF Twin, Placed, Follows
  <2>4. s[i].do \in {"task", "inside", "children"}
    BY <2>3 DEF Follows
  <2> QED
    BY <2>1, <2>2, <2>3, <2>4 DEF Twin
<1>5. ASSUME NEW i \in 1 .. L - 1, i + 1 < L PROVE Follows(s[i], s[i + 1])
  <2>1. i + 1 \in 1 .. L - 1
    BY <1>1, <1>5
  <2>2. Twin(s[i + 1], st[i + 1])
    BY <1>3, <2>1
  <2> QED
    BY <1>4, <2>2 DEF Twin, Follows
<1>6. ASSUME NEW i \in DOMAIN st, NEW n \in Around(st[i])
      PROVE  \E j \in 1 .. i - 1 : Owning(s[j]) /\ NodeOf(s[j]) = n
  <2>1. PICK j \in 1 .. i - 1 : Owning(st[j]) /\ NodeOf(st[j]) = n
    BY <1>2 DEF Nested
  <2>2. j \in 1 .. L - 1
    BY <1>1
  <2>3. Twin(s[j], st[j])
    BY <1>3, <2>2
  <2> QED
    BY <2>1, <2>3, Twins
<1>7. ASSUME NEW i \in 1 .. L - 1, NEW n \in Around(s[i])
      PROVE  \E j \in 1 .. i - 1 : Owning(s[j]) /\ NodeOf(s[j]) = n
  <2>1. n \in Around(st[i]) /\ i \in DOMAIN st
    BY <1>1, <1>3, Twins
  <2> QED
    BY <1>6, <2>1
<1>8. \A i, j \in 1 .. L - 1 : i < j /\ s[i].of = s[j].of => s[i].do \in {"task", "inside"}
  <2> SUFFICES ASSUME NEW i \in 1 .. L - 1, NEW j \in 1 .. L - 1, i < j, s[i].of = s[j].of
               PROVE  s[i].do \in {"task", "inside"}
    OBVIOUS
  <2>1. i \in DOMAIN st /\ j \in DOMAIN st /\ Twin(s[i], st[i]) /\ Twin(s[j], st[j])
    BY <1>1, <1>3
  <2> QED
    BY <1>2, <2>1 DEF OneBody, Twin
<1>9. \A n \in Around(st[L]) : \E j \in 1 .. L - 1 : Owning(s[j]) /\ NodeOf(s[j]) = n
  BY <1>1, <1>6
<1> QED
  BY <1>1, <1>3, <1>4, <1>5, <1>7, <1>8, <1>9 DEF L, Kept

LEMMA ControlReturn ==
  ASSUME NEW st \in Seq(Activation), Len(st) > 0, NEW v, Control(st, v),
         NEW s \in Seq(Activation), Len(s) = Len(st) - 1, Rest(st, s),
         NEW o \in Outcome, NEW w,
         Len(s) = 0 => w = o,
         Len(s) > 0 => w = v /\ s[Len(s)].outcome = o
  PROVE  Control(s, w)
<1> DEFINE L == Len(st)
<1>0. /\ L \in Nat /\ L > 0 /\ Len(s) = L - 1 /\ DOMAIN s = 1 .. Len(s) /\ Len(s) \in Nat
      /\ o # "none"
  BY Stacks DEF Outcome
<1>2. Kept(st, s, L)
  BY RestControl
<1>5. w = "none" <=> Len(s) > 0
  <2>1. v = "none"
    BY DEF Control, Linked
  <2>2. Len(s) \in Nat
    BY <1>0
  <2>3. (Len(s) = 0 \/ Len(s) > 0) /\ (Len(s) = 0 => ~(Len(s) > 0))
    BY ONLY <2>2
  <2> QED
    BY <1>0, <2>1, <2>3
<1> HIDE DEF L
<1>1. /\ DOMAIN s = 1 .. L - 1
      /\ \A i \in 1 .. L - 1 : i < L - 1 <=> i + 1 < L
      /\ Len(s) > 0 => Len(s) \in 1 .. L - 1
  BY <1>0, Under
<1>3. Nested(s)
  BY <1>1, <1>2 DEF Nested, Kept
<1>4. OneBody(s)
  BY ONLY <1>1, <1>2, Zenon DEF OneBody, Kept
<1>6. Len(s) > 0 => Innermost(s[Len(s)])
  <2> SUFFICES ASSUME Len(s) > 0 PROVE Innermost(s[Len(s)])
    OBVIOUS
  <2>1. Len(s) \in 1 .. L - 1
    BY <1>1
  <2>2. /\ s[Len(s)].outcome = o /\ s[Len(s)].do \in {"task", "inside", "children"}
        /\ \E c : Follows(s[Len(s)], c)
    BY <1>2, <2>1 DEF Kept
  <2> QED
    BY <1>0, <2>2 DEF Innermost, Follows
<1>7. Linked(s, w)
  BY <1>0, <1>1, <1>2, <1>5, <1>6 DEF Linked, Kept
<1> QED
  BY <1>3, <1>4, <1>7 DEF Control

LEMMA ControlBecome ==
  ASSUME NEW st \in Seq(Activation), Len(st) > 0, NEW v, Control(st, v),
         NEW s \in Seq(Activation), Len(s) = Len(st), Rest(st, s),
         s[Len(st)].of = st[Len(st)].of,
         st[Len(st)].do \in {"open", "enter", "inside", "act", "children"},
         s[Len(st)].do \in {"enter", "inside", "children"},
         Placed(s[Len(st)]), Innermost(s[Len(st)]), Around(s[Len(st)]) = Around(st[Len(st)])
  PROVE  Control(s, v)
<1> DEFINE L == Len(st)
<1>0. /\ L \in Nat /\ L > 0 /\ Len(s) = L /\ DOMAIN s = 1 .. L /\ DOMAIN st = 1 .. L
  BY Stacks
<1>2. Kept(st, s, L)
  BY RestControl
<1>8. /\ L \in DOMAIN st /\ OneBody(st)
      /\ L = 1 => st[L].do \in {"start", "task"}
      /\ v # "none"  => FALSE
  <2>1. L \in DOMAIN st
    BY <1>0, Under
  <2> QED
    BY <2>1 DEF Control, Linked
<1> DEFINE a == s[L]  b == st[L]
<1>9. /\ a.of = b.of /\ b.do \in {"open", "enter", "inside", "act", "children"}
      /\ a.do \in {"enter", "inside", "children"}
      /\ Placed(a) /\ Innermost(a) /\ Around(a) = Around(b)
  OBVIOUS
<1> HIDE DEF L
<1>1. /\ L \in 1 .. L /\ ~(L < L)
      /\ \A i \in 1 .. L : i \in 1 .. L - 1 \/ i = L
      /\ \A i \in 1 .. L - 1 : i < L /\ (i + 1 < L \/ i + 1 = L) /\ i \in 1 .. L
      /\ \A i \in 1 .. L : \A j \in 1 .. L : i < j => i \in 1 .. L - 1
  BY <1>0, Under
<1>3. Nested(s)
  BY <1>0, <1>1, <1>2, <1>9 DEF Nested, Kept
<1>4. OneBody(s)
  <2> SUFFICES ASSUME NEW i \in DOMAIN s, NEW j \in DOMAIN s, i < j, s[i].of = s[j].of
               PROVE  s[i].do \in {"task", "inside"}
    BY DEF OneBody
  <2>1. i \in 1 .. L - 1 /\ i \in DOMAIN st
    BY <1>0, <1>1
  <2>2. CASE j = L
    <3>1. Twin(s[i], st[i])
      BY <1>2, <2>1 DEF Kept
    <3>2. st[i].of = st[L].of /\ i < L
      BY <1>9, <2>2, <3>1 DEF Twin
    <3> QED
      BY <1>8, <2>1, <3>1, <3>2 DEF OneBody, Twin
  <2>3. CASE j # L
    <3>1. j \in 1 .. L - 1
      BY <1>0, <1>1, <2>3
    <3> QED
      BY <1>2, <2>1, <3>1 DEF Kept
  <2> QED
    BY <2>2, <2>3
<1>5. L # 1
  BY <1>8, <1>9
<1>6. \A i \in 1 .. L - 1 : Follows(s[i], s[i + 1])
  <2>1. ASSUME NEW i \in 1 .. L - 1, i + 1 = L PROVE Follows(s[i], s[L])
    <3>1. Follows(s[i], st[L])
      BY <1>2, <2>1 DEF Kept
    <3> QED
      BY <1>9, <3>1 DEF Follows
  <2> QED
    BY <1>1, <1>2, <2>1 DEF Kept
<1>7. Linked(s, v)
  <2>2. ASSUME NEW i \in DOMAIN s
        PROVE  /\ Placed(s[i])
               /\ i = 1 => s[i].do \in {"start", "task"} /\ s[i].of = Root
               /\ i < Len(s) => s[i].outcome = "none" /\ Follows(s[i], s[i + 1])
    <3>1. CASE i \in 1 .. L - 1
      BY <1>0, <1>1, <1>2, <1>6, <3>1 DEF Kept
    <3>2. CASE i = L
      BY <1>0, <1>1, <1>5, <1>9, <3>2
    <3> QED
      BY <1>0, <1>1, <3>1, <3>2
  <2> QED
    BY <1>0, <1>8, <1>9, <2>2 DEF Linked
<1> QED
  BY <1>3, <1>4, <1>7 DEF Control

LEMMA ControlCall ==
  ASSUME NEW st \in Seq(Activation), Len(st) > 0, NEW v, Control(st, v),
         NEW s \in Seq(Activation), Len(s) = Len(st) + 1, Rest(st, s),
         NEW a, a = s[Len(st)], NEW b, b = s[Len(st) + 1],
         a.of = st[Len(st)].of, a.outcome = "none",
         \/ st[Len(st)].do = "start" /\ a.do = "task"
         \/ st[Len(st)].do \in {"enter", "children"} /\ a.do \in {"inside", "children"},
         Placed(a), Placed(b), Follows(a, b), Innermost(b), Around(a) = Around(st[Len(st)]),
         \A n \in Around(b) : n \in Around(a) \/ (Owning(a) /\ NodeOf(a) = n),
         \A i \in 1 .. Len(st) - 1 : st[i].of = b.of => st[i].do \in {"task", "inside"},
         a.of = b.of => a.do \in {"task", "inside"}
  PROVE  Control(s, v)
<1> DEFINE L == Len(st)
<1>0. /\ L \in Nat /\ L > 0 /\ Len(s) = L + 1 /\ DOMAIN s = 1 .. L + 1 /\ DOMAIN st = 1 .. L
  BY Stacks
<1>2. Kept(st, s, L)
  BY RestControl
<1>8. /\ L \in DOMAIN st /\ OneBody(st)
      /\ L = 1 => st[L].do \in {"start", "task"} /\ st[L].of = Root
      /\ v # "none"  => FALSE
  <2>1. L \in DOMAIN st
    BY <1>0, Under
  <2> QED
    BY <2>1 DEF Control, Linked
<1>9. /\ a = s[L] /\ b = s[L + 1] /\ a.of = st[L].of /\ Around(a) = Around(st[L])
      /\ \/ st[L].do = "start" /\ a.do = "task"
         \/ st[L].do \in {"enter", "children"} /\ a.do \in {"inside", "children"}
      /\ \A i \in 1 .. L - 1 : st[i].of = b.of => st[i].do \in {"task", "inside"}
  OBVIOUS
<1> HIDE DEF L
<1>1. /\ L \in 1 .. L /\ L + 1 \in 1 .. L + 1 /\ L \in 1 .. L + 1
      /\ ~(L < L) /\ L < L + 1 /\ L # L + 1 /\ L + 1 # 1 /\ L + 1 - 1 = L /\ ~(L + 1 < L + 1)
      /\ L + 1 > 0
      /\ \A i \in 1 .. L + 1 : i \in 1 .. L - 1 \/ i = L \/ i = L + 1
      /\ \A i \in 1 .. L - 1 :
           /\ i < L /\ i < L + 1 /\ (i + 1 < L \/ i + 1 = L)
           /\ i \in 1 .. L /\ i # L /\ i # L + 1
      /\ \A i \in 1 .. L + 1 : i < L => i \in 1 .. L - 1
      /\ \A i \in 1 .. L + 1 : \A j \in 1 .. L - 1 : i < j => i \in 1 .. L - 1
      /\ \A i \in 1 .. L + 1 : i < L + 1 => i \in 1 .. L - 1 \/ i = L
  <2>1. \A i \in 1 .. L + 1 : i < L + 1 => i \in 1 .. L - 1 \/ i = L
    BY <1>0, Under
  <2>2. L \in Nat /\ L > 0
    BY <1>0
  <2>3. L + 1 - 1 = L /\ L + 1 # 1 /\ ~(L + 1 < L + 1)
    BY ONLY <2>2
  <2> QED
    BY <1>0, <2>1, <2>3, Under
<1>3. Nested(s)
  <2> SUFFICES ASSUME NEW i \in DOMAIN s, NEW n \in Around(s[i])
               PROVE  \E j \in 1 .. i - 1 : Owning(s[j]) /\ NodeOf(s[j]) = n
    BY DEF Nested
  <2>1. CASE i \in 1 .. L - 1
    BY <1>2, <2>1 DEF Kept
  <2>2. CASE i = L
    BY <1>2, <1>9, <2>2 DEF Kept
  <2>3. CASE i = L + 1
    <3>1. i - 1 = L /\ n \in Around(b)
      <4>1. n \in Around(s[L + 1])
        BY <2>3
      <4> QED
        BY ONLY <1>0, <1>9, <2>3, <4>1
    <3>2. CASE n \in Around(a)
      <4>1. PICK j \in 1 .. L - 1 : Owning(s[j]) /\ NodeOf(s[j]) = n
        BY <1>2, <1>9, <3>2 DEF Kept
      <4>2. j \in 1 .. L
        BY <1>1
      <4> QED
        BY <3>1, <4>1, <4>2
    <3>3. CASE Owning(a) /\ NodeOf(a) = n
      BY <1>1, <1>9, <3>1, <3>3
    <3> QED
      BY <3>1, <3>2, <3>3
  <2> QED
    BY <1>0, <1>1, <2>1, <2>2, <2>3
<1>4. OneBody(s)
  <2> SUFFICES ASSUME NEW i \in DOMAIN s, NEW j \in DOMAIN s, i < j, s[i].of = s[j].of
               PROVE  s[i].do \in {"task", "inside"}
    BY DEF OneBody
  <2>1. CASE j \in 1 .. L - 1
    <3>1. i \in 1 .. L - 1
      BY <1>0, <1>1, <2>1
    <3> QED
      BY ONLY <1>2, <2>1, <3>1, i < j, s[i].of = s[j].of DEF Kept
  <2>2. CASE j = L
    <3>1. i \in 1 .. L - 1 /\ i \in DOMAIN st /\ i < L
      BY <1>0, <1>1, <2>2
    <3>2. Twin(s[i], st[i])
      BY <1>2, <3>1 DEF Kept
    <3>3. st[i].of = st[L].of
      BY <1>9, <2>2, <3>2 DEF Twin
    <3> QED
      BY <1>8, <3>1, <3>2, <3>3 DEF OneBody, Twin
  <2>3. CASE j = L + 1
    <3>1. i \in 1 .. L - 1 \/ i = L
      BY <1>0, <1>1, <2>3
    <3>2. CASE i \in 1 .. L - 1
      <4>1. Twin(s[i], st[i])
        BY <1>2, <3>2 DEF Kept
      <4> QED
        BY <1>9, <2>3, <3>2, <4>1 DEF Twin
    <3>3. CASE i = L
      BY <1>9, <2>3, <3>3
    <3> QED
      BY <3>1, <3>2, <3>3
  <2> QED
    BY <1>0, <1>1, <2>1, <2>2, <2>3
<1>5. L = 1 => a.do \in {"start", "task"} /\ a.of = Root
  BY <1>8, <1>9
<1>6. \A i \in 1 .. L - 1 : Follows(s[i], s[i + 1])
  <2>1. ASSUME NEW i \in 1 .. L - 1, i + 1 = L PROVE Follows(s[i], s[L])
    <3>1. Follows(s[i], st[L])
      BY <1>2, <2>1 DEF Kept
    <3> QED
      BY <1>9, <3>1 DEF Follows
  <2> QED
    BY <1>1, <1>2, <2>1 DEF Kept
<1>7. Linked(s, v)
  <2>2. ASSUME NEW i \in DOMAIN s
        PROVE  /\ Placed(s[i])
               /\ i = 1 => s[i].do \in {"start", "task"} /\ s[i].of = Root
               /\ i < Len(s) => s[i].outcome = "none" /\ Follows(s[i], s[i + 1])
    <3>1. CASE i \in 1 .. L - 1
      BY <1>0, <1>1, <1>2, <1>6, <3>1 DEF Kept
    <3>2. CASE i = L
      BY <1>0, <1>1, <1>5, <1>9, <3>2
    <3>3. CASE i = L + 1
      BY <1>0, <1>1, <1>9, <3>3
    <3> QED
      BY <1>0, <1>1, <3>1, <3>2, <3>3
  <2> QED
    BY <1>0, <1>1, <1>8, <1>9, <2>2 DEF Linked
<1> QED
  BY <1>3, <1>4, <1>7 DEF Control

LEMMA Becomes ==
  ASSUME stack \in Seq(Activation), Len(stack) > 0, NEW a \in Activation, Become(a)
  PROVE  /\ stack' \in Seq(Activation) /\ Len(stack') = Len(stack) /\ Rest(stack, stack')
         /\ stack'[Len(stack)] = a
<1>1. /\ stack' \in Seq(Activation) /\ Len(stack') = Len(stack) /\ stack'[Len(stack)] = a
      /\ \A i \in 1 .. Len(stack) - 1 : stack'[i] = stack[i]
  BY StackBecome DEF Become
<1>2. Len(stack) \in Nat /\ DOMAIN stack' = 1 .. Len(stack)
  BY <1>1, Stacks
<1>3. \A i \in 1 .. Len(stack) - 1 : i \in 1 .. Len(stack)
  BY <1>2, Under
<1> QED
  BY <1>1, <1>2, <1>3 DEF Rest, Twin

LEMMA Calls ==
  ASSUME stack \in Seq(Activation), Len(stack) > 0, NEW a \in Activation, NEW b \in Activation,
         Call(a, b)
  PROVE  /\ stack' \in Seq(Activation) /\ Len(stack') = Len(stack) + 1 /\ Rest(stack, stack')
         /\ stack'[Len(stack)] = a /\ stack'[Len(stack) + 1] = b
<1>1. /\ stack' \in Seq(Activation) /\ Len(stack') = Len(stack) + 1
      /\ stack'[Len(stack)] = a /\ stack'[Len(stack) + 1] = b
      /\ \A i \in 1 .. Len(stack) - 1 : stack'[i] = stack[i]
  BY StackCall DEF Call
<1>2. Len(stack) \in Nat /\ DOMAIN stack' = 1 .. Len(stack')
  BY <1>1, Stacks
<1>3. \A i \in 1 .. Len(stack) - 1 : i \in 1 .. Len(stack) + 1
  BY <1>2, Under
<1> QED
  BY <1>1, <1>2, <1>3 DEF Rest, Twin

LEMMA Returns ==
  ASSUME stack \in Seq(Activation), Len(stack) > 0, NEW o \in Outcome, Return(o)
  PROVE  /\ stack' \in Seq(Activation) /\ Len(stack') = Len(stack) - 1 /\ Rest(stack, stack')
         /\ Len(stack') = 0 => verdict' = o
         /\ Len(stack') > 0 => verdict' = verdict /\ stack'[Len(stack')].outcome = o
<1>0. Len(stack) \in Nat /\ DOMAIN stack = 1 .. Len(stack)
  BY Stacks
<1>1. CASE Len(stack) = 1
  <2>1. stack' = <<>> /\ verdict' = o
    BY <1>1 DEF Return
  <2>2. Len(<<>>) = 0 /\ <<>> \in Seq(Activation) /\ 1 - 1 = 0
    OBVIOUS
  <2>3. \A i : i \notin 1 .. 1 - 1
    OBVIOUS
  <2> QED
    BY <1>1, <2>1, <2>2, <2>3 DEF Rest
<1>2. CASE Len(stack) # 1
  <2> DEFINE L == Len(stack)  f == Front(stack)
             a == [f[L - 1] EXCEPT !.outcome = o]
             r == [f EXCEPT ![L - 1] = a]
  <2>1. stack' = [f EXCEPT ![L - 1].outcome = o] /\ verdict' = verdict
    BY <1>2 DEF Return
  <2>2. f \in Seq(Activation) /\ Len(f) = L - 1 /\ \A i \in 1 .. L - 1 : f[i] = stack[i]
    BY StackTop
  <2> HIDE DEF f
  <2>3. stack' = r
    BY <2>1
  <2>4. L > 1 /\ L - 1 \in 1 .. L - 1 /\ L - 1 \in DOMAIN stack
    BY ONLY <1>0, <1>2, Len(stack) > 0, Under
  <2>5. f[L - 1] = stack[L - 1] /\ stack[L - 1] \in Activation
    BY <2>2, <2>4
  <2>6. a \in Activation /\ a.outcome = o /\ Twin(a, stack[L - 1])
    BY <2>5 DEF Activation, Twin
  <2> HIDE DEF a
  <2>7. /\ r \in Seq(Activation) /\ Len(r) = L - 1 /\ r[L - 1] = a
        /\ \A i \in 1 .. L - 2 : r[i] = stack[i]
    BY <2>4, <2>6, StackReturn DEF f
  <2> HIDE DEF r
  <2>8. ASSUME NEW i \in 1 .. L - 1
        PROVE  /\ i \in DOMAIN r /\ Twin(r[i], stack[i])
               /\ i < Len(r) => r[i].outcome = stack[i].outcome
    <3>1. i \in DOMAIN r /\ (i = L - 1 \/ i \in 1 .. L - 2) /\ (i = L - 1 => ~(i < Len(r)))
      <4>1. DOMAIN r = 1 .. L - 1 /\ Len(r) = L - 1
        BY <2>7
      <4>2. L \in Nat
        BY <1>0
      <4> HIDE DEF L
      <4> QED
        BY <4>1, <4>2
    <3> QED
      BY <2>6, <2>7, <3>1 DEF Twin
  <2>9. Rest(stack, r)
    BY <2>8 DEF Rest
  <2>10. L - 1 > 0 /\ L - 1 # 0
    BY <1>0, <1>2, Under
  <2> HIDE DEF L
  <2> QED
    BY <2>1, <2>3, <2>6, <2>7, <2>9, <2>10 DEF L
<1> QED
  BY <1>1, <1>2

----------------------------------------------------------------------------
\* Which nodes are in progress and which are held.

LEMMA NamesUnder ==
  ASSUME NEW st \in Seq(Activation), Len(st) > 0, NEW tr, NEW h, Names(st, tr, h),
         NEW s \in Seq(Activation), Rest(st, s)
  PROVE  /\ UNION {NamesOf(s[i]) : i \in 1 .. Len(st) - 1} = Going(tr) \ NamesOf(st[Len(st)])
         /\ UNION {OwnsOf(s[i]) : i \in 1 .. Len(st) - 1} = h \ OwnsOf(st[Len(st)])
         /\ \A i, j \in 1 .. Len(st) - 1 :
              i # j /\ Naming(s[i]) /\ Naming(s[j]) => NodeOf(s[i]) # NodeOf(s[j])
<1> DEFINE L == Len(st)
<1>1. L \in Nat /\ L > 0 /\ DOMAIN st = 1 .. L
  BY Stacks
<1>2. \A i \in 1 .. L - 1 : Twin(s[i], st[i])
  BY DEF Rest
<1>3. \A i \in 1 .. L - 1 :
        /\ NamesOf(s[i]) = NamesOf(st[i]) /\ OwnsOf(s[i]) = OwnsOf(st[i])
        /\ Naming(s[i]) <=> Naming(st[i])
        /\ NodeOf(s[i]) = NodeOf(st[i])
  BY <1>2, Twins
<1> HIDE DEF L
<1>4. /\ \A i \in 1 .. L : i \in 1 .. L - 1 \/ i = L
      /\ \A i \in 1 .. L - 1 : i \in 1 .. L /\ i # L
      /\ L \in 1 .. L
  BY <1>1, Under
<1>5. /\ \A i, j \in 1 .. L : i # j /\ Naming(st[i]) /\ Naming(st[j]) => NodeOf(st[i]) # NodeOf(st[j])
      /\ UNION {NamesOf(st[i]) : i \in 1 .. L} = Going(tr)
      /\ UNION {OwnsOf(st[i]) : i \in 1 .. L} = h
  BY <1>1 DEF Names
<1>6. \A i \in 1 .. L - 1 : NamesOf(st[i]) \cap NamesOf(st[L]) = {} /\ OwnsOf(st[i]) \cap OwnsOf(st[L]) = {}
  BY <1>4, <1>5 DEF NamesOf, OwnsOf, Naming, Owning
<1>7. UNION {NamesOf(s[i]) : i \in 1 .. L - 1} = Going(tr) \ NamesOf(st[L])
  BY <1>3, <1>4, <1>5, <1>6
<1>8. UNION {OwnsOf(s[i]) : i \in 1 .. L - 1} = h \ OwnsOf(st[L])
  BY <1>3, <1>4, <1>5, <1>6
<1>9. \A i, j \in 1 .. L - 1 : i # j /\ Naming(s[i]) /\ Naming(s[j]) => NodeOf(s[i]) # NodeOf(s[j])
  BY <1>3, <1>4, <1>5
<1> QED
  BY <1>7, <1>8, <1>9 DEF L

LEMMA NamesReturn ==
  ASSUME NEW st \in Seq(Activation), Len(st) > 0, NEW tr, NEW h, Names(st, tr, h),
         NEW s \in Seq(Activation), Rest(st, s), Len(s) = Len(st) - 1,
         NEW r, Going(r) = Going(tr) \ NamesOf(st[Len(st)]),
         NEW k, k = h \ OwnsOf(st[Len(st)])
  PROVE  Names(s, r, k)
<1>1. DOMAIN s = 1 .. Len(st) - 1
  BY Stacks
<1>2. /\ UNION {NamesOf(s[i]) : i \in 1 .. Len(st) - 1} = Going(tr) \ NamesOf(st[Len(st)])
      /\ UNION {OwnsOf(s[i]) : i \in 1 .. Len(st) - 1} = h \ OwnsOf(st[Len(st)])
      /\ \A i, j \in 1 .. Len(st) - 1 :
           i # j /\ Naming(s[i]) /\ Naming(s[j]) => NodeOf(s[i]) # NodeOf(s[j])
  BY NamesUnder
<1> QED
  BY <1>1, <1>2 DEF Names

LEMMA NamesOnward ==
  ASSUME NEW st \in Seq(Activation), Len(st) > 0, NEW tr, NEW h, Names(st, tr, h),
         NEW s \in Seq(Activation), Rest(st, s),
         Len(s) = Len(st) \/ (Len(s) = Len(st) + 1 /\ ~Naming(s[Len(st) + 1])),
         NEW r, Going(r) = (Going(tr) \ NamesOf(st[Len(st)])) \cup NamesOf(s[Len(st)]),
         NamesOf(s[Len(st)]) \cap (Going(tr) \ NamesOf(st[Len(st)])) = {},
         NEW k, k = (h \ OwnsOf(st[Len(st)])) \cup OwnsOf(s[Len(st)])
  PROVE  Names(s, r, k)
<1> DEFINE L == Len(st)
           N == UNION {NamesOf(s[i]) : i \in 1 .. L - 1}
           O == UNION {OwnsOf(s[i]) : i \in 1 .. L - 1}
<1>1. L \in Nat /\ L > 0 /\ DOMAIN s = 1 .. Len(s)
  BY Stacks
<1>2. /\ N = Going(tr) \ NamesOf(st[L]) /\ O = h \ OwnsOf(st[L])
      /\ \A i, j \in 1 .. L - 1 : i # j /\ Naming(s[i]) /\ Naming(s[j]) => NodeOf(s[i]) # NodeOf(s[j])
  BY NamesUnder
<1>3. /\ Len(s) = L \/ (Len(s) = L + 1 /\ ~Naming(s[L + 1]))
      /\ Going(r) = N \cup NamesOf(s[L]) /\ NamesOf(s[L]) \cap N = {} /\ k = O \cup OwnsOf(s[L])
  BY <1>2
<1> HIDE DEF L
<1>4. /\ \A i \in DOMAIN s : i \in 1 .. L - 1 \/ i = L \/ ~Naming(s[i])
      /\ \A i \in 1 .. L - 1 : i \in DOMAIN s /\ i # L
      /\ L \in DOMAIN s
  <2>1. CASE Len(s) = L
    BY <1>1, <2>1, Under
  <2>2. CASE Len(s) = L + 1 /\ ~Naming(s[L + 1])
    BY <1>1, <2>2, Under
  <2> QED
    BY <1>3, <2>1, <2>2
<1>5. \A i \in DOMAIN s : ~Naming(s[i]) => NamesOf(s[i]) = {} /\ OwnsOf(s[i]) = {}
  BY DEF NamesOf, OwnsOf, Naming, Owning
<1>6. UNION {NamesOf(s[i]) : i \in DOMAIN s} = N \cup NamesOf(s[L])
  BY <1>4, <1>5
<1>7. UNION {OwnsOf(s[i]) : i \in DOMAIN s} = O \cup OwnsOf(s[L])
  BY <1>4, <1>5
<1>8. ASSUME NEW i \in DOMAIN s, NEW j \in DOMAIN s, i # j, Naming(s[i]), Naming(s[j])
      PROVE  NodeOf(s[i]) # NodeOf(s[j])
  <2>1. \A m \in 1 .. L - 1 : Naming(s[m]) => NodeOf(s[m]) \in N
    BY DEF NamesOf
  <2>2. Naming(s[L]) => NodeOf(s[L]) \notin N
    BY <1>3 DEF NamesOf
  <2> HIDE DEF N
  <2>3. (i \in 1 .. L - 1 \/ i = L) /\ (j \in 1 .. L - 1 \/ j = L)
    BY <1>4, <1>8
  <2> QED
    BY <1>2, <1>8, <2>1, <2>2, <2>3
<1> QED
  BY <1>3, <1>6, <1>7, <1>8 DEF Names

----------------------------------------------------------------------------
\* What the invariant says about the innermost activation.

LEMMA Surroundings ==
  ASSUME NEW st \in Seq(Activation), NEW tr, NEW h, Nested(st), Names(st, tr, h),
         NEW i \in DOMAIN st
  PROVE  /\ Around(st[i]) \subseteq Going(tr) /\ Around(st[i]) \subseteq h
         /\ NamesOf(st[i]) \subseteq Going(tr) /\ OwnsOf(st[i]) \subseteq h
<1>1. UNION {NamesOf(st[j]) : j \in DOMAIN st} = Going(tr) /\ UNION {OwnsOf(st[j]) : j \in DOMAIN st} = h
  BY DEF Names
<1>2. ASSUME NEW n \in Around(st[i]) PROVE n \in Going(tr) /\ n \in h
  <2>1. PICK j \in 1 .. i - 1 : Owning(st[j]) /\ NodeOf(st[j]) = n
    BY DEF Nested
  <2>2. j \in DOMAIN st
    BY Stacks
  <2>3. n \in NamesOf(st[j]) /\ n \in OwnsOf(st[j])
    BY <2>1 DEF Owning, Naming, NamesOf, OwnsOf
  <2> QED
    BY <1>1, <2>2, <2>3
<1> QED
  BY <1>1, <1>2

LEMMA Here ==
  ASSUME Inv, stack # <<>>
  PROVE  /\ Len(stack) > 0 /\ Len(stack) \in Nat /\ Len(stack) \in DOMAIN stack
         /\ Top = stack[Len(stack)] /\ Top \in Activation /\ Task \in Tasks
         /\ Placed(Top) /\ Innermost(Top) /\ verdict = "none" /\ Run \notin tree.locked
         /\ Around(Top) \subseteq Going(tree) /\ Around(Top) \subseteq held
         /\ \A i \in 1 .. Len(stack) : stack[i].do = "children" => stack[i].of \in Going(tree)
         /\ Top.do # "start" => Task \in Going(tree)
         /\ Top.do \notin {"start", "task"} =>
              /\ Len(stack) > 1 /\ stack[Len(stack) - 1].of = Task
              /\ stack[Len(stack) - 1].do \in {"task", "inside"}
         /\ Top.do \in {"start", "task"} =>
              \/ Len(stack) = 1 /\ Task = Root
              \/ /\ Len(stack) > 1 /\ stack[Len(stack) - 1].do = "children"
                 /\ stack[Len(stack) - 1].index \in DOMAIN Children[stack[Len(stack) - 1].of]
                 /\ Children[stack[Len(stack) - 1].of][stack[Len(stack) - 1].index] = Task
         /\ Top.do \in {"open", "enter", "inside"} =>
              /\ Top.index \in DOMAIN Scopes[Task] /\ Scope = NodeOf(Top)
              /\ Scope \in Contexts /\ Scope \in Node /\ Scope \in Below(Task) /\ Scope # Task
         /\ Top.do \in {"enter", "inside"} => Scope \in Going(tree) /\ Scope \in ToSet(tree.subTasks[Task])
         /\ Top.do \in {"act", "children"} => \A n \in ToSet(Scopes[Task]) : n \in Going(tree)
<1> USE Basics
<1> DEFINE L == Len(stack)
<1>1. /\ stack \in Seq(Activation) /\ L \in Nat /\ DOMAIN stack = 1 .. L /\ L > 0
      /\ Control(stack, verdict) /\ Names(stack, tree, held) /\ Grown(tree, omitted)
      /\ RunLast(stack, tree, verdict) /\ Nested(stack) /\ Linked(stack, verdict)
  <2>1. stack \in Seq(Activation)
    BY DEF Inv, TypeOK
  <2>2. L > 0
    BY <2>1
  <2> QED
    BY <2>1, <2>2, Stacks DEF Inv, Control
<1>2. /\ Top = stack[L] /\ Task = stack[L].of
      /\ Scope = Scopes[stack[L].of][stack[L].index]
  BY <1>1, StackTop DEF Top, Task, Scope
<1>3. Run \notin tree.locked
  BY <1>1 DEF RunLast
<1> HIDE DEF L
<1>4. /\ L \in 1 .. L /\ \A i \in 1 .. L - 1 : i \in 1 .. L
      /\ L # 1 => L > 1 /\ L - 1 \in 1 .. L - 1 /\ L - 1 \in 1 .. L /\ L - 1 + 1 = L /\ L - 1 < L
      /\ ~(L > 1) => L = 1
  BY ONLY <1>1, Under
<1>5. /\ stack[L] \in Activation /\ stack[L].of \in Tasks /\ stack[L].index \in Nat
      /\ stack[L].do \in {"start", "task", "open", "enter", "inside", "act", "children"}
  BY <1>1, <1>4, Stacks
<1>6. Placed(stack[L]) /\ Innermost(stack[L]) /\ verdict = "none"
  BY <1>1, <1>4 DEF Linked, L
<1>7. \A i \in 1 .. L : /\ Around(stack[i]) \subseteq Going(tree) /\ Around(stack[i]) \subseteq held
                        /\ NamesOf(stack[i]) \subseteq Going(tree)
  BY <1>1, Surroundings
<1>8. \A i \in 1 .. L : stack[i].do = "children" => stack[i].of \in Going(tree)
  BY <1>7 DEF Around
<1>9. stack[L].do # "start" => stack[L].of \in Going(tree)
  BY <1>4, <1>5, <1>7 DEF Around, NamesOf, Naming, NodeOf
<1>10. L = 1 => stack[L].do \in {"start", "task"} /\ stack[L].of = Root
  BY <1>1, <1>4 DEF Linked
<1>11. L # 1 => Follows(stack[L - 1], stack[L])
  <2>1. ASSUME L # 1 PROVE Follows(stack[L - 1], stack[L - 1 + 1])
    BY <1>1, <1>4, <2>1 DEF Linked, L
  <2> QED
    BY <1>4, <2>1
<1>12. stack[L].do \notin {"start", "task"} =>
         /\ L > 1 /\ stack[L - 1].of = stack[L].of
         /\ stack[L - 1].do \in {"task", "inside"}
  BY <1>4, <1>10, <1>11 DEF Follows
<1>13. stack[L].do \in {"start", "task"} =>
         \/ L = 1 /\ stack[L].of = Root
         \/ /\ L > 1 /\ stack[L - 1].do = "children"
            /\ stack[L - 1].index \in DOMAIN Children[stack[L - 1].of]
            /\ Children[stack[L - 1].of][stack[L - 1].index] = stack[L].of
  BY <1>4, <1>10, <1>11 DEF Follows
<1>14. stack[L].do \in {"open", "enter", "inside"} =>
         /\ Scope = NodeOf(stack[L]) /\ NodeOf(stack[L]) \in Node
         /\ stack[L].index \in DOMAIN Scopes[stack[L].of]
         /\ Scopes[stack[L].of][stack[L].index] = NodeOf(stack[L])
         /\ NodeOf(stack[L]) \in Contexts /\ NodeOf(stack[L]) \in Below(stack[L].of)
         /\ NodeOf(stack[L]) # stack[L].of
  BY <1>2, <1>5, <1>6 DEF Placed, NodeOf, Below, ToSet
<1>15. stack[L].do \in {"enter", "inside"} =>
         NodeOf(stack[L]) \in Going(tree) /\ NodeOf(stack[L]) \in ToSet(tree.subTasks[stack[L].of])
  <2>1. stack[L].do \in {"enter", "inside"} => NodeOf(stack[L]) \in Going(tree)
    BY <1>4, <1>7 DEF NamesOf, Naming
  <2>2. stack[L].of \in Node \cup {Run}
    BY <1>5
  <2> QED
    BY <1>1, <1>14, <2>1, <2>2 DEF Grown, Going
<1>16. stack[L].do \in {"act", "children"} =>
         \A n \in ToSet(Scopes[stack[L].of]) : n \in Going(tree)
  BY <1>4, <1>7 DEF Around
<1> HIDE DEF Top, Task, Scope
<1> QED
  BY SMTT(30), <1>1, <1>2, <1>3, <1>4, <1>5, <1>6, <1>7, <1>8, <1>9, <1>12, <1>13, <1>14, <1>15, <1>16 DEF L

----------------------------------------------------------------------------
\* What is still to come and what has been done.

LEMMA LaterSame ==
  ASSUME NEW st \in Seq(Activation), NEW tr, NEW om, Ahead(st, tr, om), NEW r,
         \A n \in Node : Absent(r, n) <=> Absent(tr, n)
  PROVE  \A i \in DOMAIN st : st[i].do = "children" => Later(r, om, st[i])
<1> SUFFICES ASSUME NEW i \in DOMAIN st, st[i].do = "children" PROVE Later(r, om, st[i])
  OBVIOUS
<1>1. Later(tr, om, st[i])
  BY DEF Ahead
<1>2. \A j \in DOMAIN Children[st[i].of] : Children[st[i].of][j] \in Node
  BY Stacks, Basics
<1> QED
  BY <1>1, <1>2 DEF Later

\* Filling in what is missing under the innermost activation's task leaves alone
\* what is still to come further out.
LEMMA LaterFills ==
  ASSUME NEW st \in Seq(Activation), Len(st) > 0, NEW tr, NEW om, Ahead(st, tr, om),
         OneBody(st), \A i \in 1 .. Len(st) : st[i].do = "children" => st[i].of \in Going(tr),
         NEW r, Fills(tr, r, st[Len(st)].of)
  PROVE  \A i \in 1 .. Len(st) - 1 : st[i].do = "children" => Later(r, om, st[i])
<1> DEFINE L == Len(st)
<1>1. L \in Nat /\ L > 0 /\ DOMAIN st = 1 .. L
  BY Stacks
<1> SUFFICES ASSUME NEW i \in 1 .. L - 1, st[i].do = "children" PROVE Later(r, om, st[i])
  OBVIOUS
<1> HIDE DEF L
<1>2. i \in DOMAIN st /\ i \in 1 .. L /\ L \in DOMAIN st /\ i < L
  BY ONLY <1>1, i \in 1 .. L - 1, Under
<1>3. Later(tr, om, st[i]) /\ st[i].of \in Going(tr) /\ st[i].of \in Tasks
  BY <1>2, Stacks DEF Ahead, L
<1>4. st[i].of # st[L].of
  BY <1>2 DEF OneBody
<1>5. ASSUME NEW j \in DOMAIN Children[st[i].of], j > st[i].index
      PROVE  Absent(r, Children[st[i].of][j])
  <2>1. Absent(tr, Children[st[i].of][j]) /\ ~Absent(tr, st[i].of)
    BY <1>3, <1>5 DEF Later, Going
  <2>2. Children[st[i].of][j] \in Node /\ Children[st[i].of][j] \in ToSet(Children[st[i].of])
    BY <1>3, Basics DEF ToSet
  <2> QED
    BY <1>3, <1>4, <2>1, <2>2 DEF Fills, L
<1> QED
  BY <1>3, <1>5 DEF Later

LEMMA AheadReturn ==
  ASSUME NEW st \in Seq(Activation), Len(st) > 0, NEW v, Control(st, v),
         NEW s \in Seq(Activation), Len(s) = Len(st) - 1, Rest(st, s),
         Len(s) > 0 => s[Len(s)].outcome \in Outcome,
         NEW r, NEW om,
         \A i \in 1 .. Len(st) - 1 : st[i].do = "children" => Later(r, om, st[i])
  PROVE  Ahead(s, r, om)
<1> DEFINE L == Len(st)
<1>1. L \in Nat /\ L > 0 /\ DOMAIN s = 1 .. L - 1 /\ Len(s) \in Nat /\ Len(s) = L - 1
  BY Stacks
<1>2. Kept(st, s, L)
  BY RestControl
<1>3. ASSUME NEW i \in DOMAIN s, s[i].do = "children" PROVE Later(r, om, s[i])
  <2>1. Twin(s[i], st[i])
    BY <1>1, <1>2 DEF Kept
  <2> QED
    BY <1>1, <1>3, <2>1 DEF Later, Twin
<1>4. ASSUME Len(s) > 0 PROVE Untouched(r, s[Len(s)])
  <2>1. Len(s) \in 1 .. L - 1
    BY <1>1, <1>4
  <2>2. s[Len(s)].do \in {"task", "inside", "children"} /\ s[Len(s)].outcome # "none"
    BY <1>2, <1>4, <2>1 DEF Kept, Outcome
  <2> QED
    BY <2>2 DEF Untouched
<1> QED
  BY <1>3, <1>4 DEF Ahead

LEMMA BehindReturn ==
  ASSUME NEW st \in Seq(Activation), Len(st) > 0, NEW v, Control(st, v),
         NEW s \in Seq(Activation), Len(s) = Len(st) - 1, Rest(st, s),
         NEW tr, NEW r, NEW om, Behind(st, tr, om),
         \A n \in Node : ~Absent(tr, n) => ~Absent(r, n),
         st[Len(st)].do \in {"start", "task"} => ~Absent(r, st[Len(st)].of),
         st[Len(st)].do \notin {"start", "task"} /\ Len(s) > 0 /\ s[Len(s)].outcome = "more"
           => Done(r, om, st[Len(st)].of)
  PROVE  Behind(s, r, om)
<1> DEFINE L == Len(st)
<1>1. L \in Nat /\ L > 0 /\ DOMAIN s = 1 .. L - 1 /\ Len(s) \in Nat /\ Len(s) = L - 1
  BY Stacks
<1>2. Kept(st, s, L)
  BY RestControl
<1>3. ASSUME NEW i \in DOMAIN s, s[i].do = "children" PROVE Earlier(r, s[i])
  <2>1. Twin(s[i], st[i]) /\ i \in DOMAIN st
    BY <1>1, <1>2 DEF Kept
  <2>2. Earlier(tr, st[i])
    BY <1>3, <2>1 DEF Behind, Twin
  <2>3. \A j \in DOMAIN Children[st[i].of] : Children[st[i].of][j] \in Node
    BY <2>1, Stacks, Basics
  <2> QED
    BY <2>1, <2>2, <2>3 DEF Earlier, Twin
<1>4. ASSUME Len(s) > 0 PROVE Complete(r, om, s[Len(s)])
  <2>1. Len(s) \in 1 .. L - 1 /\ Len(s) + 1 = L
    BY <1>1, <1>4
  <2>2. Follows(s[Len(s)], st[Len(s) + 1])
    BY <1>2, <2>1 DEF Kept
  <2>3. Follows(s[Len(s)], st[L])
    BY <2>1, <2>2
  <2> QED
    BY <1>4, <2>3 DEF Follows, Complete
<1> QED
  BY <1>3, <1>4 DEF Behind

LEMMA AheadOnward ==
  ASSUME NEW st \in Seq(Activation), Len(st) > 0,
         NEW s \in Seq(Activation), Len(s) \in {Len(st), Len(st) + 1}, Rest(st, s),
         NEW r, NEW om,
         \A i \in 1 .. Len(st) - 1 : st[i].do = "children" => Later(r, om, st[i]),
         \A i \in {Len(st), Len(s)} : s[i].do = "children" => Later(r, om, s[i]),
         Untouched(r, s[Len(s)])
  PROVE  Ahead(s, r, om)
<1> DEFINE L == Len(st)
<1>1. L \in Nat /\ L > 0 /\ DOMAIN s = 1 .. Len(s) /\ (Len(s) = L \/ Len(s) = L + 1)
  BY Stacks
<1>2. \A i \in 1 .. L - 1 : Twin(s[i], st[i])
  BY SMTT(30) DEF Rest
<1> HIDE DEF L
<1>3. \A i \in DOMAIN s : i \in 1 .. L - 1 \/ i = L \/ i = Len(s)
  <2>1. \A i \in 1 .. L : i \in 1 .. L - 1 \/ i = L
    BY <1>1, Under
  <2>2. \A i \in 1 .. L + 1 : i \in 1 .. L - 1 \/ i = L \/ i = L + 1
    BY <1>1, Under
  <2>3. \A i \in 1 .. L - 1 : i \in 1 .. L
    BY <1>1, Under
  <2> QED
    BY <1>1, <2>1, <2>2, <2>3
<1>4. ASSUME NEW i \in DOMAIN s, s[i].do = "children" PROVE Later(r, om, s[i])
  <2>1. CASE i \in 1 .. L - 1
    BY <1>2, <1>4, <2>1 DEF Later, Twin, L
  <2> QED
    BY <1>3, <1>4, <2>1 DEF L
<1> QED
  BY <1>4 DEF Ahead

LEMMA BehindOnward ==
  ASSUME NEW st \in Seq(Activation), Len(st) > 0,
         NEW s \in Seq(Activation), Len(s) \in {Len(st), Len(st) + 1}, Rest(st, s),
         NEW tr, NEW r, NEW om, Behind(st, tr, om),
         \A n \in Node : ~Absent(tr, n) => ~Absent(r, n),
         \A i \in {Len(st), Len(s)} : s[i].do = "children" => Earlier(r, s[i]),
         Complete(r, om, s[Len(s)])
  PROVE  Behind(s, r, om)
<1> DEFINE L == Len(st)
<1>1. L \in Nat /\ L > 0 /\ DOMAIN s = 1 .. Len(s) /\ (Len(s) = L \/ Len(s) = L + 1) /\ DOMAIN st = 1 .. L
  BY Stacks
<1>2. \A i \in 1 .. L - 1 : Twin(s[i], st[i])
  BY DEF Rest
<1> HIDE DEF L
<1>3. /\ \A i \in DOMAIN s : i \in 1 .. L - 1 \/ i = L \/ i = Len(s)
      /\ \A i \in 1 .. L - 1 : i \in DOMAIN st
  <2>1. \A i \in 1 .. L : i \in 1 .. L - 1 \/ i = L
    BY <1>1, Under
  <2>2. \A i \in 1 .. L + 1 : i \in 1 .. L - 1 \/ i = L \/ i = L + 1
    BY <1>1, Under
  <2>3. \A i \in 1 .. L - 1 : i \in 1 .. L
    BY <1>1, Under
  <2> QED
    BY <1>1, <2>1, <2>2, <2>3
<1>4. ASSUME NEW i \in DOMAIN s, s[i].do = "children" PROVE Earlier(r, s[i])
  <2>1. CASE i \in 1 .. L - 1
    <3>1. Twin(s[i], st[i]) /\ i \in DOMAIN st
      BY <1>2, <1>3, <2>1
    <3>2. Earlier(tr, st[i])
      BY <1>4, <3>1 DEF Behind, Twin
    <3>3. \A j \in DOMAIN Children[st[i].of] : Children[st[i].of][j] \in Node
      BY <3>1, Stacks, Basics
    <3> QED
      BY <3>1, <3>2, <3>3 DEF Earlier, Twin
  <2> QED
    BY <1>3, <1>4, <2>1 DEF L
<1> QED
  BY <1>4 DEF Behind

----------------------------------------------------------------------------
\* The two ways in which the recursion moves.

LEMMA ReturnStep ==
  ASSUME Inv, stack # <<>>, NEW o \in Outcome, Return(o), omitted' = omitted,
         tree' \in StatusTree, Grown(tree', omitted), Run \notin tree'.locked,
         Going(tree') = Going(tree) \ NamesOf(Top), held' = held \ OwnsOf(Top),
         \A n \in Node : ~Absent(tree, n) => ~Absent(tree', n),
         \A i \in 1 .. Len(stack) - 1 : stack[i].do = "children" => Later(tree', omitted, stack[i]),
         Top.do \in {"start", "task"} => ~Absent(tree', Task),
         Top.do \notin {"start", "task"} /\ o = "more" => Done(tree', omitted, Task),
         exception' \in Node \cup {Nobody},
         Explained(o, IF Len(stack) > 1 THEN stack[Len(stack) - 1].of ELSE Run, tree', exception')
  PROVE  Inv'
<1> DEFINE L == Len(stack)
<1>1. /\ stack \in Seq(Activation) /\ Control(stack, verdict) /\ Names(stack, tree, held)
      /\ Behind(stack, tree, omitted) /\ held \subseteq Node /\ omitted \subseteq Acting
  BY DEF Inv, TypeOK
<1>2. /\ L > 0 /\ L \in Nat /\ Top = stack[L] /\ Task = stack[L].of /\ verdict = "none"
      /\ Top.do \notin {"start", "task"} => L > 1
      /\ Top.do \in {"start", "task"} => (L = 1 /\ Task = Root) \/ L > 1
  BY Here DEF Task
<1>3. /\ stack' \in Seq(Activation) /\ Len(stack') = L - 1 /\ Rest(stack, stack')
      /\ Len(stack') = 0 => verdict' = o
      /\ Len(stack') > 0 => verdict' = verdict /\ stack'[Len(stack')].outcome = o
  BY <1>1, <1>2, Returns
<1>4. Len(stack') \in Nat /\ (Len(stack') = 0 <=> L = 1) /\ (Len(stack') > 0 <=> L > 1)
      /\ (Len(stack') = 0 <=> ~(Len(stack') > 0))
  BY ONLY <1>2, <1>3, Len(stack') = L - 1
<1>5. Control(stack', verdict')
  BY <1>1, <1>2, <1>3, ControlReturn
<1>6. Names(stack', tree', held')
  BY <1>1, <1>2, <1>3, NamesReturn
<1>7. Ahead(stack', tree', omitted)
  BY <1>1, <1>2, <1>3, AheadReturn
<1>8. Behind(stack', tree', omitted)
  <2>1. stack[Len(stack)].do \in {"start", "task"} => ~Absent(tree', stack[Len(stack)].of)
    BY <1>2
  <2>2. stack[Len(stack)].do \notin {"start", "task"} /\ Len(stack') > 0
          /\ stack'[Len(stack')].outcome = "more" => Done(tree', omitted, stack[Len(stack)].of)
    BY <1>2, <1>3
  <2>3. \A n \in Node : ~Absent(tree, n) => ~Absent(tree', n)
    OBVIOUS
  <2> QED
    BY ONLY <1>1, <1>2, <1>3, <2>1, <2>2, <2>3, BehindReturn
<1>9. RunLast(stack', tree', verdict')
  BY <1>2, <1>4 DEF RunLast
<1>10. Explained(Latest(stack', verdict'), Showing(stack'), tree', exception')
  <2>1. CASE L > 1
    <3>1. Len(stack') = L - 1 /\ Len(stack') > 0 /\ L - 1 \in 1 .. L - 1
      BY <1>2, <1>3, <1>4, <2>1
    <3>2. Twin(stack'[L - 1], stack[L - 1])
      BY <1>3, <3>1 DEF Rest
    <3> QED
      BY <1>3, <2>1, <3>1, <3>2 DEF Latest, Showing, Twin
  <2>2. CASE ~(L > 1)
    BY <1>2, <1>3, <1>4, <2>2 DEF Latest, Showing
  <2> QED
    BY <2>1, <2>2
<1>11. TypeOK'
  <2>1. verdict' \in Outcome \cup {"none"}
    BY <1>2, <1>3, <1>4
  <2> QED
    BY <1>1, <1>3, <2>1 DEF TypeOK
<1> QED
  BY <1>5, <1>6, <1>7, <1>8, <1>9, <1>10, <1>11 DEF Inv

LEMMA OnwardStep ==
  ASSUME Inv, stack # <<>>, stack' \in Seq(Activation), Rest(stack, stack'),
         Len(stack') \in {Len(stack), Len(stack) + 1}, verdict' = verdict, omitted' = omitted,
         Control(stack', verdict'),
         tree' \in StatusTree, Grown(tree', omitted), Run \notin tree'.locked,
         Len(stack') = Len(stack) + 1 => ~Naming(stack'[Len(stack')]),
         Going(tree') = (Going(tree) \ NamesOf(Top)) \cup NamesOf(stack'[Len(stack)]),
         NamesOf(stack'[Len(stack)]) \cap (Going(tree) \ NamesOf(Top)) = {},
         held' = (held \ OwnsOf(Top)) \cup OwnsOf(stack'[Len(stack)]),
         \A n \in Node : ~Absent(tree, n) => ~Absent(tree', n),
         \A i \in 1 .. Len(stack) - 1 : stack[i].do = "children" => Later(tree', omitted, stack[i]),
         \A i \in {Len(stack), Len(stack')} : stack'[i].do = "children" =>
           Later(tree', omitted, stack'[i]) /\ Earlier(tree', stack'[i]),
         Untouched(tree', stack'[Len(stack')]), Complete(tree', omitted, stack'[Len(stack')]),
         exception' \in Node \cup {Nobody},
         Explained(stack'[Len(stack')].outcome, stack'[Len(stack')].of, tree', exception')
  PROVE  Inv'
<1> DEFINE L == Len(stack)
<1>1. /\ stack \in Seq(Activation) /\ Names(stack, tree, held)
      /\ Behind(stack, tree, omitted) /\ held \subseteq Node /\ omitted \subseteq Acting
      /\ verdict \in Outcome \cup {"none"}
  BY DEF Inv, TypeOK
<1>2. L > 0 /\ L \in Nat /\ Top = stack[L]
  BY Here
<1>3. Len(stack') > 0 /\ Len(stack') # 0
  BY ONLY <1>2, Len(stack') \in {Len(stack), Len(stack) + 1}
<1>4. Len(stack') = L \/ (Len(stack') = L + 1 /\ ~Naming(stack'[L + 1]))
  OBVIOUS
<1>5. Names(stack', tree', held')
  BY <1>1, <1>2, <1>4, NamesOnward
<1>6. Ahead(stack', tree', omitted)
  BY <1>1, <1>2, AheadOnward
<1>7. Behind(stack', tree', omitted)
  BY <1>1, <1>2, BehindOnward
<1>8. RunLast(stack', tree', verdict')
  BY <1>3 DEF RunLast
<1>9. Explained(Latest(stack', verdict'), Showing(stack'), tree', exception')
  BY <1>3 DEF Latest, Showing
<1>10. TypeOK'
  <2>1. held' \subseteq Node
    <3>1. \A a : OwnsOf(a) \subseteq NamesOf(a)
      BY DEF OwnsOf, NamesOf, Owning, Naming
    <3>2. NamesOf(stack'[L]) \subseteq Node
      <4>1. NamesOf(stack'[L]) \subseteq Going(tree')
        OBVIOUS
      <4> QED
        BY <4>1 DEF Going
    <3>3. OwnsOf(stack'[L]) \subseteq Node
      BY <3>1, <3>2
    <3> QED
      BY <1>1, <3>3
  <2> QED
    BY <1>1, <2>1 DEF TypeOK
<1> QED
  BY <1>5, <1>6, <1>7, <1>8, <1>9, <1>10 DEF Inv


----------------------------------------------------------------------------
\* The end of a context's scope.

LEMMA Now ==
  ASSUME Inv, stack # <<>>
  PROVE  /\ tree \in StatusTree /\ Grown(tree, omitted) /\ omitted \in SUBSET Tasks
         /\ stack \in Seq(Activation) /\ Ahead(stack, tree, omitted) /\ Untouched(tree, Top)
         /\ Behind(stack, tree, omitted) /\ Complete(tree, omitted, Top)
         /\ Explained(Top.outcome, Task, tree, exception) /\ Control(stack, verdict)
         /\ exception \in Node \cup {Nobody} /\ Top.outcome \in Outcome \cup {"none"}
<1>1. /\ tree \in StatusTree /\ omitted \subseteq Acting /\ stack \in Seq(Activation)
      /\ exception \in Node \cup {Nobody}
  BY DEF Inv, TypeOK
<1>2. Len(stack) > 0 /\ Len(stack) \in DOMAIN stack /\ Top = stack[Len(stack)]
  BY Here
<1>3. Latest(stack, verdict) = Top.outcome /\ Showing(stack) = Task
  BY <1>2 DEF Latest, Showing, Task
<1>4. Explained(Latest(stack, verdict), Showing(stack), tree, exception)
  BY DEF Inv
<1>5. Ahead(stack, tree, omitted) /\ Untouched(tree, Top)
  BY <1>2 DEF Inv, Ahead
<1>6. Behind(stack, tree, omitted) /\ Complete(tree, omitted, Top)
  BY <1>2 DEF Inv, Behind
<1>7. Top.outcome \in Outcome \cup {"none"}
  BY <1>1, <1>2, Stacks
<1>8. Grown(tree, omitted) /\ Control(stack, verdict)
  BY DEF Inv
<1> QED
  BY <1>1, <1>3, <1>4, <1>5, <1>6, <1>7, <1>8, Basics

\* A context whose manager is finalized, its status possibly set before.
LEMMA ScopeFinal ==
  ASSUME Inv, stack # <<>>, Top.do \in {"enter", "inside"},
         NEW q, q = tree \/ \E s \in Status : q = Update(tree, Scope, s),
         tree.status[Scope] \in STOP_STATUSES => q.status[Scope] \in STOP_STATUSES
  PROVE  LET r == FinalizeManager(q, Scope)
         IN  /\ r \in StatusTree /\ Grown(r, omitted) /\ Run \notin r.locked
             /\ Going(r) = Going(tree) \ NamesOf(Top) /\ Task \in Going(r)
             /\ \A n \in Node : Absent(r, n) <=> Absent(tree, n)
             /\ \A i \in 1 .. Len(stack) - 1 : stack[i].do = "children" => Later(r, omitted, stack[i])
             /\ q.status[Scope] \in STOP_STATUSES => r.status[Scope] \in STOP_STATUSES
             /\ r.status[Scope] \in STOP_STATUSES => Blamed(r, Task)
             /\ Blamed(tree, Task) => Blamed(r, Task)
             /\ \A t \in Tasks \cap r.locked : t \in tree.locked /\ r.status[t] = tree.status[t]
<1> USE Now
<1> DEFINE r == FinalizeManager(q, Scope)
<1>1. /\ Scope \in Going(tree) /\ Scope \in Node /\ Scope \in Contexts /\ Scope \notin Tasks
      /\ Scope \in ToSet(tree.subTasks[Task]) /\ Task \in Tasks /\ Task # Scope
      /\ Task \in Going(tree) /\ NamesOf(Top) = {Scope} /\ Run \notin tree.locked /\ Scope # Run
      /\ Task \in Node \cup {Run}
  BY Here, Basics DEF NamesOf, Naming
<1>2. /\ q \in StatusTree /\ Grown(q, omitted) /\ Settles(tree, q, Scope)
      /\ Going(q) = Going(tree) /\ q.locked = tree.locked
  <2>1. CASE q = tree
    BY <2>1 DEF Settles
  <2>2. ASSUME NEW s \in Status, q = Update(tree, Scope, s) PROVE /\ q \in StatusTree /\ Grown(q, omitted) /\ Settles(tree, q, Scope)
                   /\ Going(q) = Going(tree) /\ q.locked = tree.locked
    BY <1>1, <2>2, GrownUpdate
  <2> QED
    BY <2>1, <2>2
<1>3. /\ r \in StatusTree /\ Grown(r, omitted) /\ Settles(q, r, Scope)
      /\ Going(r) = Going(q) \ {Scope} /\ r.locked = q.locked \cup {Scope}
      /\ Blamed(q, Scope) => r.status[Scope] \in STOP_STATUSES
  <2>1. ~Absent(q, Scope)
    BY <1>1, <1>2 DEF Settles, Going
  <2> QED
    BY <1>1, <1>2, <2>1, GrownFinalize
<1>4. /\ \A m \in Node \cup {Run} : Absent(r, m) <=> Absent(tree, m)
      /\ \A m \in Node \cup {Run} : m # Scope => r.status[m] = tree.status[m]
      /\ r.subTasks = tree.subTasks
  BY <1>2, <1>3 DEF Settles
<1>5. q.status[Scope] \in STOP_STATUSES => r.status[Scope] \in STOP_STATUSES
  BY <1>3 DEF Blamed
<1> HIDE DEF r
<1>6. \A i \in 1 .. Len(stack) - 1 : stack[i].do = "children" => Later(r, omitted, stack[i])
  <2>1. \A n \in Node : Absent(r, n) <=> Absent(tree, n)
    BY <1>4
  <2>2. \A i \in 1 .. Len(stack) - 1 : i \in DOMAIN stack
    BY Stacks
  <2> QED
    BY <2>1, <2>2, LaterSame
<1>7. r.status[Scope] \in STOP_STATUSES => Blamed(r, Task)
  BY <1>1, <1>4 DEF Blamed
<1>8. Blamed(tree, Task) => Blamed(r, Task)
  <2>1. ASSUME NEW n \in ToSet(tree.subTasks[Task]), tree.status[n] \in STOP_STATUSES
        PROVE  r.status[n] \in STOP_STATUSES
    <3>1. n \in Node
      <4>1. tree.subTasks[Task] \in Seq(Node)
        BY <1>1, TreeParts
      <4> QED
        BY <4>1 DEF ToSet
    <3> QED
      BY <1>4, <1>5, <2>1, <3>1
  <2> QED
    BY <1>1, <1>4, <2>1 DEF Blamed
<1>9. \A t \in Tasks \cap r.locked : t \in tree.locked /\ r.status[t] = tree.status[t]
  BY <1>1, <1>2, <1>3, <1>4, Basics
<1>10. Task \in Going(r) /\ Going(r) = Going(tree) \ NamesOf(Top) /\ Run \notin r.locked
  BY <1>1, <1>2, <1>3
<1> QED
  BY <1>3, <1>4, <1>5, <1>6, <1>7, <1>8, <1>9, <1>10 DEF r

LEMMA EnterRaisesInv ==
  ASSUME Inv, NEW kind \in {"failed", "signal"}, EnterRaises(kind)
  PROVE  Inv'
<1> DEFINE q == IF kind = "failed" THEN Update(tree, Scope, "ERROR") ELSE tree
           r == FinalizeManager(q, Scope)
<1>1. /\ stack # <<>> /\ Top.do = "enter" /\ tree' = r /\ Return(kind)
      /\ omitted' = omitted /\ held' = held
      /\ kind = "failed" => exception' = Scope
      /\ kind # "failed" => exception' = exception
  BY DEF EnterRaises, At
<1>2. /\ Scope \in Node /\ Scope # Nobody /\ Scope \in Going(tree)
      /\ OwnsOf(Top) = {} /\ kind \in Outcome
      /\ exception \in Node \cup {Nobody} /\ tree \in StatusTree /\ Grown(tree, omitted) /\ omitted \in SUBSET Tasks
  BY <1>1, Here, Now, Basics DEF OwnsOf, Owning, Outcome
<1>3. /\ q = tree \/ \E s \in Status : q = Update(tree, Scope, s)
      /\ tree.status[Scope] \in STOP_STATUSES => q.status[Scope] \in STOP_STATUSES
      /\ kind = "failed" => q.status[Scope] \in STOP_STATUSES
  <2>1. CASE kind = "failed"
    <3>1. q = Update(tree, Scope, "ERROR") /\ "ERROR" \in Status
      BY <2>1 DEF Status
    <3>2. q.status[Scope] = "ERROR"
      BY <1>2, <3>1, GrownUpdate
    <3> QED
      BY <3>1, <3>2 DEF STOP_STATUSES
  <2> QED
    BY <2>1
<1> HIDE DEF q
<1>4. /\ r \in StatusTree /\ Grown(r, omitted) /\ Run \notin r.locked
      /\ Going(r) = Going(tree) \ NamesOf(Top)
      /\ \A n \in Node : Absent(r, n) <=> Absent(tree, n)
      /\ \A i \in 1 .. Len(stack) - 1 : stack[i].do = "children" => Later(r, omitted, stack[i])
      /\ q.status[Scope] \in STOP_STATUSES => r.status[Scope] \in STOP_STATUSES
      /\ r.status[Scope] \in STOP_STATUSES => Blamed(r, Task)
  BY <1>1, <1>3, ScopeFinal
<1> HIDE DEF r
<1>5. Explained(kind, Task, r, exception')
  BY <1>1, <1>2, <1>3, <1>4 DEF Explained, Ordinary
<1>6. Len(stack) > 1 /\ stack[Len(stack) - 1].of = Task
  BY <1>1, Here
<1>7. Explained(kind, IF Len(stack) > 1 THEN stack[Len(stack) - 1].of ELSE Run, tree', exception')
  BY <1>1, <1>5, <1>6
<1>8. exception' \in Node \cup {Nobody}
  BY <1>1, <1>2
<1> QED
  BY <1>1, <1>2, <1>4, <1>7, <1>8, ReturnStep

LEMMA ExitRaisesInv ==
  ASSUME Inv, NEW kind \in {"failed", "signal"}, ExitRaises(kind)
  PROVE  Inv'
<1> DEFINE o == Combine(Top.outcome, kind)
           q == IF kind = "failed" THEN Update(tree, Scope, "ERROR") ELSE tree
           r == FinalizeManager(q, Scope)
<1>1. /\ stack # <<>> /\ Top.do = "inside" /\ tree' = r /\ Return(o)
      /\ omitted' = omitted /\ held' = held \ {Scope}
      /\ kind = "failed" => exception' = Scope
      /\ kind # "failed" => exception' = exception
  BY DEF ExitRaises, At
<1>2. /\ Scope \in Node /\ Scope # Nobody /\ Scope \in Going(tree)
      /\ OwnsOf(Top) = {Scope}
      /\ exception \in Node \cup {Nobody} /\ tree \in StatusTree /\ Grown(tree, omitted) /\ omitted \in SUBSET Tasks
  BY <1>1, Here, Now, Basics DEF OwnsOf, Owning
<1>3. /\ q = tree \/ \E s \in Status : q = Update(tree, Scope, s)
      /\ tree.status[Scope] \in STOP_STATUSES => q.status[Scope] \in STOP_STATUSES
      /\ kind = "failed" => q.status[Scope] \in STOP_STATUSES
  <2>1. CASE kind = "failed"
    <3>1. q = Update(tree, Scope, "ERROR") /\ "ERROR" \in Status
      BY <2>1 DEF Status
    <3>2. q.status[Scope] = "ERROR"
      BY <1>2, <3>1, GrownUpdate
    <3> QED
      BY <3>1, <3>2 DEF STOP_STATUSES
  <2> QED
    BY <2>1
<1>o. o \in Outcome /\ (o = "signal" \/ (o = "failed" /\ kind = "failed"))
  BY DEF Combine, Outcome
<1> HIDE DEF q, o
<1>4. /\ r \in StatusTree /\ Grown(r, omitted) /\ Run \notin r.locked
      /\ Going(r) = Going(tree) \ NamesOf(Top)
      /\ \A n \in Node : Absent(r, n) <=> Absent(tree, n)
      /\ \A i \in 1 .. Len(stack) - 1 : stack[i].do = "children" => Later(r, omitted, stack[i])
      /\ q.status[Scope] \in STOP_STATUSES => r.status[Scope] \in STOP_STATUSES
      /\ r.status[Scope] \in STOP_STATUSES => Blamed(r, Task)
  BY <1>1, <1>3, ScopeFinal
<1> HIDE DEF r
<1>5. Explained(o, Task, r, exception')
  BY <1>1, <1>2, <1>3, <1>4, <1>o DEF Explained, Ordinary
<1>6. Len(stack) > 1 /\ stack[Len(stack) - 1].of = Task
  BY <1>1, Here
<1>7. Explained(o, IF Len(stack) > 1 THEN stack[Len(stack) - 1].of ELSE Run, tree', exception')
  BY <1>1, <1>5, <1>6
<1>8. exception' \in Node \cup {Nobody}
  BY <1>1, <1>2
<1> QED
  BY <1>1, <1>2, <1>4, <1>7, <1>8, <1>o, ReturnStep

LEMMA ExitInv ==
  ASSUME Inv, stack # <<>>, Top.do = "inside", Top.outcome # "none", NEW suppressed,
         NEW q, q = tree \/ \E s \in Status : q = Update(tree, Scope, s),
         tree.status[Scope] \in STOP_STATUSES => q.status[Scope] \in STOP_STATUSES,
         Exit(suppressed, q)
  PROVE  Inv'
<1> DEFINE o == Top.outcome
           r == FinalizeManager(q, Scope)
<1>1. /\ Scope \in Node /\ Scope # Nobody /\ OwnsOf(Top) = {Scope} /\ o \in Outcome
      /\ exception \in Node \cup {Nobody} /\ omitted \in SUBSET Tasks
      /\ Explained(o, Task, tree, exception) /\ Complete(tree, omitted, Top)
      /\ Task \in Tasks /\ Len(stack) > 1 /\ stack[Len(stack) - 1].of = Task
  BY Here, Now, Basics DEF OwnsOf, Owning
<1>2. /\ r \in StatusTree /\ Grown(r, omitted) /\ Run \notin r.locked
      /\ Going(r) = Going(tree) \ NamesOf(Top) /\ Task \in Going(r)
      /\ \A n \in Node : Absent(r, n) <=> Absent(tree, n)
      /\ \A i \in 1 .. Len(stack) - 1 : stack[i].do = "children" => Later(r, omitted, stack[i])
      /\ r.status[Scope] \in STOP_STATUSES => Blamed(r, Task)
      /\ Blamed(tree, Task) => Blamed(r, Task)
      /\ \A t \in Tasks \cap r.locked : t \in tree.locked /\ r.status[t] = tree.status[t]
  BY ScopeFinal
<1>3. o = "more" => Done(r, omitted, Task)
  <2>1. o = "more" => Done(tree, omitted, Task)
    BY <1>1 DEF Complete, Task
  <2>2. ToSet(Scopes[Task]) \subseteq Node /\ ToSet(Children[Task]) \subseteq Node
    BY <1>1, Basics DEF ToSet
  <2> QED
    BY <1>2, <2>1, <2>2 DEF Done
<1>4. /\ held' = held \ {Scope} /\ omitted' = omitted
      /\ \/ /\ o \in Ordinary /\ tree' = Update(r, Task, "FAILURE_COVERED")
            /\ Return("stop") /\ exception' = exception
         \/ /\ o \in {"more", "stop"} /\ r.status[Scope] \in STOP_STATUSES
            /\ tree' = r /\ exception' = Scope /\ Return("stopped")
         \/ tree' = r /\ exception' = exception /\ Return(o)
  BY DEF Exit, Covered
<1> HIDE DEF r, o
<1>5. CASE o \in Ordinary /\ tree' = Update(r, Task, "FAILURE_COVERED")
            /\ Return("stop") /\ exception' = exception
  <2>1. "FAILURE_COVERED" \in Status /\ "FAILURE_COVERED" \in STOP_STATUSES /\ "stop" \in Outcome
    BY DEF Status, STOP_STATUSES, Outcome
  <2>2. /\ tree' \in StatusTree /\ Grown(tree', omitted) /\ Settles(r, tree', Task)
        /\ Going(tree') = Going(r) /\ tree'.status[Task] = "FAILURE_COVERED"
        /\ tree'.locked = r.locked
    BY <1>1, <1>2, <1>5, <2>1, GrownUpdate
  <2>3. \A n \in Node : Absent(tree', n) <=> Absent(r, n)
    BY <2>2 DEF Settles
  <2>4. Explained("stop", Task, tree', exception')
    BY <2>1, <2>2 DEF Explained, Ordinary, Blamed
  <2>5. Explained("stop", IF Len(stack) > 1 THEN stack[Len(stack) - 1].of ELSE Run, tree', exception')
    BY <1>1, <2>4
  <2>6. ASSUME NEW i \in 1 .. Len(stack) - 1, stack[i].do = "children" PROVE Later(tree', omitted, stack[i])
    <3>1. Later(r, omitted, stack[i]) /\ stack[i].of \in Tasks
      BY <1>2, <2>6, Now, Stacks
    <3>2. \A j \in DOMAIN Children[stack[i].of] : Children[stack[i].of][j] \in Node
      BY <3>1, Basics
    <3> QED
      BY <2>3, <3>1, <3>2 DEF Later
  <2>7. Going(tree') = Going(tree) \ NamesOf(Top)
    BY <1>2, <2>2
  <2>8. \A n \in Node : ~Absent(tree, n) => ~Absent(tree', n)
    BY <1>2, <2>3
  <2> QED
    BY <1>1, <1>2, <1>4, <1>5, <2>1, <2>2, <2>5, <2>6, <2>7, <2>8, ReturnStep
<1>6. CASE o \in {"more", "stop"} /\ r.status[Scope] \in STOP_STATUSES
            /\ tree' = r /\ exception' = Scope /\ Return("stopped")
  <2>1. Explained("stopped", Task, tree', exception') /\ "stopped" \in Outcome
    BY <1>1, <1>2, <1>6 DEF Explained, Ordinary, Outcome
  <2>2. Explained("stopped", IF Len(stack) > 1 THEN stack[Len(stack) - 1].of ELSE Run, tree', exception')
    BY <1>1, <2>1
  <2> QED
    BY <1>1, <1>2, <1>4, <1>6, <2>1, <2>2, ReturnStep
<1>7. CASE tree' = r /\ exception' = exception /\ Return(o)
  <2>1. Explained(o, Task, tree', exception')
    BY <1>1, <1>2, <1>7 DEF Explained
  <2>2. Explained(o, IF Len(stack) > 1 THEN stack[Len(stack) - 1].of ELSE Run, tree', exception')
    BY <1>1, <2>1
  <2> QED
    BY <1>1, <1>2, <1>3, <1>4, <1>7, <2>2, ReturnStep
<1> QED
  BY <1>4, <1>5, <1>6, <1>7

LEMMA ScopeExitsInv ==
  ASSUME Inv, NEW suppressed \in BOOLEAN, ScopeExits(suppressed)
  PROVE  Inv'
BY ExitInv DEF ScopeExits, At

LEMMA CoveringExitsInv ==
  ASSUME Inv, CoveringExits
  PROVE  Inv'
<1>1. stack # <<>> /\ Top.do = "inside" /\ Top.outcome # "none"
  BY DEF CoveringExits, At
<1> DEFINE q == IF Top.outcome \in Ordinary THEN Update(tree, Scope, "FAILURE_COVERED") ELSE tree
<1>2. \E suppressed : Exit(suppressed, q)
  BY DEF CoveringExits
<1>3. /\ q = tree \/ \E s \in Status : q = Update(tree, Scope, s)
      /\ tree.status[Scope] \in STOP_STATUSES => q.status[Scope] \in STOP_STATUSES
  <2>1. CASE Top.outcome \in Ordinary
    <3>1. q = Update(tree, Scope, "FAILURE_COVERED") /\ "FAILURE_COVERED" \in Status
      BY <2>1 DEF Status
    <3>2. q.status[Scope] = "FAILURE_COVERED"
      BY <1>1, <3>1, Here, Now, GrownUpdate
    <3> QED
      BY <3>1, <3>2 DEF STOP_STATUSES
  <2> QED
    BY <2>1
<1> HIDE DEF q
<1> QED
  BY <1>1, <1>2, <1>3, ExitInv

----------------------------------------------------------------------------
\* The action, and the end of the children.

\* A step that leaves the tree as it is.
LEMMA StillLater ==
  ASSUME Inv, NEW r, \A n \in Node : Absent(r, n) <=> Absent(tree, n)
  PROVE  \A i \in 1 .. Len(stack) - 1 : stack[i].do = "children" => Later(r, omitted, stack[i])
<1>1. stack \in Seq(Activation) /\ Ahead(stack, tree, omitted)
  BY DEF Inv, TypeOK
<1>2. \A i \in 1 .. Len(stack) - 1 : i \in DOMAIN stack
  BY <1>1, Stacks
<1> QED
  BY <1>1, <1>2, LaterSame

\* What was missing under the innermost activation's task may be filled in.
LEMMA Filled ==
  ASSUME Inv, stack # <<>>, Top.do # "start", NEW r \in StatusTree, Grown(r, omitted),
         r = tree \/ Fills(tree, r, Task)
  PROVE  /\ Going(r) = Going(tree) /\ Run \notin r.locked
         /\ \A n \in Node \cup {Run} : ~Absent(tree, n) => ~Absent(r, n)
         /\ Blamed(tree, Task) => Blamed(r, Task)
         /\ \A i \in 1 .. Len(stack) - 1 : stack[i].do = "children" => Later(r, omitted, stack[i])
         /\ Task \in Going(r)
<1>1. /\ Task \in Tasks /\ Task \in Node /\ Run \notin tree.locked
      /\ tree \in StatusTree /\ Grown(tree, omitted) /\ omitted \in SUBSET Tasks
      /\ Top = stack[Len(stack)] /\ Len(stack) \in DOMAIN stack /\ Task \in Going(tree)
      /\ Ahead(stack, tree, omitted)
  BY Here, Now, Basics
<1>2. /\ Going(r) = Going(tree) /\ Run \notin r.locked
      /\ \A n \in Node \cup {Run} : ~Absent(tree, n) => ~Absent(r, n) /\ r.status[n] = tree.status[n]
  <2>1. CASE Fills(tree, r, Task)
    <3>1. ~Absent(tree, Run)
      BY <1>1 DEF Grown
    <3>2. Run \notin r.locked
      BY <1>1, <2>1, <3>1, Basics DEF Fills
    <3> QED
      BY <2>1, <3>2 DEF Fills, Absent
  <2> QED
    BY <1>1, <2>1
<1>3. Blamed(tree, Task) => Blamed(r, Task)
  <2>1. ASSUME NEW n \in ToSet(tree.subTasks[Task])
        PROVE  n \in Node /\ n \in ToSet(r.subTasks[Task]) /\ r.status[n] = tree.status[n]
    <3>1. n \in Below(Task) /\ ~Absent(tree, n) /\ n \in Node
      BY <1>1, <2>1, BelowPlace DEF Grown
    <3> QED
      BY <1>1, <1>2, <3>1 DEF Grown
  <2>2. r.status[Task] = tree.status[Task]
    BY <1>1, <1>2 DEF Going
  <2> QED
    BY <2>1, <2>2 DEF Blamed
<1>4. \A i \in 1 .. Len(stack) - 1 : stack[i].do = "children" => Later(r, omitted, stack[i])
  <2>1. CASE r = tree
    BY <2>1, StillLater
  <2>2. CASE Fills(tree, r, Task)
    <3>1. Fills(tree, r, stack[Len(stack)].of)
      BY <1>1, <2>2 DEF Task
    <3>2. stack \in Seq(Activation) /\ Len(stack) > 0 /\ OneBody(stack)
      BY Here, Now DEF Control
    <3>3. \A i \in 1 .. Len(stack) : stack[i].do = "children" => stack[i].of \in Going(tree)
      BY Here
    <3> QED
      BY <1>1, <3>1, <3>2, <3>3, LaterFills
  <2> QED
    BY <2>1, <2>2
<1> QED
  BY <1>1, <1>2, <1>3, <1>4

LEMMA ActionRaisesInv ==
  ASSUME Inv, NEW kind \in {"failed", "signal"}, ActionRaises(kind)
  PROVE  Inv'
<1>1. /\ stack # <<>> /\ Top.do = "act" /\ Return(kind) /\ omitted' = omitted /\ held' = held
      /\ kind = "failed" => tree' = Update(tree, Task, "ERROR") /\ exception' = Task
      /\ kind # "failed" => tree' = tree /\ exception' = exception
  BY DEF ActionRaises, RecordException, At
<1>2. /\ Task \in Tasks /\ Task \in Node /\ Task # Nobody /\ Task \in Going(tree)
      /\ Len(stack) > 1 /\ stack[Len(stack) - 1].of = Task
      /\ NamesOf(Top) = {} /\ OwnsOf(Top) = {} /\ kind \in Outcome /\ Run \notin tree.locked
      /\ exception \in Node \cup {Nobody} /\ tree \in StatusTree /\ Grown(tree, omitted)
      /\ omitted \in SUBSET Tasks
  BY <1>1, Here, Now, Basics DEF NamesOf, Naming, OwnsOf, Owning, Outcome
<1>3. /\ tree' \in StatusTree /\ Grown(tree', omitted) /\ Run \notin tree'.locked
      /\ Going(tree') = Going(tree)
      /\ \A n \in Node : Absent(tree', n) <=> Absent(tree, n)
      /\ kind = "failed" => tree'.status[Task] = "ERROR"
  <2>1. CASE kind = "failed"
    <3>1. tree' = Update(tree, Task, "ERROR") /\ "ERROR" \in Status
      BY <1>1, <2>1 DEF Status
    <3> QED
      BY <1>2, <3>1, GrownUpdate DEF Settles
  <2> QED
    BY <1>1, <1>2, <2>1
<1>4. Explained(kind, Task, tree', exception')
  BY <1>1, <1>2, <1>3 DEF Explained, Ordinary, Blamed, STOP_STATUSES
<1>5. Explained(kind, IF Len(stack) > 1 THEN stack[Len(stack) - 1].of ELSE Run, tree', exception')
  BY <1>2, <1>4
<1>6. exception' \in Node \cup {Nobody}
  BY <1>1, <1>2
<1>7. \A i \in 1 .. Len(stack) - 1 : stack[i].do = "children" => Later(tree', omitted, stack[i])
  BY <1>3, StillLater
<1> QED
  BY <1>1, <1>2, <1>3, <1>5, <1>6, <1>7, ReturnStep

\* All the children have ended well.
LEMMA ChildrenDoneInv ==
  ASSUME Inv, ChildrenDone
  PROVE  Inv'
<1>1. /\ stack # <<>> /\ Top.do = "children" /\ Top.outcome = "none"
      /\ Top.index > Len(Children[Task]) /\ Return("more") /\ omitted' = omitted /\ held' = held
      /\ tree' = tree /\ exception' = exception
  BY DEF ChildrenDone, At
<1>2. /\ Task \in Tasks /\ Len(stack) > 1 /\ stack[Len(stack) - 1].of = Task
      /\ NamesOf(Top) = {} /\ OwnsOf(Top) = {} /\ "more" \in Outcome /\ Run \notin tree.locked
      /\ exception \in Node \cup {Nobody} /\ tree \in StatusTree /\ Grown(tree, omitted)
      /\ Explained("none", Task, tree, exception) /\ Behind(stack, tree, omitted)
      /\ \A n \in ToSet(Scopes[Task]) : n \in Going(tree)
      /\ Top = stack[Len(stack)] /\ Len(stack) \in DOMAIN stack /\ Top \in Activation
  BY <1>1, Here, Now, Basics DEF NamesOf, Naming, OwnsOf, Owning, Outcome
<1>3. Done(tree, omitted, Task)
  <2>1. Earlier(tree, Top)
    BY <1>1, <1>2 DEF Behind
  <2>2. Top.of = Task /\ Top.index \in Nat
    BY <1>2 DEF Task, Activation
  <2>3. DOMAIN Children[Task] = 1 .. Len(Children[Task]) /\ Len(Children[Task]) \in Nat
    BY <1>2, Basics
  <2>4. \A j \in 1 .. Len(Children[Task]) : j < Top.index
    BY ONLY <1>1, <2>2, <2>3
  <2>5. \A c \in ToSet(Children[Task]) : ~Absent(tree, c)
    BY <2>1, <2>2, <2>3, <2>4 DEF Earlier, ToSet
  <2> QED
    BY <1>2, <2>5 DEF Done, Going
<1>4. Explained("more", Task, tree', exception')
  BY <1>1, <1>2 DEF Explained, Ordinary
<1>5. Explained("more", IF Len(stack) > 1 THEN stack[Len(stack) - 1].of ELSE Run, tree', exception')
  BY <1>2, <1>4
<1>6. \A i \in 1 .. Len(stack) - 1 : stack[i].do = "children" => Later(tree', omitted, stack[i])
  BY <1>1, StillLater
<1> QED
  BY <1>1, <1>2, <1>3, <1>5, <1>6, ReturnStep

\* A child has stopped or failed.
LEMMA ChildStops ==
  ASSUME Inv, ChildEnded, Top.outcome # "more"
  PROVE  Inv'
<1> DEFINE o == Top.outcome
           ts == SubSeq(Children[Task], Top.index + 1, Len(Children[Task]))
<1>1. /\ stack # <<>> /\ Top.do = "children" /\ o # "none" /\ Return(o)
      /\ omitted' = omitted /\ held' = held /\ exception' = exception
      /\ o = "stop" => tree' = SkipTasks(tree, Task, ts)
      /\ o # "stop" => tree' = tree
  BY DEF ChildEnded, At
<1>2. /\ Task \in Tasks /\ Task \in Node /\ Len(stack) > 1 /\ stack[Len(stack) - 1].of = Task
      /\ NamesOf(Top) = {} /\ OwnsOf(Top) = {} /\ o \in Outcome /\ Run \notin tree.locked
      /\ exception \in Node \cup {Nobody} /\ tree \in StatusTree /\ Grown(tree, omitted)
      /\ Explained(o, Task, tree, exception) /\ omitted \in SUBSET Tasks
      /\ Top = stack[Len(stack)] /\ Len(stack) \in DOMAIN stack /\ Task \in Going(tree)
      /\ Ahead(stack, tree, omitted) /\ Innermost(Top)
  BY <1>1, Here, Now, Basics DEF NamesOf, Naming, OwnsOf, Owning
<1>3. /\ Later(tree, omitted, Top) /\ Top.of = Task /\ Top.index \in DOMAIN Children[Task]
  BY <1>1, <1>2 DEF Ahead, Task, Innermost
<1>4. /\ ts \in Seq(Tasks) /\ IsInjective(ts) /\ ToSet(ts) \subseteq ToSet(Children[Task])
      /\ \A x \in ToSet(ts) : Absent(tree, x)
  <2>1. /\ Children[Task] \in Seq(Tasks) /\ IsInjective(Children[Task])
        /\ DOMAIN Children[Task] = 1 .. Len(Children[Task]) /\ Len(Children[Task]) \in Nat
    BY <1>2, Basics
  <2>2. Top.index \in 1 .. Len(Children[Task])
    BY <1>3, <2>1
  <2>3. /\ ts \in Seq(Tasks) /\ IsInjective(ts)
        /\ ToSet(ts) = {Children[Task][j] : j \in Top.index + 1 .. Len(Children[Task])}
    BY <2>1, <2>2, Suffix
  <2>4. \A j \in Top.index + 1 .. Len(Children[Task]) : j > Top.index /\ j \in 1 .. Len(Children[Task])
    BY ONLY <2>1, <2>2
  <2>5. \A j \in Top.index + 1 .. Len(Children[Task]) :
          Absent(tree, Children[Task][j]) /\ Children[Task][j] \in ToSet(Children[Task])
    BY <1>3, <2>1, <2>4 DEF Later, ToSet
  <2> QED
    BY <2>3, <2>5
<1> HIDE DEF ts, o
<1>5. /\ tree' \in StatusTree /\ Grown(tree', omitted)
      /\ tree' = tree \/ Fills(tree, tree', Task)
  <2>1. CASE o = "stop"
    <3>1. ~Absent(tree, Task) /\ Task \notin omitted
      BY <1>2, <1>3 DEF Going, Later
    <3>2. tree' = SkipTasks(tree, Task, ts)
      BY <1>1, <2>1
    <3> QED
      BY <1>2, <1>4, <3>1, <3>2, GrownSkip
  <2> QED
    BY <1>1, <1>2, <2>1
<1>6. /\ Going(tree') = Going(tree) /\ Run \notin tree'.locked
      /\ \A n \in Node \cup {Run} : ~Absent(tree, n) => ~Absent(tree', n)
      /\ Blamed(tree, Task) => Blamed(tree', Task)
      /\ \A i \in 1 .. Len(stack) - 1 : stack[i].do = "children" => Later(tree', omitted, stack[i])
  BY <1>1, <1>5, Filled
<1>9. Explained(o, Task, tree', exception')
  BY <1>1, <1>2, <1>6 DEF Explained, o
<1>10. Explained(o, IF Len(stack) > 1 THEN stack[Len(stack) - 1].of ELSE Run, tree', exception')
  BY <1>2, <1>9
<1>11. o # "more"
  BY DEF o
<1> QED
  BY <1>1, <1>2, <1>5, <1>6, <1>10, <1>11, ReturnStep

----------------------------------------------------------------------------
\* The end of a task.

LEMMA EndTaskTree ==
  ASSUME Inv, stack # <<>>, Top.do = "task", Top.outcome # "none",
         NEW cleanup \in {"none", "failed", "signal"},
         NEW q, q = IF Unfinished(Top.outcome) THEN AddUnexecuted(tree, Task) ELSE tree,
         NEW d, d = IF cleanup = "failed" THEN Update(q, Task, "ERROR") ELSE q
  PROVE  LET r == FinalizeManager(d, Task)
         IN  /\ r \in StatusTree /\ Grown(r, omitted) /\ Run \notin r.locked
             /\ Going(r) = Going(tree) \ {Task}
             /\ \A n \in Node \cup {Run} : ~Absent(tree, n) => ~Absent(r, n)
             /\ \A i \in 1 .. Len(stack) - 1 : stack[i].do = "children" => Later(r, omitted, stack[i])
             /\ Blamed(tree, Task) \/ cleanup = "failed" => r.status[Task] \in STOP_STATUSES
             /\ Top.outcome = "more" /\ cleanup # "failed" =>
                  \A t \in Tasks \cap r.locked :
                    t = Task \/ (t \in tree.locked /\ r.status[t] = tree.status[t])
<1> DEFINE r == FinalizeManager(d, Task)
<1>1. /\ Task \in Tasks /\ Task \in Node /\ Task # Run /\ Run \notin tree.locked
      /\ tree \in StatusTree /\ Grown(tree, omitted) /\ omitted \in SUBSET Tasks
      /\ Task \in Going(tree) /\ Complete(tree, omitted, Top)
  BY Here, Now, Basics
<1>2. /\ q \in StatusTree /\ Grown(q, omitted) /\ Done(q, omitted, Task)
      /\ q = tree \/ Fills(tree, q, Task)
      /\ Top.outcome = "more" => q = tree
  <2>1. CASE Top.outcome = "more"
    BY <1>1, <2>1 DEF Unfinished, Complete, Task
  <2>2. CASE Top.outcome # "more"
    <3>1. q = AddUnexecuted(tree, Task)
      BY <2>2 DEF Unfinished
    <3> QED
      BY <1>1, <2>2, <3>1, GrownUnexecuted DEF Going
  <2> QED
    BY <2>1, <2>2
<1>3. /\ Going(q) = Going(tree) /\ Run \notin q.locked
      /\ \A n \in Node \cup {Run} : ~Absent(tree, n) => ~Absent(q, n)
      /\ Blamed(tree, Task) => Blamed(q, Task)
      /\ \A i \in 1 .. Len(stack) - 1 : stack[i].do = "children" => Later(q, omitted, stack[i])
      /\ Task \in Going(q)
  BY <1>2, Filled
<1>4. /\ d \in StatusTree /\ Grown(d, omitted) /\ Settles(q, d, Task)
      /\ Going(d) = Going(q) /\ d.locked = q.locked
      /\ cleanup # "failed" => d = q
      /\ cleanup = "failed" => Blamed(d, Task)
  <2>1. CASE cleanup = "failed"
    <3>1. d = Update(q, Task, "ERROR") /\ "ERROR" \in Status /\ "ERROR" \in STOP_STATUSES
      BY <2>1 DEF Status, STOP_STATUSES
    <3> QED
      BY <1>1, <1>2, <1>3, <2>1, <3>1, GrownUpdate DEF Blamed
  <2>2. CASE cleanup # "failed"
    <3>1. d = q
      BY <2>2
    <3> QED
      BY <1>2, <2>2, <3>1 DEF Settles
  <2> QED
    BY <2>1, <2>2
<1>5. Done(d, omitted, Task) /\ ~Absent(d, Task)
  <2>1. ToSet(Scopes[Task]) \subseteq Node /\ ToSet(Children[Task]) \subseteq Node
    BY <1>1, Basics DEF ToSet
  <2>2. \A n \in Node : Absent(d, n) <=> Absent(q, n)
    BY <1>4 DEF Settles
  <2> QED
    BY <1>1, <1>2, <1>3, <2>1, <2>2 DEF Done, Going
<1>6. /\ r \in StatusTree /\ Grown(r, omitted) /\ Settles(d, r, Task)
      /\ Going(r) = Going(d) \ {Task} /\ r.locked = d.locked \cup {Task}
      /\ Blamed(d, Task) => r.status[Task] \in STOP_STATUSES
  BY <1>1, <1>4, <1>5, GrownFinalize
<1> HIDE DEF r
<1>7. \A n \in Node \cup {Run} : Absent(r, n) <=> Absent(q, n)
  BY <1>4, <1>6 DEF Settles
<1>8. \A i \in 1 .. Len(stack) - 1 : stack[i].do = "children" => Later(r, omitted, stack[i])
  <2> SUFFICES ASSUME NEW i \in 1 .. Len(stack) - 1, stack[i].do = "children"
               PROVE  Later(r, omitted, stack[i])
    OBVIOUS
  <2>1. Later(q, omitted, stack[i]) /\ stack[i].of \in Tasks
    BY <1>3, Now, Stacks
  <2>2. \A j \in DOMAIN Children[stack[i].of] : Children[stack[i].of][j] \in Node
    BY <2>1, Basics
  <2> QED
    BY <1>7, <2>1, <2>2 DEF Later
<1>9. Blamed(tree, Task) \/ cleanup = "failed" => r.status[Task] \in STOP_STATUSES
  BY <1>3, <1>4, <1>6
<1>10. ASSUME Top.outcome = "more", cleanup # "failed", NEW t \in Tasks \cap r.locked, t # Task
       PROVE  t \in tree.locked /\ r.status[t] = tree.status[t]
  BY <1>2, <1>4, <1>6, <1>10, Basics DEF Settles
<1>11. Run \notin r.locked /\ Going(r) = Going(tree) \ {Task}
  BY <1>1, <1>3, <1>4, <1>6
<1> QED
  BY <1>3, <1>6, <1>7, <1>8, <1>9, <1>10, <1>11 DEF r

LEMMA EndTaskInv ==
  ASSUME Inv, NEW cleanup \in {"none", "failed", "signal"}, EndTask(cleanup)
  PROVE  Inv'
<1> DEFINE o == Top.outcome
           pending == IF cleanup = "none" THEN o ELSE Combine(o, cleanup)
           q == IF Unfinished(Top.outcome) THEN AddUnexecuted(tree, Task) ELSE tree
           d == IF cleanup = "failed" THEN Update(q, Task, "ERROR") ELSE q
           r == FinalizeManager(d, Task)
           p == IF pending = "more" /\ r.status[Task] \in STOP_STATUSES THEN "stop" ELSE pending
           N == IF Len(stack) > 1 THEN stack[Len(stack) - 1].of ELSE Run
<1>1. /\ stack # <<>> /\ Top.do = "task" /\ o # "none" /\ tree' = r /\ held' = held \ {Task}
      /\ Return(p) /\ omitted' = omitted
      /\ cleanup = "failed" => exception' = Task
      /\ cleanup # "failed" => exception' = exception
  BY DEF EndTask, At
<1>2. /\ Task \in Tasks /\ Task \in Node /\ Task # Nobody
      /\ exception \in Node \cup {Nobody} /\ omitted \in SUBSET Tasks /\ o \in Outcome
      /\ Explained(o, Task, tree, exception) /\ Task \in Going(tree)
  BY <1>1, Here, Now, Basics
<1>3. NamesOf(Top) = {Task} /\ OwnsOf(Top) = {Task}
  BY <1>1 DEF NamesOf, OwnsOf, Naming, Owning, NodeOf, Task
<1>4. /\ pending \in Outcome
      /\ pending = "more" => o = "more" /\ cleanup = "none"
      /\ pending = "stop" => o = "stop"
      /\ pending \in Ordinary => (pending = o /\ cleanup # "failed") \/ cleanup = "failed"
  BY <1>2 DEF Combine, Outcome, Ordinary
<1>5. /\ p \in Outcome
      /\ p = "more" => pending = "more" /\ r.status[Task] \notin STOP_STATUSES
      /\ p # "more" => r.status[Task] \in STOP_STATUSES \/ p = pending
      /\ p \in Ordinary => p = pending
  BY <1>4 DEF Outcome, Ordinary
<1>6. /\ r \in StatusTree /\ Grown(r, omitted) /\ Run \notin r.locked
      /\ Going(r) = Going(tree) \ {Task}
      /\ \A n \in Node \cup {Run} : ~Absent(tree, n) => ~Absent(r, n)
      /\ \A i \in 1 .. Len(stack) - 1 : stack[i].do = "children" => Later(r, omitted, stack[i])
      /\ Blamed(tree, Task) \/ cleanup = "failed" => r.status[Task] \in STOP_STATUSES
      /\ Top.outcome = "more" /\ cleanup # "failed" =>
           \A t \in Tasks \cap r.locked :
             t = Task \/ (t \in tree.locked /\ r.status[t] = tree.status[t])
  BY <1>1, EndTaskTree
<1> HIDE DEF p, pending, r, q, d
<1>7. N \in Node \cup {Run} /\ Task \in ToSet(r.subTasks[N])
  <2>1. N \in Node \cup {Run} /\ Task \in Below(N)
    <3>1. CASE Len(stack) > 1
      <4>1. /\ stack[Len(stack) - 1].index \in DOMAIN Children[stack[Len(stack) - 1].of]
            /\ Children[stack[Len(stack) - 1].of][stack[Len(stack) - 1].index] = Task
        BY <1>1, <3>1, Here
      <4>2. stack[Len(stack) - 1].of \in Tasks
        <5>1. Len(stack) - 1 \in DOMAIN stack
          BY <3>1, <1>1, Here, Now, Stacks
        <5> QED
          BY <5>1, Now, <1>1, Stacks
      <4> QED
        BY <3>1, <4>1, <4>2, Basics DEF Below, ToSet
    <3>2. CASE ~(Len(stack) > 1)
      BY <1>1, <3>2, Here DEF Below
    <3> QED
      BY <3>1, <3>2
  <2>2. ~Absent(r, Task)
    BY <1>2, <1>6 DEF Going
  <2> QED
    BY <1>6, <2>1, <2>2 DEF Grown
<1>8. Explained(p, N, r, exception')
  <2>1. CASE p = "more"
    <3>1. o = "more" /\ cleanup # "failed" /\ exception' = exception
      BY <1>1, <1>4, <1>5, <2>1
    <3>2. exception' = Nobody
      BY <1>2, <3>1 DEF Explained
    <3>3. \A t \in Tasks \cap r.locked : r.status[t] \notin STOP_STATUSES
      BY <1>2, <1>5, <1>6, <2>1, <3>1 DEF Explained
    <3> QED
      BY <2>1, <3>2, <3>3 DEF Explained, Ordinary
  <2>2. CASE p # "more"
    <3>1. p \in Ordinary => exception' # Nobody
      BY <1>1, <1>2, <1>4, <1>5 DEF Explained
    <3>2. p \in {"stop"} \cup Ordinary => r.status[Task] \in STOP_STATUSES
      BY <1>2, <1>4, <1>5, <1>6, <2>2 DEF Explained, Ordinary
    <3>3. p # "none"
      BY <1>5 DEF Outcome
    <3> QED
      BY <1>7, <2>2, <3>1, <3>2, <3>3 DEF Explained, Blamed
  <2> QED
    BY <2>1, <2>2
<1>9. Explained(p, IF Len(stack) > 1 THEN stack[Len(stack) - 1].of ELSE Run, tree', exception')
  BY <1>1, <1>8
<1>10. exception' \in Node \cup {Nobody}
  BY <1>1, <1>2
<1>11. Going(tree') = Going(tree) \ NamesOf(Top) /\ held' = held \ OwnsOf(Top)
  BY <1>1, <1>3, <1>6
<1>12. ~Absent(tree', Task)
  BY <1>1, <1>2, <1>6 DEF Going
<1> QED
  BY <1>1, <1>5, <1>6, <1>9, <1>10, <1>11, <1>12, ReturnStep

----------------------------------------------------------------------------
\* The steps that go on.

\* What runs inside the first scopes of a task.
LEMMA InnerPlaced ==
  ASSUME NEW t \in Tasks, NEW i \in 1 .. Len(Scopes[t]) + 1
  PROVE  /\ Inner(t, i) \in Activation /\ Inner(t, i).of = t /\ Inner(t, i).outcome = "none"
         /\ Inner(t, i).do \in {"open", "act", "children"}
         /\ Inner(t, i).do = "open" => Inner(t, i).index = i
         /\ Inner(t, i).do = "children" => Inner(t, i).index = 1 /\ t \notin Acting
         /\ Placed(Inner(t, i)) /\ Innermost(Inner(t, i)) /\ ~Naming(Inner(t, i))
         /\ Around(Inner(t, i)) = {t} \cup {Scopes[t][j] : j \in 1 .. i - 1}
<1> DEFINE b == Inner(t, i)
           n == Len(Scopes[t])
<1>1. /\ n \in Nat /\ DOMAIN Scopes[t] = 1 .. n
      /\ Len(Children[t]) \in Nat /\ 1 \in 1 .. Len(Children[t]) + 1
  <2>1. /\ n \in Nat /\ DOMAIN Scopes[t] = 1 .. n /\ Len(Children[t]) \in Nat
    BY Basics
  <2> QED
    BY <2>1
<1>2. /\ i \in Nat /\ i <= n => i \in 1 .. n
      /\ ~(i <= n) => i - 1 = n
  BY <1>1
<1>3. /\ i <= n => b = Doing("open", t, i)
      /\ ~(i <= n) /\ t \in Acting => b = Doing("act", t, 0)
      /\ ~(i <= n) /\ t \notin Acting => b = Doing("children", t, 1)
  BY DEF Inner
<1> HIDE DEF b, n
<1>4. \A do \in {"open", "act", "children"}, k \in Nat :
        /\ Doing(do, t, k) \in Activation
        /\ Doing(do, t, k).do = do /\ Doing(do, t, k).of = t
        /\ Doing(do, t, k).index = k /\ Doing(do, t, k).outcome = "none"
  BY DEF Doing, Activation
<1>5. /\ b \in Activation /\ b.of = t /\ b.outcome = "none"
      /\ \/ b.do = "open" /\ i <= n /\ b.index = i
         \/ b.do = "act" /\ ~(i <= n) /\ t \in Acting
         \/ b.do = "children" /\ ~(i <= n) /\ t \notin Acting /\ b.index = 1
  BY <1>2, <1>3, <1>4
<1>6. Placed(b) /\ Innermost(b) /\ ~Naming(b)
  BY <1>1, <1>2, <1>5 DEF Placed, Innermost, Naming
<1>7. Around(b) = {t} \cup {Scopes[t][j] : j \in 1 .. i - 1}
  <2>1. CASE b.do = "open"
    BY <1>5, <2>1 DEF Around
  <2>2. CASE b.do \in {"act", "children"}
    <3>1. ToSet(Scopes[t]) = {Scopes[t][j] : j \in 1 .. i - 1}
      BY <1>1, <1>2, <1>5, <2>2 DEF ToSet
    <3> QED
      BY <1>5, <2>2, <3>1 DEF Around
  <2> QED
    BY <1>5, <2>1, <2>2
<1> QED
  BY <1>5, <1>6, <1>7 DEF b

\* Only tasks, contexts and lists of children wait for an outcome.
LEMMA Lower ==
  ASSUME Inv, NEW i \in 1 .. Len(stack) - 1
  PROVE  /\ i \in DOMAIN stack /\ stack[i].do \in {"task", "inside", "children"}
         /\ stack[i].of \in Tasks
         /\ stack[i].of = Task => stack[i].do \in {"task", "inside"}
<1>1. stack \in Seq(Activation) /\ Linked(stack, verdict) /\ OneBody(stack)
  BY DEF Inv, TypeOK, Control
<1>2. Len(stack) \in Nat /\ DOMAIN stack = 1 .. Len(stack)
  BY <1>1, Stacks
<1>3. i \in DOMAIN stack /\ Len(stack) \in DOMAIN stack /\ i < Len(stack) /\ stack # <<>>
  BY <1>2
<1>4. Follows(stack[i], stack[i + 1])
  BY <1>1, <1>3 DEF Linked
<1>5. Top = stack[Len(stack)]
  BY <1>3, Here
<1> QED
  BY <1>1, <1>3, <1>4, <1>5, Stacks DEF Follows, OneBody, Task

LEMMA ActionReturnsInv ==
  ASSUME Inv, ActionReturns
  PROVE  Inv'
<1>1. /\ stack # <<>> /\ Top.do = "act" /\ tree' = tree /\ omitted' = omitted /\ held' = held
      /\ \/ tree.status[Task] \in STOP_STATUSES /\ exception' = Task /\ Return("stopped")
         \/ Task \in omitted /\ exception' = exception /\ Return("more")
         \/ /\ Task \notin omitted /\ Become(Doing("children", Task, 1))
            /\ exception' = exception /\ verdict' = verdict
  BY DEF ActionReturns, At
<1>2. /\ Task \in Tasks /\ Task \in Node /\ Task # Nobody /\ Task \in Going(tree)
      /\ Len(stack) > 1 /\ stack[Len(stack) - 1].of = Task
      /\ NamesOf(Top) = {} /\ OwnsOf(Top) = {} /\ Run \notin tree.locked
      /\ exception \in Node \cup {Nobody} /\ tree \in StatusTree /\ Grown(tree, omitted)
      /\ omitted \in SUBSET Tasks /\ Explained("none", Task, tree, exception)
      /\ \A n \in ToSet(Scopes[Task]) : n \in Going(tree)
      /\ Untouched(tree, Top) /\ stack \in Seq(Activation) /\ Control(stack, verdict)
      /\ Top = stack[Len(stack)] /\ Len(stack) > 0 /\ Top.of = Task
  BY <1>1, Here, Now, Basics DEF NamesOf, Naming, OwnsOf, Owning, Innermost, Task
<1>3. \A i \in 1 .. Len(stack) - 1 : stack[i].do = "children" => Later(tree', omitted, stack[i])
  BY <1>1, StillLater
<1>4. CASE tree.status[Task] \in STOP_STATUSES /\ exception' = Task /\ Return("stopped")
  <2>1. Explained("stopped", Task, tree', exception') /\ "stopped" \in Outcome
    BY <1>1, <1>2, <1>4 DEF Explained, Ordinary, Blamed, Outcome
  <2>2. Explained("stopped", IF Len(stack) > 1 THEN stack[Len(stack) - 1].of ELSE Run, tree', exception')
    BY <1>2, <2>1
  <2> QED
    BY <1>1, <1>2, <1>3, <1>4, <2>1, <2>2, ReturnStep
<1>5. CASE Task \in omitted /\ exception' = exception /\ Return("more")
  <2>1. Explained("more", Task, tree', exception') /\ "more" \in Outcome
    BY <1>1, <1>2, <1>5 DEF Explained, Ordinary, Outcome
  <2>2. Explained("more", IF Len(stack) > 1 THEN stack[Len(stack) - 1].of ELSE Run, tree', exception')
    BY <1>2, <2>1
  <2>3. Done(tree', omitted, Task)
    BY <1>1, <1>2, <1>5 DEF Done, Going
  <2> QED
    BY <1>1, <1>2, <1>3, <1>5, <2>1, <2>2, <2>3, ReturnStep
<1>6. CASE /\ Task \notin omitted /\ Become(Doing("children", Task, 1))
           /\ exception' = exception /\ verdict' = verdict
  <2> DEFINE a == Doing("children", Task, 1)
  <2>1. /\ a \in Activation /\ a.do = "children" /\ a.of = Task /\ a.index = 1
        /\ a.outcome = "none"
    BY <1>2 DEF Doing, Activation
  <2>2. Become(a)
    BY <1>6
  <2> HIDE DEF a
  <2>3. /\ stack' \in Seq(Activation) /\ Len(stack') = Len(stack) /\ Rest(stack, stack')
        /\ stack'[Len(stack)] = a
    BY <1>2, <2>1, <2>2, Becomes
  <2>4. DOMAIN Children[Task] = 1 .. Len(Children[Task]) /\ Len(Children[Task]) \in Nat
    BY <1>2, Basics
  <2>5. Placed(a) /\ Innermost(a) /\ Around(a) = Around(Top)
    <3>1. 1 \in 1 .. Len(Children[Task]) + 1
      BY <2>4
    <3> QED
      BY <1>1, <1>2, <2>1, <3>1 DEF Placed, Innermost, Around
  <2>6. Control(stack', verdict')
    BY <1>1, <1>2, <1>6, <2>1, <2>3, <2>5, ControlBecome
  <2>7. NamesOf(a) = {} /\ OwnsOf(a) = {}
    BY <2>1 DEF NamesOf, OwnsOf, Naming, Owning
  <2>8. \A j \in DOMAIN Children[Task] : Absent(tree, Children[Task][j]) /\ ~(j < 1)
    BY <1>1, <1>2, <2>4 DEF Untouched, ToSet
  <2>9. Later(tree', omitted, a) /\ Earlier(tree', a) /\ Untouched(tree', a) /\ Complete(tree', omitted, a)
    BY <1>1, <1>6, <2>1, <2>8 DEF Later, Earlier, Untouched, Complete
  <2>10. Explained(a.outcome, a.of, tree', exception')
    BY <1>1, <1>2, <1>6, <2>1
  <2> QED
    BY <1>1, <1>2, <1>3, <1>6, <2>3, <2>6, <2>7, <2>9, <2>10, OnwardStep
<1> QED
  BY <1>1, <1>4, <1>5, <1>6

LEMMA NextChildInv ==
  ASSUME Inv, NextChild
  PROVE  Inv'
<1> DEFINE c == Children[Task][Top.index]
           b == Doing("start", c, 0)
<1>1. /\ stack # <<>> /\ Top.do = "children" /\ Top.outcome = "none"
      /\ Top.index <= Len(Children[Task]) /\ Call(Top, b)
      /\ tree' = tree /\ omitted' = omitted /\ exception' = exception /\ held' = held
      /\ verdict' = verdict
  BY DEF NextChild, At
<1>2. /\ Task \in Tasks /\ Top.of = Task /\ Top \in Activation /\ Placed(Top)
      /\ NamesOf(Top) = {} /\ OwnsOf(Top) = {} /\ Run \notin tree.locked
      /\ exception \in Node \cup {Nobody} /\ tree \in StatusTree /\ Grown(tree, omitted)
      /\ Explained("none", Task, tree, exception) /\ Untouched(tree, Top)
      /\ Ahead(stack, tree, omitted) /\ Behind(stack, tree, omitted)
      /\ stack \in Seq(Activation) /\ Control(stack, verdict)
      /\ Top = stack[Len(stack)] /\ Len(stack) > 0 /\ Len(stack) \in DOMAIN stack
  BY <1>1, Here, Now, Basics DEF NamesOf, Naming, OwnsOf, Owning, Task
<1>3. Top.index \in DOMAIN Children[Task] /\ Top.index \in Nat
  <2>1. Top.index \in 1 .. Len(Children[Task]) + 1
    BY <1>1, <1>2 DEF Placed
  <2>2. DOMAIN Children[Task] = 1 .. Len(Children[Task]) /\ Len(Children[Task]) \in Nat
    BY <1>2, Basics
  <2> QED
    BY ONLY <1>1, <2>1, <2>2
<1>4. c \in Tasks /\ c # Task /\ Enclosing(c) = {Task} \cup ToSet(Scopes[Task]) /\ Absent(tree, c)
  <2>1. c \in Tasks /\ c # Task /\ Enclosing(c) = {Task} \cup ToSet(Scopes[Task])
    BY <1>2, <1>3, ChildPlace
  <2>2. Absent(tree, c)
    BY <1>1, <1>2, <1>3 DEF Untouched
  <2> QED
    BY <2>1, <2>2
<1>5. /\ b \in Activation /\ b.do = "start" /\ b.of = c /\ b.outcome = "none"
  BY <1>4 DEF Doing, Activation
<1>6. Follows(Top, b)
  BY <1>1, <1>2, <1>3, <1>5 DEF Follows
<1> HIDE DEF b
<1>7. Placed(b) /\ Innermost(b) /\ ~Naming(b) /\ Around(b) = Around(Top)
  <2>1. Around(Top) = {Task} \cup ToSet(Scopes[Task])
    BY <1>1, <1>2 DEF Around
  <2>2. Around(b) = Enclosing(c)
    BY <1>5 DEF Around
  <2> QED
    BY <1>4, <1>5, <2>1, <2>2 DEF Placed, Innermost, Naming
<1> HIDE DEF c
<1>8. /\ stack' \in Seq(Activation) /\ Len(stack') = Len(stack) + 1 /\ Rest(stack, stack')
      /\ stack'[Len(stack)] = Top /\ stack'[Len(stack) + 1] = b
  BY <1>1, <1>2, <1>5, Calls
<1>9. \A i \in 1 .. Len(stack) - 1 : stack[i].of = b.of => stack[i].do \in {"task", "inside"}
  <2>1. \A i \in 1 .. Len(stack) - 1 : i \in 1 .. Len(stack)
    BY <1>1, Here, Under
  <2>2. \A i \in 1 .. Len(stack) : stack[i].do = "children" => stack[i].of \in Going(tree)
    BY <1>1, Here
  <2> QED
    BY <1>4, <1>5, <2>1, <2>2, Lower DEF Going
<1>10. Control(stack', verdict')
  BY <1>1, <1>2, <1>4, <1>5, <1>6, <1>7, <1>8, <1>9, ControlCall
<1>11. \A i \in 1 .. Len(stack) - 1 : stack[i].do = "children" => Later(tree', omitted, stack[i])
  BY <1>1, StillLater
<1>12. Later(tree', omitted, Top) /\ Earlier(tree', Top)
  BY <1>1, <1>2 DEF Ahead, Behind
<1>13. \A i \in {Len(stack), Len(stack')} : stack'[i].do = "children" =>
         Later(tree', omitted, stack'[i]) /\ Earlier(tree', stack'[i])
  BY <1>5, <1>8, <1>12
<1>14. /\ Untouched(tree', stack'[Len(stack')]) /\ Complete(tree', omitted, stack'[Len(stack')])
       /\ Explained(stack'[Len(stack')].outcome, stack'[Len(stack')].of, tree', exception')
  <2>1. Untouched(tree', b) /\ Complete(tree', omitted, b)
    BY <1>1, <1>4, <1>5 DEF Untouched, Complete
  <2>2. Explained(b.outcome, b.of, tree', exception')
    BY <1>1, <1>2, <1>5 DEF Explained, Ordinary
  <2> QED
    BY <1>8, <2>1, <2>2
<1> QED
  BY <1>1, <1>2, <1>7, <1>8, <1>10, <1>11, <1>13, <1>14, OnwardStep

LEMMA ChildGoesOn ==
  ASSUME Inv, ChildEnded, Top.outcome = "more"
  PROVE  Inv'
<1> DEFINE k == Top.index
           a == Doing("children", Task, k + 1)
<1>1. /\ stack # <<>> /\ Top.do = "children" /\ Become(a)
      /\ tree' = tree /\ omitted' = omitted /\ exception' = exception /\ held' = held
      /\ verdict' = verdict
  BY DEF ChildEnded, At
<1>2. /\ Task \in Tasks /\ Top.of = Task /\ Top \in Activation /\ Innermost(Top)
      /\ NamesOf(Top) = {} /\ OwnsOf(Top) = {} /\ Run \notin tree.locked
      /\ exception \in Node \cup {Nobody} /\ tree \in StatusTree /\ Grown(tree, omitted)
      /\ Explained("more", Task, tree, exception) /\ Complete(tree, omitted, Top)
      /\ Ahead(stack, tree, omitted) /\ Behind(stack, tree, omitted)
      /\ stack \in Seq(Activation) /\ Control(stack, verdict)
      /\ Top = stack[Len(stack)] /\ Len(stack) > 0 /\ Len(stack) \in DOMAIN stack
  BY <1>1, Here, Now, Basics DEF NamesOf, Naming, OwnsOf, Owning, Task
<1>3. k \in DOMAIN Children[Task] /\ ~Absent(tree, Children[Task][k])
  BY <1>1, <1>2 DEF Innermost, Complete
<1>4. /\ k + 1 \in 1 .. Len(Children[Task]) + 1 /\ k + 1 \in Nat
      /\ \A j \in DOMAIN Children[Task] :
           /\ j > k + 1 => j > k
           /\ j = k + 1 => j > k
           /\ j < k + 1 => j < k \/ j = k
  <2>1. DOMAIN Children[Task] = 1 .. Len(Children[Task]) /\ Len(Children[Task]) \in Nat
    BY <1>2, Basics
  <2>2. k \in 1 .. Len(Children[Task])
    BY <1>3, <2>1
  <2> HIDE DEF k
  <2> QED
    BY ONLY <2>1, <2>2
<1>5. /\ a \in Activation /\ a.do = "children" /\ a.of = Task /\ a.index = k + 1
      /\ a.outcome = "none"
  BY <1>2, <1>4 DEF Doing, Activation
<1> HIDE DEF a
<1>6. /\ stack' \in Seq(Activation) /\ Len(stack') = Len(stack) /\ Rest(stack, stack')
      /\ stack'[Len(stack)] = a
  BY <1>1, <1>2, <1>5, Becomes
<1>7. Placed(a) /\ Innermost(a) /\ Around(a) = Around(Top) /\ NamesOf(a) = {} /\ OwnsOf(a) = {}
  BY <1>1, <1>2, <1>4, <1>5 DEF Placed, Innermost, Around, NamesOf, OwnsOf, Naming, Owning
<1>8. Control(stack', verdict')
  BY <1>1, <1>2, <1>5, <1>6, <1>7, ControlBecome
<1>9. \A i \in 1 .. Len(stack) - 1 : stack[i].do = "children" => Later(tree', omitted, stack[i])
  BY <1>1, StillLater
<1>10. Later(tree, omitted, Top) /\ Earlier(tree, Top)
  BY <1>1, <1>2 DEF Ahead, Behind
<1>11. Later(tree', omitted, a) /\ Earlier(tree', a) /\ Untouched(tree', a) /\ Complete(tree', omitted, a)
  <2>1. Task \notin omitted /\ \A j \in DOMAIN Children[Task] : j > k => Absent(tree, Children[Task][j])
    BY <1>2, <1>10 DEF Later
  <2>2. \A j \in DOMAIN Children[Task] : j < k => ~Absent(tree, Children[Task][j])
    BY <1>2, <1>10 DEF Earlier
  <2>3. Later(tree', omitted, a)
    BY <1>1, <1>4, <1>5, <2>1 DEF Later
  <2>4. Earlier(tree', a)
    BY <1>1, <1>3, <1>4, <1>5, <2>2 DEF Earlier
  <2>5. Untouched(tree', a) /\ Complete(tree', omitted, a)
    BY <1>1, <1>4, <1>5, <2>1 DEF Untouched, Complete
  <2> QED
    BY <2>3, <2>4, <2>5
<1>12. Explained(a.outcome, a.of, tree', exception')
  BY <1>1, <1>2, <1>5 DEF Explained, Ordinary
<1> QED
  BY <1>1, <1>2, <1>6, <1>7, <1>8, <1>9, <1>11, <1>12, OnwardStep

LEMMA ChildEndedInv ==
  ASSUME Inv, ChildEnded
  PROVE  Inv'
BY ChildStops, ChildGoesOn

LEMMA BeginScopeInv ==
  ASSUME Inv, BeginScope
  PROVE  Inv'
<1> DEFINE a == [Top EXCEPT !.do = "enter"]
<1>1. /\ stack # <<>> /\ Top.do = "open" /\ Become(a)
      /\ tree' = Attach(tree, Task, Scope, "RUNNING")
      /\ omitted' = omitted /\ exception' = exception /\ held' = held /\ verdict' = verdict
  BY DEF BeginScope, At
<1>2. /\ Task \in Tasks /\ Task \in Node /\ Task \in Going(tree) /\ Top.of = Task /\ Top \in Activation
      /\ Placed(Top) /\ Innermost(Top)
      /\ NamesOf(Top) = {} /\ OwnsOf(Top) = {} /\ Run \notin tree.locked
      /\ exception \in Node \cup {Nobody} /\ tree \in StatusTree /\ Grown(tree, omitted)
      /\ Explained(Top.outcome, Task, tree, exception) /\ Untouched(tree, Top)
      /\ Ahead(stack, tree, omitted) /\ Behind(stack, tree, omitted) /\ omitted \in SUBSET Tasks
      /\ stack \in Seq(Activation) /\ Control(stack, verdict)
      /\ Top = stack[Len(stack)] /\ Len(stack) > 0 /\ Len(stack) \in DOMAIN stack
  BY <1>1, Here, Now, Basics DEF NamesOf, Naming, OwnsOf, Owning, Task
<1>3. /\ Scope \in Contexts /\ Scope \in Node /\ Scope \in Below(Task) /\ Scope # Task /\ Scope \notin Tasks
      /\ Top.index \in DOMAIN Scopes[Task] /\ Scope = Scopes[Task][Top.index]
  BY <1>1, Here, Basics DEF Scope
<1>4. Top.outcome = "none" /\ Absent(tree, Scope)
  BY <1>1, <1>2, <1>3 DEF Innermost, Untouched
<1>5. /\ a \in Activation /\ a.do = "enter" /\ a.of = Task /\ a.index = Top.index
      /\ a.outcome = "none"
  BY <1>2, <1>4 DEF Activation
<1>6. /\ tree' \in StatusTree /\ Grown(tree', omitted) /\ Going(tree') = Going(tree) \cup {Scope}
      /\ tree'.locked = tree.locked
      /\ \A m \in Node \cup {Run} : m # Scope => tree'.status[m] = tree.status[m]
      /\ ~Absent(tree', Scope)
  <2>1. ~Absent(tree, Task) /\ Task \in Node \cup {Run}
    BY <1>2 DEF Going
  <2> QED
    BY <1>1, <1>2, <1>3, <1>4, <2>1, GrownAttach
<1> HIDE DEF a
<1>7. /\ stack' \in Seq(Activation) /\ Len(stack') = Len(stack) /\ Rest(stack, stack')
      /\ stack'[Len(stack)] = a
  BY <1>1, <1>2, <1>5, Becomes
<1>8. Placed(a) /\ Innermost(a) /\ Around(a) = Around(Top) /\ NamesOf(a) = {Scope} /\ OwnsOf(a) = {}
  BY <1>1, <1>2, <1>3, <1>5
     DEF Placed, Innermost, Around, NamesOf, OwnsOf, Naming, Owning, NodeOf
<1>9. Control(stack', verdict')
  BY <1>1, <1>2, <1>5, <1>7, <1>8, ControlBecome
<1>10. \A m \in Node : m # Scope => (Absent(tree', m) <=> Absent(tree, m))
  BY <1>6 DEF Absent
<1>11. \A t \in Tasks : \A j \in DOMAIN Children[t] :
         /\ Children[t][j] \in Node /\ Children[t][j] # Scope
         /\ Children[t][j] \in ToSet(Children[t])
  BY <1>3, Basics DEF ToSet
<1>12. \A i \in 1 .. Len(stack) - 1 : stack[i].do = "children" => Later(tree', omitted, stack[i])
  <2> SUFFICES ASSUME NEW i \in 1 .. Len(stack) - 1, stack[i].do = "children"
               PROVE  Later(tree', omitted, stack[i])
    OBVIOUS
  <2>1. Later(tree, omitted, stack[i]) /\ stack[i].of \in Tasks
    BY StillLater, Lower
  <2> QED
    BY <1>10, <1>11, <2>1 DEF Later
<1>13. Untouched(tree', a)
  <2>1. \A j \in DOMAIN Scopes[Task] : j > Top.index => Absent(tree', Scopes[Task][j])
    <3>1. \A j \in DOMAIN Scopes[Task] : j > Top.index => Absent(tree, Scopes[Task][j])
      BY <1>1, <1>2 DEF Untouched
    <3>2. \A j \in DOMAIN Scopes[Task] : j > Top.index => Scopes[Task][j] # Scope
      <4>1. IsInjective(Scopes[Task]) /\ DOMAIN Scopes[Task] = 1 .. Len(Scopes[Task])
            /\ Len(Scopes[Task]) \in Nat
        BY <1>2, Basics
      <4>2. \A j \in DOMAIN Scopes[Task] : j > Top.index => j # Top.index
        BY <1>3, <4>1
      <4> QED
        BY <1>3, <4>1, <4>2 DEF IsInjective
    <3>3. \A j \in DOMAIN Scopes[Task] : Scopes[Task][j] \in Node
      BY <1>2, Basics
    <3> QED
      BY <1>10, <3>1, <3>2, <3>3
  <2>2. \A c \in ToSet(Children[Task]) : Absent(tree', c)
    <3>1. \A c \in ToSet(Children[Task]) : Absent(tree, c) /\ c \in Node /\ c # Scope
      BY <1>1, <1>2, <1>3, Basics DEF Untouched, ToSet
    <3> QED
      BY <1>10, <3>1
  <2> QED
    BY <1>5, <2>1, <2>2 DEF Untouched
<1>14. Complete(tree', omitted, a)
  BY <1>5 DEF Complete
<1>15. Explained(a.outcome, a.of, tree', exception')
  <2>1. \A t \in Tasks \cap tree'.locked : t \in tree.locked /\ tree'.status[t] = tree.status[t]
    BY <1>3, <1>6, Basics
  <2> QED
    BY <1>1, <1>2, <1>4, <1>5, <2>1 DEF Explained, Ordinary
<1>16. Scope \notin Going(tree)
  BY <1>4 DEF Going
<1>17. \A n \in Node : ~Absent(tree, n) => ~Absent(tree', n)
  BY <1>6, <1>10
<1> QED
  BY <1>1, <1>2, <1>5, <1>6, <1>7, <1>8, <1>9, <1>12, <1>13, <1>14, <1>15, <1>16, <1>17, OnwardStep

\* A context whose entry failed is inside its scope with the failure; one that
\* was entered runs what is inside it.
LEMMA EnterInv ==
  ASSUME Inv, NEW mapping \in {"none", "failed", "signal"}, Enter(mapping)
  PROVE  Inv'
<1> DEFINE o == IF mapping = "none" /\ tree.status[Scope] \in STOP_STATUSES
                THEN "stopped" ELSE mapping
           c == [Top EXCEPT !.do = "inside"]
           b == Inner(Task, Top.index + 1)
           a == [Top EXCEPT !.do = "inside", !.outcome = o]
<1>1. /\ stack # <<>> /\ Top.do = "enter" /\ held' = held \cup {Scope}
      /\ o = "failed" => tree' = Update(tree, Scope, "ERROR")
      /\ o # "failed" => tree' = tree
      /\ o \in Ordinary => exception' = Scope
      /\ o \notin Ordinary => exception' = exception
      /\ o = "none" => Call(c, b)
      /\ o # "none" => Become(a)
      /\ omitted' = omitted /\ verdict' = verdict
  BY DEF Enter, At
<1>2. /\ Task \in Tasks /\ Top.of = Task /\ Top \in Activation
      /\ Placed(Top) /\ Innermost(Top) /\ Run \notin tree.locked
      /\ exception \in Node \cup {Nobody} /\ tree \in StatusTree /\ Grown(tree, omitted)
      /\ Explained(Top.outcome, Task, tree, exception) /\ Untouched(tree, Top)
      /\ omitted \subseteq Acting /\ omitted \in SUBSET Tasks
      /\ stack \in Seq(Activation) /\ Control(stack, verdict)
      /\ Top = stack[Len(stack)] /\ Len(stack) > 0 /\ Len(stack) \in DOMAIN stack
  BY <1>1, Here, Now, Basics DEF Task, Inv, TypeOK
<1>3. /\ Scope \in Contexts /\ Scope \in Node /\ Scope # Nobody /\ Scope \notin Tasks
      /\ Scope = NodeOf(Top) /\ Scope \in Going(tree) /\ Scope \in ToSet(tree.subTasks[Task])
      /\ Top.index \in DOMAIN Scopes[Task] /\ Scope = Scopes[Task][Top.index]
  BY <1>1, Here, Basics DEF Scope
<1>4. Top.outcome = "none" /\ NamesOf(Top) = {Scope} /\ OwnsOf(Top) = {}
  BY <1>1, <1>2, <1>3 DEF Innermost, NamesOf, OwnsOf, Naming, Owning
<1>5. /\ o \in {"none", "failed", "signal", "stopped"}
      /\ o = "stopped" => tree.status[Scope] \in STOP_STATUSES
  OBVIOUS
<1>6. /\ tree' \in StatusTree /\ Grown(tree', omitted) /\ Going(tree') = Going(tree)
      /\ tree'.locked = tree.locked /\ tree'.subTasks = tree.subTasks
      /\ \A m \in Node : Absent(tree', m) <=> Absent(tree, m)
      /\ o = "failed" => tree'.status[Scope] = "ERROR"
  <2>1. CASE o = "failed"
    <3>1. tree' = Update(tree, Scope, "ERROR") /\ "ERROR" \in Status
      BY <1>1, <2>1 DEF Status
    <3> QED
      BY <1>2, <1>3, <3>1, GrownUpdate DEF Settles
  <2>2. CASE o # "failed"
    BY <1>1, <1>2, <2>2
  <2> QED
    BY <2>1, <2>2
<1>7. \A i \in 1 .. Len(stack) - 1 : stack[i].do = "children" => Later(tree', omitted, stack[i])
  BY SMTT(30), <1>6, StillLater
<1>8. \A d \in Activation : d.do = "inside" /\ d.of = Task /\ d.index = Top.index =>
        /\ Placed(d) /\ Around(d) = Around(Top) /\ NodeOf(d) = Scope
        /\ NamesOf(d) = {Scope} /\ OwnsOf(d) = {Scope} /\ Owning(d)
        /\ Untouched(tree', d)
  BY <1>1, <1>2, <1>3
     DEF Placed, Around, NodeOf, NamesOf, OwnsOf, Naming, Owning, Untouched
<1>9. Going(tree') = (Going(tree) \ {Scope}) \cup {Scope} /\ held' = (held \ {}) \cup {Scope}
  BY <1>1, <1>3, <1>6
<1>10. \A n \in Node : ~Absent(tree, n) => ~Absent(tree', n)
  BY <1>6
<1>11. exception' \in Node \cup {Nobody}
  BY <1>1, <1>2, <1>3
<1> HIDE DEF o
<1>12. CASE o = "none"
  <2>1. /\ c \in Activation /\ c.do = "inside" /\ c.of = Task /\ c.index = Top.index
        /\ c.outcome = "none"
    BY <1>2, <1>4 DEF Activation
  <2>0. Top.index + 1 \in 1 .. Len(Scopes[Task]) + 1 /\ Top.index \in Nat
    <3>1. DOMAIN Scopes[Task] = 1 .. Len(Scopes[Task]) /\ Len(Scopes[Task]) \in Nat
      BY <1>2, Basics
    <3>2. Top.index \in 1 .. Len(Scopes[Task])
      BY <1>3, <3>1
    <3> QED
      BY ONLY <3>1, <3>2
  <2>2. /\ \A j \in DOMAIN Scopes[Task] : j > Top.index + 1 \/ j = Top.index + 1 => j > Top.index
        /\ \A j \in 1 .. Top.index : j \in 1 .. Top.index - 1 \/ j = Top.index
    <3>1. DOMAIN Scopes[Task] = 1 .. Len(Scopes[Task]) /\ Len(Scopes[Task]) \in Nat
      BY <1>2, Basics
    <3>2. Top.index \in 1 .. Len(Scopes[Task])
      BY <1>3, <3>1
    <3> QED
      BY ONLY <3>1, <3>2
  <2>3. /\ b \in Activation /\ b.of = Task /\ b.outcome = "none"
        /\ b.do \in {"open", "act", "children"}
        /\ b.do = "open" => b.index = Top.index + 1
        /\ b.do = "children" => b.index = 1 /\ Task \notin Acting
        /\ Placed(b) /\ Innermost(b) /\ ~Naming(b)
        /\ Around(b) = {Task} \cup {Scopes[Task][j] : j \in 1 .. Top.index}
    <3> DEFINE i == Top.index + 1
    <3>0. Task \in Tasks
      BY <1>2
    <3>1. i \in 1 .. Len(Scopes[Task]) + 1 /\ i - 1 = Top.index
      BY ONLY <2>0
    <3>2. b = Inner(Task, i)
      OBVIOUS
    <3> HIDE DEF i, b
    <3>3. /\ b \in Activation /\ b.of = Task /\ b.outcome = "none"
          /\ b.do \in {"open", "act", "children"}
          /\ b.do = "open" => b.index = i
          /\ b.do = "children" => b.index = 1 /\ Task \notin Acting
          /\ Placed(b) /\ Innermost(b) /\ ~Naming(b)
          /\ Around(b) = {Task} \cup {Scopes[Task][j] : j \in 1 .. i - 1}
      BY ONLY <3>0, <3>1, <3>2, InnerPlaced
    <3> QED
      BY <3>1, <3>3 DEF i
  <2>4. Call(c, b)
    BY <1>1, <1>12
  <2> HIDE DEF b, c
  <2>5. /\ stack' \in Seq(Activation) /\ Len(stack') = Len(stack) + 1 /\ Rest(stack, stack')
        /\ stack'[Len(stack)] = c /\ stack'[Len(stack) + 1] = b
    BY <1>2, <2>1, <2>3, <2>4, Calls
  <2>6. /\ Placed(c) /\ Around(c) = Around(Top) /\ NodeOf(c) = Scope
        /\ NamesOf(c) = {Scope} /\ OwnsOf(c) = {Scope} /\ Owning(c)
    BY <1>8, <2>1
  <2>7. \A n \in Around(b) : n \in Around(c) \/ (Owning(c) /\ NodeOf(c) = n)
    <3>1. Around(Top) = {Task} \cup {Scopes[Task][j] : j \in 1 .. Top.index - 1}
      BY <1>1, <1>2 DEF Around
    <3>2. ASSUME NEW n \in Around(b) PROVE n \in Around(Top) \/ n = Scope
      <4>1. n = Task \/ \E j \in 1 .. Top.index : n = Scopes[Task][j]
        BY <2>3
      <4> QED
        BY <1>3, <2>2, <3>1, <4>1
    <3> QED
      BY <2>6, <3>2
  <2>8. Follows(c, b)
    BY <2>1, <2>3 DEF Follows
  <2>9. \A i \in 1 .. Len(stack) - 1 : stack[i].of = b.of => stack[i].do \in {"task", "inside"}
    BY <2>3, Lower
  <2>10. Control(stack', verdict')
    BY <1>1, <1>2, <2>1, <2>3, <2>5, <2>6, <2>7, <2>8, <2>9, ControlCall
  <2>11. \A k \in ToSet(Children[Task]) : Absent(tree', k)
    <3>1. \A k \in ToSet(Children[Task]) : Absent(tree, k) /\ k \in Node
      BY <1>1, <1>2, Basics DEF Untouched, ToSet
    <3> QED
      BY <1>6, <3>1
  <2>12. \A j \in DOMAIN Scopes[Task] : j > Top.index => Absent(tree', Scopes[Task][j])
    <3>1. \A j \in DOMAIN Scopes[Task] : j > Top.index => Absent(tree, Scopes[Task][j])
      BY <1>1, <1>2 DEF Untouched
    <3>2. \A j \in DOMAIN Scopes[Task] : Scopes[Task][j] \in Node
      BY <1>2, Basics
    <3> QED
      BY <1>6, <3>1, <3>2
  <2>13. Untouched(tree', b) /\ Complete(tree', omitted, b)
    <3>1. \A j \in DOMAIN Children[Task] : Absent(tree', Children[Task][j])
      BY <2>11 DEF ToSet
    <3> QED
      BY <2>2, <2>3, <2>11, <2>12, <3>1 DEF Untouched, Complete
  <2>14. b.do = "children" => Later(tree', omitted, b) /\ Earlier(tree', b)
    <3>1. \A j \in DOMAIN Children[Task] : Absent(tree', Children[Task][j])
      BY <2>11 DEF ToSet
    <3>2. \A j \in DOMAIN Children[Task] : ~(j < 1)
      <4>1. DOMAIN Children[Task] = 1 .. Len(Children[Task]) /\ Len(Children[Task]) \in Nat
        BY <1>2, Basics
      <4> QED
        BY <4>1
    <3> QED
      BY <1>2, <2>3, <3>1, <3>2 DEF Later, Earlier
  <2>15. \A i \in {Len(stack), Len(stack')} : stack'[i].do = "children" =>
           Later(tree', omitted, stack'[i]) /\ Earlier(tree', stack'[i])
    BY <2>1, <2>5, <2>14
  <2>16. Explained(b.outcome, b.of, tree', exception')
    <3>1. tree' = tree /\ exception' = exception
      BY <1>1, <1>12 DEF Ordinary
    <3> QED
      BY <1>2, <1>4, <2>3, <3>1
  <2> QED
    BY <1>1, <1>4, <1>6, <1>7, <1>9, <1>10, <1>11, <1>2, <2>3, <2>5, <2>6, <2>10, <2>13, <2>15, <2>16,
       OnwardStep
<1>13. CASE o # "none"
  <2>1. o \in Outcome /\ o # "more"
    BY <1>5, <1>13 DEF Outcome
  <2>2. /\ a \in Activation /\ a.do = "inside" /\ a.of = Task /\ a.index = Top.index
        /\ a.outcome = o
    BY <1>2, <2>1 DEF Activation
  <2>3. Become(a)
    BY <1>1, <1>13
  <2> HIDE DEF a
  <2>4. /\ stack' \in Seq(Activation) /\ Len(stack') = Len(stack) /\ Rest(stack, stack')
        /\ stack'[Len(stack)] = a
    BY <1>2, <2>2, <2>3, Becomes
  <2>5. /\ Placed(a) /\ Around(a) = Around(Top) /\ NamesOf(a) = {Scope} /\ OwnsOf(a) = {Scope}
        /\ Untouched(tree', a)
    BY <1>8, <2>2
  <2>6. Innermost(a) /\ Complete(tree', omitted, a)
    BY <1>13, <2>1, <2>2 DEF Innermost, Complete
  <2>7. Control(stack', verdict')
    BY <1>1, <1>2, <2>2, <2>4, <2>5, <2>6, ControlBecome
  <2>8. Explained(a.outcome, a.of, tree', exception')
    <3>1. o \in {"failed", "stopped"} => exception' # Nobody
      BY <1>1, <1>3 DEF Ordinary
    <3>2. o \in {"failed", "stopped"} => tree'.status[Scope] \in STOP_STATUSES
      BY <1>1, <1>5, <1>6 DEF STOP_STATUSES
    <3>3. o \in {"failed", "stopped"} => Blamed(tree', Task)
      BY <1>3, <1>6, <3>2 DEF Blamed
    <3> QED
      BY <1>5, <1>13, <2>2, <3>1, <3>3 DEF Explained, Ordinary
  <2> QED
    BY <1>1, <1>4, <1>6, <1>7, <1>9, <1>10, <1>11, <1>2, <2>2, <2>4, <2>5, <2>6, <2>7, <2>8, OnwardStep
<1> QED
  BY <1>12, <1>13

LEMMA BeginTaskInv ==
  ASSUME Inv, BeginTask
  PROVE  Inv'
<1> DEFINE a == Doing("task", Task, 0)
           b == Inner(Task, 1)
           p == Parent(Task)
           L == Len(stack)
<1>1. /\ stack # <<>> /\ Top.do = "start" /\ held' = held \cup {Task} /\ Call(a, b)
      /\ tree' = Attach(tree, p, Task, "RUNNING")
      /\ omitted' = omitted /\ exception' = exception /\ verdict' = verdict
  BY DEF BeginTask, At
<1>2. /\ Task \in Tasks /\ Task \in Node /\ Task # Run /\ Top.of = Task /\ Top \in Activation
      /\ NamesOf(Top) = {} /\ OwnsOf(Top) = {} /\ Run \notin tree.locked /\ Innermost(Top)
      /\ exception \in Node \cup {Nobody} /\ tree \in StatusTree /\ Grown(tree, omitted)
      /\ Explained(Top.outcome, Task, tree, exception) /\ Untouched(tree, Top)
      /\ Ahead(stack, tree, omitted) /\ omitted \subseteq Acting /\ omitted \in SUBSET Tasks
      /\ stack \in Seq(Activation) /\ Control(stack, verdict)
      /\ Top = stack[L] /\ L > 0 /\ L \in DOMAIN stack /\ L \in Nat
  BY <1>1, Here, Now, Basics DEF NamesOf, Naming, OwnsOf, Owning, Task, Inv, TypeOK
<1>3. Top.outcome = "none" /\ Absent(tree, Task)
  BY <1>1, <1>2 DEF Innermost, Untouched
<1>4. /\ ~(L > 1) => Task = Root
      /\ L > 1 => /\ L - 1 \in 1 .. L - 1 /\ stack[L - 1].do = "children" /\ stack[L - 1].of \in Tasks
                  /\ stack[L - 1].index \in DOMAIN Children[stack[L - 1].of]
                  /\ Children[stack[L - 1].of][stack[L - 1].index] = Task
                  /\ stack[L - 1].of \in Going(tree) /\ Later(tree, omitted, stack[L - 1])
  <2>1. L > 1 => L - 1 \in 1 .. L - 1 /\ L - 1 \in 1 .. L
    BY <1>2
  <2>2. /\ L = 1 /\ Task = Root
        \/ /\ L > 1 /\ stack[L - 1].do = "children"
           /\ stack[L - 1].index \in DOMAIN Children[stack[L - 1].of]
           /\ Children[stack[L - 1].of][stack[L - 1].index] = Task
    BY <1>1, Here
  <2>3. \A i \in 1 .. L : stack[i].do = "children" => stack[i].of \in Going(tree)
    BY <1>1, Here
  <2>4. L > 1 => L - 1 \in DOMAIN stack /\ stack[L - 1].of \in Tasks
    BY <2>1, Lower
  <2> HIDE DEF L
  <2> QED
    BY <1>2, <2>1, <2>2, <2>3, <2>4 DEF Ahead
<1>5. p \in Node \cup {Run} /\ ~Absent(tree, p) /\ Task \in Below(p) /\ p \notin omitted
  <2>1. CASE ~(L > 1)
    BY <1>2, <1>4, <2>1, Basics DEF Parent, Below, Grown
  <2>2. CASE L > 1
    <3>1. p = stack[L - 1].of
      BY <1>4, <2>2, ChildPlace
    <3> QED
      BY <1>4, <2>2, <3>1, Basics DEF Below, ToSet, Going, Later
  <2> QED
    BY <2>1, <2>2
<1> HIDE DEF p
<1>6. /\ tree' \in StatusTree /\ Grown(tree', omitted) /\ Going(tree') = Going(tree) \cup {Task}
      /\ tree'.locked = tree.locked
      /\ \A m \in Node \cup {Run} : m # Task => tree'.status[m] = tree.status[m]
      /\ ~Absent(tree', Task)
  BY <1>1, <1>2, <1>3, <1>5, GrownAttach
<1>7. \A m \in Node : m # Task => (Absent(tree', m) <=> Absent(tree, m))
  BY <1>6 DEF Absent
<1>8. /\ a \in Activation /\ a.do = "task" /\ a.of = Task /\ a.outcome = "none"
      /\ NamesOf(a) = {Task} /\ OwnsOf(a) = {Task} /\ Owning(a) /\ NodeOf(a) = Task
      /\ Placed(a) /\ Around(a) = Around(Top)
  <2>1. a \in Activation /\ a.do = "task" /\ a.of = Task /\ a.outcome = "none"
    BY <1>2 DEF Doing, Activation
  <2> HIDE DEF a
  <2> QED
    BY <1>1, <1>2, <2>1 DEF NamesOf, OwnsOf, Naming, Owning, NodeOf, Placed, Around
<1>9. /\ b \in Activation /\ b.of = Task /\ b.outcome = "none"
      /\ b.do \in {"open", "act", "children"}
      /\ b.do = "children" => b.index = 1 /\ Task \notin Acting
      /\ Placed(b) /\ Innermost(b) /\ ~Naming(b) /\ Around(b) = {Task}
  <2>1. 1 \in 1 .. Len(Scopes[Task]) + 1 /\ 1 .. 1 - 1 = {}
    <3>1. Len(Scopes[Task]) \in Nat
      BY <1>2, Basics
    <3> QED
      BY <3>1
  <2> QED
    BY <1>2, <2>1, InnerPlaced
<1> HIDE DEF a, b
<1>10. /\ stack' \in Seq(Activation) /\ Len(stack') = Len(stack) + 1 /\ Rest(stack, stack')
       /\ stack'[Len(stack)] = a /\ stack'[Len(stack) + 1] = b
  BY <1>1, <1>2, <1>8, <1>9, Calls
<1>11. Follows(a, b) /\ (\A n \in Around(b) : Owning(a) /\ NodeOf(a) = n)
  BY <1>8, <1>9 DEF Follows
<1>12. \A i \in 1 .. Len(stack) - 1 : stack[i].of = b.of => stack[i].do \in {"task", "inside"}
  BY <1>9, Lower
<1>13. Control(stack', verdict')
  BY <1>1, <1>2, <1>8, <1>9, <1>10, <1>11, <1>12, ControlCall
<1>14. \A i \in 1 .. Len(stack) - 1 : stack[i].do = "children" => Later(tree', omitted, stack[i])
  <2> SUFFICES ASSUME NEW i \in 1 .. L - 1, stack[i].do = "children"
               PROVE  Later(tree', omitted, stack[i])
    OBVIOUS
  <2>1. Later(tree, omitted, stack[i]) /\ stack[i].of \in Tasks /\ i \in DOMAIN stack
    BY StillLater, Lower
  <2>2. L > 1 /\ (i = L - 1 \/ (i < L - 1 /\ L - 1 \in DOMAIN stack))
    BY <1>2, Stacks
  <2>3. ASSUME NEW j \in DOMAIN Children[stack[i].of], j > stack[i].index,
               Children[stack[i].of][j] = Task
        PROVE  FALSE
    <3>1. stack[i].of = stack[L - 1].of /\ j = stack[L - 1].index
      BY <1>4, <2>1, <2>2, <2>3, TreeAssumption
    <3>2. i = L - 1
      BY <1>2, <2>1, <2>2, <3>1 DEF Control, OneBody
    <3> QED
      <4>1. stack[i].index \in Nat
        BY <1>2, <2>1, Stacks
      <4> QED
        BY <2>3, <3>1, <3>2, <4>1
  <2>4. \A j \in DOMAIN Children[stack[i].of] : Children[stack[i].of][j] \in Node
    BY <2>1, Basics
  <2> QED
    BY <1>7, <2>1, <2>3, <2>4 DEF Later
<1>15. /\ \A n \in ToSet(Scopes[Task]) : Absent(tree', n)
       /\ \A n \in ToSet(Children[Task]) : Absent(tree', n)
  <2>1. \A n \in Below(Task) : Absent(tree, n) /\ n # Task /\ n \in Node
    BY <1>2, <1>3, BelowPlace DEF Grown
  <2>2. ToSet(Scopes[Task]) \subseteq Below(Task) /\ ToSet(Children[Task]) \subseteq Below(Task)
    BY <1>2 DEF Below
  <2> QED
    BY <1>7, <2>1, <2>2
<1>16. Untouched(tree', b) /\ Complete(tree', omitted, b)
  <2>1. /\ \A j \in DOMAIN Children[Task] : Absent(tree', Children[Task][j])
        /\ \A j \in DOMAIN Scopes[Task] : Absent(tree', Scopes[Task][j])
    BY <1>15 DEF ToSet
  <2> QED
    BY <1>9, <1>15, <2>1 DEF Untouched, Complete
<1>17. b.do = "children" => Later(tree', omitted, b) /\ Earlier(tree', b)
  <2>1. \A j \in DOMAIN Children[Task] : Absent(tree', Children[Task][j])
    BY <1>15 DEF ToSet
  <2>2. \A j \in DOMAIN Children[Task] : ~(j < 1)
    <3>1. DOMAIN Children[Task] = 1 .. Len(Children[Task]) /\ Len(Children[Task]) \in Nat
      BY <1>2, Basics
    <3> QED
      BY <3>1
  <2> QED
    BY <1>2, <1>9, <2>1, <2>2 DEF Later, Earlier
<1>18. \A i \in {Len(stack), Len(stack')} : stack'[i].do = "children" =>
         Later(tree', omitted, stack'[i]) /\ Earlier(tree', stack'[i])
  BY <1>8, <1>10, <1>17
<1>19. Explained(b.outcome, b.of, tree', exception')
  <2>1. \A t \in Tasks \cap tree'.locked : t # Task /\ t \in tree.locked /\ tree'.status[t] = tree.status[t]
    <3>1. Task \notin tree.locked
      BY <1>2, <1>3 DEF Grown, Absent
    <3> QED
      BY <1>6, <3>1, Basics
  <2> QED
    BY <1>1, <1>2, <1>3, <1>9, <2>1 DEF Explained, Ordinary
<1>20. Task \notin Going(tree) /\ \A n \in Node : ~Absent(tree, n) => ~Absent(tree', n)
  BY <1>3, <1>6, <1>7 DEF Going
<1> QED
  BY <1>1, <1>2, <1>6, <1>8, <1>9, <1>10, <1>13, <1>14, <1>16, <1>18, <1>19, <1>20, OnwardStep

----------------------------------------------------------------------------
\* The steps that do not move the recursion.

LEMMA StillStep ==
  ASSUME Inv, stack # <<>>, stack' = stack, omitted' = omitted, held' = held,
         verdict' = verdict, exception' = exception,
         tree' \in StatusTree, Grown(tree', omitted), Run \notin tree'.locked,
         Going(tree') = Going(tree), \A n \in Node : Absent(tree', n) <=> Absent(tree, n),
         Explained(Top.outcome, Task, tree', exception)
  PROVE  Inv'
<1>1. /\ stack \in Seq(Activation) /\ Control(stack, verdict) /\ Names(stack, tree, held)
      /\ Ahead(stack, tree, omitted) /\ Behind(stack, tree, omitted) /\ TypeOK
      /\ Len(stack) > 0 /\ Len(stack) # 0 /\ Len(stack) \in DOMAIN stack /\ Top = stack[Len(stack)]
  <2>1. Len(stack) > 0 /\ Len(stack) \in Nat
    BY Here
  <2> QED
    BY <2>1, Here DEF Inv, TypeOK
<1>2. \A i \in DOMAIN stack :
        /\ \A j \in DOMAIN Children[stack[i].of] : Children[stack[i].of][j] \in Node
        /\ \A j \in DOMAIN Scopes[stack[i].of] : Scopes[stack[i].of][j] \in Node
        /\ ToSet(Children[stack[i].of]) \subseteq Node /\ ToSet(Scopes[stack[i].of]) \subseteq Node
        /\ stack[i].of \in Node
  <2>1. \A i \in DOMAIN stack : stack[i].of \in Tasks
    BY <1>1, Stacks
  <2>2. \A t \in Tasks :
          /\ \A j \in DOMAIN Children[t] : Children[t][j] \in Node
          /\ \A j \in DOMAIN Scopes[t] : Scopes[t][j] \in Node
          /\ ToSet(Children[t]) \subseteq Node /\ ToSet(Scopes[t]) \subseteq Node /\ t \in Node
    BY Basics DEF ToSet
  <2> QED
    BY <2>1, <2>2
<1>3. Names(stack, tree', held)
  BY <1>1 DEF Names
<1>4. Ahead(stack, tree', omitted)
  <2>1. \A i \in DOMAIN stack : stack[i].do = "children" => Later(tree', omitted, stack[i])
    BY <1>1, LaterSame
  <2>2. Untouched(tree', stack[Len(stack)])
    <3>1. Untouched(tree, stack[Len(stack)])
      BY <1>1 DEF Ahead
    <3>2. DEFINE a == stack[Len(stack)]
    <3>3. /\ \A j \in DOMAIN Children[a.of] : Children[a.of][j] \in Node
          /\ \A j \in DOMAIN Scopes[a.of] : Scopes[a.of][j] \in Node
          /\ ToSet(Children[a.of]) \subseteq Node /\ a.of \in Node /\ Untouched(tree, a)
      BY <1>1, <1>2, <3>1
    <3> HIDE DEF a
    <3>4. Untouched(tree', a)
      BY <3>3 DEF Untouched
    <3> QED
      BY <3>4 DEF a
  <2> QED
    BY <2>1, <2>2 DEF Ahead
<1>5. Behind(stack, tree', omitted)
  <2>1. \A i \in DOMAIN stack : stack[i].do = "children" => Earlier(tree', stack[i])
    BY <1>1, <1>2 DEF Behind, Earlier
  <2>2. Complete(tree', omitted, stack[Len(stack)])
    <3>1. DEFINE a == stack[Len(stack)]
    <3>2. /\ \A j \in DOMAIN Children[a.of] : Children[a.of][j] \in Node
          /\ ToSet(Children[a.of]) \subseteq Node /\ ToSet(Scopes[a.of]) \subseteq Node
          /\ Complete(tree, omitted, a) /\ Innermost(a)
      BY <1>1, <1>2, Here, Now
    <3> HIDE DEF a
    <3>3. Done(tree, omitted, a.of) => Done(tree', omitted, a.of)
      BY <3>2 DEF Done
    <3>4. Complete(tree', omitted, a)
      BY <3>2, <3>3 DEF Complete, Innermost
    <3> QED
      BY <3>4 DEF a
  <2> QED
    BY <2>1, <2>2 DEF Behind
<1>6. RunLast(stack, tree', verdict)
  BY <1>1 DEF RunLast
<1>7. Explained(Latest(stack, verdict), Showing(stack), tree', exception)
  BY <1>1 DEF Latest, Showing, Task
<1>8. TypeOK'
  BY <1>1 DEF TypeOK
<1> QED
  BY <1>1, <1>3, <1>4, <1>5, <1>6, <1>7, <1>8 DEF Inv

\* The manager a callback was lent is that of a node in progress.
LEMMA LentGoing ==
  ASSUME Inv, CallbackRuns
  PROVE  /\ stack # <<>> /\ Lent \in Going(tree) /\ Lent \in Node
         /\ Top.do # "inside" => Top.outcome = "none"
         /\ Top.do = "inside" => Lent = Scope /\ Scope # Task
         /\ Task \in Tasks /\ Run \notin tree.locked
         /\ tree \in StatusTree /\ Grown(tree, omitted) /\ omitted \in SUBSET Tasks
         /\ Explained(Top.outcome, Task, tree, exception)
<1>1. stack # <<>> /\ Top.do \in {"act", "enter", "inside"}
  BY DEF CallbackRuns, At
<1>2. /\ Top.do = "act" => Lent = Task
      /\ Top.do # "act" => Lent = Scope
  BY <1>1 DEF Lent, At
<1>3. Lent \in Going(tree)
  BY <1>1, <1>2, Here
<1>4. Top.do # "inside" => Top.outcome = "none"
  BY <1>1, Here DEF Innermost
<1>5. Top.do = "inside" => Lent = Scope /\ Scope # Task
  BY <1>1, <1>2, Here
<1> QED
  BY <1>1, <1>3, <1>4, <1>5, Here, Now DEF Going

LEMMA ReportInv ==
  ASSUME Inv, NEW s \in Reports, Report(s)
  PROVE  Inv'
<1>1. /\ CallbackRuns /\ tree' = Update(tree, Lent, s) /\ stack' = stack /\ omitted' = omitted
      /\ held' = held /\ exception' = exception /\ verdict' = verdict
      /\ Top.do = "inside" /\ tree.status[Scope] \in STOP_STATUSES => s \in STOP_STATUSES
  BY LentGoing DEF Report, At
<1>2. /\ stack # <<>> /\ Lent \in Going(tree) /\ Lent \in Node
      /\ Top.do # "inside" => Top.outcome = "none"
      /\ Top.do = "inside" => Lent = Scope /\ Scope # Task
      /\ Task \in Tasks /\ Task \in Node /\ Run \notin tree.locked
      /\ tree \in StatusTree /\ Grown(tree, omitted) /\ omitted \in SUBSET Tasks
      /\ Explained(Top.outcome, Task, tree, exception)
  BY <1>1, LentGoing, Basics
<1>3. s \in Status
  BY Basics
<1>4. /\ tree' \in StatusTree /\ Grown(tree', omitted) /\ Settles(tree, tree', Lent)
      /\ Going(tree') = Going(tree) /\ tree'.status[Lent] = s /\ tree'.locked = tree.locked
  BY <1>1, <1>2, <1>3, GrownUpdate
<1>5. /\ \A n \in Node : Absent(tree', n) <=> Absent(tree, n)
      /\ \A n \in Node \cup {Run} : n # Lent => tree'.status[n] = tree.status[n]
      /\ tree'.subTasks = tree.subTasks
  BY <1>4 DEF Settles
<1>6. Explained(Top.outcome, Task, tree', exception)
  <2>1. \A t \in Tasks \cap tree'.locked : t \in tree.locked /\ tree'.status[t] = tree.status[t]
    BY <1>2, <1>4, <1>5, Basics DEF Going
  <2>2. Top.outcome # "none" /\ Blamed(tree, Task) => Blamed(tree', Task)
    <3> SUFFICES ASSUME Top.outcome # "none", Blamed(tree, Task) PROVE Blamed(tree', Task)
      OBVIOUS
    <3>1. Top.do = "inside" /\ Lent = Scope /\ Task # Lent
      BY <1>2
    <3>2. \A n \in ToSet(tree.subTasks[Task]) : n \in Node
      <4>1. tree.subTasks[Task] \in Seq(Node)
        BY <1>2, TreeParts
      <4> QED
        BY <4>1 DEF ToSet
    <3>3. \A n \in ToSet(tree.subTasks[Task]) :
            tree.status[n] \in STOP_STATUSES => tree'.status[n] \in STOP_STATUSES
      BY <1>1, <1>4, <1>5, <3>1, <3>2
    <3>4. tree'.status[Task] = tree.status[Task]
      BY <1>2, <1>5, <3>1
    <3> QED
      BY <1>5, <3>3, <3>4 DEF Blamed
  <2> QED
    BY <1>2, <2>1, <2>2 DEF Explained, Ordinary
<1>7. Run \notin tree'.locked
  BY <1>2, <1>4
<1> QED
  BY <1>1, <1>2, <1>4, <1>5, <1>6, <1>7, StillStep

LEMMA AddStepInv ==
  ASSUME Inv, NEW s \in StepStatuses, AddStep(s)
  PROVE  Inv'
<1>1. /\ CallbackRuns /\ tree' = [tree EXCEPT !.steps[Lent] = @ \cup {s}] /\ stack' = stack
      /\ omitted' = omitted /\ held' = held /\ exception' = exception /\ verdict' = verdict
  BY DEF AddStep
<1>2. /\ stack # <<>> /\ Lent \in Going(tree) /\ Task \in Tasks /\ Run \notin tree.locked
      /\ tree \in StatusTree /\ Grown(tree, omitted) /\ omitted \in SUBSET Tasks
      /\ Explained(Top.outcome, Task, tree, exception)
  BY <1>1, LentGoing
<1>3. s \in Status
  BY Basics
<1>4. /\ tree' \in StatusTree /\ Grown(tree', omitted) /\ Settles(tree, tree', Lent)
      /\ Going(tree') = Going(tree) /\ tree'.status = tree.status /\ tree'.locked = tree.locked
  BY <1>1, <1>2, <1>3, GrownStep
<1>5. \A n \in Node : Absent(tree', n) <=> Absent(tree, n)
  BY <1>4 DEF Settles
<1>6. Explained(Top.outcome, Task, tree', exception)
  <2>1. tree'.subTasks = tree.subTasks
    BY <1>4 DEF Settles
  <2> QED
    BY <1>2, <1>4, <2>1 DEF Explained, Blamed
<1>7. Run \notin tree'.locked
  BY <1>2, <1>4
<1> QED
  BY <1>1, <1>2, <1>4, <1>5, <1>6, <1>7, StillStep

LEMMA CallWorkflowInv ==
  ASSUME Inv, NEW s \in CallResults, CallWorkflow(s)
  PROVE  Inv'
<1> DEFINE q == [tree EXCEPT !.steps[Task] = @ \cup {s}]
           v == Propagate(tree.status[Task], s)
<1>1. /\ stack # <<>> /\ Top.do = "act" /\ stack' = stack
      /\ omitted' = omitted /\ held' = held /\ exception' = exception /\ verdict' = verdict
  BY DEF CallWorkflow, At
<1>2. /\ Task \in Tasks /\ Task \in Node /\ Task \in Going(tree) /\ Run \notin tree.locked
      /\ tree \in StatusTree /\ Grown(tree, omitted) /\ omitted \in SUBSET Tasks
      /\ Explained(Top.outcome, Task, tree, exception) /\ Top.outcome = "none"
  BY <1>1, Here, Now, Basics DEF Innermost
<1>3. s \in Status
  BY Basics
<1>4. v \in Status
  <2>1. tree.status[Task] \in Status
    BY <1>2, TreeParts DEF Going, Absent
  <2>2. "ERROR" \in Status /\ "FAILURE" \in Status
    BY DEF Status
  <2> QED
    BY <2>1, <2>2 DEF Propagate
<1>5. tree' = Update(q, Task, v)
  <2>1. tree' = [tree EXCEPT !.steps[Task] = @ \cup {s}, !.status[Task] = Propagate(@, s)]
    BY DEF CallWorkflow
  <2> QED
    BY <1>2, <2>1 DEF Update, StatusTree
<1>6. /\ q \in StatusTree /\ Grown(q, omitted) /\ Settles(tree, q, Task)
      /\ Going(q) = Going(tree) /\ q.locked = tree.locked
  BY <1>2, <1>3, GrownStep
<1> HIDE DEF q, v
<1>7. /\ tree' \in StatusTree /\ Grown(tree', omitted) /\ Settles(q, tree', Task)
      /\ Going(tree') = Going(q) /\ tree'.locked = q.locked
  BY <1>2, <1>4, <1>5, <1>6, GrownUpdate
<1>8. /\ \A n \in Node : Absent(tree', n) <=> Absent(tree, n)
      /\ \A n \in Node : n # Task => tree'.status[n] = tree.status[n]
  BY <1>6, <1>7 DEF Settles
<1>9. Explained(Top.outcome, Task, tree', exception)
  <2>1. \A t \in Tasks \cap tree'.locked : t \in tree.locked /\ tree'.status[t] = tree.status[t]
    BY <1>2, <1>6, <1>7, <1>8, Basics DEF Going
  <2> QED
    BY <1>2, <2>1 DEF Explained, Ordinary
<1>10. Run \notin tree'.locked /\ Going(tree') = Going(tree)
  BY <1>2, <1>6, <1>7
<1> QED
  BY <1>1, <1>7, <1>8, <1>9, <1>10, StillStep

LEMMA SkipChildrenInv ==
  ASSUME Inv, SkipChildren
  PROVE  Inv'
<1>1. /\ stack # <<>> /\ Top.do = "act" /\ stack' = stack /\ tree' = tree
      /\ omitted' = omitted \cup {Task} /\ held' = held /\ exception' = exception /\ verdict' = verdict
  BY DEF SkipChildren, At
<1>2. /\ Task \in Tasks /\ Task \in Acting /\ Task \in Going(tree) /\ Top.of = Task
      /\ Top.outcome = "none" /\ Untouched(tree, Top) /\ Top = stack[Len(stack)]
      /\ Len(stack) > 0 /\ Len(stack) \in Nat /\ Len(stack) \in DOMAIN stack
  BY <1>1, Here, Now DEF Innermost, Placed, Task
<1>3. /\ TypeOK /\ Control(stack, verdict) /\ Names(stack, tree, held) /\ Grown(tree, omitted)
      /\ RunLast(stack, tree, verdict) /\ Ahead(stack, tree, omitted) /\ Behind(stack, tree, omitted)
      /\ Explained(Latest(stack, verdict), Showing(stack), tree, exception)
  BY DEF Inv
<1>4. Grown(tree, omitted')
  <2>1. ~Absent(tree, Task) /\ \A c \in ToSet(Children[Task]) : Absent(tree, c)
    BY <1>1, <1>2 DEF Going, Untouched
  <2>2. \A t \in omitted' : ~Absent(tree, t) /\ \A c \in ToSet(Children[t]) : Absent(tree, c)
    BY <1>1, <1>3, <2>1 DEF Grown
  <2>3. \A t \in Tasks \cap tree.locked : Done(tree, omitted', t)
    <3>1. \A t \in Tasks \cap tree.locked : Done(tree, omitted, t)
      BY <1>3 DEF Grown
    <3> QED
      BY <1>1, <3>1 DEF Done
  <2> QED
    BY <1>3, <2>2, <2>3 DEF Grown
<1>5. Ahead(stack, tree, omitted')
  <2>1. ASSUME NEW i \in DOMAIN stack, stack[i].do = "children" PROVE Later(tree, omitted', stack[i])
    <3>1. i \in 1 .. Len(stack) - 1
      <4>1. i # Len(stack) /\ i \in 1 .. Len(stack)
        BY <1>1, <1>2, <1>3, <2>1, Stacks DEF TypeOK
      <4> QED
        BY <1>2, <4>1
    <3>2. stack[i].of # Task
      BY <2>1, <3>1, Lower
    <3>3. Later(tree, omitted, stack[i])
      BY <1>3, <2>1 DEF Ahead
    <3> QED
      BY <1>1, <3>2, <3>3 DEF Later
  <2> QED
    BY <1>3, <2>1 DEF Ahead
<1>6. Behind(stack, tree, omitted')
  BY <1>2, <1>3 DEF Behind, Complete
<1>7. TypeOK'
  BY <1>1, <1>2, <1>3 DEF TypeOK
<1> QED
  BY <1>1, <1>3, <1>4, <1>5, <1>6, <1>7 DEF Inv

LEMMA FinishRunInv ==
  ASSUME Inv, FinishRun
  PROVE  Inv'
<1>1. /\ stack = <<>> /\ verdict # "signal" /\ tree' = FinalizeManager(tree, Run) /\ stack' = stack
      /\ omitted' = omitted /\ held' = held /\ exception' = exception /\ verdict' = verdict
      /\ Run \notin tree.locked
  BY DEF FinishRun
<1>2. /\ TypeOK /\ Control(stack, verdict) /\ Names(stack, tree, held) /\ Grown(tree, omitted)
      /\ RunLast(stack, tree, verdict)
      /\ Explained(Latest(stack, verdict), Showing(stack), tree, exception)
      /\ tree \in StatusTree /\ omitted \in SUBSET Tasks
  BY Basics DEF Inv, TypeOK
<1>3. Len(stack) = 0 /\ DOMAIN stack = {} /\ ~(Len(stack) > 0)
  BY <1>1
<1>4. Root \in Tasks /\ Root \in Node /\ Root # Run /\ Run \notin Node /\ Run \notin Tasks
  BY Basics
<1>5. /\ tree' \in StatusTree /\ Grown(tree', omitted) /\ Settles(tree, tree', Run)
      /\ Going(tree') = Going(tree) \ {Run}
      /\ Blamed(tree, Run) => tree'.status[Run] \in STOP_STATUSES
      /\ tree'.locked = tree.locked \cup {Run}
  <2>1. ~Absent(tree, Run) /\ Run \in Node \cup {Run}
    BY <1>2 DEF Grown
  <2> QED
    BY <1>1, <1>2, <1>4, <2>1, GrownFinalize
<1>6. /\ \A n \in Node : Absent(tree', n) <=> Absent(tree, n)
      /\ \A n \in Node : tree'.status[n] = tree.status[n]
      /\ Going(tree') = Going(tree)
  BY <1>4, <1>5 DEF Settles, Going
<1>7. Names(stack, tree', held)
  BY <1>2, <1>6 DEF Names
<1>8. Ahead(stack, tree', omitted) /\ Behind(stack, tree', omitted)
  BY <1>3 DEF Ahead, Behind
<1>9. RunLast(stack, tree', verdict)
  <2>1. ~Absent(tree, Root)
    BY <1>2, <1>3 DEF RunLast
  <2>2. Root \in ToSet(tree.subTasks[Run])
    BY <1>2, <2>1 DEF Grown, Below
  <2>3. tree'.status[Root] \in STOP_STATUSES => tree'.status[Run] \in STOP_STATUSES
    BY <1>4, <1>5, <1>6, <2>2 DEF Blamed
  <2> QED
    BY <1>1, <1>3, <1>4, <1>6, <2>1, <2>3 DEF RunLast
<1>10. Explained(Latest(stack, verdict), Showing(stack), tree', exception)
  <2>1. Showing(stack) = Run /\ Latest(stack, verdict) = verdict
    BY <1>3 DEF Showing, Latest
  <2>2. \A t \in Tasks \cap tree'.locked : t \in tree.locked /\ tree'.status[t] = tree.status[t]
    BY <1>4, <1>5, <1>6, Basics
  <2>3. Blamed(tree, Run) => Blamed(tree', Run)
    BY <1>5 DEF Blamed
  <2> QED
    BY <1>2, <2>1, <2>2, <2>3 DEF Explained
<1>11. TypeOK'
  BY <1>1, <1>2, <1>5 DEF TypeOK
<1> QED
  BY <1>1, <1>2, <1>5, <1>7, <1>8, <1>9, <1>10, <1>11 DEF Inv

----------------------------------------------------------------------------
\* Every behaviour.

LEMMA InitInv == Init => Inv
<1> SUFFICES ASSUME Init PROVE Inv
  OBVIOUS
<1> USE Basics
<1>1. /\ stack = <<Doing("start", Root, 0)>> /\ omitted = {} /\ held = {}
      /\ exception = Nobody /\ verdict = "none"
      /\ tree = [status   |-> [n \in Node \cup {Run} |->
                                 IF n = Run THEN "RUNNING" ELSE "ABSENT"],
                 subTasks |-> [n \in Node \cup {Run} |-> <<>>],
                 steps    |-> [n \in Node \cup {Run} |-> {}],
                 locked   |-> {}]
  BY DEF Init
<1> DEFINE a == Doing("start", Root, 0)
<1>2. a \in Activation /\ a.do = "start" /\ a.of = Root /\ a.outcome = "none"
  BY DEF Doing, Activation
<1>3. stack = <<a>>
  BY <1>1
<1> HIDE DEF a
<1>4. stack \in Seq(Activation) /\ Len(stack) = 1 /\ DOMAIN stack = {1} /\ stack[1] = a
  BY <1>2, <1>3
<1>5. /\ \A n \in Node : tree.status[n] = "ABSENT" /\ n # Run
      /\ tree.status[Run] = "RUNNING" /\ tree.locked = {} /\ tree.steps[Run] = {}
      /\ \A n \in Node \cup {Run} : tree.subTasks[n] = <<>>
  BY <1>1
<1>6. tree \in StatusTree
  <2>1. "RUNNING" \in Status
    BY DEF Status
  <2>2. <<>> \in Seq(Node)
    OBVIOUS
  <2> QED
    BY <1>1, <2>1, <2>2 DEF StatusTree
<1>7. TypeOK
  BY <1>1, <1>4, <1>6 DEF TypeOK
<1>8. Control(stack, verdict)
  <2>1. Linked(stack, verdict)
    BY <1>1, <1>2, <1>4 DEF Linked, Placed, Innermost
  <2>2. OneBody(stack)
    BY <1>4 DEF OneBody
  <2>3. Nested(stack)
    <3>1. Enclosing(Root) = {}
      BY DEF Enclosing
    <3> QED
      BY <1>2, <1>4, <3>1 DEF Nested, Around
  <2> QED
    BY <2>1, <2>2, <2>3 DEF Control
<1>9. Names(stack, tree, held)
  BY <1>1, <1>2, <1>4, <1>5 DEF Names, NamesOf, OwnsOf, Naming, Owning, Going, Absent
<1>10. Grown(tree, omitted)
  <2>1. \A n \in Node \cup {Run} : \A m \in Below(n) : Absent(tree, m)
    BY <1>5, BelowPlace DEF Absent
  <2>2. IsInjective(<<>>) /\ ToSet(<<>>) = {}
    BY DEF IsInjective, ToSet
  <2>3. \A n \in Node \cup {Run} :
          IsInjective(tree.subTasks[n])
          /\ ToSet(tree.subTasks[n]) = {m \in Below(n) : ~Absent(tree, m)}
    BY <1>5, <2>1, <2>2
  <2>4. \A t \in Tasks : \A n \in Below(t) : ~Absent(tree, n) => ~Absent(tree, t)
    BY <2>1
  <2>5. ~Absent(tree, Run)
    BY <1>5 DEF Absent
  <2> QED
    BY <1>1, <1>5, <2>3, <2>4, <2>5 DEF Grown
<1>11. RunLast(stack, tree, verdict)
  BY <1>4, <1>5 DEF RunLast
<1>12. Ahead(stack, tree, omitted)
  BY <1>2, <1>4, <1>5 DEF Ahead, Untouched, Absent
<1>13. Behind(stack, tree, omitted)
  BY <1>2, <1>4 DEF Behind, Complete
<1>14. Explained(Latest(stack, verdict), Showing(stack), tree, exception)
  BY <1>1, <1>2, <1>4, <1>5 DEF Explained, Latest, Ordinary
<1> QED
  BY <1>7, <1>8, <1>9, <1>10, <1>11, <1>12, <1>13, <1>14 DEF Inv

LEMMA StutterInv ==
  ASSUME Inv, UNCHANGED vars
  PROVE  Inv'
BY DEF Inv, TypeOK, vars

LEMMA NextInv ==
  ASSUME Inv, [Next]_vars
  PROVE  Inv'
<1>1. CASE UNCHANGED vars
  BY <1>1, StutterInv
<1>2. CASE BeginTask \/ BeginScope
  BY <1>2, BeginTaskInv, BeginScopeInv
<1>3. ASSUME NEW kind \in {"failed", "signal"},
             EnterRaises(kind) \/ ExitRaises(kind) \/ ActionRaises(kind)
      PROVE  Inv'
  BY <1>3, EnterRaisesInv, ExitRaisesInv, ActionRaisesInv
<1>4. ASSUME NEW o \in {"none", "failed", "signal"}, Enter(o) \/ EndTask(o)
      PROVE  Inv'
  BY <1>4, EnterInv, EndTaskInv
<1>5. ASSUME NEW suppressed \in BOOLEAN, ScopeExits(suppressed) PROVE Inv'
  BY <1>5, ScopeExitsInv
<1>6. CASE CoveringExits
  BY <1>6, CoveringExitsInv
<1>7. CASE ActionReturns \/ NextChild \/ ChildEnded \/ ChildrenDone
  BY <1>7, ActionReturnsInv, NextChildInv, ChildEndedInv, ChildrenDoneInv
<1>8. ASSUME NEW s \in Reports, Report(s) PROVE Inv'
  BY <1>8, ReportInv
<1>9. ASSUME NEW s \in StepStatuses, AddStep(s) PROVE Inv'
  BY <1>9, AddStepInv
<1>10. ASSUME NEW s \in CallResults, CallWorkflow(s) PROVE Inv'
  BY <1>10, CallWorkflowInv
<1>11. CASE SkipChildren
  BY <1>11, SkipChildrenInv
<1>12. CASE FinishRun
  BY <1>12, FinishRunInv
<1>13. CASE Finished
  BY <1>13, StutterInv DEF Finished
<1> QED
  BY <1>1, <1>2, <1>3, <1>4, <1>5, <1>6, <1>7, <1>8, <1>9, <1>10, <1>11, <1>12, <1>13 DEF Next

----------------------------------------------------------------------------
\* What the invariant says.

LEMMA InvNested == Inv => ScopesNested
<1> SUFFICES ASSUME Inv PROVE ScopesNested
  OBVIOUS
<1>1. stack \in Seq(Activation) /\ Nested(stack) /\ Names(stack, tree, held) /\ Linked(stack, verdict)
  BY DEF Inv, TypeOK, Control
<1>2. UNION {OwnsOf(stack[i]) : i \in DOMAIN stack} = held
  BY <1>1 DEF Names
<1>3. ASSUME NEW n \in held PROVE Enclosing(n) \subseteq held
  <2>1. PICK i \in DOMAIN stack : n \in OwnsOf(stack[i])
    BY <1>2
  <2>2. /\ stack[i].do \in {"task", "inside"} /\ n = NodeOf(stack[i])
        /\ stack[i].of \in Tasks
    BY <1>1, <2>1, Stacks DEF OwnsOf, Owning
  <2>3. Around(stack[i]) \subseteq held
    BY <1>1, Surroundings
  <2>4. CASE stack[i].do = "task"
    BY <2>2, <2>3, <2>4 DEF Around, NodeOf
  <2>5. CASE stack[i].do = "inside"
    <3>1. stack[i].index \in DOMAIN Scopes[stack[i].of]
      BY <1>1, <2>5 DEF Linked, Placed
    <3>2. n = Scopes[stack[i].of][stack[i].index]
      BY <2>2, <2>5 DEF NodeOf
    <3>3. Enclosing(n) = {stack[i].of} \cup {Scopes[stack[i].of][j] : j \in 1 .. stack[i].index - 1}
      BY <2>2, <3>1, <3>2, ScopePlace
    <3> QED
      BY <2>3, <2>5, <3>3 DEF Around
  <2> QED
    BY <2>2, <2>4, <2>5
<1>4. stack = <<>> => held = {}
  BY <1>2
<1> QED
  BY <1>3, <1>4 DEF ScopesNested

\* What lies below a task is it and what lies below its children.
LEMMA SubtreeParts ==
  ASSUME NEW u \in Tasks
  PROVE  /\ \A t \in Subtree(u) : t = u \/ \E x \in ToSet(Children[u]) : t \in Subtree(x)
         /\ \A x \in ToSet(Children[u]) : x \in Tasks /\ Subtree(x) \subseteq Subtree(u)
<1>1. \A x \in ToSet(Children[u]) : x \in Tasks
  BY Basics DEF ToSet
<1> DEFINE S == {u} \cup UNION {Subtree(x) : x \in ToSet(Children[u])}
<1>2. S \in SUBSET Tasks /\ u \in S
  BY <1>1, SubtreeLeast
<1>3. Closed(S)
  <2>1. ASSUME NEW t \in S PROVE ToSet(Children[t]) \subseteq S
    <3>1. CASE t = u
      BY <1>1, <3>1, SubtreeLeast
    <3>2. ASSUME NEW x \in ToSet(Children[u]), t \in Subtree(x)
          PROVE  ToSet(Children[t]) \subseteq S
      <4>1. Closed(Subtree(x))
        BY <1>1, SubtreeLeast
      <4> QED
        BY <3>2, <4>1 DEF Closed
    <3> QED
      BY <3>1, <3>2
  <2> QED
    BY <2>1 DEF Closed
<1>4. Subtree(u) \subseteq S
  BY <1>2, <1>3, SubtreeLeast
<1>5. ASSUME NEW x \in ToSet(Children[u]) PROVE Subtree(x) \subseteq Subtree(u)
  <2>1. Closed(Subtree(u)) /\ u \in Subtree(u) /\ Subtree(u) \in SUBSET Tasks
    BY SubtreeLeast
  <2>2. x \in Subtree(u)
    BY <2>1 DEF Closed
  <2> QED
    BY <1>1, <2>1, <2>2, SubtreeLeast
<1> QED
  BY <1>1, <1>4, <1>5

LEMMA InvReported == Inv => EveryBranchReported
<1> SUFFICES ASSUME Inv, Reported PROVE EveryBranchReported
  BY DEF EveryBranchReported
<1> USE Basics
<1>1. /\ tree \in StatusTree /\ omitted \in SUBSET Tasks /\ Grown(tree, omitted)
      /\ Names(stack, tree, held) /\ RunLast(stack, tree, verdict) /\ stack \in Seq(Activation)
  BY DEF Inv, TypeOK
<1>2. Len(stack) = 0 /\ ~Absent(tree, Root)
  BY <1>1 DEF Reported, RunLast
<1>3. Going(tree) = {}
  <2>1. DOMAIN stack = {}
    BY <1>1, <1>2, Stacks
  <2> QED
    BY <1>1, <2>1 DEF Names
<1>4. \A n \in Node : ~Absent(tree, n) => n \in tree.locked /\ tree.status[n] \notin {"RUNNING", "ABSENT"}
  BY <1>1, <1>3 DEF Going, Grown
<1>5. \A t \in Tasks : ~Absent(tree, t) => Done(tree, omitted, t)
  BY <1>1, <1>4 DEF Grown
<1> DEFINE hidden == UNION {Subtree(t) \ {t} : t \in omitted}
<1>6. ASSUME NEW t \in Tasks, t \in hidden PROVE Absent(tree, t)
  <2>1. PICK u \in omitted : t \in Subtree(u) /\ t # u
    BY <1>6
  <2>2. PICK x \in ToSet(Children[u]) : x \in Tasks /\ t \in Subtree(x)
    BY <1>1, <2>1, SubtreeParts
  <2>3. Absent(tree, x)
    BY <1>1, <2>1, <2>2 DEF Grown
  <2> QED
    BY <1>1, <2>2, <2>3, AbsentBranch
<1>7. ASSUME NEW t \in Tasks, Absent(tree, t) PROVE t \in hidden
  <2> DEFINE S == {s \in Tasks : \/ ~Absent(tree, s)
                                 \/ \E u \in omitted : \E x \in ToSet(Children[u]) : s \in Subtree(x)}
  <2>1. S \in SUBSET Tasks /\ Root \in S
    BY <1>2
  <2>2. Closed(S)
    <3>1. ASSUME NEW s \in S, NEW c \in ToSet(Children[s]) PROVE c \in S
      <4>1. s \in Tasks /\ c \in Tasks /\ c \in Subtree(c)
        BY SubtreeLeast DEF ToSet
      <4>2. CASE ~Absent(tree, s)
        BY <1>5, <4>1, <4>2 DEF Done
      <4>3. ASSUME NEW u \in omitted, NEW x \in ToSet(Children[u]), s \in Subtree(x)
            PROVE  c \in S
        <5>1. Closed(Subtree(x))
          BY <1>1, SubtreeParts, SubtreeLeast
        <5>2. c \in Subtree(x)
          BY <4>3, <5>1 DEF Closed
        <5> QED
          BY <4>1, <5>2
      <4> QED
        BY <4>2, <4>3
    <3> QED
      BY <3>1 DEF Closed
  <2>3. t \in S
    BY <2>1, <2>2, TreeAssumption, SubtreeLeast
  <2>4. PICK u \in omitted : \E x \in ToSet(Children[u]) : t \in Subtree(x)
    BY <1>7, <2>3
  <2>5. t \in Subtree(u)
    BY <1>1, <2>4, SubtreeParts
  <2>6. t # u
    BY <1>1, <1>7 DEF Grown
  <2> QED
    BY <2>5, <2>6
<1> DEFINE shown == Tasks \ hidden
<1>8. \A t \in Tasks : t \in shown <=> ~Absent(tree, t)
  BY <1>6, <1>7
<1> HIDE DEF hidden
<1>9. Expected = shown \cup UNION {ToSet(Scopes[t]) : t \in shown}
  BY DEF Expected, hidden
<1>10. shown \subseteq Tasks
  OBVIOUS
<1> HIDE DEF shown
<1>11. ASSUME NEW n \in Expected
       PROVE  n \in Node /\ ~Absent(tree, n) /\ \E p \in Node \cup {Run} : n \in Below(p)
  <2>1. CASE n \in shown
    <3>1. n \in Tasks /\ ~Absent(tree, n)
      BY <1>8, <1>10, <2>1
    <3>2. CASE n = Root
      BY <3>1, <3>2 DEF Below
    <3>3. CASE n # Root
      <4>1. PICK p \in Tasks : n \in ToSet(Children[p])
        BY <3>1, <3>3, Reached
      <4> QED
        BY <3>1, <4>1 DEF Below
    <3> QED
      BY <3>2, <3>3
  <2>2. ASSUME NEW t \in shown, n \in ToSet(Scopes[t])
        PROVE  n \in Node /\ ~Absent(tree, n) /\ \E p \in Node \cup {Run} : n \in Below(p)
    <3>1. t \in Tasks /\ ~Absent(tree, t)
      BY <1>8, <1>10
    <3>2. ~Absent(tree, n) /\ n \in Below(t) /\ t \in Node \cup {Run}
      BY <1>5, <2>2, <3>1 DEF Done, Below
    <3> QED
      BY <3>2, BelowPlace
  <2> QED
    BY <1>9, <2>1, <2>2
<1>12. ASSUME NEW p \in Node \cup {Run}, NEW n \in Below(p), ~Absent(tree, n)
       PROVE  n \in Expected
  <2>1. CASE n \in Tasks
    BY <1>8, <1>9, <1>12, <2>1
  <2>2. CASE n \notin Tasks
    <3>1. p \in Tasks /\ n \in ToSet(Scopes[p])
      BY <2>2 DEF Below, ToSet
    <3>2. ~Absent(tree, p)
      BY <1>1, <1>12, <3>1 DEF Grown
    <3> QED
      BY <1>8, <1>9, <3>1, <3>2
  <2> QED
    BY <2>1, <2>2
<1>13. UNION {ToSet(tree.subTasks[n]) : n \in Node \cup {Run}} = Expected
  <2>1. \A p \in Node \cup {Run} : ToSet(tree.subTasks[p]) = {m \in Below(p) : ~Absent(tree, m)}
    BY <1>1 DEF Grown
  <2> QED
    BY <1>11, <1>12, <2>1
<1>14. \A n \in Node \cup {Run} : IsInjective(tree.subTasks[n])
  BY <1>1 DEF Grown
<1> QED
  BY <1>4, <1>11, <1>13, <1>14 DEF EveryBranchReported

LEMMA InvPublished == Inv => FailurePublished
<1> SUFFICES ASSUME Inv, verdict \in Ordinary PROVE exception # Nobody
  BY DEF FailurePublished
<1>1. Linked(stack, verdict) /\ Explained(Latest(stack, verdict), Showing(stack), tree, exception)
  BY DEF Inv, Control
<1>2. ~(Len(stack) > 0)
  BY <1>1 DEF Linked, Ordinary
<1> QED
  BY <1>1, <1>2 DEF Latest, Explained

LEMMA InvEarned == Inv => SuccessIsEarned
<1> SUFFICES ASSUME Inv, Reported, tree.status[Run] \notin STOP_STATUSES
             PROVE  /\ exception = Nobody /\ verdict = "more"
                    /\ \A t \in Tasks : tree.status[t] \notin STOP_STATUSES
  BY DEF SuccessIsEarned
<1>1. /\ tree \in StatusTree /\ Grown(tree, omitted) /\ Linked(stack, verdict)
      /\ Names(stack, tree, held) /\ RunLast(stack, tree, verdict) /\ stack \in Seq(Activation)
      /\ Explained(Latest(stack, verdict), Showing(stack), tree, exception)
      /\ verdict \in Outcome \cup {"none"}
  BY DEF Inv, TypeOK, Control
<1>2. /\ Len(stack) = 0 /\ verdict # "signal"
      /\ tree.status[Root] \in STOP_STATUSES => tree.status[Run] \in STOP_STATUSES
  BY <1>1 DEF Reported, RunLast
<1>3. ~(Len(stack) > 0)
  BY <1>2
<1>4. verdict # "none" /\ Explained(verdict, Run, tree, exception)
  BY <1>1, <1>3 DEF Linked, Latest, Showing
<1>5. ~Blamed(tree, Run)
  <2>1. ToSet(tree.subTasks[Run]) \subseteq {Root}
    BY <1>1 DEF Grown, Below
  <2> QED
    BY <1>2, <2>1 DEF Blamed
<1>6. verdict = "more"
  BY <1>1, <1>2, <1>4, <1>5 DEF Outcome, Explained, Ordinary
<1>7. exception = Nobody /\ \A t \in Tasks \cap tree.locked : tree.status[t] \notin STOP_STATUSES
  BY <1>4, <1>6 DEF Explained
<1>8. ASSUME NEW t \in Tasks PROVE tree.status[t] \notin STOP_STATUSES
  <2>1. DOMAIN stack = {}
    BY <1>1, <1>2, Stacks
  <2>2. Going(tree) = {}
    BY <1>1, <2>1 DEF Names
  <2>3. CASE t \in tree.locked
    BY <1>7, <2>3
  <2>4. CASE t \notin tree.locked
    BY <2>2, <2>4, Basics DEF Going, Absent, STOP_STATUSES
  <2> QED
    BY <2>3, <2>4
<1> QED
  BY <1>6, <1>7, <1>8

----------------------------------------------------------------------------
\* What begins.

\* Unless the recursion moves on to a new node, no node comes to be in progress.
LEMMA FewGoing ==
  ASSUME Inv, Inv', stack # <<>>, Rest(stack, stack'), Len(stack') \in Nat,
         \/ Len(stack') = Len(stack) - 1
         \/ Len(stack') = Len(stack) /\ NamesOf(stack'[Len(stack)]) \subseteq Going(tree)
         \/ /\ Len(stack') = Len(stack) + 1 /\ NamesOf(stack'[Len(stack)]) \subseteq Going(tree)
            /\ NamesOf(stack'[Len(stack) + 1]) = {}
  PROVE  Going(tree') \subseteq Going(tree)
<1> DEFINE L == Len(stack)
<1>1. /\ stack \in Seq(Activation) /\ Names(stack, tree, held)
      /\ stack' \in Seq(Activation) /\ Names(stack', tree', held')
  BY DEF Inv, TypeOK
<1>2. L \in Nat /\ L > 0
  BY Here
<1>3. /\ UNION {NamesOf(stack'[i]) : i \in 1 .. L - 1} \subseteq Going(tree)
      /\ UNION {NamesOf(stack'[i]) : i \in DOMAIN stack'} = Going(tree')
  <2>1. UNION {NamesOf(stack'[i]) : i \in 1 .. L - 1} = Going(tree) \ NamesOf(stack[L])
    BY <1>1, <1>2, NamesUnder
  <2> QED
    BY <1>1, <2>1 DEF Names
<1>4. DOMAIN stack' = 1 .. Len(stack')
  BY <1>1, Stacks
<1>5. /\ Len(stack') = L - 1 \/ Len(stack') = L \/ Len(stack') = L + 1
      /\ Len(stack') # L - 1 => NamesOf(stack'[L]) \subseteq Going(tree)
      /\ Len(stack') = L + 1 => NamesOf(stack'[L + 1]) = {}
  BY SMTT(30), <1>2
<1> HIDE DEF L
<1>6. \A i \in DOMAIN stack' :
        \/ i \in 1 .. L - 1
        \/ i = L /\ Len(stack') # L - 1
        \/ i = L + 1 /\ Len(stack') = L + 1
  <2>1. /\ \A i \in 1 .. L : i \in 1 .. L - 1 \/ i = L
        /\ \A i \in 1 .. L + 1 : i \in 1 .. L - 1 \/ i = L \/ i = L + 1
        /\ L # L - 1 /\ L + 1 # L - 1
    BY ONLY <1>2
  <2> QED
    BY <1>4, <1>5, <2>1
<1>7. \A i \in DOMAIN stack' : NamesOf(stack'[i]) \subseteq Going(tree)
  BY <1>3, <1>5, <1>6
<1> QED
  BY <1>3, <1>7

LEMMA Quiet ==
  ASSUME Inv, Inv', stack # <<>>,
         \/ stack' = stack
         \/ \E o \in Outcome : Return(o)
         \/ \E a \in Activation : Become(a) /\ NamesOf(a) \subseteq Going(tree)
         \/ \E a, b \in Activation :
              Call(a, b) /\ NamesOf(a) \subseteq Going(tree) /\ NamesOf(b) = {}
  PROVE  Going(tree') \subseteq Going(tree)
<1>1. stack \in Seq(Activation) /\ Len(stack) > 0 /\ Len(stack) \in Nat
  BY Here DEF Inv, TypeOK
<1>2. CASE stack' = stack
  BY <1>2 DEF Inv, Names
<1>3. ASSUME NEW o \in Outcome, Return(o) PROVE Going(tree') \subseteq Going(tree)
  <2>1. stack' \in Seq(Activation) /\ Len(stack') = Len(stack) - 1 /\ Rest(stack, stack')
    BY <1>1, <1>3, Returns
  <2> QED
    BY <2>1, Stacks, FewGoing
<1>4. ASSUME NEW a \in Activation, Become(a), NamesOf(a) \subseteq Going(tree)
      PROVE  Going(tree') \subseteq Going(tree)
  <2>1. /\ stack' \in Seq(Activation) /\ Len(stack') = Len(stack) /\ Rest(stack, stack')
        /\ stack'[Len(stack)] = a
    BY <1>1, <1>4, Becomes
  <2> QED
    BY <1>1, <1>4, <2>1, FewGoing
<1>5. ASSUME NEW a \in Activation, NEW b \in Activation, Call(a, b),
             NamesOf(a) \subseteq Going(tree), NamesOf(b) = {}
      PROVE  Going(tree') \subseteq Going(tree)
  <2>1. /\ stack' \in Seq(Activation) /\ Len(stack') = Len(stack) + 1 /\ Rest(stack, stack')
        /\ stack'[Len(stack)] = a /\ stack'[Len(stack) + 1] = b
    BY <1>1, <1>5, Calls
  <2>2. Len(stack') \in Nat
    BY <2>1, Stacks
  <2> QED
    BY <1>5, <2>1, <2>2, FewGoing
<1> QED
  BY <1>2, <1>3, <1>4, <1>5

\* Only the beginning of a task or of a context's scope puts a node in progress.
LEMMA Begins ==
  ASSUME Inv, Inv', [Next]_vars, NEW n \in Node, Absent(tree, n), tree'.status[n] = "RUNNING"
  PROVE  BeginTask \/ BeginScope
<1>1. ~(Going(tree') \subseteq Going(tree))
  <2>1. Grown(tree', omitted')
    BY DEF Inv
  <2>2. n \notin tree'.locked
    BY <2>1 DEF Grown
  <2> QED
    BY <2>2 DEF Going, Absent
<1>2. stack' # stack
  BY <1>1 DEF Inv, Names
<1>3. CASE stack = <<>>
  <2>1. ~At("start") /\ ~At("task") /\ ~At("open") /\ ~At("enter") /\ ~At("inside") /\ ~At("act") /\ ~At("children")
    BY <1>3 DEF At
  <2>2. FALSE
    BY <1>2, <2>1
       DEF Next, vars, BeginTask, BeginScope, EnterRaises, ExitRaises, ActionRaises, Enter, EndTask,
           ScopeExits, CoveringExits, ActionReturns, NextChild, ChildEnded, ChildrenDone, Report,
           AddStep, CallWorkflow, SkipChildren, FinishRun, Finished
  <2> QED
    BY <2>2
<1>4. CASE stack # <<>>
  <2>1. /\ Task \in Tasks /\ Top \in Activation /\ Top.of = Task /\ Top.outcome \in Outcome \cup {"none"}
        /\ Top.index \in Nat /\ Placed(Top) /\ Innermost(Top)
    BY <1>4, Here, Now DEF Task, Activation
  <2>2. "failed" \in Outcome /\ "signal" \in Outcome /\ "stop" \in Outcome
        /\ "stopped" \in Outcome /\ "more" \in Outcome
    BY DEF Outcome
  <2>3. ASSUME NEW o \in Outcome, Return(o) PROVE FALSE
    BY <1>1, <1>4, <2>3, Quiet
  <2>4. ASSUME NEW a \in Activation, Become(a), NamesOf(a) \subseteq Going(tree) PROVE FALSE
    BY <1>1, <1>4, <2>4, Quiet
  <2>5. ASSUME NEW a \in Activation, NEW b \in Activation, Call(a, b),
               NamesOf(a) \subseteq Going(tree), NamesOf(b) = {}
        PROVE  FALSE
    BY <1>1, <1>4, <2>5, Quiet
  <2>6. ASSUME NEW t \in Tasks, NEW do \in {"start", "open", "act", "children"}, NEW k \in Nat
        PROVE  Doing(do, t, k) \in Activation /\ NamesOf(Doing(do, t, k)) = {}
    BY DEF Doing, Activation, NamesOf, Naming
  <2>7. ASSUME NEW o \in Outcome \cup {"none"}, NEW kind \in {"failed", "signal"}
        PROVE  Combine(o, kind) \in Outcome
    BY DEF Combine, Outcome
  <2>8. ASSUME NEW kind \in {"failed", "signal"},
               EnterRaises(kind) \/ ExitRaises(kind) \/ ActionRaises(kind)
        PROVE  FALSE
    <3>1. Return(kind) \/ Return(Combine(Top.outcome, kind))
      BY <2>8 DEF EnterRaises, ExitRaises, ActionRaises
    <3> QED
      BY <2>1, <2>2, <2>3, <2>7, <3>1
  <2>9. ASSUME NEW mapping \in {"none", "failed", "signal"}, Enter(mapping) PROVE FALSE
    <3> DEFINE o == IF mapping = "none" /\ tree.status[Scope] \in STOP_STATUSES
                    THEN "stopped" ELSE mapping
               c == [Top EXCEPT !.do = "inside"]
               b == Inner(Task, Top.index + 1)
               a == [Top EXCEPT !.do = "inside", !.outcome = o]
    <3>1. Top.do = "enter" /\ (Call(c, b) \/ Become(a)) /\ o \in Outcome \cup {"none"}
      BY <2>9 DEF Enter, At, Outcome
    <3> HIDE DEF o
    <3>2. /\ c \in Activation /\ c.do = "inside" /\ c.of = Task /\ c.index = Top.index
          /\ a \in Activation /\ a.do = "inside" /\ a.of = Task /\ a.index = Top.index
      BY <2>1, <3>1 DEF Activation
    <3>3. Top.index \in DOMAIN Scopes[Task] /\ Scopes[Task][Top.index] \in Going(tree)
      BY <1>4, <2>1, <3>1, Here DEF Placed, Scope
    <3>4. Top.index + 1 \in 1 .. Len(Scopes[Task]) + 1
      <4>1. DOMAIN Scopes[Task] = 1 .. Len(Scopes[Task]) /\ Len(Scopes[Task]) \in Nat
        BY <2>1, Basics
      <4> QED
        BY ONLY <2>1, <3>3, <4>1
    <3>5. b \in Activation /\ ~Naming(b)
      BY <2>1, <3>4, InnerPlaced
    <3> HIDE DEF a, b, c
    <3>6. NamesOf(c) \subseteq Going(tree) /\ NamesOf(a) \subseteq Going(tree) /\ NamesOf(b) = {}
      BY <3>2, <3>3, <3>5 DEF NamesOf, NodeOf
    <3> QED
      BY <2>4, <2>5, <3>1, <3>2, <3>5, <3>6
  <2>10. ASSUME NEW cleanup \in {"none", "failed", "signal"}, EndTask(cleanup) PROVE FALSE
    <3>1. \E o \in Outcome : Return(o)
      BY <2>1, <2>2, <2>7, <2>10 DEF EndTask
    <3> QED
      BY <2>3, <3>1
  <2>11. ASSUME NEW suppressed, NEW q, Exit(suppressed, q), Top.outcome # "none" PROVE FALSE
    <3>1. Return("stop") \/ Return("stopped") \/ Return(Top.outcome)
      BY <2>11 DEF Exit
    <3> QED
      BY <2>1, <2>2, <2>3, <2>11, <3>1
  <2>12. ~ScopeExits(TRUE) /\ ~ScopeExits(FALSE) /\ ~CoveringExits
    BY <2>11 DEF ScopeExits, CoveringExits
  <2>13. ~ActionReturns
    BY <2>1, <2>2, <2>3, <2>4, <2>6 DEF ActionReturns
  <2>14. ~NextChild
    <3> SUFFICES ASSUME NextChild PROVE FALSE
      OBVIOUS
    <3>1. /\ Top.do = "children" /\ Top.index <= Len(Children[Task])
          /\ Call(Top, Doing("start", Children[Task][Top.index], 0))
      BY DEF NextChild, At
    <3>2. Top.index \in DOMAIN Children[Task]
      <4>1. DOMAIN Children[Task] = 1 .. Len(Children[Task]) /\ Len(Children[Task]) \in Nat
        BY <2>1, Basics
      <4>2. Top.index \in 1 .. Len(Children[Task]) + 1
        BY <2>1, <3>1 DEF Placed
      <4> QED
        BY ONLY <3>1, <4>1, <4>2
    <3>3. Children[Task][Top.index] \in Tasks /\ NamesOf(Top) = {}
      BY <2>1, <3>1, <3>2, Basics DEF NamesOf, Naming
    <3> QED
      BY <2>1, <2>5, <2>6, <3>1, <3>3
  <2>15. ~ChildEnded
    <3> SUFFICES ASSUME ChildEnded PROVE FALSE
      OBVIOUS
    <3>1. \/ Become(Doing("children", Task, Top.index + 1))
          \/ Top.outcome # "none" /\ Return(Top.outcome)
      BY DEF ChildEnded
    <3>2. Top.index + 1 \in Nat
      BY <2>1
    <3> QED
      BY <2>1, <2>3, <2>4, <2>6, <3>1, <3>2
  <2>16. ~ChildrenDone
    BY <2>2, <2>3 DEF ChildrenDone
  <2>17. /\ UNCHANGED vars => FALSE
         /\ \A s \in Reports : ~Report(s)
         /\ \A s \in StepStatuses : ~AddStep(s)
         /\ \A s \in CallResults : ~CallWorkflow(s)
         /\ ~SkipChildren /\ ~FinishRun /\ ~Finished
    BY <1>2 DEF vars, Report, AddStep, CallWorkflow, SkipChildren, FinishRun, Finished
  <2> QED
    BY <2>8, <2>9, <2>10, <2>12, <2>13, <2>14, <2>15, <2>16, <2>17 DEF Next
<1> QED
  BY <1>3, <1>4

LEMMA NextBegins ==
  ASSUME Inv, Inv', [Next]_vars,
         \E n \in Node : tree.status[n] = "ABSENT" /\ tree'.status[n] = "RUNNING"
  PROVE  exception = Nobody /\ \A t \in Tasks \cap tree.locked : tree.status[t] \notin STOP_STATUSES
<1>1. BeginTask \/ BeginScope
  BY Begins DEF Absent
<1>2. stack # <<>> /\ Top.do \in {"start", "open"}
  BY <1>1 DEF BeginTask, BeginScope, At
<1>3. Innermost(Top) /\ Explained(Top.outcome, Task, tree, exception)
  BY <1>2, Here, Now
<1> QED
  BY <1>2, <1>3 DEF Innermost, Explained

----------------------------------------------------------------------------
\* The activations of the recursion, the resources and the status tree agree in
\* every reachable state.
THEOREM Inductive == Spec => []Inv
<1>1. Init => Inv
  BY InitInv
<1>2. Inv /\ [Next]_vars => Inv'
  BY NextInv
<1> QED
  BY <1>1, <1>2, PTL DEF Spec

\* The execution of any workflow keeps its types; a resource outlives everything
\* inside its scope and is released by the end; a result's tree holds every
\* declared branch once, with a final status; a failure that reaches the caller
\* is published (workflow_runner.py, status_finalization.py).
THEOREM WorkflowSound == Spec => []WorkflowInv
<1>1. Inv => WorkflowInv
  BY InvNested, InvReported, InvPublished DEF WorkflowInv, Inv
<1> QED
  BY <1>1, Inductive, PTL

\* A result that is not a failure was earned by every callback and every task.
THEOREM SuccessSound == Spec => []SuccessIsEarned
<1>1. Inv => SuccessIsEarned
  BY InvEarned
<1> QED
  BY <1>1, Inductive, PTL

\* Nothing begins once a failure was recorded or a finished task reported a stop
\* status.
THEOREM FailureStops == Spec => NothingBeginsAfterFailure
<1>1. Inv /\ Inv' /\ [Next]_vars =>
        [(\E n \in Node : tree.status[n] = "ABSENT" /\ tree'.status[n] = "RUNNING")
           => /\ exception = Nobody
              /\ \A t \in Tasks \cap tree.locked : tree.status[t] \notin STOP_STATUSES]_vars
  BY NextBegins
<1> QED
  BY <1>1, Inductive, PTL DEF Spec, NothingBeginsAfterFailure
=============================================================================
