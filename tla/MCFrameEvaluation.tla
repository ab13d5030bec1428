------------------------- MODULE MCFrameEvaluation -------------------------
(***************************************************************************)
(* Instances of FrameEvaluation and FrameRefinement for TLC.               *)
(***************************************************************************)
EXTENDS FrameRefinement, FrameInvariant, TLC

CONSTANTS c1, c2, c3

Get(f, d) == [op |-> "get", frame |-> f, def |-> d]
Recalculate(f, d) == [op |-> "recalculate", frame |-> f, def |-> d]
Close(f) == [op |-> "close", frame |-> f]

Callers2 == {c1, c2}
Callers3 == {c1, c2, c3}
CallerSymmetry == Permutations(Callers3)

\* One Frame whose definition "total" reads "price".
ShopFrames == {"shop"}
ShopDefs == {"price", "total"}
ShopOwner == [d \in ShopDefs |-> "shop"]
ShopLineage == [f \in ShopFrames |-> {"shop"}]
ShopDeps == [d \in ShopDefs |-> IF d = "total" THEN <<"price">> ELSE <<>>]
\* Two requesters and a closer, for the temporal property (which symmetry would
\* not be sound for).
PairScript == [c \in Callers3 |->
  CASE c = c1 -> {Recalculate("shop", "total")}
    [] c = c2 -> {Get("shop", "total"), Recalculate("shop", "price")}
    [] c = c3 -> {Close("shop")}]
\* ... whose "total" also reads itself, and handles the refusal.
LoopDeps == [d \in ShopDefs |-> IF d = "total" THEN <<"price", "total">> ELSE <<>>]
JustPrice == {"price"}
JustTotal == {"total"}
NoDefs == {}
NoCallers == {}

\* A child Frame whose "leaf" reads its parent's "base", and its own "twig",
\* which reads "leaf" again.
FamilyFrames == {"parent", "child"}
FamilyDefs == {"base", "leaf", "twig"}
FamilyOwner == [d \in FamilyDefs |-> IF d = "base" THEN "parent" ELSE "child"]
FamilyLineage == [f \in FamilyFrames |-> {f, "parent"}]
FamilyDeps == [d \in FamilyDefs |->
  CASE d = "base" -> <<>> [] d = "leaf" -> <<"base", "twig">> [] d = "twig" -> <<"leaf">>]
FamilyCalls == {Get("child", "leaf"), Get("child", "twig"), Recalculate("child", "leaf"),
                Recalculate("parent", "base"), Close("child"), Close("parent")}
FamilyScript == [c \in Callers3 |-> FamilyCalls]
JustLeaf == {"leaf"}
JustBase == {"base"}

\* Two definitions that read each other.
CycleDefs == {"left", "right"}
CycleOwner == [d \in CycleDefs |-> "shop"]
CycleDeps == [d \in CycleDefs |-> IF d = "left" THEN <<"right">> ELSE <<"left">>]
RaceScript == [c \in Callers2 |-> IF c = c1 THEN {Get("shop", "left")}
                                            ELSE {Get("shop", "right")}]

\* docs/reference/runtime.md: "Circular dependency paths raise a structured
\* error before an owner can deadlock."
CircularPathsDoNotDeadlock == NoOwnerDeadlock

============================================================================
