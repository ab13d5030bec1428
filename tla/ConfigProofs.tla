----------------------------- MODULE ConfigProofs -----------------------------
(***************************************************************************)
(* For every set of loads, paths and documents, every limit and every      *)
(* history of the files: one retrieval of a path runs at a time, a source  *)
(* has one snapshot and is charged once, a failed retrieval is not kept    *)
(* for later requests, and a finished load returns the expansion of the    *)
(* document it asked for.                                                  *)
(***************************************************************************)
EXTENDS ConfigLoading, FiniteSetTheorems, FunctionTheorems, SequenceTheorems, TLAPS

States == {"idle", "waiting", "running", "done", "failed", "cancelled"}

\* What the steps need of a call's record: the fields that tell where it is.
Shaped(load) ==
    /\ {"state", "owner", "stack"} \subseteq DOMAIN load
    /\ load.state \in States
    /\ load.owner \in Owners \cup {NoOwner}
    /\ (load.owner # NoOwner) <=> (load.state = "waiting")

LoadsShaped ==
    /\ DOMAIN loads = Loads
    /\ \A l \in Loads : Shaped(loads[l])

\* What a retrieval has read is a text or a trouble of the file.
TextRead ==
    \A o \in Owners :
        owners[o].state = "read" => owners[o].what \in Texts \cup Troubles

\* A registered owner is the one of its path, and a waited one is in use.
OwnersInUse ==
    /\ \A p \in Paths : tasks[p] # NoOwner =>
        /\ owners[tasks[p]].state # "blank"
        /\ owners[tasks[p]].path = p
    /\ \A l \in Loads : loads[l].owner # NoOwner => owners[loads[l].owner].state # "blank"

Referred(o) ==
    \/ \E p \in Paths : tasks[p] = o
    \/ \E l \in Loads : loads[l].owner = o

\* Nothing is remembered of an owner nobody refers to.
OwnersReferred == \A o \in Owners : owners[o].state # "blank" => Referred(o)

\* A retrieval that runs has a load waiting for it, unless a load was cancelled.
RetrievalsWaited ==
    (\A l \in Loads : loads[l].state # "cancelled") =>
        \A o \in Owners : owners[o].state \in {"asking", "read"} =>
            \E l \in Loads : loads[l].owner = o

Inv ==
    /\ LoaderInv
    /\ LoadsShaped
    /\ TextRead
    /\ OwnersInUse
    /\ OwnersReferred
    /\ RetrievalsWaited

-----------------------------------------------------------------------------
OwnerRecord == [path : Paths, what : Texts \cup Refusals,
                state : {"blank", "asking", "read"} \cup Settled]

LEMMA Basics ==
    /\ Cardinality(Paths) \in Nat /\ Cardinality(Loads) \in Nat
    /\ Owners \subseteq Nat \ {0} /\ NoOwner \notin Owners
    /\ \A p \in Paths : IdentityOf[p] \in Identities
    /\ Blank \in OwnerRecord /\ Blank.state = "blank" /\ Blank.what = "none"
<1>1. Cardinality(Paths) \in Nat /\ Cardinality(Loads) \in Nat
  BY LoadsAssumption, FS_CardinalityType
<1>2. Owners \subseteq Nat \ {0} /\ NoOwner \notin Owners
  BY <1>1 DEF Owners, NoOwner
<1>3. \A p \in Paths : IdentityOf[p] \in Identities
  BY DEF Identities
<1>4. Root[CHOOSE l \in Loads : TRUE] \in Paths
  <2>1. \E l : l \in Loads
    BY LoadsAssumption
  <2>2. (CHOOSE l \in Loads : TRUE) \in Loads
    BY <2>1
  <2> QED
    BY <2>2, LoadsAssumption
<1>5. Blank \in OwnerRecord /\ Blank.state = "blank" /\ Blank.what = "none"
  <2>1. \A p \in Paths : [path |-> p, state |-> "blank", what |-> "none"] \in OwnerRecord
    BY DEF OwnerRecord, Refusals
  <2>2. Blank \in OwnerRecord
    BY <1>4, <2>1 DEF Blank
  <2>3. Blank.state = "blank" /\ Blank.what = "none"
    BY DEF Blank
  <2> QED
    BY <2>2, <2>3
<1> QED
  BY <1>1, <1>2, <1>3, <1>5

\* What is left after a step is what was there, or blank when the owner has
\* settled and nobody refers to it.
LEMMA KeptOwners ==
    ASSUME NEW own \in [Owners -> OwnerRecord], NEW table, NEW all
    PROVE  /\ Kept(own, table, all) \in [Owners -> OwnerRecord]
           /\ \A o \in Owners :
                \/ Kept(own, table, all)[o] = own[o]
                \/ /\ Kept(own, table, all)[o] = Blank
                   /\ own[o].state \in Settled
                   /\ \A p \in Paths : table[p] # o
                   /\ \A l \in Loads : all[l].owner # o
           /\ \A o \in Owners :
                Kept(own, table, all)[o].state # "blank" =>
                    \/ own[o].state \notin Settled
                    \/ \E p \in Paths : table[p] = o
                    \/ \E l \in Loads : all[l].owner = o
BY Basics DEF Kept

\* There is always an owner to register: those in use are registered or waited
\* for, and neither the path asked for nor the load that asks has one.
LEMMA OwnerFree ==
    ASSUME Inv, NEW l \in Loads, loads[l].owner = NoOwner,
           NEW path \in Paths, tasks[path] = NoOwner
    PROVE  \E o \in Owners : owners[o].state = "blank"
<1> DEFINE P == Paths \ {path}
           L == Loads \ {l}
           registered == {tasks[p] : p \in P} \cap Owners
           waited == {loads[c].owner : c \in L} \cap Owners
           nP == {p \in P : tasks[p] \in Owners}
           nL == {c \in L : loads[c].owner \in Owners}
<1>1. SUFFICES ASSUME \A o \in Owners : owners[o].state # "blank"
               PROVE  FALSE
  OBVIOUS
<1>2. /\ IsFiniteSet(P) /\ Cardinality(P) = Cardinality(Paths) - 1
      /\ IsFiniteSet(L) /\ Cardinality(L) = Cardinality(Loads) - 1
  BY LoadsAssumption, FS_RemoveElement
<1>3. IsFiniteSet(registered) /\ Cardinality(registered) <= Cardinality(P)
  <2>1. IsFiniteSet(nP) /\ Cardinality(nP) <= Cardinality(P)
    BY <1>2, FS_Subset
  <2>2. [p \in nP |-> tasks[p]] \in Surjection(nP, registered)
    BY DEF Surjection
  <2>3. IsFiniteSet(registered) /\ Cardinality(registered) <= Cardinality(nP)
    BY <2>1, <2>2, FS_Surjection
  <2> QED
    BY <1>2, <2>1, <2>3, FS_CardinalityType
<1>4. IsFiniteSet(waited) /\ Cardinality(waited) <= Cardinality(L)
  <2>1. IsFiniteSet(nL) /\ Cardinality(nL) <= Cardinality(L)
    BY <1>2, FS_Subset
  <2>2. [c \in nL |-> loads[c].owner] \in Surjection(nL, waited)
    BY DEF Surjection
  <2>3. IsFiniteSet(waited) /\ Cardinality(waited) <= Cardinality(nL)
    BY <2>1, <2>2, FS_Surjection
  <2> QED
    BY <1>2, <2>1, <2>3, FS_CardinalityType
<1>5. Owners = registered \cup waited
  BY <1>1, Basics DEF Inv, OwnersReferred, Referred
<1>6. Cardinality(registered \cup waited) =
        Cardinality(registered) + Cardinality(waited) - Cardinality(registered \cap waited)
  BY <1>3, <1>4, FS_Union
<1>7. /\ Cardinality(registered) \in Nat /\ Cardinality(waited) \in Nat
      /\ Cardinality(registered \cap waited) \in Nat
  BY <1>3, <1>4, FS_Intersection, FS_CardinalityType
<1>8. Cardinality(Owners) = Cardinality(Paths) + Cardinality(Loads)
  <2> DEFINE n == Cardinality(Paths) + Cardinality(Loads)
  <2>1. n \in Nat
    BY Basics
  <2>2. Cardinality(1..n) = IF 1 > n THEN 0 ELSE n - 1 + 1
    BY <2>1, FS_Interval
  <2>3. Cardinality(1..n) = n
    BY <2>1, <2>2
  <2> QED
    BY <2>3 DEF Owners
<1> HIDE DEF registered, waited, P, L
<1> QED
  BY <1>2, <1>3, <1>4, <1>5, <1>6, <1>7, <1>8, Basics

-----------------------------------------------------------------------------
\* What a finished retrieval makes of a load: it goes on, fails or is cancelled,
\* and waits for nobody.
LEMMA FreshShaped ==
    /\ DOMAIN Fresh = {"state", "owner", "stack", "result", "skipped", "error"}
    /\ Fresh.state = "idle" /\ Fresh.owner = NoOwner
    /\ Shaped(Fresh)
BY Basics DEF Fresh, Shaped, States

LEMMA FailedShaped ==
    ASSUME NEW load, NEW why
    PROVE  Shaped(Failed(load, why)) /\ Failed(load, why).owner = NoOwner
           /\ Failed(load, why).state = "failed"
BY FreshShaped DEF Failed, Shaped, States

LEMMA CancelledShaped ==
    Shaped(Cancelled) /\ Cancelled.owner = NoOwner /\ Cancelled.state = "cancelled"
BY FreshShaped DEF Cancelled, Shaped, States

Gone(load) ==
    /\ Shaped(load) /\ load.owner = NoOwner
    /\ load.state \in {"running", "failed", "cancelled"}

LEMMA EnteredShaped ==
    ASSUME NEW load, Shaped(load), NEW document, NEW identity, NEW alias,
           NEW output, NEW spaces
    PROVE  Gone(Entered(load, document, identity, alias, output, spaces))
<1> DEFINE frames(stack) ==
             Append(stack, [identity |-> identity, document |-> document, next |-> 1,
                            alias |-> alias, output |-> output, spaces |-> spaces])
           entered == [load EXCEPT !.state = "running", !.owner = NoOwner,
                                   !.stack = frames(@)]
<1>1. Gone(entered)
  <2>1. /\ entered.state = "running" /\ entered.owner = NoOwner
        /\ DOMAIN entered = DOMAIN load
    BY DEF Shaped
  <2> QED
    BY <2>1, Basics DEF Gone, Shaped, States
<1>2. \A why : Gone(Failed(load, why))
  BY FailedShaped DEF Gone
<1> QED
  BY <1>1, <1>2 DEF Entered

LEMMA AnsweredShaped ==
    ASSUME NEW load, Shaped(load), NEW own \in OwnerRecord
    PROVE  Gone(Answered(load, own))
<1>1. \A document, identity : Gone(Loaded(load, document, identity))
  BY EnteredShaped DEF Loaded
<1>2. Gone(Cancelled)
  BY CancelledShaped DEF Gone
<1>3. \A why : Gone(Failed(load, why))
  BY FailedShaped DEF Gone
<1> DEFINE advanced == Advanced(load)
           skipped(before) == before \cup {Placement(load.stack)}
           resumed == [advanced EXCEPT !.state = "running", !.owner = NoOwner,
                                       !.skipped = skipped(@)]
<1>4. Gone(resumed)
  <2>1. DOMAIN advanced = DOMAIN load
    BY DEF Advanced
  <2> HIDE DEF advanced
  <2>2. /\ resumed.state = "running" /\ resumed.owner = NoOwner
        /\ DOMAIN resumed = DOMAIN load
    BY <2>1 DEF Shaped
  <2> QED
    BY <2>2, Basics DEF Gone, Shaped, States
<1> QED
  BY <1>1, <1>2, <1>3, <1>4 DEF Answered

-----------------------------------------------------------------------------
LEMMA NothingKept ==
    ASSUME \A i \in Identities : identities[i] = "none"
    PROVE  Cardinality(KeptCharacters) = 0 /\ Cardinality(KeptDeclarations) = 0
<1>1. Snapshots = {}
  BY DEF Snapshots
<1>2. KeptCharacters = {} /\ KeptDeclarations = {}
  BY <1>1 DEF KeptCharacters, KeptDeclarations, Units
<1> QED
  BY <1>2, FS_EmptySet

LEMMA InitInv == Init => Inv
<1> SUFFICES ASSUME Init
             PROVE  Inv
  OBVIOUS
<1> USE Basics DEF Init
<1>1. TypeOK
  <2>1. disk \in [Identities -> Texts \cup Troubles]
    BY TextsAssumption
  <2>2. owners \in [Owners -> OwnerRecord]
    BY DEF OwnerRecord
  <2> QED
    BY <2>1, <2>2, FreshShaped DEF TypeOK, OwnerRecord
<1>2. Accounted
  <2>1. {p \in Paths : tasks[p] # NoOwner} = {}
    OBVIOUS
  <2>2. Cardinality({p \in Paths : tasks[p] # NoOwner}) <= MaxSources
    BY SMTT(30), <2>1, FS_EmptySet, LimitsPositive
  <2>3. \A i \in Identities : identities[i] = "none"
    OBVIOUS
  <2> QED
    BY <2>2, <2>3, NothingKept, LimitsPositive DEF Accounted
<1>3. SingleFlight /\ OneSnapshot /\ TextRead /\ OwnersReferred
  BY DEF SingleFlight, OneSnapshot, TextRead, OwnersReferred
<1>4. FailuresForgotten /\ RetrievalsWaited
  BY DEF FailuresForgotten, Poisoned, RetrievalsWaited
<1>5. LoadsShaped /\ OwnersInUse
  BY FreshShaped DEF LoadsShaped, OwnersInUse
<1> QED
  BY <1>1, <1>2, <1>3, <1>4, <1>5 DEF Inv, LoaderInv

-----------------------------------------------------------------------------
\* The steps of loads, by what they do to the tables.

ChargesSame == UNCHANGED <<disk, identities, characters, declarations>>

\* Charges stand while the snapshots do and no path is newly registered.
LEMMA ChargesStand ==
    ASSUME Accounted, UNCHANGED <<identities, characters, declarations>>,
           \A p \in Paths : tasks'[p] # NoOwner => tasks[p] # NoOwner
    PROVE  Accounted'
<1>1. KeptCharacters' = KeptCharacters /\ KeptDeclarations' = KeptDeclarations
  BY DEF KeptCharacters, KeptDeclarations, Snapshots
<1>2. Cardinality({p \in Paths : tasks'[p] # NoOwner}) <= MaxSources
  <2> DEFINE before == {p \in Paths : tasks[p] # NoOwner}
             after == {p \in Paths : tasks'[p] # NoOwner}
  <2>1. IsFiniteSet(before)
    BY LoadsAssumption, FS_Subset
  <2>2. after \in SUBSET before
    OBVIOUS
  <2>3. IsFiniteSet(after) /\ Cardinality(after) <= Cardinality(before)
    BY <2>1, <2>2, FS_Subset
  <2>4. Cardinality(before) \in Nat /\ Cardinality(after) \in Nat
    BY <2>1, <2>3, FS_CardinalityType
  <2>5. Cardinality(before) <= MaxSources
    BY DEF Accounted
  <2> QED
    BY <2>3, <2>4, <2>5, LimitsPositive
<1> QED
  BY <1>1, <1>2 DEF Accounted

\* A load learns how its owner ended, or is cancelled, and waits no longer.
LEMMA Leaves ==
    ASSUME Inv, ChargesSame, NEW l \in Loads, NEW o \in Owners, NEW new, Gone(new),
           owners[o].state # "blank", loads[l].owner \in {o, NoOwner},
           loads[l].state # "cancelled",
           loads' = [loads EXCEPT ![l] = new],
           tasks' = tasks \/ tasks' = Forget(tasks, o),
           new.state # "cancelled" => owners[o].state \in Settled /\ tasks' = Forget(tasks, o),
           owners' = Kept(owners, tasks', loads')
    PROVE  Inv'
<1> USE Basics
<1>0. /\ owners \in [Owners -> OwnerRecord] /\ tasks \in [Paths -> Owners \cup {NoOwner}]
      /\ DOMAIN loads = Loads
  BY DEF Inv, LoaderInv, TypeOK, OwnerRecord, LoadsShaped
<1>1. /\ tasks' \in [Paths -> Owners \cup {NoOwner}]
      /\ \A p \in Paths :
            tasks'[p] = tasks[p] \/ (/\ tasks'[p] = NoOwner /\ tasks[p] = o
                                    /\ owners[o].state \in {"failed", "cancelled"})
  <2>1. owners[o].path \in Paths
    BY <1>0 DEF OwnerRecord
  <2> QED
    BY <1>0, <2>1 DEF Forget
<1>2. /\ DOMAIN loads' = Loads /\ loads'[l] = new
      /\ \A c \in Loads : c # l => loads'[c] = loads[c]
  BY <1>0
<1>3. /\ owners' \in [Owners -> OwnerRecord]
      /\ \A b \in Owners :
            \/ owners'[b] = owners[b]
            \/ /\ owners'[b] = Blank /\ owners[b].state \in Settled
               /\ \A p \in Paths : tasks'[p] # b
               /\ \A c \in Loads : loads'[c].owner # b
      /\ \A b \in Owners :
            owners'[b].state # "blank" =>
                \/ owners[b].state \notin Settled
                \/ \E p \in Paths : tasks'[p] = b
                \/ \E c \in Loads : loads'[c].owner = b
  <2> DEFINE table == tasks'
             all == loads'
  <2>1. owners' = Kept(owners, table, all)
    OBVIOUS
  <2> HIDE DEF table, all
  <2>2. /\ Kept(owners, table, all) \in [Owners -> OwnerRecord]
        /\ \A b \in Owners :
            \/ Kept(owners, table, all)[b] = owners[b]
            \/ /\ Kept(owners, table, all)[b] = Blank /\ owners[b].state \in Settled
               /\ \A p \in Paths : table[p] # b
               /\ \A c \in Loads : all[c].owner # b
        /\ \A b \in Owners :
            Kept(owners, table, all)[b].state # "blank" =>
                \/ owners[b].state \notin Settled
                \/ \E p \in Paths : table[p] = b
                \/ \E c \in Loads : all[c].owner = b
    BY <1>0, KeptOwners
  <2> QED
    BY <2>1, <2>2 DEF table, all
<1>31. /\ \A b \in Owners : owners'[b].state # "blank" => owners'[b] = owners[b]
       /\ \A b \in Owners : owners[b].state \notin Settled => owners'[b] = owners[b]
       /\ \A b \in Owners : (\E p \in Paths : tasks'[p] = b) => owners'[b] = owners[b]
       /\ \A b \in Owners : (\E c \in Loads : loads'[c].owner = b) => owners'[b] = owners[b]
  BY <1>3
<1> HIDE DEF Forget
<1>4. TypeOK' /\ LoadsShaped'
  <2>1. \A c \in Loads : Shaped(loads'[c])
    BY <1>2 DEF Gone, Inv, LoadsShaped
  <2>2. LoadsShaped'
    BY <1>2, <2>1 DEF LoadsShaped, Shaped
  <2> QED
    BY <1>1, <1>3, <2>1, <2>2 DEF TypeOK, Inv, LoaderInv, OwnerRecord, ChargesSame, Shaped, States
<1>5. SingleFlight'
  <2> SUFFICES ASSUME NEW b \in Owners, owners'[b].state \in {"asking", "read"}
               PROVE  tasks'[owners'[b].path] = b
    BY DEF SingleFlight
  <2>1. owners'[b] = owners[b]
    BY <1>31
  <2>2. tasks[owners[b].path] = b /\ owners[b].path \in Paths
    BY <1>0, <2>1 DEF Inv, LoaderInv, SingleFlight, OwnerRecord
  <2> QED
    BY <1>1, <2>1, <2>2
<1>6. OneSnapshot' /\ TextRead'
  <2>1. OneSnapshot /\ TextRead
    BY DEF Inv, LoaderInv
  <2> QED
    BY <1>31, <2>1 DEF OneSnapshot, TextRead, ChargesSame
<1>7. Accounted'
  BY <1>1, ChargesStand DEF Inv, LoaderInv, ChargesSame
<1>8. OwnersInUse'
  <2>1. OwnersInUse
    BY DEF Inv
  <2>2. ASSUME NEW p \in Paths, tasks'[p] # NoOwner
        PROVE  owners'[tasks'[p]].state # "blank" /\ owners'[tasks'[p]].path = p
    <3>1. tasks'[p] = tasks[p] /\ tasks[p] \in Owners
      BY <1>1, <2>2
    <3>2. owners'[tasks[p]] = owners[tasks[p]]
      BY <1>31, <3>1
    <3> QED
      BY <2>1, <2>2, <3>1, <3>2 DEF OwnersInUse
  <2>3. ASSUME NEW c \in Loads, loads'[c].owner # NoOwner
        PROVE  owners'[loads'[c].owner].state # "blank"
    <3>1. c # l /\ loads'[c] = loads[c]
      BY <1>2, <2>3 DEF Gone
    <3>2. loads[c].owner \in Owners
      BY <2>3, <3>1 DEF Inv, LoadsShaped, Shaped
    <3>3. owners'[loads[c].owner] = owners[loads[c].owner]
      BY <1>31, <3>1, <3>2
    <3> QED
      BY <2>1, <2>3, <3>1, <3>3 DEF OwnersInUse
  <2> QED
    BY <2>2, <2>3 DEF OwnersInUse
<1>9. OwnersReferred'
  <2> SUFFICES ASSUME NEW b \in Owners, owners'[b].state # "blank"
               PROVE  Referred(b)'
    BY DEF OwnersReferred
  <2>1. CASE owners[b].state \notin Settled
    <3>1. owners[b].state \in {"asking", "read"}
      <4>1. owners[b].state # "blank"
        BY <1>31
      <4> QED
        BY <1>0, <4>1, <2>1 DEF OwnerRecord, Settled
    <3>2. tasks[owners[b].path] = b /\ owners[b].path \in Paths
      BY <1>0, <3>1 DEF Inv, LoaderInv, SingleFlight, OwnerRecord
    <3>3. tasks'[owners[b].path] = b
      BY <1>1, <3>1, <3>2
    <3> QED
      BY <3>2, <3>3 DEF Referred
  <2> QED
    BY <1>3, <2>1 DEF Referred
<1>10. CASE new.state = "cancelled"
  <2>1. FailuresForgotten' /\ RetrievalsWaited'
    BY <1>2, <1>10 DEF FailuresForgotten, RetrievalsWaited
  <2> QED
    BY <1>4, <1>5, <1>6, <1>7, <1>8, <1>9, <2>1 DEF Inv, LoaderInv
<1>11. CASE new.state # "cancelled"
  <2> SUFFICES ASSUME \A c \in Loads : loads'[c].state # "cancelled"
               PROVE  /\ \A p \in Paths : ~Poisoned(p)'
                      /\ \A b \in Owners : owners'[b].state \in {"asking", "read"} =>
                            \E c \in Loads : loads'[c].owner = b
    BY <1>4, <1>5, <1>6, <1>7, <1>8, <1>9
       DEF Inv, LoaderInv, FailuresForgotten, RetrievalsWaited
  <2>1. \A c \in Loads : loads[c].state # "cancelled"
    BY <1>2
  <2>2. ASSUME NEW p \in Paths, Poisoned(p)'
        PROVE  FALSE
    <3>1. /\ tasks'[p] # NoOwner /\ owners'[tasks'[p]].state = "failed"
          /\ \A c \in Loads : loads'[c].owner # tasks'[p]
      BY <2>2 DEF Poisoned
    <3>2. tasks'[p] = tasks[p] /\ tasks[p] \in Owners
      BY <1>1, <3>1
    <3>3. owners'[tasks[p]] = owners[tasks[p]]
      BY <1>3, <3>1, <3>2
    <3>4. tasks[p] # o
      <4>1. ASSUME tasks[p] = o
            PROVE  tasks'[p] = NoOwner
        <5>1. owners[o].path = p /\ owners[o].state = "failed"
          BY <3>1, <3>2, <3>3, <4>1 DEF Inv, OwnersInUse
        <5> QED
          BY <1>0, <1>11, <4>1, <5>1 DEF Forget
      <4> QED
        BY <4>1, <3>1, <3>2
    <3>5. \A c \in Loads : loads[c].owner # tasks[p]
      BY <1>2, <3>1, <3>2, <3>4
    <3>6. Poisoned(p)
      BY <3>1, <3>2, <3>3, <3>5 DEF Poisoned
    <3> QED
      BY <2>1, <3>6 DEF Inv, LoaderInv, FailuresForgotten
  <2>3. ASSUME NEW b \in Owners, owners'[b].state \in {"asking", "read"}
        PROVE  \E c \in Loads : loads'[c].owner = b
    <3>1. owners[b].state \in {"asking", "read"}
      BY <1>3, <2>3
    <3>2. b # o
      BY <1>11, <3>1 DEF Settled
    <3>3. PICK c \in Loads : loads[c].owner = b
      BY <2>1, <3>1 DEF Inv, RetrievalsWaited
    <3>4. c # l
      BY <3>2, <3>3
    <3> QED
      BY <1>2, <3>3, <3>4
  <2> QED
    BY <2>2, <2>3
<1> QED
  BY <1>10, <1>11

\* A load that waits for nobody goes on, ends, or joins the owner of its path.
LEMMA Goes ==
    ASSUME Inv, ChargesSame, UNCHANGED <<owners, tasks>>,
           NEW l \in Loads, NEW new, Shaped(new),
           loads[l].owner = NoOwner, loads[l].state # "cancelled",
           loads' = [loads EXCEPT ![l] = new],
           new.owner # NoOwner => owners[new.owner].state # "blank"
    PROVE  Inv'
<1> USE Basics
<1>1. /\ DOMAIN loads' = Loads /\ loads'[l] = new
      /\ \A c \in Loads : c # l => loads'[c] = loads[c]
  BY DEF Inv, LoadsShaped
<1>2. LoadsShaped'
  <2>1. \A c \in Loads : Shaped(loads'[c])
    BY <1>1 DEF Inv, LoadsShaped
  <2> QED
    BY <1>1, <2>1 DEF LoadsShaped, Shaped
<1>3. TypeOK'
  BY <1>2 DEF LoadsShaped, Shaped, States, TypeOK, Inv, LoaderInv, ChargesSame
<1>4. SingleFlight' /\ OneSnapshot' /\ TextRead'
  BY DEF SingleFlight, OneSnapshot, TextRead, Inv, LoaderInv, ChargesSame
<1>5. Accounted'
  BY ChargesStand DEF Inv, LoaderInv, ChargesSame
<1>6. OwnersInUse'
  BY <1>1 DEF OwnersInUse, Inv
<1>7. \A b \in Owners, c \in Loads : loads[c].owner = b => loads'[c].owner = b
  BY <1>1
<1>8. (\A c \in Loads : loads'[c].state # "cancelled") =>
        (\A c \in Loads : loads[c].state # "cancelled")
  BY <1>1
<1>9. OwnersReferred'
  BY <1>7 DEF OwnersReferred, Referred, Inv
<1>10. RetrievalsWaited'
  BY <1>7, <1>8 DEF RetrievalsWaited, Inv
<1>11. FailuresForgotten'
  <2>1. \A p \in Paths : tasks[p] # NoOwner => tasks[p] \in Owners
    BY DEF Inv, LoaderInv, TypeOK
  <2>2. \A p \in Paths : Poisoned(p)' => Poisoned(p)
    BY <1>7, <2>1 DEF Poisoned
  <2> QED
    BY <1>8, <2>2 DEF FailuresForgotten, Inv, LoaderInv
<1> QED
  BY <1>2, <1>3, <1>4, <1>5, <1>6, <1>9, <1>10, <1>11 DEF Inv, LoaderInv

\* A load registers an owner for a path that has none.
LEMMA Registers ==
    ASSUME Inv, ChargesSame, NEW l \in Loads, NEW path \in Paths,
           loads[l].owner = NoOwner, loads[l].state # "cancelled",
           tasks[path] = NoOwner,
           Cardinality({p \in Paths : tasks[p] # NoOwner}) < MaxSources,
           Register(l, loads[l], path)
    PROVE  Inv'
<1> USE Basics
<1>0. /\ owners \in [Owners -> OwnerRecord] /\ tasks \in [Paths -> Owners \cup {NoOwner}]
      /\ DOMAIN loads = Loads
  BY DEF Inv, LoaderInv, TypeOK, OwnerRecord, LoadsShaped
<1> DEFINE o == CHOOSE b \in Owners : owners[b].state = "blank"
           new == [loads[l] EXCEPT !.state = "waiting", !.owner = o]
           asked == [path |-> path, state |-> "asking", what |-> "none"]
<1>1. /\ o \in Owners /\ owners[o].state = "blank"
      /\ owners' = [owners EXCEPT ![o] = asked]
      /\ tasks' = [tasks EXCEPT ![path] = o]
      /\ loads' = [loads EXCEPT ![l] = new]
  <2>1. \E b \in Owners : owners[b].state = "blank"
    BY OwnerFree
  <2> QED
    BY <2>1 DEF Register
<1> HIDE DEF o
<1>2. asked \in OwnerRecord /\ asked.state = "asking" /\ asked.path = path
  BY DEF OwnerRecord, Refusals
<1>3. /\ DOMAIN new = DOMAIN loads[l] /\ new.state = "waiting" /\ new.owner = o
      /\ Shaped(new)
  <2>1. Shaped(loads[l])
    BY DEF Inv, LoadsShaped
  <2>2. DOMAIN new = DOMAIN loads[l] /\ new.state = "waiting" /\ new.owner = o
    BY <2>1 DEF Shaped
  <2> HIDE DEF new
  <2> QED
    BY <1>1, <2>1, <2>2 DEF Shaped, States
<1> HIDE DEF new, asked
<1>4. /\ owners' \in [Owners -> OwnerRecord]
      /\ owners'[o] = asked /\ \A b \in Owners : b # o => owners'[b] = owners[b]
      /\ tasks' \in [Paths -> Owners \cup {NoOwner}]
      /\ tasks'[path] = o /\ \A p \in Paths : p # path => tasks'[p] = tasks[p]
      /\ DOMAIN loads' = Loads /\ loads'[l] = new
      /\ \A c \in Loads : c # l => loads'[c] = loads[c]
  BY <1>0, <1>1, <1>2
<1>5. /\ \A p \in Paths : tasks[p] # o
      /\ \A c \in Loads : loads[c].owner # o
  BY <1>1 DEF Inv, OwnersInUse
<1>6. LoadsShaped'
  <2>1. \A c \in Loads : Shaped(loads'[c])
    BY <1>3, <1>4 DEF Inv, LoadsShaped
  <2> QED
    BY <1>4, <2>1 DEF LoadsShaped, Shaped
<1>7. TypeOK'
  BY <1>4, <1>6 DEF LoadsShaped, Shaped, States, TypeOK, Inv, LoaderInv, ChargesSame, OwnerRecord
<1>8. SingleFlight'
  <2> SUFFICES ASSUME NEW b \in Owners, owners'[b].state \in {"asking", "read"}
               PROVE  tasks'[owners'[b].path] = b
    BY DEF SingleFlight
  <2>1. CASE b = o
    BY <1>2, <1>4, <2>1
  <2>2. CASE b # o
    <3>1. tasks[owners[b].path] = b /\ owners[b].path \in Paths
      BY <1>0, <1>4, <2>2 DEF Inv, LoaderInv, SingleFlight, OwnerRecord
    <3> QED
      BY <1>4, <2>2, <3>1
  <2> QED
    BY <2>1, <2>2
<1>9. OneSnapshot' /\ TextRead'
  <2>1. OneSnapshot /\ TextRead
    BY DEF Inv, LoaderInv
  <2> QED
    BY <1>2, <1>4, <2>1 DEF OneSnapshot, TextRead, ChargesSame
<1>10. Accounted'
  <2> DEFINE before == {p \in Paths : tasks[p] # NoOwner}
             after == {p \in Paths : tasks'[p] # NoOwner}
  <2>1. IsFiniteSet(before) /\ path \notin before
    BY LoadsAssumption, FS_Subset
  <2>2. after = before \cup {path}
    BY <1>1, <1>4
  <2>3. Cardinality(after) = Cardinality(before) + 1
    BY ZenonT(60), <2>1, <2>2, FS_AddElement
  <2>4. Cardinality(before) \in Nat /\ Cardinality(before) < MaxSources
    BY <2>1, FS_CardinalityType
  <2>5. Cardinality(after) <= MaxSources
    BY <2>3, <2>4, LimitsPositive
  <2>6. KeptCharacters' = KeptCharacters /\ KeptDeclarations' = KeptDeclarations
    BY DEF KeptCharacters, KeptDeclarations, Snapshots, ChargesSame
  <2> QED
    BY <2>5, <2>6 DEF Accounted, Inv, LoaderInv, ChargesSame
<1>11. OwnersInUse'
  <2>1. OwnersInUse
    BY DEF Inv
  <2>2. ASSUME NEW p \in Paths, tasks'[p] # NoOwner
        PROVE  owners'[tasks'[p]].state # "blank" /\ owners'[tasks'[p]].path = p
    <3>1. CASE p = path
      BY <1>2, <1>4, <3>1
    <3>2. CASE p # path
      <4>1. tasks'[p] = tasks[p] /\ tasks[p] \in Owners /\ tasks[p] # o
        BY <1>0, <1>4, <1>5, <2>2, <3>2
      <4>2. owners'[tasks[p]] = owners[tasks[p]]
        BY <1>4, <4>1
      <4> QED
        BY <2>1, <2>2, <4>1, <4>2 DEF OwnersInUse
    <3> QED
      BY <3>1, <3>2
  <2>3. ASSUME NEW c \in Loads, loads'[c].owner # NoOwner
        PROVE  owners'[loads'[c].owner].state # "blank"
    <3>1. CASE c = l
      BY <1>2, <1>3, <1>4, <3>1
    <3>2. CASE c # l
      <4>1. loads'[c] = loads[c] /\ loads[c].owner # o
        BY <1>4, <1>5, <3>2
      <4>2. loads[c].owner \in Owners
        BY <2>3, <4>1 DEF Inv, LoadsShaped, Shaped
      <4>3. owners'[loads[c].owner] = owners[loads[c].owner]
        BY <1>4, <4>1, <4>2
      <4> QED
        BY <2>1, <2>3, <4>1, <4>3 DEF OwnersInUse
    <3> QED
      BY <3>1, <3>2
  <2> QED
    BY <2>2, <2>3 DEF OwnersInUse
<1>12. \A b \in Owners, c \in Loads : loads[c].owner = b => loads'[c].owner = b
  BY <1>1, <1>4
<1>13. OwnersReferred'
  <2> SUFFICES ASSUME NEW b \in Owners, owners'[b].state # "blank"
               PROVE  Referred(b)'
    BY DEF OwnersReferred
  <2>1. CASE b = o
    BY <1>4, <2>1 DEF Referred
  <2>2. CASE b # o
    <3>1. Referred(b)
      BY <1>4, <2>2 DEF Inv, OwnersReferred
    <3>2. \A p \in Paths : tasks[p] = b => tasks'[p] = b
      BY <1>1, <1>4
    <3> QED
      BY <1>12, <3>1, <3>2 DEF Referred
  <2> QED
    BY <2>1, <2>2
<1>14. (\A c \in Loads : loads'[c].state # "cancelled") =>
         (\A c \in Loads : loads[c].state # "cancelled")
  BY <1>4
<1>15. RetrievalsWaited'
  <2> SUFFICES ASSUME \A c \in Loads : loads[c].state # "cancelled",
                      NEW b \in Owners, owners'[b].state \in {"asking", "read"}
               PROVE  \E c \in Loads : loads'[c].owner = b
    BY <1>14 DEF RetrievalsWaited
  <2>1. CASE b = o
    BY <1>3, <1>4, <2>1
  <2>2. CASE b # o
    BY <1>4, <1>12, <2>2 DEF Inv, RetrievalsWaited
  <2> QED
    BY <2>1, <2>2
<1>16. FailuresForgotten'
  <2>1. ASSUME NEW p \in Paths, Poisoned(p)'
        PROVE  Poisoned(p)
    <3>1. p # path
      BY <1>2, <1>4, <2>1 DEF Poisoned
    <3>2. tasks'[p] = tasks[p] /\ tasks[p] \in Owners /\ tasks[p] # o
      BY <1>0, <1>4, <1>5, <2>1, <3>1 DEF Poisoned
    <3>3. owners'[tasks[p]] = owners[tasks[p]]
      BY <1>4, <3>2
    <3>4. tasks[p] # NoOwner /\ owners[tasks[p]].state = "failed"
      BY <2>1, <3>2, <3>3 DEF Poisoned
    <3>5. \A c \in Loads : loads[c].owner # tasks[p]
      BY <1>12, <2>1, <3>2 DEF Poisoned
    <3> QED
      BY <3>4, <3>5 DEF Poisoned
  <2> QED
    BY <1>14, <2>1 DEF FailuresForgotten, Inv, LoaderInv
<1> QED
  BY <1>6, <1>7, <1>8, <1>9, <1>10, <1>11, <1>13, <1>15, <1>16 DEF Inv, LoaderInv

\* source_for, whatever it finds in the table of its path.
LEMMA Asks ==
    ASSUME Inv, ChargesSame, NEW l \in Loads, NEW path \in Paths,
           loads[l].owner = NoOwner, loads[l].state # "cancelled",
           SourceFor(l, loads[l], path)
    PROVE  Inv'
<1> USE Basics
<1>0. /\ owners \in [Owners -> OwnerRecord] /\ tasks \in [Paths -> Owners \cup {NoOwner}]
      /\ Shaped(loads[l])
  BY DEF Inv, LoaderInv, TypeOK, OwnerRecord, LoadsShaped
<1> DEFINE o == tasks[path]
<1>1. CASE /\ loads' = [loads EXCEPT ![l] = Failed(loads[l], "sources")]
           /\ UNCHANGED <<owners, tasks>>
  BY <1>1, Goes, FailedShaped
<1>2. CASE /\ o = NoOwner
           /\ Cardinality({p \in Paths : tasks[p] # NoOwner}) < MaxSources
           /\ Register(l, loads[l], path)
  BY <1>2, Registers
<1>3. CASE /\ o # NoOwner /\ owners[o].state \in Settled
           /\ Deliver(l, loads[l], o)
  <2> DEFINE new == Answered(loads[l], owners[o])
  <2>1. o \in Owners /\ owners[o] \in OwnerRecord
    BY <1>0, <1>3
  <2>2. Gone(new)
    BY <1>0, <2>1, AnsweredShaped
  <2>3. owners[o].state # "blank"
    BY <1>3 DEF Settled
  <2>4. /\ loads' = [loads EXCEPT ![l] = new] /\ tasks' = Forget(tasks, o)
        /\ owners' = Kept(owners, tasks', loads')
    BY <1>3 DEF Deliver
  <2> HIDE DEF new
  <2> QED
    BY <1>3, <2>1, <2>2, <2>3, <2>4, Leaves
<1>4. CASE /\ o # NoOwner
           /\ loads' = [loads EXCEPT ![l] =
                [loads[l] EXCEPT !.state = "waiting", !.owner = o]]
           /\ UNCHANGED <<owners, tasks>>
  <2> DEFINE new == [loads[l] EXCEPT !.state = "waiting", !.owner = o]
  <2>1. o \in Owners
    BY <1>0, <1>4
  <2>2. DOMAIN new = DOMAIN loads[l] /\ new.state = "waiting" /\ new.owner = o
    BY <1>0 DEF Shaped
  <2>3. loads' = [loads EXCEPT ![l] = new]
    BY <1>4
  <2> HIDE DEF new
  <2>4. Shaped(new)
    BY <1>0, <1>4, <2>1, <2>2 DEF Shaped, States
  <2>5. owners[o].state # "blank"
    BY <1>4 DEF Inv, OwnersInUse
  <2> QED
    BY <1>4, <2>2, <2>3, <2>4, <2>5, Goes
<1> QED
  BY <1>1, <1>2, <1>3, <1>4 DEF SourceFor

\* A load that runs or begins waits for nobody.
LEMMA Alone ==
    ASSUME Inv, NEW l \in Loads, loads[l].state # "waiting"
    PROVE  loads[l].owner = NoOwner
BY DEF Inv, LoadsShaped, Shaped

LEMMA BeginInv ==
    ASSUME Inv, NEW l \in Loads, Begin(l)
    PROVE  Inv'
<1>1. ChargesSame
  BY DEF Begin, ByLoad, ChargesSame
<1>2. Root[l] \in Paths
  BY LoadsAssumption
<1> QED
  BY <1>1, <1>2, Alone, Asks DEF Begin

LEMMA DefineInv ==
    ASSUME Inv, NEW l \in Loads, Define(l)
    PROVE  Inv'
<1> DEFINE advanced == Advanced(loads[l])
           n == Len(loads[l].stack)
           entry == [name |-> Current(loads[l]).name, value |-> Current(loads[l]).value,
                     at |-> <<Top(loads[l]).document, Top(loads[l]).next>>]
           appended(stack) == [stack EXCEPT ![n].output = Append(@, entry)]
           new == [advanced EXCEPT !.stack = appended(@)]
<1>1. loads[l].state = "running" /\ Shaped(loads[l])
  BY DEF Define, Inv, LoadsShaped
<1>2. /\ DOMAIN advanced = DOMAIN loads[l]
      /\ advanced.state = "running" /\ advanced.owner = loads[l].owner
  BY <1>1 DEF Advanced, Shaped
<1>3. loads' = [loads EXCEPT ![l] = new]
  BY DEF Define
<1> HIDE DEF advanced, entry, appended
<1>4. /\ DOMAIN new = DOMAIN loads[l]
      /\ new.state = "running" /\ new.owner = loads[l].owner
  BY <1>1, <1>2 DEF Shaped
<1> HIDE DEF new
<1>5. Shaped(new) /\ new.owner = NoOwner
  BY <1>1, <1>4, Alone DEF Shaped
<1>6. ChargesSame /\ UNCHANGED <<owners, tasks>>
  BY DEF Define, ByLoad, ChargesSame
<1> QED
  BY <1>1, <1>3, <1>5, <1>6, Alone, Goes

LEMMA RequestInv ==
    ASSUME Inv, NEW l \in Loads, Request(l)
    PROVE  Inv'
<1> DEFINE path == Target(l, Current(loads[l]), Top(loads[l]).output)
<1>1. ChargesSame /\ loads[l].state = "running" /\ loads[l].owner = NoOwner
  BY Alone DEF Request, ByLoad, ChargesSame
<1>2. CASE path \in Paths /\ SourceFor(l, loads[l], path)
  <2> HIDE DEF path
  <2> QED
    BY <1>1, <1>2, Asks
<1>3. CASE /\ loads' = [loads EXCEPT ![l] = Failed(loads[l], "target")]
           /\ UNCHANGED <<owners, tasks>>
  BY <1>1, <1>3, FailedShaped, Goes
<1> QED
  BY <1>2, <1>3 DEF Request

LEMMA WakeInv ==
    ASSUME Inv, NEW l \in Loads, Wake(l)
    PROVE  Inv'
<1> DEFINE o == loads[l].owner
           new == Answered(loads[l], owners[o])
<1>1. /\ Shaped(loads[l]) /\ loads[l].state = "waiting" /\ owners[o].state \in Settled
      /\ owners \in [Owners -> OwnerRecord] /\ ChargesSame
  BY DEF Wake, ByLoad, ChargesSame, Inv, LoadsShaped, LoaderInv, TypeOK, OwnerRecord
<1>2. o \in Owners /\ owners[o] \in OwnerRecord
  BY <1>1 DEF Shaped
<1>3. Gone(new)
  BY <1>1, <1>2, AnsweredShaped
<1>4. /\ loads' = [loads EXCEPT ![l] = new] /\ tasks' = Forget(tasks, o)
      /\ owners' = Kept(owners, tasks', loads')
  BY DEF Wake, Deliver
<1>5. owners[o].state # "blank"
  BY <1>1 DEF Settled
<1>6. loads[l].owner \in {o, NoOwner}
  OBVIOUS
<1> HIDE DEF o, new
<1> QED
  BY <1>1, <1>2, <1>3, <1>4, <1>5, <1>6, Leaves

LEMMA CancelInv ==
    ASSUME Inv, NEW l \in Loads, Cancel(l)
    PROVE  Inv'
<1> DEFINE o == loads[l].owner
<1>1. /\ Shaped(loads[l]) /\ loads[l].state = "waiting" /\ ChargesSame
  BY DEF Cancel, ByLoad, ChargesSame, Inv, LoadsShaped
<1>2. o \in Owners /\ owners[o].state # "blank"
  BY <1>1 DEF Shaped, Inv, OwnersInUse
<1>3. Gone(Cancelled) /\ Cancelled.state = "cancelled"
  BY CancelledShaped DEF Gone
<1>4. /\ loads' = [loads EXCEPT ![l] = Cancelled]
      /\ tasks' = tasks \/ tasks' = Forget(tasks, o)
      /\ owners' = Kept(owners, tasks', loads')
  BY DEF Cancel
<1>5. loads[l].owner \in {o, NoOwner}
  OBVIOUS
<1> HIDE DEF o
<1> QED
  BY <1>1, <1>2, <1>3, <1>4, <1>5, Leaves

\* A step that only changes a load's stack leaves it where it is.
Stays(new, load) ==
    /\ Shaped(new) /\ new.state = load.state /\ new.owner = load.owner

LEMMA AdvancedStays ==
    ASSUME NEW load, Shaped(load)
    PROVE  Stays(Advanced(load), load)
<1>1. /\ DOMAIN Advanced(load) = DOMAIN load
      /\ Advanced(load).state = load.state /\ Advanced(load).owner = load.owner
  BY DEF Advanced, Shaped
<1> QED
  BY <1>1 DEF Stays, Shaped

LEMMA ReturnInv ==
    ASSUME Inv, NEW l \in Loads, Return(l)
    PROVE  Inv'
<1> DEFINE load == loads[l]
           top == Top(load)
           below == [load EXCEPT !.stack = Front(@)]
           importer == Top(below)
           resumed == Advanced(below)
           done == [load EXCEPT !.state = "done", !.stack = <<>>, !.result = top.output]
           joined == [resumed EXCEPT
                        !.stack[Len(below.stack)].output =
                           importer.output \o Qualified(top.output, top.alias),
                        !.stack[Len(below.stack)].spaces =
                           importer.spaces \cup Reserved(top.spaces, top.alias)]
           continued == [resumed EXCEPT !.stack[Len(below.stack)].output = top.output,
                                        !.stack[Len(below.stack)].spaces = top.spaces]
           new == loads'[l]
<1>1. /\ Shaped(load) /\ load.state = "running" /\ load.owner = NoOwner
      /\ ChargesSame /\ UNCHANGED <<owners, tasks>>
  BY Alone DEF Return, ByLoad, ChargesSame, Inv, LoadsShaped
<1>2. /\ loads' = [loads EXCEPT ![l] = new]
      /\ new \in {Failed(load, "structure"), done, joined, continued}
  BY DEF Return, Inv, LoadsShaped
<1>3. Shaped(Failed(load, "structure")) /\ Failed(load, "structure").owner = NoOwner
  BY FailedShaped
<1>4. Shaped(done) /\ done.owner = NoOwner
  <2>1. done.state = "done" /\ done.owner = NoOwner /\ DOMAIN done = DOMAIN load
    BY <1>1 DEF Shaped
  <2> HIDE DEF done
  <2> QED
    BY <1>1, <2>1 DEF Shaped, States
<1>5. Shaped(resumed) /\ resumed.state = "running" /\ resumed.owner = NoOwner
  <2>1. /\ below.state = "running" /\ below.owner = NoOwner
        /\ DOMAIN below = DOMAIN load
    BY <1>1 DEF Shaped
  <2> HIDE DEF below
  <2>2. Shaped(below)
    BY <1>1, <2>1 DEF Shaped
  <2> QED
    BY <2>1, <2>2, AdvancedStays DEF Stays
<1> HIDE DEF resumed
<1>6. Shaped(joined) /\ joined.owner = NoOwner
  <2>1. /\ joined.state = "running" /\ joined.owner = NoOwner
        /\ DOMAIN joined = DOMAIN resumed
    BY <1>5 DEF Shaped
  <2> HIDE DEF joined
  <2> QED
    BY <1>5, <2>1 DEF Shaped
<1>7. Shaped(continued) /\ continued.owner = NoOwner
  <2>1. /\ continued.state = "running" /\ continued.owner = NoOwner
        /\ DOMAIN continued = DOMAIN resumed
    BY <1>5 DEF Shaped
  <2> HIDE DEF continued
  <2> QED
    BY <1>5, <2>1 DEF Shaped
<1> HIDE DEF done, joined, continued
<1>8. Shaped(new) /\ new.owner = NoOwner
  BY <1>2, <1>3, <1>4, <1>6, <1>7
<1> QED
  BY <1>1, <1>2, <1>8, Goes

-----------------------------------------------------------------------------
\* The steps of owners.

\* An owner that runs changes its own state and nothing of the loads.
LEMMA OwnerMoves ==
    ASSUME Inv, NEW o \in Owners, owners[o].state \in {"asking", "read"},
           NEW state \in {"read"} \cup Settled, NEW what \in Texts \cup Refusals,
           owners' = [owners EXCEPT ![o].state = state, ![o].what = what],
           UNCHANGED <<disk, tasks, loads>>
    PROVE  /\ owners' \in [Owners -> OwnerRecord]
           /\ owners'[o].state = state /\ owners'[o].what = what
           /\ \A b \in Owners :
                /\ owners'[b].path = owners[b].path
                /\ b # o => owners'[b] = owners[b]
           /\ LoadsShaped' /\ SingleFlight' /\ OwnersInUse'
           /\ OwnersReferred' /\ RetrievalsWaited' /\ FailuresForgotten'
<1> USE Basics
<1>0. /\ owners \in [Owners -> OwnerRecord] /\ tasks \in [Paths -> Owners \cup {NoOwner}]
  BY DEF Inv, LoaderInv, TypeOK, OwnerRecord
<1>1. /\ owners' \in [Owners -> OwnerRecord]
      /\ owners'[o].state = state /\ owners'[o].what = what
      /\ \A b \in Owners : b # o => owners'[b] = owners[b]
      /\ owners'[o].path = owners[o].path
  BY <1>0 DEF OwnerRecord
<1>2. \A b \in Owners : owners'[b].path = owners[b].path
  BY <1>1
<1>3. state # "blank" /\ owners[o].state # "blank"
  BY DEF Settled
<1>4. LoadsShaped'
  BY DEF LoadsShaped, Shaped, Inv
<1>5. SingleFlight'
  BY <1>1, <1>2 DEF SingleFlight, Inv, LoaderInv
<1>6. OwnersInUse'
  <2>1. OwnersInUse
    BY DEF Inv
  <2>2. \A b \in Owners : owners[b].state # "blank" => owners'[b].state # "blank"
    BY <1>1, <1>3
  <2>3. \A c \in Loads : loads[c].owner \in Owners \cup {NoOwner}
    BY DEF Inv, LoadsShaped, Shaped
  <2> QED
    BY <1>0, <1>2, <2>1, <2>2, <2>3 DEF OwnersInUse
<1>7. OwnersReferred'
  BY <1>1, <1>3 DEF OwnersReferred, Referred, Inv
<1>8. RetrievalsWaited'
  BY <1>1 DEF RetrievalsWaited, Inv
<1>9. FailuresForgotten'
  <2> SUFFICES ASSUME \A c \in Loads : loads[c].state # "cancelled",
                      NEW p \in Paths, Poisoned(p)'
               PROVE  FALSE
    BY DEF FailuresForgotten
  <2>1. /\ tasks[p] \in Owners /\ owners'[tasks[p]].state = "failed"
        /\ \A c \in Loads : loads[c].owner # tasks[p]
    BY <1>0 DEF Poisoned
  <2>2. CASE tasks[p] = o
    BY <2>1, <2>2 DEF Inv, RetrievalsWaited
  <2>3. CASE tasks[p] # o
    <3>1. Poisoned(p)
      BY <1>1, <2>1, <2>3 DEF Poisoned
    <3> QED
      BY <3>1 DEF Inv, LoaderInv, FailuresForgotten
  <2> QED
    BY <2>2, <2>3
<1> QED
  BY <1>1, <1>2, <1>4, <1>5, <1>6, <1>7, <1>8, <1>9

\* An owner that moves without keeping a new snapshot charges nothing.
LEMMA OwnerUncharged ==
    ASSUME Inv, NEW o \in Owners, owners[o].state \in {"asking", "read"},
           NEW state \in {"read"} \cup Settled, NEW what \in Texts \cup Refusals,
           owners' = [owners EXCEPT ![o].state = state, ![o].what = what],
           UNCHANGED <<disk, tasks, loads, identities, characters, declarations>>,
           state = "read" => what \in Texts \cup Troubles,
           state = "loaded" =>
                what # "none" /\ what = identities[IdentityOf[owners[o].path]]
    PROVE  Inv'
<1>1. /\ owners' \in [Owners -> OwnerRecord]
      /\ owners'[o].state = state /\ owners'[o].what = what
      /\ \A b \in Owners :
            /\ owners'[b].path = owners[b].path
            /\ b # o => owners'[b] = owners[b]
      /\ LoadsShaped' /\ SingleFlight' /\ OwnersInUse'
      /\ OwnersReferred' /\ RetrievalsWaited' /\ FailuresForgotten'
  BY OwnerMoves
<1>2. TypeOK'
  BY <1>1 DEF TypeOK, Inv, LoaderInv, OwnerRecord
<1>3. OneSnapshot' /\ TextRead'
  <2>1. OneSnapshot /\ TextRead
    BY DEF Inv, LoaderInv
  <2> QED
    BY <1>1, <2>1 DEF OneSnapshot, TextRead
<1>4. Accounted'
  BY ChargesStand DEF Inv, LoaderInv
<1> QED
  BY <1>1, <1>2, <1>3, <1>4 DEF Inv, LoaderInv

LEMMA ReadInv ==
    ASSUME Inv, NEW o \in Owners, Read(o)
    PROVE  Inv'
<1> DEFINE what == disk[IdentityOf[owners[o].path]]
<1>1. owners[o].path \in Paths /\ what \in Texts \cup Troubles
  BY Basics DEF Inv, LoaderInv, TypeOK
<1>2. what \in Texts \cup Refusals
  BY <1>1 DEF Refusals
<1>3. owners' = [owners EXCEPT ![o].state = "read", ![o].what = what]
  BY DEF Read
<1> HIDE DEF what
<1> QED
  BY <1>1, <1>2, <1>3, OwnerUncharged DEF Read

LEMMA AbortInv ==
    ASSUME Inv, NEW o \in Owners, Abort(o)
    PROVE  Inv'
BY OwnerUncharged DEF Abort, Settle, Settled, Refusals

LEMMA RefusedInv ==
    ASSUME Inv, NEW o \in Owners, Refused(o), UNCHANGED <<disk, tasks, loads>>
    PROVE  Inv'
BY OwnerUncharged DEF Refused, Settle, Settled, Refusals

LEMMA KnownInv ==
    ASSUME Inv, NEW o \in Owners, Known(o), UNCHANGED <<disk, tasks, loads>>
    PROVE  Inv'
<1> DEFINE what == identities[IdentityOf[owners[o].path]]
<1>1. IdentityOf[owners[o].path] \in Identities
  BY Basics DEF Inv, LoaderInv, TypeOK
<1>2. what # "none" /\ what \in Texts \cup Refusals
  BY <1>1 DEF Known, Inv, LoaderInv, TypeOK, Texts
<1>3. owners' = [owners EXCEPT ![o].state = "loaded", ![o].what = what]
  BY DEF Known, Settle
<1>4. what = identities[IdentityOf[owners[o].path]]
  OBVIOUS
<1> HIDE DEF what
<1> QED
  BY ZenonT(60), <1>2, <1>3, <1>4, OwnerUncharged DEF Known, Settled

\* A block of n units of one source.
LEMMA BlockSize ==
    ASSUME NEW i, NEW n \in Nat
    PROVE  IsFiniteSet({i} \X (1..n)) /\ Cardinality({i} \X (1..n)) = n
<1>1. IsFiniteSet({i}) /\ Cardinality({i}) = 1
  BY FS_Singleton
<1>2. IsFiniteSet(1..n) /\ Cardinality(1..n) = n
  <2>1. IsFiniteSet(1..n) /\ Cardinality(1..n) = IF 1 > n THEN 0 ELSE n - 1 + 1
    BY FS_Interval
  <2> QED
    BY <2>1
<1>3. /\ IsFiniteSet({i} \X (1..n))
      /\ Cardinality({i} \X (1..n)) = Cardinality({i}) * Cardinality(1..n)
  BY <1>1, <1>2, FS_Product
<1> QED
  BY <1>1, <1>2, <1>3

LEMMA IdentitiesFinite == IsFiniteSet(Identities)
<1>1. [p \in Paths |-> IdentityOf[p]] \in Surjection(Paths, Identities)
  BY DEF Surjection, Identities
<1> QED
  BY <1>1, LoadsAssumption, FS_Surjection

\* Finitely many sources of finite sizes have finitely many units.
LEMMA UnitsFinite ==
    ASSUME NEW size, IsFiniteSet(DOMAIN size), \A i \in DOMAIN size : size[i] \in Nat
    PROVE  IsFiniteSet(Units(size))
<1> DEFINE blocks == {{i} \X (1..size[i]) : i \in DOMAIN size}
<1>1. [i \in DOMAIN size |-> {i} \X (1..size[i])] \in Surjection(DOMAIN size, blocks)
  BY DEF Surjection
<1>2. IsFiniteSet(blocks)
  BY <1>1, FS_Surjection
<1>3. ASSUME NEW b \in blocks
      PROVE  IsFiniteSet(b)
  <2>1. PICK i \in DOMAIN size : b = {i} \X (1..size[i])
    OBVIOUS
  <2> QED
    BY <2>1, BlockSize
<1> HIDE DEF blocks
<1>4. IsFiniteSet(UNION blocks)
  BY <1>2, <1>3, FS_UNION
<1> QED
  BY <1>4 DEF Units, blocks

\* One more source adds its size.
LEMMA UnitsAdded ==
    ASSUME NEW size, IsFiniteSet(DOMAIN size), \A i \in DOMAIN size : size[i] \in Nat,
           NEW more, NEW j, j \notin DOMAIN size, DOMAIN more = DOMAIN size \cup {j},
           \A i \in DOMAIN size : more[i] = size[i], more[j] \in Nat
    PROVE  Cardinality(Units(more)) = Cardinality(Units(size)) + more[j]
<1> DEFINE n == more[j]
           kept == Units(size)
           added == {j} \X (1..n)
<1>1. IsFiniteSet(kept) /\ Cardinality(kept) \in Nat
  BY UnitsFinite, FS_CardinalityType
<1>2. IsFiniteSet(added) /\ Cardinality(added) = n
  BY BlockSize
<1>3. kept \cap added = {}
  BY DEF Units
<1>4. Units(more) = kept \cup added
  <2>1. ASSUME NEW u \in Units(more)
        PROVE  u \in kept \cup added
    <3>1. PICK i \in DOMAIN more : u \in {i} \X (1..more[i])
      BY DEF Units
    <3>2. CASE i = j
      BY <3>1, <3>2
    <3>3. CASE i # j
      <4>1. i \in DOMAIN size /\ u \in {i} \X (1..size[i])
        BY <3>1, <3>3
      <4> QED
        BY <4>1 DEF Units
    <3> QED
      BY <3>2, <3>3
  <2>2. ASSUME NEW u \in kept
        PROVE  u \in Units(more)
    <3>1. PICK i \in DOMAIN size : u \in {i} \X (1..size[i])
      BY DEF Units
    <3>2. i \in DOMAIN more /\ u \in {i} \X (1..more[i])
      BY <3>1
    <3> QED
      BY <3>2 DEF Units
  <2>3. added \subseteq Units(more)
    <3>1. j \in DOMAIN more
      OBVIOUS
    <3> QED
      BY <3>1 DEF Units
  <2> QED
    BY <2>1, <2>2, <2>3
<1> HIDE DEF kept, added
<1>5. Cardinality(kept \cup added) =
        Cardinality(kept) + Cardinality(added) - Cardinality(kept \cap added)
  BY <1>1, <1>2, FS_Union
<1>6. Cardinality(kept \cap added) = 0
  BY <1>3, FS_EmptySet
<1>7. Cardinality(kept \cup added) = Cardinality(kept) + n
  BY <1>1, <1>2, <1>5, <1>6
<1> QED
  BY <1>4, <1>7 DEF kept

\* A snapshot is charged by its size when it is kept.
LEMMA SnapshotCharged ==
    ASSUME Inv, NEW j \in Identities, identities[j] = "none", NEW text \in Documents,
           identities' = [identities EXCEPT ![j] = text]
    PROVE  /\ Cardinality(KeptCharacters') = Cardinality(KeptCharacters) + Characters[text]
           /\ Cardinality(KeptDeclarations') =
                Cardinality(KeptDeclarations) + Len(Declarations[text])
<1>1. /\ identities \in [Identities -> Documents \cup {"none"}]
      /\ text # "none" /\ text \in Texts
  BY TextsAssumption DEF Inv, LoaderInv, TypeOK, Refusals, Texts
<1>2. /\ Snapshots \subseteq Identities /\ j \notin Snapshots
      /\ Snapshots' = Snapshots \cup {j}
      /\ \A i \in Snapshots : identities'[i] = identities[i] /\ identities[i] \in Texts
      /\ identities'[j] = text
  BY <1>1 DEF Snapshots, Texts
<1>3. IsFiniteSet(Snapshots)
  BY <1>2, IdentitiesFinite, FS_Subset
<1>4. Cardinality(KeptCharacters') = Cardinality(KeptCharacters) + Characters[text]
  <2> DEFINE size == [i \in Snapshots |-> Characters[identities[i]]]
             more == [i \in Snapshots' |-> Characters[identities'[i]]]
  <2>1. /\ DOMAIN size = Snapshots /\ DOMAIN more = Snapshots \cup {j}
        /\ \A i \in Snapshots : size[i] \in Nat /\ more[i] = size[i]
        /\ more[j] = Characters[text] /\ more[j] \in Nat
    BY <1>1, <1>2, TextsAssumption
  <2>2. KeptCharacters = Units(size) /\ KeptCharacters' = Units(more)
    BY DEF KeptCharacters, Units
  <2> HIDE DEF size, more
  <2> QED
    BY <1>2, <1>3, <2>1, <2>2, UnitsAdded
<1>5. Cardinality(KeptDeclarations') = Cardinality(KeptDeclarations) + Len(Declarations[text])
  <2> DEFINE size == [i \in Snapshots |-> Len(Declarations[identities[i]])]
             more == [i \in Snapshots' |-> Len(Declarations[identities'[i]])]
  <2>1. /\ DOMAIN size = Snapshots /\ DOMAIN more = Snapshots \cup {j}
        /\ \A i \in Snapshots : size[i] \in Nat /\ more[i] = size[i]
        /\ more[j] = Len(Declarations[text]) /\ more[j] \in Nat
    BY <1>1, <1>2, TextsAssumption
  <2>2. KeptDeclarations = Units(size) /\ KeptDeclarations' = Units(more)
    BY DEF KeptDeclarations, Units
  <2> HIDE DEF size, more
  <2> QED
    BY <1>2, <1>3, <2>1, <2>2, UnitsAdded
<1> QED
  BY <1>4, <1>5

LEMMA ParsedInv ==
    ASSUME Inv, NEW o \in Owners, Parsed(o), UNCHANGED <<disk, tasks, loads>>
    PROVE  Inv'
<1> DEFINE text == owners[o].what
           identity == IdentityOf[owners[o].path]
           newCharacters == characters + Characters[text]
           newDeclarations == declarations + Len(Declarations[text])
<1>1. /\ owners[o].state = "read" /\ text \in Texts /\ identities[identity] = "none"
      /\ owners[o].path \in Paths /\ identity \in Identities
      /\ characters \in Nat /\ declarations \in Nat
      /\ Characters[text] \in Nat /\ Len(Declarations[text]) \in Nat
  BY Basics, TextsAssumption DEF Parsed, Inv, LoaderInv, TypeOK, TextRead
<1>2. ASSUME NEW why \in {"malformed", "characters", "declarations"},
             Settle(o, "failed", why), UNCHANGED <<identities, characters, declarations>>
      PROVE  Inv'
  <2>1. why \in Texts \cup Refusals
    BY <1>2 DEF Texts, Refusals
  <2>2. /\ owners' = [owners EXCEPT ![o].state = "failed", ![o].what = why]
        /\ "failed" \in {"read"} \cup Settled
    BY <1>2 DEF Settle, Settled
  <2> QED
    BY <1>1, <1>2, <2>1, <2>2, OwnerUncharged
<1>3. ASSUME newCharacters <= MaxCharacters, text # "malformed",
             newDeclarations <= MaxDeclarations,
             characters' = newCharacters, declarations' = newDeclarations,
             identities' = [identities EXCEPT ![identity] = text],
             Settle(o, "loaded", text)
      PROVE  Inv'
  <2>1. text \in Documents /\ text # "none"
    BY <1>1, <1>3, TextsAssumption DEF Texts, Refusals
  <2>2. /\ identities \in [Identities -> Documents \cup {"none"}]
        /\ identities' \in [Identities -> Documents \cup {"none"}]
        /\ identities'[identity] = text
        /\ \A i \in Identities : i # identity => identities'[i] = identities[i]
    BY <1>1, <1>3, <2>1 DEF Inv, LoaderInv, TypeOK
  <2> HIDE DEF identity, text
  <2>3. /\ owners' \in [Owners -> OwnerRecord]
        /\ owners'[o].state = "loaded" /\ owners'[o].what = text
        /\ \A b \in Owners :
              /\ owners'[b].path = owners[b].path
              /\ b # o => owners'[b] = owners[b]
        /\ LoadsShaped' /\ SingleFlight' /\ OwnersInUse'
        /\ OwnersReferred' /\ RetrievalsWaited' /\ FailuresForgotten'
    BY <1>1, <1>3, OwnerMoves DEF Settle, Settled
  <2>4. TypeOK'
    BY <1>1, <1>3, <2>2, <2>3 DEF TypeOK, Inv, LoaderInv, OwnerRecord
  <2>5. OneSnapshot'
    <3> SUFFICES ASSUME NEW b \in Owners, owners'[b].state = "loaded"
                 PROVE  /\ owners'[b].what # "none"
                        /\ owners'[b].what = identities'[IdentityOf[owners'[b].path]]
      BY DEF OneSnapshot
    <3>1. CASE b = o
      BY <2>1, <2>2, <2>3, <3>1 DEF identity
    <3>2. CASE b # o
      <4>1. owners'[b] = owners[b]
        BY <2>3, <3>2
      <4>2. /\ owners[b].what # "none"
            /\ owners[b].what = identities[IdentityOf[owners[b].path]]
        BY <4>1 DEF Inv, LoaderInv, OneSnapshot
      <4>3. IdentityOf[owners[b].path] \in Identities
        BY Basics DEF Inv, LoaderInv, TypeOK
      <4>4. IdentityOf[owners[b].path] # identity
        BY <1>1, <4>2
      <4> QED
        BY <2>2, <4>1, <4>2, <4>3, <4>4
    <3> QED
      BY <3>1, <3>2
  <2>6. TextRead'
    BY <2>3 DEF TextRead, Inv
  <2>7. Accounted'
    <3>1. /\ Cardinality(KeptCharacters') = Cardinality(KeptCharacters) + Characters[text]
          /\ Cardinality(KeptDeclarations') =
                Cardinality(KeptDeclarations) + Len(Declarations[text])
      BY <1>1, <1>3, <2>1, SnapshotCharged
    <3>2. /\ characters = Cardinality(KeptCharacters)
          /\ declarations = Cardinality(KeptDeclarations)
          /\ Cardinality({p \in Paths : tasks[p] # NoOwner}) <= MaxSources
      BY DEF Inv, LoaderInv, Accounted
    <3> QED
      BY <1>3, <3>1, <3>2 DEF Accounted
  <2> QED
    BY <2>3, <2>4, <2>5, <2>6, <2>7 DEF Inv, LoaderInv
<1> QED
  BY <1>2, <1>3 DEF Parsed

LEMMA EditInv ==
    ASSUME Inv, NEW i \in Identities, Edit(i)
    PROVE  Inv'
<1>1. disk' \in [Identities -> Texts \cup Troubles]
  BY TextsAssumption DEF Edit, Inv, LoaderInv, TypeOK
<1> QED
  BY <1>1 DEF Edit, Inv, LoaderInv, TypeOK, SingleFlight, OneSnapshot, Accounted,
     KeptCharacters, KeptDeclarations, Snapshots, FailuresForgotten, Poisoned,
     LoadsShaped, Shaped, TextRead, OwnersInUse, OwnersReferred, Referred, RetrievalsWaited

LEMMA StutterInv == Inv /\ UNCHANGED vars => Inv'
BY DEF vars, Inv, LoaderInv, TypeOK, SingleFlight, OneSnapshot, Accounted,
   KeptCharacters, KeptDeclarations, Snapshots, FailuresForgotten, Poisoned,
   LoadsShaped, Shaped, TextRead, OwnersInUse, OwnersReferred, Referred, RetrievalsWaited

LEMMA InvStep == Inv /\ [Next]_vars => Inv'
<1> SUFFICES ASSUME Inv, [Next]_vars
             PROVE  Inv'
  OBVIOUS
<1>1. ASSUME NEW l \in Loads, Begin(l)
      PROVE  Inv'
  BY <1>1, BeginInv
<1>2. ASSUME NEW l \in Loads, Expand(l)
      PROVE  Inv'
  BY <1>2, DefineInv, RequestInv, WakeInv, ReturnInv DEF Expand
<1>3. ASSUME NEW l \in Loads, Cancel(l)
      PROVE  Inv'
  BY <1>3, CancelInv
<1>4. ASSUME NEW o \in Owners, Read(o) \/ Abort(o)
      PROVE  Inv'
  BY <1>4, ReadInv, AbortInv
<1>5. ASSUME NEW o \in Owners, Finish(o)
      PROVE  Inv'
  BY <1>5, RefusedInv, KnownInv, ParsedInv DEF Finish
<1>6. ASSUME NEW i \in Identities, Edit(i)
      PROVE  Inv'
  BY <1>6, EditInv
<1>7. CASE Rest \/ UNCHANGED vars
  BY <1>7, StutterInv DEF Rest
<1> QED
  BY <1>1, <1>2, <1>3, <1>4, <1>5, <1>6, <1>7 DEF Next

\* The loader's tables: one running retrieval per path and that one registered,
\* one snapshot per source that every path of it answers, charges equal to what
\* is kept and within the limits, and, while no load is cancelled, no failed
\* retrieval left for later requests.
THEOREM LoaderSound == Spec => []LoaderInv
<1>1. Spec => []Inv
  BY InitInv, InvStep, PTL DEF Spec
<1>2. Inv => LoaderInv
  BY DEF Inv
<1> QED
  BY <1>1, <1>2, PTL

-----------------------------------------------------------------------------
(* What a load returns.  How a document expands is defined by rules.  What  *)
(* they derive is the least set closed under them: it is in every such set. *)

Nothing == [output |-> <<>>, spaces |-> {}]
ScopeOf(entry) == [output |-> entry.output, spaces |-> entry.spaces]

Definition(document, next) ==
    [name |-> Declarations[document][next].name,
     value |-> Declarations[document][next].value, at |-> <<document, next>>]

Defined(document, next, scope) ==
    [output |-> Append(scope.output, Definition(document, next)), spaces |-> scope.spaces]

Imported(scope, inner, alias) ==
    [output |-> scope.output \o Qualified(inner.output, alias),
     spaces |-> scope.spaces \cup Reserved(inner.spaces, alias)]

\* The document, from its declaration next on, turns one scope into another; place is
\* where it was named, missing the placements whose optional file was absent.  A
\* using goes on with the scope it is given, an import with one of its own.
Follows(l, snapshots, missing, derived, document, next, place, from, to) ==
    LET declaration == Declarations[document][next]
        here == Append(place, next)
        path == Target(l, declaration, from.output)
        child == snapshots[IdentityOf[path]]
        Onward(scope) == <<document, next + 1, place, scope, to>> \in derived
        Inside(scope, inner) == <<child, 1, here, scope, inner>> \in derived
    IN  \/ next = Len(Declarations[document]) + 1 /\ to = from
        \/ /\ next <= Len(Declarations[document])
           /\ \/ declaration.kind = "define" /\ Onward(Defined(document, next, from))
              \/ /\ declaration.kind # "define" /\ here \in missing
                 /\ declaration.optional /\ Onward(from)
              \/ /\ declaration.kind # "define" /\ here \notin missing
                 /\ path \in Paths /\ child \in Documents
                 /\ \E inner :
                      IF declaration.kind = "import"
                      THEN /\ Inside(Nothing, inner)
                           /\ Onward(Imported(from, inner, declaration.alias))
                      ELSE Inside(from, inner) /\ Onward(inner)

\* What a scope can become.
Rich(scopes) ==
    /\ Nothing \in scopes
    /\ \A document \in Documents, scope \in scopes :
         \A next \in 1..Len(Declarations[document]) :
           LET declaration == Declarations[document][next] IN
           /\ declaration.kind = "define" => Defined(document, next, scope) \in scopes
           /\ declaration.kind = "import" =>
                \A inner \in scopes : Imported(scope, inner, declaration.alias) \in scopes

Closed(l, snapshots, missing, scopes, derived) ==
    /\ Rich(scopes)
    /\ \A document \in Documents, next \in Nat \ {0}, place \in Seq(Nat),
          from \in scopes, to \in scopes :
         Follows(l, snapshots, missing, derived, document, next, place, from, to)
             => <<document, next, place, from, to>> \in derived

\* The expansion of the root, with the snapshots kept and the absences met.
Expansion(l, snapshots, missing, output) ==
    \A scopes, derived : Closed(l, snapshots, missing, scopes, derived) =>
        \E spaces : <<snapshots[IdentityOf[Root[l]]], 1, <<>>, Nothing,
                      [output |-> output, spaces |-> spaces]>> \in derived

-----------------------------------------------------------------------------
(* The stack of a load, read as an expansion under way.                    *)

Line(s) == \E S : s \in Seq(S)

Entry(e) ==
    /\ e = [identity |-> e.identity, document |-> e.document, next |-> e.next,
            alias |-> e.alias, output |-> e.output, spaces |-> e.spaces]
    /\ e.document \in Documents
    /\ e.next \in 1..(Len(Declarations[e.document]) + 1)

Place(stack, k) == [i \in 1..(k - 1) |-> stack[i].next]

Naming(e) ==
    /\ e.next <= Len(Declarations[e.document])
    /\ Declarations[e.document][e.next].kind # "define"
NamedPath(l, e) == Target(l, Declarations[e.document][e.next], e.output)

\* Each document is what the declaration below it names.
Links(l, snapshots, stack) ==
    /\ stack # <<>> => stack[1].document = snapshots[IdentityOf[Root[l]]]
    /\ \A i \in 1..(Len(stack) - 1) :
         /\ Naming(stack[i]) /\ NamedPath(l, stack[i]) \in Paths
         /\ stack[i + 1].document = snapshots[IdentityOf[NamedPath(l, stack[i])]]
         /\ stack[i + 1].alias =
              LET declaration == Declarations[stack[i].document][stack[i].next]
              IN IF declaration.kind = "import" THEN declaration.alias ELSE <<>>

\* Placements that are decided: those of open documents and all before.
Passed(q, stack) ==
    \E k \in 1..Len(stack) :
        \/ k < Len(stack) /\ q = Place(stack, k + 1)
        \/ (\A i \in 1..(k - 1) : q[i] = stack[i].next) /\ q[k] \in 1..(stack[k].next - 1)

Agrees(missing, skipped, stack) ==
    skipped \subseteq missing /\ \A q \in missing : q \in skipped \/ ~Passed(q, stack)

Start(stack, i) ==
    IF i = 1 \/ stack[i].alias # <<>> THEN Nothing ELSE ScopeOf(stack[i - 1])

\* What the rest of an open document derives, the whole of it derives.
Advances(l, snapshots, stack, skipped, i) ==
    \A missing, scopes, derived :
        Agrees(missing, skipped, stack) /\ Closed(l, snapshots, missing, scopes, derived) =>
            \A to \in scopes :
                <<stack[i].document, stack[i].next, Place(stack, i),
                  ScopeOf(stack[i]), to>> \in derived
                => <<stack[i].document, 1, Place(stack, i), Start(stack, i), to>> \in derived

\* A scope that documents can make.
Reached(scope) == \A scopes : Rich(scopes) => scope \in scopes

Expanding(l, snapshots, stack, skipped) ==
    /\ Line(stack) /\ \A i \in 1..Len(stack) : Entry(stack[i]) /\ Reached(ScopeOf(stack[i]))
    /\ Links(l, snapshots, stack)
    /\ \A q \in skipped : Passed(q, stack)
    /\ \A i \in 2..Len(stack) : Place(stack, i) \notin skipped
    /\ \A i \in 1..Len(stack) : Advances(l, snapshots, stack, skipped, i)

LEMMA LineBasics ==
    ASSUME NEW s, Line(s)
    PROVE  /\ Len(s) \in Nat /\ DOMAIN s = 1..Len(s)
           /\ s = <<>> <=> Len(s) = 0
           /\ s = [i \in 1..Len(s) |-> s[i]]
<1>1. PICK S : s \in Seq(S)
  BY DEF Line
<1> QED
  BY <1>1, LenProperties, EmptySeq

LEMMA LineAppend ==
    ASSUME NEW s, Line(s), NEW e
    PROVE  /\ Line(Append(s, e)) /\ Len(Append(s, e)) = Len(s) + 1
           /\ \A i \in 1..Len(s) : Append(s, e)[i] = s[i]
           /\ Append(s, e)[Len(s) + 1] = e
<1>1. PICK S : s \in Seq(S)
  BY DEF Line
<1> DEFINE T == S \cup {e}
<1>2. s \in Seq(T) /\ e \in T
  BY <1>1, SeqMonotonic
<1> HIDE DEF T
<1> QED
  BY <1>2, AppendProperties DEF Line

LEMMA LineFront ==
    ASSUME NEW s, Line(s), s # <<>>
    PROVE  /\ Line(Front(s)) /\ Len(Front(s)) = Len(s) - 1
           /\ \A i \in 1..(Len(s) - 1) : Front(s)[i] = s[i]
<1>1. PICK S : s \in Seq(S)
  BY DEF Line
<1>2. /\ Len(s) \in Nat \ {0}
      /\ \A i \in 1..(Len(s) - 1) : s[i] \in S
  BY <1>1, EmptySeq, ElementOfSeq, LenProperties
<1>3. /\ Front(s) \in Seq(S) /\ Len(Front(s)) = Len(s) - 1
      /\ \A i \in 1..(Len(s) - 1) : Front(s)[i] = s[i]
  <2> DEFINE m == Len(s) - 1
  <2>1. m \in Int /\ 1 \in Int /\ m >= 0
    BY <1>2
  <2>2. /\ SubSeq(s, 1, m) \in Seq(S)
        /\ Len(SubSeq(s, 1, m)) = IF 1 <= m THEN m - 1 + 1 ELSE 0
        /\ \A i \in 1..(m - 1 + 1) : SubSeq(s, 1, m)[i] = s[1 + i - 1]
    <3> HIDE DEF m
    <3>1. \A i \in 1..m : s[i] \in S
      BY <1>2 DEF m
    <3> QED
      BY <2>1, <3>1, SubSeqProperties
  <2>3. \A i \in 1..m : SubSeq(s, 1, m)[i] = s[i]
    BY <2>1, <2>2
  <2>4. Len(SubSeq(s, 1, m)) = m
    <3> HIDE DEF m
    <3>1. (IF 1 <= m THEN m - 1 + 1 ELSE 0) = m
      BY <2>1
    <3> QED
      BY <2>2, <3>1
  <2>5. Front(s) = SubSeq(s, 1, m)
    BY DEF Front
  <2> HIDE DEF m
  <2> QED
    BY <2>2, <2>3, <2>4, <2>5 DEF m
<1> QED
  BY <1>3 DEF Line

LEMMA LineExcept ==
    ASSUME NEW s, Line(s), NEW k \in 1..Len(s), NEW e
    PROVE  /\ Line([s EXCEPT ![k] = e]) /\ Len([s EXCEPT ![k] = e]) = Len(s)
           /\ \A i \in 1..Len(s) : [s EXCEPT ![k] = e][i] = IF i = k THEN e ELSE s[i]
<1>1. PICK S : s \in Seq(S)
  BY DEF Line
<1> DEFINE T == S \cup {e}
<1>2. s \in Seq(T) /\ e \in T
  BY <1>1, SeqMonotonic
<1> HIDE DEF T
<1> QED
  BY <1>2, ExceptSeq DEF Line

LEMMA PlaceGrows ==
    ASSUME NEW stack, Line(stack), \A i \in 1..Len(stack) : Entry(stack[i]),
           NEW k \in 1..Len(stack)
    PROVE  /\ Append(Place(stack, k), stack[k].next) = Place(stack, k + 1)
           /\ Place(stack, 1) = <<>>
           /\ Placement(stack) = Place(stack, Len(stack) + 1)
           /\ \A i \in 1..k : Place(stack, k + 1)[i] = stack[i].next
           /\ \A j \in 1..Len(stack) : Place(stack, j + 1) = Place(stack, k + 1) => j = k
<1>1. Len(stack) \in Nat /\ \A i \in 1..Len(stack) : stack[i].next \in Nat
  <2>1. \A text \in Documents : Len(Declarations[text]) \in Nat
    BY TextsAssumption DEF Texts
  <2>2. Len(stack) \in Nat
    BY LineBasics
  <2>3. ASSUME NEW i \in 1..Len(stack)
        PROVE  stack[i].next \in Nat
    <3>1. /\ stack[i].document \in Documents
          /\ stack[i].next \in 1..(Len(Declarations[stack[i].document]) + 1)
      BY DEF Entry
    <3> QED
      BY <2>1, <3>1
  <2> QED
    BY <2>2, <2>3
<1> DEFINE shorter == Place(stack, k)
           longer == Place(stack, k + 1)
<1>2. shorter \in Seq(Nat) /\ Len(shorter) = k - 1
  BY <1>1 DEF Place
<1>3. longer \in Seq(Nat) /\ Len(longer) = k
  BY <1>1 DEF Place
<1>4. /\ Append(shorter, stack[k].next) \in Seq(Nat) /\ Len(Append(shorter, stack[k].next)) = k
      /\ \A i \in 1..(k - 1) : Append(shorter, stack[k].next)[i] = shorter[i]
      /\ Append(shorter, stack[k].next)[k] = stack[k].next
  <2> HIDE DEF shorter
  <2> QED
    BY <1>1, <1>2, AppendProperties
<1>5. \A i \in 1..k : Append(shorter, stack[k].next)[i] = longer[i]
  BY <1>4 DEF Place
<1>6. Append(shorter, stack[k].next) = longer
  <2> HIDE DEF shorter, longer
  <2> QED
    BY <1>3, <1>4, <1>5, SeqEqual
<1>7. Place(stack, 1) = <<>>
  BY DEF Place
<1>8. Placement(stack) = Place(stack, Len(stack) + 1)
  BY <1>1 DEF Place, Placement
<1>9. \A i \in 1..k : Place(stack, k + 1)[i] = stack[i].next
  BY DEF Place
<1>10. \A j \in 1..Len(stack) : Place(stack, j + 1) = Place(stack, k + 1) => j = k
  <2>1. \A j \in 1..Len(stack) : DOMAIN Place(stack, j + 1) = 1..j
    BY <1>1 DEF Place
  <2> QED
    BY <1>1, <2>1
<1> QED
  BY <1>6, <1>7, <1>8, <1>9, <1>10


\* Where two stacks agree.
LEMMA PlaceSame ==
    ASSUME NEW one, NEW other, NEW k \in Nat,
           \A i \in 1..(k - 1) : other[i].next = one[i].next
    PROVE  Place(other, k) = Place(one, k)
BY DEF Place

\* The declaration a load is at is not decided.
LEMMA HereOpen ==
    ASSUME NEW stack, Line(stack), \A i \in 1..Len(stack) : Entry(stack[i])
    PROVE  ~Passed(Place(stack, Len(stack) + 1), stack)
<1> DEFINE here == Place(stack, Len(stack) + 1)
<1>1. Len(stack) \in Nat
  BY LineBasics
<1> SUFFICES ASSUME NEW k \in 1..Len(stack),
                    \/ k < Len(stack) /\ here = Place(stack, k + 1)
                    \/ here[k] \in 1..(stack[k].next - 1)
             PROVE  FALSE
  BY DEF Passed
<1>2. k < Len(stack) => here # Place(stack, k + 1)
  BY <1>1, PlaceGrows
<1>3. here[k] = stack[k].next
  BY <1>1 DEF Place
<1>4. stack[k].next \in Int
  <2>1. \A text \in Documents : Len(Declarations[text]) \in Nat
    BY TextsAssumption DEF Texts
  <2>2. /\ stack[k].document \in Documents
        /\ stack[k].next \in 1..(Len(Declarations[stack[k].document]) + 1)
    BY DEF Entry
  <2> QED
    BY <2>1, <2>2
<1> HIDE DEF here
<1>5. stack[k].next \notin 1..(stack[k].next - 1)
  BY <1>4
<1> QED
  BY <1>2, <1>3, <1>5

\* A load passes on: its topmost documents may be left, and the one then on top
\* is at a later declaration.
LEMMA OnwardPasses ==
    ASSUME NEW stack, NEW after, Line(stack), Line(after),
           \A i \in 1..Len(stack) : Entry(stack[i]),
           \A i \in 1..Len(after) : Entry(after[i]),
           NEW n \in 1..Len(stack), Len(after) = n,
           \A i \in 1..(n - 1) : after[i] = stack[i],
           after[n].next = stack[n].next + 1
    PROVE  /\ \A q : Passed(q, stack) => Passed(q, after)
           /\ Passed(Place(stack, n + 1), after)
<1>1. Len(stack) \in Nat /\ Len(after) \in Nat /\ n \in Nat
  BY LineBasics
<1>2. stack[n].next \in Nat \ {0}
  <2>1. \A text \in Documents : Len(Declarations[text]) \in Nat
    BY TextsAssumption DEF Texts
  <2>2. /\ stack[n].document \in Documents
        /\ stack[n].next \in 1..(Len(Declarations[stack[n].document]) + 1)
    BY DEF Entry
  <2> QED
    BY <2>1, <2>2
<1>3. \A k \in 1..n : Place(after, k) = Place(stack, k)
  BY SMTT(30), <1>1, PlaceSame
<1>4. ASSUME NEW q, \A i \in 1..(n - 1) : q[i] = stack[i].next, q[n] = stack[n].next
      PROVE  Passed(q, after)
  <2>1. q[n] \in 1..(after[n].next - 1)
    BY <1>2, <1>4
  <2>2. \A i \in 1..(n - 1) : q[i] = after[i].next
    BY <1>4
  <2> QED
    BY <1>1, <2>1, <2>2 DEF Passed
<1>5. Passed(Place(stack, n + 1), after)
  <2>1. \A i \in 1..n : Place(stack, n + 1)[i] = stack[i].next
    BY <1>1 DEF Place
  <2> QED
    BY <1>1, <1>4, <2>1
<1>6. ASSUME NEW q, Passed(q, stack)
      PROVE  Passed(q, after)
  <2>1. PICK k \in 1..Len(stack) :
          \/ k < Len(stack) /\ q = Place(stack, k + 1)
          \/ (\A i \in 1..(k - 1) : q[i] = stack[i].next) /\ q[k] \in 1..(stack[k].next - 1)
    BY <1>6 DEF Passed
  <2>2. CASE k < n
    <3>1. /\ k \in 1..Len(after) /\ k < Len(after) /\ after[k] = stack[k]
          /\ \A i \in 1..(k - 1) : after[i] = stack[i]
      BY <1>1, <2>2
    <3>2. Place(after, k + 1) = Place(stack, k + 1)
      BY <1>1, <1>3, <2>2
    <3> QED
      BY <2>1, <3>1, <3>2 DEF Passed
  <2>3. CASE k = n /\ q = Place(stack, k + 1)
    BY <1>5, <2>3
  <2>4. CASE k = n /\ q # Place(stack, k + 1)
    <3>1. (\A i \in 1..(n - 1) : q[i] = stack[i].next) /\ q[n] \in 1..(stack[n].next - 1)
      BY <2>1, <2>4
    <3>2. q[n] \in 1..(after[n].next - 1)
      BY <1>2, <3>1
    <3> QED
      BY <1>1, <3>1, <3>2 DEF Passed
  <2>5. CASE k > n
    <3>1. \A i \in 1..n : q[i] = stack[i].next
      <4>1. CASE q = Place(stack, k + 1)
        BY <1>1, <2>5, <4>1 DEF Place
      <4>2. CASE \A i \in 1..(k - 1) : q[i] = stack[i].next
        BY <1>1, <2>5, <4>2
      <4> QED
        BY <2>1, <4>1, <4>2
    <3> QED
      BY <1>1, <1>4, <3>1
  <2> QED
    BY <1>1, <2>2, <2>3, <2>4, <2>5
<1> QED
  BY <1>5, <1>6

\* The load is at a later declaration of a document, with what the declarations
\* before it and all they name have made of the scope.
LEMMA OnwardExpands ==
    ASSUME NEW l, NEW snapshots, NEW stack, NEW after, NEW skipped, NEW more,
           Expanding(l, snapshots, stack, skipped), Line(after),
           NEW n \in 1..Len(stack), Len(after) = n,
           \A i \in 1..(n - 1) : after[i] = stack[i],
           Entry(after[n]), after[n].document = stack[n].document,
           after[n].alias = stack[n].alias, after[n].next = stack[n].next + 1,
           Reached(ScopeOf(after[n])), more \subseteq {Place(stack, n + 1)}, more # {} => n = Len(stack),
           \A missing, scopes, derived :
             /\ Closed(l, snapshots, missing, scopes, derived)
             /\ Agrees(missing, skipped, stack)
             /\ Place(stack, n + 1) \in missing <=> more # {}
             => \A to \in scopes :
                  <<stack[n].document, stack[n].next + 1, Place(stack, n),
                    ScopeOf(after[n]), to>> \in derived
                  => <<stack[n].document, stack[n].next, Place(stack, n),
                       ScopeOf(stack[n]), to>> \in derived
    PROVE  Expanding(l, snapshots, after, skipped \cup more)
<1>1. /\ Line(stack) /\ \A i \in 1..Len(stack) : Entry(stack[i])
      /\ \A q \in skipped : Passed(q, stack)
      /\ \A i \in 2..Len(stack) : Place(stack, i) \notin skipped
  BY DEF Expanding
<1>2. Len(stack) \in Nat /\ n \in Nat /\ n <= Len(stack)
  BY <1>1, LineBasics
<1>3. \A i \in 1..Len(after) : Entry(after[i])
  BY <1>1, <1>2
<1>4. /\ \A q : Passed(q, stack) => Passed(q, after)
      /\ Passed(Place(stack, n + 1), after)
  BY <1>1, <1>3, OnwardPasses
<1>5. \A k \in 1..n : Place(after, k) = Place(stack, k)
  BY SMTT(30), <1>2, PlaceSame
<1>6. Links(l, snapshots, after)
  <2>1. Links(l, snapshots, stack)
    BY DEF Expanding
  <2>2. after # <<>> /\ stack # <<>> /\ after[1].document = stack[1].document
    BY <1>1, <1>2, LineBasics
  <2>3. ASSUME NEW i \in 1..(n - 1)
        PROVE  /\ after[i] = stack[i] /\ i \in 1..(Len(stack) - 1)
               /\ after[i + 1].document = stack[i + 1].document
               /\ after[i + 1].alias = stack[i + 1].alias
    BY <1>2
  <2>4. ASSUME NEW i \in 1..(Len(after) - 1)
        PROVE  /\ Naming(after[i]) /\ NamedPath(l, after[i]) \in Paths
               /\ after[i + 1].document = snapshots[IdentityOf[NamedPath(l, after[i])]]
               /\ after[i + 1].alias =
                    LET declaration == Declarations[after[i].document][after[i].next]
                    IN IF declaration.kind = "import" THEN declaration.alias ELSE <<>>
    <3>1. /\ Naming(stack[i]) /\ NamedPath(l, stack[i]) \in Paths
          /\ stack[i + 1].document = snapshots[IdentityOf[NamedPath(l, stack[i])]]
          /\ stack[i + 1].alias =
               LET declaration == Declarations[stack[i].document][stack[i].next]
               IN IF declaration.kind = "import" THEN declaration.alias ELSE <<>>
      BY <2>1, <2>3 DEF Links
    <3> QED
      BY <2>3, <3>1
  <2> QED
    BY <2>1, <2>2, <2>4 DEF Links
<1>7. \A q \in skipped \cup more : Passed(q, after)
  BY <1>1, <1>4
<1>8. Place(stack, n + 1) \notin skipped
  <2>1. CASE n < Len(stack)
    BY <1>1, <1>2, <2>1
  <2>2. CASE n = Len(stack)
    BY <1>1, <2>2, HereOpen
  <2> QED
    BY <1>2, <2>1, <2>2
<1>9. \A i \in 2..Len(after) : Place(after, i) \notin skipped \cup more
  <2> SUFFICES ASSUME NEW i \in 2..n
               PROVE  Place(stack, i) \notin skipped \cup more
    BY <1>2, <1>5
  <2>1. Place(stack, i) \notin skipped
    BY <1>1, <1>2
  <2>2. Place(stack, i) # Place(stack, n + 1)
    <3>1. i - 1 \in 1..Len(stack) /\ i - 1 # n /\ (i - 1) + 1 = i
      BY <1>2
    <3>2. \A j \in 1..Len(stack) : Place(stack, j + 1) = Place(stack, n + 1) => j = n
      BY <1>1, PlaceGrows
    <3> DEFINE j == i - 1
    <3>3. Place(stack, j + 1) # Place(stack, n + 1)
      <4> HIDE DEF j
      <4> QED
        BY <3>1, <3>2 DEF j
    <3> QED
      BY <3>1, <3>3
  <2> QED
    BY <2>1, <2>2
<1>10. ASSUME NEW missing, Agrees(missing, skipped \cup more, after)
       PROVE  /\ Agrees(missing, skipped, stack)
              /\ Place(stack, n + 1) \in missing <=> more # {}
  <2>1. Place(stack, n + 1) \in missing <=> more # {}
    BY <1>4, <1>8, <1>10 DEF Agrees
  <2>2. ASSUME NEW q \in missing
        PROVE  q \in skipped \/ ~Passed(q, stack)
    <3>1. CASE q = Place(stack, n + 1)
      BY <1>1, <2>1, <3>1, HereOpen
    <3> QED
      BY <1>4, <1>10, <3>1 DEF Agrees
  <2> QED
    BY <1>10, <2>1, <2>2 DEF Agrees
<1>11. ASSUME NEW i \in 1..n
       PROVE  Advances(l, snapshots, after, skipped \cup more, i)
  <2> SUFFICES ASSUME NEW missing, NEW scopes, NEW derived, NEW to \in scopes,
                      Agrees(missing, skipped \cup more, after),
                      Closed(l, snapshots, missing, scopes, derived),
                      <<after[i].document, after[i].next, Place(after, i),
                        ScopeOf(after[i]), to>> \in derived
               PROVE  <<after[i].document, 1, Place(after, i), Start(after, i), to>> \in derived
    BY DEF Advances
  <2>1. /\ Agrees(missing, skipped, stack)
        /\ Place(stack, n + 1) \in missing <=> more # {}
    BY <1>10
  <2>2. <<stack[i].document, stack[i].next, Place(stack, i),
          ScopeOf(stack[i]), to>> \in derived
    <3>1. CASE i = n
      BY <1>5, <2>1, <3>1
    <3>2. CASE i # n
      <4>1. after[i] = stack[i] /\ Place(after, i) = Place(stack, i)
        BY <1>2, <1>5, <3>2
      <4> QED
        BY <4>1
    <3> QED
      BY <3>1, <3>2
  <2>3. <<stack[i].document, 1, Place(stack, i), Start(stack, i), to>> \in derived
    BY <1>2, <2>1, <2>2 DEF Expanding, Advances
  <2>4. Start(after, i) = Start(stack, i) /\ after[i].document = stack[i].document
    <3>1. /\ after[i].alias = stack[i].alias /\ after[i].document = stack[i].document
          /\ i # 1 => after[i - 1] = stack[i - 1]
      BY <1>2
    <3> QED
      BY <3>1 DEF Start
  <2> QED
    BY <1>5, <2>3, <2>4
<1>12. \A i \in 1..Len(after) : Reached(ScopeOf(after[i]))
  BY <1>2 DEF Expanding
<1> QED
  BY <1>3, <1>6, <1>7, <1>9, <1>11, <1>12 DEF Expanding

\* A load opens the document that its root or the current declaration names.
LEMMA EntersExpands ==
    ASSUME NEW l, NEW snapshots, NEW stack, NEW skipped, NEW e,
           Expanding(l, snapshots, stack, skipped), Entry(e), e.next = 1,
           ScopeOf(e) = IF stack = <<>> \/ e.alias # <<>> THEN Nothing
                        ELSE ScopeOf(Last(stack)),
           stack = <<>> => e.document = snapshots[IdentityOf[Root[l]]],
           stack # <<>> =>
             /\ Naming(Last(stack)) /\ NamedPath(l, Last(stack)) \in Paths
             /\ e.document = snapshots[IdentityOf[NamedPath(l, Last(stack))]]
             /\ e.alias = LET declaration == Declarations[Last(stack).document][Last(stack).next]
                          IN IF declaration.kind = "import" THEN declaration.alias ELSE <<>>
    PROVE  Expanding(l, snapshots, Append(stack, e), skipped)
<1> DEFINE after == Append(stack, e)
           n == Len(stack)
<1>1. /\ Line(stack) /\ \A i \in 1..n : Entry(stack[i])
      /\ \A q \in skipped : Passed(q, stack)
      /\ \A i \in 2..n : Place(stack, i) \notin skipped
      /\ Links(l, snapshots, stack)
  BY DEF Expanding
<1>2. /\ n \in Nat /\ Line(after) /\ Len(after) = n + 1
      /\ \A i \in 1..n : after[i] = stack[i]
      /\ after[n + 1] = e /\ (stack = <<>> <=> n = 0)
  BY <1>1, LineBasics, LineAppend
<1>3. n # 0 => Last(stack) = stack[n]
  BY DEF Last
<1> HIDE DEF after, n
<1>4. \A i \in 1..Len(after) : Entry(after[i])
  BY <1>1, <1>2
<1>5. \A k \in 1..(n + 1) : Place(after, k) = Place(stack, k)
  BY <1>2, PlaceSame
<1>6. Links(l, snapshots, after)
  <2>1. after[1].document = snapshots[IdentityOf[Root[l]]]
    BY <1>1, <1>2 DEF Links
  <2>2. ASSUME NEW i \in 1..n
        PROVE  /\ Naming(after[i]) /\ NamedPath(l, after[i]) \in Paths
               /\ after[i + 1].document = snapshots[IdentityOf[NamedPath(l, after[i])]]
               /\ after[i + 1].alias =
                    LET declaration == Declarations[after[i].document][after[i].next]
                    IN IF declaration.kind = "import" THEN declaration.alias ELSE <<>>
    <3>1. CASE i = n
      BY <1>2, <1>3, <3>1
    <3>2. CASE i # n
      <4>1. i \in 1..(n - 1) /\ after[i] = stack[i] /\ after[i + 1] = stack[i + 1]
        BY <1>2, <3>2
      <4> QED
        BY <1>1, <4>1 DEF Links, n
    <3> QED
      BY <3>1, <3>2
  <2> QED
    BY <1>2, <2>1, <2>2 DEF Links
<1>7. \A q : Passed(q, stack) => Passed(q, after)
  <2> SUFFICES ASSUME NEW q, NEW k \in 1..n,
                      \/ k < n /\ q = Place(stack, k + 1)
                      \/ /\ \A i \in 1..(k - 1) : q[i] = stack[i].next
                         /\ q[k] \in 1..(stack[k].next - 1)
               PROVE  Passed(q, after)
    BY DEF Passed, n
  <2>1. k \in 1..Len(after) /\ k < Len(after) /\ after[k] = stack[k]
    BY <1>2
  <2>2. \A i \in 1..(k - 1) : after[i] = stack[i]
    BY <1>2
  <2>3. Place(after, k + 1) = Place(stack, k + 1)
    BY <1>2, <1>5
  <2> QED
    BY <2>1, <2>2, <2>3 DEF Passed
<1>8. \A i \in 2..Len(after) : Place(after, i) \notin skipped
  <2> SUFFICES ASSUME NEW i \in 2..(n + 1)
               PROVE  Place(stack, i) \notin skipped
    BY <1>2, <1>5
  <2>1. CASE i = n + 1
    BY <1>1, <2>1, HereOpen DEF n
  <2> QED
    BY <1>1, <1>2, <2>1
<1>9. \A missing : Agrees(missing, skipped, after) => Agrees(missing, skipped, stack)
  BY <1>7 DEF Agrees
<1>10. ASSUME NEW i \in 1..(n + 1)
       PROVE  Advances(l, snapshots, after, skipped, i)
  <2>1. CASE i = n + 1
    <3>1. Start(after, i) = ScopeOf(e)
      BY <1>2, <1>3, <2>1 DEF Start
    <3>2. after[i] = e
      BY <1>2, <2>1
    <3> QED
      BY <3>1, <3>2 DEF Advances
  <2>2. CASE i # n + 1
    <3>1. /\ i \in 1..n /\ after[i] = stack[i] /\ Place(after, i) = Place(stack, i)
          /\ i # 1 => after[i - 1] = stack[i - 1]
      BY <1>2, <1>5, <2>2
    <3>2. Start(after, i) = Start(stack, i)
      BY <3>1 DEF Start
    <3>3. Advances(l, snapshots, stack, skipped, i)
      BY <3>1 DEF Expanding, n
    <3> QED
      BY <1>9, <3>1, <3>2, <3>3 DEF Advances
  <2> QED
    BY <2>1, <2>2
<1>11. Reached(ScopeOf(e)) /\ \A i \in 1..n : Reached(ScopeOf(stack[i]))
  <2>1. \A i \in 1..n : Reached(ScopeOf(stack[i]))
    BY DEF Expanding, n
  <2>2. Reached(Nothing)
    BY DEF Reached, Rich
  <2> QED
    BY <1>2, <1>3, <2>1, <2>2
<1>12. \A i \in 1..Len(after) : Reached(ScopeOf(after[i]))
  BY <1>2, <1>11
<1>13. Expanding(l, snapshots, after, skipped)
  BY <1>1, <1>2, <1>4, <1>6, <1>7, <1>8, <1>10, <1>12 DEF Expanding
<1> QED
  BY <1>13 DEF after

LEMMA PlacePlain ==
    ASSUME NEW stack, Line(stack), \A i \in 1..Len(stack) : Entry(stack[i]),
           NEW k \in 1..Len(stack)
    PROVE  Place(stack, k) \in Seq(Nat)
<1>1. ASSUME NEW i \in 1..(k - 1)
      PROVE  stack[i].next \in Nat
  <2>1. Len(stack) \in Nat
    BY LineBasics
  <2>2. Entry(stack[i])
    BY <2>1
  <2>3. /\ stack[i].document \in Documents
        /\ stack[i].next \in 1..(Len(Declarations[stack[i].document]) + 1)
    BY <2>2 DEF Entry
  <2>4. Len(Declarations[stack[i].document]) \in Nat
    BY <2>3, TextsAssumption DEF Texts
  <2> QED
    BY <2>3, <2>4
<1>2. k - 1 \in Nat
  BY LineBasics
<1> QED
  BY <1>1, <1>2 DEF Place

\* Where the closed sets speak of the top of a stack.
LEMMA TopSpoken ==
    ASSUME NEW l, NEW snapshots, NEW stack, NEW skipped,
           Expanding(l, snapshots, stack, skipped), NEW i \in 1..Len(stack),
           NEW missing, NEW scopes, NEW derived,
           Closed(l, snapshots, missing, scopes, derived)
    PROVE  Place(stack, i) \in Seq(Nat) /\ ScopeOf(stack[i]) \in scopes
<1>1. Place(stack, i) \in Seq(Nat)
  BY PlacePlain DEF Expanding
<1>2. ScopeOf(stack[i]) \in scopes
  BY DEF Expanding, Closed, Reached
<1> QED
  BY <1>1, <1>2

\* A document that is at its end derives what it has made.
LEMMA EndDerives ==
    ASSUME NEW l, NEW snapshots, NEW stack, NEW skipped, NEW missing, NEW scopes, NEW derived,
           Expanding(l, snapshots, stack, skipped), Agrees(missing, skipped, stack),
           Closed(l, snapshots, missing, scopes, derived),
           stack # <<>>, NEW n, n = Len(stack),
           stack[n].next > Len(Declarations[stack[n].document])
    PROVE  /\ n \in Nat \ {0}
           /\ <<stack[n].document, 1, Place(stack, n), Start(stack, n),
                ScopeOf(stack[n])>> \in derived
<1>1. n \in Nat \ {0} /\ n \in 1..Len(stack)
  BY LineBasics DEF Expanding
<1>2. stack[n].document \in Documents /\ Entry(stack[n])
  BY <1>1 DEF Expanding, Entry
<1>3. Len(Declarations[stack[n].document]) \in Nat
  BY <1>2, TextsAssumption DEF Texts
<1>4. /\ stack[n].next = Len(Declarations[stack[n].document]) + 1
      /\ stack[n].next \in Nat \ {0}
  BY <1>2, <1>3 DEF Entry
<1>5. Follows(l, snapshots, missing, derived, stack[n].document, stack[n].next,
              Place(stack, n), ScopeOf(stack[n]), ScopeOf(stack[n]))
  BY <1>4 DEF Follows
<1>6. <<stack[n].document, stack[n].next, Place(stack, n),
        ScopeOf(stack[n]), ScopeOf(stack[n])>> \in derived
  <2>1. Place(stack, n) \in Seq(Nat) /\ ScopeOf(stack[n]) \in scopes
    BY <1>1, TopSpoken
  <2> QED
    BY <1>2, <1>4, <1>5, <2>1 DEF Closed
<1>7. Advances(l, snapshots, stack, skipped, n) /\ ScopeOf(stack[n]) \in scopes
  BY <1>1, TopSpoken DEF Expanding
<1> QED
  BY <1>1, <1>6, <1>7 DEF Advances

\* Scopes that documents make.
LEMMA ReachedMore ==
    ASSUME NEW document \in Documents, NEW next \in 1..Len(Declarations[document]),
           NEW scope, Reached(scope)
    PROVE  /\ Declarations[document][next].kind = "define" =>
                Reached(Defined(document, next, scope))
           /\ Declarations[document][next].kind = "import" =>
                \A inner : Reached(inner) =>
                    Reached(Imported(scope, inner, Declarations[document][next].alias))
BY DEF Reached, Rich

\* A load leaves a document for the one that named it.
LEMMA ReturnExpands ==
    ASSUME NEW l, NEW snapshots, NEW stack, NEW skipped, NEW after, NEW n,
           Expanding(l, snapshots, stack, skipped),
           Line(after), n = Len(after), Len(stack) = n + 1, n # 0,
           \A i \in 1..(n - 1) : after[i] = stack[i],
           stack[n + 1].next > Len(Declarations[stack[n + 1].document]),
           Entry(after[n]), after[n].document = stack[n].document,
           after[n].alias = stack[n].alias, after[n].next = stack[n].next + 1,
           LET declaration == Declarations[stack[n].document][stack[n].next]
           IN declaration.kind = "import" => declaration.alias # <<>>,
           ScopeOf(after[n]) =
             IF stack[n + 1].alias # <<>>
             THEN Imported(ScopeOf(stack[n]), ScopeOf(stack[n + 1]), stack[n + 1].alias)
             ELSE ScopeOf(stack[n + 1])
    PROVE  Expanding(l, snapshots, after, skipped)
<1> DEFINE declaration == Declarations[stack[n].document][stack[n].next]
           here == Place(stack, n + 1)
           child == stack[n + 1].document
<1>1. n \in Nat \ {0} /\ stack # <<>> /\ n \in 1..(Len(stack) - 1) /\ n \in 1..Len(stack)
  BY LineBasics DEF Expanding
<1>2. /\ Naming(stack[n]) /\ NamedPath(l, stack[n]) \in Paths
      /\ child = snapshots[IdentityOf[NamedPath(l, stack[n])]]
      /\ stack[n + 1].alias = IF declaration.kind = "import" THEN declaration.alias ELSE <<>>
      /\ Entry(stack[n]) /\ Entry(stack[n + 1]) /\ here \notin skipped
      /\ Line(stack) /\ \A i \in 1..Len(stack) : Entry(stack[i])
  BY <1>1 DEF Expanding, Links
<1>3. Append(Place(stack, n), stack[n].next) = here
  BY <1>1, <1>2, PlaceGrows
<1>4. /\ stack[n].document \in Documents /\ child \in Documents
      /\ stack[n].next \in Nat \ {0}
      /\ stack[n].next <= Len(Declarations[stack[n].document])
      /\ declaration.kind # "define"
  BY SMTT(30), <1>2, TextsAssumption DEF Entry, Naming, Texts
<1>5. Start(stack, n + 1) = IF declaration.kind = "import" THEN Nothing ELSE ScopeOf(stack[n])
  BY <1>1, <1>2 DEF Start
<1>6. ASSUME NEW missing, NEW scopes, NEW derived, Closed(l, snapshots, missing, scopes, derived),
             Agrees(missing, skipped, stack), here \notin missing, NEW to \in scopes,
             <<stack[n].document, stack[n].next + 1, Place(stack, n),
               ScopeOf(after[n]), to>> \in derived
      PROVE  <<stack[n].document, stack[n].next, Place(stack, n),
               ScopeOf(stack[n]), to>> \in derived
  <2> DEFINE inner == ScopeOf(stack[n + 1])
  <2>1. <<child, 1, here, Start(stack, n + 1), inner>> \in derived
    BY <1>1, <1>6, EndDerives
  <2>2. Target(l, declaration, ScopeOf(stack[n]).output) = NamedPath(l, stack[n])
    BY SMTT(30) DEF NamedPath, ScopeOf
  <2>3. Follows(l, snapshots, missing, derived, stack[n].document, stack[n].next,
                Place(stack, n), ScopeOf(stack[n]), to)
    <3> HIDE DEF inner, here, child, declaration
    <3>1. IF declaration.kind = "import"
          THEN /\ <<child, 1, here, Nothing, inner>> \in derived
               /\ <<stack[n].document, stack[n].next + 1, Place(stack, n),
                    Imported(ScopeOf(stack[n]), inner, declaration.alias), to>> \in derived
          ELSE /\ <<child, 1, here, ScopeOf(stack[n]), inner>> \in derived
               /\ <<stack[n].document, stack[n].next + 1, Place(stack, n), inner, to>> \in derived
      BY <1>2, <1>5, <1>6, <2>1 DEF inner, declaration
    <3> QED
      BY ZenonT(60), <1>2, <1>3, <1>4, <1>6, <2>2, <3>1 DEF Follows, declaration
  <2>4. Place(stack, n) \in Seq(Nat) /\ ScopeOf(stack[n]) \in scopes
    BY <1>1, <1>6, TopSpoken
  <2> HIDE DEF inner, here, child, declaration
  <2> QED
    BY <1>4, <1>6, <2>3, <2>4 DEF Closed
<1>7. Reached(ScopeOf(after[n]))
  <2>1. Reached(ScopeOf(stack[n])) /\ Reached(ScopeOf(stack[n + 1]))
    BY SMTT(30), <1>1 DEF Expanding
  <2>2. CASE stack[n + 1].alias # <<>>
    <3>1. declaration.kind = "import" /\ stack[n + 1].alias = declaration.alias
      BY <1>2, <2>2
    <3>2. stack[n].next \in 1..Len(Declarations[stack[n].document])
      BY <1>4, TextsAssumption DEF Texts
    <3>3. Reached(Imported(ScopeOf(stack[n]), ScopeOf(stack[n + 1]), declaration.alias))
      BY <1>4, <2>1, <3>1, <3>2, ReachedMore
    <3> QED
      BY <2>2, <3>1, <3>3
  <2> QED
    BY <2>1, <2>2
<1>8. Expanding(l, snapshots, after, skipped \cup {})
  <2> HIDE DEF declaration, child
  <2> QED
    BY <1>1, <1>6, <1>7, OnwardExpands
<1> QED
  BY <1>8

\* Snapshots that are kept later take nothing back.
Later(snapshots, after) ==
    \A i \in Identities : snapshots[i] \in Documents => after[i] = snapshots[i]

LEMMA LaterClosed ==
    ASSUME NEW l, NEW snapshots, NEW after, Later(snapshots, after),
           NEW missing, NEW scopes, NEW derived, Closed(l, after, missing, scopes, derived)
    PROVE  Closed(l, snapshots, missing, scopes, derived)
<1> SUFFICES ASSUME NEW document \in Documents, NEW next \in Nat \ {0},
                    NEW place \in Seq(Nat), NEW from \in scopes, NEW to \in scopes,
                    Follows(l, snapshots, missing, derived, document, next, place, from, to)
             PROVE  <<document, next, place, from, to>> \in derived
  BY DEF Closed
<1>1. \A path \in Paths : snapshots[IdentityOf[path]] \in Documents =>
        after[IdentityOf[path]] = snapshots[IdentityOf[path]]
  BY Basics DEF Later
<1>2. Follows(l, after, missing, derived, document, next, place, from, to)
  BY <1>1 DEF Follows
<1> QED
  BY <1>2 DEF Closed

LEMMA LaterExpands ==
    ASSUME NEW l \in Loads, NEW snapshots, NEW after, Later(snapshots, after),
           NEW stack, NEW skipped, Expanding(l, snapshots, stack, skipped)
    PROVE  Expanding(l, after, stack, skipped)
<1>1. Links(l, after, stack)
  <2>1. /\ Len(stack) \in Nat /\ (stack = <<>> <=> Len(stack) = 0)
        /\ \A i \in 1..Len(stack) : stack[i].document \in Documents
        /\ Links(l, snapshots, stack)
    BY LineBasics DEF Expanding, Entry
  <2>2. \A path \in Paths : snapshots[IdentityOf[path]] \in Documents =>
          after[IdentityOf[path]] = snapshots[IdentityOf[path]]
    BY Basics DEF Later
  <2>3. Root[l] \in Paths
    BY LoadsAssumption
  <2>4. stack # <<>> => stack[1].document = after[IdentityOf[Root[l]]]
    BY <2>1, <2>2, <2>3 DEF Links
  <2>5. ASSUME NEW i \in 1..(Len(stack) - 1)
        PROVE  stack[i + 1].document = after[IdentityOf[NamedPath(l, stack[i])]]
    <3>1. i + 1 \in 1..Len(stack)
      BY <2>1
    <3> QED
      BY <2>1, <2>2, <3>1 DEF Links
  <2> QED
    BY <2>1, <2>4, <2>5 DEF Links
<1>2. \A i \in 1..Len(stack) : Advances(l, after, stack, skipped, i)
  BY LaterClosed DEF Expanding, Advances
<1> QED
  BY <1>1, <1>2 DEF Expanding

LEMMA LaterExpansion ==
    ASSUME NEW l \in Loads, NEW snapshots, NEW after, Later(snapshots, after),
           snapshots[IdentityOf[Root[l]]] \in Documents,
           NEW missing, NEW output, Expansion(l, snapshots, missing, output)
    PROVE  Expansion(l, after, missing, output)
<1>1. after[IdentityOf[Root[l]]] = snapshots[IdentityOf[Root[l]]]
  BY LoadsAssumption, Basics DEF Later
<1> QED
  BY <1>1, LaterClosed DEF Expansion

-----------------------------------------------------------------------------
\* The record of a call has the fields it begins with.
Whole(load) ==
    load = [state |-> load.state, owner |-> load.owner, stack |-> load.stack,
            result |-> load.result, skipped |-> load.skipped, error |-> load.error]

\* What the call needs is at this path.
Needs(l, load, path) ==
    IF load.stack = <<>> THEN path = Root[l]
    ELSE Naming(Last(load.stack)) /\ path = NamedPath(l, Last(load.stack))

\* A call that goes on is an expansion under way, one that is done has the whole.
Underway(l, load, snapshots, table) ==
    /\ Whole(load)
    /\ load.state \in {"idle", "waiting", "running"} =>
         Expanding(l, snapshots, load.stack, load.skipped)
    /\ load.state = "idle" => load.stack = <<>>
    /\ load.state = "running" => load.stack # <<>>
    /\ load.state = "waiting" => Needs(l, load, table[load.owner].path)
    /\ load.state = "done" =>
         /\ snapshots[IdentityOf[Root[l]]] \in Documents
         /\ Expansion(l, snapshots, load.skipped, load.result)

AllUnderway == \A l \in Loads : Underway(l, loads[l], identities, owners)

Call(state, owner, stack, result, skipped, error) ==
    [state |-> state, owner |-> owner, stack |-> stack,
     result |-> result, skipped |-> skipped, error |-> error]

LEMMA WholeCall ==
    ASSUME NEW load, Whole(load)
    PROVE  load = Call(load.state, load.owner, load.stack,
                       load.result, load.skipped, load.error)
BY DEF Whole, Call

LEMMA CallFields ==
    ASSUME NEW a, NEW b, NEW c, NEW d, NEW e, NEW f, NEW load,
           load = Call(a, b, c, d, e, f)
    PROVE  /\ load.state = a /\ load.owner = b /\ load.stack = c
           /\ load.result = d /\ load.skipped = e /\ load.error = f
           /\ Whole(load)
<1>1. /\ load.state = a /\ load.owner = b /\ load.stack = c
      /\ load.result = d /\ load.skipped = e /\ load.error = f
  BY DEF Call
<1> QED
  BY <1>1 DEF Whole, Call

LEMMA CallExcept ==
    ASSUME NEW a, NEW b, NEW c, NEW d, NEW e, NEW f, NEW x
    PROVE  /\ [Call(a, b, c, d, e, f) EXCEPT !.state = x] = Call(x, b, c, d, e, f)
           /\ [Call(a, b, c, d, e, f) EXCEPT !.owner = x] = Call(a, x, c, d, e, f)
           /\ [Call(a, b, c, d, e, f) EXCEPT !.stack = x] = Call(a, b, x, d, e, f)
           /\ [Call(a, b, c, d, e, f) EXCEPT !.result = x] = Call(a, b, c, x, e, f)
           /\ [Call(a, b, c, d, e, f) EXCEPT !.skipped = x] = Call(a, b, c, d, x, f)
BY DEF Call

LEMMA WholeMoves ==
    ASSUME NEW load, Whole(load), NEW state, NEW owner, NEW stack
    PROVE  [load EXCEPT !.state = state, !.owner = owner, !.stack = stack] =
             Call(state, owner, stack, load.result, load.skipped, load.error)
<1> DEFINE a == load.state
           b == load.owner
           c == load.stack
           d == load.result
           e == load.skipped
           f == load.error
           one == [load EXCEPT !.state = state]
           two == [one EXCEPT !.owner = owner]
           three == [two EXCEPT !.stack = stack]
<1>1. load = Call(a, b, c, d, e, f)
  BY WholeCall
<1>2. [load EXCEPT !.state = state, !.owner = owner, !.stack = stack] = three
  OBVIOUS
<1> HIDE DEF a, b, c, d, e, f
<1>3. one = Call(state, b, c, d, e, f)
  BY <1>1 DEF Call
<1> HIDE DEF one
<1>4. two = Call(state, owner, c, d, e, f)
  BY <1>3 DEF Call
<1> HIDE DEF two
<1>5. three = Call(state, owner, stack, d, e, f)
  BY <1>4 DEF Call
<1> HIDE DEF three
<1> QED
  BY <1>2, <1>5 DEF d, e, f

LEMMA Ends ==
    ASSUME NEW l, NEW snapshots, NEW table, NEW load, NEW why
    PROVE  /\ Underway(l, Failed(load, why), snapshots, table)
           /\ Underway(l, Cancelled, snapshots, table)
           /\ Failed(load, why).state = "failed" /\ Cancelled.state = "cancelled"
<1>1. /\ Failed(load, why) =
           [state |-> "failed", owner |-> NoOwner, stack |-> <<>>, result |-> <<>>,
            skipped |-> load.skipped, error |-> why]
      /\ Cancelled =
           [state |-> "cancelled", owner |-> NoOwner, stack |-> <<>>, result |-> <<>>,
            skipped |-> {}, error |-> "none"]
  <2> DEFINE empty == <<>>
  <2>1. Fresh = [state |-> "idle", owner |-> NoOwner, stack |-> empty, result |-> empty,
                 skipped |-> {}, error |-> "none"]
    BY DEF Fresh
  <2> HIDE DEF empty
  <2>2. Failed(load, why) =
           [state |-> "failed", owner |-> NoOwner, stack |-> empty, result |-> empty,
            skipped |-> load.skipped, error |-> why]
    <3> DEFINE skipped == load.skipped
    <3>1. Failed(load, why) =
            [Fresh EXCEPT !.state = "failed", !.error = why, !.skipped = skipped]
      BY DEF Failed
    <3> HIDE DEF skipped
    <3> QED
      BY <2>1, <3>1 DEF skipped
  <2>3. Cancelled =
           [state |-> "cancelled", owner |-> NoOwner, stack |-> empty, result |-> empty,
            skipped |-> {}, error |-> "none"]
    BY <2>1 DEF Cancelled
  <2> QED
    BY <2>2, <2>3 DEF empty
<1>2. Whole(Failed(load, why)) /\ Whole(Cancelled)
  BY <1>1 DEF Whole
<1>3. Failed(load, why).state = "failed" /\ Cancelled.state = "cancelled"
  BY <1>1
<1> QED
  BY <1>2, <1>3 DEF Underway

\* The declaration at the top of a stack.
LEMMA TopBasics ==
    ASSUME NEW l, NEW snapshots, NEW stack, NEW skipped,
           Expanding(l, snapshots, stack, skipped), stack # <<>>
    PROVE  /\ Line(stack) /\ Len(stack) \in Nat \ {0} /\ Len(stack) \in 1..Len(stack)
           /\ DOMAIN stack = 1..Len(stack)
           /\ Last(stack) = stack[Len(stack)] /\ Entry(Last(stack))
           /\ Last(stack).document \in Documents
           /\ Last(stack).next \in Nat \ {0}
           /\ Len(Declarations[Last(stack).document]) \in Nat
<1>1. Line(stack) /\ Len(stack) \in Nat \ {0} /\ DOMAIN stack = 1..Len(stack)
  BY LineBasics DEF Expanding
<1>2. Last(stack) = stack[Len(stack)] /\ Entry(Last(stack))
  BY <1>1 DEF Last, Expanding
<1>3. /\ Last(stack).document \in Documents
      /\ Last(stack).next \in 1..(Len(Declarations[Last(stack).document]) + 1)
  BY <1>2 DEF Entry
<1>4. Len(Declarations[Last(stack).document]) \in Nat
  BY <1>3, TextsAssumption DEF Texts
<1> QED
  BY <1>1, <1>2, <1>3, <1>4

\* An open document, field by field.
Open(identity, document, next, alias, output, spaces) ==
    [identity |-> identity, document |-> document, next |-> next,
     alias |-> alias, output |-> output, spaces |-> spaces]

LEMMA OpenFields ==
    ASSUME NEW a, NEW b, NEW c, NEW d, NEW e, NEW f, NEW open,
           open = Open(a, b, c, d, e, f)
    PROVE  /\ open.identity = a /\ open.document = b /\ open.next = c
           /\ open.alias = d /\ open.output = e /\ open.spaces = f
           /\ ScopeOf(open) = [output |-> e, spaces |-> f]
           /\ open = Open(open.identity, open.document, open.next,
                          open.alias, open.output, open.spaces)
           /\ b \in Documents /\ c \in 1..(Len(Declarations[b]) + 1) => Entry(open)
<1>1. /\ open.identity = a /\ open.document = b /\ open.next = c
      /\ open.alias = d /\ open.output = e /\ open.spaces = f
  BY DEF Open
<1>2. open = [identity |-> open.identity, document |-> open.document, next |-> open.next,
              alias |-> open.alias, output |-> open.output, spaces |-> open.spaces]
  BY <1>1 DEF Open
<1> QED
  BY <1>1, <1>2 DEF Entry, ScopeOf

\* One field of an open document is changed.
WithNext(stack, n, x) == [stack EXCEPT ![n].next = x]
WithOutput(stack, n, x) == [stack EXCEPT ![n].output = x]
WithSpaces(stack, n, x) == [stack EXCEPT ![n].spaces = x]

Opened(e) == e = Open(e.identity, e.document, e.next, e.alias, e.output, e.spaces)

LEMMA NextSet ==
    ASSUME NEW stack, Line(stack), NEW n \in 1..Len(stack), NEW x, Opened(stack[n])
    PROVE  /\ Line(WithNext(stack, n, x)) /\ Len(WithNext(stack, n, x)) = Len(stack)
           /\ \A i \in 1..Len(stack) : i # n => WithNext(stack, n, x)[i] = stack[i]
           /\ WithNext(stack, n, x)[n] =
                Open(stack[n].identity, stack[n].document, x,
                     stack[n].alias, stack[n].output, stack[n].spaces)
<1> DEFINE new == [stack[n] EXCEPT !.next = x]
           a == stack[n].identity
           b == stack[n].document
           c == stack[n].next
           d == stack[n].alias
           e == stack[n].output
           f == stack[n].spaces
<1>1. WithNext(stack, n, x) = [stack EXCEPT ![n] = new]
  BY DEF WithNext
<1>2. stack[n] = Open(a, b, c, d, e, f)
  BY DEF Opened
<1> HIDE DEF a, b, c, d, e, f
<1>3. new = Open(a, b, x, d, e, f)
  BY <1>2 DEF Open
<1> HIDE DEF new
<1>4. Line([stack EXCEPT ![n] = new])
  BY LineExcept
<1>5. Len([stack EXCEPT ![n] = new]) = Len(stack)
  BY LineExcept
<1>6. \A i \in 1..Len(stack) : [stack EXCEPT ![n] = new][i] = IF i = n THEN new ELSE stack[i]
  BY LineExcept
<1> QED
  BY <1>1, <1>3, <1>4, <1>5, <1>6 DEF a, b, c, d, e, f

LEMMA OutputSet ==
    ASSUME NEW stack, Line(stack), NEW n \in 1..Len(stack), NEW x, Opened(stack[n])
    PROVE  /\ Line(WithOutput(stack, n, x)) /\ Len(WithOutput(stack, n, x)) = Len(stack)
           /\ \A i \in 1..Len(stack) : i # n => WithOutput(stack, n, x)[i] = stack[i]
           /\ WithOutput(stack, n, x)[n] =
                Open(stack[n].identity, stack[n].document, stack[n].next,
                     stack[n].alias, x, stack[n].spaces)
<1> DEFINE new == [stack[n] EXCEPT !.output = x]
           a == stack[n].identity
           b == stack[n].document
           c == stack[n].next
           d == stack[n].alias
           e == stack[n].output
           f == stack[n].spaces
<1>1. WithOutput(stack, n, x) = [stack EXCEPT ![n] = new]
  BY DEF WithOutput
<1>2. stack[n] = Open(a, b, c, d, e, f)
  BY DEF Opened
<1> HIDE DEF a, b, c, d, e, f
<1>3. new = Open(a, b, c, d, x, f)
  BY <1>2 DEF Open
<1> HIDE DEF new
<1>4. Line([stack EXCEPT ![n] = new])
  BY LineExcept
<1>5. Len([stack EXCEPT ![n] = new]) = Len(stack)
  BY LineExcept
<1>6. \A i \in 1..Len(stack) : [stack EXCEPT ![n] = new][i] = IF i = n THEN new ELSE stack[i]
  BY LineExcept
<1> QED
  BY <1>1, <1>3, <1>4, <1>5, <1>6 DEF a, b, c, d, e, f

LEMMA SpacesSet ==
    ASSUME NEW stack, Line(stack), NEW n \in 1..Len(stack), NEW x, Opened(stack[n])
    PROVE  /\ Line(WithSpaces(stack, n, x)) /\ Len(WithSpaces(stack, n, x)) = Len(stack)
           /\ \A i \in 1..Len(stack) : i # n => WithSpaces(stack, n, x)[i] = stack[i]
           /\ WithSpaces(stack, n, x)[n] =
                Open(stack[n].identity, stack[n].document, stack[n].next,
                     stack[n].alias, stack[n].output, x)
<1> DEFINE new == [stack[n] EXCEPT !.spaces = x]
           a == stack[n].identity
           b == stack[n].document
           c == stack[n].next
           d == stack[n].alias
           e == stack[n].output
           f == stack[n].spaces
<1>1. WithSpaces(stack, n, x) = [stack EXCEPT ![n] = new]
  BY DEF WithSpaces
<1>2. stack[n] = Open(a, b, c, d, e, f)
  BY DEF Opened
<1> HIDE DEF a, b, c, d, e, f
<1>3. new = Open(a, b, c, d, e, x)
  BY <1>2 DEF Open
<1> HIDE DEF new
<1>4. Line([stack EXCEPT ![n] = new])
  BY LineExcept
<1>5. Len([stack EXCEPT ![n] = new]) = Len(stack)
  BY LineExcept
<1>6. \A i \in 1..Len(stack) : [stack EXCEPT ![n] = new][i] = IF i = n THEN new ELSE stack[i]
  BY LineExcept
<1> QED
  BY <1>1, <1>3, <1>4, <1>5, <1>6 DEF a, b, c, d, e, f

\* A load opens the document its declaration names, or the root.
LEMMA EnteredUnderway ==
    ASSUME NEW l, NEW snapshots, NEW table, NEW load, Whole(load),
           Expanding(l, snapshots, load.stack, load.skipped),
           NEW document \in Documents, NEW identity, NEW alias, NEW output, NEW spaces,
           Expanding(l, snapshots,
             Append(load.stack, [identity |-> identity, document |-> document, next |-> 1,
                                 alias |-> alias, output |-> output, spaces |-> spaces]),
             load.skipped)
    PROVE  Underway(l, Entered(load, document, identity, alias, output, spaces),
                    snapshots, table)
<1> DEFINE e == [identity |-> identity, document |-> document, next |-> 1,
                 alias |-> alias, output |-> output, spaces |-> spaces]
           stack == Append(load.stack, e)
           entered == [load EXCEPT !.state = "running", !.owner = NoOwner, !.stack = stack]
<1>1. entered = Call("running", NoOwner, stack, load.result, load.skipped, load.error)
  BY WholeMoves
<1>2. stack # <<>>
  <2>1. Len(load.stack) \in Nat /\ Len(stack) = Len(load.stack) + 1 /\ Line(stack)
    BY LineBasics, LineAppend DEF Expanding
  <2> HIDE DEF stack
  <2> QED
    BY <2>1, LineBasics
<1>3. Underway(l, entered, snapshots, table)
  <2> HIDE DEF stack, entered
  <2>1. Whole(entered)
    BY <1>1, CallFields
  <2>2. /\ entered.state = "running" /\ entered.stack = stack
        /\ entered.skipped = load.skipped
    BY <1>1, CallFields
  <2>3. Expanding(l, snapshots, stack, load.skipped)
    BY DEF stack, e
  <2> QED
    BY <1>2, <2>1, <2>2, <2>3 DEF Underway
<1>4. /\ Underway(l, Failed(load, "depth"), snapshots, table)
      /\ Underway(l, Failed(load, "cycle"), snapshots, table)
  BY Ends
<1>5. \/ Entered(load, document, identity, alias, output, spaces) = entered
      \/ \E why \in {"depth", "cycle"} :
           Entered(load, document, identity, alias, output, spaces) = Failed(load, why)
  BY DEF Entered
<1> QED
  BY <1>3, <1>4, <1>5

LEMMA LoadedUnderway ==
    ASSUME NEW l, NEW snapshots, NEW table, NEW load, Whole(load),
           Expanding(l, snapshots, load.stack, load.skipped),
           NEW path \in Paths, Needs(l, load, path),
           NEW document \in Documents, document = snapshots[IdentityOf[path]]
    PROVE  Underway(l, Loaded(load, document, IdentityOf[path]), snapshots, table)
<1> DEFINE fresh(alias, output, spaces) ==
             [identity |-> IdentityOf[path], document |-> document, next |-> 1,
              alias |-> alias, output |-> output, spaces |-> spaces]
<1>1. \A alias, output, spaces :
        /\ Entry(fresh(alias, output, spaces))
        /\ fresh(alias, output, spaces).next = 1
        /\ fresh(alias, output, spaces).document = document
        /\ fresh(alias, output, spaces).alias = alias
        /\ ScopeOf(fresh(alias, output, spaces)) = [output |-> output, spaces |-> spaces]
  <2>1. Len(Declarations[document]) \in Nat
    BY TextsAssumption DEF Texts
  <2> QED
    BY <2>1 DEF Entry, ScopeOf
<1> HIDE DEF fresh
<1>2. CASE load.stack = <<>>
  <2>1. Expanding(l, snapshots, Append(load.stack, fresh(<<>>, <<>>, {})), load.skipped)
    <3> DEFINE new == fresh(<<>>, <<>>, {})
    <3>1. /\ Entry(new) /\ new.next = 1 /\ ScopeOf(new) = Nothing
          /\ new.document = snapshots[IdentityOf[Root[l]]]
      BY <1>1, <1>2 DEF Nothing, Needs
    <3>2. ScopeOf(new) = IF load.stack = <<>> \/ new.alias # <<>> THEN Nothing
                         ELSE ScopeOf(Last(load.stack))
      <4> HIDE DEF new
      <4> QED
        BY <1>2, <3>1
    <3>3. load.stack # <<>> =>
            /\ Naming(Last(load.stack)) /\ NamedPath(l, Last(load.stack)) \in Paths
            /\ new.document = snapshots[IdentityOf[NamedPath(l, Last(load.stack))]]
            /\ new.alias = LET declaration == Declarations[Last(load.stack).document]
                                                         [Last(load.stack).next]
                           IN IF declaration.kind = "import" THEN declaration.alias ELSE <<>>
      BY <1>2
    <3> DEFINE stack == load.stack
    <3>4. Expanding(l, snapshots, stack, load.skipped)
      OBVIOUS
    <3>5. stack = <<>>
      BY <1>2
    <3> HIDE DEF new, stack
    <3>6. Expanding(l, snapshots, Append(stack, new), load.skipped)
      BY <3>1, <3>4, <3>5, EntersExpands
    <3> QED
      BY <3>6 DEF new, stack
  <2>2. Loaded(load, document, IdentityOf[path]) =
          Entered(load, document, IdentityOf[path], <<>>, <<>>, {})
    BY <1>2 DEF Loaded
  <2> QED
    BY <2>1, <2>2, EnteredUnderway DEF fresh
<1>3. CASE load.stack # <<>>
  <2> DEFINE top == Last(load.stack)
             declaration == Declarations[top.document][top.next]
  <2>1. Naming(top) /\ path = NamedPath(l, top)
    BY <1>3 DEF Needs
  <2>2. Current(load) = declaration /\ Top(load) = top
    BY DEF Current, Top
  <2> HIDE DEF top
  <2>3. CASE declaration.kind = "import" /\ declaration.alias # <<>>
    <3>1. Expanding(l, snapshots, Append(load.stack, fresh(declaration.alias, <<>>, {})),
                    load.skipped)
      BY <1>1, <1>3, <2>1, <2>3, EntersExpands DEF Nothing, top
    <3>2. Loaded(load, document, IdentityOf[path]) =
            Entered(load, document, IdentityOf[path], declaration.alias, <<>>, {})
      BY <1>3, <2>2, <2>3 DEF Loaded
    <3> QED
      BY <3>1, <3>2, EnteredUnderway DEF fresh
  <2>4. CASE declaration.kind # "import"
    <3>1. ScopeOf(top) = [output |-> top.output, spaces |-> top.spaces]
      BY DEF ScopeOf
    <3>2. Expanding(l, snapshots, Append(load.stack, fresh(<<>>, top.output, top.spaces)),
                    load.skipped)
      BY <1>1, <1>3, <2>1, <2>4, <3>1, EntersExpands DEF top
    <3>3. Loaded(load, document, IdentityOf[path]) =
            Entered(load, document, IdentityOf[path], <<>>, top.output, top.spaces)
      BY <1>3, <2>2, <2>4 DEF Loaded
    <3> QED
      BY <3>2, <3>3, EnteredUnderway DEF fresh
  <2>5. declaration.kind = "import" => declaration.alias # <<>>
    <3>1. /\ top.document \in Documents /\ top.next \in Nat \ {0}
          /\ Len(Declarations[top.document]) \in Nat
      BY <1>3, TopBasics DEF top
    <3>2. top.next \in 1..Len(Declarations[top.document])
      BY <2>1, <3>1 DEF Naming
    <3> QED
      BY <3>1, <3>2, NamesAssumption DEF Named
  <2> QED
    BY <2>3, <2>4, <2>5
<1> QED
  BY <1>2, <1>3

-----------------------------------------------------------------------------
\* The top of a stack, moved on with the scope it has.
MovedOn(stack, n) == WithNext(stack, n, stack[n].next + 1)

LEMMA MovedTop ==
    ASSUME NEW stack, Line(stack), NEW n \in 1..Len(stack), Entry(stack[n])
    PROVE  /\ Line(MovedOn(stack, n)) /\ Len(MovedOn(stack, n)) = Len(stack)
           /\ \A i \in 1..Len(stack) : i # n => MovedOn(stack, n)[i] = stack[i]
           /\ MovedOn(stack, n)[n] =
                Open(stack[n].identity, stack[n].document, stack[n].next + 1,
                     stack[n].alias, stack[n].output, stack[n].spaces)
<1>1. Opened(stack[n])
  BY DEF Entry, Open, Opened
<1> QED
  BY <1>1, NextSet DEF MovedOn

LEMMA MovedOutput ==
    ASSUME NEW stack, Line(stack), NEW n \in 1..Len(stack), Entry(stack[n]), NEW x
    PROVE  /\ Line(WithOutput(MovedOn(stack, n), n, x))
           /\ Len(WithOutput(MovedOn(stack, n), n, x)) = Len(stack)
           /\ \A i \in 1..Len(stack) :
                i # n => WithOutput(MovedOn(stack, n), n, x)[i] = stack[i]
           /\ WithOutput(MovedOn(stack, n), n, x)[n] =
                Open(stack[n].identity, stack[n].document, stack[n].next + 1,
                     stack[n].alias, x, stack[n].spaces)
<1> DEFINE one == MovedOn(stack, n)
<1>1. /\ Line(one) /\ Len(one) = Len(stack)
      /\ \A i \in 1..Len(stack) : i # n => one[i] = stack[i]
      /\ one[n] = Open(stack[n].identity, stack[n].document, stack[n].next + 1,
                      stack[n].alias, stack[n].output, stack[n].spaces)
  BY MovedTop
<1> HIDE DEF one
<1>2. /\ Opened(one[n]) /\ one[n].identity = stack[n].identity
      /\ one[n].document = stack[n].document /\ one[n].next = stack[n].next + 1
      /\ one[n].alias = stack[n].alias /\ one[n].spaces = stack[n].spaces
  BY <1>1, OpenFields DEF Opened
<1>3. n \in 1..Len(one)
  BY <1>1
<1>4. /\ Line(WithOutput(one, n, x)) /\ Len(WithOutput(one, n, x)) = Len(one)
      /\ \A i \in 1..Len(one) : i # n => WithOutput(one, n, x)[i] = one[i]
      /\ WithOutput(one, n, x)[n] = Open(one[n].identity, one[n].document, one[n].next,
                                        one[n].alias, x, one[n].spaces)
  BY <1>1, <1>2, <1>3, OutputSet
<1> QED
  BY <1>1, <1>2, <1>4 DEF one

LEMMA MovedScope ==
    ASSUME NEW stack, Line(stack), NEW n \in 1..Len(stack), Entry(stack[n]), NEW x, NEW y
    PROVE  LET after == WithSpaces(WithOutput(MovedOn(stack, n), n, x), n, y)
           IN /\ Line(after) /\ Len(after) = Len(stack)
              /\ \A i \in 1..Len(stack) : i # n => after[i] = stack[i]
              /\ after[n] = Open(stack[n].identity, stack[n].document, stack[n].next + 1,
                                stack[n].alias, x, y)
<1> DEFINE two == WithOutput(MovedOn(stack, n), n, x)
<1>1. /\ Line(two) /\ Len(two) = Len(stack)
      /\ \A i \in 1..Len(stack) : i # n => two[i] = stack[i]
      /\ two[n] = Open(stack[n].identity, stack[n].document, stack[n].next + 1,
                      stack[n].alias, x, stack[n].spaces)
  BY MovedOutput
<1> HIDE DEF two
<1>2. /\ Opened(two[n]) /\ two[n].identity = stack[n].identity
      /\ two[n].document = stack[n].document /\ two[n].next = stack[n].next + 1
      /\ two[n].alias = stack[n].alias /\ two[n].output = x
  BY <1>1, OpenFields DEF Opened
<1>3. n \in 1..Len(two)
  BY <1>1
<1>4. /\ Line(WithSpaces(two, n, y)) /\ Len(WithSpaces(two, n, y)) = Len(two)
      /\ \A i \in 1..Len(two) : i # n => WithSpaces(two, n, y)[i] = two[i]
      /\ WithSpaces(two, n, y)[n] = Open(two[n].identity, two[n].document, two[n].next,
                                        two[n].alias, two[n].output, y)
  BY <1>1, <1>2, <1>3, SpacesSet
<1> QED
  BY <1>1, <1>2, <1>4 DEF two

LEMMA AdvancedCall ==
    ASSUME NEW load, Whole(load)
    PROVE  Advanced(load) =
             Call(load.state, load.owner, MovedOn(load.stack, Len(load.stack)),
                  load.result, load.skipped, load.error)
<1> DEFINE a == load.state
           b == load.owner
           c == load.stack
           d == load.result
           e == load.skipped
           f == load.error
           moved == MovedOn(c, Len(c))
<1>1. load = Call(a, b, c, d, e, f)
  BY WholeCall
<1>2. Advanced(load) = [load EXCEPT !.stack = moved]
  BY DEF Advanced, MovedOn, WithNext
<1> HIDE DEF a, b, c, d, e, f, moved
<1>3. [load EXCEPT !.stack = moved] = Call(a, b, moved, d, e, f)
  BY <1>1 DEF Call
<1> QED
  BY <1>2, <1>3 DEF a, b, c, d, e, f, moved

\* The top of a stack that is not at its end, moved on.
LEMMA TopMoves ==
    ASSUME NEW l, NEW snapshots, NEW stack, NEW skipped,
           Expanding(l, snapshots, stack, skipped), stack # <<>>,
           NEW n, n = Len(stack),
           stack[n].next <= Len(Declarations[stack[n].document]),
           NEW output, NEW spaces
    PROVE  LET moved == Open(stack[n].identity, stack[n].document, stack[n].next + 1,
                             stack[n].alias, output, spaces)
           IN /\ n \in 1..Len(stack)
              /\ stack[n] = Open(stack[n].identity, stack[n].document, stack[n].next,
                                stack[n].alias, stack[n].output, stack[n].spaces)
              /\ Entry(moved) /\ moved.document = stack[n].document
              /\ moved.alias = stack[n].alias /\ moved.next = stack[n].next + 1
              /\ ScopeOf(moved) = [output |-> output, spaces |-> spaces]
<1>1. /\ n \in 1..Len(stack) /\ stack[n] = Last(stack) /\ Entry(stack[n])
      /\ stack[n].document \in Documents /\ stack[n].next \in Nat \ {0}
      /\ Len(Declarations[stack[n].document]) \in Nat
  BY TopBasics
<1>2. stack[n] = Open(stack[n].identity, stack[n].document, stack[n].next,
                      stack[n].alias, stack[n].output, stack[n].spaces)
  BY <1>1 DEF Entry, Open
<1>3. stack[n].next + 1 \in 1..(Len(Declarations[stack[n].document]) + 1)
  BY <1>1
<1> DEFINE moved == Open(stack[n].identity, stack[n].document, stack[n].next + 1,
                         stack[n].alias, output, spaces)
<1>4. /\ Entry(moved) /\ moved.document = stack[n].document
      /\ moved.alias = stack[n].alias /\ moved.next = stack[n].next + 1
      /\ ScopeOf(moved) = [output |-> output, spaces |-> spaces]
  <2> DEFINE new == moved
  <2>1. new = moved
    OBVIOUS
  <2> HIDE DEF new
  <2>2. /\ Entry(new) /\ new.document = stack[n].document
        /\ new.alias = stack[n].alias /\ new.next = stack[n].next + 1
        /\ ScopeOf(new) = [output |-> output, spaces |-> spaces]
    BY <1>1, <1>3, <2>1, OpenFields
  <2> QED
    BY <2>1, <2>2
<1> QED
  BY <1>1, <1>2, <1>4

\* A load passes an optional file that is absent.
LEMMA SkipExpands ==
    ASSUME NEW l, NEW snapshots, NEW stack, NEW skipped,
           Expanding(l, snapshots, stack, skipped), stack # <<>>,
           NEW n, n = Len(stack), Naming(stack[n]),
           Declarations[stack[n].document][stack[n].next].optional,
           NEW after, Line(after), Len(after) = n,
           \A i \in 1..Len(stack) : i # n => after[i] = stack[i],
           after[n] = Open(stack[n].identity, stack[n].document, stack[n].next + 1,
                           stack[n].alias, stack[n].output, stack[n].spaces)
    PROVE  Expanding(l, snapshots, after, skipped \cup {Placement(stack)}) /\ after # <<>>
<1> DEFINE declaration == Declarations[stack[n].document][stack[n].next]
           here == Place(stack, n + 1)
           moved == Open(stack[n].identity, stack[n].document, stack[n].next + 1,
                         stack[n].alias, stack[n].output, stack[n].spaces)
<1>1. stack[n].next <= Len(Declarations[stack[n].document]) /\ declaration.kind # "define"
  BY DEF Naming
<1>2. /\ n \in 1..Len(stack)
      /\ stack[n] = Open(stack[n].identity, stack[n].document, stack[n].next,
                        stack[n].alias, stack[n].output, stack[n].spaces)
      /\ Entry(moved) /\ moved.document = stack[n].document
      /\ moved.alias = stack[n].alias /\ moved.next = stack[n].next + 1
      /\ ScopeOf(moved) = ScopeOf(stack[n])
  BY <1>1, TopMoves DEF ScopeOf
<1>3. Line(stack) /\ \A i \in 1..Len(stack) : Entry(stack[i])
  BY DEF Expanding
<1>4. Line(after) /\ Len(after) = n /\ after[n] = moved
  OBVIOUS
<1>5. n \in Nat /\ \A i \in 1..(n - 1) : after[i] = stack[i]
  BY <1>2, <1>3, <1>4, LineBasics
<1>6. /\ Placement(stack) = here /\ Append(Place(stack, n), stack[n].next) = here
  BY <1>2, <1>3, PlaceGrows
<1>7. /\ stack[n].document \in Documents /\ stack[n].next \in Nat \ {0}
  <2>1. /\ Last(stack) = stack[n] /\ Last(stack).document \in Documents
        /\ Last(stack).next \in Nat \ {0}
    BY TopBasics
  <2> QED
    BY <2>1
<1>8. ASSUME NEW missing, NEW scopes, NEW derived, Closed(l, snapshots, missing, scopes, derived),
             here \in missing, NEW to \in scopes,
             <<stack[n].document, stack[n].next + 1, Place(stack, n),
               ScopeOf(after[n]), to>> \in derived
      PROVE  <<stack[n].document, stack[n].next, Place(stack, n),
               ScopeOf(stack[n]), to>> \in derived
  <2>1. Follows(l, snapshots, missing, derived, stack[n].document, stack[n].next,
                Place(stack, n), ScopeOf(stack[n]), to)
    <3> HIDE DEF here
    <3>1. <<stack[n].document, stack[n].next + 1, Place(stack, n),
            ScopeOf(stack[n]), to>> \in derived
      BY <1>2, <1>4, <1>8
    <3> QED
      BY <1>1, <1>6, <1>8, <3>1 DEF Follows, declaration
  <2>2. Place(stack, n) \in Seq(Nat) /\ ScopeOf(stack[n]) \in scopes
    BY <1>2, <1>8, TopSpoken
  <2> HIDE DEF here, moved, declaration
  <2> QED
    BY SMTT(30), <1>7, <1>8, <2>1, <2>2 DEF Closed
<1> HIDE DEF moved, here, declaration
<1>9. Expanding(l, snapshots, after, skipped \cup {here})
  <2> DEFINE more == {here}
  <2>1. /\ more \subseteq {Place(stack, n + 1)} /\ more # {}
    BY DEF here
  <2>2. \A missing, scopes, derived :
          /\ Closed(l, snapshots, missing, scopes, derived)
          /\ Agrees(missing, skipped, stack)
          /\ Place(stack, n + 1) \in missing <=> more # {}
          => \A to \in scopes :
               <<stack[n].document, stack[n].next + 1, Place(stack, n),
                 ScopeOf(after[n]), to>> \in derived
               => <<stack[n].document, stack[n].next, Place(stack, n),
                    ScopeOf(stack[n]), to>> \in derived
    BY <1>8, <2>1 DEF here
  <2>3. /\ Entry(after[n]) /\ after[n].document = stack[n].document
        /\ after[n].alias = stack[n].alias /\ after[n].next = stack[n].next + 1
    BY <1>2, <1>4
  <2>4. Line(after) /\ Len(after) = n /\ Reached(ScopeOf(after[n]))
    <3>1. Reached(ScopeOf(stack[n]))
      BY <1>2 DEF Expanding
    <3> QED
      BY <1>2, <1>4, <3>1
  <2> HIDE DEF more
  <2>5. Expanding(l, snapshots, after, skipped \cup more)
    <3>1. n = Len(stack) /\ n \in 1..Len(stack)
      BY <1>2
    <3>2. /\ Line(after) /\ Len(after) = n
          /\ \A i \in 1..(n - 1) : after[i] = stack[i]
      BY <1>5, <2>4
    <3>3. Expanding(l, snapshots, stack, skipped)
      OBVIOUS
    <3> QED
      BY <2>1, <2>2, <2>3, <2>4, <3>1, <3>2, <3>3, OnwardExpands, Zenon
  <2> QED
    BY <2>5 DEF more
<1>10. after # <<>>
  BY <1>2, <1>4, LineBasics
<1> QED
  BY <1>6, <1>9, <1>10

\* A load takes a definition over.
LEMMA DefineExpands ==
    ASSUME NEW l, NEW snapshots, NEW stack, NEW skipped,
           Expanding(l, snapshots, stack, skipped), stack # <<>>,
           NEW n, n = Len(stack),
           stack[n].next <= Len(Declarations[stack[n].document]),
           Declarations[stack[n].document][stack[n].next].kind = "define",
           NEW after, Line(after), Len(after) = n,
           \A i \in 1..Len(stack) : i # n => after[i] = stack[i],
           Entry(after[n]), after[n].document = stack[n].document,
           after[n].alias = stack[n].alias, after[n].next = stack[n].next + 1,
           ScopeOf(after[n]) = Defined(stack[n].document, stack[n].next, ScopeOf(stack[n]))
    PROVE  Expanding(l, snapshots, after, skipped) /\ after # <<>>
<1>1. n \in 1..Len(stack)
  BY TopBasics
<1>2. ScopeOf(after[n]) = Defined(stack[n].document, stack[n].next, ScopeOf(stack[n]))
  OBVIOUS
<1>3. Line(stack) /\ n \in Nat \ {0} /\ \A i \in 1..(n - 1) : after[i] = stack[i]
  <2>1. Line(stack) /\ Len(stack) \in Nat
    BY LineBasics DEF Expanding
  <2>2. n \in Nat \ {0}
    BY <1>1, <2>1
  <2>3. ASSUME NEW i \in 1..(n - 1)
        PROVE  after[i] = stack[i]
    <3>1. i \in 1..Len(stack) /\ i # n
      BY <2>2
    <3> QED
      BY <3>1
  <2> QED
    BY <2>1, <2>2, <2>3
<1>4. /\ stack[n].document \in Documents /\ stack[n].next \in Nat \ {0}
  <2>1. /\ Last(stack) = stack[n] /\ Last(stack).document \in Documents
        /\ Last(stack).next \in Nat \ {0}
    BY TopBasics
  <2> QED
    BY <2>1
<1>5. ASSUME NEW missing, NEW scopes, NEW derived, Closed(l, snapshots, missing, scopes, derived), NEW to \in scopes,
             <<stack[n].document, stack[n].next + 1, Place(stack, n),
               ScopeOf(after[n]), to>> \in derived
      PROVE  <<stack[n].document, stack[n].next, Place(stack, n),
               ScopeOf(stack[n]), to>> \in derived
  <2>1. Follows(l, snapshots, missing, derived, stack[n].document, stack[n].next,
                Place(stack, n), ScopeOf(stack[n]), to)
    BY <1>2, <1>5 DEF Follows
  <2>2. Place(stack, n) \in Seq(Nat) /\ ScopeOf(stack[n]) \in scopes
    BY <1>1, <1>5, TopSpoken
  <2> QED
    BY <1>4, <1>5, <2>1, <2>2 DEF Closed
<1>6. Reached(ScopeOf(after[n]))
  <2>1. stack[n].next \in 1..Len(Declarations[stack[n].document])
    BY <1>4, TextsAssumption DEF Texts
  <2>2. Reached(ScopeOf(stack[n]))
    BY <1>1 DEF Expanding
  <2> QED
    BY <1>2, <1>4, <2>1, <2>2, ReachedMore
<1>7. Expanding(l, snapshots, after, skipped \cup {})
  BY <1>1, <1>3, <1>5, <1>6, OnwardExpands
<1>8. after # <<>>
  BY <1>3, LineBasics
<1> QED
  BY <1>7, <1>8

\* A call that runs, from the stack it has.
LEMMA RunsUnderway ==
    ASSUME NEW l, NEW snapshots, NEW table, NEW stack, NEW skipped,
           NEW owner, NEW result, NEW error, stack # <<>>,
           Expanding(l, snapshots, stack, skipped)
    PROVE  Underway(l, Call("running", owner, stack, result, skipped, error),
                    snapshots, table)
<1> DEFINE load == Call("running", owner, stack, result, skipped, error)
<1>1. load = Call("running", owner, stack, result, skipped, error)
  OBVIOUS
<1> HIDE DEF load
<1>2. /\ Whole(load) /\ load.state = "running" /\ load.stack = stack
      /\ load.skipped = skipped
  BY <1>1, CallFields
<1>3. Underway(l, load, snapshots, table)
  BY <1>2 DEF Underway
<1> QED
  BY <1>1, <1>3

\* A load passes the declaration it is at, whose optional file is absent.
LEMMA SkippedUnderway ==
    ASSUME NEW l, NEW snapshots, NEW table, NEW load, Whole(load),
           Expanding(l, snapshots, load.stack, load.skipped),
           Optional(load), Naming(Last(load.stack)), NEW new,
           new = [Advanced(load) EXCEPT !.state = "running", !.owner = NoOwner,
                                        !.skipped = @ \cup {Placement(load.stack)}]
    PROVE  Underway(l, new, snapshots, table)
<1> DEFINE stack == load.stack
           n == Len(stack)
           after == MovedOn(stack, n)
           more == load.skipped \cup {Placement(stack)}
<1>1. Expanding(l, snapshots, after, more) /\ after # <<>>
  <2>1. /\ stack # <<>> /\ Last(stack) = stack[n] /\ n = Len(stack)
    BY TopBasics DEF Optional
  <2>2. Declarations[stack[n].document][stack[n].next].optional /\ Naming(stack[n])
    BY <2>1 DEF Optional, Current, Top
  <2>3. Expanding(l, snapshots, stack, load.skipped)
    OBVIOUS
  <2>4. Line(stack) /\ n \in 1..Len(stack) /\ Entry(stack[n])
    BY <2>1, TopBasics
  <2>5. /\ Line(after) /\ Len(after) = Len(stack)
        /\ \A i \in 1..Len(stack) : i # n => after[i] = stack[i]
        /\ after[n] = Open(stack[n].identity, stack[n].document, stack[n].next + 1,
                          stack[n].alias, stack[n].output, stack[n].spaces)
    <3> HIDE DEF stack, n
    <3> QED
      BY <2>4, MovedTop
  <2> HIDE DEF stack, n, after
  <2> QED
    BY <2>1, <2>2, <2>3, <2>4, <2>5, SkipExpands
<1>2. new = Call("running", NoOwner, after, load.result, more, load.error)
  <2> DEFINE a == load.state
             b == load.owner
             d == load.result
             e == load.skipped
             f == load.error
             advanced == Advanced(load)
             one == [advanced EXCEPT !.state = "running"]
             two == [one EXCEPT !.owner = NoOwner]
             three == [two EXCEPT !.skipped = e \cup {Placement(stack)}]
  <2>1. advanced = Call(a, b, after, d, e, f)
    BY AdvancedCall
  <2>2. advanced.skipped = e
    <3> HIDE DEF advanced, a, b, d, e, f, after
    <3> QED
      BY <2>1, CallFields
  <2>3. new = [advanced EXCEPT !.state = "running", !.owner = NoOwner,
                               !.skipped = e \cup {Placement(stack)}]
    <3> HIDE DEF e
    <3> QED
      BY <2>2
  <2>4. new = three
    <3> HIDE DEF e, advanced
    <3> QED
      BY <2>3
  <2> HIDE DEF a, b, d, e, f, advanced, after, stack
  <2>5. one = Call("running", b, after, d, e, f)
    BY <2>1 DEF Call
  <2> HIDE DEF one
  <2>6. two = Call("running", NoOwner, after, d, e, f)
    BY <2>5 DEF Call
  <2> HIDE DEF two
  <2>7. three = Call("running", NoOwner, after, d, e \cup {Placement(stack)}, f)
    <3> DEFINE sum == e \cup {Placement(stack)}
    <3> HIDE DEF sum
    <3>1. [two EXCEPT !.skipped = sum] = Call("running", NoOwner, after, d, sum, f)
      BY <2>6 DEF Call
    <3> QED
      BY <3>1 DEF sum
  <2> HIDE DEF three
  <2> QED
    BY <2>4, <2>7 DEF d, e, f
<1> HIDE DEF after, more
<1> QED
  BY <1>1, <1>2, RunsUnderway

\* What source_for answers.
LEMMA AnsweredUnderway ==
    ASSUME NEW l, NEW snapshots, NEW table, NEW load, Whole(load),
           Expanding(l, snapshots, load.stack, load.skipped),
           NEW own, own.path \in Paths, Needs(l, load, own.path),
           own.state = "loaded" =>
             own.what \in Documents /\ own.what = snapshots[IdentityOf[own.path]]
    PROVE  Underway(l, Answered(load, own), snapshots, table)
<1>1. CASE own.state = "loaded"
  <2>1. Answered(load, own) = Loaded(load, own.what, IdentityOf[own.path])
    BY <1>1 DEF Answered
  <2> QED
    BY <1>1, <2>1, LoadedUnderway
<1>2. CASE own.state = "failed" /\ own.what = "missing" /\ Optional(load)
  <2> DEFINE new == [Advanced(load) EXCEPT !.state = "running", !.owner = NoOwner,
                                           !.skipped = @ \cup {Placement(load.stack)}]
  <2>1. Answered(load, own) = new
    BY <1>2 DEF Answered
  <2>2. Naming(Last(load.stack))
    BY <1>2 DEF Needs, Optional
  <2>3. Underway(l, new, snapshots, table)
    BY <1>2, <2>2, SkippedUnderway
  <2> HIDE DEF new
  <2> QED
    BY <2>1, <2>3
<1>3. CASE /\ own.state # "loaded"
           /\ ~(own.state = "failed" /\ own.what = "missing" /\ Optional(load))
  <2>1. \/ Answered(load, own) = Cancelled
        \/ Answered(load, own) = Failed(load, own.what)
    BY <1>3 DEF Answered
  <2> QED
    BY <2>1, Ends
<1> QED
  BY <1>1, <1>2, <1>3

CallOutput(load, n, x) == [load EXCEPT !.stack[n].output = x]
CallSpaces(load, n, x) == [load EXCEPT !.stack[n].spaces = x]

LEMMA OutputCall ==
    ASSUME NEW load, Whole(load), NEW n, NEW x
    PROVE  CallOutput(load, n, x) =
             Call(load.state, load.owner, WithOutput(load.stack, n, x),
                  load.result, load.skipped, load.error)
<1> DEFINE a == load.state
           b == load.owner
           c == load.stack
           d == load.result
           e == load.skipped
           f == load.error
           after == WithOutput(c, n, x)
<1>1. load = Call(a, b, c, d, e, f)
  BY WholeCall
<1>2. CallOutput(load, n, x) = [load EXCEPT !.stack = after]
  BY DEF CallOutput, WithOutput
<1> HIDE DEF a, b, c, d, e, f, after
<1>3. [load EXCEPT !.stack = after] = Call(a, b, after, d, e, f)
  BY <1>1 DEF Call
<1> QED
  BY <1>2, <1>3 DEF a, b, c, d, e, f, after

LEMMA SpacesCall ==
    ASSUME NEW load, Whole(load), NEW n, NEW x
    PROVE  CallSpaces(load, n, x) =
             Call(load.state, load.owner, WithSpaces(load.stack, n, x),
                  load.result, load.skipped, load.error)
<1> DEFINE a == load.state
           b == load.owner
           c == load.stack
           d == load.result
           e == load.skipped
           f == load.error
           after == WithSpaces(c, n, x)
<1>1. load = Call(a, b, c, d, e, f)
  BY WholeCall
<1>2. CallSpaces(load, n, x) = [load EXCEPT !.stack = after]
  BY DEF CallSpaces, WithSpaces
<1> HIDE DEF a, b, c, d, e, f, after
<1>3. [load EXCEPT !.stack = after] = Call(a, b, after, d, e, f)
  BY <1>1 DEF Call
<1> QED
  BY <1>2, <1>3 DEF a, b, c, d, e, f, after

TakesOver(load, definition) ==
    [Advanced(load) EXCEPT !.stack[Len(load.stack)].output = Append(@, definition)]

LEMMA DefineUnderway ==
    ASSUME NEW l, NEW snapshots, NEW table, NEW load, Whole(load),
           Expanding(l, snapshots, load.stack, load.skipped), load.stack # <<>>,
           load.state = "running", ~AtEnd(load), Current(load).kind = "define",
           NEW definition, definition = Definition(Top(load).document, Top(load).next),
           NEW new, new = TakesOver(load, definition)
    PROVE  Underway(l, new, snapshots, table)
<1> DEFINE stack == load.stack
           n == Len(stack)
           one == MovedOn(stack, n)
           x == Append(stack[n].output, definition)
           after == WithOutput(one, n, x)
           advanced == Advanced(load)
<1>1. /\ stack # <<>> /\ n = Len(stack) /\ Top(load) = stack[n] /\ n \in 1..Len(stack)
      /\ Line(stack) /\ Entry(stack[n]) /\ Expanding(l, snapshots, stack, load.skipped)
      /\ stack[n].document \in Documents /\ stack[n].next \in Nat \ {0}
      /\ Len(Declarations[stack[n].document]) \in Nat
  BY TopBasics DEF Top
<1>2. stack[n].next <= Len(Declarations[stack[n].document])
  <2> HIDE DEF stack, n
  <2> QED
    BY <1>1 DEF AtEnd
<1>3. Declarations[stack[n].document][stack[n].next].kind = "define"
  <2> HIDE DEF stack, n
  <2> QED
    BY <1>1 DEF Current
<1>4. /\ Line(one) /\ Len(one) = Len(stack)
      /\ \A i \in 1..Len(stack) : i # n => one[i] = stack[i]
      /\ one[n] = Open(stack[n].identity, stack[n].document, stack[n].next + 1,
                      stack[n].alias, stack[n].output, stack[n].spaces)
  <2> HIDE DEF stack, n
  <2> QED
    BY <1>1, MovedTop
<1>5. advanced = Call(load.state, load.owner, one, load.result, load.skipped, load.error)
  BY AdvancedCall
<1>6. new = [advanced EXCEPT !.stack[n].output = Append(advanced.stack[n].output, definition)]
  BY DEF TakesOver
<1> HIDE DEF stack, n, one, x, after, advanced
<1>7. /\ Whole(advanced) /\ advanced.state = "running" /\ advanced.stack = one
      /\ advanced.skipped = load.skipped
  BY <1>5, CallFields
<1>8. advanced.stack[n].output = stack[n].output
  BY <1>4, <1>7, OpenFields
<1>9. new = Call("running", advanced.owner, after, advanced.result, load.skipped,
                 advanced.error)
  <2>1. new = CallOutput(advanced, n, x)
    BY <1>6, <1>8 DEF x, CallOutput
  <2>2. CallOutput(advanced, n, x) =
          Call(advanced.state, advanced.owner, WithOutput(advanced.stack, n, x),
               advanced.result, advanced.skipped, advanced.error)
    BY <1>7, OutputCall
  <2> QED
    BY <1>7, <2>1, <2>2 DEF after
<1>10. /\ Line(after) /\ Len(after) = n
       /\ \A i \in 1..Len(stack) : i # n => after[i] = stack[i]
       /\ after[n] = Open(stack[n].identity, stack[n].document, stack[n].next + 1,
                         stack[n].alias, x, stack[n].spaces)
  BY <1>1, MovedOutput DEF after, one
<1>11. ScopeOf(after[n]) = Defined(stack[n].document, stack[n].next, ScopeOf(stack[n]))
  <2>1. ScopeOf(after[n]) = [output |-> x, spaces |-> stack[n].spaces]
    BY <1>10, OpenFields
  <2> QED
    BY <1>1, <2>1 DEF Defined, ScopeOf, x
<1>12. /\ Entry(after[n]) /\ after[n].document = stack[n].document
       /\ after[n].alias = stack[n].alias /\ after[n].next = stack[n].next + 1
  <2>1. stack[n].next + 1 \in 1..(Len(Declarations[stack[n].document]) + 1)
    BY <1>1, <1>2
  <2> QED
    BY SMTT(30), <1>1, <1>10, <2>1, OpenFields
<1>13. Expanding(l, snapshots, after, load.skipped) /\ after # <<>>
  <2>1. /\ stack # <<>> /\ n = Len(stack) /\ Expanding(l, snapshots, stack, load.skipped)
    BY <1>1
  <2> QED
    BY <1>2, <1>3, <1>10, <1>11, <1>12, <2>1, DefineExpands
<1> QED
  BY <1>9, <1>13, RunsUnderway

\* The last open document is at its end.
Finished(load, output) ==
    [load EXCEPT !.state = "done", !.stack = <<>>, !.result = output]

LEMMA DoneUnderway ==
    ASSUME NEW l, NEW snapshots, NEW table, NEW load, Whole(load),
           Expanding(l, snapshots, load.stack, load.skipped),
           Len(load.stack) = 1, load.stack # <<>>, AtEnd(load)
    PROVE  Underway(l, Finished(load, Top(load).output), snapshots, table)
<1> DEFINE stack == load.stack
           top == stack[1]
           new == Finished(load, Top(load).output)
<1>1. /\ Line(stack) /\ Top(load) = top /\ 1 \in 1..Len(stack) /\ top.document \in Documents
      /\ stack # <<>> /\ Expanding(l, snapshots, stack, load.skipped) /\ 1 = Len(stack)
  BY TopBasics DEF Top
<1>2. top.next > Len(Declarations[top.document])
  BY <1>1 DEF AtEnd
<1>3. new = Call("done", load.owner, <<>>, top.output, load.skipped, load.error)
  <2> DEFINE a == load.state
             b == load.owner
             c == load.stack
             d == load.result
             e == load.skipped
             f == load.error
             output == top.output
             empty == <<>>
             one == [load EXCEPT !.state = "done"]
             two == [one EXCEPT !.stack = empty]
             three == [two EXCEPT !.result = output]
  <2>1. load = Call(a, b, c, d, e, f)
    BY WholeCall
  <2>2. new = three
    <3>1. new = [load EXCEPT !.state = "done", !.stack = empty, !.result = output]
      BY <1>1 DEF Finished
    <3> HIDE DEF new, output, empty
    <3> QED
      BY <3>1
  <2> HIDE DEF a, b, c, d, e, f, output, empty, new
  <2>3. one = Call("done", b, c, d, e, f)
    BY <2>1 DEF Call
  <2> HIDE DEF one
  <2>4. two = Call("done", b, empty, d, e, f)
    BY <2>3 DEF Call
  <2> HIDE DEF two
  <2>5. three = Call("done", b, empty, output, e, f)
    BY <2>4 DEF Call
  <2> HIDE DEF three
  <2> QED
    BY <2>2, <2>5 DEF b, e, f, output, empty
<1> HIDE DEF new, stack
<1>4. /\ Whole(new) /\ new.state = "done" /\ new.result = top.output
      /\ new.skipped = load.skipped
  BY <1>3, CallFields
<1>5. snapshots[IdentityOf[Root[l]]] = top.document
  BY <1>1 DEF Expanding, Links
<1>6. Expansion(l, snapshots, load.skipped, top.output)
  <2> SUFFICES ASSUME NEW scopes, NEW derived,
                      Closed(l, snapshots, load.skipped, scopes, derived)
               PROVE  <<top.document, 1, <<>>, Nothing,
                        [output |-> top.output, spaces |-> top.spaces]>> \in derived
    BY <1>5 DEF Expansion
  <2>1. Agrees(load.skipped, load.skipped, stack)
    BY DEF Agrees
  <2>2. Place(stack, 1) = <<>> /\ Start(stack, 1) = Nothing
    BY DEF Place, Start
  <2>3. <<top.document, 1, Place(stack, 1), Start(stack, 1), ScopeOf(top)>> \in derived
    BY <1>1, <1>2, <2>1, EndDerives
  <2> QED
    BY <2>2, <2>3 DEF ScopeOf
<1> QED
  BY <1>1, <1>4, <1>5, <1>6 DEF Underway, new

\* A document that is not the last one is at its end.
Resumed(load, output, spaces) ==
    LET below == [load EXCEPT !.stack = Front(@)]
    IN [Advanced(below) EXCEPT !.stack[Len(below.stack)].output = output,
                               !.stack[Len(below.stack)].spaces = spaces]

LEMMA ResumedCall ==
    ASSUME NEW load, Whole(load), NEW x, NEW y
    PROVE  Resumed(load, x, y) =
             LET front == Front(load.stack)
                 n == Len(front)
             IN Call(load.state, load.owner,
                     WithSpaces(WithOutput(MovedOn(front, n), n, x), n, y),
                     load.result, load.skipped, load.error)
<1> DEFINE a == load.state
           b == load.owner
           c == load.stack
           d == load.result
           e == load.skipped
           f == load.error
           front == Front(c)
           n == Len(front)
           below == [load EXCEPT !.stack = Front(@)]
           moved == Advanced(below)
           one == CallOutput(moved, n, x)
           two == CallSpaces(one, n, y)
<1>1. load = Call(a, b, c, d, e, f)
  BY WholeCall
<1>2. below = [load EXCEPT !.stack = front]
  OBVIOUS
<1>3. below = Call(a, b, front, d, e, f)
  <2> HIDE DEF a, b, c, d, e, f, front, below
  <2> QED
    BY <1>1, <1>2 DEF Call
<1>4. /\ Whole(below) /\ below.state = a /\ below.owner = b /\ below.stack = front
      /\ below.result = d /\ below.skipped = e /\ below.error = f
  <2> HIDE DEF a, b, c, d, e, f, front, below
  <2> QED
    BY <1>3, CallFields
<1>5. Resumed(load, x, y) = [moved EXCEPT !.stack[n].output = x, !.stack[n].spaces = y]
  <2>1. Resumed(load, x, y) =
          [Advanced(below) EXCEPT !.stack[Len(below.stack)].output = x,
                                  !.stack[Len(below.stack)].spaces = y]
    BY DEF Resumed
  <2>2. below.stack = front
    BY <1>4
  <2> HIDE DEF below, front
  <2> QED
    BY <2>1, <2>2
<1> HIDE DEF below
<1>6. Resumed(load, x, y) = two
  <2> HIDE DEF moved, n
  <2> QED
    BY <1>5 DEF CallOutput, CallSpaces
<1> HIDE DEF a, b, c, d, e, f, front
<1>7. moved = Call(a, b, MovedOn(front, n), d, e, f)
  BY <1>4, AdvancedCall
<1> HIDE DEF moved, n
<1>8. /\ Whole(moved) /\ moved.state = a /\ moved.owner = b
      /\ moved.stack = MovedOn(front, n)
      /\ moved.result = d /\ moved.skipped = e /\ moved.error = f
  BY <1>7, CallFields
<1>9. one = Call(a, b, WithOutput(MovedOn(front, n), n, x), d, e, f)
  BY <1>8, OutputCall
<1> HIDE DEF one
<1>10. /\ Whole(one) /\ one.state = a /\ one.owner = b
       /\ one.stack = WithOutput(MovedOn(front, n), n, x)
       /\ one.result = d /\ one.skipped = e /\ one.error = f
  BY <1>9, CallFields
<1>11. two = Call(a, b, WithSpaces(WithOutput(MovedOn(front, n), n, x), n, y), d, e, f)
  BY <1>10, SpacesCall
<1> QED
  BY <1>6, <1>11 DEF a, b, c, d, e, f, front, n

LEMMA ResumedUnderway ==
    ASSUME NEW l, NEW snapshots, NEW table, NEW load, Whole(load),
           Expanding(l, snapshots, load.stack, load.skipped), load.state = "running",
           load.stack # <<>>, Len(load.stack) # 1, AtEnd(load),
           NEW output, NEW spaces, NEW new, new = Resumed(load, output, spaces),
           [output |-> output, spaces |-> spaces] =
             IF Top(load).alias # <<>>
             THEN Imported(ScopeOf(Last(Front(load.stack))), ScopeOf(Top(load)),
                           Top(load).alias)
             ELSE ScopeOf(Top(load))
    PROVE  Underway(l, new, snapshots, table)
<1> DEFINE stack == load.stack
           front == Front(stack)
           n == Len(front)
           after == WithSpaces(WithOutput(MovedOn(front, n), n, output), n, spaces)
           scope == [output |-> output, spaces |-> spaces]
<1>1. /\ stack # <<>> /\ Line(stack) /\ Expanding(l, snapshots, stack, load.skipped)
      /\ Top(load) = stack[Len(stack)] /\ Len(stack) \in Nat \ {0, 1}
      /\ \A i \in 1..Len(stack) : Entry(stack[i])
  <2>1. /\ Line(stack) /\ Len(stack) \in Nat \ {0} /\ Last(stack) = stack[Len(stack)]
    BY TopBasics
  <2> QED
    BY <2>1 DEF Top, Expanding
<1>2. new = Call(load.state, load.owner, after, load.result, load.skipped, load.error)
  BY ResumedCall
<1> HIDE DEF stack, front, n, after
<1>3. /\ Line(front) /\ n = Len(stack) - 1 /\ n \in Nat \ {0}
      /\ \A i \in 1..n : front[i] = stack[i]
  <2>1. /\ Line(front) /\ Len(front) = Len(stack) - 1
        /\ \A i \in 1..(Len(stack) - 1) : front[i] = stack[i]
    BY <1>1, LineFront DEF front
  <2> QED
    BY <1>1, <2>1 DEF n
<1>4. /\ n \in 1..Len(front) /\ Len(front) = n /\ front[n] = stack[n]
      /\ Entry(front[n]) /\ Len(stack) = n + 1
      /\ n \in 1..Len(stack)
  BY <1>1, <1>3 DEF n
<1>5. /\ Line(after) /\ Len(after) = n
      /\ \A i \in 1..n : i # n => after[i] = stack[i]
      /\ after[n] = Open(stack[n].identity, stack[n].document, stack[n].next + 1,
                        stack[n].alias, output, spaces)
  <2>1. /\ Line(after) /\ Len(after) = Len(front)
        /\ \A i \in 1..Len(front) : i # n => after[i] = front[i]
        /\ after[n] = Open(front[n].identity, front[n].document, front[n].next + 1,
                          front[n].alias, output, spaces)
    BY <1>3, <1>4, MovedScope DEF after
  <2> QED
    BY <1>3, <1>4, <2>1
<1>6. /\ stack[n].document \in Documents /\ stack[n].next \in Nat \ {0}
      /\ Len(Declarations[stack[n].document]) \in Nat
      /\ stack[n].next <= Len(Declarations[stack[n].document])
  <2>1. Naming(stack[n])
    BY <1>1, <1>3 DEF Expanding, Links
  <2>2. /\ stack[n].document \in Documents
        /\ stack[n].next \in 1..(Len(Declarations[stack[n].document]) + 1)
    BY <1>1, <1>4 DEF Entry
  <2>3. Len(Declarations[stack[n].document]) \in Nat
    BY <2>2, TextsAssumption DEF Texts
  <2> QED
    BY <2>1, <2>2, <2>3 DEF Naming
<1>7. /\ Entry(after[n]) /\ after[n].document = stack[n].document
      /\ after[n].alias = stack[n].alias /\ after[n].next = stack[n].next + 1
      /\ ScopeOf(after[n]) = scope
  <2>1. stack[n].next + 1 \in 1..(Len(Declarations[stack[n].document]) + 1)
    BY <1>6
  <2> QED
    BY <1>5, <1>6, <2>1, OpenFields
<1>8. LET declaration == Declarations[stack[n].document][stack[n].next]
      IN declaration.kind = "import" => declaration.alias # <<>>
  BY <1>6, NamesAssumption DEF Named
<1>9. ScopeOf(after[n]) =
        IF stack[n + 1].alias # <<>>
        THEN Imported(ScopeOf(stack[n]), ScopeOf(stack[n + 1]), stack[n + 1].alias)
        ELSE ScopeOf(stack[n + 1])
  <2>1. Last(front) = stack[n]
    BY <1>4 DEF Last
  <2> HIDE DEF scope
  <2> QED
    BY <1>1, <1>4, <1>7, <2>1 DEF scope, front, stack
<1>10. stack[n + 1].next > Len(Declarations[stack[n + 1].document])
  BY SMTT(30), <1>1, <1>4 DEF AtEnd
<1>11. Expanding(l, snapshots, after, load.skipped)
  <2> HIDE DEF scope
  <2>1. \A i \in 1..(n - 1) : i \in 1..n /\ i # n
    BY <1>3
  <2>2. n = Len(after) /\ n # 0 /\ \A i \in 1..(n - 1) : after[i] = stack[i]
    BY <1>3, <1>5, <2>1
  <2> QED
    BY <1>1, <1>4, <1>5, <1>7, <1>8, <1>9, <1>10, <2>2, ReturnExpands
<1>12. after # <<>>
  BY <1>3, <1>5, LineBasics
<1> QED
  BY <1>2, <1>11, <1>12, RunsUnderway

-----------------------------------------------------------------------------
(* The steps of the loader.                                                *)

\* What others do leaves a call where it is.
LEMMA StaysUnderway ==
    ASSUME NEW l \in Loads, NEW load, NEW snapshots, NEW later, NEW table, NEW after,
           Underway(l, load, snapshots, table), Later(snapshots, later),
           load.state = "waiting" => after[load.owner].path = table[load.owner].path
    PROVE  Underway(l, load, later, after)
<1>1. load.state \in {"idle", "waiting", "running"} =>
        Expanding(l, later, load.stack, load.skipped)
  BY LaterExpands DEF Underway
<1>2. load.state = "done" =>
        /\ later[IdentityOf[Root[l]]] \in Documents
        /\ Expansion(l, later, load.skipped, load.result)
  <2>1. IdentityOf[Root[l]] \in Identities
    BY LoadsAssumption, Basics
  <2> QED
    BY <2>1, LaterExpansion DEF Underway, Later
<1> QED
  BY <1>1, <1>2 DEF Underway

\* One call moves.
LEMMA OneMoves ==
    ASSUME Inv, AllUnderway, NEW l \in Loads, NEW new,
           loads' = [loads EXCEPT ![l] = new], identities' = identities,
           Underway(l, new, identities, owners'),
           \A c \in Loads : c # l /\ loads[c].state = "waiting" =>
               owners'[loads[c].owner].path = owners[loads[c].owner].path
    PROVE  AllUnderway'
<1>1. /\ loads'[l] = new
      /\ \A c \in Loads : c # l => loads'[c] = loads[c]
  BY DEF Inv, LoadsShaped
<1>2. Later(identities, identities)
  BY DEF Later
<1>3. ASSUME NEW c \in Loads, c # l
      PROVE  Underway(c, loads'[c], identities', owners')
  <2>1. Underway(c, loads[c], identities, owners)
    BY DEF AllUnderway
  <2>2. Underway(c, loads[c], identities, owners')
    BY <1>2, <1>3, <2>1, StaysUnderway
  <2> QED
    BY <1>1, <1>3, <2>2
<1> QED
  BY <1>1, <1>3 DEF AllUnderway

\* A call that goes on is an expansion under way.
LEMMA GoingOn ==
    ASSUME AllUnderway, NEW l \in Loads, loads[l].state \in {"idle", "waiting", "running"}
    PROVE  /\ Whole(loads[l])
           /\ Expanding(l, identities, loads[l].stack, loads[l].skipped)
           /\ loads[l].state = "idle" => loads[l].stack = <<>>
           /\ loads[l].state = "running" => loads[l].stack # <<>>
           /\ loads[l].state = "waiting" => Needs(l, loads[l], owners[loads[l].owner].path)
BY DEF AllUnderway, Underway

\* The owners that others wait for are kept.
LEMMA KeptPaths ==
    ASSUME Inv, NEW l \in Loads, NEW new, loads' = [loads EXCEPT ![l] = new],
           owners' = Kept(owners, tasks', loads')
    PROVE  \A c \in Loads : c # l /\ loads[c].state = "waiting" =>
               owners'[loads[c].owner].path = owners[loads[c].owner].path
<1> SUFFICES ASSUME NEW c \in Loads, c # l, loads[c].state = "waiting"
             PROVE  owners'[loads[c].owner] = owners[loads[c].owner]
  OBVIOUS
<1>1. owners \in [Owners -> OwnerRecord] /\ DOMAIN loads = Loads
  BY DEF Inv, LoaderInv, TypeOK, OwnerRecord, LoadsShaped
<1>2. loads[c].owner \in Owners
  BY DEF Inv, LoadsShaped, Shaped
<1> DEFINE b == loads[c].owner
<1>3. loads'[c].owner = b
  BY <1>1
<1> HIDE DEF b
<1>4. b \in Owners
  BY <1>2 DEF b
<1>5. owners'[b] = owners[b]
  BY <1>3, <1>4 DEF Kept
<1> QED
  BY <1>5 DEF b

LEMMA Delivers ==
    ASSUME Inv, AllUnderway, identities' = identities, NEW l \in Loads,
           loads[l].state \in {"idle", "waiting", "running"},
           NEW o \in Owners, Needs(l, loads[l], owners[o].path),
           Deliver(l, loads[l], o)
    PROVE  AllUnderway'
<1> DEFINE own == owners[o]
           new == Answered(loads[l], own)
<1>1. own.path \in Paths
  BY DEF Inv, LoaderInv, TypeOK
<1>2. own.state = "loaded" =>
        own.what \in Documents /\ own.what = identities[IdentityOf[own.path]]
  <2>1. identities[IdentityOf[own.path]] \in Documents \cup {"none"}
    BY <1>1, Basics DEF Inv, LoaderInv, TypeOK
  <2> QED
    BY <2>1 DEF Inv, LoaderInv, OneSnapshot
<1>3. Underway(l, new, identities, owners')
  <2>1. Whole(loads[l]) /\ Expanding(l, identities, loads[l].stack, loads[l].skipped)
    BY GoingOn
  <2> HIDE DEF own
  <2> QED
    BY <1>1, <1>2, <2>1, AnsweredUnderway DEF own
<1>4. loads' = [loads EXCEPT ![l] = new] /\ owners' = Kept(owners, tasks', loads')
  BY DEF Deliver
<1> HIDE DEF new
<1> QED
  BY <1>3, <1>4, KeptPaths, OneMoves

\* A call waits for an owner of the path it needs.
Waiting(load, owner) == [load EXCEPT !.state = "waiting", !.owner = owner]

LEMMA WaitingCall ==
    ASSUME NEW load, Whole(load), NEW owner
    PROVE  Waiting(load, owner) = Call("waiting", owner, load.stack, load.result,
                                       load.skipped, load.error)
<1> DEFINE a == load.state
           b == load.owner
           c == load.stack
           d == load.result
           e == load.skipped
           f == load.error
           one == [load EXCEPT !.state = "waiting"]
<1>1. load = Call(a, b, c, d, e, f)
  BY WholeCall
<1>2. Waiting(load, owner) = [one EXCEPT !.owner = owner]
  BY DEF Waiting
<1> HIDE DEF a, b, c, d, e, f
<1>3. one = Call("waiting", b, c, d, e, f)
  BY <1>1 DEF Call
<1> HIDE DEF one
<1>4. Waiting(load, owner) = Call("waiting", owner, c, d, e, f)
  BY <1>2, <1>3 DEF Call
<1> QED
  BY <1>4 DEF c, d, e, f

LEMMA Waits ==
    ASSUME NEW l, NEW load, NEW snapshots, NEW table, NEW owner, Whole(load),
           Expanding(l, snapshots, load.stack, load.skipped),
           Needs(l, load, table[owner].path)
    PROVE  Underway(l, Waiting(load, owner), snapshots, table)
<1> DEFINE new == Waiting(load, owner)
<1>1. new = Call("waiting", owner, load.stack, load.result, load.skipped, load.error)
  BY WaitingCall
<1> HIDE DEF new
<1>2. /\ Whole(new) /\ new.state = "waiting" /\ new.owner = owner
      /\ new.stack = load.stack /\ new.skipped = load.skipped
  BY <1>1, CallFields
<1>3. Needs(l, new, table[new.owner].path)
  BY <1>2 DEF Needs
<1> QED
  BY <1>2, <1>3 DEF Underway, new

LEMMA AsksUnderway ==
    ASSUME Inv, AllUnderway, identities' = identities, NEW l \in Loads,
           loads[l].state \in {"idle", "running"}, NEW path \in Paths,
           Needs(l, loads[l], path), SourceFor(l, loads[l], path)
    PROVE  AllUnderway'
<1>0. /\ owners \in [Owners -> OwnerRecord] /\ tasks \in [Paths -> Owners \cup {NoOwner}]
      /\ Whole(loads[l]) /\ Expanding(l, identities, loads[l].stack, loads[l].skipped)
  BY GoingOn DEF Inv, LoaderInv, TypeOK, OwnerRecord
<1> DEFINE o == tasks[path]
<1>1. o # NoOwner => o \in Owners /\ owners[o].path = path
  BY <1>0 DEF Inv, OwnersInUse
<1>2. CASE /\ loads' = [loads EXCEPT ![l] = Failed(loads[l], "sources")]
           /\ UNCHANGED <<owners, tasks>>
  <2> DEFINE new == Failed(loads[l], "sources")
  <2>1. Underway(l, new, identities, owners')
    BY Ends
  <2>2. loads' = [loads EXCEPT ![l] = new] /\ owners' = owners
    BY <1>2
  <2> HIDE DEF new
  <2> QED
    BY <2>1, <2>2, OneMoves
<1>3. CASE o = NoOwner /\ Register(l, loads[l], path)
  <2> DEFINE b == CHOOSE b \in Owners : owners[b].state = "blank"
             new == Waiting(loads[l], b)
             asked == [path |-> path, state |-> "asking", what |-> "none"]
  <2>1. loads[l].owner = NoOwner
    BY Alone
  <2>2. b \in Owners /\ owners[b].state = "blank"
    BY <1>3, <2>1, OwnerFree
  <2>3. owners' = [owners EXCEPT ![b] = asked] /\ loads' = [loads EXCEPT ![l] = new]
    BY <1>3 DEF Register, Waiting
  <2> HIDE DEF b
  <2>4. /\ owners'[b].path = path
        /\ \A other \in Owners : other # b => owners'[other] = owners[other]
    BY <1>0, <2>2, <2>3
  <2>5. \A c \in Loads : c # l /\ loads[c].state = "waiting" =>
          owners'[loads[c].owner].path = owners[loads[c].owner].path
    <3>1. \A c \in Loads : loads[c].state = "waiting" =>
            /\ loads[c].owner \in Owners /\ owners[loads[c].owner].state # "blank"
      BY DEF Inv, LoadsShaped, Shaped, OwnersInUse
    <3> QED
      BY <2>2, <2>4, <3>1
  <2>6. Underway(l, new, identities, owners')
    <3>1. Needs(l, loads[l], owners'[b].path)
      BY <2>4
    <3> QED
      BY <1>0, <3>1, Waits
  <2> HIDE DEF new, asked
  <2> QED
    BY <2>3, <2>5, <2>6, OneMoves
<1>4. CASE o # NoOwner /\ Deliver(l, loads[l], o)
  BY <1>1, <1>4, Delivers
<1>5. CASE /\ o # NoOwner
           /\ loads' = [loads EXCEPT ![l] =
                [loads[l] EXCEPT !.state = "waiting", !.owner = o]]
           /\ UNCHANGED <<owners, tasks>>
  <2> DEFINE new == Waiting(loads[l], o)
  <2>1. Needs(l, loads[l], owners'[o].path)
    BY <1>1, <1>5
  <2>2. Underway(l, new, identities, owners')
    BY <1>0, <2>1, Waits
  <2>3. loads' = [loads EXCEPT ![l] = new] /\ owners' = owners
    BY <1>5 DEF Waiting
  <2> HIDE DEF new
  <2> QED
    BY <2>2, <2>3, OneMoves
<1> QED
  BY <1>2, <1>3, <1>4, <1>5 DEF SourceFor

LEMMA BeginUnderway ==
    ASSUME Inv, AllUnderway, NEW l \in Loads, Begin(l)
    PROVE  AllUnderway'
<1>1. loads[l].stack = <<>>
  BY GoingOn DEF Begin
<1>2. Needs(l, loads[l], Root[l]) /\ Root[l] \in Paths
  BY <1>1, LoadsAssumption DEF Needs
<1> QED
  BY <1>2, AsksUnderway DEF Begin, ByLoad

LEMMA DefineStep ==
    ASSUME Inv, AllUnderway, NEW l \in Loads, Define(l)
    PROVE  AllUnderway'
<1> DEFINE load == loads[l]
           top == Top(load)
           definition == Definition(top.document, top.next)
           new == TakesOver(load, definition)
<1>1. /\ load.state = "running" /\ ~AtEnd(load) /\ Current(load).kind = "define"
      /\ identities' = identities /\ owners' = owners
  BY DEF Define, ByLoad
<1>2. loads' = [loads EXCEPT ![l] = new]
  BY DEF Define, TakesOver, Definition, Current
<1>3. /\ Whole(load) /\ Expanding(l, identities, load.stack, load.skipped)
      /\ load.stack # <<>>
  BY <1>1, GoingOn
<1>4. Underway(l, new, identities, owners)
  <2> HIDE DEF load
  <2>1. definition = Definition(Top(load).document, Top(load).next)
    OBVIOUS
  <2> HIDE DEF definition
  <2> QED
    BY <1>1, <1>3, <2>1, DefineUnderway
<1> HIDE DEF new, definition, top
<1> QED
  BY <1>1, <1>2, <1>4, OneMoves

LEMMA RequestUnderway ==
    ASSUME Inv, AllUnderway, NEW l \in Loads, Request(l)
    PROVE  AllUnderway'
<1> DEFINE load == loads[l]
           path == Target(l, Current(load), Top(load).output)
<1>1. /\ load.state = "running" /\ ~AtEnd(load) /\ Current(load).kind # "define"
      /\ identities' = identities
  BY DEF Request, ByLoad
<1>2. /\ Whole(load) /\ Expanding(l, identities, load.stack, load.skipped)
      /\ load.stack # <<>>
  BY <1>1, GoingOn
<1>3. Needs(l, load, path)
  <2> DEFINE top == Last(load.stack)
  <2>1. /\ top.next \in Nat \ {0} /\ Len(Declarations[top.document]) \in Nat
    BY <1>2, TopBasics
  <2>2. Naming(top)
    <3> HIDE DEF load
    <3> QED
      BY <1>1, <2>1 DEF Naming, AtEnd, Current, Top
  <2> HIDE DEF load
  <2> QED
    BY <1>2, <2>2 DEF Needs, NamedPath, Current, Top
<1>4. CASE path \in Paths /\ SourceFor(l, load, path)
  <2> HIDE DEF path
  <2> QED
    BY <1>1, <1>3, <1>4, AsksUnderway
<1>5. CASE /\ loads' = [loads EXCEPT ![l] = Failed(load, "target")]
           /\ UNCHANGED <<owners, tasks>>
  <2> DEFINE new == Failed(load, "target")
  <2>1. Underway(l, new, identities, owners')
    BY Ends
  <2> HIDE DEF new
  <2>2. loads' = [loads EXCEPT ![l] = new] /\ owners' = owners
    BY <1>5 DEF new
  <2> QED
    BY <1>1, <2>1, <2>2, OneMoves
<1> QED
  BY <1>4, <1>5 DEF Request

LEMMA WakeUnderway ==
    ASSUME Inv, AllUnderway, NEW l \in Loads, Wake(l)
    PROVE  AllUnderway'
<1>1. loads[l].state = "waiting" /\ loads[l].owner \in Owners
  BY DEF Wake, Inv, LoadsShaped, Shaped
<1>2. Needs(l, loads[l], owners[loads[l].owner].path)
  BY <1>1, GoingOn
<1> QED
  BY <1>1, <1>2, Delivers DEF Wake, ByLoad

LEMMA ReturnUnderway ==
    ASSUME Inv, AllUnderway, NEW l \in Loads, Return(l)
    PROVE  AllUnderway'
<1> DEFINE load == loads[l]
           top == Top(load)
           importer == Last(Front(load.stack))
           imported == Imported(ScopeOf(importer), ScopeOf(top), top.alias)
<1>1. /\ load.state = "running" /\ AtEnd(load)
      /\ identities' = identities /\ owners' = owners
  BY DEF Return, ByLoad
<1>2. /\ Whole(load) /\ Expanding(l, identities, load.stack, load.skipped)
      /\ load.stack # <<>>
  BY <1>1, GoingOn
<1>3. \/ loads' = [loads EXCEPT ![l] = Failed(load, "structure")]
      \/ /\ Len(load.stack) = 1
         /\ loads' = [loads EXCEPT ![l] = Finished(load, top.output)]
      \/ /\ Len(load.stack) # 1 /\ top.alias # <<>>
         /\ loads' = [loads EXCEPT ![l] =
                         Resumed(load, importer.output \o Qualified(top.output, top.alias),
                                 importer.spaces \cup Reserved(top.spaces, top.alias))]
      \/ /\ Len(load.stack) # 1 /\ top.alias = <<>>
         /\ loads' = [loads EXCEPT ![l] = Resumed(load, top.output, top.spaces)]
  <2> DEFINE below == [load EXCEPT !.stack = Front(@)]
             named == Top(below)
             isolated == Len(load.stack) = 1 \/ top.alias # <<>>
             resumed(output, spaces) ==
               [Advanced(below) EXCEPT !.stack[Len(below.stack)].output = output,
                                       !.stack[Len(below.stack)].spaces = spaces]
             new == IF isolated /\ ~WellStructured(top.output, top.spaces)
                    THEN Failed(load, "structure")
                    ELSE IF Len(load.stack) = 1
                         THEN [load EXCEPT !.state = "done", !.stack = <<>>,
                                           !.result = top.output]
                    ELSE IF isolated
                         THEN resumed(named.output \o Qualified(top.output, top.alias),
                                      named.spaces \cup Reserved(top.spaces, top.alias))
                    ELSE resumed(top.output, top.spaces)
  <2>1. loads' = [loads EXCEPT ![l] = new]
    BY DEF Return
  <2>2. named = importer
    <3> DEFINE stack == load.stack
               front == Front(stack)
    <3>1. load = Call(load.state, load.owner, stack, load.result, load.skipped, load.error)
      BY <1>2, WholeCall
    <3>2. below = [load EXCEPT !.stack = front]
      OBVIOUS
    <3> HIDE DEF stack, front, below, load
    <3>3. below.stack = front
      BY <3>1, <3>2 DEF Call
    <3> QED
      BY <3>3 DEF Top, front, stack
  <2>3. \A output, spaces : resumed(output, spaces) = Resumed(load, output, spaces)
    BY DEF Resumed
  <2>4. [load EXCEPT !.state = "done", !.stack = <<>>, !.result = top.output] =
          Finished(load, top.output)
    BY DEF Finished
  <2> DEFINE finished == [load EXCEPT !.state = "done", !.stack = <<>>,
                                      !.result = top.output]
             failed == Failed(load, "structure")
             left == named.output \o Qualified(top.output, top.alias)
             taken == named.spaces \cup Reserved(top.spaces, top.alias)
  <2> HIDE DEF resumed, finished, failed, left, taken, load, top, importer, named
  <2>5. \/ new = failed
        \/ Len(load.stack) = 1 /\ new = finished
        \/ Len(load.stack) # 1 /\ top.alias # <<>> /\ new = resumed(left, taken)
        \/ Len(load.stack) # 1 /\ top.alias = <<>> /\ new = resumed(top.output, top.spaces)
    BY DEF left, taken, failed, finished
  <2>6. finished = Finished(load, top.output)
    BY <2>4 DEF finished
  <2> HIDE DEF new
  <2> QED
    BY <2>1, <2>2, <2>3, <2>5, <2>6 DEF left, taken, failed
<1> HIDE DEF load
<1>4. \A new : Underway(l, new, identities, owners)
                /\ loads' = [loads EXCEPT ![l] = new] => AllUnderway'
  BY <1>1, OneMoves
<1>5. CASE loads' = [loads EXCEPT ![l] = Failed(load, "structure")]
  BY <1>4, <1>5, Ends
<1>6. CASE /\ Len(load.stack) = 1
           /\ loads' = [loads EXCEPT ![l] = Finished(load, top.output)]
  BY <1>1, <1>2, <1>4, <1>6, DoneUnderway
<1>7. CASE /\ Len(load.stack) # 1 /\ top.alias # <<>>
           /\ loads' = [loads EXCEPT ![l] =
                         Resumed(load, importer.output \o Qualified(top.output, top.alias),
                                 importer.spaces \cup Reserved(top.spaces, top.alias))]
  <2> DEFINE output == importer.output \o Qualified(top.output, top.alias)
             spaces == importer.spaces \cup Reserved(top.spaces, top.alias)
  <2>1. [output |-> output, spaces |-> spaces] = imported
    BY DEF Imported, ScopeOf
  <2>2. loads' = [loads EXCEPT ![l] = Resumed(load, output, spaces)]
    BY <1>7
  <2> HIDE DEF output, spaces
  <2>3. Underway(l, Resumed(load, output, spaces), identities, owners)
    BY <1>1, <1>2, <1>7, <2>1, ResumedUnderway
  <2> QED
    BY <1>4, <2>2, <2>3
<1>8. CASE /\ Len(load.stack) # 1 /\ top.alias = <<>>
           /\ loads' = [loads EXCEPT ![l] = Resumed(load, top.output, top.spaces)]
  <2>1. [output |-> top.output, spaces |-> top.spaces] = ScopeOf(top)
    BY DEF ScopeOf
  <2>2. Underway(l, Resumed(load, top.output, top.spaces), identities, owners)
    BY <1>1, <1>2, <1>8, <2>1, ResumedUnderway
  <2> QED
    BY <1>4, <1>8, <2>2
<1> QED
  BY <1>3, <1>5, <1>6, <1>7, <1>8

LEMMA CancelUnderway ==
    ASSUME Inv, AllUnderway, NEW l \in Loads, Cancel(l)
    PROVE  AllUnderway'
<1> DEFINE new == Cancelled
<1>1. Underway(l, new, identities, owners')
  BY Ends
<1>2. /\ loads' = [loads EXCEPT ![l] = new] /\ identities' = identities
      /\ owners' = Kept(owners, tasks', loads')
  BY DEF Cancel, ByLoad
<1> HIDE DEF new
<1> QED
  BY <1>1, <1>2, KeptPaths, OneMoves

\* What an owner does: what it keeps, it keeps where nothing was.
LEMMA OwnerUnderway ==
    ASSUME Inv, AllUnderway, NEW o \in Owners, Read(o) \/ Finish(o) \/ Abort(o)
    PROVE  AllUnderway'
<1>1. loads' = loads /\ \A b \in Owners : owners'[b].path = owners[b].path
  <2>1. owners \in [Owners -> OwnerRecord]
    BY DEF Inv, LoaderInv, TypeOK, OwnerRecord
  <2>2. \E state, what :
          owners' = [owners EXCEPT ![o].state = state, ![o].what = what]
    BY DEF Read, Finish, Abort, Refused, Known, Parsed, Settle
  <2>3. PICK state, what :
          owners' = [owners EXCEPT ![o].state = state, ![o].what = what]
    BY <2>2
  <2>4. \A b \in Owners : owners'[b].path = owners[b].path
    BY <2>1, <2>3 DEF OwnerRecord
  <2> QED
    BY <2>4 DEF Read, Finish, Abort
<1>2. Later(identities, identities')
  <2>1. CASE identities' = identities
    BY <2>1 DEF Later
  <2>2. CASE Parsed(o)
    <3>1. /\ identities \in [Identities -> Documents \cup {"none"}]
          /\ "none" \notin Documents
      BY TextsAssumption DEF Inv, LoaderInv, TypeOK, Refusals
    <3>2. CASE identities' = identities
      BY <3>2 DEF Later
    <3>3. CASE /\ identities[IdentityOf[owners[o].path]] = "none"
               /\ identities' = [identities EXCEPT ![IdentityOf[owners[o].path]] =
                                  owners[o].what]
      BY <3>1, <3>3 DEF Later
    <3> QED
      BY <2>2, <3>2, <3>3 DEF Parsed
  <2> QED
    BY <2>1, <2>2 DEF Read, Finish, Abort, Refused, Known
<1>3. \A l \in Loads : loads[l].state = "waiting" => loads[l].owner \in Owners
  BY DEF Inv, LoadsShaped, Shaped
<1>4. \A l \in Loads : Underway(l, loads[l], identities', owners')
  BY <1>1, <1>2, <1>3, StaysUnderway DEF AllUnderway
<1> QED
  BY <1>1, <1>4 DEF AllUnderway

\* A call that has not begun has everything before it.
LEMMA InitUnderway == Init => AllUnderway
<1> SUFFICES ASSUME Init, NEW l \in Loads
             PROVE  Underway(l, loads[l], identities, owners)
  BY DEF AllUnderway
<1> DEFINE empty == <<>>
<1>1. loads[l] = Call("idle", NoOwner, empty, empty, {}, "none")
  BY DEF Init, Fresh, Call
<1>2. /\ Whole(loads[l]) /\ loads[l].state = "idle" /\ loads[l].stack = empty
      /\ loads[l].skipped = {}
  <2> DEFINE load == loads[l]
  <2>1. load = Call("idle", NoOwner, empty, empty, {}, "none")
    BY <1>1
  <2> HIDE DEF load, empty
  <2>2. /\ Whole(load) /\ load.state = "idle" /\ load.stack = empty
        /\ load.skipped = {}
    BY <2>1, CallFields
  <2> QED
    BY <2>2 DEF load
<1>3. Expanding(l, identities, <<>>, {})
  <2>1. Line(<<>>) /\ Len(<<>>) = 0
    BY EmptySeq DEF Line
  <2> QED
    BY <2>1 DEF Expanding, Links
<1> QED
  BY <1>2, <1>3 DEF Underway

LEMMA UnderwayStep == Inv /\ AllUnderway /\ [Next]_vars => AllUnderway'
<1> SUFFICES ASSUME Inv, AllUnderway, [Next]_vars
             PROVE  AllUnderway'
  OBVIOUS
<1>1. ASSUME NEW l \in Loads, Begin(l) \/ Expand(l) \/ Cancel(l)
      PROVE  AllUnderway'
  BY <1>1, BeginUnderway, DefineStep, RequestUnderway, WakeUnderway, ReturnUnderway,
     CancelUnderway DEF Expand
<1>2. ASSUME NEW o \in Owners, Read(o) \/ Finish(o) \/ Abort(o)
      PROVE  AllUnderway'
  BY <1>2, OwnerUnderway
<1>3. CASE UNCHANGED <<owners, identities, loads>>
  BY <1>3 DEF AllUnderway
<1>4. ASSUME NEW i \in Identities, Edit(i)
      PROVE  AllUnderway'
  BY <1>3, <1>4 DEF Edit
<1>5. CASE UNCHANGED vars
  BY <1>3, <1>5 DEF vars
<1> QED
  BY <1>1, <1>2, <1>4, <1>5 DEF Next, Rest

-----------------------------------------------------------------------------
(* Closed sets exist, so what is in every one of them is not everything.   *)

Declared == UNION {{Declarations[text][n] : n \in 1..Len(Declarations[text])} : text \in Documents}
Parts == (UNION {Range(d.name) : d \in Declared}) \cup (UNION {Range(d.alias) : d \in Declared})
AllDefinitions ==
    [name : Seq(Parts), value : {d.value : d \in Declared}, at : Documents \X Nat]
AllScopes == [output : Seq(AllDefinitions), spaces : SUBSET Seq(Parts)]

LEMMA NamesMade ==
    ASSUME NEW text \in Documents, NEW n \in 1..Len(Declarations[text])
    PROVE  LET declaration == Declarations[text][n] IN
           /\ declaration \in Declared
           /\ declaration.kind = "define" => declaration.name \in Seq(Parts)
           /\ declaration.kind = "import" => declaration.alias \in Seq(Parts)
<1> DEFINE declaration == Declarations[text][n]
<1>1. declaration \in Declared
  BY DEF Declared
<1> HIDE DEF declaration
<1>2. Range(declaration.name) \subseteq Parts /\ Range(declaration.alias) \subseteq Parts
  <2>1. /\ Range(declaration.name) \in {Range(d.name) : d \in Declared}
        /\ Range(declaration.alias) \in {Range(d.alias) : d \in Declared}
    BY <1>1, Zenon
  <2> DEFINE names == {Range(d.name) : d \in Declared}
             aliases == {Range(d.alias) : d \in Declared}
  <2>2. Parts = (UNION names) \cup (UNION aliases)
    BY DEF Parts
  <2>3. Range(declaration.name) \in names /\ Range(declaration.alias) \in aliases
    BY <2>1
  <2> HIDE DEF names, aliases
  <2>4. Range(declaration.name) \subseteq UNION names
    BY <2>3, Zenon
  <2>5. Range(declaration.alias) \subseteq UNION aliases
    BY <2>3, Zenon
  <2> QED
    BY <2>2, <2>4, <2>5, Zenon
<1>3. /\ declaration.kind = "define" => declaration.name \in Seq(Range(declaration.name))
      /\ declaration.kind = "import" => declaration.alias \in Seq(Range(declaration.alias))
  BY NamesAssumption DEF Named, declaration
<1>4. /\ declaration.kind = "define" => declaration.name \in Seq(Parts)
      /\ declaration.kind = "import" => declaration.alias \in Seq(Parts)
  BY <1>2, <1>3, SeqMonotonic
<1> QED
  BY <1>1, <1>4 DEF declaration

LEMMA ScopesDefined ==
    ASSUME NEW document \in Documents, NEW next \in 1..Len(Declarations[document]),
           NEW scope \in AllScopes, Declarations[document][next].kind = "define"
    PROVE  Defined(document, next, scope) \in AllScopes
<1>1. Definition(document, next) \in AllDefinitions
  <2>1. Len(Declarations[document]) \in Nat
    BY TextsAssumption DEF Texts
  <2>2. <<document, next>> \in Documents \X Nat
    BY <2>1
  <2> QED
    BY <2>2, NamesMade DEF AllDefinitions, Definition
<1> HIDE DEF Definition
<1>2. scope.output \in Seq(AllDefinitions) /\ scope.spaces \in SUBSET Seq(Parts)
  BY DEF AllScopes
<1>3. Append(scope.output, Definition(document, next)) \in Seq(AllDefinitions)
  BY <1>1, <1>2, AppendProperties
<1> QED
  BY <1>2, <1>3 DEF Defined, AllScopes

LEMMA ScopesImported ==
    ASSUME NEW scope \in AllScopes, NEW inner \in AllScopes, NEW alias \in Seq(Parts)
    PROVE  Imported(scope, inner, alias) \in AllScopes
<1>1. /\ scope.output \in Seq(AllDefinitions) /\ scope.spaces \in SUBSET Seq(Parts)
      /\ inner.output \in Seq(AllDefinitions) /\ inner.spaces \in SUBSET Seq(Parts)
  BY DEF AllScopes
<1>2. ASSUME NEW d \in AllDefinitions
      PROVE  [d EXCEPT !.name = alias \o @] \in AllDefinitions
  <2>1. alias \o d.name \in Seq(Parts)
    BY ConcatProperties DEF AllDefinitions
  <2> QED
    BY <2>1 DEF AllDefinitions
<1>3. Qualified(inner.output, alias) \in Seq(AllDefinitions)
  <2> DEFINE m == Len(inner.output)
  <2>1. m \in Nat /\ DOMAIN inner.output = 1..m /\ \A i \in 1..m : inner.output[i] \in AllDefinitions
    BY <1>1, LenProperties, ElementOfSeq
  <2>2. Qualified(inner.output, alias) = [i \in 1..m |-> [inner.output[i] EXCEPT !.name = alias \o @]]
    BY <2>1 DEF Qualified
  <2> HIDE DEF m
  <2>3. \A i \in 1..m : [inner.output[i] EXCEPT !.name = alias \o @] \in AllDefinitions
    BY <1>2, <2>1
  <2> DEFINE moved(i) == [inner.output[i] EXCEPT !.name = alias \o @]
  <2>4. Qualified(inner.output, alias) = [i \in 1..m |-> moved(i)] /\ \A i \in 1..m : moved(i) \in AllDefinitions
    BY <2>2, <2>3
  <2> HIDE DEF moved
  <2> QED
    BY <2>1, <2>4, IsASeq
<1>4. scope.output \o Qualified(inner.output, alias) \in Seq(AllDefinitions)
  BY <1>1, <1>3, ConcatProperties
<1>5. scope.spaces \cup Reserved(inner.spaces, alias) \in SUBSET Seq(Parts)
  <2>1. \A space \in inner.spaces : alias \o space \in Seq(Parts)
    BY <1>1, ConcatProperties
  <2> QED
    BY <1>1, <2>1 DEF Reserved
<1> QED
  BY <1>4, <1>5 DEF Imported, AllScopes

LEMMA ScopesExist == Rich(AllScopes)
<1>1. Nothing \in AllScopes
  BY EmptySeq DEF Nothing, AllScopes
<1> QED
  BY <1>1, NamesMade, ScopesDefined, ScopesImported DEF Rich

LEMMA ClosedExist ==
    ASSUME NEW l, NEW snapshots, NEW missing
    PROVE  \E derived : Closed(l, snapshots, missing, AllScopes, derived)
<1> WITNESS Documents \X (Nat \ {0}) \X Seq(Nat) \X AllScopes \X AllScopes
<1> QED
  BY ScopesExist DEF Closed

\* What a finished load returns is the expansion of its root: of the one snapshot
\* kept for each source, whenever and by whichever owner it was read, in the order of the
\* declarations, without the optional files it found absent, and of nothing else
\* (config_loader.py:92-104, 251-311).
THEOREM ResultExpands ==
    Spec => [](\A l \in Loads : loads[l].state = "done" =>
                   Expansion(l, identities, loads[l].skipped, loads[l].result))
<1> DEFINE Returned == \A l \in Loads : loads[l].state = "done" =>
                         Expansion(l, identities, loads[l].skipped, loads[l].result)
<1>1. Init => Inv /\ AllUnderway
  BY InitInv, InitUnderway
<1>2. Inv /\ AllUnderway /\ [Next]_vars => (Inv /\ AllUnderway)'
  BY InvStep, UnderwayStep
<1>3. AllUnderway => Returned
  BY DEF AllUnderway, Underway
<1> QED
  BY <1>1, <1>2, <1>3, PTL DEF Spec

=============================================================================
