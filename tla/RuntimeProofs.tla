---------------------------- MODULE RuntimeProofs ----------------------------
(***************************************************************************)
(* Three algorithms the runtime runs without interruption.                 *)
(*                                                                         *)
(* For any names, any number of objects and publications and any failures: *)
(* the close loop of a Frame's cache releases each object that was ever    *)
(* published once, in the reverse of the order of publication where        *)
(* nothing was recalculated or shared, and raises a failure that drops     *)
(* none.                                                                   *)
(*                                                                         *)
(* For any definitions, any number of references and any kinds asked for:  *)
(* the order of the definitions has each of them once, after those it      *)
(* refers to, and where there is no such order a circle is found and       *)
(* reported as it is.                                                      *)
(*                                                                         *)
(* For any Modules, any number of Frames and any updates, defaults and     *)
(* scopes: no Frame in use has an ambiguous name, and defaults that are    *)
(* lent or withdrawn leave the bindings of the chain as they were.         *)
(***************************************************************************)
EXTENDS CacheLifecycle, TopologicalOrder, FrameBindings, FiniteSetTheorems, FunctionTheorems, SequenceTheorems,
        WellFoundedInduction, TLAPS

NoRepeats(s) == \A i, j \in DOMAIN s : s[i] = s[j] => i = j

\* Every non-empty set of natural numbers has a least one.
LEMMA LeastNumber ==
  ASSUME NEW S \in SUBSET Nat, S # {}
  PROVE  \E n \in S : \A m \in S : n <= m
<1>1. PICK n \in S : \A m \in S : ~(<<m, n>> \in OpToRel(<, Nat))
  BY NatLessThanWellFounded, WFMin
<1>2. ASSUME NEW m \in S
      PROVE  n <= m
  <2>1. m \in Nat /\ n \in Nat
    OBVIOUS
  <2>2. ~(m < n)
    BY <1>1, <2>1 DEF OpToRel
  <2> QED
    BY <2>1, <2>2
<1> QED
  BY <1>2

----------------------------------------------------------------------------
\* The first occurrences of a list, in order

Fresh(s, i) == \A j \in 1 .. i - 1 : s[j] # s[i]
FreshOnes(s, n) == {j \in 1 .. n : Fresh(s, j)}
Count(s, n) == Cardinality(FreshOnes(s, n))
FirstOnes(s) ==
  [k \in 1 .. Cardinality(ToSet(s)) |->
     s[CHOOSE i \in DOMAIN s : Fresh(s, i) /\ Count(s, i) = k]]

LEMMA ResourcesAreFirstOnes == Resources = FirstOnes(Reverse(retired \o Values(results)))
BY DEF Resources, FirstOnes, Fresh, Count, FreshOnes

LEMMA CountsFinite ==
  ASSUME NEW s, NEW n \in Nat
  PROVE  IsFiniteSet(FreshOnes(s, n)) /\ Count(s, n) \in Nat
<1>1. IsFiniteSet(1 .. n)
  BY FS_Interval
<1>2. FreshOnes(s, n) \in SUBSET (1 .. n)
  BY DEF FreshOnes
<1>3. IsFiniteSet(FreshOnes(s, n))
  BY <1>1, <1>2, FS_Subset
<1> QED
  BY <1>3, FS_CardinalityType DEF Count

LEMMA CountNone ==
  ASSUME NEW s
  PROVE  Count(s, 0) = 0
<1>1. FreshOnes(s, 0) = {}
  BY DEF FreshOnes
<1> QED
  BY <1>1, FS_EmptySet DEF Count

LEMMA CountStep ==
  ASSUME NEW s, NEW n \in Nat
  PROVE  /\ Fresh(s, n + 1) => Count(s, n + 1) = Count(s, n) + 1
         /\ ~Fresh(s, n + 1) => Count(s, n + 1) = Count(s, n)
<1>1. IsFiniteSet(FreshOnes(s, n)) /\ n + 1 \notin FreshOnes(s, n)
  BY CountsFinite DEF FreshOnes
<1>2. CASE Fresh(s, n + 1)
  <2>1. FreshOnes(s, n + 1) = FreshOnes(s, n) \cup {n + 1}
    BY <1>2 DEF FreshOnes
  <2>2. Cardinality(FreshOnes(s, n) \cup {n + 1}) = Cardinality(FreshOnes(s, n)) + 1
    BY <1>1, FS_AddElement
  <2> QED
    BY <1>2, <2>1, <2>2 DEF Count
<1>3. CASE ~Fresh(s, n + 1)
  <2>1. FreshOnes(s, n + 1) = FreshOnes(s, n)
    <3>1. ASSUME NEW j \in 1 .. n + 1, Fresh(s, j)
          PROVE  j \in 1 .. n
      BY <1>3, <3>1
    <3> QED
      BY <3>1 DEF FreshOnes
  <2> QED
    BY <1>3, <2>1 DEF Count
<1> QED
  BY <1>2, <1>3

\* The count grows, and strictly at a first occurrence.
LEMMA CountGrows ==
  ASSUME NEW s, NEW n \in Nat, NEW m \in 0 .. n
  PROVE  /\ Count(s, m) <= Count(s, n)
         /\ m < n /\ Fresh(s, n) => Count(s, m) < Count(s, n)
<1>1. FreshOnes(s, m) \in SUBSET FreshOnes(s, n)
  BY DEF FreshOnes
<1>2. IsFiniteSet(FreshOnes(s, n)) /\ Count(s, n) \in Nat /\ Count(s, m) \in Nat
  BY CountsFinite
<1>3. Count(s, m) <= Count(s, n)
  BY <1>1, <1>2, FS_Subset DEF Count
<1>4. ASSUME m < n, Fresh(s, n)
      PROVE  Count(s, m) # Count(s, n)
  <2>1. n \in FreshOnes(s, n) /\ n \notin FreshOnes(s, m)
    BY <1>4 DEF FreshOnes
  <2> QED
    BY <1>1, <1>2, <2>1, FS_Subset DEF Count
<1> QED
  BY <1>2, <1>3, <1>4

\* Every value has a first occurrence.
LEMMA FirstOccurrence ==
  ASSUME NEW S, NEW s \in Seq(S), NEW i \in DOMAIN s
  PROVE  \E j \in DOMAIN s : Fresh(s, j) /\ s[j] = s[i]
<1> DEFINE same == {j \in DOMAIN s : s[j] = s[i]}
<1>1. same \in SUBSET Nat /\ i \in same /\ DOMAIN s = 1 .. Len(s)
  OBVIOUS
<1>2. PICK j \in same : \A m \in same : j <= m
  BY <1>1, LeastNumber
<1>3. Fresh(s, j)
  <2> SUFFICES ASSUME NEW m \in 1 .. j - 1, s[m] = s[j]
               PROVE  FALSE
    BY DEF Fresh
  <2>1. m \in same
    BY <1>1
  <2> QED
    BY <1>1, <1>2, <2>1
<1> QED
  BY <1>3

LEMMA CountAll ==
  ASSUME NEW S, NEW s \in Seq(S)
  PROVE  Count(s, Len(s)) = Cardinality(ToSet(s))
<1> DEFINE first == FreshOnes(s, Len(s))
           f == [j \in first |-> s[j]]
<1>1. DOMAIN s = 1 .. Len(s) /\ Len(s) \in Nat
  OBVIOUS
<1>2. IsFiniteSet(first)
  BY <1>1, CountsFinite
<1>3. f \in [first -> ToSet(s)]
  BY <1>1 DEF FreshOnes, ToSet
<1>4. ASSUME NEW i \in first, NEW j \in first, f[i] = f[j]
      PROVE  i = j
  <2>1. /\ i \in 1 .. Len(s) /\ j \in 1 .. Len(s) /\ s[i] = s[j]
        /\ Fresh(s, i) /\ Fresh(s, j)
    BY <1>4 DEF FreshOnes
  <2>2. ~(i < j) /\ ~(j < i)
    BY <2>1 DEF Fresh
  <2> QED
    BY <2>1, <2>2
<1>5. ASSUME NEW v \in ToSet(s)
      PROVE  \E j \in first : f[j] = v
  <2>1. PICK i \in DOMAIN s : s[i] = v
    BY DEF ToSet
  <2>2. PICK j \in DOMAIN s : Fresh(s, j) /\ s[j] = s[i]
    BY FirstOccurrence
  <2>3. j \in first
    BY <1>1, <2>2 DEF FreshOnes
  <2> QED
    BY <2>1, <2>2, <2>3
<1> HIDE DEF f, first
<1>6. f \in Bijection(first, ToSet(s))
  BY <1>3, <1>4, <1>5 DEF Bijection, Injection, Surjection, IsInjective
<1>7. ExistsBijection(first, ToSet(s))
  BY <1>6 DEF ExistsBijection
<1>8. Cardinality(ToSet(s)) = Cardinality(first)
  BY <1>2, <1>7, FS_Bijection
<1> QED
  BY <1>8 DEF Count, first

\* There is one first occurrence of each rank.
LEMMA RankTaken ==
  ASSUME NEW S, NEW s \in Seq(S), NEW k \in 1 .. Cardinality(ToSet(s))
  PROVE  \E i \in DOMAIN s : Fresh(s, i) /\ Count(s, i) = k
<1> DEFINE enough == {n \in 0 .. Len(s) : k <= Count(s, n)}
<1>1. Len(s) \in Nat /\ DOMAIN s = 1 .. Len(s) /\ Count(s, Len(s)) = Cardinality(ToSet(s))
  BY CountAll
<1>2. Count(s, Len(s)) \in Nat /\ k \in 1 .. Count(s, Len(s))
  BY <1>1, CountsFinite
<1>3. Len(s) \in enough /\ enough \in SUBSET Nat
  BY <1>1, <1>2
<1>4. PICK n \in enough : \A m \in enough : n <= m
  BY <1>3, LeastNumber
<1>5. n # 0
  BY <1>2, <1>4, CountNone
<1>6. n - 1 \in 0 .. Len(s) /\ n - 1 \in Nat /\ n = (n - 1) + 1
  BY <1>1, <1>4, <1>5
<1>7. n - 1 \notin enough
  BY <1>4, <1>6
<1>8. Count(s, n - 1) < k /\ k <= Count(s, n) /\ Count(s, n - 1) \in Nat
  BY <1>2, <1>4, <1>6, <1>7, CountsFinite
<1>9. /\ Fresh(s, n) => Count(s, n) = Count(s, n - 1) + 1
      /\ ~Fresh(s, n) => Count(s, n) = Count(s, n - 1)
  BY <1>6, CountStep
<1>10. Fresh(s, n) /\ Count(s, n) = k
  BY <1>2, <1>8, <1>9
<1> QED
  BY <1>1, <1>4, <1>5, <1>10

LEMMA RankUnique ==
  ASSUME NEW S, NEW s \in Seq(S), NEW i \in DOMAIN s, NEW j \in DOMAIN s,
         Fresh(s, i), Fresh(s, j), Count(s, i) = Count(s, j)
  PROVE  i = j
<1>1. i \in Nat /\ j \in Nat /\ Count(s, i) \in Nat /\ Count(s, j) \in Nat
  BY CountsFinite
<1>2. ~(i < j)
  BY <1>1, CountGrows
<1>3. ~(j < i)
  BY <1>1, CountGrows
<1> QED
  BY <1>1, <1>2, <1>3

\* Each value is listed once.
LEMMA FirstOnesSound ==
  ASSUME NEW S, NEW s \in Seq(S)
  PROVE  /\ FirstOnes(s) \in Seq(S)
         /\ NoRepeats(FirstOnes(s))
         /\ ToSet(FirstOnes(s)) = ToSet(s)
<1> DEFINE n == Cardinality(ToSet(s))
           Ranked(i, k) == Fresh(s, i) /\ Count(s, i) = k
           place == [k \in 1 .. n |-> CHOOSE i \in DOMAIN s : Ranked(i, k)]
<1>1. n \in Nat /\ Len(s) \in Nat /\ DOMAIN s = 1 .. Len(s) /\ Count(s, Len(s)) = n
  BY CountAll, CountsFinite
<1>2. ASSUME NEW k \in 1 .. n
      PROVE  place[k] \in DOMAIN s /\ Fresh(s, place[k]) /\ Count(s, place[k]) = k
  <2>1. \E i \in DOMAIN s : Ranked(i, k)
    BY RankTaken
  <2> QED
    BY <2>1
<1>3. FirstOnes(s) = [k \in 1 .. n |-> s[place[k]]]
  BY DEF FirstOnes
<1> HIDE DEF place, n
<1>4. /\ DOMAIN FirstOnes(s) = 1 .. n
      /\ \A k \in 1 .. n : FirstOnes(s)[k] = s[place[k]]
  BY <1>3
<1>5. FirstOnes(s) \in Seq(S)
  BY <1>1, <1>2, <1>3
<1>6. NoRepeats(FirstOnes(s))
  <2> SUFFICES ASSUME NEW k \in 1 .. n, NEW m \in 1 .. n, s[place[k]] = s[place[m]]
               PROVE  k = m
    BY <1>4 DEF NoRepeats
  <2>1. /\ place[k] \in DOMAIN s /\ Fresh(s, place[k]) /\ Count(s, place[k]) = k
        /\ place[m] \in DOMAIN s /\ Fresh(s, place[m]) /\ Count(s, place[m]) = m
    BY <1>2
  <2>2. ~(place[k] < place[m]) /\ ~(place[m] < place[k])
    BY <1>1, <2>1 DEF Fresh
  <2>3. place[k] = place[m]
    BY <1>1, <2>1, <2>2
  <2> QED
    BY <2>1, <2>3
<1>7. ASSUME NEW v \in ToSet(s)
      PROVE  \E k \in 1 .. n : s[place[k]] = v
  <2>1. PICK i \in DOMAIN s : s[i] = v
    BY DEF ToSet
  <2>2. PICK j \in DOMAIN s : Fresh(s, j) /\ s[j] = s[i]
    BY FirstOccurrence
  <2>3. Count(s, j) \in 1 .. n
    <3>1. j \in 1 .. Len(s) /\ j \in Nat
      BY <1>1
    <3>2. Count(s, j) \in Nat /\ Count(s, j) <= Count(s, Len(s))
      BY <1>1, <3>1, CountsFinite, CountGrows
    <3>3. Count(s, 0) < Count(s, j)
      BY <2>2, <3>1, CountGrows
    <3> QED
      BY <1>1, <3>2, <3>3, CountNone
  <2>4. place[Count(s, j)] = j
    BY <1>2, <2>2, <2>3, RankUnique
  <2> QED
    BY <2>1, <2>2, <2>3, <2>4
<1>8. ToSet(FirstOnes(s)) \subseteq ToSet(s)
  BY <1>2, <1>4 DEF ToSet
<1>9. ToSet(s) \subseteq ToSet(FirstOnes(s))
  BY <1>4, <1>7 DEF ToSet
<1> QED
  BY <1>5, <1>6, <1>8, <1>9

\* A list without repeats is left as it is.
LEMMA FirstOnesOfDistinct ==
  ASSUME NEW S, NEW s \in Seq(S), NoRepeats(s)
  PROVE  FirstOnes(s) = s
<1>1. Len(s) \in Nat /\ DOMAIN s = 1 .. Len(s)
  OBVIOUS
<1>2. ASSUME NEW i \in 1 .. Len(s)
      PROVE  Fresh(s, i) /\ Count(s, i) = i
  <2>1. \A j \in 1 .. i : Fresh(s, j)
    BY <1>1 DEF Fresh, NoRepeats
  <2>2. FreshOnes(s, i) = 1 .. i
    BY <2>1 DEF FreshOnes
  <2>3. i \in Nat /\ i > 0
    OBVIOUS
  <2>4. Cardinality(1 .. i) = i
    BY <2>3, FS_Interval
  <2> QED
    BY <2>1, <2>2, <2>3, <2>4 DEF Count
<1>3. Cardinality(ToSet(s)) = Len(s)
  <2>1. Count(s, Len(s)) = Cardinality(ToSet(s))
    BY CountAll
  <2>2. CASE Len(s) = 0
    BY <2>1, <2>2, CountNone
  <2>3. CASE Len(s) > 0
    BY <1>1, <1>2, <2>1, <2>3
  <2> QED
    BY <1>1, <2>2, <2>3
<1> DEFINE place(k) == CHOOSE i \in DOMAIN s : Fresh(s, i) /\ Count(s, i) = k
<1>4. ASSUME NEW k \in 1 .. Len(s)
      PROVE  place(k) = k
  <2>1. k \in DOMAIN s /\ Fresh(s, k) /\ Count(s, k) = k
    BY <1>1, <1>2
  <2>2. \A i \in DOMAIN s : Fresh(s, i) /\ Count(s, i) = k => i = k
    BY <1>1, <1>2
  <2> QED
    BY <2>1, <2>2
<1>5. FirstOnes(s) = [k \in 1 .. Cardinality(ToSet(s)) |-> s[place(k)]]
  BY DEF FirstOnes
<1> HIDE DEF place
<1>6. FirstOnes(s) = [k \in 1 .. Len(s) |-> s[k]]
  BY <1>3, <1>4, <1>5
<1> QED
  BY <1>1, <1>6

\* As many places as values.
LEMMA LengthOfDistinct ==
  ASSUME NEW S, NEW s \in Seq(S), NoRepeats(s)
  PROVE  Len(s) = Cardinality(ToSet(s))
<1>1. FirstOnes(s) = s
  BY FirstOnesOfDistinct
<1>2. Cardinality(ToSet(s)) \in Nat
  BY CountAll, CountsFinite
<1>3. DOMAIN FirstOnes(s) = 1 .. Cardinality(ToSet(s))
  BY DEF FirstOnes
<1> QED
  BY <1>1, <1>2, <1>3

----------------------------------------------------------------------------
\* Dictionaries

Pairs == Name \X Object
OneEntryEach(dict) == \A i, j \in DOMAIN dict : dict[i][1] = dict[j][1] => i = j

LEMMA Concatenation ==
  ASSUME NEW S, NEW s \in Seq(S), NEW t \in Seq(S)
  PROVE  /\ s \o t \in Seq(S)
         /\ Len(s \o t) = Len(s) + Len(t)
         /\ \A i \in 1 .. Len(s) : (s \o t)[i] = s[i]
         /\ \A i \in 1 .. Len(t) : (s \o t)[Len(s) + i] = t[i]
OBVIOUS

LEMMA Places ==
  ASSUME NEW dict \in Seq(Pairs)
  PROVE  /\ Len(dict) \in Nat /\ DOMAIN dict = 1 .. Len(dict)
         /\ Values(dict) \in Seq(Object)
         /\ DOMAIN Values(dict) = DOMAIN dict /\ Len(Values(dict)) = Len(dict)
         /\ \A i \in DOMAIN dict : /\ dict[i][1] \in Name /\ dict[i][2] \in Object
                                   /\ Values(dict)[i] = dict[i][2]
<1>1. Len(dict) \in Nat /\ DOMAIN dict = 1 .. Len(dict)
  OBVIOUS
<1>2. \A i \in DOMAIN dict : dict[i][1] \in Name /\ dict[i][2] \in Object
  BY <1>1 DEF Pairs
<1>3. Values(dict) = [i \in 1 .. Len(dict) |-> dict[i][2]]
  BY <1>1 DEF Values
<1> QED
  BY <1>1, <1>2, <1>3

LEMMA Held ==
  ASSUME NEW dict \in Seq(Pairs), NEW name, name \in Keys(dict)
  PROVE  /\ At(dict, name) \in DOMAIN dict
         /\ dict[At(dict, name)][1] = name
         /\ Lookup(dict, name) = dict[At(dict, name)][2]
         /\ Lookup(dict, name) \in ToSet(Values(dict))
         /\ Lookup(dict, name) \in Object
<1>1. \E i \in DOMAIN dict : dict[i][1] = name
  BY DEF Keys
<1>2. At(dict, name) \in DOMAIN dict /\ dict[At(dict, name)][1] = name
  BY <1>1 DEF At
<1> QED
  BY <1>2, Places DEF Lookup, ToSet

\* A new key is the last one.
LEMMA PutNew ==
  ASSUME NEW dict \in Seq(Pairs), OneEntryEach(dict), NEW name \in Name, NEW object \in Object,
         name \notin Keys(dict)
  PROVE  /\ Put(dict, name, object) \in Seq(Pairs)
         /\ OneEntryEach(Put(dict, name, object))
         /\ Values(Put(dict, name, object)) = Append(Values(dict), object)
<1> DEFINE new == Append(dict, <<name, object>>)
<1>1. Put(dict, name, object) = new
  BY DEF Put
<1>2. <<name, object>> \in Pairs
  BY DEF Pairs
<1>3. /\ new \in Seq(Pairs)
      /\ Len(new) = Len(dict) + 1
      /\ new[Len(dict) + 1] = <<name, object>>
      /\ \A i \in 1 .. Len(dict) : new[i] = dict[i]
  BY <1>2
<1> HIDE DEF new
<1>4. Len(dict) \in Nat /\ DOMAIN dict = 1 .. Len(dict) /\ DOMAIN new = 1 .. Len(dict) + 1
  BY <1>3
<1>5. \A i \in DOMAIN dict : dict[i][1] # name
  BY DEF Keys
<1>6. OneEntryEach(new)
  <2> SUFFICES ASSUME NEW i \in 1 .. Len(dict) + 1, NEW j \in 1 .. Len(dict) + 1,
                      new[i][1] = new[j][1]
               PROVE  i = j
    BY <1>4 DEF OneEntryEach
  <2>1. CASE i \in 1 .. Len(dict) /\ j \in 1 .. Len(dict)
    BY <1>3, <1>4, <2>1 DEF OneEntryEach
  <2>2. CASE i = Len(dict) + 1 /\ j \in 1 .. Len(dict)
    BY <1>3, <1>4, <1>5, <2>2
  <2>3. CASE i \in 1 .. Len(dict) /\ j = Len(dict) + 1
    BY <1>3, <1>4, <1>5, <2>3
  <2> QED
    BY <1>4, <2>1, <2>2, <2>3
<1>7. Values(new) = Append(Values(dict), object)
  <2>1. /\ Values(new) \in Seq(Object) /\ Len(Values(new)) = Len(dict) + 1
        /\ \A i \in 1 .. Len(dict) + 1 : Values(new)[i] = new[i][2]
    BY <1>3, <1>4, Places
  <2>2. /\ Values(dict) \in Seq(Object) /\ Len(Values(dict)) = Len(dict)
        /\ \A i \in 1 .. Len(dict) : Values(dict)[i] = dict[i][2]
    BY <1>4, Places
  <2>3. /\ Append(Values(dict), object) \in Seq(Object)
        /\ Len(Append(Values(dict), object)) = Len(dict) + 1
        /\ Append(Values(dict), object)[Len(dict) + 1] = object
        /\ \A i \in 1 .. Len(dict) : Append(Values(dict), object)[i] = Values(dict)[i]
    BY <2>2
  <2>4. \A i \in 1 .. Len(dict) + 1 : Values(new)[i] = Append(Values(dict), object)[i]
    BY <1>3, <1>4, <2>1, <2>2, <2>3
  <2> QED
    BY <2>1, <2>3, <2>4
<1> QED
  BY <1>1, <1>3, <1>6, <1>7

\* Assignment to a present key gives up one value.
LEMMA PutPresent ==
  ASSUME NEW dict \in Seq(Pairs), OneEntryEach(dict), NEW name \in Name, NEW object \in Object,
         name \in Keys(dict)
  PROVE  /\ Put(dict, name, object) \in Seq(Pairs)
         /\ OneEntryEach(Put(dict, name, object))
         /\ ToSet(Values(Put(dict, name, object))) \cup {Lookup(dict, name)}
              = ToSet(Values(dict)) \cup {object}
         /\ object \in ToSet(Values(Put(dict, name, object)))
<1> DEFINE new == [dict EXCEPT ![At(dict, name)] = <<name, object>>]
           p == At(dict, name)
<1>1. Put(dict, name, object) = new
  BY DEF Put
<1>2. /\ p \in DOMAIN dict /\ dict[p][1] = name /\ Lookup(dict, name) = dict[p][2]
      /\ Len(dict) \in Nat /\ DOMAIN dict = 1 .. Len(dict)
  BY Held
<1>3. <<name, object>> \in Pairs
  BY DEF Pairs
<1> HIDE DEF p
<1>4. /\ new \in Seq(Pairs) /\ DOMAIN new = DOMAIN dict
      /\ new[p] = <<name, object>>
      /\ \A i \in DOMAIN dict : i # p => new[i] = dict[i]
  BY <1>2, <1>3 DEF p
<1> HIDE DEF new
<1>5. \A i \in DOMAIN dict : new[i][1] = dict[i][1]
  BY <1>2, <1>4
<1>6. OneEntryEach(new)
  BY <1>4, <1>5 DEF OneEntryEach
<1>7. /\ DOMAIN Values(dict) = DOMAIN dict /\ DOMAIN Values(new) = DOMAIN dict
      /\ \A i \in DOMAIN dict : Values(dict)[i] = dict[i][2] /\ Values(new)[i] = new[i][2]
  BY <1>4, Places
<1>8. /\ ToSet(Values(new)) \cup {dict[p][2]} = ToSet(Values(dict)) \cup {object}
      /\ object \in ToSet(Values(new))
  <2>1. ASSUME NEW i \in DOMAIN dict
        PROVE  /\ Values(new)[i] \in ToSet(Values(dict)) \cup {object}
               /\ Values(dict)[i] \in ToSet(Values(new)) \cup {dict[p][2]}
    BY <1>4, <1>7 DEF ToSet
  <2>2. dict[p][2] \in ToSet(Values(dict)) /\ object \in ToSet(Values(new))
    BY <1>2, <1>4, <1>7 DEF ToSet
  <2>3. ToSet(Values(new)) \subseteq ToSet(Values(dict)) \cup {object}
    BY <1>7, <2>1 DEF ToSet
  <2>4. ToSet(Values(dict)) \subseteq ToSet(Values(new)) \cup {dict[p][2]}
    BY <1>7, <2>1 DEF ToSet
  <2> QED
    BY <2>2, <2>3, <2>4
<1> QED
  BY <1>1, <1>2, <1>4, <1>6, <1>8

\* So does the removal of a key.
LEMMA PopPresent ==
  ASSUME NEW dict \in Seq(Pairs), OneEntryEach(dict), NEW name \in Name, name \in Keys(dict)
  PROVE  /\ Pop(dict, name) \in Seq(Pairs)
         /\ OneEntryEach(Pop(dict, name))
         /\ ToSet(Values(Pop(dict, name))) \cup {Lookup(dict, name)} = ToSet(Values(dict))
<1> DEFINE p == At(dict, name)
           new == RemoveAt(dict, p)
<1>1. Pop(dict, name) = new
  BY DEF Pop
<1>2. /\ p \in DOMAIN dict /\ dict[p][1] = name /\ Lookup(dict, name) = dict[p][2]
      /\ Len(dict) \in Nat /\ DOMAIN dict = 1 .. Len(dict)
  BY Held
<1> HIDE DEF p
<1>3. /\ new \in Seq(Pairs) /\ Len(new) = Len(dict) - 1
      /\ \A i \in 1 .. Len(dict) - 1 : new[i] = IF i < p THEN dict[i] ELSE dict[i + 1]
  <2> DEFINE front == SubSeq(dict, 1, p - 1)
             back == SubSeq(dict, p + 1, Len(dict))
  <2>1. /\ front \in Seq(Pairs) /\ Len(front) = p - 1
        /\ \A i \in 1 .. p - 1 : front[i] = dict[i]
    BY <1>2
  <2>2. /\ back \in Seq(Pairs) /\ Len(back) = Len(dict) - p
        /\ \A i \in 1 .. Len(dict) - p : back[i] = dict[p + i]
    BY <1>2
  <2>3. new = front \o back
    BY DEF RemoveAt
  <2> HIDE DEF front, back, new
  <2>4. new \in Seq(Pairs) /\ Len(new) = Len(dict) - 1
    <3>1. new \in Seq(Pairs) /\ Len(new) = Len(front) + Len(back)
      BY <2>1, <2>2, <2>3, Concatenation
    <3>2. p \in 1 .. Len(dict)
      BY <1>2
    <3> QED
      BY <1>2, <2>1, <2>2, <3>1, <3>2
  <2>5. ASSUME NEW i \in 1 .. Len(dict) - 1
        PROVE  new[i] = IF i < p THEN dict[i] ELSE dict[i + 1]
    <3>1. CASE i < p
      BY <1>2, <2>1, <2>2, <2>3, <3>1
    <3>2. CASE ~(i < p)
      <4>1. i - (p - 1) \in 1 .. Len(dict) - p /\ p + (i - (p - 1)) = i + 1
        BY <1>2, <3>2
      <4>2. new[i] = back[i - (p - 1)]
        <5>1. /\ i \in 1 .. Len(front) + Len(back) /\ ~(i <= Len(front))
              /\ i - Len(front) = i - (p - 1)
          BY <1>2, <2>1, <2>2, <3>2
        <5> QED
          BY <2>1, <2>2, <2>3, <5>1, Concatenation
      <4> QED
        BY <2>2, <3>2, <4>1, <4>2
    <3> QED
      BY <3>1, <3>2
  <2> QED
    BY <2>4, <2>5
<1> HIDE DEF new
<1>4. /\ DOMAIN new = 1 .. Len(dict) - 1
      /\ \A i \in 1 .. Len(dict) - 1 : i < p => i \in DOMAIN dict /\ new[i] = dict[i]
      /\ \A i \in 1 .. Len(dict) - 1 : ~(i < p) => i + 1 \in DOMAIN dict /\ new[i] = dict[i + 1]
  BY <1>2, <1>3
<1>5. OneEntryEach(new)
  <2> SUFFICES ASSUME NEW i \in 1 .. Len(dict) - 1, NEW j \in 1 .. Len(dict) - 1,
                      new[i][1] = new[j][1]
               PROVE  i = j
    BY <1>4 DEF OneEntryEach
  <2> DEFINE at(k) == IF k < p THEN k ELSE k + 1
  <2>1. /\ at(i) \in DOMAIN dict /\ new[i] = dict[at(i)]
        /\ at(j) \in DOMAIN dict /\ new[j] = dict[at(j)]
    BY <1>4
  <2>2. at(i) = at(j)
    BY <2>1 DEF OneEntryEach
  <2> QED
    BY <1>2, <2>2
<1>6. /\ DOMAIN Values(dict) = DOMAIN dict /\ DOMAIN Values(new) = DOMAIN new
      /\ \A i \in DOMAIN dict : Values(dict)[i] = dict[i][2]
      /\ \A i \in DOMAIN new : Values(new)[i] = new[i][2]
  BY <1>3, Places
<1>7. ToSet(Values(new)) \subseteq ToSet(Values(dict))
  <2> SUFFICES ASSUME NEW i \in DOMAIN new
               PROVE  Values(new)[i] \in ToSet(Values(dict))
    BY <1>6 DEF ToSet
  <2>1. \E j \in DOMAIN dict : new[i] = dict[j]
    BY <1>4
  <2> QED
    BY <1>6, <2>1 DEF ToSet
<1>8. ToSet(Values(dict)) \subseteq ToSet(Values(new)) \cup {dict[p][2]}
  <2> SUFFICES ASSUME NEW j \in DOMAIN dict, j # p
               PROVE  Values(dict)[j] \in ToSet(Values(new))
    BY <1>6 DEF ToSet
  <2>1. CASE j < p
    <3>1. j \in 1 .. Len(dict) - 1 /\ new[j] = dict[j]
      BY <1>2, <1>4, <2>1
    <3> QED
      BY <1>4, <1>6, <3>1 DEF ToSet
  <2>2. CASE ~(j < p)
    <3>1. j - 1 \in 1 .. Len(dict) - 1 /\ ~(j - 1 < p) /\ (j - 1) + 1 = j
      BY <1>2, <2>2
    <3>2. new[j - 1] = dict[j]
      BY <1>4, <3>1
    <3> QED
      BY <1>4, <1>6, <3>1, <3>2 DEF ToSet
  <2> QED
    BY <2>1, <2>2
<1>9. dict[p][2] \in ToSet(Values(dict))
  BY <1>2, <1>6 DEF ToSet
<1> QED
  BY <1>1, <1>2, <1>3, <1>5, <1>7, <1>8, <1>9

----------------------------------------------------------------------------
\* The invariant

\* Objects are numbered in the order of their first publication.
CacheTypes ==
  /\ CacheTypeOK
  /\ failure \in [head : {"none", "ordinary", "control"}, first : Object \cup {0},
                  retained : SUBSET Object]
  /\ badCloses \in Seq({"ordinary", "control"} \X Object)
  /\ \A i \in DOMAIN acquired : acquired[i] = i

\* Until the close loop begins, the cache and the retired objects hold each object that
\* was published; plainly published ones are in their order.
AllHeld ==
  phase = "open" =>
    /\ OneEntryEach(results)
    /\ ToSet(acquired) = ToSet(retired) \cup ToSet(Values(results))
    /\ plain => retired = <<>> /\ Values(results) = acquired
    /\ closes = <<>>

\* Then it walks along one list of them.
Walks(list) ==
  /\ NoRepeats(list)
  /\ ToSet(list) = ToSet(acquired)
  /\ plain => list = Reverse(acquired)
  /\ Len(list) = Len(closes) + Len(pending)
  /\ \A i \in DOMAIN closes : closes[i] = list[i]
  /\ \A i \in DOMAIN pending : pending[i] = list[Len(closes) + i]
OneWalk ==
  /\ phase # "open" => \E list \in Seq(Object) : Walks(list)
  /\ phase = "closed" => pending = <<>>

\* The failure so far is the first of those of the worse kind, and retains all.
Summed ==
  /\ badCloses = <<>> => failure = NoFailure
  /\ badCloses # <<>> =>
       \E i \in DOMAIN badCloses :
         /\ badCloses[i] = <<failure.head, failure.first>>
         /\ \A j \in DOMAIN badCloses :
              /\ j < i => badCloses[j][1] # failure.head
              /\ failure.head = "ordinary" => badCloses[j][1] = "ordinary"
  /\ failure.retained = {badCloses[i][2] : i \in DOMAIN badCloses}

IInv == CacheTypes /\ AllHeld /\ OneWalk /\ Summed

LEMMA EmptyList ==
  ASSUME NEW S
  PROVE  << >> \in Seq(S) /\ DOMAIN << >> = {} /\ Len(<< >>) = 0
OBVIOUS

LEMMA CacheInitHolds == CacheInit => IInv
<1> SUFFICES ASSUME CacheInit
             PROVE  IInv
  OBVIOUS
<1>1. /\ results = <<>> /\ failures = {} /\ retired = <<>> /\ phase = "open" /\ pending = <<>>
      /\ closes = <<>> /\ failure = NoFailure /\ badCloses = <<>> /\ acquired = <<>>
      /\ commits = 0 /\ plain = TRUE
  BY DEF CacheInit
<1>2. CacheTypes
  <2>1. failure.head = "none" /\ failure.retained = {}
    BY <1>1 DEF NoFailure
  <2>2. CacheTypeOK
    BY <1>1, <2>1, EmptyList DEF CacheTypeOK
  <2>3. failure \in [head : {"none", "ordinary", "control"}, first : Object \cup {0},
                     retained : SUBSET Object]
    BY <1>1 DEF NoFailure
  <2> QED
    BY <1>1, <2>2, <2>3, EmptyList DEF CacheTypes
<1>3. AllHeld
  <2>1. Values(<<>>) = <<>>
    BY EmptyList DEF Values
  <2> QED
    BY <1>1, <2>1, EmptyList DEF AllHeld, OneEntryEach, ToSet
<1>4. OneWalk
  BY <1>1 DEF OneWalk
<1>5. Summed
  BY <1>1, EmptyList DEF Summed, NoFailure
<1> QED
  BY <1>2, <1>3, <1>4, <1>5 DEF IInv

----------------------------------------------------------------------------
\* Publications

LEMMA AppendSet ==
  ASSUME NEW S, NEW s \in Seq(S), NEW v \in S
  PROVE  /\ Append(s, v) \in Seq(S)
         /\ ToSet(Append(s, v)) = ToSet(s) \cup {v}
<1>1. /\ Append(s, v) \in Seq(S) /\ Len(s) \in Nat /\ DOMAIN s = 1 .. Len(s)
      /\ DOMAIN Append(s, v) = 1 .. Len(s) + 1
      /\ Append(s, v)[Len(s) + 1] = v
      /\ \A i \in 1 .. Len(s) : Append(s, v)[i] = s[i]
  OBVIOUS
<1>2. ToSet(Append(s, v)) \subseteq ToSet(s) \cup {v}
  <2> SUFFICES ASSUME NEW i \in 1 .. Len(s) + 1
               PROVE  Append(s, v)[i] \in ToSet(s) \cup {v}
    BY <1>1 DEF ToSet
  <2>1. i \in 1 .. Len(s) \/ i = Len(s) + 1
    BY <1>1
  <2> QED
    BY <1>1, <2>1 DEF ToSet
<1>3. ToSet(s) \subseteq ToSet(Append(s, v))
  <2> SUFFICES ASSUME NEW i \in 1 .. Len(s)
               PROVE  s[i] \in ToSet(Append(s, v))
    BY <1>1 DEF ToSet
  <2>1. i \in 1 .. Len(s) + 1
    BY <1>1
  <2> QED
    BY <1>1, <2>1 DEF ToSet
<1>4. v \in ToSet(Append(s, v))
  <2>1. Len(s) + 1 \in 1 .. Len(s) + 1
    BY <1>1
  <2> QED
    BY <1>1, <2>1 DEF ToSet
<1> QED
  BY <1>1, <1>2, <1>3, <1>4

\* What a publication leaves alone.
LEMMA PublishingKeeps ==
  ASSUME IInv, Publishing, results' \in Seq(Pairs), failures' \subseteq Name,
         retired' \in Seq(Object), acquired' \in Seq(Object), plain' \in BOOLEAN,
         \A i \in DOMAIN acquired' : acquired'[i] = i,
         OneEntryEach(results'),
         ToSet(acquired') = ToSet(retired') \cup ToSet(Values(results')),
         plain' => retired' = <<>> /\ Values(results') = acquired'
  PROVE  IInv'
<1>1. /\ phase = "open" /\ commits \in Nat /\ commits' = commits + 1
      /\ UNCHANGED <<phase, pending, closes, failure, badCloses>>
  BY DEF Publishing, IInv, CacheTypes, CacheTypeOK
<1>2. CacheTypeOK'
  BY <1>1 DEF IInv, CacheTypes, CacheTypeOK, Pairs
<1>3. CacheTypes'
  BY <1>1, <1>2 DEF IInv, CacheTypes
<1>4. AllHeld'
  BY <1>1 DEF IInv, AllHeld
<1>5. OneWalk' /\ Summed'
  BY <1>1 DEF IInv, OneWalk, Summed
<1> QED
  BY <1>3, <1>4, <1>5 DEF IInv

LEMMA CommitResultKeeps ==
  ASSUME IInv, NEW name \in Name, NEW object \in Object, CommitResult(name, object)
  PROVE  IInv'
<1>1. /\ results \in Seq(Pairs) /\ retired \in Seq(Object) /\ acquired \in Seq(Object)
      /\ failures \subseteq Name /\ plain \in BOOLEAN
      /\ \A i \in DOMAIN acquired : acquired[i] = i
  BY DEF IInv, CacheTypes, CacheTypeOK, Pairs
<1>2. /\ Publishing
      /\ object \in ToSet(acquired) \/ object = Len(acquired) + 1
      /\ retired' = IF name \in Keys(results) /\ Lookup(results, name) # object
                    THEN Append(retired, Lookup(results, name)) ELSE retired
      /\ results' = Put(results, name, object)
      /\ failures' = failures \ {name}
      /\ acquired' = IF object \in ToSet(acquired) THEN acquired ELSE Append(acquired, object)
      /\ plain' = (plain /\ name \notin Keys(results) /\ object \notin ToSet(acquired))
  BY DEF CommitResult
<1>3. /\ OneEntryEach(results)
      /\ ToSet(acquired) = ToSet(retired) \cup ToSet(Values(results))
      /\ plain => retired = <<>> /\ Values(results) = acquired
  BY <1>2 DEF Publishing, IInv, AllHeld
<1>4. /\ acquired' \in Seq(Object)
      /\ ToSet(acquired') = ToSet(acquired) \cup {object}
      /\ \A i \in DOMAIN acquired' : acquired'[i] = i
  <2>1. CASE object \in ToSet(acquired)
    BY <1>1, <1>2, <2>1
  <2>2. CASE object \notin ToSet(acquired)
    <3>1. acquired' = Append(acquired, object) /\ object = Len(acquired) + 1
      BY <1>2, <2>2
    <3>2. \A i \in DOMAIN acquired' : acquired'[i] = i
      BY <1>1, <3>1
    <3> QED
      BY <1>1, <3>1, <3>2, AppendSet
  <2> QED
    BY <2>1, <2>2
<1>5. CASE name \notin Keys(results)
  <2>1. /\ results' \in Seq(Pairs) /\ OneEntryEach(results')
        /\ Values(results') = Append(Values(results), object)
        /\ retired' = retired
    BY <1>1, <1>2, <1>3, <1>5, PutNew
  <2>2. Values(results) \in Seq(Object)
    BY <1>1, Places
  <2>3. ToSet(Values(results')) = ToSet(Values(results)) \cup {object}
    BY <2>1, <2>2, AppendSet
  <2>4. plain' => retired' = <<>> /\ Values(results') = acquired'
    BY <1>2, <1>3, <2>1
  <2> QED
    BY <1>1, <1>2, <1>3, <1>4, <2>1, <2>3, <2>4, PublishingKeeps
<1>6. CASE name \in Keys(results)
  <2> DEFINE old == Lookup(results, name)
  <2>1. /\ results' \in Seq(Pairs) /\ OneEntryEach(results')
        /\ ToSet(Values(results')) \cup {old} = ToSet(Values(results)) \cup {object}
        /\ old \in Object
    BY <1>1, <1>2, <1>3, <1>6, PutPresent, Held
  <2> HIDE DEF old
  <2>2. plain' = FALSE
    BY <1>2, <1>6
  <2>3. CASE old # object
    <3>1. retired' = Append(retired, old)
      BY <1>2, <1>6, <2>3 DEF old
    <3>2. retired' \in Seq(Object) /\ ToSet(retired') = ToSet(retired) \cup {old}
      BY <1>1, <2>1, <3>1, AppendSet
    <3>3. ToSet(acquired') = ToSet(retired') \cup ToSet(Values(results'))
      BY <1>3, <1>4, <2>1, <3>2
    <3> QED
      BY <1>1, <1>2, <1>4, <2>1, <2>2, <3>2, <3>3, PublishingKeeps
  <2>4. CASE old = object
    <3>1. retired' = retired
      BY <1>2, <1>6, <2>4 DEF old
    <3>2. object \in ToSet(Values(results'))
      BY <1>1, <1>2, <1>3, <1>6, PutPresent
    <3>3. ToSet(acquired') = ToSet(retired') \cup ToSet(Values(results'))
      BY <1>3, <1>4, <2>1, <2>4, <3>1, <3>2
    <3> QED
      BY <1>1, <1>2, <1>4, <2>1, <2>2, <3>1, <3>3, PublishingKeeps
  <2> QED
    BY <2>3, <2>4
<1> QED
  BY <1>5, <1>6

LEMMA CommitFailureKeeps ==
  ASSUME IInv, NEW name \in Name, CommitFailure(name)
  PROVE  IInv'
<1>1. /\ results \in Seq(Pairs) /\ retired \in Seq(Object) /\ acquired \in Seq(Object)
      /\ failures \subseteq Name /\ plain \in BOOLEAN
      /\ \A i \in DOMAIN acquired : acquired[i] = i
  BY DEF IInv, CacheTypes, CacheTypeOK, Pairs
<1>2. /\ Publishing
      /\ retired' = IF name \in Keys(results) THEN Append(retired, Lookup(results, name))
                    ELSE retired
      /\ results' = Pop(results, name)
      /\ failures' = failures \cup {name}
      /\ plain' = (plain /\ name \notin Keys(results))
      /\ acquired' = acquired
  BY DEF CommitFailure
<1>3. /\ OneEntryEach(results)
      /\ ToSet(acquired) = ToSet(retired) \cup ToSet(Values(results))
      /\ plain => retired = <<>> /\ Values(results) = acquired
  BY <1>2 DEF Publishing, IInv, AllHeld
<1>4. CASE name \notin Keys(results)
  <2>1. results' = results /\ retired' = retired
    BY <1>2, <1>4 DEF Pop
  <2> QED
    BY <1>1, <1>2, <1>3, <2>1, PublishingKeeps
<1>5. CASE name \in Keys(results)
  <2>1. /\ results' \in Seq(Pairs) /\ OneEntryEach(results')
        /\ ToSet(Values(results')) \cup {Lookup(results, name)} = ToSet(Values(results))
        /\ Lookup(results, name) \in Object
    BY <1>1, <1>2, <1>3, <1>5, PopPresent, Held
  <2>2. /\ retired' \in Seq(Object)
        /\ ToSet(retired') = ToSet(retired) \cup {Lookup(results, name)}
    BY <1>1, <1>2, <1>5, <2>1, AppendSet
  <2>3. plain' = FALSE
    BY <1>2, <1>5
  <2>4. ToSet(acquired') = ToSet(retired') \cup ToSet(Values(results'))
    BY <1>2, <1>3, <2>1, <2>2
  <2> QED
    BY <1>1, <1>2, <2>1, <2>2, <2>3, <2>4, PublishingKeeps
<1> QED
  BY <1>4, <1>5

----------------------------------------------------------------------------
\* The close loop

LEMMA ReverseSound ==
  ASSUME NEW S, NEW s \in Seq(S)
  PROVE  /\ Reverse(s) \in Seq(S) /\ Len(Reverse(s)) = Len(s)
         /\ \A i \in 1 .. Len(s) : Reverse(s)[i] = s[Len(s) - i + 1]
         /\ ToSet(Reverse(s)) = ToSet(s)
         /\ NoRepeats(s) => NoRepeats(Reverse(s))
<1>1. Len(s) \in Nat /\ DOMAIN s = 1 .. Len(s)
  OBVIOUS
<1>2. /\ Reverse(s) \in Seq(S) /\ Len(Reverse(s)) = Len(s)
      /\ DOMAIN Reverse(s) = 1 .. Len(s)
      /\ \A i \in 1 .. Len(s) : Reverse(s)[i] = s[Len(s) - i + 1]
  BY <1>1 DEF Reverse
<1>3. \A i \in 1 .. Len(s) : Len(s) - i + 1 \in 1 .. Len(s) /\ Len(s) - (Len(s) - i + 1) + 1 = i
  BY <1>1
<1>4. ToSet(Reverse(s)) \subseteq ToSet(s)
  BY <1>1, <1>2, <1>3 DEF ToSet
<1>5. ToSet(s) \subseteq ToSet(Reverse(s))
  <2> SUFFICES ASSUME NEW i \in 1 .. Len(s)
               PROVE  s[i] \in ToSet(Reverse(s))
    BY <1>1 DEF ToSet
  <2>1. Reverse(s)[Len(s) - i + 1] = s[i] /\ Len(s) - i + 1 \in DOMAIN Reverse(s)
    BY <1>2, <1>3
  <2> QED
    BY <2>1 DEF ToSet
<1>6. ASSUME NoRepeats(s)
      PROVE  NoRepeats(Reverse(s))
  <2> SUFFICES ASSUME NEW i \in 1 .. Len(s), NEW j \in 1 .. Len(s),
                      Reverse(s)[i] = Reverse(s)[j]
               PROVE  i = j
    BY <1>2 DEF NoRepeats
  <2>1. Len(s) - i + 1 = Len(s) - j + 1
    BY <1>1, <1>2, <1>3, <1>6 DEF NoRepeats
  <2> QED
    BY <1>1, <2>1
<1> QED
  BY <1>2, <1>4, <1>5, <1>6

LEMMA ConcatenationSet ==
  ASSUME NEW S, NEW s \in Seq(S), NEW t \in Seq(S)
  PROVE  ToSet(s \o t) = ToSet(s) \cup ToSet(t)
<1>1. /\ s \o t \in Seq(S) /\ Len(s \o t) = Len(s) + Len(t)
      /\ \A i \in 1 .. Len(s) : (s \o t)[i] = s[i]
      /\ \A i \in 1 .. Len(t) : (s \o t)[Len(s) + i] = t[i]
  BY Concatenation
<1>2. /\ Len(s) \in Nat /\ Len(t) \in Nat /\ DOMAIN s = 1 .. Len(s) /\ DOMAIN t = 1 .. Len(t)
      /\ DOMAIN (s \o t) = 1 .. Len(s) + Len(t)
  BY <1>1
<1>3. ToSet(s \o t) \subseteq ToSet(s) \cup ToSet(t)
  <2> SUFFICES ASSUME NEW i \in 1 .. Len(s) + Len(t)
               PROVE  (s \o t)[i] \in ToSet(s) \cup ToSet(t)
    BY <1>2 DEF ToSet
  <2>1. CASE i \in 1 .. Len(s)
    BY <1>1, <1>2, <2>1 DEF ToSet
  <2>2. CASE i - Len(s) \in 1 .. Len(t)
    <3>1. (s \o t)[i] = t[i - Len(s)]
      BY <1>1, <1>2, <2>2
    <3> QED
      BY <1>2, <2>2, <3>1 DEF ToSet
  <2> QED
    BY <1>2, <2>1, <2>2
<1>4. ToSet(s) \subseteq ToSet(s \o t)
  <2> SUFFICES ASSUME NEW i \in 1 .. Len(s)
               PROVE  s[i] \in ToSet(s \o t)
    BY <1>2 DEF ToSet
  <2>1. i \in 1 .. Len(s) + Len(t)
    BY <1>2
  <2> QED
    BY <1>1, <1>2, <2>1 DEF ToSet
<1>5. ToSet(t) \subseteq ToSet(s \o t)
  <2> SUFFICES ASSUME NEW i \in 1 .. Len(t)
               PROVE  t[i] \in ToSet(s \o t)
    BY <1>2 DEF ToSet
  <2>1. Len(s) + i \in 1 .. Len(s) + Len(t)
    BY <1>2
  <2> QED
    BY <1>1, <1>2, <2>1 DEF ToSet
<1> QED
  BY <1>3, <1>4, <1>5

\* What the close loop lists: each object once, in reverse where all was plain.
LEMMA ResourcesSound ==
  ASSUME IInv, phase = "open"
  PROVE  /\ Resources \in Seq(Object)
         /\ NoRepeats(Resources)
         /\ ToSet(Resources) = ToSet(acquired)
         /\ plain => Resources = Reverse(acquired)
<1> DEFINE held == retired \o Values(results)
<1>1. /\ results \in Seq(Pairs) /\ retired \in Seq(Object) /\ acquired \in Seq(Object)
      /\ \A i \in DOMAIN acquired : acquired[i] = i
  BY DEF IInv, CacheTypes, CacheTypeOK, Pairs
<1>2. Values(results) \in Seq(Object)
  BY <1>1, Places
<1>3. held \in Seq(Object) /\ ToSet(held) = ToSet(retired) \cup ToSet(Values(results))
  BY <1>1, <1>2, Concatenation, ConcatenationSet
<1>4. ToSet(held) = ToSet(acquired) /\ (plain => retired = <<>> /\ Values(results) = acquired)
  BY <1>3 DEF IInv, AllHeld
<1>5. plain => held = acquired
  <2>1. <<>> \o acquired = acquired
    BY <1>1
  <2> QED
    BY <1>4, <2>1
<1> HIDE DEF held
<1>6. Reverse(held) \in Seq(Object) /\ ToSet(Reverse(held)) = ToSet(acquired)
  BY <1>3, <1>4, ReverseSound
<1>7. Resources = FirstOnes(Reverse(held))
  BY ResourcesAreFirstOnes DEF held
<1>8. ASSUME plain
      PROVE  Resources = Reverse(acquired)
  <2>1. NoRepeats(acquired)
    BY <1>1 DEF NoRepeats
  <2>2. NoRepeats(Reverse(acquired)) /\ Reverse(acquired) \in Seq(Object)
    BY <1>1, <2>1, ReverseSound
  <2> QED
    BY <1>5, <1>7, <1>8, <2>2, FirstOnesOfDistinct
<1> QED
  BY <1>6, <1>7, <1>8, FirstOnesSound

LEMMA BeginKeeps ==
  ASSUME IInv, BeginRelease
  PROVE  IInv'
<1>1. /\ phase = "open" /\ phase' = "releasing" /\ pending' = Resources
      /\ UNCHANGED <<results, failures, retired, closes, failure, badCloses, acquired,
                     commits, plain>>
  BY DEF BeginRelease
<1>2. PICK list \in Seq(Object) :
        /\ pending' = list
        /\ NoRepeats(list)
        /\ ToSet(list) = ToSet(acquired)
        /\ plain => list = Reverse(acquired)
  BY <1>1, ResourcesSound
<1>3. CacheTypes'
  BY <1>1, <1>2 DEF IInv, CacheTypes, CacheTypeOK
<1>4. AllHeld' /\ Summed'
  BY <1>1 DEF IInv, AllHeld, Summed
<1>5. Walks(list)'
  <2>1. closes = <<>> /\ Len(closes) = 0 /\ DOMAIN closes = {}
    BY <1>1, EmptyList DEF IInv, AllHeld
  <2>2. Len(list) \in Nat /\ \A i \in DOMAIN list : i \in Nat
    BY <1>2
  <2> QED
    BY <1>1, <1>2, <2>1, <2>2 DEF Walks
<1> QED
  BY <1>1, <1>2, <1>3, <1>4, <1>5 DEF IInv, OneWalk

\* One object more is behind the walk.
LEMMA ReleaseWalks ==
  ASSUME IInv, NEW how \in CloseResult, ReleaseNext(how)
  PROVE  AllHeld' /\ OneWalk' /\ pending' \in Seq(Object) /\ closes' \in Seq(Object)
<1>1. /\ phase = "releasing" /\ pending # <<>> /\ pending' = Tail(pending)
      /\ closes' = Append(closes, Head(pending))
      /\ UNCHANGED <<phase, acquired, plain>>
  BY DEF ReleaseNext
<1>2. closes \in Seq(Object) /\ pending \in Seq(Object)
  BY DEF IInv, CacheTypes, CacheTypeOK
<1>3. PICK list \in Seq(Object) : Walks(list)
  BY <1>1 DEF IInv, OneWalk
<1>4. /\ pending' \in Seq(Object) /\ Len(pending) > 0 /\ Len(pending') = Len(pending) - 1
      /\ Head(pending) = pending[1] /\ Head(pending) \in Object
      /\ \A i \in 1 .. Len(pending) - 1 : pending'[i] = pending[i + 1]
  BY <1>1, <1>2
<1>5. /\ closes' \in Seq(Object) /\ Len(closes') = Len(closes) + 1
      /\ closes'[Len(closes) + 1] = pending[1]
      /\ \A i \in 1 .. Len(closes) : closes'[i] = closes[i]
  BY <1>1, <1>2, <1>4
<1>6. /\ Len(closes) \in Nat /\ Len(pending) \in Nat
      /\ DOMAIN closes = 1 .. Len(closes) /\ DOMAIN pending = 1 .. Len(pending)
      /\ DOMAIN closes' = 1 .. Len(closes) + 1 /\ DOMAIN pending' = 1 .. Len(pending) - 1
  BY <1>2, <1>4, <1>5
<1>7. Walks(list)'
  <2>1. Len(list) = Len(closes') + Len(pending')
    BY <1>3, <1>4, <1>5, <1>6 DEF Walks
  <2>2. ASSUME NEW i \in DOMAIN closes'
        PROVE  closes'[i] = list[i]
    <3>1. CASE i \in 1 .. Len(closes)
      BY <1>3, <1>5, <1>6, <3>1 DEF Walks
    <3>2. CASE i = Len(closes) + 1
      <4>1. 1 \in DOMAIN pending
        BY <1>4, <1>6
      <4>2. pending[1] = list[Len(closes) + 1]
        BY <1>3, <4>1 DEF Walks
      <4> QED
        BY <1>5, <3>2, <4>2
    <3> QED
      BY <1>6, <3>1, <3>2
  <2>3. ASSUME NEW i \in DOMAIN pending'
        PROVE  pending'[i] = list[Len(closes') + i]
    <3>1. i \in 1 .. Len(pending) - 1 /\ i + 1 \in DOMAIN pending
      BY <1>6
    <3>2. pending'[i] = list[Len(closes) + (i + 1)]
      BY <1>3, <1>4, <3>1 DEF Walks
    <3>3. Len(closes) + (i + 1) = Len(closes') + i
      BY <1>5, <1>6, <3>1
    <3> QED
      BY <3>2, <3>3
  <2> QED
    BY <1>1, <1>3, <2>1, <2>2, <2>3 DEF Walks
<1>8. AllHeld'
  BY <1>1 DEF AllHeld
<1>9. OneWalk'
  BY <1>1, <1>7 DEF OneWalk
<1> QED
  BY <1>4, <1>5, <1>8, <1>9

\* What combining with one failure more makes of the failure so far.
LEMMA CombineOne ==
  ASSUME IInv, NEW how \in {"ordinary", "control"}, NEW object \in Object,
         NEW sum, sum = Combine(failure, Failing(how, object))
  PROVE  /\ sum \in [head : {"none", "ordinary", "control"}, first : Object \cup {0},
                     retained : SUBSET Object]
         /\ sum.retained = failure.retained \cup {object}
         /\ badCloses = <<>> => sum.head = how /\ sum.first = object
         /\ badCloses # <<>> /\ failure.head = "ordinary" /\ how = "control" =>
              sum.head = how /\ sum.first = object
         /\ badCloses # <<>> /\ ~(failure.head = "ordinary" /\ how = "control") =>
              sum.head = failure.head /\ sum.first = failure.first
<1>1. failure \in [head : {"none", "ordinary", "control"}, first : Object \cup {0},
                   retained : SUBSET Object]
  BY DEF IInv, CacheTypes
<1> DEFINE new == Failing(how, object)
<1>2. /\ new \in [head : {"none", "ordinary", "control"}, first : Object \cup {0},
                  retained : SUBSET Object]
      /\ new.head = how /\ new.first = object /\ new.retained = {object}
  BY DEF Failing
<1> HIDE DEF new
<1>3. CASE badCloses = <<>>
  <2>1. failure = NoFailure /\ failure.retained = {}
    BY <1>3 DEF IInv, Summed, NoFailure
  <2>2. sum = new
    BY <2>1 DEF Combine, NoFailure, new
  <2> QED
    BY <1>2, <1>3, <2>1, <2>2
<1>4. CASE badCloses # <<>>
  <2>1. failure.head \in {"ordinary", "control"}
    <3>1. PICK i \in DOMAIN badCloses : badCloses[i] = <<failure.head, failure.first>>
      BY <1>4 DEF IInv, Summed
    <3>2. badCloses[i] \in {"ordinary", "control"} \X Object
      BY <3>1 DEF IInv, CacheTypes
    <3> QED
      BY <3>1, <3>2
  <2>2. failure # NoFailure
    BY <2>1 DEF NoFailure
  <2>3. CASE failure.head = "ordinary" /\ how = "control"
    <3>1. sum = [new EXCEPT !.retained = new.retained \cup failure.retained]
      BY <1>2, <2>2, <2>3 DEF Combine, new
    <3>2. sum = [head |-> new.head, first |-> new.first,
                 retained |-> new.retained \cup failure.retained]
      BY <1>2, <3>1
    <3> QED
      BY <1>1, <1>2, <1>4, <2>3, <3>2
  <2>4. CASE ~(failure.head = "ordinary" /\ how = "control")
    <3>1. sum = [failure EXCEPT !.retained = failure.retained \cup new.retained]
      BY <1>2, <2>2, <2>4 DEF Combine, new
    <3>2. sum = [head |-> failure.head, first |-> failure.first,
                 retained |-> failure.retained \cup new.retained]
      BY <1>1, <3>1
    <3> QED
      BY <1>1, <1>2, <1>4, <2>4, <3>2
  <2> QED
    BY <2>3, <2>4
<1> QED
  BY <1>3, <1>4

LEMMA Appended ==
  ASSUME NEW S, NEW s \in Seq(S), NEW v \in S
  PROVE  /\ Append(s, v) \in Seq(S)
         /\ Len(s) \in Nat /\ DOMAIN s = 1 .. Len(s)
         /\ DOMAIN Append(s, v) = 1 .. Len(s) + 1
         /\ Append(s, v)[Len(s) + 1] = v
         /\ \A i \in 1 .. Len(s) : Append(s, v)[i] = s[i]
OBVIOUS

LEMMA ReleaseKeeps ==
  ASSUME IInv, NEW how \in CloseResult, ReleaseNext(how)
  PROVE  IInv'
<1> DEFINE object == Head(pending)
           bad == <<how, object>>
<1>1. /\ phase = "releasing" /\ pending # <<>>
      /\ how = "ok" => badCloses' = badCloses /\ failure' = failure
      /\ how # "ok" => /\ badCloses' = Append(badCloses, bad)
                       /\ failure' = Combine(failure, Failing(how, object))
      /\ UNCHANGED <<results, failures, retired, phase, acquired, commits, plain>>
  BY DEF ReleaseNext
<1>2. AllHeld' /\ OneWalk' /\ pending' \in Seq(Object) /\ closes' \in Seq(Object)
  BY ReleaseWalks
<1>3. object \in Object
  BY <1>1 DEF IInv, CacheTypes, CacheTypeOK
<1>4. CASE how = "ok"
  <2>1. CacheTypes' /\ Summed'
    BY <1>1, <1>2, <1>4 DEF IInv, CacheTypes, CacheTypeOK, Summed
  <2> QED
    BY <1>2, <2>1 DEF IInv
<1>5. CASE how # "ok"
  <2>1. how \in {"ordinary", "control"}
    BY <1>5 DEF CloseResult
  <2>2. bad \in {"ordinary", "control"} \X Object /\ bad[1] = how /\ bad[2] = object
    BY <1>3, <2>1
  <2>3. /\ badCloses \in Seq({"ordinary", "control"} \X Object)
        /\ badCloses \in Seq(CloseResult \X Object)
    BY DEF IInv, CacheTypes, CacheTypeOK
  <2>4. bad \in CloseResult \X Object
    BY <2>2 DEF CloseResult
  <2>5. /\ failure' \in [head : {"none", "ordinary", "control"}, first : Object \cup {0},
                         retained : SUBSET Object]
        /\ failure'.retained = failure.retained \cup {object}
        /\ badCloses = <<>> => failure'.head = how /\ failure'.first = object
        /\ badCloses # <<>> /\ failure.head = "ordinary" /\ how = "control" =>
             failure'.head = how /\ failure'.first = object
        /\ badCloses # <<>> /\ ~(failure.head = "ordinary" /\ how = "control") =>
             failure'.head = failure.head /\ failure'.first = failure.first
    BY <1>1, <1>3, <1>5, <2>1, CombineOne
  <2> HIDE DEF bad, object
  <2>6. /\ badCloses' \in Seq({"ordinary", "control"} \X Object)
        /\ badCloses' \in Seq(CloseResult \X Object)
        /\ Len(badCloses) \in Nat /\ DOMAIN badCloses = 1 .. Len(badCloses)
        /\ DOMAIN badCloses' = 1 .. Len(badCloses) + 1
        /\ badCloses'[Len(badCloses) + 1] = bad
        /\ \A i \in 1 .. Len(badCloses) : badCloses'[i] = badCloses[i]
    <3>1. badCloses' = Append(badCloses, bad)
      BY <1>1, <1>5
    <3>2. Append(badCloses, bad) \in Seq(CloseResult \X Object)
      BY <2>3, <2>4, Appended
    <3>3. bad \in {"ordinary", "control"} \X Object
      BY <2>2
    <3> QED
      BY <2>3, <3>1, <3>2, <3>3, Appended
  <2>7. CacheTypes'
    <3>1. CacheTypeOK'
      BY <1>1, <1>2, <2>5, <2>6 DEF IInv, CacheTypes, CacheTypeOK
    <3> QED
      BY <1>1, <2>5, <2>6, <3>1 DEF IInv, CacheTypes
  <2> DEFINE n == Len(badCloses) + 1
  <2>8. n \in DOMAIN badCloses' /\ badCloses' # <<>>
    <3>1. n \in DOMAIN badCloses'
      BY <2>6
    <3> QED
      BY <3>1, EmptyList
  <2>9. failure'.retained = {badCloses'[i][2] : i \in DOMAIN badCloses'}
    <3>1. failure.retained = {badCloses[i][2] : i \in DOMAIN badCloses}
      BY DEF IInv, Summed
    <3>2. DOMAIN badCloses' = DOMAIN badCloses \cup {n}
      BY <2>6
    <3>3. badCloses'[n][2] = object /\ \A i \in DOMAIN badCloses : badCloses'[i] = badCloses[i]
      BY <2>2, <2>6
    <3> HIDE DEF n
    <3> QED
      BY <2>5, <3>1, <3>2, <3>3
  <2>10. \E i \in DOMAIN badCloses' :
           /\ badCloses'[i] = <<failure'.head, failure'.first>>
           /\ \A j \in DOMAIN badCloses' :
                /\ j < i => badCloses'[j][1] # failure'.head
                /\ failure'.head = "ordinary" => badCloses'[j][1] = "ordinary"
    <3>1. CASE badCloses = <<>>
      <4>1. n = 1 /\ DOMAIN badCloses' = {1} /\ badCloses'[1] = bad
        BY <2>6, <3>1, EmptyList
      <4>2. failure'.head = how /\ failure'.first = object
        BY <2>5, <3>1
      <4> QED
        BY <2>2, <4>1, <4>2 DEF bad
    <3>2. CASE badCloses # <<>> /\ failure.head = "ordinary" /\ how = "control"
      <4>1. failure'.head = "control" /\ badCloses'[n] = <<failure'.head, failure'.first>>
        BY <2>5, <2>6, <3>2 DEF bad
      <4>2. PICK i \in DOMAIN badCloses :
              \A j \in DOMAIN badCloses : failure.head = "ordinary" => badCloses[j][1] = "ordinary"
        BY <3>2 DEF IInv, Summed
      <4>3. ASSUME NEW j \in DOMAIN badCloses', j < n
            PROVE  badCloses'[j][1] # "control"
        <5>1. j \in DOMAIN badCloses
          BY <2>6, <4>3
        <5> QED
          BY <2>6, <3>2, <4>2, <5>1
      <4> HIDE DEF n
      <4> QED
        BY <2>8, <4>1, <4>3
    <3>3. CASE badCloses # <<>> /\ ~(failure.head = "ordinary" /\ how = "control")
      <4>1. failure'.head = failure.head /\ failure'.first = failure.first
        BY <2>5, <3>3
      <4>2. PICK i \in DOMAIN badCloses :
              /\ badCloses[i] = <<failure.head, failure.first>>
              /\ \A j \in DOMAIN badCloses :
                   /\ j < i => badCloses[j][1] # failure.head
                   /\ failure.head = "ordinary" => badCloses[j][1] = "ordinary"
        BY <3>3 DEF IInv, Summed
      <4>3. i \in DOMAIN badCloses' /\ badCloses'[i] = <<failure'.head, failure'.first>>
        BY <2>6, <4>1, <4>2
      <4>4. ASSUME NEW j \in DOMAIN badCloses'
            PROVE  /\ j < i => badCloses'[j][1] # failure'.head
                   /\ failure'.head = "ordinary" => badCloses'[j][1] = "ordinary"
        <5>1. CASE j \in DOMAIN badCloses
          BY <2>6, <4>1, <4>2, <5>1
        <5>2. CASE j = n
          <6>1. ~(j < i)
            BY <2>6, <5>2
          <6>2. badCloses'[j][1] = how
            BY <2>2, <2>6, <5>2
          <6> QED
            BY <2>1, <3>3, <4>1, <6>1, <6>2
        <5> QED
          BY <2>6, <5>1, <5>2
      <4> QED
        BY <4>3, <4>4
    <3> QED
      BY <3>1, <3>2, <3>3
  <2>11. Summed'
    BY <2>8, <2>9, <2>10 DEF Summed
  <2> QED
    BY <1>2, <2>7, <2>11 DEF IInv
<1> QED
  BY <1>4, <1>5

LEMMA FinishKeeps ==
  ASSUME IInv, FinishClose
  PROVE  IInv'
<1>1. /\ phase = "releasing" /\ phase' = "closed" /\ pending = <<>>
      /\ results' = <<>> /\ failures' = {} /\ retired' = <<>>
      /\ UNCHANGED <<pending, closes, failure, badCloses, acquired, commits, plain>>
  BY DEF FinishClose
<1>2. CacheTypeOK'
  BY <1>1, EmptyList DEF IInv, CacheTypes, CacheTypeOK
<1>3. CacheTypes' /\ AllHeld' /\ Summed'
  BY <1>1, <1>2 DEF IInv, CacheTypes, AllHeld, Summed
<1>4. OneWalk'
  BY <1>1 DEF IInv, OneWalk, Walks
<1> QED
  BY <1>3, <1>4 DEF IInv

LEMMA CacheStep == IInv /\ [CacheNext]_cacheVars => IInv'
<1> SUFFICES ASSUME IInv, [CacheNext]_cacheVars
             PROVE  IInv'
  OBVIOUS
<1>1. CASE UNCHANGED cacheVars
  BY <1>1 DEF cacheVars, IInv, CacheTypes, CacheTypeOK, AllHeld, OneWalk, Walks, Summed
<1>2. CASE Closed
  BY <1>1, <1>2 DEF Closed
<1> QED
  BY <1>1, <1>2, CommitResultKeeps, CommitFailureKeeps, BeginKeeps, ReleaseKeeps, FinishKeeps
     DEF CacheNext

----------------------------------------------------------------------------
\* What the invariant says of a closed cache

LEMMA WalkEnds ==
  ASSUME IInv, phase = "closed"
  PROVE  /\ closes \in Seq(Object) /\ NoRepeats(closes) /\ ToSet(closes) = ToSet(acquired)
         /\ plain => closes = Reverse(acquired)
<1>1. closes \in Seq(Object) /\ pending = <<>>
  BY DEF IInv, CacheTypes, CacheTypeOK, OneWalk
<1>2. PICK list \in Seq(Object) : Walks(list)
  BY DEF IInv, OneWalk
<1>3. Len(list) = Len(closes)
  BY <1>1, <1>2, EmptyList DEF Walks
<1>4. \A i \in 1 .. Len(closes) : closes[i] = list[i]
  BY <1>1, <1>2 DEF Walks
<1>5. closes = list
  BY <1>1, <1>2, <1>3, <1>4
<1> QED
  BY <1>1, <1>2, <1>5 DEF Walks

LEMMA ReleaseHolds == IInv => ReleasedExactlyOnce /\ ReverseWhenPlain
<1> SUFFICES ASSUME IInv, phase = "closed"
             PROVE  /\ ToSet(closes) = ToSet(acquired) /\ Len(closes) = Len(acquired)
                    /\ plain => closes = Reverse(acquired)
  BY DEF ReleasedExactlyOnce, ReverseWhenPlain
<1>1. /\ closes \in Seq(Object) /\ NoRepeats(closes) /\ ToSet(closes) = ToSet(acquired)
      /\ plain => closes = Reverse(acquired)
  BY WalkEnds
<1>2. acquired \in Seq(Object) /\ NoRepeats(acquired)
  BY DEF IInv, CacheTypes, CacheTypeOK, NoRepeats
<1>3. /\ Len(closes) = Cardinality(ToSet(closes))
      /\ Len(acquired) = Cardinality(ToSet(acquired))
  BY <1>1, <1>2, LengthOfDistinct
<1> QED
  BY <1>1, <1>3

LEMMA FailureHolds == IInv => CleanupFailureComplete
<1> SUFFICES ASSUME IInv
             PROVE  CleanupFailureComplete
  OBVIOUS
<1> DEFINE controls == {i \in DOMAIN badCloses : badCloses[i][1] = "control"}
           FirstIn(indices) == badCloses[CHOOSE i \in indices : \A j \in indices : i <= j]
           lead == IF controls # {} THEN FirstIn(controls)
                   ELSE IF badCloses # <<>> THEN FirstIn(DOMAIN badCloses)
                   ELSE <<"none", 0>>
<1>1. /\ badCloses \in Seq({"ordinary", "control"} \X Object)
      /\ Len(badCloses) \in Nat /\ DOMAIN badCloses = 1 .. Len(badCloses)
  BY DEF IInv, CacheTypes
<1>2. ASSUME NEW indices \in SUBSET (DOMAIN badCloses), NEW i \in indices,
             \A j \in indices : i <= j
      PROVE  FirstIn(indices) = badCloses[i]
  <2> DEFINE first == CHOOSE k \in indices : \A j \in indices : k <= j
  <2>1. first \in indices /\ \A j \in indices : first <= j
    BY <1>2
  <2>2. first = i
    BY <1>1, <1>2, <2>1
  <2> QED
    BY <2>2
<1>3. lead = <<failure.head, failure.first>>
  <2>1. CASE badCloses = <<>>
    <3>1. DOMAIN badCloses = {} /\ failure.head = "none" /\ failure.first = 0
      BY <2>1, EmptyList DEF IInv, Summed, NoFailure
    <3> QED
      BY <2>1, <3>1
  <2>2. CASE badCloses # <<>>
    <3>1. PICK i \in DOMAIN badCloses :
            /\ badCloses[i] = <<failure.head, failure.first>>
            /\ \A j \in DOMAIN badCloses :
                 /\ j < i => badCloses[j][1] # failure.head
                 /\ failure.head = "ordinary" => badCloses[j][1] = "ordinary"
      BY <2>2 DEF IInv, Summed
    <3>2. failure.head \in {"ordinary", "control"} /\ badCloses[i][1] = failure.head
      <4>1. badCloses[i] \in {"ordinary", "control"} \X Object
        BY <1>1
      <4> QED
        BY <3>1, <4>1
    <3>3. CASE failure.head = "control"
      <4>1. i \in controls /\ \A j \in controls : i <= j
        BY <1>1, <3>1, <3>2, <3>3
      <4>2. FirstIn(controls) = badCloses[i]
        BY <1>2, <4>1
      <4> QED
        BY <3>1, <4>1, <4>2
    <3>4. CASE failure.head = "ordinary"
      <4>1. controls = {}
        BY <3>1, <3>4
      <4>2. \A j \in DOMAIN badCloses : i <= j
        BY <1>1, <3>1, <3>4
      <4>3. FirstIn(DOMAIN badCloses) = badCloses[i]
        BY <1>2, <4>2
      <4> QED
        BY <2>2, <3>1, <4>1, <4>3
    <3> QED
      BY <3>2, <3>3, <3>4
  <2> QED
    BY <2>1, <2>2
<1>4. failure.retained = {badCloses[i][2] : i \in DOMAIN badCloses}
  BY DEF IInv, Summed
<1> HIDE DEF lead
<1>5. failure.head = lead[1] /\ failure.first = lead[2]
  BY <1>3
<1> HIDE DEF controls, FirstIn
<1> QED
  BY <1>4, <1>5 DEF CleanupFailureComplete, lead, controls, FirstIn

\* Of whatever is published, replaced, recalculated or shared, the close loop closes
\* each object once, in reverse where nothing was replaced or shared, and whatever
\* closing raises, the failure close ends with drops none and is the first of the worst
\* kind: for any names, objects and publications (cache_lifecycle.py:118-145).
THEOREM CacheSound == CacheSpec => []CacheInv
<1>1. CacheInit => IInv
  BY CacheInitHolds
<1>2. IInv /\ [CacheNext]_cacheVars => IInv'
  BY CacheStep
<1>3. IInv => CacheInv
  BY ReleaseHolds, FailureHolds DEF IInv, CacheTypes, CacheInv
<1> QED
  BY <1>1, <1>2, <1>3, PTL DEF CacheSpec

(***************************************************************************)
(* The order of the definitions.                                           *)
(***************************************************************************)
EdgeSet == [source : Local, target : Local \cup Externals, kind : Kinds]

OrderTypeOK ==
    /\ edges \in Seq(EdgeSet)
    /\ selection \subseteq Kinds
    /\ doing \in {"referring", "ordering", "ordered", "searching", "circular"}
    /\ listed \in 1..(Len(Definitions) + 1)
    /\ ready \in Seq(Local) /\ ordered \in Seq(Local)
    /\ remaining \in [Local -> Nat]
    /\ due \subseteq Selected
    /\ mark \in [Local -> {0, 1, 2}]
    /\ path \in Seq(Local)
    /\ left \in [Local -> SUBSET Selected]

\* The edges a definition still waits for lead to definitions not ordered, or are due.
Reached == {k \in Selected : edges[k].target \in Range(ordered)}
Waits(name) == {k \in From(name) : k \in due \/ k \notin Reached}

\* At each time the definitions that wait for nothing are those ready and those ordered.
Kahn ==
    /\ due \subseteq Reached
    /\ NoRepeats(ready) /\ NoRepeats(ordered) /\ Range(ready) \cap Range(ordered) = {}
    /\ listed <= Len(Definitions) =>
         /\ ordered = <<>> /\ due = {}
         /\ \A name \in Range(ready) : \E i \in 1..(listed - 1) : Definitions[i] = name
    /\ \A name \in Local :
         /\ remaining[name] = Cardinality(Waits(name))
         /\ name \in Range(ready) \cup Range(ordered) => Waits(name) = {}
         /\ Waits(name) = {} =>
              \/ name \in Range(ready) \cup Range(ordered)
              \/ \E i \in listed..Len(Definitions) : Definitions[i] = name
    /\ \A j \in DOMAIN ordered : \A k \in Selected :
         edges[k].source = ordered[j] => \E i \in 1..(j - 1) : ordered[i] = edges[k].target

\* The definitions left over refer to each other.
Knot == Local \ Range(ordered)
Knotted == Knot # {} /\ \A name \in Knot : \E k \in From(name) : edges[k].target \in Knot

\* What the walk has done with leads to what it has done with, so never into the knot.
Walk ==
    /\ Knotted
    /\ NoRepeats(path)
    /\ \A name \in Local : mark[name] = 1 <=> name \in Range(path)
    /\ \A i \in 1..(Len(path) - 1) : \E k \in Selected :
         edges[k].source = path[i] /\ edges[k].target = path[i + 1]
    /\ \A name \in Local : /\ left[name] \subseteq From(name)
                           /\ mark[name] = 0 => left[name] = From(name)
                           /\ mark[name] = 2 => name \notin Knot
    /\ \A i \in DOMAIN path : \A k \in Selected \ left[path[i]] :
         \/ edges[k].source # path[i]
         \/ mark[edges[k].target] = 2
         \/ i < Len(path) /\ edges[k].target = path[i + 1]
    /\ \A i \in 1..(listed - 1) : mark[Definitions[i]] # 0

Asked ==
    /\ listed = 1 /\ ready = <<>> /\ ordered = <<>> /\ due = {}
    /\ left = [name \in Local |-> {}]

OrderInv ==
    /\ OrderTypeOK
    /\ doing = "referring" => Asked
    /\ doing = "ordering" => Kahn
    /\ doing = "searching" => Walk
    /\ OrderIsRight

-----------------------------------------------------------------------------
(* Lists without repetitions *)

LEMMA ListOf ==
    ASSUME NEW S, NEW s \in Seq(S)
    PROVE  /\ Len(s) \in Nat /\ DOMAIN s = 1..Len(s)
           /\ \A i \in 1..Len(s) : s[i] \in S
           /\ Range(s) = {s[i] : i \in 1..Len(s)} /\ Range(s) \subseteq S
           /\ s = <<>> <=> Len(s) = 0
<1>1. /\ Len(s) \in Nat /\ DOMAIN s = 1..Len(s)
      /\ \A i \in 1..Len(s) : s[i] \in S
  BY LenProperties, ElementOfSeq
<1>2. Range(s) = {s[i] : i \in 1..Len(s)}
  BY <1>1 DEF Range
<1>3. s = <<>> <=> Len(s) = 0
  BY EmptySeq
<1> QED
  BY <1>1, <1>2, <1>3

LEMMA ListAppend ==
    ASSUME NEW S, NEW s \in Seq(S), NEW e \in S
    PROVE  /\ Append(s, e) \in Seq(S) /\ Len(Append(s, e)) = Len(s) + 1
           /\ \A i \in 1..Len(s) : Append(s, e)[i] = s[i]
           /\ Append(s, e)[Len(s) + 1] = e
           /\ Append(s, e) # <<>> /\ Last(Append(s, e)) = e
           /\ Range(Append(s, e)) = Range(s) \cup {e}
           /\ NoRepeats(s) /\ e \notin Range(s) => NoRepeats(Append(s, e))
<1> DEFINE t == Append(s, e)
           n == Len(s)
<1>1. /\ t \in Seq(S) /\ Len(t) = n + 1 /\ \A i \in 1..n : t[i] = s[i]
      /\ t[n + 1] = e /\ t # <<>>
  BY AppendProperties
<1>2. /\ n \in Nat /\ DOMAIN s = 1..n /\ Range(s) = {s[i] : i \in 1..n}
      /\ DOMAIN t = 1..(n + 1) /\ Range(t) = {t[i] : i \in 1..(n + 1)}
  BY <1>1, ListOf
<1> HIDE DEF t, n
<1>3. Range(t) = Range(s) \cup {e}
  <2>1. 1..(n + 1) = (1..n) \cup {n + 1}
    BY <1>2
  <2> QED
    BY <1>1, <1>2, <2>1
<1>4. NoRepeats(s) /\ e \notin Range(s) => NoRepeats(t)
  <2> SUFFICES ASSUME NoRepeats(s), e \notin Range(s), NEW i \in 1..(n + 1),
                      NEW j \in 1..(n + 1), t[i] = t[j]
               PROVE  i = j
    BY <1>2 DEF NoRepeats
  <2>1. CASE i \in 1..n /\ j \in 1..n
    BY <1>1, <1>2, <2>1 DEF NoRepeats
  <2>2. CASE i = n + 1 /\ j \in 1..n
    BY <1>1, <1>2, <2>2
  <2>3. CASE i \in 1..n /\ j = n + 1
    BY <1>1, <1>2, <2>3
  <2> QED
    BY <1>2, <2>1, <2>2, <2>3
<1>5. Last(t) = e
  BY <1>1 DEF Last
<1> QED
  BY <1>1, <1>3, <1>4, <1>5 DEF t, n

LEMMA ListTail ==
    ASSUME NEW S, NEW s \in Seq(S), s # <<>>
    PROVE  /\ Tail(s) \in Seq(S) /\ Head(s) \in S /\ Head(s) \in Range(s)
           /\ Range(s) = Range(Tail(s)) \cup {Head(s)}
           /\ NoRepeats(s) => NoRepeats(Tail(s)) /\ Head(s) \notin Range(Tail(s))
<1> DEFINE t == Tail(s)
           n == Len(s)
<1>1. /\ t \in Seq(S) /\ Len(t) = n - 1 /\ \A i \in 1..(n - 1) : t[i] = s[i + 1]
      /\ Head(s) \in S
  BY HeadTailProperties
<1>2. /\ n \in Nat /\ n # 0 /\ DOMAIN s = 1..n /\ Range(s) = {s[i] : i \in 1..n}
      /\ DOMAIN t = 1..(n - 1) /\ Range(t) = {t[i] : i \in 1..(n - 1)}
  <2>1. n \in Nat /\ n # 0 /\ DOMAIN s = 1..n /\ Range(s) = {s[i] : i \in 1..n}
    BY ListOf
  <2>2. DOMAIN t = 1..Len(t) /\ Range(t) = {t[i] : i \in 1..Len(t)}
    BY <1>1, ListOf
  <2> HIDE DEF t, n
  <2> QED
    BY <1>1, <2>1, <2>2
<1>3. Head(s) = s[1]
  BY DEF Head
<1> HIDE DEF t, n
<1>4. Range(s) = Range(t) \cup {s[1]}
  <2>1. ASSUME NEW x \in Range(s)
        PROVE  x \in Range(t) \cup {s[1]}
    <3>1. PICK i \in 1..n : s[i] = x
      BY <1>2
    <3>2. CASE i # 1
      <4>1. i - 1 \in 1..(n - 1) /\ (i - 1) + 1 = i
        BY <1>2, <3>2
      <4>2. t[i - 1] = s[i]
        BY <1>1, <4>1
      <4> QED
        BY <1>2, <3>1, <4>1, <4>2
    <3> QED
      BY <3>1, <3>2
  <2>2. ASSUME NEW x \in Range(t)
        PROVE  x \in Range(s)
    <3>1. PICK i \in 1..(n - 1) : t[i] = x
      BY <1>2
    <3>2. i + 1 \in 1..n
      BY <1>2
    <3> QED
      BY <1>1, <1>2, <3>1, <3>2
  <2>3. s[1] \in Range(s)
    BY <1>2
  <2> QED
    BY <2>1, <2>2, <2>3
<1>5. NoRepeats(s) => NoRepeats(t) /\ s[1] \notin Range(t)
  <2> SUFFICES ASSUME NoRepeats(s)
               PROVE  NoRepeats(t) /\ s[1] \notin Range(t)
    OBVIOUS
  <2>1. ASSUME NEW i \in 1..(n - 1), NEW j \in 1..(n - 1), t[i] = t[j]
        PROVE  i = j
    <3>1. i + 1 \in 1..n /\ j + 1 \in 1..n /\ s[i + 1] = s[j + 1]
      BY <1>1, <1>2, <2>1
    <3>2. i + 1 = j + 1
      BY <1>2, <3>1 DEF NoRepeats
    <3> QED
      BY <3>2
  <2>2. ASSUME NEW i \in 1..(n - 1), t[i] = s[1]
        PROVE  FALSE
    <3>1. i + 1 \in 1..n /\ 1 \in 1..n /\ s[i + 1] = s[1]
      BY <1>1, <1>2, <2>2
    <3>2. i + 1 = 1
      BY <1>2, <3>1 DEF NoRepeats
    <3> QED
      BY <3>2
  <2> QED
    BY <1>2, <2>1, <2>2 DEF NoRepeats
<1> QED
  BY <1>1, <1>2, <1>3, <1>4, <1>5 DEF t

LEMMA ListFront ==
    ASSUME NEW S, NEW s \in Seq(S), s # <<>>
    PROVE  /\ Front(s) \in Seq(S) /\ Len(Front(s)) = Len(s) - 1
           /\ \A i \in 1..(Len(s) - 1) : Front(s)[i] = s[i]
           /\ Last(s) = s[Len(s)] /\ Last(s) \in S /\ Last(s) \in Range(s) /\ Len(s) \in 1..Len(s)
           /\ Range(s) = Range(Front(s)) \cup {Last(s)}
           /\ NoRepeats(s) => NoRepeats(Front(s)) /\ Last(s) \notin Range(Front(s))
<1> DEFINE t == Front(s)
           n == Len(s)
           m == n - 1
<1>1. /\ n \in Nat /\ n # 0 /\ DOMAIN s = 1..n /\ Range(s) = {s[i] : i \in 1..n}
      /\ \A i \in 1..n : s[i] \in S
  BY ListOf
<1>2. /\ t \in Seq(S) /\ Len(t) = m /\ \A i \in 1..m : t[i] = s[i]
  <2>1. m \in Int /\ 1 \in Int /\ m >= 0
    BY <1>1
  <2>2. /\ SubSeq(s, 1, m) \in Seq(S)
        /\ Len(SubSeq(s, 1, m)) = IF 1 <= m THEN m - 1 + 1 ELSE 0
        /\ \A i \in 1..(m - 1 + 1) : SubSeq(s, 1, m)[i] = s[1 + i - 1]
    <3>1. \A i \in 1..m : s[i] \in S
      BY <1>1
    <3> HIDE DEF m
    <3> QED
      BY <2>1, <3>1, SubSeqProperties
  <2>3. \A i \in 1..m : SubSeq(s, 1, m)[i] = s[i]
    BY <2>1, <2>2
  <2>4. Len(SubSeq(s, 1, m)) = m
    <3> HIDE DEF m
    <3>1. (IF 1 <= m THEN m - 1 + 1 ELSE 0) = m
      BY <2>1
    <3> QED
      BY <2>2, <3>1
  <2>5. t = SubSeq(s, 1, m)
    BY DEF Front
  <2> HIDE DEF m, t
  <2> QED
    BY <2>2, <2>3, <2>4, <2>5
<1>3. DOMAIN t = 1..m /\ Range(t) = {t[i] : i \in 1..m} /\ m \in Nat /\ n = m + 1
  <2>1. Len(t) \in Nat /\ DOMAIN t = 1..Len(t) /\ Range(t) = {t[i] : i \in 1..Len(t)}
    BY <1>2, ListOf
  <2>2. n = m + 1
    BY <1>1
  <2> HIDE DEF t, m
  <2> QED
    BY <1>2, <2>1, <2>2
<1>4. Last(s) = s[n]
  BY DEF Last
<1> HIDE DEF t, n, m
<1>5. 1..n = (1..m) \cup {n} /\ n \notin 1..m /\ n \in 1..n
  BY <1>1, <1>3
<1>6. Range(s) = Range(t) \cup {s[n]}
  BY <1>1, <1>2, <1>3, <1>5
<1>7. NoRepeats(s) => NoRepeats(t) /\ s[n] \notin Range(t)
  BY <1>1, <1>2, <1>3, <1>5 DEF NoRepeats
<1>8. n - 1 = m
  BY <1>3
<1> QED
  BY <1>1, <1>2, <1>4, <1>5, <1>6, <1>7, <1>8 DEF t, n

\* A list without repetitions is as long as it has members.
LEMMA ListCount ==
    ASSUME NEW S, NEW s \in Seq(S), NoRepeats(s)
    PROVE  IsFiniteSet(Range(s)) /\ Cardinality(Range(s)) = Len(s)
<1> DEFINE n == Len(s)
           R == Range(s)
<1>1. n \in Nat /\ DOMAIN s = 1..n /\ R = {s[i] : i \in 1..n} /\ s \in [1..n -> S]
  BY ListOf, LenProperties
<1>2. IsFiniteSet(1..n) /\ Cardinality(1..n) = n
  <2>1. IsFiniteSet(1..n) /\ Cardinality(1..n) = IF 1 > n THEN 0 ELSE n - 1 + 1
    BY <1>1, FS_Interval
  <2> HIDE DEF n
  <2> QED
    BY <1>1, <2>1
<1> HIDE DEF n, R
<1>3. s \in [1..n -> R]
  BY <1>1
<1>4. s \in Bijection(1..n, R)
  <2>1. \A a, b \in 1..n : s[a] = s[b] => a = b
    BY <1>1 DEF NoRepeats
  <2>2. \A r \in R : \E a \in 1..n : s[a] = r
    BY <1>1
  <2> QED
    BY <1>3, <2>1, <2>2, Fun_IsBij
<1>5. ExistsBijection(1..n, R)
  BY <1>4 DEF ExistsBijection
<1> QED
  BY <1>2, <1>5, FS_Bijection DEF n, R

LEMMA Named ==
    /\ Definitions \in Seq(Local) /\ NoRepeats(Definitions)
    /\ Len(Definitions) \in Nat /\ DOMAIN Definitions = 1..Len(Definitions)
    /\ \A i \in 1..Len(Definitions) : Definitions[i] \in Local
    /\ Local = {Definitions[i] : i \in 1..Len(Definitions)}
    /\ IsFiniteSet(Local) /\ Cardinality(Local) = Len(Definitions)
<1>1. Definitions \in Seq(Local) /\ NoRepeats(Definitions)
  BY DefinitionsAssumption DEF Local, NoRepeats
<1>2. /\ Len(Definitions) \in Nat /\ DOMAIN Definitions = 1..Len(Definitions)
      /\ \A i \in 1..Len(Definitions) : Definitions[i] \in Local
      /\ Range(Definitions) = {Definitions[i] : i \in 1..Len(Definitions)}
  BY <1>1, ListOf
<1>3. IsFiniteSet(Local) /\ Cardinality(Local) = Len(Definitions)
  BY <1>1, ListCount DEF Local
<1> QED
  BY <1>1, <1>2, <1>3 DEF Local

LEMMA EdgesKnown ==
    ASSUME OrderTypeOK
    PROVE  /\ IsFiniteSet(Selected) /\ Selected \subseteq Nat
           /\ \A k \in Selected : edges[k].source \in Local /\ edges[k].target \in Local
           /\ \A name : From(name) \subseteq Selected /\ IsFiniteSet(From(name))
           /\ \A k \in Selected : k \in From(edges[k].source)
<1>1. Len(edges) \in Nat /\ DOMAIN edges = 1..Len(edges) /\ \A k \in 1..Len(edges) : edges[k] \in EdgeSet
  BY ListOf DEF OrderTypeOK
<1>2. Selected \in SUBSET (1..Len(edges))
  BY <1>1 DEF Selected, Chosen
<1>3. IsFiniteSet(Selected)
  <2>1. IsFiniteSet(1..Len(edges))
    BY <1>1, FS_Interval
  <2> QED
    BY <1>2, <2>1, FS_Subset
<1>4. \A k \in Selected : edges[k].source \in Local /\ edges[k].target \in Local
  BY <1>1, <1>2 DEF Selected, Chosen, EdgeSet
<1>5. \A name : From(name) \in SUBSET Selected
  BY DEF From
<1>6. \A name : IsFiniteSet(From(name))
  BY <1>3, <1>5, FS_Subset
<1>7. Selected \subseteq Nat
  BY <1>1, <1>2
<1> QED
  BY <1>3, <1>4, <1>5, <1>6, <1>7 DEF From

-----------------------------------------------------------------------------
(* Kahn's algorithm *)

LEMMA SameGraph ==
    ASSUME UNCHANGED <<edges, selection>>
    PROVE  Selected' = Selected /\ \A name : From(name)' = From(name) /\ To(name)' = To(name)
BY DEF Selected, Chosen, From, To

LEMMA AskHolds ==
    ASSUME OrderInv, NEW kinds \in SUBSET Kinds, Ask(kinds)
    PROVE  OrderInv'
<1>1. /\ doing = "referring" /\ OrderTypeOK /\ Asked
      /\ doing' = "ordering" /\ selection' = kinds
      /\ remaining' = [name \in Local |->
                         Cardinality({k \in Chosen(kinds) : edges[k].source = name})]
      /\ UNCHANGED <<edges, listed, ready, ordered, due, mark, path, left, circle, closing>>
  BY DEF OrderInv, Ask
<1>2. \A name : From(name)' = {k \in Chosen(kinds) : edges[k].source = name}
  BY <1>1 DEF From, Selected, Chosen
<1>3. Range(<<>>) = {} /\ DOMAIN <<>> = {} /\ Len(<<>>) = 0
  BY EmptySeq DEF Range
<1>4. \A name : Waits(name)' = From(name)' /\ IsFiniteSet(From(name)')
  <2>1. Reached' = {} 
    BY <1>1, <1>3 DEF Reached, Asked
  <2>2. \A name : IsFiniteSet(From(name)')
    <3>1. Len(edges) \in Nat /\ DOMAIN edges = 1..Len(edges)
      BY <1>1, ListOf DEF OrderTypeOK
    <3>2. IsFiniteSet(1..Len(edges))
      BY <3>1, FS_Interval
    <3>3. \A name : From(name)' \in SUBSET (1..Len(edges))
      BY <1>1, <3>1 DEF From, Selected, Chosen
    <3> QED
      BY <3>2, <3>3, FS_Subset
  <2> QED
    BY <2>1, <2>2 DEF Waits
<1>5. OrderTypeOK'
  <2>1. remaining' \in [Local -> Nat]
    <3>1. \A name \in Local : Cardinality({k \in Chosen(kinds) : edges[k].source = name}) \in Nat
      BY <1>2, <1>4, FS_CardinalityType
    <3> QED
      BY <1>1, <3>1
  <2>2. left' \in [Local -> SUBSET Selected'] /\ due' \subseteq Selected'
    BY <1>1 DEF Asked
  <2> QED
    BY <1>1, <2>1, <2>2 DEF OrderTypeOK
<1>6. Kahn'
  <2>1. /\ due' = {} /\ ready' = <<>> /\ ordered' = <<>> /\ listed' = 1
    BY <1>1 DEF Asked
  <2>2. \A name \in Local : remaining'[name] = Cardinality(Waits(name)')
    BY <1>1, <1>2, <1>4
  <2>3. \A name \in Local : \E i \in 1..Len(Definitions) : Definitions[i] = name
    BY Named
  <2> QED
    BY <1>3, <2>1, <2>2, <2>3 DEF Kahn, NoRepeats
<1> QED
  BY <1>1, <1>5, <1>6 DEF OrderInv, OrderIsRight

LEMMA ListHolds ==
    ASSUME OrderInv, List
    PROVE  OrderInv'
<1>1. /\ doing = "ordering" /\ OrderTypeOK /\ Kahn /\ listed <= Len(Definitions)
      /\ listed' = listed + 1
      /\ UNCHANGED <<edges, selection, doing, remaining, ordered, due, mark, path, left,
                     circle, closing>>
  BY DEF OrderInv, List
<1> DEFINE name == Definitions[listed]
<1>2. /\ listed \in 1..Len(Definitions) /\ name \in Local /\ listed \in Nat
      /\ ready' = IF remaining[name] = 0 THEN Append(ready, name) ELSE ready
  BY <1>1, Named DEF OrderTypeOK, List
<1>3. /\ Selected' = Selected /\ Reached' = Reached
      /\ \A n : From(n)' = From(n) /\ Waits(n)' = Waits(n)
  <2>1. Selected' = Selected /\ \A n : From(n)' = From(n)
    BY <1>1, SameGraph
  <2>2. Reached' = Reached
    BY <1>1, <2>1 DEF Reached
  <2> QED
    BY <1>1, <2>1, <2>2 DEF Waits
<1>4. remaining[name] = 0 <=> Waits(name) = {}
  <2>1. Waits(name) \in SUBSET From(name) /\ IsFiniteSet(From(name))
    BY <1>1, EdgesKnown DEF Waits
  <2>2. IsFiniteSet(Waits(name)) /\ remaining[name] = Cardinality(Waits(name))
    BY <1>1, <1>2, <2>1, FS_Subset DEF Kahn
  <2> QED
    BY <2>2, FS_EmptySet
<1>5. name \notin Range(ready)
  <2> SUFFICES ASSUME name \in Range(ready)
               PROVE  FALSE
    OBVIOUS
  <2>1. PICK i \in 1..(listed - 1) : Definitions[i] = name
    BY <1>1 DEF Kahn
  <2>2. i \in 1..Len(Definitions) /\ i # listed
    <3>1. Len(Definitions) \in Nat
      BY Named
    <3> QED
      BY <1>2, <2>1, <3>1
  <2> QED
    BY <1>2, <2>1, <2>2, Named DEF NoRepeats
<1>6. /\ ready' \in Seq(Local) /\ NoRepeats(ready')
      /\ Range(ready') = IF remaining[name] = 0 THEN Range(ready) \cup {name} ELSE Range(ready)
  <2>1. ready \in Seq(Local) /\ NoRepeats(ready)
    BY <1>1 DEF OrderTypeOK, Kahn
  <2> HIDE DEF name
  <2>2. /\ Append(ready, name) \in Seq(Local) /\ NoRepeats(Append(ready, name))
        /\ Range(Append(ready, name)) = Range(ready) \cup {name}
    BY <1>2, <1>5, <2>1, ListAppend
  <2> QED
    BY <1>2, <2>1, <2>2
<1>7. OrderTypeOK'
  <2>1. listed' \in 1..(Len(Definitions) + 1)
    <3>1. Len(Definitions) \in Nat
      BY Named
    <3>2. listed \in 1..Len(Definitions) /\ listed' = listed + 1
      BY <1>1, <1>2
    <3> QED
      BY <3>1, <3>2
  <2> QED
    BY <1>1, <1>3, <1>6, <2>1 DEF OrderTypeOK
<1>8. ordered = <<>> /\ due = {} /\ Range(ordered) = {}
  <2>1. ordered = <<>> /\ due = {}
    BY <1>1 DEF Kahn
  <2> QED
    BY <2>1 DEF Range
<1> HIDE DEF name
<1>9. Kahn'
  <2>1. ASSUME NEW n \in Range(ready)'
        PROVE  \E i \in 1..(listed' - 1) : Definitions[i] = n
    <3>1. CASE n = name
      BY <1>1, <1>2, <3>1 DEF name
    <3>2. CASE n # name
      <4>1. PICK i \in 1..(listed - 1) : Definitions[i] = n
        BY <1>1, <1>6, <2>1, <3>2 DEF Kahn
      <4>2. i \in 1..(listed' - 1)
        BY <1>1, <1>2, <4>1
      <4> QED
        BY <4>1, <4>2
    <3> QED
      BY <3>1, <3>2
  <2>2. ASSUME NEW n \in Local
        PROVE  /\ remaining'[n] = Cardinality(Waits(n)')
               /\ n \in Range(ready') \cup Range(ordered') => Waits(n)' = {}
               /\ Waits(n)' = {} =>
                    \/ n \in Range(ready') \cup Range(ordered')
                    \/ \E i \in listed'..Len(Definitions) : Definitions[i] = n
    <3>1. remaining'[n] = Cardinality(Waits(n)')
      BY <1>1, <1>3 DEF Kahn
    <3>2. n \in Range(ready') \cup Range(ordered') => Waits(n)' = {}
      BY <1>1, <1>3, <1>4, <1>6 DEF Kahn
    <3>3. ASSUME Waits(n)' = {}, n \notin Range(ready') \cup Range(ordered')
          PROVE  \E i \in listed'..Len(Definitions) : Definitions[i] = n
      <4>1. Waits(n) = {} /\ n \notin Range(ready) \cup Range(ordered) /\ n # name
        BY <1>1, <1>3, <1>4, <1>6, <3>3
      <4>2. PICK i \in listed..Len(Definitions) : Definitions[i] = n
        BY <1>1, <4>1 DEF Kahn
      <4>3. i # listed
        BY <4>1, <4>2 DEF name
      <4>4. i \in listed'..Len(Definitions)
        BY <1>1, <1>2, <4>2, <4>3
      <4> QED
        BY <4>2, <4>4
    <3> QED
      BY <3>1, <3>2, <3>3
  <2>3. Range(ready') \cap Range(ordered') = {} /\ NoRepeats(ordered') /\ due' \subseteq Reached'
    BY <1>1, <1>8 DEF NoRepeats
  <2>4. ordered' = <<>> /\ due' = {}
    BY <1>1, <1>8
  <2>5. \A j \in DOMAIN ordered' : \A k \in Selected' : edges'[k].source = ordered'[j] =>
          \E i \in 1..(j - 1) : ordered'[i] = edges'[k].target
    BY <2>4
  <2> QED
    BY <1>6, <2>1, <2>2, <2>3, <2>4, <2>5 DEF Kahn
<1> QED
  BY <1>1, <1>7, <1>9 DEF OrderInv, OrderIsRight

LEMMA TakeHolds ==
    ASSUME OrderInv, Take
    PROVE  OrderInv'
<1> DEFINE name == Head(ready)
<1>1. /\ doing = "ordering" /\ OrderTypeOK /\ Kahn /\ listed > Len(Definitions)
      /\ due = {} /\ ready # <<>> /\ ready' = Tail(ready)
      /\ ordered' = Append(ordered, name) /\ due' = To(name)
      /\ UNCHANGED <<edges, selection, doing, listed, remaining, mark, path, left,
                     circle, closing>>
  BY DEF OrderInv, Take
<1>2. /\ ready \in Seq(Local) /\ ordered \in Seq(Local) /\ NoRepeats(ready) /\ NoRepeats(ordered)
      /\ Range(ready) \cap Range(ordered) = {}
  BY <1>1 DEF OrderTypeOK, Kahn
<1> HIDE DEF name
<1>3. /\ ready' \in Seq(Local) /\ name \in Local /\ name \in Range(ready)
      /\ Range(ready) = Range(ready') \cup {name} /\ NoRepeats(ready') /\ name \notin Range(ready')
  BY <1>1, <1>2, ListTail DEF name
<1>4. name \notin Range(ordered)
  BY <1>2, <1>3
<1>5. /\ ordered' \in Seq(Local) /\ NoRepeats(ordered')
      /\ Len(ordered') = Len(ordered) + 1 /\ ordered'[Len(ordered) + 1] = name
      /\ \A i \in 1..Len(ordered) : ordered'[i] = ordered[i]
      /\ Range(ordered') = Range(ordered) \cup {name}
  BY <1>1, <1>2, <1>3, <1>4, ListAppend
<1>6. Selected' = Selected /\ \A n : From(n)' = From(n) /\ To(n)' = To(n)
  BY <1>1, SameGraph
<1>7. /\ due' \subseteq Reached'
      /\ \A n : Waits(n)' = Waits(n)
  <2>1. Reached' = Reached \cup To(name)
    BY <1>1, <1>5, <1>6 DEF Reached, To
  <2>2. To(name) \cap Reached = {}
    BY <1>4 DEF Reached, To
  <2>3. \A n : From(n) \subseteq Selected
    BY DEF From
  <2> QED
    BY <1>1, <1>6, <2>1, <2>2, <2>3 DEF Waits
<1>8. OrderTypeOK'
  <2>1. due' \subseteq Selected'
    BY <1>1, <1>6 DEF To
  <2> QED
    BY <1>1, <1>3, <1>5, <1>6, <2>1 DEF OrderTypeOK
<1>9. ASSUME NEW j \in DOMAIN ordered', NEW k \in Selected', edges'[k].source = ordered'[j]
      PROVE  \E i \in 1..(j - 1) : ordered'[i] = edges'[k].target
  <2>1. /\ Len(ordered) \in Nat /\ DOMAIN ordered = 1..Len(ordered) 
        /\ Range(ordered) = {ordered[i] : i \in 1..Len(ordered)}
    BY <1>2, ListOf
  <2>2. j \in 1..(Len(ordered) + 1)
    BY <1>5, ListOf
  <2>3. CASE j \in 1..Len(ordered)
    <3>1. k \in Selected /\ edges[k].source = ordered[j]
      BY <1>1, <1>5, <1>6, <1>9, <2>3
    <3>2. PICK i \in 1..(j - 1) : ordered[i] = edges[k].target
      BY <1>1, <2>1, <2>3, <3>1 DEF Kahn
    <3>3. i \in 1..Len(ordered)
      BY <2>1, <2>3
    <3> QED
      BY <1>1, <1>5, <3>2, <3>3
  <2>4. CASE j = Len(ordered) + 1
    <3>1. k \in From(name) /\ Waits(name) = {}
      <4>1. k \in From(name)
        BY <1>1, <1>5, <1>6, <1>9, <2>4 DEF From
      <4>2. Waits(name) = {}
        BY <1>1, <1>3 DEF Kahn
      <4> QED
        BY <4>1, <4>2
    <3>2. k \in Reached
      BY <3>1 DEF Waits
    <3>3. PICK i \in 1..Len(ordered) : ordered[i] = edges[k].target
      BY <2>1, <3>2 DEF Reached
    <3>4. i \in 1..(j - 1)
      BY <2>1, <2>4
    <3> QED
      BY <1>1, <1>5, <3>3, <3>4
  <2> QED
    BY <2>1, <2>2, <2>3, <2>4
<1>10. Kahn'
  <2>1. \A n \in Local :
          /\ remaining'[n] = Cardinality(Waits(n)')
          /\ n \in Range(ready') \cup Range(ordered') => Waits(n)' = {}
          /\ Waits(n)' = {} =>
               \/ n \in Range(ready') \cup Range(ordered')
               \/ \E i \in listed'..Len(Definitions) : Definitions[i] = n
    BY <1>1, <1>3, <1>5, <1>7 DEF Kahn
  <2>2. Range(ready') \cap Range(ordered') = {}
    BY <1>2, <1>3, <1>5
  <2>3. ~(listed' <= Len(Definitions))
    BY <1>1, Named DEF OrderTypeOK
  <2> QED
    BY <1>3, <1>5, <1>7, <1>9, <2>1, <2>2, <2>3 DEF Kahn
<1> QED
  BY <1>1, <1>8, <1>10 DEF OrderInv, OrderIsRight

LEMMA DependantHolds ==
    ASSUME OrderInv, Release
    PROVE  OrderInv'
<1>1. /\ doing = "ordering" /\ OrderTypeOK /\ Kahn
      /\ UNCHANGED <<edges, selection, doing, listed, ordered, mark, path, left, circle, closing>>
  BY DEF OrderInv, Release
<1>2. PICK k \in due :
        /\ due' = due \ {k}
        /\ remaining' = [remaining EXCEPT ![edges[k].source] = @ - 1]
        /\ ready' = IF remaining[edges[k].source] = 1 THEN Append(ready, edges[k].source)
                    ELSE ready
  BY DEF Release
<1>0. PICK name : name = edges[k].source
  OBVIOUS
<1>3. k \in Selected /\ k \in Reached /\ name \in Local /\ k \in From(name)
  BY <1>1, <1>0, EdgesKnown DEF OrderTypeOK, Kahn
<1>4. Selected' = Selected /\ Reached' = Reached /\ \A n : From(n)' = From(n)
  <2>1. Selected' = Selected /\ \A n : From(n)' = From(n)
    BY <1>1, SameGraph
  <2> QED
    BY <1>1, <2>1 DEF Reached
<1>5. /\ k \in Waits(name)
      /\ \A n : Waits(n)' = IF n = name THEN Waits(name) \ {k} ELSE Waits(n)
  <2>1. \A n : n # name => k \notin From(n)
    BY <1>0 DEF From
  <2>2. \A n : Waits(n)' = {m \in From(n) : m \in due \ {k} \/ m \notin Reached}
    BY <1>2, <1>4 DEF Waits
  <2>3. \A n : Waits(n) = {m \in From(n) : m \in due \/ m \notin Reached}
    BY DEF Waits
  <2> QED
    BY <1>2, <1>3, <2>1, <2>2, <2>3
<1>6. /\ remaining'[name] = remaining[name] - 1 /\ remaining[name] \in Nat /\ remaining[name] # 0
      /\ \A n \in Local : n # name => remaining'[n] = remaining[n]
      /\ remaining' \in [Local -> Nat]
      /\ remaining'[name] = Cardinality(Waits(name)')
      /\ remaining[name] = 1 <=> Waits(name)' = {}
  <2>1. Waits(name) \in SUBSET From(name) /\ IsFiniteSet(From(name))
    BY <1>1, EdgesKnown DEF Waits
  <2>2. IsFiniteSet(Waits(name)) /\ remaining[name] = Cardinality(Waits(name))
    BY <1>1, <1>3, <2>1, FS_Subset DEF Kahn
  <2>3. /\ IsFiniteSet(Waits(name) \ {k})
        /\ Cardinality(Waits(name) \ {k}) = Cardinality(Waits(name)) - 1
    BY <1>5, <2>2, FS_RemoveElement
  <2>4. Cardinality(Waits(name) \ {k}) \in Nat /\ Cardinality(Waits(name)) \in Nat
    BY <2>2, <2>3, FS_CardinalityType
  <2>5. /\ remaining \in [Local -> Nat] /\ remaining' = [remaining EXCEPT ![name] = @ - 1]
    BY <1>1, <1>2, <1>0 DEF OrderTypeOK
  <2>6. Cardinality(Waits(name) \ {k}) = 0 <=> Waits(name) \ {k} = {}
    BY <2>3, FS_EmptySet
  <2> DEFINE c == Cardinality(Waits(name))
             d == Cardinality(Waits(name) \ {k})
  <2>7. c \in Nat /\ d \in Nat /\ d = c - 1 /\ remaining[name] = c
    BY <2>2, <2>3, <2>4
  <2>8. d = 0 <=> Waits(name)' = {}
    BY <1>5, <2>6
  <2>9. Cardinality(Waits(name)') = d
    BY <1>5
  <2> HIDE DEF c, d
  <2>10. /\ remaining'[name] = remaining[name] - 1
         /\ \A n \in Local : n # name => remaining'[n] = remaining[n]
         /\ remaining' \in [Local -> Nat]
    BY <1>3, <2>5, <2>7
  <2> QED
    BY <2>7, <2>8, <2>9, <2>10
<1>7. name \notin Range(ready) \cup Range(ordered)
  BY <1>1, <1>3, <1>5 DEF Kahn
<1>8. /\ ready' \in Seq(Local) /\ NoRepeats(ready')
      /\ Range(ready') = IF remaining[name] = 1 THEN Range(ready) \cup {name} ELSE Range(ready)
  <2>1. ready \in Seq(Local) /\ NoRepeats(ready)
    BY <1>1 DEF OrderTypeOK, Kahn
  <2>2. /\ Append(ready, name) \in Seq(Local) /\ NoRepeats(Append(ready, name))
        /\ Range(Append(ready, name)) = Range(ready) \cup {name}
    BY <1>3, <1>7, <2>1, ListAppend
  <2>3. ready' = IF remaining[name] = 1 THEN Append(ready, name) ELSE ready
    BY <1>2, <1>0
  <2> QED
    BY <2>1, <2>2, <2>3
<1>9. OrderTypeOK'
  BY <1>1, <1>2, <1>4, <1>6, <1>8 DEF OrderTypeOK
<1>10. Kahn'
  <2>1. ASSUME NEW n \in Local
        PROVE  /\ remaining'[n] = Cardinality(Waits(n)')
               /\ n \in Range(ready') \cup Range(ordered') => Waits(n)' = {}
               /\ Waits(n)' = {} =>
                    \/ n \in Range(ready') \cup Range(ordered')
                    \/ \E i \in listed'..Len(Definitions) : Definitions[i] = n
    <3>1. CASE n # name
      BY <1>1, <1>5, <1>6, <1>8, <3>1 DEF Kahn
    <3>2. CASE n = name
      <4>1. Waits(n)' = Waits(name)'
        BY <1>5, <3>2
      <4> QED
        BY <1>1, <1>6, <1>7, <1>8, <3>2, <4>1
    <3> QED
      BY <3>1, <3>2
  <2>2. Range(ready') \cap Range(ordered') = {} /\ due' \subseteq Reached'
    BY <1>1, <1>2, <1>4, <1>7, <1>8 DEF Kahn
  <2>3. ~(listed' <= Len(Definitions))
    BY <1>1, <1>2 DEF Kahn
  <2>4. \A j \in DOMAIN ordered' : \A m \in Selected' : edges'[m].source = ordered'[j] =>
          \E i \in 1..(j - 1) : ordered'[i] = edges'[m].target
    BY <1>1, <1>4 DEF Kahn
  <2>5. NoRepeats(ordered')
    BY <1>1 DEF Kahn
  <2> QED
    BY <1>8, <2>1, <2>2, <2>3, <2>4, <2>5 DEF Kahn
<1> QED
  BY <1>1, <1>9, <1>10 DEF OrderInv, OrderIsRight

LEMMA ConcludeHolds ==
    ASSUME OrderInv, Conclude
    PROVE  OrderInv'
<1>1. /\ doing = "ordering" /\ OrderTypeOK /\ Kahn /\ listed > Len(Definitions)
      /\ due = {} /\ ready = <<>>
      /\ UNCHANGED <<edges, selection, remaining, ready, ordered, due, circle, closing>>
  BY DEF OrderInv, Conclude
<1>2. /\ ordered \in Seq(Local) /\ NoRepeats(ordered) /\ Len(ordered) \in Nat
      /\ DOMAIN ordered = 1..Len(ordered) /\ Range(ordered) = {ordered[i] : i \in 1..Len(ordered)}
      /\ Range(ordered) \subseteq Local
  <2>1. ordered \in Seq(Local) /\ NoRepeats(ordered)
    BY <1>1 DEF OrderTypeOK, Kahn
  <2> QED
    BY <2>1, ListOf
<1>3. Len(ordered) = Len(Definitions) <=> Range(ordered) = Local
  <2>1. Cardinality(Range(ordered)) = Len(ordered)
    BY <1>2, ListCount
  <2>2. IsFiniteSet(Local) /\ Cardinality(Local) = Len(Definitions)
    BY Named
  <2>3. Cardinality(Local) = Cardinality(Range(ordered)) => Local = Range(ordered)
    BY <1>2, <2>2, FS_Subset
  <2> QED
    BY <2>1, <2>2, <2>3
<1>4. Selected' = Selected /\ \A n : From(n)' = From(n)
  BY <1>1, SameGraph
<1>5. CASE Len(ordered) = Len(Definitions)
  <2>1. doing' = "ordered" /\ UNCHANGED <<listed, mark, path, left>>
    BY <1>5 DEF Conclude
  <2>2. ASSUME NEW k \in Selected
        PROVE  \E i, j \in DOMAIN ordered :
                 i < j /\ ordered[i] = edges[k].target /\ ordered[j] = edges[k].source
    <3>1. edges[k].source \in Local /\ k \in From(edges[k].source)
      BY <1>1, EdgesKnown
    <3>2. PICK j \in 1..Len(ordered) : ordered[j] = edges[k].source
      BY <1>2, <1>3, <1>5, <3>1
    <3>3. PICK i \in 1..(j - 1) : ordered[i] = edges[k].target
      BY <1>1, <1>2, <3>1, <3>2 DEF Kahn
    <3>4. i \in 1..Len(ordered) /\ i < j
      BY <1>2
    <3> QED
      BY <1>2, <3>2, <3>3, <3>4
  <2>3. IsOrder'
    BY <1>1, <1>2, <1>3, <1>4, <1>5, <2>2 DEF IsOrder
  <2>4. OrderTypeOK'
    BY <1>1, <1>4, <2>1 DEF OrderTypeOK
  <2> QED
    BY <2>1, <2>3, <2>4 DEF OrderInv, OrderIsRight
<1>6. CASE Len(ordered) # Len(Definitions)
  <2>1. /\ doing' = "searching" /\ listed' = 1
        /\ mark' = [name \in Local |-> 0] /\ path' = <<>>
        /\ left' = [name \in Local |-> From(name)]
    BY <1>6 DEF Conclude
  <2>2. Knot' = Knot /\ Knot # {}
    BY <1>1, <1>2, <1>3, <1>6 DEF Knot
  <2>3. ASSUME NEW name \in Knot
        PROVE  \E k \in From(name) : edges[k].target \in Knot
    <3>1. name \in Local /\ name \notin Range(ordered)
      BY DEF Knot
    <3>2. Waits(name) # {}
      <4>1. Range(ready) = {}
        BY <1>1 DEF Range
      <4>2. ~\E i \in listed..Len(Definitions) : TRUE
        BY <1>1, Named DEF OrderTypeOK
      <4> QED
        BY <1>1, <3>1, <4>1, <4>2 DEF Kahn
    <3>3. PICK k \in From(name) : k \notin Reached
      BY <1>1, <3>2 DEF Waits
    <3>4. k \in Selected /\ edges[k].target \in Local
      BY <1>1, EdgesKnown
    <3> QED
      BY <3>3, <3>4 DEF Reached, Knot
  <2>4. Knotted'
    BY <1>1, <1>4, <2>2, <2>3 DEF Knotted
  <2>5. OrderTypeOK'
    <3>1. left' \in [Local -> SUBSET Selected'] /\ path' \in Seq(Local)
      BY <1>4, <2>1, EmptySeq DEF From
    <3>2. mark' \in [Local -> {0, 1, 2}] /\ listed' \in 1..(Len(Definitions) + 1)
      BY <2>1, Named
    <3> QED
      BY <1>1, <1>4, <2>1, <3>1, <3>2 DEF OrderTypeOK
  <2>6. Walk'
    <3>1. DOMAIN path' = {} /\ Range(path') = {} /\ Len(path') = 0
      BY <2>1, EmptySeq DEF Range
    <3>2. \A name \in Local : mark'[name] = 0 /\ left'[name] = From(name)'
      BY <1>4, <2>1
    <3>3. ~\E i \in 1..(listed' - 1) : TRUE
      BY <2>1
    <3>4. ~\E i \in 1..(Len(path') - 1) : TRUE
      BY <3>1
    <3> QED
      BY <2>4, <3>1, <3>2, <3>3, <3>4 DEF Walk, NoRepeats
  <2> QED
    BY <2>1, <2>5, <2>6 DEF OrderInv, OrderIsRight
<1> QED
  BY <1>5, <1>6

-----------------------------------------------------------------------------
(* The walk *)

\* What no step of the walk changes.
LEMMA WalkBasics ==
    ASSUME OrderInv, doing = "searching", UnchangedOrder
    PROVE  /\ OrderTypeOK /\ Walk
           /\ Selected' = Selected /\ Knot' = Knot /\ Knotted'
           /\ \A name : From(name)' = From(name)
           /\ UNCHANGED <<edges, selection, remaining, ready, ordered, due>>
           /\ path \in Seq(Local) /\ Len(path) \in Nat /\ DOMAIN path = 1..Len(path)
           /\ \A i \in 1..Len(path) : path[i] \in Local /\ mark[path[i]] = 1
<1>1. /\ OrderTypeOK /\ Walk
      /\ UNCHANGED <<edges, selection, remaining, ready, ordered, due>>
  BY DEF OrderInv, UnchangedOrder
<1>2. Selected' = Selected /\ \A name : From(name)' = From(name)
  BY <1>1, SameGraph
<1>3. Knot' = Knot
  BY <1>1 DEF Knot
<1>4. Knotted'
  BY <1>1, <1>2, <1>3 DEF Walk, Knotted
<1>5. /\ path \in Seq(Local) /\ Len(path) \in Nat /\ DOMAIN path = 1..Len(path)
      /\ \A i \in 1..Len(path) : path[i] \in Local
      /\ Range(path) = {path[i] : i \in 1..Len(path)}
  <2>1. path \in Seq(Local)
    BY <1>1 DEF OrderTypeOK
  <2> QED
    BY <2>1, ListOf
<1>6. \A i \in 1..Len(path) : mark[path[i]] = 1
  BY <1>1, <1>5 DEF Walk
<1> QED
  BY <1>1, <1>2, <1>3, <1>4, <1>5, <1>6

\* A definition seen for the first time is the end of the path.
LEMMA EnterHolds ==
    ASSUME OrderInv, doing = "searching", UnchangedOrder, UNCHANGED <<doing, circle, closing>>,
           NEW name \in Local, mark[name] = 0,
           mark' = [mark EXCEPT ![name] = 1], path' = Append(path, name),
           left' \in [Local -> SUBSET Selected],
           \A n \in Local : left'[n] \subseteq left[n] /\ (mark'[n] = 0 => left'[n] = left[n]),
           left'[name] = left[name],
           \A i \in 1..(Len(path) - 1) : left'[path[i]] = left[path[i]],
           path # <<>> =>
             \E k \in Selected :
               /\ edges[k].source = Last(path) /\ edges[k].target = name
               /\ left'[Last(path)] = left[Last(path)] \ {k},
           listed' \in 1..(Len(Definitions) + 1),
           \A i \in 1..(listed' - 1) : mark'[Definitions[i]] # 0
    PROVE  OrderInv'
<1>1. /\ OrderTypeOK /\ Walk
      /\ Selected' = Selected /\ Knot' = Knot /\ Knotted'
      /\ \A n : From(n)' = From(n)
      /\ UNCHANGED <<edges, selection, remaining, ready, ordered, due>>
      /\ path \in Seq(Local) /\ Len(path) \in Nat /\ DOMAIN path = 1..Len(path)
      /\ \A i \in 1..Len(path) : path[i] \in Local /\ mark[path[i]] = 1
  BY WalkBasics
<1>2. /\ path' \in Seq(Local) /\ Len(path') = Len(path) + 1 /\ DOMAIN path' = 1..(Len(path) + 1)
      /\ \A i \in 1..Len(path) : path'[i] = path[i]
      /\ path'[Len(path) + 1] = name /\ Range(path') = Range(path) \cup {name}
      /\ NoRepeats(path')
  <2>1. name \notin Range(path)
    BY <1>1 DEF Walk
  <2>2. /\ path' \in Seq(Local) /\ Len(path') = Len(path) + 1
        /\ \A i \in 1..Len(path) : path'[i] = path[i]
        /\ path'[Len(path) + 1] = name /\ Range(path') = Range(path) \cup {name}
        /\ NoRepeats(path')
    BY <1>1, <2>1, ListAppend DEF Walk
  <2>3. DOMAIN path' = 1..Len(path')
    BY <2>2, ListOf
  <2> QED
    BY <2>2, <2>3
<1>3. /\ mark' \in [Local -> {0, 1, 2}] /\ mark'[name] = 1
      /\ \A n \in Local : n # name => mark'[n] = mark[n]
  BY <1>1 DEF OrderTypeOK
<1>4. OrderTypeOK'
  BY <1>1, <1>2, <1>3 DEF OrderTypeOK
<1>5. \A n \in Local : mark'[n] = 1 <=> n \in Range(path')
  BY <1>1, <1>2, <1>3 DEF Walk
<1>6. ASSUME NEW i \in 1..(Len(path') - 1)
      PROVE  \E k \in Selected' : edges'[k].source = path'[i] /\ edges'[k].target = path'[i + 1]
  <2>1. i \in 1..Len(path)
    BY <1>1, <1>2
  <2>2. CASE i = Len(path)
    <3>1. path # <<>> /\ Last(path) = path[i]
      <4>1. path \in Seq(Local) /\ path # <<>>
        BY <1>1, <2>1, <2>2, EmptySeq
      <4>2. Last(path) = path[Len(path)]
        BY DEF Last
      <4> QED
        BY <2>2, <4>1, <4>2
    <3>2. \E k \in Selected : edges[k].source = Last(path) /\ edges[k].target = name
      BY <3>1
    <3> QED
      BY <1>1, <1>2, <2>1, <2>2, <3>1, <3>2
  <2>3. CASE i # Len(path)
    <3>1. i \in 1..(Len(path) - 1) /\ i + 1 \in 1..Len(path)
      <4>1. Len(path) \in Nat
        BY <1>1
      <4> QED
        BY <2>1, <2>3, <4>1
    <3>2. \E k \in Selected : edges[k].source = path[i] /\ edges[k].target = path[i + 1]
      BY <1>1, <3>1 DEF Walk
    <3>3. path'[i] = path[i] /\ path'[i + 1] = path[i + 1]
      BY <1>2, <2>1, <3>1
    <3> QED
      BY <1>1, <3>2, <3>3
  <2> QED
    BY <2>2, <2>3
<1>7. \A n \in Local : /\ left'[n] \subseteq From(n)'
                       /\ mark'[n] = 0 => left'[n] = From(n)'
                       /\ mark'[n] = 2 => n \notin Knot'
  <2> SUFFICES ASSUME NEW n \in Local
               PROVE  /\ left'[n] \subseteq From(n)
                      /\ mark'[n] = 0 => left'[n] = From(n)
                      /\ mark'[n] = 2 => n \notin Knot
    BY <1>1
  <2>1. /\ left[n] \subseteq From(n)
        /\ mark[n] = 0 => left[n] = From(n)
        /\ mark[n] = 2 => n \notin Knot
    BY <1>1 DEF Walk
  <2>2. left'[n] \subseteq left[n] /\ (mark'[n] = 0 => left'[n] = left[n])
    OBVIOUS
  <2>3. mark'[n] = 0 => mark[n] = 0
    BY <1>3
  <2>4. mark'[n] = 2 => mark[n] = 2
    BY <1>3
  <2>5. left'[n] \subseteq From(n)
    BY <2>1, <2>2
  <2>6. mark'[n] = 0 => left'[n] = From(n)
    BY <2>1, <2>2, <2>3
  <2> QED
    BY <2>1, <2>4, <2>5, <2>6
<1>8. ASSUME NEW i \in DOMAIN path', NEW k \in Selected' \ left'[path'[i]],
             edges'[k].source = path'[i]
      PROVE  \/ mark'[edges'[k].target] = 2
             \/ i < Len(path') /\ edges'[k].target = path'[i + 1]
  <2>1. k \in Selected /\ edges[k].target \in Local /\ k \in From(edges[k].source)
    BY <1>1, EdgesKnown
  <2>2. CASE i = Len(path) + 1
    <3>1. left'[name] = From(name)
      BY <1>1 DEF Walk
    <3> QED
      BY <1>1, <1>2, <1>8, <2>1, <2>2, <3>1
  <2>3. CASE i \in 1..Len(path) /\ k \notin left[path[i]]
    <3>1. /\ edges[k].source = path[i] /\ path'[i] = path[i] /\ i < Len(path')
      BY <1>1, <1>2, <1>8, <2>3
    <3>2. mark[edges[k].target] = 2 \/ (i < Len(path) /\ edges[k].target = path[i + 1])
      BY <1>1, <2>1, <2>3, <3>1 DEF Walk
    <3>3. CASE mark[edges[k].target] = 2
      BY <1>1, <1>3, <2>1, <3>3
    <3>4. CASE i < Len(path) /\ edges[k].target = path[i + 1]
      <4>1. i + 1 \in 1..Len(path)
        BY <1>1, <2>3, <3>4
      <4> QED
        BY <1>1, <1>2, <3>1, <3>4, <4>1
    <3> QED
      BY <3>2, <3>3, <3>4
  <2>4. CASE i \in 1..Len(path) /\ k \in left[path[i]]
    <3>1. path'[i] = path[i] /\ k \notin left'[path[i]] /\ i < Len(path')
      BY <1>1, <1>2, <2>4
    <3>2. i = Len(path)
      <4> SUFFICES ASSUME i # Len(path)
                   PROVE  FALSE
        OBVIOUS
      <4>1. i \in 1..(Len(path) - 1)
        BY <1>1, <2>4
      <4> QED
        BY <2>4, <3>1, <4>1
    <3>3. path # <<>> /\ Last(path) = path[i]
      <4>1. path \in Seq(Local) /\ path # <<>>
        BY <1>1, <2>4, <3>2, EmptySeq
      <4>2. Last(path) = path[Len(path)]
        BY DEF Last
      <4> QED
        BY <3>2, <4>1, <4>2
    <3>4. PICK m \in Selected :
            /\ edges[m].target = name /\ left'[Last(path)] = left[Last(path)] \ {m}
      BY <3>3
    <3>5. k = m
      BY <2>4, <3>1, <3>3, <3>4
    <3> QED
      BY <1>1, <1>2, <3>1, <3>2, <3>4, <3>5
  <2> QED
    BY <1>1, <1>2, <2>2, <2>3, <2>4
<1>9. Walk'
  <2>1. \A i \in DOMAIN path' : \A k \in Selected' \ left'[path'[i]] :
          \/ edges'[k].source # path'[i]
          \/ mark'[edges'[k].target] = 2
          \/ i < Len(path') /\ edges'[k].target = path'[i + 1]
    BY <1>8
  <2>2. Knotted' /\ NoRepeats(path')
    BY <1>1, <1>2
  <2>3. \A i \in 1..(listed' - 1) : mark'[Definitions[i]] # 0
    OBVIOUS
  <2> QED
    BY <1>5, <1>6, <1>7, <2>1, <2>2, <2>3 DEF Walk
<1> QED
  BY <1>4, <1>9 DEF OrderInv, OrderIsRight

\* Having gone everywhere, the walk has been in the knot: it never gives up.
LEMMA NeverNone ==
    ASSUME OrderInv, doing = "searching", path = <<>>
    PROVE  listed \in 1..Len(Definitions)
<1>1. Len(Definitions) \in Nat /\ OrderTypeOK /\ Walk
  BY Named DEF OrderInv
<1> SUFFICES ASSUME listed > Len(Definitions)
             PROVE  FALSE
  BY <1>1 DEF OrderTypeOK
<1>2. listed - 1 = Len(Definitions)
  BY <1>1 DEF OrderTypeOK
<1>3. PICK name \in Local : name \in Knot
  BY <1>1 DEF Walk, Knotted, Knot
<1>4. PICK i \in 1..Len(Definitions) : Definitions[i] = name
  BY Named
<1>5. mark[name] # 0
  BY <1>1, <1>2, <1>4 DEF Walk
<1>6. mark[name] = 1 <=> name \in Range(path)
  BY <1>1 DEF Walk
<1>7. mark[name] # 2
  BY <1>1, <1>3 DEF Walk
<1>8. Range(path) = {}
  BY DEF Range
<1> QED
  BY <1>1, <1>5, <1>6, <1>7, <1>8 DEF OrderTypeOK

LEMMA StartHolds ==
    ASSUME OrderInv, Start
    PROVE  OrderInv'
<1> DEFINE name == Definitions[listed]
<1>1. /\ doing = "searching" /\ path = <<>> /\ listed \in 1..Len(Definitions)
      /\ listed' = listed + 1 /\ UnchangedOrder /\ UNCHANGED <<doing, left, circle, closing>>
      /\ Len(Definitions) \in Nat /\ OrderTypeOK /\ Walk
  <2>1. doing = "searching" /\ path = <<>> /\ OrderTypeOK /\ Walk
    BY DEF Start, OrderInv
  <2>2. Len(Definitions) \in Nat
    BY Named
  <2>3. listed \in 1..Len(Definitions)
    BY <2>1, NeverNone
  <2>4. ~(listed > Len(Definitions))
    BY <2>2, <2>3
  <2> QED
    BY <2>1, <2>2, <2>3, <2>4 DEF Start
<1>2. name \in Local /\ listed' \in 1..(Len(Definitions) + 1)
  <2>1. name \in Local
    BY <1>1, Named
  <2>2. listed \in 1..Len(Definitions) /\ listed' = listed + 1 /\ Len(Definitions) \in Nat
    BY <1>1
  <2>3. listed' \in 1..(Len(Definitions) + 1)
    BY <2>2
  <2> QED
    BY <2>1, <2>3
<1>3. \A i \in 1..(listed' - 1) : Definitions[i] \in Local /\ (i = listed \/ mark[Definitions[i]] # 0)
  <2> SUFFICES ASSUME NEW i \in 1..(listed' - 1)
               PROVE  Definitions[i] \in Local /\ (i = listed \/ mark[Definitions[i]] # 0)
    OBVIOUS
  <2>1. i \in 1..Len(Definitions) /\ (i = listed \/ i \in 1..(listed - 1))
    BY <1>1
  <2> QED
    BY <1>1, <2>1, Named DEF Walk
<1>4. CASE mark[name] = 0
  <2>1. mark' = [mark EXCEPT ![name] = 1] /\ path' = <<name>>
    <3>1. ~(listed > Len(Definitions))
      BY <1>1
    <3> QED
      BY <1>4, <3>1 DEF Start
  <2>2. path' = Append(path, name)
    BY <1>1, <2>1
  <2>3. left' \in [Local -> SUBSET Selected] /\ left' = left
    BY <1>1 DEF OrderTypeOK
  <2>4. \A i \in 1..(listed' - 1) : mark'[Definitions[i]] # 0
    BY <1>1, <1>2, <1>3, <2>1 DEF OrderTypeOK
  <2> HIDE DEF name
  <2> QED
    BY <1>1, <1>2, <1>4, <2>1, <2>2, <2>3, <2>4, EnterHolds
<1>5. CASE mark[name] # 0
  <2>1. UNCHANGED <<mark, path>>
    <3>1. ~(listed > Len(Definitions))
      BY <1>1
    <3> QED
      BY <1>5, <3>1 DEF Start
  <2>2. /\ Selected' = Selected /\ Knot' = Knot /\ Knotted' /\ \A n : From(n)' = From(n)
        /\ UNCHANGED <<edges, selection, remaining, ready, ordered, due>>
    BY <1>1, WalkBasics
  <2>3. OrderTypeOK'
    BY <1>1, <1>2, <2>1, <2>2 DEF OrderTypeOK
  <2>4. \A i \in 1..(listed' - 1) : mark'[Definitions[i]] # 0
    BY <1>3, <1>5, <2>1
  <2>5. Walk'
    BY <1>1, <2>1, <2>2, <2>4 DEF Walk
  <2> QED
    BY <1>1, <2>3, <2>5 DEF OrderInv, OrderIsRight
<1> QED
  BY <1>4, <1>5

LEMMA StepBackHolds ==
    ASSUME OrderInv, StepBack
    PROVE  OrderInv'
<1>1. /\ doing = "searching" /\ path # <<>> /\ left[Last(path)] = {}
      /\ path' = Front(path) /\ mark' = [mark EXCEPT ![Last(path)] = 2]
      /\ UnchangedOrder /\ UNCHANGED <<doing, listed, left, circle, closing>>
  BY DEF StepBack
<1>2. /\ OrderTypeOK /\ Walk
      /\ Selected' = Selected /\ Knot' = Knot /\ Knotted' /\ \A n : From(n)' = From(n)
      /\ UNCHANGED <<edges, selection, remaining, ready, ordered, due>>
      /\ path \in Seq(Local) /\ Len(path) \in Nat /\ DOMAIN path = 1..Len(path)
      /\ \A i \in 1..Len(path) : path[i] \in Local /\ mark[path[i]] = 1
  BY <1>1, WalkBasics
<1>3. PICK name \in Local : name = Last(path)
  BY <1>1, <1>2, ListFront
<1>4. PICK n \in Nat : Len(path) = n + 1 /\ n = Len(path) - 1
  <2>1. Len(path) \in Nat /\ Len(path) # 0
    BY <1>1, <1>2, EmptySeq
  <2> QED
    BY <2>1
<1>5. /\ path' \in Seq(Local) /\ Len(path') = n /\ DOMAIN path' = 1..n
      /\ \A i \in 1..n : path'[i] = path[i]
      /\ path[n + 1] = name
      /\ Range(path) = Range(path') \cup {name} /\ NoRepeats(path') /\ name \notin Range(path')
  <2>1. NoRepeats(path)
    BY SMTT(30), <1>2 DEF Walk
  <2>2. /\ path' \in Seq(Local) /\ Len(path') = Len(path) - 1
        /\ \A i \in 1..(Len(path) - 1) : path'[i] = path[i]
        /\ Last(path) = path[Len(path)] /\ Range(path) = Range(path') \cup {name}
        /\ NoRepeats(path') /\ name \notin Range(path')
    BY <1>1, <1>2, <1>3, <2>1, ListFront
  <2>3. DOMAIN path' = 1..Len(path')
    BY <2>2, ListOf
  <2> QED
    BY <1>3, <1>4, <2>2, <2>3
<1>6. /\ mark' \in [Local -> {0, 1, 2}] /\ mark'[name] = 2 /\ mark[name] = 1
      /\ \A m \in Local : m # name => mark'[m] = mark[m]
  BY <1>1, <1>2, <1>3, <1>4, <1>5 DEF OrderTypeOK
<1>7. OrderTypeOK'
  BY <1>1, <1>2, <1>5, <1>6 DEF OrderTypeOK
<1>8. name \notin Knot
  <2> SUFFICES ASSUME name \in Knot
               PROVE  FALSE
    OBVIOUS
  <2>1. PICK k \in From(name) : edges[k].target \in Knot
    BY <1>2 DEF Walk, Knotted
  <2>2. k \in Selected /\ edges[k].source = name /\ edges[k].target \in Local
    BY <1>2, EdgesKnown DEF From
  <2>3. k \notin left[path[n + 1]] /\ n + 1 \in DOMAIN path /\ ~(n + 1 < Len(path))
    BY <1>1, <1>2, <1>3, <1>4, <1>5
  <2>4. mark[edges[k].target] = 2
    BY <1>2, <1>5, <2>2, <2>3 DEF Walk
  <2> QED
    BY <1>2, <2>1, <2>2, <2>4 DEF Walk
<1>9. \A m \in Local : mark'[m] = 1 <=> m \in Range(path')
  BY <1>2, <1>5, <1>6 DEF Walk
<1>10. \A m \in Local : /\ left'[m] \subseteq From(m)'
                        /\ mark'[m] = 0 => left'[m] = From(m)'
                        /\ mark'[m] = 2 => m \notin Knot'
  <2> SUFFICES ASSUME NEW m \in Local
               PROVE  /\ left[m] \subseteq From(m)
                      /\ mark'[m] = 0 => left[m] = From(m)
                      /\ mark'[m] = 2 => m \notin Knot
    BY <1>1, <1>2
  <2>1. /\ left[m] \subseteq From(m)
        /\ mark[m] = 0 => left[m] = From(m)
        /\ mark[m] = 2 => m \notin Knot
    BY <1>2 DEF Walk
  <2> QED
    BY <1>6, <1>8, <2>1
<1>11. ASSUME NEW i \in 1..n
       PROVE  /\ i \in 1..Len(path) /\ path'[i] = path[i] /\ path[i] \in Local
              /\ i < Len(path)
              /\ i \in 1..(n - 1) => /\ i \in 1..(Len(path) - 1) /\ i < Len(path')
                                     /\ path'[i + 1] = path[i + 1]
              /\ i # n => i \in 1..(n - 1)
  <2>1. i \in 1..Len(path) /\ i < Len(path) /\ (i # n => i \in 1..(n - 1))
    BY <1>4
  <2>2. i \in 1..(n - 1) => /\ i \in 1..(Len(path) - 1) /\ i + 1 \in 1..n /\ i < n
    BY <1>4
  <2> QED
    BY <1>2, <1>5, <2>1, <2>2
<1>12. ASSUME NEW i \in 1..(n - 1)
       PROVE  \E k \in Selected : edges[k].source = path'[i] /\ edges[k].target = path'[i + 1]
  <2>1. i \in 1..n
    BY <1>4
  <2>2. i \in 1..(Len(path) - 1) /\ path'[i] = path[i] /\ path'[i + 1] = path[i + 1]
    BY <1>11, <2>1
  <2> QED
    BY <1>2, <2>2 DEF Walk
<1>13. ASSUME NEW i \in 1..n, NEW k \in Selected \ left[path'[i]], edges[k].source = path'[i]
       PROVE  \/ mark'[edges[k].target] = 2
              \/ i < Len(path') /\ edges[k].target = path'[i + 1]
  <2>1. /\ i \in DOMAIN path /\ k \in Selected \ left[path[i]] /\ edges[k].source = path[i]
    BY <1>2, <1>11, <1>13
  <2>2. mark[edges[k].target] = 2 \/ edges[k].target = path[i + 1]
    BY <1>2, <2>1 DEF Walk
  <2>3. edges[k].target \in Local
    BY <1>2, EdgesKnown
  <2>4. CASE mark[edges[k].target] = 2
    BY <1>6, <2>3, <2>4
  <2>5. CASE edges[k].target = path[i + 1] /\ i = n
    BY <1>5, <1>6, <2>5
  <2>6. CASE edges[k].target = path[i + 1] /\ i # n
    BY <1>11, <2>6
  <2> QED
    BY <2>2, <2>4, <2>5, <2>6
<1>14. \A i \in 1..(listed - 1) : mark'[Definitions[i]] # 0
  <2> SUFFICES ASSUME NEW i \in 1..(listed - 1)
               PROVE  mark'[Definitions[i]] # 0
    OBVIOUS
  <2>1. i \in 1..Len(Definitions) /\ Definitions[i] \in Local
    <3>1. Len(Definitions) \in Nat /\ listed \in 1..(Len(Definitions) + 1)
      BY <1>2, Named DEF OrderTypeOK
    <3>2. i \in 1..Len(Definitions)
      BY <3>1
    <3> QED
      BY <3>2, Named
  <2>2. mark[Definitions[i]] # 0
    BY <1>2 DEF Walk
  <2> QED
    BY <1>6, <2>1, <2>2
<1>15. Walk'
  <2>1. \A i \in DOMAIN path' : \A k \in Selected' \ left'[path'[i]] :
          \/ edges'[k].source # path'[i]
          \/ mark'[edges'[k].target] = 2
          \/ i < Len(path') /\ edges'[k].target = path'[i + 1]
    BY <1>1, <1>2, <1>5, <1>13
  <2>2. \A i \in 1..(Len(path') - 1) : \E k \in Selected' :
          edges'[k].source = path'[i] /\ edges'[k].target = path'[i + 1]
    BY <1>2, <1>5, <1>12
  <2>3. \A i \in 1..(listed' - 1) : mark'[Definitions[i]] # 0
    BY <1>1, <1>14
  <2> QED
    BY <1>2, <1>5, <1>9, <1>10, <2>1, <2>2, <2>3 DEF Walk
<1> QED
  BY <1>1, <1>7, <1>15 DEF OrderInv, OrderIsRight

\* The edge the walk follows from the end of the path.
LEMMA FollowBasics ==
    ASSUME OrderInv, doing = "searching", UnchangedOrder, path # <<>>,
           NEW k \in left[Last(path)], left' = [left EXCEPT ![Last(path)] = @ \ {k}]
    PROVE  /\ Last(path) = path[Len(path)] /\ Len(path) \in 1..Len(path)
           /\ Last(path) \in Local /\ mark[Last(path)] = 1
           /\ k \in Selected /\ edges[k].source = Last(path) /\ edges[k].target \in Local
           /\ left' \in [Local -> SUBSET Selected]
           /\ left'[Last(path)] = left[Last(path)] \ {k}
           /\ \A n \in Local : n # Last(path) => left'[n] = left[n]
           /\ \A i \in 1..(Len(path) - 1) : path[i] \in Local /\ path[i] # Last(path)
<1>1. /\ OrderTypeOK /\ Walk /\ path \in Seq(Local) /\ Len(path) \in Nat /\ DOMAIN path = 1..Len(path)
      /\ \A i \in 1..Len(path) : path[i] \in Local /\ mark[path[i]] = 1
  BY WalkBasics
<1>2. Last(path) = path[Len(path)] /\ Len(path) \in 1..Len(path)
  <2>1. Len(path) # 0
    BY <1>1, EmptySeq
  <2> QED
    BY <1>1, <2>1 DEF Last
<1>3. PICK name \in Local : name = Last(path) /\ mark[name] = 1
  BY <1>1, <1>2
<1>4. k \in From(name)
  BY <1>1, <1>3 DEF Walk
<1>5. k \in Selected /\ edges[k].source = name /\ edges[k].target \in Local
  BY <1>1, <1>4, EdgesKnown DEF From
<1>6. left \in [Local -> SUBSET Selected]
  BY <1>1 DEF OrderTypeOK
<1>7. /\ left' \in [Local -> SUBSET Selected] /\ left'[name] = left[name] \ {k}
      /\ \A n \in Local : n # name => left'[n] = left[n]
  <2>1. left' = [left EXCEPT ![name] = left[name] \ {k}]
    BY <1>3, <1>6
  <2> QED
    BY <1>6, <2>1
<1>8. ASSUME NEW i \in 1..(Len(path) - 1)
      PROVE  path[i] \in Local /\ path[i] # Last(path)
  <2>1. Len(path) \in Nat
    BY <1>1
  <2>2. i \in 1..Len(path) /\ i # Len(path)
    BY <2>1
  <2>3. NoRepeats(path)
    BY SMTT(30), <1>1 DEF Walk
  <2>4. i \in DOMAIN path /\ Len(path) \in DOMAIN path
    BY <1>1, <1>2, <2>2
  <2>5. path[i] # path[Len(path)]
    BY SMTT(30), <2>2, <2>3, <2>4 DEF NoRepeats
  <2>6. path[i] \in Local
    BY <1>1, <2>2
  <2> QED
    BY <1>2, <2>5, <2>6
<1> QED
  BY <1>2, <1>3, <1>5, <1>7, <1>8

\* A circle is closed.
LEMMA CloseHolds ==
    ASSUME OrderInv, doing = "searching", UnchangedOrder, UNCHANGED <<listed, mark, path>>,
           path # <<>>, NEW k \in left[Last(path)],
           left' = [left EXCEPT ![Last(path)] = @ \ {k}],
           IsNext(k, left[Last(path)]), mark[edges[k].target] = 1,
           doing' = "circular", circle' = CircleTo(edges[k].target),
           closing' = ClosingEdge(CircleTo(edges[k].target))
    PROVE  OrderInv'
<1>1. /\ OrderTypeOK /\ Walk
      /\ Selected' = Selected
      /\ UNCHANGED <<edges, selection, remaining, ready, ordered, due>>
      /\ path \in Seq(Local) /\ Len(path) \in Nat /\ DOMAIN path = 1..Len(path)
      /\ \A i \in 1..Len(path) : path[i] \in Local /\ mark[path[i]] = 1
  BY WalkBasics
<1>2. /\ Last(path) = path[Len(path)] /\ Len(path) \in 1..Len(path)
      /\ Last(path) \in Local
      /\ k \in Selected /\ edges[k].source = Last(path) /\ edges[k].target \in Local
      /\ left' \in [Local -> SUBSET Selected]
  BY FollowBasics
<1>3. PICK target \in Local : target = edges[k].target /\ mark[target] = 1
  BY <1>2
<1>4. PICK p \in 1..Len(path) : p = PositionOf(target) /\ path[p] = target
  <2>1. target \in Range(path)
    BY <1>1, <1>3 DEF Walk
  <2>2. \E i \in DOMAIN path : path[i] = target
    BY <2>1 DEF Range
  <2> QED
    BY <1>1, <2>2 DEF PositionOf
<1>5. PICK m \in Nat : m = Len(path) /\ m # 0 /\ p \in 1..m
  <2>1. Len(path) \in Nat
    BY <1>1
  <2>2. Len(path) # 0
    BY <1>4, <2>1
  <2> QED
    BY <1>4, <2>1, <2>2
<1> DEFINE piece == SubSeq(path, p, m)
           n == m - p + 1
<1>6. /\ n \in Nat /\ n # 0 /\ piece \in Seq(Local) /\ Len(piece) = n
      /\ \A i \in 1..n : piece[i] = path[p + i - 1]
  <2>1. \A i \in p..m : path[i] \in Local
    BY <1>1, <1>5
  <2>2. p \in Int /\ m \in Int /\ p <= m
    BY <1>5
  <2>3. /\ piece \in Seq(Local) /\ Len(piece) = (IF p <= m THEN m - p + 1 ELSE 0)
        /\ \A i \in 1..(m - p + 1) : piece[i] = path[p + i - 1]
    BY <2>1, <2>2, SubSeqProperties
  <2>4. n \in Nat /\ n # 0
    BY <1>5
  <2> HIDE DEF piece
  <2> QED
    BY <2>2, <2>3, <2>4
<1>7. circle' = Append(piece, target)
  BY <1>3, <1>4, <1>5 DEF CircleTo
<1> HIDE DEF piece
<1>8. /\ circle' \in Seq(Local) /\ Len(circle') = n + 1
      /\ \A i \in 1..n : circle'[i] = path[p + i - 1]
      /\ circle'[n + 1] = target
  BY <1>6, <1>7, ListAppend
<1>9. ASSUME NEW i \in 1..n
      PROVE  /\ p + i - 1 \in 1..m
             /\ i # n => /\ p + i - 1 \in 1..(m - 1) /\ i + 1 \in 1..n
                        /\ p + (i + 1) - 1 = (p + i - 1) + 1
             /\ i = n => p + i - 1 = m
  <2>1. p \in 1..m /\ m \in Nat
    BY <1>5
  <2>2. i \in 1..(m - p + 1)
    OBVIOUS
  <2>3. p + i - 1 \in 1..m
    BY <2>1, <2>2
  <2>4. i # m - p + 1 => /\ p + i - 1 \in 1..(m - 1) /\ i + 1 \in 1..(m - p + 1)
                         /\ p + (i + 1) - 1 = (p + i - 1) + 1
    BY <2>1, <2>2
  <2>5. i = m - p + 1 => p + i - 1 = m
    BY <2>1, <2>2
  <2> QED
    BY <2>3, <2>4, <2>5
<1>10. circle'[1] = target /\ Last(circle') = target
  <2>1. 1 \in 1..n /\ p + 1 - 1 = p
    BY <1>5, <1>6
  <2> HIDE DEF n
  <2>2. circle'[1] = path[p]
    BY <1>8, <2>1
  <2> QED
    BY <1>4, <1>8, <2>2 DEF Last
<1> HIDE DEF n
<1>11. ASSUME NEW i \in 1..n
       PROVE  \E j \in Selected : edges[j].source = circle'[i] /\ edges[j].target = circle'[i + 1]
  <2>1. CASE i = n
    <3>1. circle'[i] = Last(path) /\ circle'[i + 1] = target
      BY <1>2, <1>5, <1>8, <1>9, <2>1
    <3> QED
      BY <1>2, <1>3, <3>1
  <2>2. CASE i # n
    <3> DEFINE q == p + i - 1
    <3>1. q \in 1..(m - 1) /\ i + 1 \in 1..n /\ p + (i + 1) - 1 = q + 1
      BY <1>9, <2>2
    <3>2. circle'[i] = path[q]
      BY <1>8
    <3>3. circle'[i + 1] = path[q + 1]
      <4>1. circle'[i + 1] = path[p + (i + 1) - 1]
        BY <1>8, <3>1
      <4> HIDE DEF q
      <4> QED
        BY <3>1, <4>1
    <3> HIDE DEF q
    <3> QED
      BY <1>1, <1>5, <3>1, <3>2, <3>3 DEF Walk
  <2> QED
    BY <2>1, <2>2
<1>12. ASSUME NEW i \in 1..n, NEW j \in 1..n, circle'[i] = circle'[j]
       PROVE  i = j
  <2> DEFINE q == p + i - 1
             r == p + j - 1
  <2>1. q \in 1..m /\ r \in 1..m
    BY <1>9
  <2>2. path[q] = path[r]
    BY <1>8, <1>12
  <2>3. q = r
    <3> HIDE DEF q, r
    <3> QED
      BY <1>1, <1>5, <2>1, <2>2 DEF Walk, NoRepeats
  <2> QED
    BY <1>5, <1>6, <2>3
<1> DEFINE ends == {j \in Selected : edges[j].source = Last(path) /\ edges[j].target = target}
<1>13. IsNext(k, ends)
  <2>1. k \in ends
    BY <1>2, <1>3
  <2>2. ASSUME NEW j \in ends
        PROVE  k <= j
    <3>1. CASE j \in left[Last(path)]
      BY <3>1 DEF IsNext
    <3>2. CASE j \notin left[Last(path)]
      <4>1. mark[target] = 2
        BY <1>1, <1>2, <3>2 DEF Walk
      <4> QED
        BY <1>3, <4>1
    <3> QED
      BY <3>1, <3>2
  <2> QED
    BY <2>1, <2>2 DEF IsNext
<1>14. closing' \in ends
  <2>1. /\ circle'[n] = Last(path) /\ circle'[n + 1] = target /\ Len(circle') = n + 1
        /\ (n + 1) - 1 = n
    <3>1. n \in 1..n /\ (n + 1) - 1 = n
      BY <1>6
    <3>2. circle'[n] = path[p + n - 1] /\ p + n - 1 = m
      BY <1>8, <1>9, <3>1
    <3> QED
      BY <1>2, <1>5, <1>8, <3>1, <3>2
  <2>2. closing' = CHOOSE j \in Selected : IsNext(j, {h \in Selected :
                      /\ edges[h].source = circle'[Len(circle') - 1]
                      /\ edges[h].target = circle'[Len(circle')]})
    BY DEF ClosingEdge
  <2>3. {h \in Selected : /\ edges[h].source = circle'[Len(circle') - 1]
                          /\ edges[h].target = circle'[Len(circle')]} = ends
    BY <2>1
  <2>4. closing' = CHOOSE j \in Selected : IsNext(j, ends)
    BY <2>2, <2>3, Zenon
  <2>5. \E j \in Selected : IsNext(j, ends)
    BY <1>2, <1>13
  <2> HIDE DEF ends
  <2>6. IsNext(closing', ends)
    BY <2>4, <2>5
  <2> QED
    BY <2>6 DEF IsNext
<1>15. IsCircle'
  <2>1. /\ Len(circle') >= 2 /\ Len(circle') - 1 = n /\ circle'[n] = Last(path)
    <3>1. n \in 1..n /\ (n + 1) - 1 = n /\ n + 1 >= 2
      BY <1>6
    <3>2. circle'[n] = path[p + n - 1] /\ p + n - 1 = m
      BY <1>8, <1>9, <3>1
    <3> QED
      BY <1>2, <1>5, <1>8, <3>1, <3>2
  <2>2. closing' \in Selected /\ edges[closing'].source = Last(path) /\ edges[closing'].target = target
    BY <1>14
  <2> QED
    BY <1>1, <1>10, <1>11, <1>12, <2>1, <2>2, ZenonT(60) DEF IsCircle
<1>16. OrderTypeOK'
  BY <1>1, <1>2 DEF OrderTypeOK
<1> QED
  BY <1>15, <1>16 DEF OrderInv, OrderIsRight

LEMMA FollowHolds ==
    ASSUME OrderInv, Follow
    PROVE  OrderInv'
<1>1. /\ doing = "searching" /\ path # <<>> /\ UnchangedOrder /\ UNCHANGED listed
  BY DEF Follow
<1>2. PICK k \in left[Last(path)] :
        LET target == edges[k].target IN
        /\ IsNext(k, left[Last(path)])
        /\ left' = [left EXCEPT ![Last(path)] = @ \ {k}]
        /\ \/ /\ mark[target] = 0
              /\ mark' = [mark EXCEPT ![target] = 1] /\ path' = Append(path, target)
              /\ UNCHANGED <<doing, circle, closing>>
           \/ /\ mark[target] = 1
              /\ doing' = "circular"
              /\ circle' = CircleTo(target) /\ closing' = ClosingEdge(CircleTo(target))
              /\ UNCHANGED <<mark, path>>
           \/ mark[target] = 2 /\ UNCHANGED <<doing, mark, path, circle, closing>>
  BY DEF Follow
<1>3. /\ OrderTypeOK /\ Walk
      /\ Selected' = Selected /\ Knot' = Knot /\ Knotted' /\ \A n : From(n)' = From(n)
      /\ UNCHANGED <<edges, selection, remaining, ready, ordered, due>>
      /\ path \in Seq(Local) /\ Len(path) \in Nat /\ DOMAIN path = 1..Len(path)
      /\ \A i \in 1..Len(path) : path[i] \in Local /\ mark[path[i]] = 1
  BY <1>1, WalkBasics
<1>4. PICK name \in Local :
        /\ name = Last(path) /\ name = path[Len(path)] /\ Len(path) \in 1..Len(path)
        /\ mark[name] = 1
        /\ k \in Selected /\ edges[k].source = name /\ edges[k].target \in Local
        /\ left' \in [Local -> SUBSET Selected]
        /\ left'[name] = left[name] \ {k}
        /\ \A n \in Local : n # name => left'[n] = left[n]
        /\ \A i \in 1..(Len(path) - 1) : path[i] \in Local /\ path[i] # name
  BY <1>1, <1>2, FollowBasics
<1>5. PICK target \in Local : target = edges[k].target
  BY <1>4
<1>6. CASE /\ mark[target] = 0
           /\ mark' = [mark EXCEPT ![target] = 1] /\ path' = Append(path, target)
           /\ UNCHANGED <<doing, circle, closing>>
  <2>1. target # name /\ mark \in [Local -> {0, 1, 2}]
    BY <1>3, <1>4, <1>6 DEF OrderTypeOK
  <2>2. mark'[name] = 1 /\ \A n \in Local : mark[n] # 0 => mark'[n] # 0
    BY <1>4, <1>6, <2>1
  <2>3. ASSUME NEW n \in Local
        PROVE  left'[n] \subseteq left[n] /\ (mark'[n] = 0 => left'[n] = left[n])
    <3>1. CASE n = name
      BY <1>4, <2>2, <3>1
    <3>2. CASE n # name
      BY <1>4, <3>2
    <3> QED
      BY <3>1, <3>2
  <2>4. left'[target] = left[target]
    BY <1>4, <2>1
  <2>5. \A i \in 1..(Len(path) - 1) : left'[path[i]] = left[path[i]]
    BY <1>4
  <2>6. \E e \in Selected : /\ edges[e].source = Last(path) /\ edges[e].target = target
                           /\ left'[Last(path)] = left[Last(path)] \ {e}
    BY <1>4, <1>5
  <2>7. listed' \in 1..(Len(Definitions) + 1)
    BY <1>1, <1>3 DEF OrderTypeOK
  <2>8. ASSUME NEW i \in 1..(listed' - 1)
        PROVE  mark'[Definitions[i]] # 0
    <3>1. i \in 1..Len(Definitions) /\ i \in 1..(listed - 1)
      <4>1. Len(Definitions) \in Nat
        BY Named
      <4> QED
        BY <1>1, <2>7, <4>1
    <3>2. mark[Definitions[i]] # 0 /\ Definitions[i] \in Local
      BY <1>3, <3>1, Named DEF Walk
    <3> QED
      BY <2>2, <3>2
  <2>9. left' \in [Local -> SUBSET Selected]
    BY <1>4
  <2> QED
    BY <1>1, <1>6, <2>3, <2>4, <2>5, <2>6, <2>7, <2>8, <2>9, EnterHolds
<1>7. CASE /\ mark[target] = 1
           /\ doing' = "circular"
           /\ circle' = CircleTo(target) /\ closing' = ClosingEdge(CircleTo(target))
           /\ UNCHANGED <<mark, path>>
  BY <1>1, <1>2, <1>5, <1>7, CloseHolds
<1>8. CASE mark[target] = 2 /\ UNCHANGED <<doing, mark, path, circle, closing>>
  <2>1. OrderTypeOK'
    BY <1>1, <1>3, <1>4, <1>8 DEF OrderTypeOK
  <2>2. ASSUME NEW n \in Local
        PROVE  /\ left'[n] \subseteq From(n)
               /\ mark[n] = 0 => left'[n] = From(n)
               /\ mark[n] = 2 => n \notin Knot
    <3>1. /\ left[n] \subseteq From(n)
          /\ mark[n] = 0 => left[n] = From(n)
          /\ mark[n] = 2 => n \notin Knot
      BY <1>3 DEF Walk
    <3>2. CASE n = name
      BY <1>4, <3>1, <3>2
    <3>3. CASE n # name
      BY <1>4, <3>1, <3>3
    <3> QED
      BY <3>2, <3>3
  <2>3. ASSUME NEW i \in DOMAIN path, NEW e \in Selected \ left'[path[i]]
        PROVE  \/ edges[e].source # path[i]
               \/ mark[edges[e].target] = 2
               \/ i < Len(path) /\ edges[e].target = path[i + 1]
    <3>1. CASE e \notin left[path[i]]
      BY <1>3, <3>1 DEF Walk
    <3>2. CASE e \in left[path[i]]
      <4>1. path[i] = name
        BY <1>3, <1>4, <2>3, <3>2
      <4>2. e = k
        BY <1>4, <2>3, <3>2, <4>1
      <4> QED
        BY <1>5, <1>8, <4>2
    <3> QED
      BY <3>1, <3>2
  <2>4. Walk'
    <3>1. \A n \in Local : /\ left'[n] \subseteq From(n)'
                           /\ mark'[n] = 0 => left'[n] = From(n)'
                           /\ mark'[n] = 2 => n \notin Knot'
      BY <1>3, <1>8, <2>2
    <3>2. \A i \in DOMAIN path' : \A e \in Selected' \ left'[path'[i]] :
            \/ edges'[e].source # path'[i]
            \/ mark'[edges'[e].target] = 2
            \/ i < Len(path') /\ edges'[e].target = path'[i + 1]
      BY <1>3, <1>8, <2>3
    <3>3. /\ Knotted' /\ NoRepeats(path')
          /\ \A n \in Local : mark'[n] = 1 <=> n \in Range(path')
          /\ \A i \in 1..(Len(path') - 1) : \E e \in Selected' :
               edges'[e].source = path'[i] /\ edges'[e].target = path'[i + 1]
          /\ \A i \in 1..(listed' - 1) : mark'[Definitions[i]] # 0
      BY <1>1, <1>3, <1>8 DEF Walk
    <3> QED
      BY <3>1, <3>2, <3>3 DEF Walk
  <2> QED
    BY <1>1, <1>8, <2>1, <2>4 DEF OrderInv, OrderIsRight
<1> QED
  BY <1>2, <1>5, <1>6, <1>7, <1>8

-----------------------------------------------------------------------------
LEMMA OrderInitHolds == OrderInit => OrderInv
<1> SUFFICES ASSUME OrderInit
             PROVE  OrderInv
  OBVIOUS
<1>1. <<>> \in Seq(EdgeSet) /\ <<>> \in Seq(Local)
  BY EmptySeq
<1>2. 1 \in 1..(Len(Definitions) + 1)
  BY Named
<1>3. OrderTypeOK
  BY <1>1, <1>2 DEF OrderInit, OrderTypeOK
<1> QED
  BY <1>3 DEF OrderInit, OrderInv, Asked, OrderIsRight

LEMMA ReferHolds ==
    ASSUME OrderInv, Refer
    PROVE  OrderInv'
<1>1. /\ doing = "referring" /\ OrderTypeOK /\ Asked
      /\ UNCHANGED <<selection, doing, listed, remaining, ready, ordered, due, mark, path, left,
                     circle, closing>>
  BY DEF Refer, OrderInv
<1>2. PICK place \in DOMAIN Definitions, target \in Local \cup Externals, kind \in Kinds :
        edges' = Append(edges, [source |-> Definitions[place], target |-> target, kind |-> kind])
  BY DEF Refer
<1>3. edges' \in Seq(EdgeSet)
  <2>1. Definitions[place] \in Local
    BY Named
  <2>2. [source |-> Definitions[place], target |-> target, kind |-> kind] \in EdgeSet
    BY <2>1 DEF EdgeSet
  <2> QED
    BY <1>1, <1>2, <2>2, AppendProperties DEF OrderTypeOK
<1>4. OrderTypeOK'
  <2>1. due' \subseteq Selected' /\ left' \in [Local -> SUBSET Selected']
    BY <1>1 DEF Asked
  <2> QED
    BY <1>1, <1>3, <2>1 DEF OrderTypeOK
<1> QED
  BY <1>1, <1>4 DEF OrderInv, Asked, OrderIsRight

LEMMA OrderStep == OrderInv /\ [OrderNext]_orderVars => OrderInv'
<1> SUFFICES ASSUME OrderInv, [OrderNext]_orderVars
             PROVE  OrderInv'
  OBVIOUS
<1>1. CASE UNCHANGED orderVars
  <2>1. UNCHANGED <<edges, selection, doing, listed, remaining, ready, ordered, due,
                    mark, path, left, circle, closing>>
    BY <1>1 DEF orderVars
  <2>2. Selected' = Selected /\ Knot' = Knot /\ Reached' = Reached
    BY <2>1 DEF Selected, Chosen, Knot, Reached
  <2>3. \A name : From(name)' = From(name) /\ Waits(name)' = Waits(name)
    BY <2>1, <2>2 DEF From, Waits
  <2>4. OrderTypeOK' = OrderTypeOK
    BY <2>1, <2>2 DEF OrderTypeOK
  <2>5. Asked' = Asked
    BY <2>1 DEF Asked
  <2>6. Kahn' = Kahn
    BY <2>1, <2>2, <2>3 DEF Kahn
  <2>7. Knotted' = Knotted
    BY <2>1, <2>2, <2>3 DEF Knotted
  <2>8. Walk' = Walk
    BY <2>1, <2>2, <2>3, <2>7 DEF Walk
  <2>9. OrderIsRight' = OrderIsRight
    BY <2>1, <2>2 DEF OrderIsRight, IsOrder, IsCircle
  <2> QED
    BY <2>1, <2>4, <2>5, <2>6, <2>8, <2>9 DEF OrderInv
<1> QED
  BY <1>1, ReferHolds, AskHolds, ListHolds, TakeHolds, DependantHolds, ConcludeHolds, StartHolds,
     FollowHolds, StepBackHolds DEF OrderNext

\* Whatever a Module's definitions refer to and whichever kinds of references are
\* asked for, each definition is ordered once and after those it refers to; where that
\* cannot be, the walk does not come back without a circle, and the circle it reports
\* is one of the graph, with no part twice and the first reference that closes it
\* (dependency_ordering.py:55-129).
THEOREM OrderSound == OrderSpec => []OrderIsRight
<1>1. OrderInv => OrderIsRight
  BY DEF OrderInv
<1> QED
  BY <1>1, OrderInitHolds, OrderStep, PTL DEF OrderSpec

----------------------------------------------------------------------------
\* Chains of Frames

ParentsBelow(fs) == Len(fs) \in Nat /\ \A f \in 1 .. Len(fs) : fs[f].parent \in 0 .. f - 1
AreChains(fs, n, c) ==
  c = [frame \in 0 .. n |-> IF frame = None THEN <<>> ELSE <<frame>> \o c[fs[frame].parent]]

\* Frames whose parents were made before them have chains.
LEMMA ChainsExist ==
  ASSUME NEW fs, ParentsBelow(fs)
  PROVE  \E c : AreChains(fs, Len(fs), c)
<1> DEFINE Lacking == {n \in 0 .. Len(fs) : ~ \E c : AreChains(fs, n, c)}
<1>1. Len(fs) \in Nat /\ \A f \in 1 .. Len(fs) : fs[f].parent \in 0 .. f - 1
  BY DEF ParentsBelow
<1>2. SUFFICES ASSUME Lacking # {}
              PROVE  FALSE
  BY <1>1
<1>3. PICK n \in Lacking : \A m \in Lacking : n <= m
  <2>1. Lacking \in SUBSET Nat
    BY <1>1
  <2> HIDE DEF Lacking
  <2> QED
    BY <1>2, <2>1, LeastNumber
<1>4. CASE n = 0
  <2>1. AreChains(fs, 0, [f \in 0 .. 0 |-> <<>>])
    BY DEF AreChains, None
  <2> QED
    BY <1>3, <1>4, <2>1
<1>5. CASE n # 0
  <2>1. n - 1 \in 0 .. Len(fs) /\ ~(n <= n - 1) /\ n \in 1 .. Len(fs) /\ n \in Nat
    BY <1>1, <1>3, <1>5
  <2>2. PICK c : AreChains(fs, n - 1, c)
    BY <1>3, <2>1
  <2> DEFINE d == [f \in 0 .. n |-> IF f = n THEN <<n>> \o c[fs[n].parent] ELSE c[f]]
  <2>3. \A f \in 0 .. n - 1 : c[f] = IF f = None THEN <<>> ELSE <<f>> \o c[fs[f].parent]
    BY <2>2 DEF AreChains
  <2>4. ASSUME NEW f \in 0 .. n
        PROVE  d[f] = IF f = None THEN <<>> ELSE <<f>> \o d[fs[f].parent]
    <3>1. CASE f = n
      <4>1. fs[n].parent \in 0 .. n - 1 /\ fs[n].parent # n /\ fs[n].parent \in 0 .. n
        BY <1>1, <2>1
      <4> QED
        BY <1>5, <3>1, <4>1 DEF None
    <3>2. CASE f # n /\ f # 0
      <4>1. f \in 0 .. n - 1 /\ f \in 1 .. Len(fs)
        BY <2>1, <3>2
      <4>2. fs[f].parent \in 0 .. n /\ fs[f].parent # n
        BY <1>1, <2>1, <4>1
      <4> QED
        BY <2>3, <3>2, <4>1, <4>2 DEF None
    <3>3. CASE f # n /\ f = 0
      <4>1. 0 \in 0 .. n - 1
        BY <2>1
      <4>2. c[0] = <<>>
        BY <2>3, <4>1 DEF None
      <4> QED
        BY <3>3, <4>2 DEF None
    <3> QED
      BY <3>1, <3>2, <3>3
  <2>5. d = [f \in 0 .. n |-> d[f]]
    OBVIOUS
  <2> HIDE DEF d
  <2>6. AreChains(fs, n, d)
    BY <2>4, <2>5 DEF AreChains
  <2> QED
    BY <1>3, <2>6
<1> QED
  BY <1>4, <1>5

LEMMA ChainsAre ==
  ASSUME NEW fs, ParentsBelow(fs)
  PROVE  /\ Chains(fs)[0] = <<>>
         /\ \A f \in 1 .. Len(fs) : Chains(fs)[f] = <<f>> \o Chains(fs)[fs[f].parent]
<1>1. AreChains(fs, Len(fs), Chains(fs))
  <2>1. Chains(fs) = CHOOSE c : AreChains(fs, Len(fs), c)
    BY DEF Chains, AreChains
  <2> QED
    BY <2>1, ChainsExist
<1>2. Len(fs) \in Nat
  BY DEF ParentsBelow
<1>3. \A f \in 0 .. Len(fs) : Chains(fs)[f] = IF f = 0 THEN <<>> ELSE <<f>> \o Chains(fs)[fs[f].parent]
  BY <1>1 DEF AreChains, None
<1>4. 0 \in 0 .. Len(fs) /\ \A f \in 1 .. Len(fs) : f \in 0 .. Len(fs) /\ f # 0
  BY <1>2
<1> QED
  BY <1>3, <1>4

\* A chain is a sequence of Frames.
LEMMA ChainsTyped ==
  ASSUME NEW fs, ParentsBelow(fs), NEW f \in 0 .. Len(fs)
  PROVE  Chains(fs)[f] \in Seq(1 .. Len(fs))
<1> DEFINE Others == {g \in 0 .. Len(fs) : Chains(fs)[g] \notin Seq(1 .. Len(fs))}
<1>1. Len(fs) \in Nat /\ \A g \in 1 .. Len(fs) : fs[g].parent \in 0 .. g - 1
  BY DEF ParentsBelow
<1>2. SUFFICES ASSUME Others # {}
              PROVE  FALSE
  OBVIOUS
<1>3. PICK n \in Others : \A m \in Others : n <= m
  <2>1. Others \in SUBSET Nat
    BY <1>1
  <2> HIDE DEF Others
  <2> QED
    BY <1>2, <2>1, LeastNumber
<1>4. n # 0
  <2>1. Chains(fs)[0] = <<>>
    BY ChainsAre
  <2>2. <<>> \in Seq(1 .. Len(fs))
    OBVIOUS
  <2> QED
    BY <1>3, <2>1, <2>2
<1>5. n \in 1 .. Len(fs) /\ fs[n].parent \in 0 .. Len(fs) /\ ~(n <= fs[n].parent)
  BY <1>1, <1>3, <1>4
<1>6. Chains(fs)[fs[n].parent] \in Seq(1 .. Len(fs))
  BY <1>3, <1>5
<1>7. Chains(fs)[n] = <<n>> \o Chains(fs)[fs[n].parent]
  BY <1>5, ChainsAre
<1>8. <<n>> \o Chains(fs)[fs[n].parent] \in Seq(1 .. Len(fs))
  <2>1. ASSUME NEW S, NEW x \in S, NEW t \in Seq(S)
        PROVE  <<x>> \o t \in Seq(S)
    OBVIOUS
  <2> HIDE DEF Others
  <2> QED
    BY <1>5, <1>6, <2>1
<1> QED
  BY <1>3, <1>7, <1>8

\* The Frames of a chain are the Frame and those of its parent's chain.
LEMMA OwnersAre ==
  ASSUME NEW fs, ParentsBelow(fs)
  PROVE  /\ OwnersIn(fs, 0) = {}
         /\ \A f \in 1 .. Len(fs) : OwnersIn(fs, f) = {f} \cup OwnersIn(fs, fs[f].parent)
<1>1. OwnersIn(fs, 0) = {}
  <2>1. Chains(fs)[0] = <<>>
    BY ChainsAre
  <2> QED
    BY <2>1 DEF OwnersIn, Range
<1>2. ASSUME NEW f \in 1 .. Len(fs)
      PROVE  OwnersIn(fs, f) = {f} \cup OwnersIn(fs, fs[f].parent)
  <2>1. fs[f].parent \in 0 .. Len(fs) /\ Len(fs) \in Nat
    BY DEF ParentsBelow
  <2>2. PICK s \in Seq(1 .. Len(fs)) : s = Chains(fs)[fs[f].parent]
    BY <2>1, ChainsTyped
  <2>3. Chains(fs)[f] = <<f>> \o s
    BY <2>2, ChainsAre
  <2>4. /\ DOMAIN (<<f>> \o s) = 1 .. Len(s) + 1 /\ DOMAIN s = 1 .. Len(s) /\ Len(s) \in Nat
        /\ (<<f>> \o s)[1] = f /\ \A i \in 1 .. Len(s) : (<<f>> \o s)[i + 1] = s[i]
    OBVIOUS
  <2>5. ASSUME NEW g
        PROVE  g \in Range(<<f>> \o s) <=> g = f \/ g \in Range(s)
    <3>1. ASSUME g \in Range(<<f>> \o s)
          PROVE  g = f \/ g \in Range(s)
      <4>1. PICK i \in 1 .. Len(s) + 1 : g = (<<f>> \o s)[i]
        BY <2>4, <3>1 DEF Range
      <4>2. CASE i = 1
        BY <2>4, <4>1, <4>2
      <4>3. CASE i # 1
        <5>1. i - 1 \in 1 .. Len(s) /\ (i - 1) + 1 = i
          BY <2>4, <4>1, <4>3
        <5>2. g = s[i - 1]
          BY <2>4, <4>1, <5>1
        <5> QED
          BY <2>4, <5>1, <5>2 DEF Range
      <4> QED
        BY <4>2, <4>3
    <3>2. ASSUME g = f
          PROVE  g \in Range(<<f>> \o s)
      <4>1. 1 \in 1 .. Len(s) + 1
        BY <2>4
      <4> QED
        BY <2>4, <3>2, <4>1 DEF Range
    <3>3. ASSUME g \in Range(s)
          PROVE  g \in Range(<<f>> \o s)
      <4>1. PICK i \in 1 .. Len(s) : g = s[i]
        BY <2>4, <3>3 DEF Range
      <4>2. i + 1 \in 1 .. Len(s) + 1
        BY <2>4
      <4> QED
        BY <2>4, <4>1, <4>2 DEF Range
    <3> QED
      BY <3>1, <3>2, <3>3
  <2> QED
    BY <2>2, <2>3, <2>5 DEF OwnersIn
<1> QED
  BY <1>1, <1>2

\* They are the Frame and Frames made before it.
LEMMA OwnersBelow ==
  ASSUME NEW fs, ParentsBelow(fs), NEW f \in 1 .. Len(fs)
  PROVE  f \in OwnersIn(fs, f) /\ OwnersIn(fs, f) \subseteq 1 .. f
<1> DEFINE Others == {g \in 1 .. Len(fs) : ~(OwnersIn(fs, g) \subseteq 1 .. g)}
<1>1. Len(fs) \in Nat /\ \A g \in 1 .. Len(fs) : fs[g].parent \in 0 .. g - 1
  BY DEF ParentsBelow
<1>2. Others = {}
  <2>1. SUFFICES ASSUME Others # {}
                PROVE  FALSE
    OBVIOUS
  <2>2. PICK n \in Others : \A m \in Others : n <= m
    <3>1. Others \in SUBSET Nat
      BY <1>1
    <3> HIDE DEF Others
    <3> QED
      BY <2>1, <3>1, LeastNumber
  <2>3. PICK p \in 0 .. n - 1 : p = fs[n].parent
    BY <1>1
  <2>4. n \in Nat /\ p \in Nat /\ 1 .. p \subseteq 1 .. n /\ n \in 1 .. n /\ ~(n <= p)
        /\ (p = 0 \/ p \in 1 .. Len(fs))
    BY <1>1, <2>3
  <2>5. OwnersIn(fs, p) \subseteq 1 .. p
    BY <2>2, <2>4, OwnersAre
  <2> QED
    BY <2>2, <2>3, <2>4, <2>5, OwnersAre
<1> QED
  BY <1>2, OwnersAre

\* A Frame that is above another one is a parent.
LEMMA OwnersDerive ==
  ASSUME NEW fs, ParentsBelow(fs), NEW f \in 1 .. Len(fs), NEW g \in OwnersIn(fs, f), g # f
  PROVE  \E c \in 1 .. Len(fs) : fs[c].parent = g
<1> DEFINE Others == {h \in 1 .. Len(fs) : g \in OwnersIn(fs, h) /\ g # h}
<1>1. Len(fs) \in Nat /\ \A h \in 1 .. Len(fs) : fs[h].parent \in 0 .. h - 1
  BY DEF ParentsBelow
<1>2. PICK n \in Others : \A m \in Others : n <= m
  <2>1. Others \in SUBSET Nat /\ f \in Others
    BY <1>1
  <2> QED
    BY <2>1, LeastNumber
<1>3. PICK p \in 0 .. n - 1 : p = fs[n].parent
  BY <1>1
<1>4. ~(n <= p) /\ (p = 0 \/ p \in 1 .. Len(fs)) /\ n \in 1 .. Len(fs)
  BY <1>1, <1>3
<1>5. g \in OwnersIn(fs, p)
  BY <1>2, <1>3, <1>4, OwnersAre
<1>6. p # 0
  BY <1>5, OwnersAre
<1>7. p = g
  BY <1>2, <1>4, <1>5, <1>6
<1> QED
  BY <1>3, <1>4, <1>7

\* Chains stay what they are when Frames keep their parents.
LEMMA ChainsStay ==
  ASSUME NEW fs, NEW gs, ParentsBelow(fs), ParentsBelow(gs), Len(fs) <= Len(gs),
         \A f \in 1 .. Len(fs) : gs[f].parent = fs[f].parent
  PROVE  \A f \in 0 .. Len(fs) : Chains(gs)[f] = Chains(fs)[f] /\ OwnersIn(gs, f) = OwnersIn(fs, f)
<1> DEFINE Others == {f \in 0 .. Len(fs) : Chains(gs)[f] # Chains(fs)[f]}
<1>1. /\ Len(fs) \in Nat /\ Len(gs) \in Nat
      /\ \A f \in 1 .. Len(fs) : f \in 1 .. Len(gs) /\ fs[f].parent \in 0 .. f - 1
  BY DEF ParentsBelow
<1>2. Others = {}
  <2>1. SUFFICES ASSUME Others # {}
                PROVE  FALSE
    OBVIOUS
  <2>2. PICK n \in Others : \A m \in Others : n <= m
    <3>1. Others \in SUBSET Nat
      BY <1>1
    <3> HIDE DEF Others
    <3> QED
      BY <2>1, <3>1, LeastNumber
  <2>3. n # 0
    BY <2>2, ChainsAre
  <2>4. n \in 1 .. Len(fs) /\ fs[n].parent \in 0 .. Len(fs) /\ ~(n <= fs[n].parent)
    BY <1>1, <2>3
  <2>5. Chains(gs)[fs[n].parent] = Chains(fs)[fs[n].parent]
    BY <2>2, <2>4
  <2>6. Chains(fs)[n] = <<n>> \o Chains(fs)[fs[n].parent]
    BY <2>4, ChainsAre
  <2>7. Chains(gs)[n] = <<n>> \o Chains(gs)[fs[n].parent]
    BY <1>1, <2>4, ChainsAre
  <2> QED
    BY <2>2, <2>5, <2>6, <2>7
<1> QED
  BY <1>2 DEF OwnersIn

----------------------------------------------------------------------------
\* Frames that are made and changed

IsSeq(s) == Len(s) \in Nat /\ s = [i \in 1 .. Len(s) |-> s[i]]
FrameFields == {"module", "values", "parent", "native", "masked", "closing", "default", "lent"}

\* What is above a Frame was made before it; lent Frames stand alone and are not
\* derived from.
FrameBuilt(fs, f) ==
  /\ DOMAIN fs[f] = FrameFields
  /\ fs[f].parent \in 0 .. f - 1
  /\ fs[f].lent => fs[f].parent = None /\ fs[f].default = None
  /\ fs[f].parent # None => ~ fs[fs[f].parent].lent
  /\ fs[f].default # None => fs[f].default \in 1 .. Len(fs) /\ fs[fs[f].default].lent
FramesBuilt(fs) == IsSeq(fs) /\ \A f \in 1 .. Len(fs) : FrameBuilt(fs, f)

Own(fs) == {f \in 1 .. Len(fs) : ~ fs[f].lent}
ScopeBuilt(fs, scope) ==
  scope.root \in Own(fs) /\ scope.owners \subseteq Own(fs) /\ scope.defaults \in 1 .. Len(fs) \ Own(fs)
ScopesBuilt(fs, ss) == IsSeq(ss) /\ \A k \in 1 .. Len(ss) : ScopeBuilt(fs, ss[k])

\* No step moves a Frame, gives it another Module, opens it again or unmasks a name.
Kept(fs, gs) ==
  /\ Len(fs) <= Len(gs)
  /\ \A f \in 1 .. Len(fs) :
       /\ gs[f].parent = fs[f].parent /\ gs[f].module = fs[f].module /\ gs[f].lent = fs[f].lent
       /\ fs[f].masked \subseteq gs[f].masked /\ (fs[f].closing => gs[f].closing)
SameValues(fs, gs, f) == gs[f].values = fs[f].values

LEMMA SeqIs ==
  ASSUME NEW S, NEW s \in Seq(S)
  PROVE  IsSeq(s)
<1>1. Len(s) \in Nat /\ DOMAIN s = 1 .. Len(s)
  OBVIOUS
<1>2. s \in [1 .. Len(s) -> S]
  OBVIOUS
<1> QED
  BY <1>1, <1>2 DEF IsSeq

LEMMA Appends ==
  ASSUME NEW s, IsSeq(s), NEW x
  PROVE  /\ IsSeq(Append(s, x)) /\ Len(Append(s, x)) = Len(s) + 1
         /\ Append(s, x)[Len(s) + 1] = x
         /\ \A i \in 1 .. Len(s) : Append(s, x)[i] = s[i]
<1> DEFINE S == Range(s) \cup {x}
<1>1. s \in Seq(S)
  <2>1. \A i \in 1 .. Len(s) : s[i] \in S
    BY DEF IsSeq, Range
  <2> HIDE DEF S
  <2> QED
    BY <2>1 DEF IsSeq
<1>2. x \in S
  OBVIOUS
<1> HIDE DEF S
<1>3. Append(s, x) \in Seq(S) /\ Len(s) \in Nat
  BY <1>1, <1>2
<1>4. /\ Len(Append(s, x)) = Len(s) + 1 /\ Append(s, x)[Len(s) + 1] = x
      /\ \A i \in 1 .. Len(s) : Append(s, x)[i] = s[i]
  BY <1>1, <1>2
<1> QED
  BY <1>3, <1>4, SeqIs

Replacing(s, g, x, t) == t = [s EXCEPT ![g] = x]
LEMMA Replaces ==
  ASSUME NEW s, IsSeq(s), NEW g \in 1 .. Len(s), NEW x, NEW t, Replacing(s, g, x, t)
  PROVE  /\ IsSeq(t) /\ Len(t) = Len(s) /\ t[g] = x
         /\ \A i \in 1 .. Len(s) : i # g => t[i] = s[i]
<1> DEFINE S == Range(s) \cup {x}
<1>1. s \in Seq(S)
  <2>1. \A i \in 1 .. Len(s) : s[i] \in S
    BY DEF IsSeq, Range
  <2> HIDE DEF S
  <2> QED
    BY <2>1 DEF IsSeq
<1>2. x \in S
  OBVIOUS
<1> HIDE DEF S
<1>3. t \in Seq(S)
  BY <1>1, <1>2 DEF Replacing
<1>4. DOMAIN s = 1 .. Len(s) /\ Len(t) = Len(s)
  BY <1>1, <1>2 DEF Replacing
<1>5. IsSeq(t)
  BY <1>3, SeqIs
<1> QED
  BY <1>4, <1>5 DEF Replacing

\* A Frame more, below one that is there.
Growing(fs, x, gs) == gs = Append(fs, x)
LEMMA GrowBuilt ==
  ASSUME NEW fs, FramesBuilt(fs), NEW x, NEW gs, Growing(fs, x, gs),
         DOMAIN x = FrameFields, x.parent = None \/ x.parent \in Own(fs), x.default = None,
         x.lent => x.parent = None
  PROVE  /\ FramesBuilt(gs) /\ Kept(fs, gs)
         /\ Len(fs) \in Nat /\ Len(gs) = Len(fs) + 1 /\ gs[Len(gs)] = x
         /\ \A f \in 1 .. Len(fs) : gs[f] = fs[f]
<1>1. /\ IsSeq(gs) /\ Len(gs) = Len(fs) + 1 /\ gs[Len(fs) + 1] = x
      /\ \A f \in 1 .. Len(fs) : gs[f] = fs[f]
  BY Appends DEF FramesBuilt, Growing
<1>2. Len(fs) \in Nat
  BY DEF FramesBuilt, IsSeq
<1>3. \A f \in 1 .. Len(gs) : f \in 1 .. Len(fs) \/ f = Len(fs) + 1
  BY <1>1, <1>2
<1>4. ASSUME NEW f \in 1 .. Len(fs)
      PROVE  FrameBuilt(gs, f)
  <2>1. FrameBuilt(fs, f) /\ gs[f] = fs[f]
    BY <1>1 DEF FramesBuilt
  <2>2. fs[f].parent # None => fs[f].parent \in 1 .. Len(fs)
    BY <1>2, <2>1 DEF FrameBuilt, None
  <2>3. \A i \in 1 .. Len(fs) : i \in 1 .. Len(gs)
    BY <1>1, <1>2
  <2> QED
    BY <1>1, <2>1, <2>2, <2>3 DEF FrameBuilt
<1>5. FrameBuilt(gs, Len(fs) + 1)
  <2>1. x.parent \in 0 .. (Len(fs) + 1) - 1
    BY <1>2 DEF Own, None
  <2>2. x.parent # None => ~ gs[x.parent].lent
    BY <1>1 DEF Own
  <2> QED
    BY <1>1, <2>1, <2>2 DEF FrameBuilt
<1>6. Kept(fs, gs)
  BY <1>1, <1>2 DEF Kept
<1> QED
  BY <1>1, <1>2, <1>3, <1>4, <1>5, <1>6 DEF FramesBuilt

\* A change of what a Frame holds.
LEMMA ChangeBuilt ==
  ASSUME NEW fs, FramesBuilt(fs), NEW g \in 1 .. Len(fs), NEW x, NEW gs, Replacing(fs, g, x, gs),
         DOMAIN x = FrameFields,
         x.parent = fs[g].parent, x.module = fs[g].module, x.lent = fs[g].lent,
         fs[g].masked \subseteq x.masked, fs[g].closing => x.closing,
         \/ x.default = fs[g].default
         \/ ~ fs[g].lent /\ x.default \in 1 .. Len(fs) \ Own(fs)
  PROVE  /\ FramesBuilt(gs) /\ Kept(fs, gs)
         /\ Len(fs) \in Nat /\ Len(gs) = Len(fs) /\ gs[g] = x
         /\ \A f \in 1 .. Len(fs) : f # g => gs[f] = fs[f]
<1>1. /\ IsSeq(gs) /\ Len(gs) = Len(fs) /\ gs[g] = x
      /\ \A f \in 1 .. Len(fs) : f # g => gs[f] = fs[f]
  <2>1. IsSeq(fs)
    BY DEF FramesBuilt
  <2> QED
    BY <2>1, Replaces
<1>2. Len(fs) \in Nat
  BY DEF FramesBuilt, IsSeq
<1>3. \A f \in 1 .. Len(fs) : gs[f].lent = fs[f].lent /\ gs[f].parent = fs[f].parent
  BY <1>1
<1>4. ASSUME NEW f \in 1 .. Len(fs)
      PROVE  FrameBuilt(gs, f)
  <2>1. FrameBuilt(fs, f)
    BY DEF FramesBuilt
  <2>2. fs[f].parent # None => fs[f].parent \in 1 .. Len(fs)
    BY <1>2, <2>1 DEF FrameBuilt, None
  <2>3. CASE f # g
    BY <1>1, <1>3, <2>1, <2>2, <2>3 DEF FrameBuilt
  <2>4. CASE f = g
    <3>1. x.default # None => x.default \in 1 .. Len(fs) /\ fs[x.default].lent
      BY <2>1, <2>4 DEF FrameBuilt, Own
    <3>2. x.lent => x.parent = None /\ x.default = None
      BY <2>1, <2>4 DEF FrameBuilt
    <3> QED
      BY <1>1, <1>3, <2>1, <2>2, <2>4, <3>1, <3>2 DEF FrameBuilt
  <2> QED
    BY <2>3, <2>4
<1>5. Kept(fs, gs)
  BY <1>1, <1>2 DEF Kept
<1> QED
  BY <1>1, <1>2, <1>4, <1>5 DEF FramesBuilt

LEMMA BuiltBelow ==
  ASSUME NEW fs, FramesBuilt(fs)
  PROVE  ParentsBelow(fs)
BY DEF FramesBuilt, FrameBuilt, ParentsBelow, IsSeq

\* What is above a Frame that is not lent is not lent either.
LEMMA OwnersOwn ==
  ASSUME NEW fs, FramesBuilt(fs), NEW f \in 1 .. Len(fs)
  PROVE  IF fs[f].lent THEN OwnersIn(fs, f) = {f} ELSE OwnersIn(fs, f) \subseteq Own(fs)
<1> DEFINE Others == {h \in 1 .. Len(fs) : ~ fs[h].lent /\ ~(OwnersIn(fs, h) \subseteq Own(fs))}
<1>1. /\ Len(fs) \in Nat /\ ParentsBelow(fs)
      /\ \A h \in 1 .. Len(fs) : fs[h].parent \in 0 .. h - 1 /\ FrameBuilt(fs, h)
  BY BuiltBelow DEF FramesBuilt, FrameBuilt, IsSeq
<1>2. CASE fs[f].lent
  <2>1. fs[f].parent = 0
    BY <1>1, <1>2 DEF FrameBuilt, None
  <2> QED
    BY <1>1, <1>2, <2>1, OwnersAre
<1>3. Others = {}
  <2>1. SUFFICES ASSUME Others # {}
                PROVE  FALSE
    OBVIOUS
  <2>2. PICK n \in Others : \A m \in Others : n <= m
    <3>1. Others \in SUBSET Nat
      BY <1>1
    <3> HIDE DEF Others
    <3> QED
      BY <2>1, <3>1, LeastNumber
  <2>3. PICK p \in 0 .. n - 1 : p = fs[n].parent
    BY <1>1
  <2>4. ~(n <= p) /\ (p = 0 \/ p \in 1 .. Len(fs)) /\ n \in 1 .. Len(fs)
    BY <1>1, <2>3
  <2>5. p # 0 => ~ fs[p].lent
    BY <1>1, <2>3, <2>4 DEF FrameBuilt, None
  <2>6. OwnersIn(fs, p) \subseteq Own(fs)
    BY <1>1, <2>2, <2>4, <2>5, OwnersAre
  <2>7. OwnersIn(fs, n) = {n} \cup OwnersIn(fs, p)
    BY <1>1, <2>3, <2>4, OwnersAre
  <2>8. n \in Own(fs)
    BY <2>2, <2>4 DEF Own
  <2> QED
    BY <2>2, <2>6, <2>7, <2>8
<1>4. CASE ~ fs[f].lent
  BY <1>3, <1>4
<1> QED
  BY <1>2, <1>4

\* A step that keeps the Frames keeps their chains.
LEMMA KeptChains ==
  ASSUME NEW fs, NEW gs, FramesBuilt(fs), FramesBuilt(gs), Kept(fs, gs), NEW f \in 1 .. Len(fs)
  PROVE  Chains(gs)[f] = Chains(fs)[f] /\ OwnersIn(gs, f) = OwnersIn(fs, f)
<1>1. ParentsBelow(fs) /\ ParentsBelow(gs)
  BY BuiltBelow
<1>2. f \in 0 .. Len(fs)
  BY <1>1 DEF ParentsBelow
<1>3. Len(fs) <= Len(gs) /\ \A h \in 1 .. Len(fs) : gs[h].parent = fs[h].parent
  BY DEF Kept
<1> QED
  BY <1>1, <1>2, <1>3, ChainsStay

LEMMA SameHierarchy ==
  ASSUME NEW fs, NEW gs, FramesBuilt(fs), FramesBuilt(gs), Kept(fs, gs), NEW f \in 1 .. Len(fs),
         \A o \in OwnersIn(fs, f) : SameValues(fs, gs, o)
  PROVE  validate_frame_hierarchy(gs, f) <=> validate_frame_hierarchy(fs, f)
<1>1. OwnersIn(gs, f) = OwnersIn(fs, f)
  BY KeptChains
<1>2. \A o \in OwnersIn(fs, f) : o \in 1 .. Len(fs)
  <2>1. OwnersIn(fs, f) \subseteq 1 .. f /\ Len(fs) \in Nat
    BY OwnersBelow, BuiltBelow DEF ParentsBelow
  <2> QED
    BY <2>1
<1>3. \A o \in OwnersIn(fs, f) : gs[o].module = fs[o].module /\ gs[o].values = fs[o].values
  BY <1>2 DEF Kept, SameValues
<1>4. hierarchy_real_names(gs, f) = hierarchy_real_names(fs, f)
  BY <1>1, <1>3 DEF hierarchy_real_names
<1>5. UNION {gs[o].module.namespaces : o \in OwnersIn(gs, f)}
        = UNION {fs[o].module.namespaces : o \in OwnersIn(fs, f)}
  BY <1>1, <1>3
<1> QED
  BY <1>4, <1>5 DEF validate_frame_hierarchy

----------------------------------------------------------------------------
\* Names stay unambiguous

UsableIn(fs, f) == \A o \in OwnersIn(fs, f) : IsOpen(fs, o)
Unambiguous(fs) == \A f \in 1 .. Len(fs) : UsableIn(fs, f) => validate_frame_hierarchy(fs, f)

LEMMA UnambiguousStays ==
  ASSUME NEW fs, NEW gs, FramesBuilt(fs), FramesBuilt(gs), Kept(fs, gs), Unambiguous(fs),
         NEW f \in 1 .. Len(fs), \A o \in OwnersIn(fs, f) : SameValues(fs, gs, o), UsableIn(gs, f)
  PROVE  validate_frame_hierarchy(gs, f)
<1>1. OwnersIn(gs, f) = OwnersIn(fs, f)
  BY KeptChains
<1>2. OwnersIn(fs, f) \subseteq 1 .. Len(fs)
  <2>1. OwnersIn(fs, f) \subseteq 1 .. f /\ Len(fs) \in Nat
    BY OwnersBelow, BuiltBelow DEF ParentsBelow
  <2> QED
    BY <2>1
<1>3. UsableIn(fs, f)
  BY <1>1, <1>2 DEF UsableIn, IsOpen, Kept
<1> QED
  BY <1>3, SameHierarchy DEF Unambiguous

LEMMA GrowUnambiguous ==
  ASSUME NEW fs, NEW gs, FramesBuilt(fs), FramesBuilt(gs), Kept(fs, gs), Unambiguous(fs),
         Len(gs) = Len(fs) + 1, \A f \in 1 .. Len(fs) : gs[f] = fs[f],
         validate_frame_hierarchy(gs, Len(gs))
  PROVE  Unambiguous(gs)
<1>1. ASSUME NEW f \in 1 .. Len(fs)
      PROVE  \A o \in OwnersIn(fs, f) : SameValues(fs, gs, o)
  <2>1. OwnersIn(fs, f) \subseteq 1 .. f /\ Len(fs) \in Nat
    BY OwnersBelow, BuiltBelow DEF ParentsBelow
  <2>2. \A o \in OwnersIn(fs, f) : o \in 1 .. Len(fs)
    BY <2>1
  <2> QED
    BY <2>2 DEF SameValues
<1>2. ASSUME NEW f \in 1 .. Len(gs)
      PROVE  f \in 1 .. Len(fs) \/ f = Len(gs)
  <2>1. Len(fs) \in Nat
    BY DEF FramesBuilt, IsSeq
  <2> QED
    BY <2>1
<1> QED
  BY <1>1, <1>2, UnambiguousStays DEF Unambiguous

LEMMA ChangeUnambiguous ==
  ASSUME NEW fs, NEW gs, FramesBuilt(fs), FramesBuilt(gs), Kept(fs, gs), Unambiguous(fs),
         Len(gs) = Len(fs), NEW g \in 1 .. Len(fs), \A f \in 1 .. Len(fs) : f # g => gs[f] = fs[f],
         SameValues(fs, gs, g) \/ validate_mixin_tree(gs, g)
  PROVE  Unambiguous(gs)
<1> SUFFICES ASSUME NEW f \in 1 .. Len(fs), UsableIn(gs, f)
             PROVE  validate_frame_hierarchy(gs, f)
  BY DEF Unambiguous
<1>1. OwnersIn(fs, f) \subseteq 1 .. Len(fs)
  <2>1. OwnersIn(fs, f) \subseteq 1 .. f /\ Len(fs) \in Nat
    BY OwnersBelow, BuiltBelow DEF ParentsBelow
  <2> QED
    BY <2>1
<1>2. CASE g \notin OwnersIn(fs, f) \/ SameValues(fs, gs, g)
  <2>1. \A o \in OwnersIn(fs, f) : SameValues(fs, gs, o)
    BY <1>1, <1>2 DEF SameValues
  <2> QED
    BY <2>1, UnambiguousStays
<1>3. CASE g \in OwnersIn(fs, f) /\ validate_mixin_tree(gs, g)
  <2>1. g \in OwnersIn(gs, f)
    BY <1>3, KeptChains
  <2>2. Reaches(gs, g, f)
    BY <2>1 DEF Reaches, UsableIn
  <2>3. f \in DOMAIN gs
    BY DEF FramesBuilt, IsSeq
  <2> QED
    BY <1>3, <2>2, <2>3 DEF validate_mixin_tree
<1> QED
  BY <1>2, <1>3

----------------------------------------------------------------------------
\* The steps

LEMMA ScopesKept ==
  ASSUME NEW fs, NEW gs, NEW ss, FramesBuilt(fs), Kept(fs, gs), Len(gs) \in Nat, ScopesBuilt(fs, ss)
  PROVE  ScopesBuilt(gs, ss)
<1>1. \A f \in 1 .. Len(fs) : f \in 1 .. Len(gs) /\ gs[f].lent = fs[f].lent
  BY DEF Kept, FramesBuilt, IsSeq
<1>2. \A k \in 1 .. Len(ss) : ScopeBuilt(fs, ss[k]) => ScopeBuilt(gs, ss[k])
  BY <1>1 DEF ScopeBuilt, Own
<1> QED
  BY <1>2 DEF ScopesBuilt

\* A Frame that is made is added to those there are, which stay as they are.
Adds(fs, gs) ==
  /\ FramesBuilt(gs) /\ Kept(fs, gs)
  /\ Len(fs) \in Nat /\ Len(gs) = Len(fs) + 1
  /\ \A f \in 1 .. Len(fs) : gs[f] = fs[f]

LEMMA CreateAdds ==
  ASSUME FramesBuilt(frames), NEW module, NEW values, NEW native, NEW parent, parent \in {None} \cup Own(frames),
         Create(module, values, parent, native)
  PROVE  Adds(frames, frames') /\ ~ frames'[Len(frames')].lent
         /\ validate_frame_hierarchy(frames', Len(frames')) /\ scopes' = scopes
<1>1. PICK x : /\ x = NewFrame(module, normalize_masked_mapping(values, {}), parent, native)
               /\ frames' = Append(frames, x) /\ scopes' = scopes
               /\ validate_frame_hierarchy(frames', Len(frames'))
  BY DEF Create
<1>2. DOMAIN x = FrameFields /\ x.parent = parent /\ x.default = None
  BY <1>1 DEF NewFrame, FrameFields
<1>3. x.lent = FALSE
  BY <1>1 DEF NewFrame
<1>4. x.parent = None \/ x.parent \in Own(frames)
  BY <1>2
<1>5. Growing(frames, x, frames')
  BY <1>1 DEF Growing
<1>6. Adds(frames, frames') /\ frames'[Len(frames')] = x
  BY <1>2, <1>3, <1>4, <1>5, GrowBuilt DEF Adds
<1> QED
  BY <1>1, <1>3, <1>6

LEMMA LentAdds ==
  ASSUME FramesBuilt(frames), NEW declared, NEW made, made = create_default_frame(declared), Accepted(made)
  PROVE  /\ Adds(frames, made.frames) /\ made.frames[Len(made.frames)].lent
         /\ validate_frame_hierarchy(made.frames, Len(made.frames))
<1>1. PICK m, n, x : /\ x = [NewFrame(m, n, None, FALSE) EXCEPT !.lent = TRUE]
                     /\ made.frames = Append(frames, x)
                     /\ validate_frame_hierarchy(made.frames, Len(made.frames))
  <2> DEFINE m == Module(Declaring(declared, "factory", Call), {}, {})
             n == normalize_masked_mapping(Declaring(declared, "value", "real"), {})
             x == [NewFrame(m, n, None, FALSE) EXCEPT !.lent = TRUE]
             grown == Append(frames, x)
  <2>1. made = [refused |-> FALSE, frames |-> grown] /\ validate_frame_hierarchy(grown, Len(grown))
    BY DEF create_default_frame, Accepted
  <2> HIDE DEF m, n, grown
  <2>2. made.frames = grown
    BY <2>1
  <2> QED
    BY <2>1, <2>2 DEF grown
<1>2. DOMAIN x = FrameFields /\ x.parent = None /\ x.default = None
  BY <1>1 DEF NewFrame, FrameFields
<1>3. x.lent = TRUE
  BY <1>1 DEF NewFrame
<1>4. Growing(frames, x, made.frames)
  BY <1>1 DEF Growing
<1>5. Adds(frames, made.frames) /\ made.frames[Len(made.frames)] = x
  BY <1>2, <1>3, <1>4, GrowBuilt DEF Adds
<1> QED
  BY <1>1, <1>3, <1>5

\* A Frame that is changed keeps its place, its Module and its masks.
Changes(fs, gs, g) ==
  /\ FramesBuilt(gs) /\ Kept(fs, gs)
  /\ Len(fs) \in Nat /\ Len(gs) = Len(fs)
  /\ \A f \in 1 .. Len(fs) : f # g => gs[f] = fs[f]

LEMMA MixinChanges ==
  ASSUME FramesBuilt(frames), NEW g \in 1 .. Len(frames), NEW values, Mixin(g, values)
  PROVE  /\ Changes(frames, frames', g) /\ frames'[g].default = frames[g].default
         /\ validate_mixin_tree(frames', g) /\ scopes' = scopes
<1>1. PICK n : /\ frames' = [frames EXCEPT ![g].values = Merged(@, n.values),
                                           ![g].masked = @ \cup n.masked]
               /\ validate_mixin_tree(frames', g) /\ scopes' = scopes
  BY DEF Mixin
<1>2. PICK x : x = [frames[g] EXCEPT !.values = Merged(@, n.values), !.masked = @ \cup n.masked]
  OBVIOUS
<1>3. DOMAIN frames[g] = FrameFields
  BY DEF FramesBuilt, FrameBuilt
<1>4. /\ DOMAIN x = FrameFields /\ x.parent = frames[g].parent /\ x.module = frames[g].module
      /\ x.lent = frames[g].lent /\ x.default = frames[g].default /\ x.closing = frames[g].closing
      /\ frames[g].masked \subseteq x.masked
  BY <1>2, <1>3 DEF FrameFields
<1>5. Replacing(frames, g, x, frames')
  BY <1>1, <1>2, <1>3 DEF FramesBuilt, IsSeq, FrameFields, Replacing
<1> QED
  BY <1>1, <1>4, <1>5, ChangeBuilt DEF Changes

LEMMA CloseChanges ==
  ASSUME FramesBuilt(frames), NEW g \in 1 .. Len(frames), frames' = [frames EXCEPT ![g].closing = TRUE]
  PROVE  /\ Changes(frames, frames', g) /\ SameValues(frames, frames', g)
         /\ frames'[g].default = frames[g].default
<1>1. PICK x : x = [frames[g] EXCEPT !.closing = TRUE]
  OBVIOUS
<1>2. DOMAIN frames[g] = FrameFields
  BY DEF FramesBuilt, FrameBuilt
<1>3. /\ DOMAIN x = FrameFields /\ x.parent = frames[g].parent /\ x.module = frames[g].module
      /\ x.lent = frames[g].lent /\ x.default = frames[g].default /\ x.closing = TRUE
      /\ x.masked = frames[g].masked /\ x.values = frames[g].values
  BY <1>1, <1>2 DEF FrameFields
<1>4. Replacing(frames, g, x, frames')
  BY <1>1 DEF Replacing
<1> QED
  BY <1>3, <1>4, ChangeBuilt DEF Changes, SameValues

LEMMA AttachChanges ==
  ASSUME FramesBuilt(frames), NEW g \in Own(frames), NEW declared, AttachDefaults(g, declared)
  PROVE  /\ FramesBuilt(frames') /\ Kept(frames, frames') /\ scopes' = scopes
         /\ Len(frames) \in Nat /\ Len(frames') = Len(frames) + 1
         /\ \A f \in 1 .. Len(frames) : /\ f # g => frames'[f] = frames[f]
                                        /\ SameValues(frames, frames', f)
         /\ Unambiguous(frames) => Unambiguous(frames')
         /\ Children(frames, g) = {} /\ \A o \in Owners(g) : frames[o].default = None
<1>1. PICK made : /\ made = create_default_frame(declared) /\ Accepted(made)
                  /\ frames' = [made.frames EXCEPT ![g].default = Len(made.frames)]
                  /\ scopes' = scopes
                  /\ Children(frames, g) = {} /\ \A o \in Owners(g) : frames[o].default = None
  BY DEF AttachDefaults
<1>2. PICK gs : gs = made.frames
  OBVIOUS
<1>3. Adds(frames, gs) /\ gs[Len(gs)].lent /\ validate_frame_hierarchy(gs, Len(gs))
  BY <1>1, <1>2, LentAdds
<1>4. g \in 1 .. Len(frames) /\ g \in 1 .. Len(gs) /\ gs[g] = frames[g] /\ ~ frames[g].lent
  BY <1>3 DEF Own, Adds
<1>5. PICK x : x = [gs[g] EXCEPT !.default = Len(gs)]
  OBVIOUS
<1>6. DOMAIN gs[g] = FrameFields
  BY <1>3, <1>4 DEF Adds, FramesBuilt, FrameBuilt
<1>7. /\ DOMAIN x = FrameFields /\ x.parent = gs[g].parent /\ x.module = gs[g].module
      /\ x.lent = gs[g].lent /\ x.default = Len(gs) /\ x.closing = gs[g].closing
      /\ x.masked = gs[g].masked /\ x.values = gs[g].values
  BY <1>5, <1>6 DEF FrameFields
<1>8. Replacing(gs, g, x, frames')
  BY <1>1, <1>2, <1>5 DEF Replacing
<1>9. ~ gs[g].lent /\ x.default \in 1 .. Len(gs) \ Own(gs)
  BY <1>3, <1>4, <1>7 DEF Own, Adds
<1>10. /\ FramesBuilt(frames') /\ Kept(gs, frames') /\ Len(frames') = Len(gs) /\ frames'[g] = x
       /\ \A f \in 1 .. Len(gs) : f # g => frames'[f] = gs[f]
  <2>1. FramesBuilt(gs)
    BY <1>3 DEF Adds
  <2> QED
    BY <1>4, <1>7, <1>8, <1>9, <2>1, ChangeBuilt
<1>11. Kept(frames, frames')
  BY <1>3, <1>10 DEF Kept, Adds
<1>12. Unambiguous(frames) => Unambiguous(frames')
  <2>1. Unambiguous(frames) => Unambiguous(gs)
    BY <1>3, GrowUnambiguous DEF Adds
  <2>2. SameValues(gs, frames', g)
    BY <1>7, <1>10 DEF SameValues
  <2> QED
    BY <1>3, <1>4, <1>10, <2>1, <2>2, ChangeUnambiguous DEF Adds
<1>13. \A f \in 1 .. Len(frames) : f \in 1 .. Len(gs) /\ gs[f] = frames[f]
  BY <1>3 DEF Adds
<1> QED
  BY <1>1, <1>3, <1>7, <1>10, <1>11, <1>12, <1>13 DEF Adds, SameValues

LEMMA Fronts ==
  ASSUME NEW s, IsSeq(s), s # <<>>
  PROVE  /\ IsSeq(Front(s)) /\ Len(s) \in 1 .. Len(s) /\ Len(Front(s)) = Len(s) - 1
         /\ \A i \in 1 .. Len(s) - 1 : i \in 1 .. Len(s) /\ Front(s)[i] = s[i]
<1> DEFINE S == Range(s)
<1>1. s \in Seq(S)
  <2>1. \A i \in 1 .. Len(s) : s[i] \in S
    BY DEF IsSeq, Range
  <2> HIDE DEF S
  <2> QED
    BY <2>1 DEF IsSeq
<1> HIDE DEF S
<1>2. Len(s) \in Nat /\ Len(s) # 0
  BY <1>1
<1>3. PICK n \in Nat : n = Len(s) - 1 /\ n <= Len(s)
  <2>1. ASSUME NEW m \in Nat, m # 0
        PROVE  m - 1 \in Nat /\ m - 1 <= m
    BY <2>1
  <2>2. Len(s) - 1 \in Nat /\ Len(s) - 1 <= Len(s)
    BY <1>2, <2>1
  <2> QED
    BY <2>2, Zenon
<1>4. Front(s) = SubSeq(s, 1, n)
  BY <1>3 DEF Front
<1>5. /\ SubSeq(s, 1, n) \in Seq(S) /\ Len(SubSeq(s, 1, n)) = n
      /\ \A i \in 1 .. n : SubSeq(s, 1, n)[i] = s[i]
  <2>1. \A i \in 1 .. n : s[i] \in S
    BY <1>1, <1>2, <1>3, ElementOfSeq
  <2>2. /\ SubSeq(s, 1, n) \in Seq(S)
        /\ Len(SubSeq(s, 1, n)) = IF 1 <= n THEN n - 1 + 1 ELSE 0
        /\ \A i \in 1 .. n - 1 + 1 : SubSeq(s, 1, n)[i] = s[1 + i - 1]
    <3>1. 1 \in Int /\ n \in Int
      OBVIOUS
    <3> QED
      BY <2>1, <3>1, SubSeqProperties, SMTT(30)
  <2>3. (IF 1 <= n THEN n - 1 + 1 ELSE 0) = n /\ 1 .. n - 1 + 1 = 1 .. n
        /\ \A i \in 1 .. n : 1 + i - 1 = i
    OBVIOUS
  <2> QED
    BY <2>2, <2>3
<1>6. /\ Front(s) \in Seq(S) /\ Len(Front(s)) = Len(s) - 1
      /\ \A i \in 1 .. Len(s) - 1 : Front(s)[i] = s[i]
  BY <1>3, <1>4, <1>5, SMTT(30)
<1> QED
  BY <1>2, <1>6, SeqIs

NamesInv == FramesBuilt(frames) /\ ScopesBuilt(frames, scopes) /\ Unambiguous(frames)

LEMMA OwnFrames ==
  ASSUME FramesBuilt(frames)
  PROVE  Frame = 1 .. Len(frames) /\ Frame \ Lent = Own(frames) /\ Len(frames) \in Nat
         /\ Own(frames) \subseteq 1 .. Len(frames)
BY DEF FramesBuilt, IsSeq, Frame, Lent, Own

LEMMA EnterAdds ==
  ASSUME NamesInv, NEW root \in Own(frames), NEW declared, EnterScope(root, declared)
  PROVE  /\ Adds(frames, frames') /\ Unambiguous(frames')
         /\ Len(scopes') = Len(scopes) + 1 /\ Len(scopes) \in Nat
         /\ ScopesBuilt(frames', scopes')
<1>1. PICK made : /\ made = create_default_frame(declared) /\ Accepted(made)
                  /\ frames' = made.frames
                  /\ scopes' = Append(scopes, [root |-> root, owners |-> Owners(root),
                                               defaults |-> Len(made.frames)])
  BY DEF EnterScope
<1>2. /\ Adds(frames, frames') /\ frames'[Len(frames')].lent
      /\ validate_frame_hierarchy(frames', Len(frames'))
  BY <1>1, LentAdds DEF NamesInv
<1>3. Unambiguous(frames')
  BY <1>2, GrowUnambiguous DEF Adds, NamesInv
<1>4. PICK scope : scope = [root |-> root, owners |-> Owners(root), defaults |-> Len(frames')]
  OBVIOUS
<1>5. /\ IsSeq(scopes') /\ Len(scopes') = Len(scopes) + 1 /\ scopes'[Len(scopes) + 1] = scope
      /\ \A k \in 1 .. Len(scopes) : scopes'[k] = scopes[k]
  BY <1>1, <1>4, Appends DEF NamesInv, ScopesBuilt
<1>6. Len(scopes) \in Nat
  BY DEF NamesInv, ScopesBuilt, IsSeq
<1>7. ScopeBuilt(frames', scope)
  <2>1. Owners(root) \subseteq Own(frames)
    BY OwnersOwn DEF NamesInv, Own, Owners
  <2>2. Own(frames) \subseteq Own(frames')
    BY <1>2 DEF Own, Adds
  <2>3. Len(frames') \in 1 .. Len(frames')
    BY <1>2 DEF Adds
  <2> QED
    BY <1>2, <1>4, <2>1, <2>2, <2>3 DEF ScopeBuilt, Own
<1>8. ScopesBuilt(frames', scopes)
  <2>1. Len(frames') \in Nat
    BY <1>2 DEF Adds
  <2> QED
    BY <1>2, <2>1, ScopesKept DEF Adds, NamesInv
<1>9. \A k \in 1 .. Len(scopes') : k \in 1 .. Len(scopes) \/ k = Len(scopes) + 1
  BY <1>5, <1>6
<1>10. ScopesBuilt(frames', scopes')
  BY <1>5, <1>7, <1>8, <1>9 DEF ScopesBuilt
<1> QED
  BY <1>2, <1>3, <1>5, <1>6, <1>10

LEMMA LeaveChanges ==
  ASSUME NamesInv, LeaveScope
  PROVE  /\ \E g \in 1 .. Len(frames) : Changes(frames, frames', g) /\ SameValues(frames, frames', g)
         /\ FramesBuilt(frames') /\ Kept(frames, frames') /\ Unambiguous(frames')
         /\ Len(scopes') = Len(scopes) - 1 /\ Len(scopes) \in Nat
         /\ ScopesBuilt(frames', scopes')
<1>1. /\ scopes # <<>> /\ scopes' = Front(scopes)
      /\ frames' = [frames EXCEPT ![Last(scopes).defaults].closing = TRUE]
  BY DEF LeaveScope
<1>2. IsSeq(scopes) /\ \A k \in 1 .. Len(scopes) : ScopeBuilt(frames, scopes[k])
  BY DEF NamesInv, ScopesBuilt
<1>3. /\ IsSeq(scopes') /\ Len(scopes) \in 1 .. Len(scopes) /\ Len(scopes') = Len(scopes) - 1
      /\ \A k \in 1 .. Len(scopes) - 1 : k \in 1 .. Len(scopes) /\ scopes'[k] = scopes[k]
  BY <1>1, <1>2, Fronts
<1>4. PICK g : g = Last(scopes).defaults
  OBVIOUS
<1>5. g \in 1 .. Len(frames)
  BY <1>2, <1>3, <1>4 DEF Last, ScopeBuilt
<1>6. Changes(frames, frames', g) /\ SameValues(frames, frames', g)
  <2>1. FramesBuilt(frames) /\ frames' = [frames EXCEPT ![g].closing = TRUE]
    BY <1>1, <1>4 DEF NamesInv
  <2> QED
    BY <1>5, <2>1, CloseChanges
<1>7. Unambiguous(frames')
  BY <1>5, <1>6, ChangeUnambiguous DEF Changes, NamesInv
<1>8. ScopesBuilt(frames', scopes)
  <2>1. Len(frames') \in Nat
    BY <1>6 DEF Changes
  <2> QED
    BY <1>6, <2>1, ScopesKept DEF Changes, NamesInv
<1>9. ScopesBuilt(frames', scopes')
  BY <1>3, <1>8 DEF ScopesBuilt
<1>10. Len(scopes) \in Nat
  BY <1>2 DEF IsSeq
<1> QED
  BY <1>3, <1>5, <1>6, <1>7, <1>9, <1>10 DEF Changes

LEMMA BindingStep ==
  ASSUME NamesInv, [BindingNext]_bindingVars
  PROVE  NamesInv' /\ Kept(frames, frames')
<1>1. FramesBuilt(frames) /\ ScopesBuilt(frames, scopes) /\ Unambiguous(frames)
  BY DEF NamesInv
<1>2. ASSUME FramesBuilt(frames'), Kept(frames, frames'), Unambiguous(frames'), scopes' = scopes
      PROVE  NamesInv' /\ Kept(frames, frames')
  <2>1. Len(frames') \in Nat
    BY <1>2 DEF FramesBuilt, IsSeq
  <2>2. ScopesBuilt(frames', scopes)
    BY <1>1, <1>2, <2>1, ScopesKept
  <2> QED
    BY <1>2, <2>2 DEF NamesInv
<1>3. ASSUME NEW offer \in Offers, NEW parent \in Parents,
             Create(offer.module, offer.values, parent, parent = None)
      PROVE  NamesInv' /\ Kept(frames, frames')
  <2>1. parent \in {None} \cup Own(frames)
    BY <1>1, OwnFrames DEF Parents
  <2>2. /\ Adds(frames, frames') /\ scopes' = scopes
        /\ validate_frame_hierarchy(frames', Len(frames'))
    BY <1>1, <1>3, <2>1, CreateAdds
  <2>3. Unambiguous(frames')
    BY <1>1, <2>2, GrowUnambiguous DEF Adds
  <2> QED
    BY <1>2, <2>2, <2>3 DEF Adds
<1>4. ASSUME NEW g \in Frame \ Lent, NEW values \in Updates, Mixin(g, values)
      PROVE  NamesInv' /\ Kept(frames, frames')
  <2>1. g \in 1 .. Len(frames)
    BY <1>1, OwnFrames
  <2>2. /\ Changes(frames, frames', g) /\ scopes' = scopes
        /\ validate_mixin_tree(frames', g)
    BY <1>1, <1>4, <2>1, MixinChanges
  <2>3. Unambiguous(frames')
    BY <1>1, <2>1, <2>2, ChangeUnambiguous DEF Changes
  <2> QED
    BY <1>2, <2>2, <2>3 DEF Changes
<1>5. ASSUME NEW g \in Frame \ Lent, NEW declared \in Defaults, AttachDefaults(g, declared)
      PROVE  NamesInv' /\ Kept(frames, frames')
  <2>1. g \in Own(frames)
    BY <1>1, OwnFrames
  <2> QED
    BY <1>1, <1>2, <1>5, <2>1, AttachChanges
<1>6. ASSUME NEW root \in Frame \ Lent, NEW declared \in Defaults, EnterScope(root, declared)
      PROVE  NamesInv' /\ Kept(frames, frames')
  <2>1. root \in Own(frames)
    BY <1>1, OwnFrames
  <2>2. Adds(frames, frames') /\ Unambiguous(frames') /\ ScopesBuilt(frames', scopes')
    BY <1>6, <2>1, EnterAdds
  <2> QED
    BY <2>2 DEF Adds, NamesInv
<1>7. CASE LeaveScope
  BY <1>7, LeaveChanges DEF NamesInv
<1>8. ASSUME NEW g \in Frame \ Lent, Close(g)
      PROVE  NamesInv' /\ Kept(frames, frames')
  <2>1. g \in 1 .. Len(frames)
    BY <1>1, OwnFrames
  <2>2. Changes(frames, frames', g) /\ SameValues(frames, frames', g) /\ scopes' = scopes
    BY <1>1, <1>8, <2>1, CloseChanges DEF Close
  <2>3. Unambiguous(frames')
    BY <1>1, <2>1, <2>2, ChangeUnambiguous DEF Changes
  <2> QED
    BY <1>2, <2>2, <2>3 DEF Changes
<1>9. CASE UNCHANGED bindingVars
  <2>1. frames' = frames /\ scopes' = scopes
    BY <1>9 DEF bindingVars
  <2>2. Kept(frames, frames)
    BY <1>1 DEF Kept, FramesBuilt, IsSeq
  <2> QED
    BY <1>1, <1>2, <2>1, <2>2
<1> QED
  BY <1>3, <1>4, <1>5, <1>6, <1>7, <1>8, <1>9 DEF BindingNext

LEMMA BindingBegins == BindingInit => NamesInv
<1> SUFFICES ASSUME BindingInit
             PROVE  NamesInv
  OBVIOUS
<1>1. frames = <<>> /\ scopes = <<>> /\ Len(<<>>) = 0 /\ <<>> = [i \in 1 .. 0 |-> <<>>[i]]
  BY DEF BindingInit
<1>2. 1 .. 0 = {}
  OBVIOUS
<1>3. IsSeq(<<>>)
  BY <1>1, <1>2 DEF IsSeq
<1> QED
  BY <1>1, <1>2, <1>3 DEF NamesInv, FramesBuilt, ScopesBuilt, Unambiguous

\* No update of a Frame makes a name ambiguous in a Frame in use, be it that Frame
\* or one derived from it however long before (update_host_bindings,
\* validate_mixin_tree): a Frame in use below the updated one is reached through
\* open Frames only, so that its hierarchy was checked with the values as they
\* would be; all others keep the hierarchy they were checked with.
THEOREM NamesStayUnambiguous == BindingSpec => []NamesUnambiguous
<1>1. BindingInit => NamesInv
  BY BindingBegins
<1>2. NamesInv /\ [BindingNext]_bindingVars => NamesInv'
  BY BindingStep
<1>3. NamesInv => NamesUnambiguous
  BY OwnFrames DEF NamesInv, NamesUnambiguous, Unambiguous, Usable, UsableIn, Owners
<1> QED
  BY <1>1, <1>2, <1>3, PTL DEF BindingSpec

----------------------------------------------------------------------------
\* Defaults only fill in

LEMMA GreatestNumber ==
  ASSUME NEW n \in Nat, NEW S \in SUBSET (0 .. n), S # {}
  PROVE  Max(S) \in S
<1> DEFINE T == {n - x : x \in S}
<1>1. T \in SUBSET Nat /\ T # {}
  <2>1. PICK x : x \in S
    OBVIOUS
  <2>2. n - x \in T
    BY <2>1, Zenon
  <2>3. \A y \in 0 .. n : n - y \in Nat
    OBVIOUS
  <2>4. \A u \in T : u \in Nat
    BY <2>3
  <2> HIDE DEF T
  <2> QED
    BY <2>2, <2>4
<1>2. PICK t \in T : \A u \in T : t <= u
  <2> HIDE DEF T
  <2> QED
    BY <1>1, LeastNumber
<1>3. PICK x \in S : t = n - x
  OBVIOUS
<1>4. \A y \in S : y <= x
  <2> SUFFICES ASSUME NEW y \in S
               PROVE  y <= x
    OBVIOUS
  <2>1. n - x <= n - y
    BY <1>2, <1>3
  <2>2. x \in 0 .. n /\ y \in 0 .. n
    OBVIOUS
  <2>3. ASSUME NEW v \in 0 .. n, NEW w \in 0 .. n, n - v <= n - w
        PROVE  w <= v
    BY <2>3
  <2> HIDE DEF T
  <2> QED
    BY <2>1, <2>2, <2>3, Zenon
<1>5. \E z \in S : \A y \in S : z >= y
  BY <1>4
<1> QED
  BY <1>5 DEF Max

LEMMA LeastIn ==
  ASSUME NEW S \in SUBSET Nat, S # {}
  PROVE  Min(S) \in S
BY LeastNumber DEF Min

KindIn(module, values, name) ==
  CASE name \in DOMAIN module.definitions ->
         IF module.definitions[name].kind = "runtime" THEN IF name \in DOMAIN values THEN "host" ELSE "runtime"
         ELSE IF is_frame_proxy(module.definitions[name]) THEN "proxy" ELSE "real"
    [] name \notin DOMAIN module.definitions /\ name \in DOMAIN values -> values[name]
    [] OTHER -> IF \E known \in DOMAIN module.definitions \cup DOMAIN values : name \in Outer(known)
                THEN "proxy" ELSE "none"

LEMMA KindsKept ==
  ASSUME FramesBuilt(frames), Kept(frames, frames'), NEW f \in 1 .. Len(frames),
         SameValues(frames, frames', f), NEW name
  PROVE  local_binding_kind(f, name)' = local_binding_kind(f, name)
<1>1. local_binding_kind(f, name) = KindIn(frames[f].module, frames[f].values, name)
  BY DEF local_binding_kind, KindIn
<1>2. local_binding_kind(f, name)' = KindIn(frames'[f].module, frames'[f].values, name)
  BY DEF local_binding_kind, KindIn
<1>3. frames'[f].module = frames[f].module /\ frames'[f].values = frames[f].values
  BY DEF Kept, SameValues
<1> QED
  BY <1>1, <1>2, <1>3

\* What is looked along is the same when no Frame changes its values.
LEMMA AlongKept ==
  ASSUME FramesBuilt(frames), FramesBuilt(frames'), Kept(frames, frames'),
         \A g \in 1 .. Len(frames) : SameValues(frames, frames', g),
         NEW f \in 1 .. Len(frames), NEW name
  PROVE  /\ walk_hierarchy(f)' = walk_hierarchy(f)
         /\ kinds_along(f, name)' = kinds_along(f, name)
         /\ declared_along(f, name)' = declared_along(f, name)
         /\ \E n \in Nat : DOMAIN kinds_along(f, name) = 1 .. n
<1>1. PICK c \in Seq(1 .. Len(frames)) : c = walk_hierarchy(f) /\ c = walk_hierarchy(f)'
  <2>1. f \in 0 .. Len(frames)
    BY DEF FramesBuilt, IsSeq
  <2>2. Chains(frames)[f] \in Seq(1 .. Len(frames))
    BY <2>1, ChainsTyped, BuiltBelow
  <2>3. Chains(frames')[f] = Chains(frames)[f]
    BY KeptChains
  <2> QED
    BY <2>2, <2>3 DEF walk_hierarchy
<1>2. PICK n \in Nat : DOMAIN c = 1 .. n /\ \A k \in 1 .. n : c[k] \in 1 .. Len(frames)
  OBVIOUS
<1>3. /\ kinds_along(f, name) = [k \in 1 .. n |-> local_binding_kind(c[k], name)]
      /\ kinds_along(f, name)' = [k \in 1 .. n |-> local_binding_kind(c[k], name)']
  BY <1>1, <1>2 DEF kinds_along
<1>4. \A k \in 1 .. n : local_binding_kind(c[k], name)' = local_binding_kind(c[k], name)
  BY <1>2, KindsKept
<1>5. kinds_along(f, name)' = kinds_along(f, name) /\ DOMAIN kinds_along(f, name) = 1 .. n
  BY <1>3, <1>4
<1>6. declared_along(f, name)' = declared_along(f, name)
  <2>1. /\ declared_along(f, name) = {k \in 1 .. n : name \in frames[c[k]].module.namespaces}
        /\ declared_along(f, name)' = {k \in 1 .. n : name \in frames'[c[k]].module.namespaces}
    BY <1>1, <1>2 DEF declared_along
  <2>2. \A k \in 1 .. n : frames'[c[k]].module = frames[c[k]].module
    BY <1>2 DEF Kept
  <2> QED
    BY <2>1, <2>2
<1> QED
  BY <1>1, <1>5, <1>6

\* A name that is bound in the chain is bound there whatever is lent.
LEMMA BoundFirst ==
  ASSUME NEW n \in Nat, NEW chain, NEW kinds, DOMAIN kinds = 1 .. n, NEW declared, NEW D, NEW l, NEW E, NEW m,
         FirstBinding(chain, kinds, declared, D, l).kind \notin {"none", "runtime"},
         FirstBinding(chain, kinds, declared, D, l).owner # D
  PROVE  FirstBinding(chain, kinds, declared, E, m) = FirstBinding(chain, kinds, declared, D, l)
<1>1. CASE Deciding(kinds, declared) # {}
  BY <1>1 DEF FirstBinding
<1>2. CASE Deciding(kinds, declared) = {} /\ Being(kinds, "proxy") # {} /\ Being(kinds, "runtime") = {}
  BY <1>2 DEF FirstBinding
<1>3. CASE Deciding(kinds, declared) = {} /\ ~(Being(kinds, "proxy") # {} /\ Being(kinds, "runtime") = {})
  <2>1. CASE l # "none"
    <3>1. FirstBinding(chain, kinds, declared, D, l) = Selection(D, l, Append(chain, D))
      BY <1>3, <2>1 DEF FirstBinding
    <3> QED
      BY <3>1 DEF Selection
  <2>2. CASE l = "none" /\ Being(kinds, "runtime") # {}
    <3>1. FirstBinding(chain, kinds, declared, D, l) = SelectedAt(chain, kinds, Min(Being(kinds, "runtime")))
      BY <1>3, <2>2 DEF FirstBinding
    <3>2. Being(kinds, "runtime") \in SUBSET Nat
      BY DEF Being
    <3>3. Min(Being(kinds, "runtime")) \in Being(kinds, "runtime")
      BY <2>2, <3>2, LeastIn
    <3>4. kinds[Min(Being(kinds, "runtime"))] = "runtime"
      BY <3>3 DEF Being
    <3> QED
      BY <3>1, <3>4 DEF SelectedAt, Selection
  <2>3. CASE l = "none" /\ Being(kinds, "runtime") = {}
    <3>1. FirstBinding(chain, kinds, declared, D, l) = Selection(None, "none", chain)
      BY <1>3, <2>3 DEF FirstBinding
    <3> QED
      BY <3>1 DEF Selection
  <2> QED
    BY <2>1, <2>2, <2>3
<1> QED
  BY <1>1, <1>2, <1>3

Covering(fs, ss, f) == {k \in DOMAIN ss : f \in ss[k].owners \/ ss[k].root \in OwnersIn(fs, f)}
Attached(fs, f) == {owner \in OwnersIn(fs, f) : fs[owner].default # None}
DefaultIn(fs, ss, f) ==
  IF Covering(fs, ss, f) # {} THEN ss[Max(Covering(fs, ss, f))].defaults
  ELSE IF Attached(fs, f) # {} THEN fs[Max(Attached(fs, f))].default ELSE None

LEMMA DefaultIs ==
  ASSUME NEW f
  PROVE  /\ default_frame_for(f) = DefaultIn(frames, scopes, f)
         /\ default_frame_for(f)' = DefaultIn(frames', scopes', f)
BY DEF default_frame_for, DefaultIn, Covering, Attached, Owners

\* Defaults are lent from beside the chain.
LEMMA DefaultsApart ==
  ASSUME NEW fs, NEW ss, FramesBuilt(fs), ScopesBuilt(fs, ss), NEW f \in 1 .. Len(fs)
  PROVE  /\ DefaultIn(fs, ss, f) \notin OwnersIn(fs, f)
         /\ DefaultIn(fs, ss, f) = None \/ DefaultIn(fs, ss, f) \in 1 .. Len(fs)
<1>1. Len(fs) \in Nat /\ OwnersIn(fs, f) \subseteq 1 .. f
  BY OwnersBelow, BuiltBelow DEF ParentsBelow
<1>2. OwnersIn(fs, f) \subseteq 1 .. Len(fs) /\ OwnersIn(fs, f) \in SUBSET (0 .. Len(fs)) /\ 0 \notin OwnersIn(fs, f)
  BY <1>1
<1>3. CASE Covering(fs, ss, f) # {}
  <2>1. Len(ss) \in Nat /\ DOMAIN ss = 1 .. Len(ss)
    BY DEF ScopesBuilt, IsSeq
  <2>2. Covering(fs, ss, f) \in SUBSET (0 .. Len(ss))
    BY <2>1 DEF Covering
  <2>3. PICK k : k = Max(Covering(fs, ss, f)) /\ k \in Covering(fs, ss, f)
    BY <1>3, <2>1, <2>2, GreatestNumber
  <2>4. ScopeBuilt(fs, ss[k]) /\ (f \in ss[k].owners \/ ss[k].root \in OwnersIn(fs, f))
    BY <2>1, <2>3 DEF Covering, ScopesBuilt
  <2>5. DefaultIn(fs, ss, f) = ss[k].defaults
    BY <1>3, <2>3 DEF DefaultIn
  <2>6. ~ fs[f].lent
    BY <2>4, OwnersOwn DEF ScopeBuilt, Own
  <2>7. OwnersIn(fs, f) \subseteq Own(fs)
    BY <2>6, OwnersOwn
  <2> QED
    BY <2>4, <2>5, <2>7 DEF ScopeBuilt
<1>4. CASE Covering(fs, ss, f) = {} /\ Attached(fs, f) # {}
  <2>1. Attached(fs, f) \in SUBSET (0 .. Len(fs))
    BY <1>2 DEF Attached
  <2>2. PICK o : o = Max(Attached(fs, f)) /\ o \in Attached(fs, f)
    BY <1>1, <1>4, <2>1, GreatestNumber
  <2>3. o \in OwnersIn(fs, f) /\ fs[o].default # None /\ FrameBuilt(fs, o)
    BY <1>2, <2>2 DEF Attached, FramesBuilt
  <2>4. DefaultIn(fs, ss, f) = fs[o].default
    BY <1>4, <2>2 DEF DefaultIn
  <2>5. fs[o].default \in 1 .. Len(fs) /\ fs[fs[o].default].lent /\ ~ fs[o].lent
    BY <2>3 DEF FrameBuilt
  <2>6. OwnersIn(fs, f) \subseteq Own(fs)
    BY <2>3, <2>5, OwnersOwn
  <2> QED
    BY <2>4, <2>5, <2>6 DEF Own
<1>5. CASE Covering(fs, ss, f) = {} /\ Attached(fs, f) = {}
  BY <1>2, <1>5 DEF DefaultIn, None
<1> QED
  BY <1>3, <1>4, <1>5

\* What is lent or withdrawn leaves the bindings of the chain selected.
LEMMA SelectionKept ==
  ASSUME NamesInv, FramesBuilt(frames'), Kept(frames, frames'),
         \A g \in 1 .. Len(frames) : SameValues(frames, frames', g),
         NEW f \in 1 .. Len(frames), NEW name,
         select_binding(f, name).kind \notin {"none", "runtime"}, select_binding(f, name).owner \in Owners(f)
  PROVE  select_binding(f, name)' = select_binding(f, name)
<1>1. PICK n, c, k, d :
        /\ n \in Nat /\ c = walk_hierarchy(f) /\ c = walk_hierarchy(f)'
        /\ k = kinds_along(f, name) /\ k = kinds_along(f, name)'
        /\ d = declared_along(f, name) /\ d = declared_along(f, name)'
        /\ DOMAIN k = 1 .. n
  BY AlongKept DEF NamesInv
<1>2. PICK D, l, E, m : /\ D = default_frame_for(f) /\ l = lent_kind(f, name)
                        /\ E = default_frame_for(f)' /\ m = lent_kind(f, name)'
  OBVIOUS
<1>3. /\ select_binding(f, name) = FirstBinding(c, k, d, D, l)
      /\ select_binding(f, name)' = FirstBinding(c, k, d, E, m)
  BY <1>1, <1>2 DEF select_binding
<1>4. D \notin Owners(f)
  BY <1>2, DefaultIs, DefaultsApart DEF NamesInv, Owners
<1>5. FirstBinding(c, k, d, D, l).owner # D
  BY <1>3, <1>4
<1> QED
  BY <1>1, <1>3, <1>5, BoundFirst

\* Masks are kept while no scope is entered or left.
LEMMA MasksKept ==
  ASSUME NamesInv, FramesBuilt(frames'), Kept(frames, frames'), scopes' = scopes,
         NEW f \in 1 .. Len(frames), NEW name, is_name_masked(f, name),
         \/ \A o \in Owners(f) : frames'[o].default = frames[o].default
         \/ \A o \in Owners(f) : frames[o].default = None
  PROVE  is_name_masked(f, name)'
<1>1. OwnersIn(frames', f) = OwnersIn(frames, f) /\ OwnersIn(frames, f) \subseteq 1 .. Len(frames)
  <2>1. OwnersIn(frames, f) \subseteq 1 .. f /\ Len(frames) \in Nat
    BY OwnersBelow, BuiltBelow DEF ParentsBelow, NamesInv
  <2> QED
    BY <2>1, KeptChains DEF NamesInv
<1>2. \A o \in 1 .. Len(frames) : frames[o].masked \subseteq frames'[o].masked
  BY DEF Kept
<1>3. CASE \E owner \in Owners(f) : name \in frames[owner].masked
  <2>1. \E owner \in OwnersIn(frames', f) : name \in frames'[owner].masked
    BY <1>1, <1>2, <1>3 DEF Owners
  <2> QED
    BY <2>1 DEF is_name_masked, Owners
<1>4. CASE default_frame_for(f) # None /\ name \in frames[default_frame_for(f)].masked
  <2>1. PICK D : /\ D = DefaultIn(frames, scopes, f) /\ D # None /\ D \in 1 .. Len(frames)
                 /\ name \in frames[D].masked
    BY <1>4, DefaultIs, DefaultsApart DEF NamesInv
  <2>2. Covering(frames', scopes', f) = Covering(frames, scopes, f)
    BY <1>1 DEF Covering
  <2>3. DefaultIn(frames', scopes', f) = D
    <3>1. CASE Covering(frames, scopes, f) # {}
      BY <2>1, <2>2, <3>1 DEF DefaultIn
    <3>2. CASE Covering(frames, scopes, f) = {}
      <4>1. Attached(frames, f) # {} /\ D = frames[Max(Attached(frames, f))].default
        BY <2>1, <3>2 DEF DefaultIn
      <4>2. \A o \in OwnersIn(frames, f) : frames'[o].default = frames[o].default
        BY <4>1 DEF Attached, Owners
      <4>3. Attached(frames', f) = Attached(frames, f)
        BY <1>1, <4>2 DEF Attached
      <4>4. Attached(frames, f) \in SUBSET (0 .. Len(frames)) /\ Len(frames) \in Nat
        BY <1>1 DEF Attached, NamesInv, FramesBuilt, IsSeq
      <4>5. Max(Attached(frames, f)) \in OwnersIn(frames, f)
        BY <4>1, <4>4, GreatestNumber DEF Attached
      <4> QED
        BY <2>2, <3>2, <4>1, <4>2, <4>3, <4>5 DEF DefaultIn
    <3> QED
      BY <3>1, <3>2
  <2>4. name \in frames'[D].masked
    BY <1>2, <2>1
  <2>5. default_frame_for(f)' = D
    BY <2>3, DefaultIs
  <2> QED
    BY <2>1, <2>4, <2>5 DEF is_name_masked
<1> QED
  BY <1>3, <1>4 DEF is_name_masked

\* One step lends defaults, withdraws them, or does neither.
Lends(f, name) ==
  /\ \/ (\E k \in Frame' : k \notin Frame /\ k \in Lent') \/ Len(scopes') # Len(scopes)
  /\ select_binding(f, name).kind \notin {"none", "runtime"} /\ select_binding(f, name).owner \in Owners(f)
OnlyFills(f, name) ==
  /\ Lends(f, name) => select_binding(f, name)' = select_binding(f, name)
  /\ Len(scopes') = Len(scopes) /\ is_name_masked(f, name) => is_name_masked(f, name)'

LEMMA NothingLent ==
  ASSUME NamesInv, FramesBuilt(frames'), Kept(frames, frames'), scopes' = scopes,
         \A k \in 1 .. Len(frames') : k \in 1 .. Len(frames) \/ ~ frames'[k].lent,
         NEW f \in 1 .. Len(frames), NEW name,
         \A o \in Owners(f) : frames'[o].default = frames[o].default
  PROVE  OnlyFills(f, name)
<1>1. Frame = 1 .. Len(frames) /\ Frame' = 1 .. Len(frames')
  BY DEF NamesInv, FramesBuilt, IsSeq, Frame
<1>2. ~ Lends(f, name)
  BY <1>1 DEF Lends, Lent
<1> QED
  BY <1>2, MasksKept DEF OnlyFills

LEMMA StepOnlyFills ==
  ASSUME NamesInv, [BindingNext]_bindingVars, NEW f \in 1 .. Len(frames), NEW name
  PROVE  OnlyFills(f, name)
<1>1. FramesBuilt(frames) /\ ScopesBuilt(frames, scopes)
  BY DEF NamesInv
<1>2. FramesBuilt(frames') /\ Kept(frames, frames')
  BY BindingStep DEF NamesInv
<1>3. OwnersIn(frames, f) \subseteq 1 .. Len(frames) /\ Owners(f) = OwnersIn(frames, f) /\ Len(frames) \in Nat
  <2>1. OwnersIn(frames, f) \subseteq 1 .. f /\ Len(frames) \in Nat
    BY <1>1, OwnersBelow, BuiltBelow DEF ParentsBelow
  <2> QED
    BY <2>1 DEF Owners
<1>4. ASSUME NEW offer \in Offers, NEW parent \in Parents,
             Create(offer.module, offer.values, parent, parent = None)
      PROVE  OnlyFills(f, name)
  <2>1. parent \in {None} \cup Own(frames)
    BY <1>1, OwnFrames DEF Parents
  <2>2. Adds(frames, frames') /\ ~ frames'[Len(frames')].lent /\ scopes' = scopes
    BY <1>1, <1>4, <2>1, CreateAdds
  <2>3. \A k \in 1 .. Len(frames') : k \in 1 .. Len(frames) \/ k = Len(frames')
    BY <2>2 DEF Adds
  <2>4. \A o \in Owners(f) : frames'[o].default = frames[o].default
    BY <1>3, <2>2 DEF Adds
  <2> QED
    BY <1>2, <2>2, <2>3, <2>4, NothingLent
<1>5. ASSUME NEW g \in 1 .. Len(frames), Changes(frames, frames', g), scopes' = scopes,
             frames'[g].default = frames[g].default
      PROVE  OnlyFills(f, name)
  <2>1. \A o \in Owners(f) : frames'[o].default = frames[o].default
    BY <1>3, <1>5 DEF Changes
  <2>2. \A k \in 1 .. Len(frames') : k \in 1 .. Len(frames) \/ ~ frames'[k].lent
    BY <1>5 DEF Changes
  <2> QED
    BY <1>2, <1>5, <2>1, <2>2, NothingLent
<1>6. ASSUME NEW g \in Frame \ Lent, NEW values \in Updates, Mixin(g, values)
      PROVE  OnlyFills(f, name)
  <2>1. g \in 1 .. Len(frames)
    BY <1>1, OwnFrames
  <2> QED
    BY <1>1, <1>5, <1>6, <2>1, MixinChanges
<1>7. ASSUME NEW g \in Frame \ Lent, Close(g)
      PROVE  OnlyFills(f, name)
  <2>1. g \in 1 .. Len(frames)
    BY <1>1, OwnFrames
  <2>2. Changes(frames, frames', g) /\ frames'[g].default = frames[g].default /\ scopes' = scopes
    BY <1>1, <1>7, <2>1, CloseChanges DEF Close
  <2> QED
    BY <1>5, <2>1, <2>2
<1>8. ASSUME NEW g \in Frame \ Lent, NEW declared \in Defaults, AttachDefaults(g, declared)
      PROVE  OnlyFills(f, name)
  <2>1. g \in Own(frames)
    BY <1>1, OwnFrames
  <2>2. /\ scopes' = scopes
        /\ \A h \in 1 .. Len(frames) : (h # g => frames'[h] = frames[h]) /\ SameValues(frames, frames', h)
        /\ Children(frames, g) = {} /\ \A o \in Owners(g) : frames[o].default = None
    BY <1>1, <1>8, <2>1, AttachChanges
  <2>3. Lends(f, name) => select_binding(f, name)' = select_binding(f, name)
    BY <1>2, <2>2, SelectionKept DEF Lends
  <2>4. \/ \A o \in Owners(f) : frames'[o].default = frames[o].default
        \/ \A o \in Owners(f) : frames[o].default = None
    <3>1. CASE f = g
      BY <2>2, <3>1
    <3>2. CASE f # g
      <4>1. g \notin Owners(f)
        <5>1. ASSUME g \in OwnersIn(frames, f)
              PROVE  FALSE
          <6>1. \E c \in 1 .. Len(frames) : frames[c].parent = g
            BY <1>1, <3>2, <5>1, OwnersDerive, BuiltBelow
          <6> QED
            BY <1>1, <2>2, <6>1 DEF Children, FramesBuilt, IsSeq
        <5> QED
          BY <1>3, <5>1
      <4> QED
        BY <1>3, <2>2, <4>1
    <3> QED
      BY <3>1, <3>2
  <2>5. is_name_masked(f, name) => is_name_masked(f, name)'
    BY <1>2, <2>2, <2>4, MasksKept
  <2> QED
    BY <2>3, <2>5 DEF OnlyFills
<1>9. ASSUME \A h \in 1 .. Len(frames) : SameValues(frames, frames', h), Len(scopes') # Len(scopes)
      PROVE  OnlyFills(f, name)
  <2>1. Lends(f, name) => select_binding(f, name)' = select_binding(f, name)
    BY <1>2, <1>9, SelectionKept DEF Lends
  <2> QED
    BY <1>9, <2>1 DEF OnlyFills
<1>10. ASSUME NEW root \in Frame \ Lent, NEW declared \in Defaults, EnterScope(root, declared)
       PROVE  OnlyFills(f, name)
  <2>1. root \in Own(frames)
    BY <1>1, OwnFrames
  <2>2. Adds(frames, frames') /\ Len(scopes') = Len(scopes) + 1 /\ Len(scopes) \in Nat
    BY <1>10, <2>1, EnterAdds
  <2>3. Len(scopes') # Len(scopes)
    BY <2>2
  <2>4. \A h \in 1 .. Len(frames) : SameValues(frames, frames', h)
    BY <2>2 DEF Adds, SameValues
  <2> QED
    BY <1>9, <2>3, <2>4
<1>11. CASE LeaveScope
  <2>1. /\ \E g \in 1 .. Len(frames) : Changes(frames, frames', g) /\ SameValues(frames, frames', g)
        /\ Len(scopes') = Len(scopes) - 1 /\ Len(scopes) \in Nat
    BY <1>11, LeaveChanges
  <2>2. Len(scopes') # Len(scopes)
    BY <2>1
  <2>3. \A h \in 1 .. Len(frames) : SameValues(frames, frames', h)
    BY <2>1 DEF Changes, SameValues
  <2> QED
    BY <1>9, <2>2, <2>3
<1>12. CASE UNCHANGED bindingVars
  <2>1. frames' = frames /\ scopes' = scopes
    BY <1>12 DEF bindingVars
  <2> QED
    BY <1>2, <2>1, NothingLent
<1> QED
  BY <1>4, <1>6, <1>7, <1>8, <1>10, <1>11, <1>12 DEF BindingNext

\* Defaults that are attached to a Frame, or lent and withdrawn with a scope, leave
\* every name that is bound in its chain at the binding it had, and while no scope
\* is entered or left no name loses its mask (attach_defaults, default_scope,
\* select_binding): the Frame of the defaults stands outside every chain, and the
\* selection looks at it only where the chain neither decides nor infers a proxy.
THEOREM LendingOnlyFills == BindingSpec => DefaultsOnlyFill
<1>1. BindingInit => NamesInv
  BY BindingBegins
<1>2. NamesInv /\ [BindingNext]_bindingVars => NamesInv'
  BY BindingStep
<1> DEFINE Fills ==
      \A frame \in Frame, name \in Lookups :
         LET before == select_binding(frame, name)
             lends == (\E k \in Frame' : k \notin Frame /\ k \in Lent') \/ Len(scopes') # Len(scopes)
         IN /\ lends /\ before.kind \notin {"none", "runtime"} /\ before.owner \in Owners(frame)
                 => select_binding(frame, name)' = before
            /\ Len(scopes') = Len(scopes) /\ is_name_masked(frame, name) => is_name_masked(frame, name)'
<1>3. NamesInv /\ [BindingNext]_bindingVars => [Fills]_bindingVars
  <2> SUFFICES ASSUME NamesInv, [BindingNext]_bindingVars
               PROVE  Fills
    OBVIOUS
  <2>1. \A f \in Frame : f \in 1 .. Len(frames)
    BY OwnFrames DEF NamesInv
  <2> QED
    BY <2>1, StepOnlyFills DEF OnlyFills, Lends
<1>4. [][Fills]_bindingVars => DefaultsOnlyFill
  BY DEF DefaultsOnlyFill
<1> HIDE DEF Fills
<1> QED
  BY <1>1, <1>2, <1>3, <1>4, PTL DEF BindingSpec
=============================================================================
