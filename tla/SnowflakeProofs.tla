-------------------------- MODULE SnowflakeProofs --------------------------
(***************************************************************************)
(* For every field width, worker set and clock: identifiers of a worker    *)
(* strictly increase and no identifier is issued twice.                    *)
(***************************************************************************)
EXTENDS Snowflake, TLAPS

\* An identifier's stamp lies before what the worker's generator will use next:
\* in an earlier life of the process, or up to the last issue of this one.
Spent(r) ==
  \/ r.ms <= floor[r.worker]
  \/ r.ms < last[r.worker]
  \/ r.ms = last[r.worker] /\ r.seq <= sequence[r.worker]

\* A generator's own timestamps, and the one being checked, are later than those
\* of its earlier lives.
AfterFloor ==
  \A w \in Worker :
    /\ last[w] = -1 \/ last[w] > floor[w]
    /\ reading[w] # Unread => reading[w] > floor[w] \/ reading[w] < 0

\* The order of the stamps themselves.
StampsIncrease ==
  \A i, j \in DOMAIN issued :
    i < j /\ issued[i].worker = issued[j].worker =>
      \/ issued[i].ms < issued[j].ms
      \/ issued[i].ms = issued[j].ms /\ issued[i].seq < issued[j].seq

IInv ==
  /\ TypeOK
  /\ AfterFloor
  /\ \A i \in DOMAIN issued : Spent(issued[i])
  /\ StampsIncrease

----------------------------------------------------------------------------
\* Arithmetic of a number written as a digit d after the digits x, in base m.

\* A larger number without its last digit leaves room for any last digit.
LEMMA Carry ==
  ASSUME NEW x \in Int, NEW y \in Int, NEW m \in Nat, x < y
  PROVE  x * m + m <= y * m
<1> DEFINE k == y - x - 1
<1>1. k \in Nat /\ y = x + 1 + k
  OBVIOUS
<1>2. y * m = x * m + m + k * m
  BY <1>1
<1>3. k * m >= 0
  BY <1>1
<1> QED
  BY <1>2, <1>3

LEMMA HigherDigits ==
  ASSUME NEW x \in Int, NEW y \in Int, NEW m \in Nat,
         NEW d \in 0 .. m - 1, NEW e \in 0 .. m - 1, x < y
  PROVE  x * m + d < y * m + e
<1>1. x * m \in Int /\ y * m \in Int
  OBVIOUS
<1> QED
  BY <1>1, Carry

\* A number determines its digits.
LEMMA DigitsUnique ==
  ASSUME NEW x \in Int, NEW y \in Int, NEW m \in Nat,
         NEW d \in 0 .. m - 1, NEW e \in 0 .. m - 1, x * m + d = y * m + e
  PROVE  x = y /\ d = e
<1>1. x * m \in Int /\ y * m \in Int
  OBVIOUS
<1>2. ~(x < y)
  BY <1>1, HigherDigits
<1>3. ~(y < x)
  BY <1>1, HigherDigits
<1>4. x = y
  BY <1>2, <1>3
<1> QED
  BY <1>1, <1>4

LEMMA StampFields ==
  ASSUME NEW r \in Stamp
  PROVE  /\ r.ms \in Int
         /\ r.worker \in Worker /\ r.worker \in 0 .. WorkerCount - 1
         /\ r.seq \in 0 .. SequenceCount - 1
<1>1. r.worker \in Worker /\ r.ms \in 0 .. TimestampCount - 1 /\ r.seq \in 0 .. SequenceCount - 1
  BY DEF Stamp
<1>2. Worker \subseteq 0 .. WorkerCount - 1 /\ TimestampCount \in Nat
  BY SnowflakeAssumption
<1>3. r.worker \in 0 .. WorkerCount - 1
  BY <1>1, <1>2, Zenon
<1>4. r.ms \in Int
  BY <1>1, <1>2
<1> QED
  BY <1>1, <1>3, <1>4

\* An identifier determines what it was packed from.
LEMMA IdInjective ==
  ASSUME NEW r \in Stamp, NEW s \in Stamp, Id(r) = Id(s)
  PROVE  r = s
<1>0. WorkerCount \in Nat /\ SequenceCount \in Nat
  BY SnowflakeAssumption
<1> DEFINE x == r.ms * WorkerCount + r.worker
           y == s.ms * WorkerCount + s.worker
<1>1. /\ r.ms \in Int /\ s.ms \in Int
      /\ r.worker \in 0 .. WorkerCount - 1 /\ s.worker \in 0 .. WorkerCount - 1
      /\ r.seq \in 0 .. SequenceCount - 1 /\ s.seq \in 0 .. SequenceCount - 1
  BY StampFields
<1>2. x \in Int /\ y \in Int
  BY <1>0, <1>1
<1>3. x * SequenceCount + r.seq = y * SequenceCount + s.seq
  BY DEF Id
<1>4. x = y /\ r.seq = s.seq
  <2> HIDE DEF x, y
  <2> QED
    BY <1>0, <1>1, <1>2, <1>3, DigitsUnique
<1>5. r.ms * WorkerCount + r.worker = s.ms * WorkerCount + s.worker
  BY <1>4
<1>6. r.ms = s.ms /\ r.worker = s.worker
  <2> DEFINE a == r.ms
             b == s.ms
             v == r.worker
             w == s.worker
  <2>1. /\ a \in Int /\ b \in Int
        /\ v \in 0 .. WorkerCount - 1 /\ w \in 0 .. WorkerCount - 1
        /\ a * WorkerCount + v = b * WorkerCount + w
    BY <1>1, <1>5
  <2> HIDE DEF a, b, v, w
  <2>2. a = b /\ v = w
    BY <1>0, <2>1, DigitsUnique
  <2> QED
    BY <2>2 DEF a, b, v, w
<1> QED
  BY <1>4, <1>6 DEF Stamp

\* Within a worker, identifiers are ordered as their stamps are.
LEMMA IdMonotone ==
  ASSUME NEW r \in Stamp, NEW s \in Stamp, r.worker = s.worker,
         r.ms < s.ms \/ (r.ms = s.ms /\ r.seq < s.seq)
  PROVE  Id(r) < Id(s)
<1>0. WorkerCount \in Nat /\ SequenceCount \in Nat
  BY SnowflakeAssumption
<1> DEFINE x == r.ms * WorkerCount + r.worker
           y == s.ms * WorkerCount + s.worker
<1>1. /\ r.ms \in Int /\ s.ms \in Int
      /\ r.worker \in 0 .. WorkerCount - 1 /\ s.worker \in 0 .. WorkerCount - 1
      /\ r.seq \in 0 .. SequenceCount - 1 /\ s.seq \in 0 .. SequenceCount - 1
  BY StampFields
<1>2. x \in Int /\ y \in Int
  BY <1>0, <1>1
<1>3. CASE r.ms < s.ms
  <2>1. x < y
    BY <1>0, <1>1, <1>3, HigherDigits
  <2>2. x * SequenceCount + r.seq < y * SequenceCount + s.seq
    <3> HIDE DEF x, y
    <3> QED
      BY <1>0, <1>1, <1>2, <2>1, HigherDigits
  <2> QED
    BY <2>2 DEF Id
<1>4. CASE r.ms = s.ms /\ r.seq < s.seq
  <2>1. x = y
    BY <1>4
  <2>2. x * SequenceCount \in Int
    BY <1>0, <1>2
  <2> QED
    BY <1>1, <1>4, <2>1, <2>2 DEF Id
<1> QED
  BY <1>3, <1>4

----------------------------------------------------------------------------

LEMMA SnowflakeInit == Init => IInv
<1> SUFFICES ASSUME Init
             PROVE  IInv
  OBVIOUS
<1> USE SnowflakeAssumption DEF Init
<1>1. TypeOK
  BY DEF TypeOK
<1>2. AfterFloor
  BY DEF AfterFloor
<1> QED
  BY <1>1, <1>2 DEF IInv, Spent, StampsIncrease

LEMMA TypeStep == TypeOK /\ [Next]_vars => TypeOK'
<1> SUFFICES ASSUME TypeOK, [Next]_vars
             PROVE  TypeOK'
  OBVIOUS
<1> USE SnowflakeAssumption DEF TypeOK
<1>1. ASSUME NEW w \in Worker, NEW t \in Thread, Acquire(t, w)
      PROVE  TypeOK'
  BY <1>1 DEF Acquire
<1>2. ASSUME NEW w \in Worker, ReadClock(w)
      PROVE  TypeOK'
  BY <1>2 DEF ReadClock
<1>3. ASSUME NEW w \in Worker, Reject(w)
      PROVE  TypeOK'
  BY <1>3 DEF Reject, Leave
<1>4. ASSUME NEW w \in Worker, Issue(w)
      PROVE  TypeOK'
  <2> USE <1>4 DEF Issue
  <2>1. reading[w] \in 0 .. TimestampCount - 1 /\ NextSequence(w) \in 0 .. SequenceCount - 1
    <3>1. sequence[w] \in Nat /\ NextSequence(w) < SequenceCount
      BY DEF Accepts
    <3> QED
      BY <3>1 DEF Accepts, NextSequence
  <2>2. [worker |-> w, ms |-> reading[w], seq |-> NextSequence(w)] \in Stamp
    BY <2>1 DEF Stamp
  <2>3. issued' \in Seq(Stamp)
    BY <2>2
  <2>4. /\ last' \in [Worker -> -1 .. TimestampCount - 1]
        /\ sequence' \in [Worker -> 0 .. SequenceCount - 1]
    BY <2>1
  <2>5. /\ holder' \in [Worker -> Thread \cup {Free}]
        /\ reading' \in [Worker -> Time \cup {Unread}]
        /\ UNCHANGED <<clock, floor>>
    BY DEF Leave
  <2> QED
    BY <2>3, <2>4, <2>5
<1>5. ASSUME NEW w \in Worker, Restart(w)
      PROVE  TypeOK'
  BY <1>5 DEF Restart, Leave
<1>6. CASE MoveClock
  BY <1>6 DEF MoveClock
<1>7. CASE UNCHANGED vars
  BY <1>7 DEF vars
<1> QED
  BY <1>1, <1>2, <1>3, <1>4, <1>5, <1>6, <1>7 DEF Next

\* A step that issues nothing and spends no less leaves the history's facts.
LEMMA NothingIssued ==
  ASSUME IInv, UNCHANGED issued,
         \A i \in DOMAIN issued : Spent(issued[i]) => Spent(issued[i])'
  PROVE  (\A i \in DOMAIN issued : Spent(issued[i]))' /\ StampsIncrease'
<1>1. StampsIncrease'
  BY DEF IInv, StampsIncrease
<1>2. \A i \in DOMAIN issued : Spent(issued[i])'
  BY DEF IInv
<1> QED
  BY <1>1, <1>2

LEMMA InvariantStep == IInv /\ [Next]_vars => IInv'
<1> SUFFICES ASSUME IInv, [Next]_vars
             PROVE  IInv'
  OBVIOUS
<1> USE SnowflakeAssumption
<1>0. TypeOK' /\ TypeOK /\ AfterFloor
  BY TypeStep DEF IInv
<1>fields. \A i \in DOMAIN issued :
        issued[i].worker \in Worker /\ issued[i].ms \in Nat /\ issued[i].seq \in Nat
  <2> TAKE i \in DOMAIN issued
  <2>1. issued[i] \in Stamp
    BY <1>0 DEF TypeOK
  <2> QED
    BY <2>1, StampFields DEF Stamp
<1>1. ASSUME NEW w \in Worker, NEW t \in Thread, Acquire(t, w)
      PROVE  IInv'
  <2> USE <1>1 DEF Acquire
  <2>1. AfterFloor'
    BY <1>0 DEF AfterFloor
  <2>2. \A i \in DOMAIN issued : Spent(issued[i]) => Spent(issued[i])'
    BY DEF Spent
  <2> QED
    BY <1>0, <2>1, <2>2, NothingIssued DEF IInv
<1>2. ASSUME NEW w \in Worker, ReadClock(w)
      PROVE  IInv'
  <2> USE <1>2 DEF ReadClock
  <2>1. AfterFloor'
    BY <1>0 DEF AfterFloor, TypeOK
  <2>2. \A i \in DOMAIN issued : Spent(issued[i]) => Spent(issued[i])'
    BY DEF Spent
  <2> QED
    BY <1>0, <2>1, <2>2, NothingIssued DEF IInv
<1>3. ASSUME NEW w \in Worker, Reject(w)
      PROVE  IInv'
  <2> USE <1>3 DEF Reject, Leave
  <2>1. AfterFloor'
    BY <1>0 DEF AfterFloor, TypeOK
  <2>2. \A i \in DOMAIN issued : Spent(issued[i]) => Spent(issued[i])'
    BY DEF Spent
  <2> QED
    BY <1>0, <2>1, <2>2, NothingIssued DEF IInv
<1>4. ASSUME NEW w \in Worker, Issue(w)
      PROVE  IInv'
  <2> DEFINE new == [worker |-> w, ms |-> reading[w], seq |-> NextSequence(w)]
  <2>1. /\ issued' = Append(issued, new)
        /\ last' = [last EXCEPT ![w] = reading[w]]
        /\ sequence' = [sequence EXCEPT ![w] = NextSequence(w)]
        /\ reading' = [reading EXCEPT ![w] = Unread]
        /\ floor' = floor
    BY <1>4 DEF Issue, Leave
  <2>2. /\ reading[w] # Unread /\ reading[w] \in Nat /\ reading[w] >= last[w]
        /\ reading[w] > floor[w]
        /\ NextSequence(w) = IF reading[w] = last[w] THEN sequence[w] + 1 ELSE 0
        /\ NextSequence(w) \in Nat
    BY <1>0, <1>4 DEF Issue, Accepts, NextSequence, AfterFloor, TypeOK
  <2>3. last[w] \in Int /\ sequence[w] \in Nat /\ floor[w] \in Int
    BY <1>0 DEF TypeOK
  <2>4. AfterFloor'
    BY <1>0, <2>1, <2>2 DEF AfterFloor, TypeOK
  <2>5. ASSUME NEW i \in DOMAIN issued, issued[i].worker = w
        PROVE  \/ issued[i].ms < new.ms
               \/ issued[i].ms = new.ms /\ issued[i].seq < new.seq
    <3>1. Spent(issued[i])
      BY DEF IInv
    <3> QED
      BY <1>fields, <2>2, <2>3, <2>5, <3>1 DEF Spent
  <2>6. /\ DOMAIN issued = 1 .. Len(issued) /\ Len(issued) \in Nat
        /\ DOMAIN issued' = 1 .. Len(issued) + 1
        /\ \A i \in DOMAIN issued : issued'[i] = issued[i]
        /\ issued'[Len(issued) + 1] = new
    BY <1>0, <2>1 DEF TypeOK
  <2>7. (\A i \in DOMAIN issued : Spent(issued[i]))'
    <3> SUFFICES ASSUME NEW i \in DOMAIN issued'
                 PROVE  Spent(issued[i])'
      OBVIOUS
    <3>1. CASE i = Len(issued) + 1
      <4>1. last'[w] = reading[w] /\ sequence'[w] = NextSequence(w)
        BY <1>0, <2>1 DEF TypeOK
      <4>2. issued'[i] = new
        BY <2>6, <3>1
      <4> QED
        BY <2>2, <4>1, <4>2 DEF Spent
    <3>2. CASE i \in DOMAIN issued
      <4>1. Spent(issued[i]) /\ issued'[i] = issued[i]
        BY <2>6, <3>2 DEF IInv
      <4>2. CASE issued[i].worker = w
        <5>1. last'[w] = reading[w] /\ sequence'[w] = NextSequence(w)
          BY <1>0, <2>1 DEF TypeOK
        <5>2. \/ issued[i].ms < reading[w]
              \/ issued[i].ms = reading[w] /\ issued[i].seq < NextSequence(w)
          BY <2>5, <3>2, <4>2
        <5> QED
          BY <1>fields, <2>2, <3>2, <4>1, <4>2, <5>1, <5>2 DEF Spent
      <4>3. CASE issued[i].worker # w
        BY <1>0, <1>fields, <2>1, <3>2, <4>1, <4>3 DEF Spent, TypeOK
      <4> QED
        BY <4>2, <4>3
    <3> QED
      BY <2>6, <3>1, <3>2
  <2>8. StampsIncrease'
    <3> SUFFICES ASSUME NEW i \in DOMAIN issued', NEW j \in DOMAIN issued',
                        i < j, issued'[i].worker = issued'[j].worker
                 PROVE  \/ issued'[i].ms < issued'[j].ms
                        \/ issued'[i].ms = issued'[j].ms /\ issued'[i].seq < issued'[j].seq
      BY DEF StampsIncrease
    <3>1. i \in DOMAIN issued
      BY <2>6
    <3>2. CASE j = Len(issued) + 1
      <4>1. issued'[j] = new /\ issued'[i] = issued[i]
        BY <2>6, <3>1, <3>2
      <4>2. issued[i].worker = w
        BY <4>1
      <4> QED
        BY <2>5, <3>1, <4>1, <4>2
    <3>3. CASE j \in DOMAIN issued
      BY <2>6, <3>1, <3>3 DEF IInv, StampsIncrease
    <3> QED
      BY <2>6, <3>2, <3>3
  <2> QED
    BY <1>0, <2>4, <2>7, <2>8 DEF IInv
<1>5. ASSUME NEW w \in Worker, Restart(w)
      PROVE  IInv'
  <2> USE <1>5 DEF Restart, Leave
  <2>1. AfterFloor'
    BY <1>0 DEF AfterFloor, TypeOK
  <2>2. \A i \in DOMAIN issued : Spent(issued[i]) => Spent(issued[i])'
    <3> SUFFICES ASSUME NEW i \in DOMAIN issued, Spent(issued[i])
                 PROVE  Spent(issued[i])'
      OBVIOUS
    <3>1. issued'[i] = issued[i] /\ issued[i].worker \in Worker /\ issued[i].ms \in Nat
      BY <1>fields
    <3>2. CASE issued[i].worker = w
      <4>1. /\ floor'[w] = IF last[w] > floor[w] THEN last[w] ELSE floor[w]
            /\ last[w] \in Int /\ floor[w] \in Int
        BY <1>0 DEF TypeOK
      <4>2. issued[i].ms <= floor'[w]
        BY <3>1, <3>2, <4>1 DEF Spent
      <4> QED
        BY <3>1, <3>2, <4>2 DEF Spent
    <3>3. CASE issued[i].worker # w
      BY <1>0, <3>1, <3>3 DEF Spent, TypeOK
    <3> QED
      BY <3>2, <3>3
  <2> QED
    BY <1>0, <2>1, <2>2, NothingIssued DEF IInv
<1>6. CASE MoveClock
  <2> USE <1>6 DEF MoveClock
  <2>1. AfterFloor'
    BY <1>0 DEF AfterFloor
  <2>2. \A i \in DOMAIN issued : Spent(issued[i]) => Spent(issued[i])'
    BY DEF Spent
  <2> QED
    BY <1>0, <2>1, <2>2, NothingIssued DEF IInv
<1>7. CASE UNCHANGED vars
  <2> USE <1>7 DEF vars
  <2>1. AfterFloor'
    BY <1>0 DEF AfterFloor
  <2>2. \A i \in DOMAIN issued : Spent(issued[i]) => Spent(issued[i])'
    BY DEF Spent
  <2> QED
    BY <1>0, <2>1, <2>2, NothingIssued DEF IInv
<1> QED
  BY <1>1, <1>2, <1>3, <1>4, <1>5, <1>6, <1>7 DEF Next

LEMMA Invariance == Spec => []IInv
  BY SnowflakeInit, InvariantStep, PTL DEF Spec

\* Whatever the widths and the clock, next_id returns larger and larger
\* identifiers for a worker, over all its lives.
THEOREM IdsStrictlyIncrease == Spec => []StrictIncrease
<1>1. IInv => StrictIncrease
  <2> SUFFICES ASSUME IInv, NEW i \in DOMAIN issued, NEW j \in DOMAIN issued,
                      i < j, issued[i].worker = issued[j].worker
               PROVE  Id(issued[i]) < Id(issued[j])
    BY DEF StrictIncrease
  <2>1. issued[i] \in Stamp /\ issued[j] \in Stamp
    BY DEF IInv, TypeOK
  <2>2. \/ issued[i].ms < issued[j].ms
        \/ issued[i].ms = issued[j].ms /\ issued[i].seq < issued[j].seq
    BY DEF IInv, StampsIncrease
  <2> QED
    BY <2>1, <2>2, IdMonotone
<1> QED
  BY <1>1, Invariance, PTL

\* No identifier is returned twice by any generators of one identifier domain.
THEOREM IdsUnique == Spec => []UniqueIds
<1>1. IInv => UniqueIds
  <2> SUFFICES ASSUME IInv, NEW i \in DOMAIN issued, NEW j \in DOMAIN issued,
                      Id(issued[i]) = Id(issued[j])
               PROVE  i = j
    BY DEF UniqueIds
  <2>1. issued[i] \in Stamp /\ issued[j] \in Stamp /\ i \in Nat /\ j \in Nat
    BY DEF IInv, TypeOK
  <2>2. issued[i] = issued[j]
    BY <2>1, IdInjective
  <2>3. issued[i].ms \in Int /\ issued[i].seq \in Int
    BY <2>1, StampFields
  <2>4. ~(i < j) /\ ~(j < i)
    BY <2>2, <2>3 DEF IInv, StampsIncrease
  <2> QED
    BY <2>1, <2>4
<1> QED
  BY <1>1, Invariance, PTL

\* Between identifiers, and however often next_id raises, a generator's state
\* stands still.
THEOREM FailuresLeaveState == Spec => FailuresKeepState
<1> DEFINE Kept == \A w \in Worker :
      <<last[w], sequence[w]>>' # <<last[w], sequence[w]>> =>
        Len(issued') > Len(issued) \/ last'[w] = -1
<1>1. IInv /\ [Next]_vars => [Kept]_vars
  <2> SUFFICES ASSUME IInv, Next, NEW v \in Worker,
                      <<last[v], sequence[v]>>' # <<last[v], sequence[v]>>
               PROVE  Len(issued') > Len(issued) \/ last'[v] = -1
    OBVIOUS
  <2>0. TypeOK
    BY DEF IInv
  <2>1. ASSUME NEW w \in Worker, NEW t \in Thread, Acquire(t, w)
        PROVE  FALSE
    BY <2>1 DEF Acquire
  <2>2. ASSUME NEW w \in Worker, ReadClock(w) \/ Reject(w)
        PROVE  FALSE
    BY <2>2 DEF ReadClock, Reject
  <2>3. ASSUME NEW w \in Worker, Issue(w)
        PROVE  Len(issued') > Len(issued)
    BY <2>0, <2>3 DEF Issue, TypeOK
  <2>4. ASSUME NEW w \in Worker, Restart(w)
        PROVE  last'[v] = -1
    BY <2>0, <2>4 DEF Restart, TypeOK
  <2>5. CASE MoveClock
    BY <2>5 DEF MoveClock
  <2> QED
    BY <2>1, <2>2, <2>3, <2>4, <2>5 DEF Next
<1> QED
  BY <1>1, Invariance, PTL DEF Spec, FailuresKeepState

============================================================================
