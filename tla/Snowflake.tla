----------------------------- MODULE Snowflake -----------------------------
(***************************************************************************)
(* SnowflakeGenerator: integer identifiers packed from elapsed             *)
(* milliseconds, a worker number and a sequence within the millisecond.    *)
(* One generator per worker is shared by threads under its lock; wall time *)
(* moves as it likes, between the read and the check too; a worker's       *)
(* process may be restarted, which forgets the generator's state.          *)
(***************************************************************************)
EXTENDS Integers, Sequences

CONSTANTS
  Worker,          \* workers with a generator
  Thread,          \* threads that share them
  WorkerCount,     \* 2^10 worker numbers
  SequenceCount,   \* 2^12 identifiers of a worker in a millisecond
  TimestampCount,  \* 2^41 milliseconds from the epoch
  Time,            \* what the clock can show, in milliseconds from the epoch
  Free,            \* nobody holds the lock
  Unread,          \* the holder has not read the clock
  IssueLimit       \* bound: identifiers issued

ASSUME SnowflakeAssumption ==
  /\ WorkerCount \in Nat \ {0} /\ SequenceCount \in Nat \ {0} /\ TimestampCount \in Nat
  /\ Worker \subseteq 0 .. WorkerCount - 1
  /\ Time \subseteq Int /\ Unread \notin Time
  /\ Free \notin Thread
  /\ IssueLimit \in Nat

VARIABLES
  clock,     \* the wall clock
  holder,    \* the thread that has each generator's lock
  reading,   \* the timestamp_ms that thread has read
  last,      \* _last_timestamp_ms
  sequence,  \* _sequence
  floor,     \* the last timestamp a worker used before its latest restart
  issued     \* history: what each identifier was packed from, in order of issue

vars == <<clock, holder, reading, last, sequence, floor, issued>>

Stamp == [worker : Worker, ms : 0 .. TimestampCount - 1, seq : 0 .. SequenceCount - 1]

\* The shifted parts do not overlap, so the code's | is a sum.
Id(r) == (r.ms * WorkerCount + r.worker) * SequenceCount + r.seq

Init ==
  /\ clock \in Time
  /\ holder = [w \in Worker |-> Free]
  /\ reading = [w \in Worker |-> Unread]
  /\ last = [w \in Worker |-> -1]
  /\ sequence = [w \in Worker |-> 0]
  /\ floor = [w \in Worker |-> -1]
  /\ issued = <<>>

----------------------------------------------------------------------------

\* A call of next_id enters the locked region.
Acquire(t, w) ==
  /\ holder[w] = Free
  /\ \A v \in Worker : holder[v] # t
  /\ holder' = [holder EXCEPT ![w] = t]
  /\ UNCHANGED <<clock, reading, last, sequence, floor, issued>>

\* It reads the clock.  A worker reused after a restart may only be called at
\* wall times beyond those it used before: the class leaves that to the
\* application.
ReadClock(w) ==
  /\ holder[w] # Free /\ reading[w] = Unread
  /\ clock > floor[w] \/ clock < 0
  /\ reading' = [reading EXCEPT ![w] = clock]
  /\ UNCHANGED <<clock, holder, last, sequence, floor, issued>>

NextSequence(w) == IF reading[w] = last[w] THEN sequence[w] + 1 ELSE 0

\* A wrong form: a clock set back is taken as it is.
AcceptsRollback(w) ==
  /\ reading[w] \in 0 .. TimestampCount - 1
  /\ NextSequence(w) < SequenceCount

\* The four checks of next_id: not before the epoch, not past the last
\* timestamp, not behind the last identifier, the sequence not exhausted.
Accepts(w) ==
  /\ reading[w] \in 0 .. TimestampCount - 1
  /\ reading[w] >= last[w]
  /\ NextSequence(w) < SequenceCount

Leave(w) ==
  /\ holder' = [holder EXCEPT ![w] = Free]
  /\ reading' = [reading EXCEPT ![w] = Unread]

\* A check fails: the call raises with the state as it was.
Reject(w) ==
  /\ reading[w] # Unread /\ ~Accepts(w)
  /\ Leave(w)
  /\ UNCHANGED <<clock, last, sequence, floor, issued>>

\* The state is advanced and the packed identifier returned.
Issue(w) ==
  /\ Len(issued) < IssueLimit
  /\ reading[w] # Unread /\ Accepts(w)
  /\ Leave(w)
  /\ last' = [last EXCEPT ![w] = reading[w]]
  /\ sequence' = [sequence EXCEPT ![w] = NextSequence(w)]
  /\ issued' = Append(issued, [worker |-> w, ms |-> reading[w], seq |-> NextSequence(w)])
  /\ UNCHANGED <<clock, floor>>

\* Wall time moves, forward or back.
MoveClock ==
  /\ clock' \in Time
  /\ UNCHANGED <<holder, reading, last, sequence, floor, issued>>

\* A worker's process ends, with whatever thread was in its generator, and a
\* new one constructs the generator again.
Restart(w) ==
  /\ last[w] # -1
  /\ floor' = [floor EXCEPT ![w] = IF last[w] > @ THEN last[w] ELSE @]
  /\ last' = [last EXCEPT ![w] = -1]
  /\ sequence' = [sequence EXCEPT ![w] = 0]
  /\ Leave(w)
  /\ UNCHANGED <<clock, issued>>

Next ==
  \/ \E w \in Worker :
       \/ \E t \in Thread : Acquire(t, w)
       \/ ReadClock(w) \/ Reject(w) \/ Issue(w) \/ Restart(w)
  \/ MoveClock

Spec == Init /\ [][Next]_vars

----------------------------------------------------------------------------

TypeOK ==
  /\ clock \in Time
  /\ holder \in [Worker -> Thread \cup {Free}]
  /\ reading \in [Worker -> Time \cup {Unread}]
  /\ last \in [Worker -> -1 .. TimestampCount - 1]
  /\ sequence \in [Worker -> 0 .. SequenceCount - 1]
  /\ floor \in [Worker -> -1 .. TimestampCount - 1]
  /\ issued \in Seq(Stamp)

\* "IDs strictly increase within an instance", and within a worker across
\* restarts, whatever the clock does and whichever threads call.
StrictIncrease ==
  \A i, j \in DOMAIN issued :
    i < j /\ issued[i].worker = issued[j].worker => Id(issued[i]) < Id(issued[j])

\* No identifier is issued twice, by one worker or by two.
UniqueIds ==
  \A i, j \in DOMAIN issued : Id(issued[i]) = Id(issued[j]) => i = j

\* A call that raises leaves the last timestamp and sequence unchanged; only an
\* issued identifier, or the end of the process, moves them.
FailuresKeepState ==
  [][\A w \in Worker : <<last[w], sequence[w]>>' # <<last[w], sequence[w]>> =>
       Len(issued') > Len(issued) \/ last'[w] = -1]_vars

============================================================================
