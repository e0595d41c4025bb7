----------------------------- MODULE IpcProofs ------------------------------
(***************************************************************************)
(* Proofs about the two ways tasks wait for each other. sem_wait() and     *)
(* sem_post() keep the count within its bounds and lose no post but the    *)
(* ones of killed tasks. A pipe keeps its bytes in order and its reference *)
(* counts exact, and parks no task without a reason. Both for any number   *)
(* of tasks and any sizes.                                                 *)
(***************************************************************************)
EXTENDS Semaphore, Pipe, FiniteSetTheorems, TLAPS

(* The semaphore *)

\* A set of tasks has a natural number of elements, one more with a new one and
\* one less without one of them.
LEMMA TaskCount ==
  ASSUME NEW S \in SUBSET Callers
  PROVE  /\ Cardinality(S) \in Nat
         /\ \A t \in Callers \ S : Cardinality(S \cup {t}) = Cardinality(S) + 1
         /\ \A t \in S : Cardinality(S \ {t}) = Cardinality(S) - 1
<1>1. IsFiniteSet(S)
  BY SemaphoreAssumption, FS_Subset, Zenon
<1> QED
  BY <1>1, FS_CardinalityType, FS_AddElement, FS_RemoveElement, Zenon

\* The semaphore starts with the invariant ...
LEMMA InitSemInv == SemaphoreInit => SemInv
<1> SUFFICES ASSUME SemaphoreInit PROVE SemInv
  BY Zenon
<1>1. SemaphoreTypeOK
  <2>1. 0 \in 0 .. MaxValue
    BY SemaphoreAssumption
  <2> QED
    BY <2>1, Zenon DEF SemaphoreInit, SemaphoreTypeOK
<1>2. PostsHaveTakers
  BY Zenon DEF SemaphoreInit, PostsHaveTakers
<1> QED
  BY <1>1, <1>2, Zenon DEF SemaphoreInit, SemInv

\* ... a task that ends stays counted ...
LEMMA EndsSemInv ==
  ASSUME SemInv, NEW t \in Callers, t \notin blocked, EndsTask(t)
  PROVE  SemInv'
<1>1. SemaphoreTypeOK'
  BY Zenon DEF SemInv, SemaphoreTypeOK, EndsTask
<1>2. PostsHaveTakers'
  <2>1. CASE t \in woken \cup gone
    <3>1. woken' \cup gone' = woken \cup gone
      BY <2>1, Zenon DEF EndsTask
    <3> QED
      BY <3>1, Zenon DEF SemInv, PostsHaveTakers, EndsTask
  <2>2. CASE t \notin woken \cup gone
    <3>1. woken' \cup gone' = (woken \cup gone) \cup {t}
      BY <2>2, Zenon DEF EndsTask
    <3>2. /\ Cardinality(woken' \cup gone') = Cardinality(woken \cup gone) + 1
          /\ Cardinality(woken \cup gone) \in Nat
      BY <2>2, <3>1, TaskCount, Zenon DEF SemInv, SemaphoreTypeOK
    <3>3. value' = value /\ blocked' = blocked /\ value \in Int
      BY DEF EndsTask, SemInv, SemaphoreTypeOK
    <3> QED
      BY <3>2, <3>3 DEF SemInv, PostsHaveTakers
  <2> QED
    BY <2>1, <2>2, Zenon
<1> QED
  BY <1>1, <1>2, Zenon DEF SemInv, EndsTask

\* ... the wait loop keeps it, entered by a newcomer or by a woken task ...
LEMMA TakeOrBlockSemInv ==
  ASSUME SemInv, NEW t \in Callers, used, t \notin blocked, t \notin gone, TakeOrBlock(t)
  PROVE  SemInv'
<1>1. CASE value > 0
  <2>1. /\ value' = value - 1 /\ woken' = woken \ {t}
        /\ UNCHANGED <<used, blocked, flagged, gone>>
    BY <1>1, Zenon DEF TakeOrBlock
  <2>2. SemaphoreTypeOK'
    BY <2>1, <1>1, SemaphoreAssumption DEF SemInv, SemaphoreTypeOK
  <2>3. PostsHaveTakers'
    <3>1. blocked # {} => value <= Cardinality(woken \cup gone)
      BY Zenon DEF SemInv, PostsHaveTakers
    <3>2. woken' \cup gone' = (woken \cup gone) \ {t}
      BY <2>1, Zenon
    <3>3. woken \cup gone \in SUBSET Callers /\ value \in Int
      BY DEF SemInv, SemaphoreTypeOK
    <3>4. Cardinality(woken \cup gone) \in Nat
      BY <3>3, TaskCount, Zenon
    <3>5. Cardinality(woken' \cup gone') >= Cardinality(woken \cup gone) - 1
      <4>1. CASE t \in woken \cup gone
        <5>1. Cardinality(woken' \cup gone') = Cardinality(woken \cup gone) - 1
          BY <4>1, <3>2, <3>3, TaskCount, Zenon
        <5> QED
          BY <5>1, <3>4
      <4>2. CASE t \notin woken \cup gone
        <5>1. woken' \cup gone' = woken \cup gone
          BY <4>2, <3>2, Zenon
        <5>2. Cardinality(woken' \cup gone') = Cardinality(woken \cup gone)
          BY <5>1, Zenon
        <5> QED
          BY <5>2, <3>4
      <4> QED
        BY <4>1, <4>2, Zenon
    <3>6. Cardinality(woken' \cup gone') \in Nat
      BY <2>2, TaskCount, Zenon DEF SemaphoreTypeOK
    <3> QED
      BY <2>1, <3>1, <3>3, <3>4, <3>5, <3>6 DEF PostsHaveTakers
  <2> QED
    BY <2>1, <2>2, <2>3, Zenon DEF SemInv
<1>2. CASE ~(value > 0) /\ t \in flagged
  BY <1>2, EndsSemInv, Zenon DEF TakeOrBlock
<1>3. CASE ~(value > 0) /\ t \notin flagged
  <2>1. /\ blocked' = blocked \cup {t} /\ woken' = woken \ {t}
        /\ UNCHANGED <<used, value, flagged, gone>>
    BY <1>3, Zenon DEF TakeOrBlock
  <2>2. SemaphoreTypeOK' /\ value' = 0
    BY <2>1, <1>3, SemaphoreAssumption DEF SemInv, SemaphoreTypeOK
  <2>3. PostsHaveTakers'
    <3>1. Cardinality(woken' \cup gone') \in Nat
      BY <2>2, TaskCount, Zenon DEF SemaphoreTypeOK
    <3> QED
      BY <2>2, <3>1 DEF PostsHaveTakers
  <2> QED
    BY <2>1, <2>2, <2>3, Zenon DEF SemInv
<1> QED
  BY <1>1, <1>2, <1>3, Zenon

\* ... waking a blocked task adds to the ones that are counted ...
LEMMA WakeCount ==
  ASSUME SemInv, NEW u \in blocked, woken' = woken \cup {u}, gone' = gone
  PROVE  /\ Cardinality(woken' \cup gone') = Cardinality(woken \cup gone) + 1
         /\ Cardinality(woken \cup gone) \in Nat
<1>1. woken' \cup gone' = (woken \cup gone) \cup {u}
  BY Zenon
<1>2. u \in Callers \ (woken \cup gone) /\ woken \cup gone \in SUBSET Callers
  BY Zenon DEF SemInv, SemaphoreTypeOK
<1> QED
  BY <1>1, <1>2, TaskCount

\* ... by a signal, by a kill or by another wake that changes nothing else ...
LEMMA WakeSemInv ==
  ASSUME SemInv, NEW t \in blocked, blocked' = blocked \ {t}, woken' = woken \cup {t},
         flagged' \in SUBSET Callers, UNCHANGED <<used, value, gone>>
  PROVE  SemInv'
<1>1. /\ Cardinality(woken' \cup gone') = Cardinality(woken \cup gone) + 1
      /\ Cardinality(woken \cup gone) \in Nat
  BY WakeCount, Zenon
<1>2. SemaphoreTypeOK'
  BY Zenon DEF SemInv, SemaphoreTypeOK
<1>3. PostsHaveTakers'
  <2>1. value \in Int
    BY DEF SemInv, SemaphoreTypeOK
  <2> QED
    BY <1>1, <2>1 DEF SemInv, PostsHaveTakers
<1> QED
  BY <1>2, <1>3, Zenon DEF SemInv

\* ... and so does every step.
LEMMA NextSemInv == SemInv /\ [SemaphoreNext]_semaphoreVars => SemInv'
<1> SUFFICES ASSUME SemInv, [SemaphoreNext]_semaphoreVars PROVE SemInv'
  BY Zenon
<1>1. ASSUME NEW t \in Callers, NEW v \in 0 .. MaxValue, SemInit(t, v) PROVE SemInv'
  BY <1>1, Zenon DEF SemInit, SemInv, SemaphoreTypeOK, PostsHaveTakers
<1>2. ASSUME NEW t \in Callers, SemWait(t) PROVE SemInv'
  BY <1>2, TakeOrBlockSemInv, Zenon DEF SemWait, RunningTask
<1>3. ASSUME NEW t \in Callers, ResumeWait(t) PROVE SemInv'
  <2>1. t \in woken /\ t \notin blocked /\ t \notin gone /\ used
    BY <1>3, Zenon DEF ResumeWait, SemInv
  <2>2. CASE t \in flagged
    BY <1>3, <2>1, <2>2, EndsSemInv, Zenon DEF ResumeWait
  <2>3. CASE t \notin flagged
    BY <1>3, <2>1, <2>3, TakeOrBlockSemInv, Zenon DEF ResumeWait
  <2> QED
    BY <2>2, <2>3, Zenon
<1>4. ASSUME NEW t \in Callers, SemPost(t) PROVE SemInv'
  <2>1. used /\ value < MaxValue /\ value' = value + 1 /\ UNCHANGED <<used, flagged, gone>>
    BY <1>4, Zenon DEF SemPost
  <2>2. CASE blocked = {}
    BY <2>1, <2>2, <1>4, SemaphoreAssumption DEF SemPost, SemInv, SemaphoreTypeOK, PostsHaveTakers
  <2>3. CASE blocked # {}
    <3>1. PICK u \in blocked : blocked' = blocked \ {u} /\ woken' = woken \cup {u}
      BY <1>4, <2>3, Zenon DEF SemPost
    <3>2. /\ Cardinality(woken' \cup gone') = Cardinality(woken \cup gone) + 1
          /\ Cardinality(woken \cup gone) \in Nat
      BY <2>1, <3>1, WakeCount, Zenon
    <3>3. SemaphoreTypeOK'
      BY <2>1, <3>1, SemaphoreAssumption DEF SemInv, SemaphoreTypeOK
    <3>4. PostsHaveTakers'
      <4>1. value \in Int
        BY DEF SemInv, SemaphoreTypeOK
      <4> QED
        BY <2>1, <2>3, <3>2, <4>1 DEF SemInv, PostsHaveTakers
    <3> QED
      BY <2>1, <3>1, <3>3, <3>4, Zenon DEF SemInv
  <2> QED
    BY <2>2, <2>3, Zenon
<1>5. ASSUME NEW t \in Callers, KillTask(t) PROVE SemInv'
  <2>1. flagged' \in SUBSET Callers /\ UNCHANGED <<used, value, gone>>
    BY <1>5, Zenon DEF KillTask, SemInv, SemaphoreTypeOK
  <2>2. CASE t \in blocked
    <3>1. blocked' = blocked \ {t} /\ woken' = woken \cup {t}
      BY <1>5, <2>2, Zenon DEF KillTask
    <3> QED
      BY <2>1, <2>2, <3>1, WakeSemInv, Zenon
  <2>3. CASE t \notin blocked
    <3>1. UNCHANGED <<blocked, woken>>
      BY <1>5, <2>3, Zenon DEF KillTask
    <3> QED
      BY <2>1, <3>1, Zenon DEF SemInv, SemaphoreTypeOK, PostsHaveTakers
  <2> QED
    BY <2>2, <2>3, Zenon
<1>6. ASSUME NEW t \in Callers, TickEnds(t) PROVE SemInv'
  BY <1>6, EndsSemInv, Zenon DEF TickEnds, RunningTask
<1>7. ASSUME NEW t \in Callers, SignalTask(t) PROVE SemInv'
  <2>1. flagged' \in SUBSET Callers
    BY <1>7, Zenon DEF SignalTask, SemInv, SemaphoreTypeOK
  <2> QED
    BY <1>7, <2>1, WakeSemInv, Zenon DEF SignalTask
<1>8. ASSUME UNCHANGED semaphoreVars PROVE SemInv'
  BY <1>8, Zenon DEF semaphoreVars, SemInv, SemaphoreTypeOK, PostsHaveTakers
<1> QED
  BY <1>1, <1>2, <1>3, <1>4, <1>5, <1>6, <1>7, <1>8, Zenon DEF SemaphoreNext

\* sem_wait() and sem_post(): the count stays within its bounds, and while a task is
\* blocked every unit of the count has a woken task on its way to it or lost it to a
\* kill.
THEOREM PostsNotLost == SemaphoreSpec => [](SemaphoreTypeOK /\ PostsHaveTakers)
<1>1. SemaphoreInit => SemInv
  BY InitSemInv, Zenon
<1>2. SemInv /\ [SemaphoreNext]_semaphoreVars => SemInv'
  BY NextSemInv, Zenon
<1>3. SemInv => SemaphoreTypeOK /\ PostsHaveTakers
  BY Zenon DEF SemInv
<1> QED
  BY <1>1, <1>2, <1>3, PTL DEF SemaphoreSpec

\* Without kills nobody ever dies ...
LEMMA NobodyDies == ~Kills => (SemaphoreSpec => [](flagged = {} /\ gone = {}))
<1> DEFINE Alive == flagged = {} /\ gone = {}
<1> SUFFICES ASSUME ~Kills PROVE SemaphoreSpec => []Alive
  BY Zenon
<1>1. SemaphoreInit => Alive
  BY Zenon DEF SemaphoreInit
<1>2. Alive /\ [SemaphoreNext]_semaphoreVars => Alive'
  BY Zenon DEF SemaphoreNext, semaphoreVars, SemInit, SemWait, TakeOrBlock, ResumeWait, SemPost, SignalTask, KillTask, TickEnds
<1> QED
  BY <1>1, <1>2, PTL DEF SemaphoreSpec

\* ... and no post is lost: every unit of the count has a woken task coming for it.
THEOREM NoPostLostWithoutKills ==
  ~Kills => (SemaphoreSpec => [](blocked # {} => value <= Cardinality(woken)))
<1> SUFFICES ASSUME ~Kills PROVE SemaphoreSpec => [](blocked # {} => value <= Cardinality(woken))
  BY Zenon
<1>1. SemaphoreSpec => [](flagged = {} /\ gone = {})
  BY NobodyDies, Zenon
<1>2. gone = {} /\ PostsHaveTakers => (blocked # {} => value <= Cardinality(woken))
  <2>1. woken \cup {} = woken
    BY Zenon
  <2> QED
    BY <2>1, Zenon DEF PostsHaveTakers
<1> QED
  BY <1>1, <1>2, PostsNotLost, PTL

-----------------------------------------------------------------------------
(* The pipe *)

\* The smaller of two numbers.
LEMMA MinOfTwo ==
  ASSUME NEW a \in Nat, NEW b \in Nat
  PROVE  Min({a, b}) = IF a <= b THEN a ELSE b
<1>1. CASE a <= b
  BY <1>1 DEF Min
<1>2. CASE ~(a <= b)
  BY <1>2 DEF Min
<1> QED BY <1>1, <1>2, Zenon

\* The constants are numbers.
LEMMA Sizes ==
  ASSUME PipeAssumption
  PROVE  Cap \in Nat \ {0} /\ MaxLen \in Nat \ {0} /\ MaxFds \in Nat \ {0} /\ M \in Nat \ {0} /\ M = Cap + 1
BY DEF PipeAssumption, M

\* A ring of C places with c bytes from place r on, the first one being number o, of which n
\* are read, and to which n are written.
Reads(C, r, c, o, n) == C \in Nat \ {0} /\ r \in 0 .. C - 1 /\ c \in 0 .. C /\ o \in 0 .. C /\ n \in 0 .. c
Writes(C, r, c, o, n) == C \in Nat \ {0} /\ r \in 0 .. C - 1 /\ c \in 0 .. C /\ o \in 0 .. C /\ n \in 0 .. C - c
WritesAt(C, r, c, o, n, w) == Writes(C, r, c, o, n) /\ w = (r + c) % C

\* Reading n of the c bytes behind r leaves the rest in order.
LEMMA GetOrder ==
  ASSUME NEW C, NEW r, NEW c, NEW o, NEW n, Reads(C, r, c, o, n)
  PROVE  \A k \in 0 .. c - n - 1 :
           /\ (((r + n) % C) + k) % C = (r + (k + n)) % C
           /\ (((o + n) % (C + 1)) + k) % (C + 1) = (o + (k + n)) % (C + 1)
<1> SUFFICES ASSUME NEW k \in 0 .. c - n - 1
             PROVE  /\ (((r + n) % C) + k) % C = (r + (k + n)) % C
                    /\ (((o + n) % (C + 1)) + k) % (C + 1) = (o + (k + n)) % (C + 1)
  BY Zenon
<1> USE DEF Reads
<1>1. (r + n) % C = IF r + n < C THEN r + n ELSE r + n - C
  OBVIOUS
<1>2. (o + n) % (C + 1) = IF o + n < C + 1 THEN o + n ELSE o + n - (C + 1)
  OBVIOUS
<1>3. (r + (k + n)) % C = IF r + (k + n) < C THEN r + (k + n) ELSE r + (k + n) - C
  OBVIOUS
<1>4. (o + (k + n)) % (C + 1) = IF o + (k + n) < C + 1 THEN o + (k + n) ELSE o + (k + n) - (C + 1)
  OBVIOUS
<1> DEFINE p == (r + n) % C
           q == (o + n) % (C + 1)
<1>5. p \in 0 .. C - 1 /\ q \in 0 .. C
  BY <1>1, <1>2
<1>6. (p + k) % C = IF p + k < C THEN p + k ELSE p + k - C
  BY <1>5
<1>7. (q + k) % (C + 1) = IF q + k < C + 1 THEN q + k ELSE q + k - (C + 1)
  BY <1>5
<1> QED BY <1>1, <1>2, <1>3, <1>4, <1>6, <1>7

\* The ends of the ring after a read.
LEMMA GetEnds ==
  ASSUME NEW C, NEW r, NEW c, NEW o, NEW n, Reads(C, r, c, o, n)
  PROVE  /\ (((r + n) % C) + (c - n)) % C = (r + c) % C /\ (r + n) % C \in 0 .. C - 1
         /\ (((o + n) % (C + 1)) + (c - n)) % (C + 1) = (o + c) % (C + 1) /\ (o + n) % (C + 1) \in 0 .. C
<1> USE DEF Reads
<1>1. (r + n) % C = IF r + n < C THEN r + n ELSE r + n - C
  OBVIOUS
<1>2. (o + n) % (C + 1) = IF o + n < C + 1 THEN o + n ELSE o + n - (C + 1)
  OBVIOUS
<1>3. (r + c) % C = IF r + c < C THEN r + c ELSE r + c - C
  OBVIOUS
<1>4. (o + c) % (C + 1) = IF o + c < C + 1 THEN o + c ELSE o + c - (C + 1)
  OBVIOUS
<1> DEFINE p == (r + n) % C
           q == (o + n) % (C + 1)
<1>5. p \in 0 .. C - 1 /\ q \in 0 .. C
  BY <1>1, <1>2
<1>6. (p + (c - n)) % C = IF p + (c - n) < C THEN p + (c - n) ELSE p + (c - n) - C
  BY <1>5
<1>7. (q + (c - n)) % (C + 1) = IF q + (c - n) < C + 1 THEN q + (c - n) ELSE q + (c - n) - (C + 1)
  BY <1>5
<1> QED BY <1>1, <1>2, <1>3, <1>4, <1>5, <1>6, <1>7

\* Writing n bytes behind the c that are there: the place of byte k is n or more behind w when
\* it is an old one, and k - c behind w when it is new.
LEMMA PutPlace ==
  ASSUME NEW C, NEW r, NEW c, NEW o, NEW n, NEW w, WritesAt(C, r, c, o, n, w)
  PROVE  \A k \in 0 .. c + n - 1 :
           /\ (r + k) % C \in 0 .. C - 1
           /\ k < c => ~((((r + k) % C) - w) % C < n)
           /\ k >= c => (((r + k) % C) - w) % C = k - c
<1> SUFFICES ASSUME NEW k \in 0 .. c + n - 1
             PROVE  /\ (r + k) % C \in 0 .. C - 1
                    /\ k < c => ~((((r + k) % C) - w) % C < n)
                    /\ k >= c => (((r + k) % C) - w) % C = k - c
  BY Zenon
<1> USE DEF Writes, WritesAt
<1>1. w = IF r + c < C THEN r + c ELSE r + c - C
  OBVIOUS
<1>2. (r + k) % C = IF r + k < C THEN r + k ELSE r + k - C
  OBVIOUS
<1> DEFINE p == (r + k) % C
<1>3. p \in 0 .. C - 1
  BY <1>2
<1>4. (p - w) % C = IF p - w < 0 THEN p - w + C ELSE IF p - w < C THEN p - w ELSE p - w - C
  BY <1>3
<1> QED BY <1>1, <1>2, <1>3, <1>4

\* The number of a new byte, and the ends of the ring after a write.
LEMMA PutEnds ==
  ASSUME NEW C, NEW r, NEW c, NEW o, NEW n, Writes(C, r, c, o, n)
  PROVE  /\ \A k \in c .. c + n - 1 : (((o + c) % (C + 1)) + (k - c)) % (C + 1) = (o + k) % (C + 1)
         /\ (((o + c) % (C + 1)) + n) % (C + 1) = (o + (c + n)) % (C + 1)
         /\ (((r + c) % C) + n) % C = (r + (c + n)) % C
         /\ (o + (c + n)) % (C + 1) \in 0 .. C /\ (r + (c + n)) % C \in 0 .. C - 1
<1> USE DEF Writes
<1> DEFINE p == (r + c) % C
           q == (o + c) % (C + 1)
<1>1. p = IF r + c < C THEN r + c ELSE r + c - C
  OBVIOUS
<1>2. q = IF o + c < C + 1 THEN o + c ELSE o + c - (C + 1)
  OBVIOUS
<1>3. p \in 0 .. C - 1 /\ q \in 0 .. C
  BY <1>1, <1>2
<1>4. ASSUME NEW k \in c .. c + n - 1 PROVE (q + (k - c)) % (C + 1) = (o + k) % (C + 1)
  <2>1. (o + k) % (C + 1) = IF o + k < C + 1 THEN o + k ELSE o + k - (C + 1)
    OBVIOUS
  <2>2. (q + (k - c)) % (C + 1) = IF q + (k - c) < C + 1 THEN q + (k - c) ELSE q + (k - c) - (C + 1)
    BY <1>3
  <2> QED BY <1>2, <2>1, <2>2
<1>5. (o + (c + n)) % (C + 1) = IF o + (c + n) < C + 1 THEN o + (c + n) ELSE o + (c + n) - (C + 1)
  OBVIOUS
<1>6. (q + n) % (C + 1) = IF q + n < C + 1 THEN q + n ELSE q + n - (C + 1)
  BY <1>3
<1>7. (r + (c + n)) % C = IF r + (c + n) < C THEN r + (c + n) ELSE r + (c + n) - C
  OBVIOUS
<1>8. (p + n) % C = IF p + n < C THEN p + n ELSE p + n - C
  BY <1>3
<1> QED BY <1>1, <1>2, <1>3, <1>4, <1>5, <1>6, <1>7, <1>8

\* The ring is well formed and in order.
RingSound ==
  /\ InOrder /\ count \in 0 .. Cap
  /\ buf \in [0 .. Cap - 1 -> 0 .. M - 1] /\ read_pos \in 0 .. Cap - 1
  /\ write_pos \in 0 .. Cap - 1 /\ sent \in 0 .. M - 1 /\ rcvd \in 0 .. M - 1

\* A read keeps the ring.
LEMMA GetKeeps ==
  ASSUME PipeAssumption, TypeOK, InOrder, NEW n \in 0 .. count, Get(n)
  PROVE  RingSound' /\ count' = count - n
<1> USE DEF RingSound
<1>1. /\ buf \in [0 .. Cap - 1 -> 0 .. M - 1] /\ read_pos \in 0 .. Cap - 1 /\ write_pos \in 0 .. Cap - 1
      /\ count \in 0 .. Cap /\ sent \in 0 .. Cap /\ rcvd \in 0 .. Cap /\ Cap \in Nat \ {0} /\ M = Cap + 1
      /\ n \in 0 .. count
  BY Sizes, SMTT(30) DEF TypeOK
<1>a. Reads(Cap, read_pos, count, rcvd, n)
  BY <1>1, Zenon DEF Reads
<1>2. /\ read_pos' = (read_pos + n) % Cap /\ count' = count - n /\ rcvd' = (rcvd + n) % (Cap + 1)
      /\ buf' = buf /\ write_pos' = write_pos /\ sent' = sent
  BY <1>1, Zenon DEF Get
<1>0. /\ (((read_pos + n) % Cap) + (count - n)) % Cap = (read_pos + count) % Cap
      /\ (read_pos + n) % Cap \in 0 .. Cap - 1
      /\ (((rcvd + n) % (Cap + 1)) + (count - n)) % (Cap + 1) = (rcvd + count) % (Cap + 1)
      /\ (rcvd + n) % (Cap + 1) \in 0 .. Cap
  BY <1>a, GetEnds
<1>3. /\ (read_pos' + (count - n)) % Cap = (read_pos + count) % Cap /\ read_pos' \in 0 .. Cap - 1
      /\ (rcvd' + (count - n)) % (Cap + 1) = (rcvd + count) % (Cap + 1) /\ rcvd' \in 0 .. Cap
  BY ONLY <1>0, <1>2, Zenon
<1>4. /\ (rcvd + count) % (Cap + 1) = sent /\ write_pos = (read_pos + count) % Cap
      /\ \A k \in 0 .. count - 1 : buf[(read_pos + k) % Cap] = (rcvd + k) % (Cap + 1)
  BY <1>1, Zenon DEF InOrder
<1>b. \A k \in 0 .. count - n - 1 :
        /\ (((read_pos + n) % Cap) + k) % Cap = (read_pos + (k + n)) % Cap
        /\ (((rcvd + n) % (Cap + 1)) + k) % (Cap + 1) = (rcvd + (k + n)) % (Cap + 1)
  BY <1>a, GetOrder
<1>5. ASSUME NEW k \in 0 .. count - n - 1
      PROVE  buf[(read_pos' + k) % Cap] = (rcvd' + k) % (Cap + 1)
  <2>1. /\ (read_pos' + k) % Cap = (read_pos + (k + n)) % Cap
        /\ (rcvd' + k) % (Cap + 1) = (rcvd + (k + n)) % (Cap + 1)
    BY <1>2, <1>b, Zenon
  <2>2. k + n \in 0 .. count - 1
    BY <1>1
  <2> QED BY <1>4, <2>1, <2>2, Zenon
<1>6. InOrder'
  BY <1>1, <1>2, <1>3, <1>4, <1>5, Zenon DEF InOrder
<1>7. count' \in 0 .. Cap
  BY <1>1, <1>2
<1>8. buf' \in [0 .. Cap - 1 -> 0 .. M - 1] /\ write_pos' \in 0 .. Cap - 1
  BY ONLY <1>1, <1>2, Zenon
<1>9. sent' \in 0 .. M - 1 /\ rcvd' \in 0 .. M - 1
  BY ONLY <1>1, <1>2, <1>3
<1> QED BY ONLY <1>2, <1>3, <1>6, <1>7, <1>8, <1>9, Zenon

\* A write keeps the ring.
LEMMA PutKeeps ==
  ASSUME PipeAssumption, TypeOK, InOrder, NEW n \in 0 .. Cap - count, NEW len, Put(n, len)
  PROVE  RingSound' /\ count' = count + n
<1> USE DEF RingSound
<1>1. /\ buf \in [0 .. Cap - 1 -> 0 .. Cap] /\ read_pos \in 0 .. Cap - 1 /\ write_pos \in 0 .. Cap - 1
      /\ count \in 0 .. Cap /\ sent \in 0 .. Cap /\ rcvd \in 0 .. Cap /\ Cap \in Nat \ {0} /\ M = Cap + 1
      /\ n \in 0 .. Cap - count
  BY Sizes, SMTT(30) DEF TypeOK
<1>a. Writes(Cap, read_pos, count, rcvd, n)
  BY <1>1, Zenon DEF Writes
<1>2. /\ write_pos' = (write_pos + n) % Cap /\ count' = count + n /\ sent' = (sent + n) % (Cap + 1)
      /\ buf' = Stored(n) /\ read_pos' = read_pos /\ rcvd' = rcvd
  BY <1>1, Zenon DEF Put
<1>3. /\ (rcvd + count) % (Cap + 1) = sent /\ write_pos = (read_pos + count) % Cap
      /\ \A k \in 0 .. count - 1 : buf[(read_pos + k) % Cap] = (rcvd + k) % (Cap + 1)
  BY <1>1, Zenon DEF InOrder
<1>0. /\ \A k \in count .. count + n - 1 :
            (((rcvd + count) % (Cap + 1)) + (k - count)) % (Cap + 1) = (rcvd + k) % (Cap + 1)
      /\ (((rcvd + count) % (Cap + 1)) + n) % (Cap + 1) = (rcvd + (count + n)) % (Cap + 1)
      /\ (((read_pos + count) % Cap) + n) % Cap = (read_pos + (count + n)) % Cap
      /\ (rcvd + (count + n)) % (Cap + 1) \in 0 .. Cap /\ (read_pos + (count + n)) % Cap \in 0 .. Cap - 1
  BY <1>1, <1>a, PutEnds, Zenon
<1>4. /\ \A k \in count .. count + n - 1 : (sent + (k - count)) % (Cap + 1) = (rcvd + k) % (Cap + 1)
      /\ sent' = (rcvd + (count + n)) % (Cap + 1) /\ write_pos' = (read_pos + (count + n)) % Cap
      /\ sent' \in 0 .. Cap /\ write_pos' \in 0 .. Cap - 1
  BY ONLY <1>0, <1>2, <1>3, Zenon
<1>5. ASSUME NEW p \in 0 .. Cap - 1
      PROVE  buf'[p] = LET d == (p - write_pos) % Cap IN IF d < n THEN (sent + d) % (Cap + 1) ELSE buf[p]
  BY <1>1, <1>2, Zenon DEF Stored
<1>c. WritesAt(Cap, read_pos, count, rcvd, n, write_pos)
  BY <1>a, <1>3, Zenon DEF WritesAt
<1>b. \A k \in 0 .. count + n - 1 :
        /\ (read_pos + k) % Cap \in 0 .. Cap - 1
        /\ k < count => ~((((read_pos + k) % Cap) - write_pos) % Cap < n)
        /\ k >= count => (((read_pos + k) % Cap) - write_pos) % Cap = k - count
  BY <1>c, PutPlace
<1>6. ASSUME NEW k \in 0 .. count + n - 1
      PROVE  buf'[(read_pos + k) % Cap] = (rcvd + k) % (Cap + 1)
  <2> DEFINE p == (read_pos + k) % Cap
             d == (p - write_pos) % Cap
  <2>1. /\ p \in 0 .. Cap - 1
        /\ k < count => ~(d < n)
        /\ k >= count => d = k - count
    BY <1>b, Zenon
  <2> HIDE DEF p, d
  <2>2. buf'[p] = IF d < n THEN (sent + d) % (Cap + 1) ELSE buf[p]
    BY <1>5, <2>1, Zenon DEF d
  <2>5. CASE k < count
    <3>1. k \in 0 .. count - 1
      BY <1>1, <2>5
    <3>2. buf[p] = (rcvd + k) % (Cap + 1)
      BY <1>3, <3>1, Zenon DEF p
    <3>3. buf'[p] = buf[p]
      BY ONLY <2>1, <2>2, <2>5, Zenon
    <3> QED BY <3>2, <3>3, Zenon DEF p
  <2>6. CASE k >= count
    <3>1. k - count < n /\ k \in count .. count + n - 1
      BY <1>1, <2>6
    <3>2. buf'[p] = (sent + (k - count)) % (Cap + 1)
      BY ONLY <2>1, <2>2, <2>6, <3>1, Zenon
    <3> QED BY <1>4, <3>1, <3>2, Zenon DEF p
  <2> QED BY <1>1, <2>5, <2>6
<1>7. buf' \in [0 .. Cap - 1 -> 0 .. Cap]
  <2>1. \A k \in 0 .. Cap - 1 : (sent + ((k - write_pos) % Cap)) % (Cap + 1) \in 0 .. Cap
    BY <1>1
  <2> QED BY <1>1, <1>2, <2>1, Zenon DEF Stored
<1>8. InOrder'
  <2>1. ASSUME NEW k \in 0 .. count' - 1 PROVE buf'[(read_pos' + k) % Cap] = (rcvd' + k) % M
    <3>1. k \in 0 .. count + n - 1
      BY ONLY <1>1, <1>2, <2>1
    <3>2. buf'[(read_pos + k) % Cap] = (rcvd + k) % (Cap + 1)
      BY <1>6, <3>1, Zenon
    <3> QED BY ONLY <1>1, <1>2, <3>2, Zenon
  <2>2. (rcvd' + count') % M = sent' /\ write_pos' = (read_pos' + count') % Cap
    BY <1>1, <1>2, <1>4, Zenon
  <2> QED BY <2>1, <2>2, Zenon DEF InOrder
<1> QED BY <1>1, <1>2, <1>4, <1>7, <1>8

-----------------------------------------------------------------------------
(* The reference counts *)

\* The calls on end e.
CallsOn(f, e) == {t \in Tasks : f[t].end = e}

\* The calls on an end are finitely many.
LEMMA CallsCount ==
  ASSUME PipeAssumption, NEW f, NEW e
  PROVE  /\ IsFiniteSet(CallsOn(f, e)) /\ Cardinality(CallsOn(f, e)) \in Nat
         /\ (Cardinality(CallsOn(f, e)) = 0) <=> (\A u \in Tasks : f[u].end # e)
<1>1. IsFiniteSet(CallsOn(f, e))
  BY FS_Subset, Zenon DEF PipeAssumption, CallsOn
<1>2. Cardinality(CallsOn(f, e)) \in Nat
  BY <1>1, FS_CardinalityType, Zenon
<1>3. (Cardinality(CallsOn(f, e)) = 0) <=> (\A u \in Tasks : f[u].end # e)
  BY <1>1, FS_EmptySet, Zenon DEF CallsOn
<1> QED BY <1>1, <1>2, <1>3, Zenon

\* What the call of one task becomes counts for the ends it leaves and takes.
LEMMA CallsStep ==
  ASSUME PipeAssumption, NEW t \in Tasks, NEW e, NEW f, NEW g, \A u \in Tasks \ {t} : g[u] = f[u]
  PROVE  Cardinality(CallsOn(g, e)) =
           Cardinality(CallsOn(f, e)) - (IF f[t].end = e THEN 1 ELSE 0) + (IF g[t].end = e THEN 1 ELSE 0)
<1> DEFINE A == CallsOn(f, e)
           B == CallsOn(g, e)
<1>1. /\ IsFiniteSet(A) /\ Cardinality(A) \in Nat
      /\ IsFiniteSet(B) /\ Cardinality(B) \in Nat
  BY CallsCount, Zenon
<1>4. /\ t \in A <=> f[t].end = e
      /\ t \in B <=> g[t].end = e
      /\ A \ {t} = B \ {t}
  BY Zenon DEF CallsOn
<1> HIDE DEF A, B
<1>5. Cardinality(A \ {t}) = IF t \in A THEN Cardinality(A)-1 ELSE Cardinality(A)
  BY <1>1, FS_RemoveElement, Zenon
<1>6. Cardinality(B \ {t}) = IF t \in B THEN Cardinality(B)-1 ELSE Cardinality(B)
  BY <1>1, FS_RemoveElement, Zenon
<1>9. Cardinality(A \ {t}) = Cardinality(B \ {t})
  BY <1>4, Zenon
<1>7. Cardinality(B) = Cardinality(A) - (IF f[t].end = e THEN 1 ELSE 0) + (IF g[t].end = e THEN 1 ELSE 0)
  BY ONLY <1>1, <1>4, <1>5, <1>6, <1>9, SMTT(30)
<1> QED BY <1>7, Zenon DEF A, B

\* Task t's call becomes x, and the counts r are those with what it and the descriptors gain and
\* lose.
Recounted(t, x, r) ==
  /\ op' = [op EXCEPT ![t] = x] /\ fds' \in [Ends -> 0 .. MaxFds] /\ refs' = r /\ freed' \in BOOLEAN
  /\ \A e \in Ends : r[e] = refs[e] + (fds'[e] - fds[e])
                             - (IF op[t].end = e THEN 1 ELSE 0) + (IF x.end = e THEN 1 ELSE 0)
  /\ freed' <=> \A e \in Ends : r[e] = 0

\* Such counts are exact.
LEMMA RefsStep ==
  ASSUME PipeAssumption, PipeInv, NEW t \in Tasks, NEW x \in [end : Ends \cup {"none"}, len : 0 .. MaxLen],
         NEW r \in [Ends -> Nat], Recounted(t, x, r)
  PROVE  RefsExact' /\ op' \in [Tasks -> [end : Ends \cup {"none"}, len : 0 .. MaxLen]]
<1>0. /\ op' = [op EXCEPT ![t] = x] /\ fds' \in [Ends -> 0 .. MaxFds] /\ refs' = r
      /\ \A e \in Ends : r[e] = refs[e] + (fds'[e] - fds[e])
                                - (IF op[t].end = e THEN 1 ELSE 0) + (IF x.end = e THEN 1 ELSE 0)
  BY Zenon DEF Recounted
<1>r. freed' <=> \A e \in Ends : r[e] = 0
  BY Zenon DEF Recounted
<1>1. /\ op \in [Tasks -> [end : Ends \cup {"none"}, len : 0 .. MaxLen]]
      /\ fds \in [Ends -> 0 .. MaxFds] /\ refs \in [Ends -> Nat] /\ MaxFds \in Nat
      /\ \A e \in Ends : refs[e] = fds[e] + Cardinality(CallsOn(op, e))
  BY Sizes, Zenon DEF PipeInv, RingExact, TypeOK, RefsExact, CallsOn
<1>2. PICK g \in [Tasks -> [end : Ends \cup {"none"}, len : 0 .. MaxLen]] : g = [op EXCEPT ![t] = x]
  BY <1>1, Zenon
<1>3. op' = g
  BY <1>0, <1>2, Zenon
<1>4. ASSUME NEW e \in Ends
      PROVE  /\ r[e] = fds'[e] + Cardinality(CallsOn(g, e))
             /\ (r[e] = 0) <=> (fds'[e] = 0 /\ \A u \in Tasks : g[u].end # e)
  <2>1. /\ Cardinality(CallsOn(op, e)) \in Nat
        /\ Cardinality(CallsOn(g, e)) =
             Cardinality(CallsOn(op, e)) - (IF op[t].end = e THEN 1 ELSE 0) + (IF x.end = e THEN 1 ELSE 0)
    <3>1. g[t] = x /\ \A u \in Tasks \ {t} : g[u] = op[u]
      BY <1>1, <1>2, Zenon
    <3>2. Cardinality(CallsOn(g, e)) =
             Cardinality(CallsOn(op, e)) - (IF op[t].end = e THEN 1 ELSE 0) + (IF g[t].end = e THEN 1 ELSE 0)
      BY <3>1, CallsStep
    <3>3. Cardinality(CallsOn(op, e)) \in Nat
      BY CallsCount, Zenon
    <3> QED BY ONLY <3>1, <3>2, <3>3, Zenon
  <2>2. /\ Cardinality(CallsOn(g, e)) \in Nat
        /\ (Cardinality(CallsOn(g, e)) = 0) <=> (\A u \in Tasks : g[u].end # e)
    BY CallsCount, Zenon
  <2>3. r[e] = refs[e] + (fds'[e] - fds[e]) - (IF op[t].end = e THEN 1 ELSE 0) + (IF x.end = e THEN 1 ELSE 0)
    BY <1>0, Zenon
  <2>4. refs[e] = fds[e] + Cardinality(CallsOn(op, e)) /\ fds[e] \in Nat /\ fds'[e] \in Nat
    BY <1>0, <1>1, SMTT(30)
  <2>5. r[e] = fds'[e] + Cardinality(CallsOn(g, e))
    BY ONLY <2>1, <2>2, <2>3, <2>4
  <2> QED BY ONLY <2>2, <2>4, <2>5
<1>5. \A e \in Ends : refs'[e] = fds'[e] + Cardinality({u \in Tasks : op'[u].end = e})
  BY <1>0, <1>3, <1>4 DEF CallsOn
<1>6. freed' <=> \A e \in Ends : fds'[e] = 0 /\ \A u \in Tasks : op'[u].end # e
  BY ONLY <1>3, <1>4, <1>r, Zenon
<1> QED BY <1>3, <1>5, <1>6, Zenon DEF RefsExact

\* What dropping a reference amounts to.
Closed(end, n, W) ==
  /\ refs' \in [Ends -> Nat] /\ refs'[end] = n - 1 /\ (\A e \in Ends \ {end} : refs'[e] = refs[e])
  /\ freed' \in BOOLEAN /\ (freed' <=> (freed \/ \A e \in Ends : refs'[e] = 0))
  /\ chan' \in [Tasks -> {"none", "data", "space"}]
  /\ \A u \in Tasks :
       /\ chan'[u] = chan[u] \/ chan'[u] = "none"
       /\ chan[u] \in W => chan'[u] = "none"
       /\ n = 1 /\ end = "read" => chan'[u] # "space"
       /\ n = 1 /\ end = "write" => chan'[u] # "data"

\* The last reference of an end wakes the other side.
LEMMA CloseStep ==
  ASSUME PipeAssumption, PipeInv, NEW end \in Ends, NEW n \in Nat \ {0}, NEW W \in SUBSET {"data", "space"},
         Close(end, n, W)
  PROVE  Closed(end, n, W)
<1>1. /\ refs \in [Ends -> Nat] /\ freed \in BOOLEAN /\ chan \in [Tasks -> {"none", "data", "space"}]
  BY Zenon DEF PipeInv, RingExact, TypeOK
<1>2. /\ refs' = [refs EXCEPT ![end] = n - 1]
      /\ chan' = Woken(W \cup CloseWakes(end, n - 1))
      /\ freed' = (freed \/ FreeIfDone([refs EXCEPT ![end] = n - 1]))
  BY Zenon DEF Close
<1>3. refs' \in [Ends -> Nat] /\ refs'[end] = n - 1 /\ (\A e \in Ends \ {end} : refs'[e] = refs[e])
  BY <1>1, <1>2
<1>4. freed' \in BOOLEAN /\ (freed' <=> (freed \/ FreeIfDone(refs')))
  BY <1>1, <1>2, Zenon
<1>5. (freed' <=> (freed \/ \A e \in Ends : refs'[e] = 0))
  BY <1>4, Zenon DEF FreeIfDone
<1>6. /\ chan' \in [Tasks -> {"none", "data", "space"}]
      /\ \A u \in Tasks : chan'[u] = IF chan[u] \in W \cup CloseWakes(end, n - 1) THEN "none" ELSE chan[u]
  BY <1>1, <1>2, Zenon DEF Woken
<1>7. n = 1 => CloseWakes(end, n - 1) = IF end = "read" THEN {"space"} ELSE {"data"}
  BY DEF CloseWakes
<1> QED BY <1>3, <1>4, <1>5, <1>6, <1>7, Zenon DEF Ends, Closed

\* Task t's call on an end is over.
CallEnds(t, end, W) ==
  /\ RefsExact' /\ op'[t] = NoOp /\ (\A u \in Tasks \ {t} : op'[u] = op[u])
  /\ freed' \in BOOLEAN /\ refs' \in [Ends -> Nat] /\ fds' \in [Ends -> 0 .. MaxFds]
  /\ op' \in [Tasks -> [end : Ends \cup {"none"}, len : 0 .. MaxLen]]
  /\ chan' \in [Tasks -> {"none", "data", "space"}]
  /\ \A e \in Ends \ {end} : refs'[e] = refs[e]
  /\ \A u \in Tasks :
       /\ chan'[u] = chan[u] \/ chan'[u] = "none"
       /\ chan[u] \in W => chan'[u] = "none"
       /\ refs'[end] = 0 /\ end = "read" => chan'[u] # "space"
       /\ refs'[end] = 0 /\ end = "write" => chan'[u] # "data"

\* A call that returns, or whose task ends, takes its own reference along.
LEMMA LeaveStep ==
  ASSUME PipeAssumption, PipeInv, NEW t \in Tasks, NEW end \in Ends, NEW W \in SUBSET {"data", "space"},
         (op[t] = NoOp /\ fds[end] > 0) \/ op[t].end = end, fds' = fds,
         op' = [op EXCEPT ![t] = NoOp], Close(end, WithOwnRef(t, end), W)
  PROVE  CallEnds(t, end, W)
<1> DEFINE n == WithOwnRef(t, end)
<1>1. /\ op \in [Tasks -> [end : Ends \cup {"none"}, len : 0 .. MaxLen]] /\ freed \in BOOLEAN
      /\ fds \in [Ends -> 0 .. MaxFds] /\ refs \in [Ends -> Nat] /\ MaxFds \in Nat /\ MaxLen \in Nat
      /\ \A e \in Ends : refs[e] = fds[e] + Cardinality(CallsOn(op, e))
      /\ freed <=> \A e \in Ends : fds[e] = 0 /\ \A u \in Tasks : op[u].end # e
  BY Sizes, Zenon DEF PipeInv, RingExact, TypeOK, RefsExact, CallsOn
<1>2. NoOp \in [end : Ends \cup {"none"}, len : 0 .. MaxLen] /\ NoOp.end = "none" /\ "none" \notin Ends
  BY <1>1 DEF NoOp, Ends
<1>3. Cardinality(CallsOn(op, end)) \in Nat /\ (op[t].end = end => Cardinality(CallsOn(op, end)) > 0)
  <2>1. /\ Cardinality(CallsOn(op, end)) \in Nat
        /\ (Cardinality(CallsOn(op, end)) = 0) <=> (\A u \in Tasks : op[u].end # end)
    BY CallsCount, Zenon
  <2> QED BY <2>1
<1>4. n = refs[end] + 1 - (IF op[t].end = end THEN 1 ELSE 0) /\ n \in Nat \ {0} /\ ~freed
  BY <1>1, <1>2, <1>3 DEF WithOwnRef
<1>5. Close(end, n, W)
  BY Zenon
<1> HIDE DEF n
<1>c. Closed(end, n, W)
  BY <1>4, <1>5, CloseStep, Zenon
<1>6. /\ refs' \in [Ends -> Nat] /\ refs'[end] = n - 1 /\ (\A e \in Ends \ {end} : refs'[e] = refs[e])
      /\ freed' \in BOOLEAN /\ (freed' <=> (freed \/ \A e \in Ends : refs'[e] = 0))
      /\ chan' \in [Tasks -> {"none", "data", "space"}]
      /\ \A u \in Tasks :
           /\ chan'[u] = chan[u] \/ chan'[u] = "none"
           /\ chan[u] \in W => chan'[u] = "none"
           /\ n = 1 /\ end = "read" => chan'[u] # "space"
           /\ n = 1 /\ end = "write" => chan'[u] # "data"
  BY <1>c, Zenon DEF Closed
<1>7. \A e \in Ends : refs'[e] = refs[e] + (fds'[e] - fds[e]) - (IF op[t].end = e THEN 1 ELSE 0)
                                 + (IF NoOp.end = e THEN 1 ELSE 0)
  <2>1. \A e \in Ends : fds'[e] - fds[e] = 0 /\ NoOp.end # e /\ refs[e] \in Nat
    BY <1>1, <1>2
  <2>2. \A e \in Ends \ {end} : op[t].end # e
    BY <1>2, Zenon
  <2>3. refs'[end] = refs[end] - (IF op[t].end = end THEN 1 ELSE 0)
    BY <1>1, <1>4, <1>6, SMTT(30)
  <2>4. \A e \in Ends \ {end} : refs'[e] = refs[e]
    BY <1>6, Zenon
  <2> QED BY ONLY <2>1, <2>2, <2>3, <2>4, SMTT(30)
<1>8. PICK r \in [Ends -> Nat] : r = refs'
  BY <1>6, Zenon
<1>9. RefsExact' /\ op' \in [Tasks -> [end : Ends \cup {"none"}, len : 0 .. MaxLen]]
  <2>1. freed' <=> \A e \in Ends : r[e] = 0
    BY <1>4, <1>6, <1>8, Zenon
  <2>2. \A e \in Ends : r[e] = refs[e] + (fds'[e] - fds[e]) - (IF op[t].end = e THEN 1 ELSE 0)
                              + (IF NoOp.end = e THEN 1 ELSE 0)
    BY ONLY <1>7, <1>8, Zenon
  <2>3. fds' \in [Ends -> 0 .. MaxFds] /\ refs' = r /\ freed' \in BOOLEAN
    <3>1. fds' \in [Ends -> 0 .. MaxFds]
      BY <1>1, Zenon
    <3> QED BY <1>6, <1>8, <3>1, Zenon
  <2>4. Recounted(t, NoOp, r)
    BY <2>1, <2>2, <2>3, Zenon DEF Recounted
  <2> QED BY <1>2, <2>4, RefsStep, Zenon
<1>10. op'[t] = NoOp /\ \A u \in Tasks \ {t} : op'[u] = op[u]
  BY <1>1, Zenon
<1>11. refs'[end] = 0 => n = 1
  BY <1>4, <1>6
<1>12. fds' \in [Ends -> 0 .. MaxFds]
  BY <1>1, Zenon
<1>13. \A u \in Tasks :
         /\ chan'[u] = chan[u] \/ chan'[u] = "none"
         /\ chan[u] \in W => chan'[u] = "none"
         /\ refs'[end] = 0 /\ end = "read" => chan'[u] # "space"
         /\ refs'[end] = 0 /\ end = "write" => chan'[u] # "data"
  BY ONLY <1>6, <1>11, Zenon
<1> QED BY ONLY <1>6, <1>9, <1>10, <1>12, <1>13, Zenon DEF CallEnds

\* Task t waits on a channel in a call on an end.
CallBlocks(t, end, channel, W) ==
  /\ RefsExact' /\ op'[t].end = end /\ (\A u \in Tasks \ {t} : op'[u] = op[u])
  /\ freed' \in BOOLEAN /\ refs' \in [Ends -> Nat] /\ fds' \in [Ends -> 0 .. MaxFds]
  /\ op' \in [Tasks -> [end : Ends \cup {"none"}, len : 0 .. MaxLen]]
  /\ chan' \in [Tasks -> {"none", "data", "space"}]
  /\ \A e \in Ends : refs'[e] >= refs[e]
  /\ chan'[t] = channel
  /\ \A u \in Tasks \ {t} :
       /\ chan'[u] = chan[u] \/ chan'[u] = "none"
       /\ chan[u] \in W => chan'[u] = "none"

\* A call that waits holds a reference of its own.
LEMMA BlockStep ==
  ASSUME PipeAssumption, PipeInv, NEW t \in Tasks, NEW end \in Ends, NEW W \in SUBSET {"data", "space"},
         NEW channel \in {"data", "space"}, NEW len \in 0 .. MaxLen,
         (op[t] = NoOp /\ fds[end] > 0) \/ op[t].end = end, fds' = fds, freed' = freed,
         op' = [op EXCEPT ![t] = [end |-> end, len |-> len]],
         refs' = [refs EXCEPT ![end] = WithOwnRef(t, end)],
         chan' = [Woken(W) EXCEPT ![t] = channel]
  PROVE  CallBlocks(t, end, channel, W)
<1>1. /\ op \in [Tasks -> [end : Ends \cup {"none"}, len : 0 .. MaxLen]] /\ freed \in BOOLEAN
      /\ fds \in [Ends -> 0 .. MaxFds] /\ refs \in [Ends -> Nat] /\ MaxFds \in Nat /\ MaxLen \in Nat
      /\ \A e \in Ends : refs[e] = fds[e] + Cardinality(CallsOn(op, e))
      /\ freed <=> \A e \in Ends : fds[e] = 0 /\ \A u \in Tasks : op[u].end # e
      /\ chan \in [Tasks -> {"none", "data", "space"}]
  BY Sizes, Zenon DEF PipeInv, RingExact, TypeOK, RefsExact, CallsOn
<1>2. "none" \notin Ends /\ NoOp.end = "none"
  BY Zenon DEF NoOp, Ends
<1>3. PICK x \in [end : Ends \cup {"none"}, len : 0 .. MaxLen] : x = [end |-> end, len |-> len]
  BY Zenon
<1>4. x.end = end
  BY <1>3, Zenon
<1>w. WithOwnRef(t, end) \in Nat
  BY <1>1 DEF WithOwnRef
<1>5. PICK r \in [Ends -> Nat] : r = [refs EXCEPT ![end] = WithOwnRef(t, end)]
  BY <1>1, <1>w, Zenon
<1>6. r[end] = refs[end] + (IF op[t].end = end THEN 0 ELSE 1) /\ \A e \in Ends \ {end} : r[e] = refs[e]
  BY <1>1, <1>2, <1>5, Zenon DEF WithOwnRef
<1>7. \A e \in Ends : r[e] = refs[e] + (fds'[e] - fds[e]) - (IF op[t].end = e THEN 1 ELSE 0)
                            + (IF x.end = e THEN 1 ELSE 0)
  <2>1. \A e \in Ends : fds'[e] - fds[e] = 0 /\ refs[e] \in Nat
    BY <1>1
  <2>2. \A e \in Ends \ {end} : op[t].end # e /\ x.end # e
    BY <1>2, <1>4, Zenon
  <2> QED BY ONLY <1>4, <1>6, <2>1, <2>2, SMTT(30)
<1>8. ~freed /\ r[end] # 0
  <2>1. Cardinality(CallsOn(op, end)) \in Nat
        /\ ((Cardinality(CallsOn(op, end)) = 0) <=> (\A u \in Tasks : op[u].end # end))
    BY CallsCount, Zenon
  <2>2. refs[end] > 0
    BY <1>1, <2>1
  <2>3. ~freed
    BY <1>1
  <2> QED BY <1>1, <1>6, <2>2, <2>3
<1>9. Recounted(t, x, r)
  <2>1. freed' <=> \A e \in Ends : r[e] = 0
    BY <1>8, Zenon
  <2>2. op' = [op EXCEPT ![t] = x] /\ refs' = r
    BY <1>3, <1>5, Zenon
  <2>3. fds' \in [Ends -> 0 .. MaxFds]
    BY <1>1, Zenon
  <2>4. freed' \in BOOLEAN
    BY <1>1, Zenon
  <2> QED BY <1>7, <2>1, <2>2, <2>3, <2>4, Zenon DEF Recounted
<1>10. RefsExact' /\ op' \in [Tasks -> [end : Ends \cup {"none"}, len : 0 .. MaxLen]]
  BY <1>9, RefsStep, Zenon
<1>11. op'[t].end = end /\ \A u \in Tasks \ {t} : op'[u] = op[u]
  BY <1>1, <1>3, Zenon
<1>12. /\ chan' \in [Tasks -> {"none", "data", "space"}] /\ chan'[t] = channel
       /\ \A u \in Tasks \ {t} : chan'[u] = IF chan[u] \in W THEN "none" ELSE chan[u]
  BY <1>1, Zenon DEF Woken
<1>13. refs' \in [Ends -> Nat] /\ \A e \in Ends : refs'[e] >= refs[e]
  BY <1>1, <1>5, <1>6, SMTT(30)
<1>14. fds' \in [Ends -> 0 .. MaxFds]
  BY <1>1, Zenon
<1>15. freed' \in BOOLEAN
  BY <1>1, Zenon
<1> QED BY ONLY <1>10, <1>11, <1>12, <1>13, <1>14, <1>15, Zenon DEF CallBlocks

-----------------------------------------------------------------------------
(* The actions *)

\* A step that changes the count by reading or writing wakes whom it concerns.
WakesFor(W) ==
  /\ count = 0 => count' = 0 \/ "data" \in W
  /\ count = Cap => count' = Cap \/ "space" \in W

\* The end of a call keeps the invariant.
LEMMA EndKeeps ==
  ASSUME PipeAssumption, PipeInv, NEW t \in Tasks, NEW end \in Ends, NEW W \in SUBSET {"data", "space"},
         CallEnds(t, end, W), chan[t] = "none", RingSound', WakesFor(W),
         kill' \in SUBSET Tasks, dead' \in SUBSET Tasks
  PROVE  PipeInv'
<1>1. TypeOK'
  BY Zenon DEF CallEnds, RingSound, TypeOK
<1>2. RingExact'
  BY <1>1, Zenon DEF CallEnds, RingSound, RingExact
<1>3. \A u \in Tasks : op'[u].end = "none" => op'[u] = NoOp
  BY Zenon DEF CallEnds, PipeInv
<1>4. /\ \A u \in Tasks : chan'[u] \in {"none", chan[u]} /\ (chan[u] \in W => chan'[u] = "none")
      /\ \A u \in Tasks \ {t} : op'[u] = op[u]
      /\ \A e \in Ends : refs'[e] \in Nat
  BY Zenon DEF CallEnds
<1>5. ASSUME NEW u \in Tasks, chan'[u] = "data"
      PROVE  op'[u].end = "read" /\ count' = 0 /\ refs'["write"] > 0
  <2>1. chan[u] = "data" /\ u # t /\ "data" \notin W
    BY <1>4, <1>5, Zenon
  <2>2. op[u].end = "read" /\ count = 0 /\ refs["write"] > 0
    BY <2>1, Zenon DEF PipeInv, BlockedForAReason
  <2>3. op'[u].end = "read" /\ count' = 0
    BY <1>4, <2>1, <2>2, Zenon DEF WakesFor
  <2>4. "write" \in Ends /\ refs'["write"] \in Nat
    BY <1>4, Zenon DEF Ends
  <2>5. refs'["write"] = refs["write"] \/ (end = "write" /\ refs'["write"] # 0)
    BY <1>5, <2>4, Zenon DEF CallEnds
  <2> QED BY <2>2, <2>3, <2>4, <2>5, SMTT(30)
<1>6. ASSUME NEW u \in Tasks, chan'[u] = "space"
      PROVE  op'[u].end = "write" /\ count' = Cap /\ refs'["read"] > 0
  <2>1. chan[u] = "space" /\ u # t /\ "space" \notin W
    BY <1>4, <1>6, Zenon
  <2>2. op[u].end = "write" /\ count = Cap /\ refs["read"] > 0
    BY <2>1, Zenon DEF PipeInv, BlockedForAReason
  <2>3. op'[u].end = "write" /\ count' = Cap
    BY <1>4, <2>1, <2>2, Zenon DEF WakesFor
  <2>4. "read" \in Ends /\ refs'["read"] \in Nat
    BY <1>4, Zenon DEF Ends
  <2>5. refs'["read"] = refs["read"] \/ (end = "read" /\ refs'["read"] # 0)
    BY <1>6, <2>4, Zenon DEF CallEnds
  <2> QED BY <2>2, <2>3, <2>4, <2>5, SMTT(30)
<1> QED BY <1>2, <1>3, <1>5, <1>6, Zenon DEF PipeInv, BlockedForAReason

\* A call that waits keeps the invariant, if it has reason to.
LEMMA BlockKeeps ==
  ASSUME PipeAssumption, PipeInv, NEW t \in Tasks, NEW end \in Ends, NEW W \in SUBSET {"data", "space"},
         NEW channel \in {"data", "space"},
         CallBlocks(t, end, channel, W), RingSound', WakesFor(W),
         kill' \in SUBSET Tasks, dead' \in SUBSET Tasks,
         \/ end = "read" /\ channel = "data" /\ count' = 0 /\ refs["write"] > 0
         \/ end = "write" /\ channel = "space" /\ count' = Cap /\ refs["read"] > 0
  PROVE  PipeInv'
<1>1. TypeOK'
  BY Zenon DEF CallBlocks, RingSound, TypeOK
<1>2. RingExact'
  BY <1>1, Zenon DEF CallBlocks, RingSound, RingExact
<1>3. \A u \in Tasks : op'[u].end = "none" => op'[u] = NoOp
  BY Zenon DEF CallBlocks, PipeInv, Ends
<1>4. /\ \A u \in Tasks \ {t} : chan'[u] \in {"none", chan[u]} /\ (chan[u] \in W => chan'[u] = "none")
      /\ \A u \in Tasks \ {t} : op'[u] = op[u]
      /\ chan'[t] = channel /\ op'[t].end = end
  BY Zenon DEF CallBlocks
<1>5. /\ refs'["read"] >= refs["read"] /\ refs'["write"] >= refs["write"]
      /\ {refs["read"], refs["write"], refs'["read"], refs'["write"]} \subseteq Nat
  BY DEF CallBlocks, Ends, PipeInv, RingExact, TypeOK
<1>6. ASSUME NEW u \in Tasks, chan'[u] = "data"
      PROVE  op'[u].end = "read" /\ count' = 0 /\ refs'["write"] > 0
  <2>1. CASE u = t
    BY <1>4, <1>5, <1>6, <2>1, SMTT(30)
  <2>2. CASE u # t
    <3>1. chan[u] = "data" /\ "data" \notin W /\ op'[u] = op[u]
      BY <1>4, <1>6, <2>2, Zenon
    <3>2. op[u].end = "read" /\ count = 0 /\ refs["write"] > 0
      BY <3>1, Zenon DEF PipeInv, BlockedForAReason
    <3> QED BY <1>5, <3>1, <3>2, SMTT(30) DEF WakesFor
  <2> QED BY <2>1, <2>2, Zenon
<1>7. ASSUME NEW u \in Tasks, chan'[u] = "space"
      PROVE  op'[u].end = "write" /\ count' = Cap /\ refs'["read"] > 0
  <2>1. CASE u = t
    BY <1>4, <1>5, <1>7, <2>1, SMTT(30)
  <2>2. CASE u # t
    <3>1. chan[u] = "space" /\ "space" \notin W /\ op'[u] = op[u]
      BY <1>4, <1>7, <2>2, Zenon
    <3>2. op[u].end = "write" /\ count = Cap /\ refs["read"] > 0
      BY <3>1, Zenon DEF PipeInv, BlockedForAReason
    <3> QED BY <1>5, <3>1, <3>2, SMTT(30) DEF WakesFor
  <2> QED BY <2>1, <2>2, Zenon
<1> QED BY <1>2, <1>3, <1>6, <1>7, Zenon DEF PipeInv, BlockedForAReason

\* A task in no call, or in a call on this end, from which it has been woken.
Enters(t, end) == chan[t] = "none" /\ ((op[t] = NoOp /\ fds[end] > 0) \/ op[t].end = end)

\* What blocking or dying there keeps.
LEMMA BlockKillableKeeps ==
  ASSUME PipeAssumption, PipeInv, NEW t \in Tasks, NEW end \in Ends, NEW W \in SUBSET {"data", "space"},
         NEW channel \in {"none", "data", "space"}, NEW len \in 0 .. MaxLen, Enters(t, end),
         BlockKillable(t, end, len, channel, W), RingSound', WakesFor(W), fds' = fds,
         \/ t \in kill
         \/ end = "read" /\ channel = "data" /\ count' = 0 /\ refs["write"] > 0
         \/ end = "write" /\ channel = "space" /\ count' = Cap /\ refs["read"] > 0
  PROVE  PipeInv'
<1>1. kill \in SUBSET Tasks /\ dead \in SUBSET Tasks
  BY Zenon DEF PipeInv, RingExact, TypeOK
<1>2. CASE t \notin kill
  <2>1. /\ op' = [op EXCEPT ![t] = [end |-> end, len |-> len]]
        /\ refs' = [refs EXCEPT ![end] = WithOwnRef(t, end)]
        /\ chan' = [Woken(W) EXCEPT ![t] = channel]
        /\ freed' = freed /\ kill' = kill /\ dead' = dead
    BY <1>2, Zenon DEF BlockKillable
  <2>2. channel \in {"data", "space"}
    BY <1>2, Zenon
  <2>3. CallBlocks(t, end, channel, W)
    BY <2>1, <2>2, BlockStep, Zenon DEF Enters
  <2>4. kill' \in SUBSET Tasks /\ dead' \in SUBSET Tasks
    BY <1>1, <2>1, Zenon
  <2>5. \/ end = "read" /\ channel = "data" /\ count' = 0 /\ refs["write"] > 0
        \/ end = "write" /\ channel = "space" /\ count' = Cap /\ refs["read"] > 0
    BY <1>2, Zenon
  <2> QED BY <2>2, <2>3, <2>4, <2>5, BlockKeeps, Zenon
<1>3. CASE t \in kill
  <2>1. /\ op' = [op EXCEPT ![t] = NoOp] /\ Close(end, WithOwnRef(t, end), W)
        /\ kill' = kill \ {t} /\ dead' = dead \cup {t}
    BY <1>3, Zenon DEF BlockKillable
  <2>2. CallEnds(t, end, W)
    BY <2>1, LeaveStep, Zenon DEF Enters
  <2>3. kill' \in SUBSET Tasks /\ dead' \in SUBSET Tasks
    BY <1>1, <2>1, Zenon
  <2> QED BY <2>2, <2>3, EndKeeps, Zenon DEF Enters
<1> QED BY <1>2, <1>3, Zenon

\* ... and returning.
LEMMA ReturnKeeps ==
  ASSUME PipeAssumption, PipeInv, NEW t \in Tasks, NEW end \in Ends, NEW W \in SUBSET {"data", "space"},
         Enters(t, end), Return(t, end, W), RingSound', WakesFor(W), fds' = fds
  PROVE  PipeInv'
<1>1. /\ op' = [op EXCEPT ![t] = NoOp] /\ Close(end, WithOwnRef(t, end), W)
      /\ kill' = kill /\ dead' = dead
  BY Zenon DEF Return
<1>2. CallEnds(t, end, W)
  BY <1>1, LeaveStep, Zenon DEF Enters
<1>3. kill' \in SUBSET Tasks /\ dead' \in SUBSET Tasks
  BY <1>1, Zenon DEF PipeInv, RingExact, TypeOK
<1> QED BY <1>2, <1>3, EndKeeps, Zenon DEF Enters

\* An idle ring stays sound.
LEMMA RingIdle ==
  ASSUME PipeInv, UNCHANGED ring
  PROVE  RingSound' /\ count' = count
BY Zenon DEF ring, PipeInv, RingExact, TypeOK, InOrder, RingSound

\* Reading.
LEMMA ReadOnKeeps ==
  ASSUME PipeAssumption, PipeInv, NEW t \in Tasks, NEW len \in 0 .. MaxLen, Enters(t, "read"),
         ReadOn(t, len), fds' = fds
  PROVE  PipeInv'
<1>1. /\ "read" \in Ends /\ Cap \in Nat \ {0} /\ count \in 0 .. Cap /\ MaxLen \in Nat
      /\ refs["write"] \in Nat /\ {} \in SUBSET {"data", "space"} /\ {"space"} \in SUBSET {"data", "space"}
  BY Sizes, Zenon DEF Ends, PipeInv, RingExact, TypeOK
<1>2. CASE count = 0 /\ refs["write"] > 0
  <2>1. BlockKillable(t, "read", len, "data", {}) /\ UNCHANGED ring
    BY <1>2, Zenon DEF ReadOn
  <2>2. RingSound' /\ WakesFor({}) /\ count' = 0
    BY <1>2, <2>1, RingIdle, Zenon DEF WakesFor
  <2> QED BY <1>1, <1>2, <2>1, <2>2, BlockKillableKeeps, Zenon
<1>3. CASE ~(count = 0 /\ refs["write"] > 0)
  <2> DEFINE n == Min({len, count})
  <2>1. n \in 0 .. count /\ n = IF len <= count THEN len ELSE count
    BY <1>1, MinOfTwo, SMTT(30)
  <2>2. Get(n) /\ Return(t, "read", IF n > 0 THEN {"space"} ELSE {})
    BY <1>3, Zenon DEF ReadOn
  <2> HIDE DEF n
  <2>3. RingSound' /\ count' = count - n
    BY <2>1, <2>2, GetKeeps, Zenon DEF PipeInv, RingExact
  <2>4. CASE n > 0
    <3>1. WakesFor({"space"})
      BY <1>1, <2>1, <2>3, <2>4, SMTT(30) DEF WakesFor
    <3>2. Return(t, "read", {"space"})
      BY <2>2, <2>4, Zenon
    <3> QED BY <1>1, <2>3, <3>1, <3>2, ReturnKeeps, Zenon
  <2>5. CASE ~(n > 0)
    <3>1. WakesFor({})
      BY <1>1, <2>1, <2>3, <2>5, SMTT(30) DEF WakesFor
    <3>2. Return(t, "read", {})
      BY <2>2, <2>5, Zenon
    <3> QED BY <1>1, <2>3, <3>1, <3>2, ReturnKeeps, Zenon
  <2> QED BY <2>4, <2>5, Zenon
<1> QED BY <1>2, <1>3, Zenon

\* Writing.
LEMMA WriteOnKeeps ==
  ASSUME PipeAssumption, PipeInv, NEW t \in Tasks, NEW len \in 0 .. MaxLen, Enters(t, "write"),
         WriteOn(t, len), fds' = fds
  PROVE  PipeInv'
<1>1. /\ "write" \in Ends /\ Cap \in Nat \ {0} /\ count \in 0 .. Cap /\ MaxLen \in Nat
      /\ refs["read"] \in Nat /\ {} \in SUBSET {"data", "space"} /\ {"data"} \in SUBSET {"data", "space"}
  BY Sizes, Zenon DEF Ends, PipeInv, RingExact, TypeOK
<1>2. CASE refs["read"] = 0
  <2>1. Return(t, "write", {}) /\ UNCHANGED ring
    BY <1>2, Zenon DEF WriteOn
  <2>2. RingSound' /\ WakesFor({})
    BY <1>2, <2>1, RingIdle, Zenon DEF WakesFor
  <2> QED BY <1>1, <2>1, <2>2, ReturnKeeps, Zenon
<1>3. CASE refs["read"] # 0
  <2> DEFINE n == Room(len)
  <2>0. Cap - count \in Nat
    BY <1>1
  <2>1. n \in 0 .. Cap - count /\ n = IF len <= Cap - count THEN len ELSE Cap - count
    BY <1>1, <2>0, MinOfTwo, SMTT(30) DEF Room
  <2>2. /\ Put(n, len)
        /\ IF len > n THEN BlockKillable(t, "write", len - n, "space", {"data"})
           ELSE Return(t, "write", {"data"})
    BY <1>3, Zenon DEF WriteOn
  <2> HIDE DEF n
  <2>3. RingSound' /\ count' = count + n
    BY <2>1, <2>2, PutKeeps, Zenon DEF PipeInv, RingExact
  <2>4. WakesFor({"data"})
    BY <1>1, <2>1, <2>3, SMTT(30) DEF WakesFor
  <2>5. CASE len > n
    <3>1. BlockKillable(t, "write", len - n, "space", {"data"}) /\ len - n \in 0 .. MaxLen
      BY <1>1, <2>1, <2>2, <2>5, SMTT(30)
    <3>2. count' = Cap /\ refs["read"] > 0
      BY <1>1, <1>3, <2>1, <2>3, <2>5, SMTT(30)
    <3> QED BY <1>1, <2>3, <2>4, <3>1, <3>2, BlockKillableKeeps, Zenon
  <2>6. CASE ~(len > n)
    <3>1. Return(t, "write", {"data"})
      BY <2>2, <2>6, Zenon
    <3> QED BY <1>1, <2>3, <2>4, <3>1, ReturnKeeps, Zenon
  <2> QED BY <2>5, <2>6, Zenon
<1> QED BY <1>2, <1>3, Zenon

\* A task without a call waits on no channel.
LEMMA IdleNotWaiting ==
  ASSUME PipeInv, NEW t \in Tasks, op[t] = NoOp
  PROVE  chan[t] = "none"
BY SMTT(30) DEF PipeInv, RingExact, BlockedForAReason, TypeOK, NoOp

\* A call that goes on.
LEMMA ResumeKeeps ==
  ASSUME PipeAssumption, PipeInv, NEW t \in Tasks, Resume(t)
  PROVE  PipeInv'
<1>1. /\ op[t] \in [end : Ends \cup {"none"}, len : 0 .. MaxLen] /\ op[t] # NoOp
      /\ chan[t] = "none" /\ fds' = fds
  BY Zenon DEF Resume, PipeInv, RingExact, TypeOK
<1>2. op[t].end \in Ends /\ op[t].len \in 0 .. MaxLen /\ Enters(t, op[t].end)
  BY <1>1, Zenon DEF PipeInv, Enters
<1>3. CASE t \in kill /\ BlockKillable(t, op[t].end, 0, "none", {}) /\ UNCHANGED ring
  <2>1. RingSound' /\ WakesFor({})
    BY <1>3, RingIdle, Zenon DEF WakesFor
  <2>2. 0 \in 0 .. MaxLen /\ {} \in SUBSET {"data", "space"}
    BY Sizes, SMTT(30)
  <2> QED BY <1>1, <1>2, <1>3, <2>1, <2>2, BlockKillableKeeps, Zenon
<1>4. CASE op[t].end = "read" /\ ReadOn(t, op[t].len)
  BY <1>1, <1>2, <1>4, ReadOnKeeps, Zenon
<1>5. CASE op[t].end = "write" /\ WriteOn(t, op[t].len)
  BY <1>1, <1>2, <1>5, WriteOnKeeps, Zenon
<1> QED BY <1>3, <1>4, <1>5, Zenon DEF Resume

\* Closing a descriptor.
LEMMA CloseFdKeeps ==
  ASSUME PipeAssumption, PipeInv, NEW t \in Tasks, NEW end \in Ends, CloseFd(t, end)
  PROVE  PipeInv'
<1>1. /\ op \in [Tasks -> [end : Ends \cup {"none"}, len : 0 .. MaxLen]] /\ freed \in BOOLEAN
      /\ fds \in [Ends -> 0 .. MaxFds] /\ refs \in [Ends -> Nat] /\ MaxFds \in Nat /\ MaxLen \in Nat
      /\ \A e \in Ends : refs[e] = fds[e] + Cardinality(CallsOn(op, e))
      /\ freed <=> \A e \in Ends : fds[e] = 0 /\ \A u \in Tasks : op[u].end # e
      /\ kill \in SUBSET Tasks /\ dead \in SUBSET Tasks
  BY Sizes, ZenonT(30) DEF PipeInv, RingExact, TypeOK, RefsExact, CallsOn
<1>2. /\ op[t] = NoOp /\ fds[end] > 0 /\ fds' = [fds EXCEPT ![end] = @ - 1]
      /\ Close(end, refs[end], {}) /\ op' = op /\ kill' = kill /\ dead' = dead /\ UNCHANGED ring
  BY Zenon DEF CloseFd
<1>3. Cardinality(CallsOn(op, end)) \in Nat
  BY CallsCount, Zenon
<1>4. refs[end] \in Nat \ {0} /\ ~freed /\ {} \in SUBSET {"data", "space"}
  BY <1>1, <1>2, <1>3, SMTT(30)
<1>5. Closed(end, refs[end], {})
  BY <1>2, <1>4, CloseStep, Zenon
<1>6. PICK r \in [Ends -> Nat] : r = refs'
  BY <1>5, Zenon DEF Closed
<1>7. NoOp \in [end : Ends \cup {"none"}, len : 0 .. MaxLen] /\ NoOp.end = "none" /\ "none" \notin Ends
  BY <1>1, SMTT(30) DEF NoOp, Ends
<1>8. /\ fds' \in [Ends -> 0 .. MaxFds] /\ fds'[end] = fds[end] - 1
      /\ \A e \in Ends \ {end} : fds'[e] = fds[e]
  BY <1>1, <1>2
<1>9. Recounted(t, NoOp, r)
  <2>1. op' = [op EXCEPT ![t] = NoOp]
    BY <1>1, <1>2, Zenon
  <2>2. freed' \in BOOLEAN /\ (freed' <=> \A e \in Ends : r[e] = 0)
    BY <1>4, <1>5, <1>6, ZenonT(30) DEF Closed
  <2>3. r[end] = refs[end] - 1 /\ \A e \in Ends \ {end} : r[e] = refs[e]
    BY <1>5, <1>6, Zenon DEF Closed
  <2>4. \A e \in Ends : op[t].end # e /\ NoOp.end # e /\ refs[e] \in Nat /\ fds[e] \in Nat
    BY <1>1, <1>2, <1>7, SMTT(30)
  <2>5. \A e \in Ends : r[e] = refs[e] + (fds'[e] - fds[e]) - (IF op[t].end = e THEN 1 ELSE 0)
                              + (IF NoOp.end = e THEN 1 ELSE 0)
    BY ONLY <1>8, <2>3, <2>4, SMTT(30)
  <2> QED BY <1>6, <1>8, <2>1, <2>2, <2>5, ZenonT(30) DEF Recounted
<1>10. RefsExact' /\ op' \in [Tasks -> [end : Ends \cup {"none"}, len : 0 .. MaxLen]]
  BY <1>7, <1>9, RefsStep, Zenon
<1>11. refs'[end] = 0 => refs[end] = 1
  BY <1>4, <1>5 DEF Closed
<1>12. CallEnds(t, end, {})
  BY <1>2, <1>5, <1>8, <1>10, <1>11, ZenonT(30) DEF CallEnds, Closed
<1>13. chan[t] = "none"
  BY <1>2, IdleNotWaiting, Zenon
<1>14. RingSound' /\ WakesFor({}) /\ kill' \in SUBSET Tasks /\ dead' \in SUBSET Tasks
  BY <1>1, <1>2, RingIdle, Zenon DEF WakesFor
<1> QED BY <1>4, <1>12, <1>13, <1>14, EndKeeps, Zenon

\* A descriptor more.
LEMMA RefFdKeeps ==
  ASSUME PipeAssumption, PipeInv, NEW t \in Tasks, NEW end \in Ends, RefFd(t, end)
  PROVE  PipeInv'
<1>1. /\ op \in [Tasks -> [end : Ends \cup {"none"}, len : 0 .. MaxLen]] /\ freed \in BOOLEAN
      /\ fds \in [Ends -> 0 .. MaxFds] /\ refs \in [Ends -> Nat] /\ MaxFds \in Nat /\ MaxLen \in Nat
      /\ freed <=> \A e \in Ends : fds[e] = 0 /\ \A u \in Tasks : op[u].end # e
  BY Sizes, Zenon DEF PipeInv, RingExact, TypeOK, RefsExact
<1>2. /\ op[t] = NoOp /\ fds[end] \in 1 .. MaxFds - 1 /\ fds' = [fds EXCEPT ![end] = @ + 1]
      /\ refs' = [refs EXCEPT ![end] = @ + 1]
      /\ freed' = freed /\ op' = op /\ chan' = chan /\ kill' = kill /\ dead' = dead /\ UNCHANGED ring
  BY Zenon DEF RefFd, Running
<1>3. /\ fds' \in [Ends -> 0 .. MaxFds] /\ fds'[end] = fds[end] + 1
      /\ \A e \in Ends \ {end} : fds'[e] = fds[e]
  BY <1>1, <1>2
<1>4. PICK r \in [Ends -> Nat] : r = refs'
  BY <1>1, <1>2, SMTT(30)
<1>5. r[end] = refs[end] + 1 /\ \A e \in Ends \ {end} : r[e] = refs[e]
  BY <1>1, <1>2, <1>4, Zenon
<1>6. NoOp \in [end : Ends \cup {"none"}, len : 0 .. MaxLen] /\ NoOp.end = "none" /\ "none" \notin Ends
  BY <1>1 DEF NoOp, Ends
<1>7. Recounted(t, NoOp, r)
  <2>1. op' = [op EXCEPT ![t] = NoOp]
    BY <1>1, <1>2, Zenon
  <2>2. ~freed /\ r[end] # 0
    BY <1>1, <1>2, <1>5, SMTT(30)
  <2>3. freed' <=> \A e \in Ends : r[e] = 0
    BY <1>2, <2>2, Zenon
  <2>4. \A e \in Ends : op[t].end # e /\ NoOp.end # e /\ refs[e] \in Nat /\ fds[e] \in Nat
    BY <1>1, <1>2, <1>6, SMTT(30)
  <2>5. \A e \in Ends : r[e] = refs[e] + (fds'[e] - fds[e]) - (IF op[t].end = e THEN 1 ELSE 0)
                              + (IF NoOp.end = e THEN 1 ELSE 0)
    BY ONLY <1>3, <1>5, <2>4
  <2>6. freed' \in BOOLEAN
    BY <1>1, <1>2, Zenon
  <2> QED BY <1>3, <1>4, <2>1, <2>3, <2>5, <2>6, ZenonT(30) DEF Recounted
<1>8. RefsExact' /\ op' \in [Tasks -> [end : Ends \cup {"none"}, len : 0 .. MaxLen]]
  BY <1>6, <1>7, RefsStep, Zenon
<1>9. RingSound' /\ count' = count
  BY <1>2, RingIdle, Zenon
<1>10. TypeOK'
  BY <1>2, <1>3, <1>4, <1>8, <1>9, Zenon DEF RingSound, PipeInv, RingExact, TypeOK
<1>11. refs'["read"] >= refs["read"] /\ refs'["write"] >= refs["write"]
  BY <1>1, <1>4, <1>5 DEF Ends
<1>12. BlockedForAReason'
  BY <1>1, <1>2, <1>4, <1>9, <1>11 DEF PipeInv, BlockedForAReason, Ends
<1> QED BY <1>2, <1>8, <1>9, <1>10, <1>12, Zenon DEF RingSound, PipeInv, RingExact

\* Kills and signals only wake, and the end of a task outside its calls leaves the pipe alone.
LEMMA WakeKeeps ==
  ASSUME PipeAssumption, PipeInv, NEW t \in Tasks, Kill(t) \/ Signal(t) \/ TickKill(t)
  PROVE  PipeInv'
<1>1. /\ freed' = freed /\ UNCHANGED ring /\ refs' = refs /\ fds' = fds /\ op' = op
      /\ chan' \in {chan, [chan EXCEPT ![t] = "none"]}
      /\ kill' \in {kill, kill \cup {t}, kill \ {t}} /\ dead' \in {dead, dead \cup {t}}
  BY Zenon DEF Kill, Signal, TickKill
<1>2. /\ chan' \in [Tasks -> {"none", "data", "space"}]
      /\ \A u \in Tasks : chan'[u] \in {"none", chan[u]}
  BY <1>1, ZenonT(30) DEF PipeInv, RingExact, TypeOK
<1>3. RingSound' /\ count' = count
  BY <1>1, RingIdle, Zenon
<1>4. TypeOK'
  BY <1>1, <1>2, <1>3, Zenon DEF RingSound, PipeInv, RingExact, TypeOK
<1>5. BlockedForAReason' /\ \A u \in Tasks : op'[u].end = "none" => op'[u] = NoOp
  BY <1>1, <1>2, <1>3, Zenon DEF PipeInv, BlockedForAReason
<1>6. RefsExact'
  BY <1>1 DEF PipeInv, RingExact, RefsExact
<1> QED BY <1>3, <1>4, <1>5, <1>6, Zenon DEF RingSound, PipeInv, RingExact

\* The inductive invariant of the pipe holds in every reachable state.
LEMMA PipeInvariant ==
  ASSUME PipeAssumption
  PROVE  Spec => []PipeInv
<1>1. Init => PipeInv
  <2> SUFFICES ASSUME Init PROVE PipeInv
    BY Zenon
  <2>1. Cap \in Nat \ {0} /\ MaxLen \in Nat \ {0} /\ MaxFds \in Nat \ {0} /\ M = Cap + 1
    BY Sizes, Zenon
  <2>2. \A t \in Tasks : op[t] = NoOp /\ op[t].end = "none" /\ chan[t] = "none"
    BY Zenon DEF Init, NoOp
  <2>3. TypeOK
    <3>1. /\ buf \in [0 .. Cap - 1 -> 0 .. M - 1] /\ read_pos \in 0 .. Cap - 1 /\ write_pos \in 0 .. Cap - 1
          /\ count \in 0 .. Cap /\ sent \in 0 .. M - 1 /\ rcvd \in 0 .. M - 1
      BY <2>1, SMTT(30) DEF Init
    <3>2. refs \in [Ends -> Nat] /\ fds \in [Ends -> 0 .. MaxFds]
      BY <2>1, SMTT(30) DEF Init
    <3>3. op \in [Tasks -> [end : Ends \cup {"none"}, len : 0 .. MaxLen]]
      BY <2>1, SMTT(30) DEF Init, NoOp
    <3>4. /\ chan \in [Tasks -> {"none", "data", "space"}] /\ freed = FALSE
          /\ kill \in SUBSET Tasks /\ dead \in SUBSET Tasks
      BY Zenon DEF Init
    <3> QED BY <3>1, <3>2, <3>3, <3>4, ZenonT(30) DEF TypeOK
  <2>4. InOrder
    BY <2>1, SMTT(30) DEF Init, InOrder
  <2>5. ASSUME NEW e \in Ends PROVE refs[e] = fds[e] + Cardinality({t \in Tasks : op[t].end = e})
    <3>1. {t \in Tasks : op[t].end = e} = {}
      BY <2>2, Zenon DEF Ends
    <3>2. Cardinality({}) = 0
      BY FS_EmptySet, Zenon
    <3>3. refs[e] = 1 /\ fds[e] = 1
      BY Zenon DEF Init
    <3> QED BY ONLY <3>1, <3>2, <3>3, SMTT(30)
  <2>6. freed <=> \A e \in Ends : fds[e] = 0 /\ \A t \in Tasks : op[t].end # e
    BY SMTT(30) DEF Init, Ends
  <2> QED BY <2>2, <2>3, <2>4, <2>5, <2>6, Zenon
                DEF PipeInv, RingExact, RefsExact, BlockedForAReason
<1>2. PipeInv /\ [Next]_vars => PipeInv'
  <2> SUFFICES ASSUME PipeInv, [Next]_vars PROVE PipeInv'
    BY Zenon
  <2>1. ASSUME NEW t \in Tasks, NEW len \in 1 .. MaxLen, Read(t, len) PROVE PipeInv'
    <3>1. len \in 0 .. MaxLen /\ ReadOn(t, len) /\ fds' = fds /\ op[t] = NoOp /\ fds["read"] > 0
      BY <2>1, Sizes, SMTT(30) DEF Read, Running
    <3> QED BY <3>1, IdleNotWaiting, ReadOnKeeps, Zenon DEF Enters
  <2>2. ASSUME NEW t \in Tasks, NEW len \in 1 .. MaxLen, Write(t, len) PROVE PipeInv'
    <3>1. len \in 0 .. MaxLen /\ WriteOn(t, len) /\ fds' = fds /\ op[t] = NoOp /\ fds["write"] > 0
      BY <2>2, Sizes, SMTT(30) DEF Write, Running
    <3> QED BY <3>1, IdleNotWaiting, WriteOnKeeps, Zenon DEF Enters
  <2>3. ASSUME NEW t \in Tasks, NEW end \in Ends, CloseFd(t, end) \/ RefFd(t, end) PROVE PipeInv'
    BY <2>3, CloseFdKeeps, RefFdKeeps, Zenon
  <2>4. ASSUME NEW t \in Tasks, Resume(t) PROVE PipeInv'
    BY <2>4, ResumeKeeps, Zenon
  <2>5. ASSUME NEW t \in Tasks, Kill(t) \/ Signal(t) \/ TickKill(t) PROVE PipeInv'
    BY <2>5, WakeKeeps, Zenon
  <2>6. CASE UNCHANGED vars
    BY <2>6, SMTT(30)
       DEF vars, ring, PipeInv, RingExact, TypeOK, InOrder, RefsExact, BlockedForAReason
  <2> QED BY <2>1, <2>2, <2>3, <2>4, <2>5, <2>6, Zenon DEF Next
<1> QED BY <1>1, <1>2, PTL DEF Spec

\* A pipe hands out its bytes in order, each once; its counts are exact and it is freed exactly
\* when nobody can reach it, for any number of tasks and descriptors, any size of the buffer
\* and reads and writes of any length.
THEOREM PipeDelivers ==
  ASSUME PipeAssumption
  PROVE  Spec => []RingExact
<1>1. PipeInv => RingExact
  BY Zenon DEF PipeInv
<1> QED BY <1>1, PipeInvariant, PTL

\* No task sleeps in a pipe without a reason: a reader only while it is empty and has a writer,
\* a writer only while it is full and has a reader.
THEOREM PipeWaitersWoken ==
  ASSUME PipeAssumption
  PROVE  Spec => []BlockedForAReason
<1>1. PipeInv => BlockedForAReason
  BY Zenon DEF PipeInv
<1> QED BY <1>1, PipeInvariant, PTL
=============================================================================
