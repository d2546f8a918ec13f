------------------------- MODULE AdaptivePool_proofs -------------------------
(***************************************************************************)
(* The transfer pool for any number of tasks, of any sizes, and any        *)
(* limits.  PoolInv is inductive: the slots are counted right (without     *)
(* which "running" could fall below zero and the bound mean nothing), a    *)
(* task is queued or active but not both and once, and outside a drain     *)
(* nobody waits who fits.  BytesInv adds what the bytes add up to: a sum   *)
(* over a set is a fold that takes any element first, so it is shown first *)
(* that the total does not depend on which.                                *)
(***************************************************************************)
EXTENDS AdaptivePool, FiniteSetTheorems, TLAPS

(* The fold of a sum: which element goes first, and the table of the totals *)
(* of all subsets of S that it computes.                                     *)
AnyOf(s) == CHOOSE x \in s : TRUE
Totals(f, S) ==
  f = [s \in SUBSET S |-> IF s = {} THEN 0 ELSE Size[AnyOf(s)] + f[s \ {AnyOf(s)}]]

(* Induction over finite sets: of the sets that fail there is a smallest. *)
LEMMA SmallestSet ==
  ASSUME NEW Bad, Bad \subseteq SUBSET Task, Bad # {}
  PROVE  \E S \in Bad : \A R \in Bad : R \subseteq S => R = S
<1>1. IsWellFoundedOn(StrictSubsetOrdering(Task), SUBSET Task)
  BY PoolAssumption, FS_StrictSubsetOrderingWellFounded, FS_FiniteSubsetsOfFinite
<1>2. PICK S \in Bad : \A R \in Bad : ~(<<R, S>> \in StrictSubsetOrdering(Task))
  BY <1>1, WFMin
<1> QED
  BY <1>2 DEF StrictSubsetOrdering

LEMMA OneOf == ASSUME NEW s, s # {} PROVE AnyOf(s) \in s
BY DEF AnyOf

(* One line of the table. *)
LEMMA TotalStep ==
  ASSUME NEW S \in SUBSET Task, NEW f, Totals(f, S)
  PROVE  /\ f[{}] = 0
         /\ \A s \in SUBSET S : s # {} => f[s] = Size[AnyOf(s)] + f[s \ {AnyOf(s)}]
<1>1. \A s \in SUBSET S :
        f[s] = IF s = {} THEN 0 ELSE Size[AnyOf(s)] + f[s \ {AnyOf(s)}]
  BY DEF Totals
<1> QED
  BY <1>1

(* Two tables agree where they overlap: the smallest set they disagree on  *)
(* has a smaller one.                                                       *)
LEMMA TotalsAgree ==
  ASSUME NEW S \in SUBSET Task, NEW R \in SUBSET Task, NEW f, NEW g, Totals(f, S), Totals(g, R),
         NEW s \in SUBSET (S \cap R)
  PROVE  f[s] = g[s]
<1> DEFINE Bad == {r \in SUBSET (S \cap R) : f[r] # g[r]}
<1>1. SUFFICES ASSUME Bad # {} PROVE FALSE
  OBVIOUS
<1>2. Bad \subseteq SUBSET Task
  OBVIOUS
<1>3. PICK r \in Bad : \A q \in Bad : q \subseteq r => q = r
  <2> HIDE DEF Bad
  <2> QED BY <1>1, <1>2, SmallestSet
<1> DEFINE rest == r \ {AnyOf(r)}
<1>4. r \in SUBSET S /\ r \in SUBSET R /\ f[r] # g[r]
  BY <1>3
<1>5. r # {}
  <2> HIDE DEF Bad
  <2> QED BY <1>4, TotalStep
<1>6. f[r] = Size[AnyOf(r)] + f[rest] /\ g[r] = Size[AnyOf(r)] + g[rest]
  <2> HIDE DEF Bad
  <2>1. f[r] = Size[AnyOf(r)] + f[rest]
    BY <1>4, <1>5, TotalStep
  <2>2. g[r] = Size[AnyOf(r)] + g[rest]
    BY <1>4, <1>5, TotalStep
  <2> QED BY <2>1, <2>2
<1>7. rest \subseteq r /\ rest # r
  BY <1>5, OneOf
<1>8. f[rest] = g[rest]
  BY <1>3, <1>7
<1> QED BY <1>4, <1>6, <1>8

(* There is such a table: below the smallest set without one, the lines of *)
(* the smaller tables make up one for it.                                  *)
LEMMA TotalsExist ==
  ASSUME NEW S \in SUBSET Task
  PROVE  \E f : Totals(f, S)
<1> DEFINE Bad == {r \in SUBSET Task : ~\E f : Totals(f, r)}
<1>1. SUFFICES ASSUME Bad # {} PROVE FALSE
  OBVIOUS
<1>2. Bad \subseteq SUBSET Task
  OBVIOUS
<1>3. PICK r \in Bad : \A q \in Bad : q \subseteq r => q = r
  <2> HIDE DEF Bad
  <2> QED BY <1>1, <1>2, SmallestSet
<1>4. r \in SUBSET Task
  BY <1>3
<1> DEFINE g(q) == CHOOSE f : Totals(f, q)
           rest(s) == s \ {AnyOf(s)}
           h == [s \in SUBSET r |-> IF s = {} THEN 0 ELSE Size[AnyOf(s)] + g(rest(s))[rest(s)]]
<1>5. \A q \in SUBSET r : q # r => Totals(g(q), q)
  BY <1>3
<1> HIDE DEF Bad, g
<1>6. ASSUME NEW s \in SUBSET r, s # r PROVE h[s] = g(s)[s]
  <2>1. Totals(g(s), s) /\ s \in SUBSET Task
    BY <1>4, <1>5, <1>6
  <2>2. CASE s = {}
    BY <2>1, <2>2, TotalStep
  <2>3. CASE s # {}
    <3>1. g(s)[s] = Size[AnyOf(s)] + g(s)[rest(s)]
      BY <2>1, <2>3, TotalStep
    <3>2. rest(s) \in SUBSET r /\ rest(s) # r /\ rest(s) \in SUBSET (s \cap rest(s))
      BY <1>6, <2>3, OneOf
    <3>3. g(rest(s))[rest(s)] = g(s)[rest(s)]
      BY <1>4, <1>5, <2>1, <3>2, TotalsAgree
    <3> QED BY <2>3, <3>1, <3>3
  <2> QED BY <2>2, <2>3
<1>7. \A s \in SUBSET r : s # {} => rest(s) \in SUBSET r /\ rest(s) # r
  BY OneOf
<1>8. h = [s \in SUBSET r |-> IF s = {} THEN 0 ELSE Size[AnyOf(s)] + h[rest(s)]]
  BY <1>6, <1>7
<1> QED BY <1>3, <1>8 DEF Totals, Bad

(* The sum AdaptivePool takes is a fold; what it returns is such a total. *)
Bytes(S) == MapThenSumSet(LAMBDA t : Size[t], S)

LEMMA BytesAre ==
  ASSUME NEW S \in SUBSET Task, NEW f, Totals(f, Task)
  PROVE  Bytes(S) = f[S]
<1> DEFINE g == CHOOSE h : Totals(h, S)
<1>1. Totals(g, S)
  BY TotalsExist
<1>2. Bytes(S) = g[S]
  BY DEF Bytes, MapThenSumSet, MapThenFoldSet, Totals, AnyOf
<1> HIDE DEF g
<1> QED BY <1>1, <1>2, TotalsAgree

(* A total grows by what is added, whatever element the fold takes first. *)
LEMMA TotalRemove ==
  ASSUME NEW f, Totals(f, Task), NEW s \in SUBSET Task, NEW t \in s
  PROVE  f[s] = Size[t] + f[s \ {t}] /\ f[s] \in Nat
<1> DEFINE Bad == {r \in SUBSET Task : f[r] \notin Nat \/ \E u \in r : f[r] # Size[u] + f[r \ {u}]}
<1>1. SUFFICES ASSUME Bad # {} PROVE FALSE
  OBVIOUS
<1>2. Bad \subseteq SUBSET Task
  OBVIOUS
<1>3. PICK r \in Bad : \A q \in Bad : q \subseteq r => q = r
  <2> HIDE DEF Bad
  <2> QED BY <1>1, <1>2, SmallestSet
<1> DEFINE x == AnyOf(r)
<1>4. r \in SUBSET Task
  BY <1>3
<1>5. r # {}
  <2>1. f[{}] = 0
    BY TotalStep
  <2>2. f[r] \notin Nat \/ \E u \in r : f[r] # Size[u] + f[r \ {u}]
    BY <1>3
  <2> HIDE DEF Bad
  <2>3. r = {} => f[r] = 0 /\ r = {}
    BY <2>1
  <2>4. r = {} => f[r] \in Nat /\ ~\E u \in r : TRUE
    BY <2>3
  <2> QED BY <2>2, <2>4
<1>6. x \in r /\ f[r] = Size[x] + f[r \ {x}]
  <2> HIDE DEF Bad
  <2> QED BY <1>4, <1>5, OneOf, TotalStep
<1>7. \A q \in SUBSET r : q # r => f[q] \in Nat /\ \A u \in q : f[q] = Size[u] + f[q \ {u}]
  BY <1>3, <1>4
<1> HIDE DEF x
<1>8. f[r] \in Nat
  BY <1>4, <1>6, <1>7, PoolAssumption
<1>9. ASSUME NEW u \in r, u # x PROVE f[r] = Size[u] + f[r \ {u}]
  <2>1. f[r \ {x}] = Size[u] + f[(r \ {x}) \ {u}]
    BY <1>6, <1>7, <1>9
  <2>2. f[r \ {u}] = Size[x] + f[(r \ {u}) \ {x}]
    BY <1>6, <1>7, <1>9
  <2>3. (r \ {x}) \ {u} = (r \ {u}) \ {x}
    OBVIOUS
  <2>4. f[(r \ {u}) \ {x}] \in Nat /\ Size[u] \in Nat /\ Size[x] \in Nat
    BY <1>4, <1>6, <1>7, <1>9, PoolAssumption
  <2> QED BY <1>6, <2>1, <2>2, <2>3, <2>4
<1> QED BY <1>3, <1>6, <1>8, <1>9

(* What an admission adds to the sum, and the end of a task takes away. *)
LEMMA BytesFold ==
  /\ Bytes({}) = 0
  /\ \A S \in SUBSET Task : Bytes(S) \in Nat
  /\ \A S \in SUBSET Task : \A t \in S : Bytes(S) = Size[t] + Bytes(S \ {t})
<1>1. PICK f : Totals(f, Task)
  BY TotalsExist
<1>2. \A S \in SUBSET Task : Bytes(S) = f[S]
  BY <1>1, BytesAre
<1>3. f[{}] = 0
  BY <1>1, TotalStep
<1>4. \A S \in SUBSET Task : \A t \in S : f[S] = Size[t] + f[S \ {t}] /\ f[S] \in Nat
  BY <1>1, TotalRemove
<1>5. \A S \in SUBSET Task : S # {} => f[S] \in Nat
  BY <1>4
<1>6. \A S \in SUBSET Task : \A t \in S : S \ {t} \in SUBSET Task
  OBVIOUS
<1> HIDE DEF Bytes
<1>7. Bytes({}) = 0
  BY <1>2, <1>3
<1>8. ASSUME NEW S \in SUBSET Task PROVE Bytes(S) \in Nat
  <2>1. CASE S = {}
    BY <1>7, <2>1
  <2>2. CASE S # {}
    BY <1>2, <1>5, <2>2
  <2> QED BY <2>1, <2>2
<1> QED BY <1>2, <1>4, <1>6, <1>7, <1>8

-----------------------------------------------------------------------------
SlotsCounted == IsFiniteSet(active) /\ running = Cardinality(active)

PoolInv == /\ PoolTypeOK
           /\ SlotsCounted
           /\ QueueWellFormed
           /\ Bounded
           /\ NoLostWakeup

(* The two ways the set of active tasks changes. *)
LEMMA AdmitCounts ==
  ASSUME PoolTypeOK, SlotsCounted, NEW t \in Task, t \notin active, Admit(t)
  PROVE  /\ SlotsCounted'
         /\ running' = running + 1 /\ running' \in Nat
         /\ inFlightBytes' \in Int /\ active' \in SUBSET Task
<1>1. IsFiniteSet(active') /\ Cardinality(active') = Cardinality(active) + 1
  BY FS_AddElement DEF Admit, SlotsCounted
<1> QED
  BY <1>1, PoolAssumption DEF Admit, SlotsCounted, PoolTypeOK

LEMMA ReleaseCounts ==
  ASSUME PoolTypeOK, SlotsCounted, NEW t \in active, Release(t)
  PROVE  /\ SlotsCounted'
         /\ running' = running - 1 /\ running' \in Nat
         /\ inFlightBytes' \in Int /\ active' \in SUBSET Task
<1>1. IsFiniteSet(active') /\ Cardinality(active') = Cardinality(active) - 1
  BY FS_RemoveElement DEF Release, SlotsCounted
<1>2. Cardinality(active) # 0
  BY FS_EmptySet DEF SlotsCounted
<1>3. t \in Task /\ Size[t] \in Int
  BY PoolAssumption DEF PoolTypeOK
<1> QED
  BY <1>1, <1>2, <1>3 DEF Release, SlotsCounted, PoolTypeOK

(* The two ways the queue changes. *)
LEMMA AppendQueue ==
  ASSUME PoolTypeOK, QueueWellFormed, NEW t \in Task, Idle(t), waiting' = Append(waiting, t),
         UNCHANGED <<active, phase, ending>>
  PROVE  QueueWellFormed' /\ waiting' \in Seq(Task) /\ Queued' = Queued \cup {t}
<1>1. /\ waiting' \in Seq(Task)
      /\ Len(waiting') = Len(waiting) + 1
      /\ \A i \in 1..Len(waiting) : waiting'[i] = waiting[i]
      /\ waiting'[Len(waiting) + 1] = t
      /\ DOMAIN waiting = 1..Len(waiting) /\ DOMAIN waiting' = 1..(Len(waiting) + 1)
      /\ Len(waiting) \in Nat
  BY DEF PoolTypeOK
<1>2. Queued' = Queued \cup {t}
  BY <1>1 DEF Queued
<1>3. \A i, j \in DOMAIN waiting' : waiting'[i] = waiting'[j] => i = j
  <2>1. \A i \in 1..Len(waiting) : waiting'[i] # t
    BY <1>1 DEF Idle, Queued
  <2> QED
    BY <1>1, <2>1 DEF QueueWellFormed
<1> QED
  BY <1>1, <1>2, <1>3 DEF QueueWellFormed, Idle

LEMMA ShiftQueue ==
  ASSUME PoolTypeOK, QueueWellFormed, waiting # <<>>, waiting' = Tail(waiting)
  PROVE  /\ waiting' \in Seq(Task)
         /\ Head(waiting) \in Queued /\ Head(waiting) \in Task
         /\ Queued' = Queued \ {Head(waiting)}
         /\ \A i, j \in DOMAIN waiting' : waiting'[i] = waiting'[j] => i = j
<1>1. /\ waiting' \in Seq(Task)
      /\ Len(waiting) \in Nat /\ Len(waiting) >= 1
      /\ DOMAIN waiting = 1..Len(waiting) /\ DOMAIN waiting' = 1..(Len(waiting) - 1)
      /\ \A i \in 1..(Len(waiting) - 1) : waiting'[i] = waiting[i + 1]
      /\ Head(waiting) = waiting[1] /\ waiting[1] \in Task
  BY DEF PoolTypeOK
<1>2. \A i, j \in 1..Len(waiting) : waiting[i] = waiting[j] => i = j
  BY <1>1 DEF QueueWellFormed
<1>3. Queued' = Queued \ {waiting[1]}
  <2>1. ASSUME NEW t \in Queued' PROVE t \in Queued \ {waiting[1]}
    BY <1>1, <1>2, <2>1 DEF Queued
  <2>2. ASSUME NEW t \in Queued \ {waiting[1]} PROVE t \in Queued'
    <3>1. PICK i \in 1..Len(waiting) : waiting[i] = t /\ i # 1
      BY <1>1, <2>2 DEF Queued
    <3>2. i - 1 \in DOMAIN waiting' /\ waiting'[i - 1] = t
      BY <1>1, <3>1
    <3> QED
      BY <3>2 DEF Queued
  <2> QED
    BY <2>1, <2>2
<1>4. Head(waiting) \in Queued
  BY <1>1 DEF Queued
<1>5. \A i, j \in 1..(Len(waiting) - 1) : waiting'[i] = waiting'[j] => i = j
  BY <1>1, <1>2
<1> QED
  BY <1>1, <1>3, <1>4, <1>5

-----------------------------------------------------------------------------
LEMMA PoolInit == Init => PoolInv
<1> SUFFICES ASSUME Init PROVE PoolInv
  OBVIOUS
<1>1. limit \in MinLimit..MaxLimit
  BY PoolAssumption DEF Init, AtMost, AtLeast
<1>2. SlotsCounted
  BY FS_EmptySet DEF Init, SlotsCounted
<1> QED
  BY <1>1, <1>2, PoolAssumption
  DEF Init, PoolInv, PoolTypeOK, QueueWellFormed, Queued, Bounded, NoLostWakeup, HeadFits

LEMMA RunNowInv ==
  ASSUME PoolInv, NEW t \in Task, RunNow(t) PROVE PoolInv'
<1> USE DEF PoolInv
<1>1. t \notin active /\ Admit(t)
  BY DEF RunNow, Idle
<1>2. /\ SlotsCounted' /\ running' = running + 1 /\ running' \in Nat
      /\ inFlightBytes' \in Int /\ active' \in SUBSET Task
  BY <1>1, AdmitCounts
<1>3. PoolTypeOK'
  BY <1>2 DEF RunNow, PoolTypeOK
<1>4. QueueWellFormed'
  BY DEF RunNow, Admit, QueueWellFormed, Queued
<1>5. Bounded'
  BY <1>2, PoolAssumption DEF RunNow, CanAdmit, Bounded, PoolTypeOK
<1>6. NoLostWakeup'
  BY DEF RunNow, NoLostWakeup, HeadFits
<1> QED
  BY <1>2, <1>3, <1>4, <1>5, <1>6

LEMMA EnqueueInv ==
  ASSUME PoolInv, NEW t \in Task, Enqueue(t) PROVE PoolInv'
<1> USE DEF PoolInv
<1>1. QueueWellFormed' /\ waiting' \in Seq(Task)
  BY AppendQueue DEF Enqueue
<1>2. PoolTypeOK' /\ SlotsCounted' /\ Bounded'
  BY <1>1 DEF Enqueue, PoolTypeOK, SlotsCounted, Bounded
<1>3. NoLostWakeup'
  <2>1. CASE waiting = <<>>
    BY <2>1 DEF Enqueue, NoLostWakeup, HeadFits, CanAdmit, PoolTypeOK
  <2>2. CASE waiting # <<>>
    <3>1. Head(waiting') = Head(waiting)
      BY <2>2 DEF Enqueue, PoolTypeOK
    <3> QED
      BY <2>2, <3>1 DEF Enqueue, NoLostWakeup, HeadFits, CanAdmit
  <2> QED
    BY <2>1, <2>2
<1> QED
  BY <1>1, <1>2, <1>3

(* The end of a task that releases its slot at once: a failure, a success  *)
(* that does not ramp, or the end of the ramp's drain.                     *)
LEMMA ReleaseInv ==
  ASSUME PoolInv, NEW t \in active, Release(t), successStreak' \in Nat,
         UNCHANGED <<waiting, limit>>
  PROVE  PoolInv'
<1> USE DEF PoolInv
<1>1. /\ SlotsCounted' /\ running' = running - 1 /\ running' \in Nat
      /\ inFlightBytes' \in Int /\ active' \in SUBSET Task
  BY ReleaseCounts
<1>2. PoolTypeOK'
  BY <1>1 DEF Release, PoolTypeOK
<1>3. QueueWellFormed'
  BY DEF Release, QueueWellFormed, Queued
<1>4. Bounded' /\ NoLostWakeup'
  BY <1>1, PoolAssumption DEF Release, Bounded, NoLostWakeup, PoolTypeOK
<1> QED
  BY <1>1, <1>2, <1>3, <1>4

LEMMA SucceedInv ==
  ASSUME PoolInv, NEW t \in Task, Succeed(t) PROVE PoolInv'
<1>1. CASE ~Ramps
  <2>1. successStreak' \in Nat
    BY <1>1, PoolAssumption DEF Succeed, AtMost, PoolInv, PoolTypeOK
  <2> QED
    BY <1>1, <2>1, ReleaseInv DEF Succeed
<1>2. CASE Ramps
  <2> USE DEF PoolInv
  <2>1. limit' \in MinLimit..MaxLimit
    BY <1>2, PoolAssumption DEF Succeed, Ramps, PoolTypeOK
  <2>2. PoolTypeOK' /\ SlotsCounted' /\ Bounded' /\ NoLostWakeup'
    BY <1>2, <2>1 DEF Succeed, PoolTypeOK, SlotsCounted, Bounded, NoLostWakeup
  <2>3. QueueWellFormed'
    BY <1>2 DEF Succeed, QueueWellFormed, Queued
  <2> QED
    BY <2>2, <2>3
<1> QED
  BY <1>1, <1>2

LEMMA FailInv ==
  ASSUME PoolInv, NEW t \in Task, Fail(t) PROVE PoolInv'
BY ReleaseInv DEF Fail

LEMMA DrainOneInv ==
  ASSUME PoolInv, DrainOne PROVE PoolInv'
<1> USE DEF PoolInv
<1> DEFINE head == Head(waiting)
<1>1. waiting # <<>> /\ CanAdmit(head) /\ Admit(head) /\ waiting' = Tail(waiting)
  BY DEF DrainOne, HeadFits
<1>2. /\ waiting' \in Seq(Task)
      /\ head \in Queued /\ head \in Task
      /\ Queued' = Queued \ {head}
      /\ \A i, j \in DOMAIN waiting' : waiting'[i] = waiting'[j] => i = j
  BY <1>1, ShiftQueue
<1> HIDE DEF head
<1>3. head \notin active
  BY <1>2 DEF QueueWellFormed
<1>4. /\ SlotsCounted' /\ running' = running + 1 /\ running' \in Nat
      /\ inFlightBytes' \in Int /\ active' \in SUBSET Task
  BY <1>1, <1>2, <1>3, AdmitCounts
<1>5. PoolTypeOK'
  BY <1>2, <1>4 DEF DrainOne, PoolTypeOK
<1>6. QueueWellFormed'
  BY <1>1, <1>2 DEF DrainOne, Admit, QueueWellFormed
<1>7. Bounded'
  BY <1>1, <1>4, PoolAssumption DEF CanAdmit, Bounded, PoolTypeOK
<1>8. NoLostWakeup'
  BY DEF DrainOne, NoLostWakeup
<1> QED
  BY <1>4, <1>5, <1>6, <1>7, <1>8

LEMMA DrainEndsInv ==
  ASSUME PoolInv, DrainEnds PROVE PoolInv'
<1>1. CASE phase = "ramped"
  <2>1. PICK t \in ending : Release(t)
    BY <1>1 DEF DrainEnds
  <2>2. t \in active /\ successStreak' \in Nat /\ UNCHANGED <<waiting, limit>>
    BY <2>1 DEF DrainEnds, PoolInv, PoolTypeOK, QueueWellFormed
  <2> QED
    BY <2>1, <2>2, ReleaseInv
<1>2. CASE phase = "released"
  <2> USE DEF PoolInv
  <2>1. phase' = "free" /\ ~HeadFits
        /\ UNCHANGED <<running, inFlightBytes, active, ending, waiting, limit, successStreak>>
    BY <1>2 DEF DrainEnds
  <2>2. PoolTypeOK' /\ SlotsCounted' /\ Bounded'
    BY <2>1 DEF PoolTypeOK, SlotsCounted, Bounded
  <2>3. QueueWellFormed'
    BY <1>2, <2>1 DEF QueueWellFormed, Queued
  <2>4. NoLostWakeup'
    BY <2>1 DEF NoLostWakeup, HeadFits, CanAdmit
  <2> QED
    BY <2>2, <2>3, <2>4
<1> QED
  BY <1>1, <1>2 DEF DrainEnds

LEMMA RateLimitInv ==
  ASSUME PoolInv, NoteRateLimit PROVE PoolInv'
<1> USE DEF PoolInv
<1>1. limit' \in MinLimit..MaxLimit /\ limit' <= limit
  BY PoolAssumption DEF NoteRateLimit, AtLeast, PoolTypeOK
<1>2. PoolTypeOK' /\ SlotsCounted' /\ Bounded'
  BY <1>1 DEF NoteRateLimit, PoolTypeOK, SlotsCounted, Bounded
<1>3. QueueWellFormed'
  BY DEF NoteRateLimit, QueueWellFormed, Queued
<1>4. NoLostWakeup'
  BY <1>1, PoolAssumption DEF NoteRateLimit, NoLostWakeup, HeadFits, CanAdmit, PoolTypeOK
<1> QED
  BY <1>2, <1>3, <1>4

LEMMA PoolStep == PoolInv /\ [Next]_poolVars => PoolInv'
<1>1. ASSUME PoolInv, UNCHANGED poolVars PROVE PoolInv'
  BY <1>1 DEF poolVars, PoolInv, PoolTypeOK, SlotsCounted, QueueWellFormed, Queued, Bounded,
              NoLostWakeup, HeadFits, CanAdmit
<1> QED
  BY <1>1, RunNowInv, EnqueueInv, SucceedInv, FailInv, DrainOneInv, DrainEndsInv, RateLimitInv
  DEF Next

(* The inductive invariant of the pool. *)
THEOREM PoolInvariant == Spec => []PoolInv
BY PoolInit, PoolStep, PTL DEF Spec

(* The limit stays between its bounds and the counters keep their types,   *)
(* through ramps and halvings (async-queue.ts AdaptivePool).               *)
THEOREM PoolTypesHold == Spec => []PoolTypeOK
<1>1. PoolInv => PoolTypeOK
  BY DEF PoolInv
<1> QED
  BY <1>1, PoolInvariant, PTL

(* Never more transfers in flight than opts.max, of any number submitted.  *)
THEOREM NeverBeyondMax == Spec => []Bounded
<1>1. PoolInv => Bounded
  BY DEF PoolInv
<1> QED
  BY <1>1, PoolInvariant, PTL

(* No lost wake-up: whoever still waits between two steps does not fit.    *)
THEOREM NobodyForgotten == Spec => []NoLostWakeup
<1>1. PoolInv => NoLostWakeup
  BY DEF PoolInv
<1> QED
  BY <1>1, PoolInvariant, PTL

(* A task waits at most once and never while it runs. *)
THEOREM QueueStaysWellFormed == Spec => []QueueWellFormed
<1>1. PoolInv => QueueWellFormed
  BY DEF PoolInv
<1> QED
  BY <1>1, PoolInvariant, PTL

(* No step wakes a task into a pool that is over its limit. *)
THEOREM PoolShedsLoad == Spec => ShedsLoad
<1>1. ASSUME PoolInv, [Next]_poolVars PROVE [running' > running => running' <= limit']_poolVars
  <2>1. running \in Nat /\ limit \in Nat
    BY <1>1, PoolAssumption DEF PoolInv, PoolTypeOK
  <2>2. CASE (\E t \in Task : RunNow(t)) \/ DrainOne
    BY <2>1, <2>2 DEF RunNow, DrainOne, HeadFits, CanAdmit, Admit
  <2>3. CASE ~((\E t \in Task : RunNow(t)) \/ DrainOne)
    BY <1>1, <2>1, <2>3
    DEF Next, Enqueue, Succeed, Fail, DrainEnds, NoteRateLimit, Release
  <2> QED
    BY <2>2, <2>3
<1> QED
  BY <1>1, PoolInvariant, PTL DEF Spec, ShedsLoad

-----------------------------------------------------------------------------
(* A task beyond the budget can only have been admitted to an empty pool,   *)
(* and leaves one: so the bytes must be known to be those of active.        *)
BytesInv == inFlightBytes = Bytes(active) /\ BudgetRespected

(* The two ways the bytes change. *)
LEMMA AdmitBytes ==
  ASSUME PoolInv, BytesInv, NEW t \in Task, t \notin active, CanAdmit(t), Admit(t)
  PROVE  BytesInv'
<1>1. active' \in SUBSET Task /\ t \in active' /\ active' \ {t} = active
  BY DEF Admit, PoolInv, PoolTypeOK
<1>2. Bytes(active') = Size[t] + Bytes(active)
  BY <1>1, BytesFold
<1>3. Bytes(active) \in Nat /\ Size[t] \in Nat
  BY BytesFold, PoolAssumption DEF PoolInv, PoolTypeOK
<1>4. inFlightBytes' = Bytes(active')
  BY <1>2, <1>3 DEF Admit, BytesInv
<1>5. BudgetRespected'
  <2>1. CASE running = 0
    BY <2>1 DEF Admit, BudgetRespected
  <2>2. CASE running # 0
    BY <1>3, <2>2, PoolAssumption DEF Admit, CanAdmit, BytesInv, BudgetRespected
  <2> QED BY <2>1, <2>2
<1> QED BY <1>4, <1>5 DEF BytesInv

LEMMA ReleaseBytes ==
  ASSUME PoolInv, BytesInv, NEW t \in active, Release(t)
  PROVE  BytesInv'
<1>1. active \in SUBSET Task /\ active' = active \ {t} /\ active' \in SUBSET Task
  BY DEF Release, PoolInv, PoolTypeOK
<1>2. Bytes(active) = Size[t] + Bytes(active')
  BY <1>1, BytesFold
<1>3. Bytes(active') \in Nat /\ Size[t] \in Nat
  BY <1>1, BytesFold, PoolAssumption
<1>4. inFlightBytes' = Bytes(active')
  BY <1>2, <1>3 DEF Release, BytesInv
<1>5. BudgetRespected'
  <2> SUFFICES ASSUME inFlightBytes' > ByteBudget PROVE FALSE
    BY DEF BudgetRespected
  <2>1. running = 1
    BY <1>2, <1>3, <1>4, PoolAssumption DEF BytesInv, BudgetRespected
  <2>2. IsFiniteSet(active') /\ Cardinality(active') = 0
    BY <2>1, ReleaseCounts DEF PoolInv, SlotsCounted
  <2>3. active' = {}
    BY <2>2, FS_EmptySet
  <2> QED
    BY <1>4, <2>3, BytesFold, PoolAssumption
<1> QED BY <1>4, <1>5 DEF BytesInv

LEMMA BytesStep == PoolInv /\ BytesInv /\ [Next]_poolVars => BytesInv'
<1> SUFFICES ASSUME PoolInv, BytesInv, [Next]_poolVars PROVE BytesInv'
  OBVIOUS
<1>1. ASSUME UNCHANGED <<running, inFlightBytes, active>> PROVE BytesInv'
  BY <1>1 DEF BytesInv, BudgetRespected
<1>2. ASSUME NEW t \in Task, RunNow(t) PROVE BytesInv'
  BY <1>2, AdmitBytes DEF RunNow, Idle
<1>3. CASE DrainOne
  <2>1. Head(waiting) \in Task /\ Head(waiting) \notin active
    BY <1>3, ShiftQueue DEF DrainOne, HeadFits, PoolInv, QueueWellFormed
  <2> QED
    BY <1>3, <2>1, AdmitBytes DEF DrainOne, HeadFits
<1>4. ASSUME NEW t \in Task, Succeed(t) \/ Fail(t) PROVE BytesInv'
  BY <1>1, <1>4, ReleaseBytes DEF Succeed, Fail
<1>5. CASE DrainEnds
  BY <1>1, <1>5, ReleaseBytes DEF DrainEnds, PoolInv, QueueWellFormed
<1>6. ASSUME (\E t \in Task : Enqueue(t)) \/ NoteRateLimit \/ UNCHANGED poolVars
      PROVE  BytesInv'
  BY <1>1, <1>6 DEF Enqueue, NoteRateLimit, poolVars
<1> QED
  BY <1>2, <1>3, <1>4, <1>5, <1>6 DEF Next

LEMMA BytesInit == Init => BytesInv
BY BytesFold, PoolAssumption DEF Init, BytesInv, BudgetRespected

(* No slot and no byte leaks: the counters are what the tasks in flight add *)
(* up to, through ramps, failures and 429s (the finally block of run).      *)
THEOREM NothingLeaks == Spec => []Accounting
<1>1. PoolInv /\ BytesInv => Accounting
  BY DEF PoolInv, SlotsCounted, BytesInv, Bytes, Accounting
<1> QED
  BY <1>1, BytesInit, BytesStep, PoolInvariant, PTL DEF Spec

(* The bytes in flight stay within the budget, but for a task that is       *)
(* larger than all of it and runs alone (canAdmit).                         *)
THEOREM BudgetHolds == Spec => []BudgetRespected
<1>1. BytesInv => BudgetRespected
  BY DEF BytesInv
<1> QED
  BY <1>1, BytesInit, BytesStep, PoolInvariant, PTL DEF Spec
=============================================================================
