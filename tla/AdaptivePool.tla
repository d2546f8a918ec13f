---------------------------- MODULE AdaptivePool ----------------------------
(***************************************************************************)
(* The transfer pool (src/src/queue/async-queue.ts AdaptivePool): a limit  *)
(* that grows by one after a streak of successes and halves on a 429, a    *)
(* byte budget, and a FIFO of tasks that wait for both.                    *)
(*                                                                         *)
(* The code between two awaits runs alone, so the end of a task is a short *)
(* sequence of steps (the variable "phase") that nothing interrupts: the   *)
(* ramp and its drain, the release of the slot and its drain.  A task that *)
(* ended may be submitted again, which stands for the next one of its size.*)
(***************************************************************************)
EXTENDS Integers, Sequences, FiniteSetsExt

CONSTANTS Task,        \* what the callers submit
          Size,        \* the bytes of each task
          MinLimit,    \* opts.min
          MaxLimit,    \* opts.max
          Start,       \* opts.start
          RampAfter,   \* opts.rampAfter
          ByteBudget   \* opts.byteBudget

ASSUME PoolAssumption ==
  /\ IsFiniteSet(Task)
  /\ Size \in [Task -> Nat]
  /\ MinLimit \in Nat \ {0} /\ MaxLimit \in Nat /\ MinLimit <= MaxLimit
  /\ Start \in Nat
  /\ RampAfter \in Nat \ {0}
  /\ ByteBudget \in Nat

VARIABLES running,        \* _running
          inFlightBytes,  \* _inFlightBytes
          waiting,        \* the queue of tasks not yet admitted
          limit,          \* _limit
          successStreak,  \* successStreak
          active,         \* the tasks admitted and not ended
          phase,          \* "free", or which drain() is under way
          ending          \* the task that ended, while its ramp is drained

poolVars == <<running, inFlightBytes, waiting, limit, successStreak, active, phase, ending>>

AtMost(a, b)  == IF a <= b THEN a ELSE b
AtLeast(a, b) == IF a >= b THEN a ELSE b

Queued == {waiting[i] : i \in DOMAIN waiting}

PoolTypeOK == /\ running \in Nat
              /\ inFlightBytes \in Int
              /\ waiting \in Seq(Task)
              /\ limit \in MinLimit..MaxLimit
              /\ successStreak \in Nat
              /\ active \in SUBSET Task
              /\ phase \in {"free", "ramped", "released"}
              /\ ending \in SUBSET Task

Init == /\ running = 0
        /\ inFlightBytes = 0
        /\ waiting = <<>>
        /\ limit = AtMost(MaxLimit, AtLeast(MinLimit, Start))
        /\ successStreak = 0
        /\ active = {}
        /\ phase = "free"
        /\ ending = {}

(* Mutants: one dimension of the admission is not looked at. *)
CanAdmitByCount(t) == running < limit
CanAdmitByBytes(t) == running = 0 \/ inFlightBytes + Size[t] <= ByteBudget

CanAdmit(t) == /\ running < limit
               /\ running = 0 \/ inFlightBytes + Size[t] <= ByteBudget

Admit(t) == /\ running' = running + 1
            /\ inFlightBytes' = inFlightBytes + Size[t]
            /\ active' = active \cup {t}

Idle(t) == t \notin active /\ t \notin Queued

(* Mutant: a new arrival overtakes those that wait. *)
RunNowBarging(t) == /\ phase = "free" /\ Idle(t)
                    /\ CanAdmit(t)
                    /\ Admit(t)
                    /\ UNCHANGED <<waiting, limit, successStreak, phase, ending>>

(* run(), up to its await: admitted at once only when nobody waits. *)
RunNow(t) == /\ phase = "free" /\ Idle(t)
             /\ waiting = <<>> /\ CanAdmit(t)
             /\ Admit(t)
             /\ UNCHANGED <<waiting, limit, successStreak, phase, ending>>

Enqueue(t) == /\ phase = "free" /\ Idle(t)
              /\ waiting # <<>> \/ ~CanAdmit(t)
              /\ waiting' = Append(waiting, t)
              /\ UNCHANGED <<running, inFlightBytes, limit, successStreak, active, phase,
                             ending>>

(* Mutant: the bytes are not given back. *)
ReleaseSlotOnly(t) == /\ running' = running - 1
                      /\ active' = active \ {t}
                      /\ phase' = "released"
                      /\ ending' = {}
                      /\ UNCHANGED inFlightBytes

(* The finally block, up to its drain. *)
Release(t) == /\ running' = running - 1
              /\ inFlightBytes' = inFlightBytes - Size[t]
              /\ active' = active \ {t}
              /\ phase' = "released"
              /\ ending' = {}

(* Mutant: the ramp does not stop at the maximum. *)
RampsUnbounded == successStreak + 1 >= RampAfter /\ limit < 2 * MaxLimit

Ramps == successStreak + 1 >= RampAfter /\ limit < MaxLimit

(* The task resolved. *)
Succeed(t) ==
  /\ phase = "free" /\ t \in active
  /\ \/ /\ Ramps
        /\ limit' = limit + 1
        /\ successStreak' = 0
        /\ phase' = "ramped"
        /\ ending' = {t}
        /\ UNCHANGED <<running, inFlightBytes, waiting, active>>
     \/ /\ ~Ramps
        /\ successStreak' = AtMost(successStreak + 1, RampAfter)  \* any more is as much
        /\ Release(t)
        /\ UNCHANGED <<waiting, limit>>

(* The task rejected. *)
Fail(t) == /\ phase = "free" /\ t \in active
           /\ successStreak' = 0
           /\ Release(t)
           /\ UNCHANGED <<waiting, limit>>

HeadFits == waiting # <<>> /\ CanAdmit(Head(waiting))

(* Mutants: drain() is an if and not a loop; the head is not shifted. *)
DrainOnce == /\ phase # "free" /\ HeadFits
             /\ Admit(Head(waiting))
             /\ waiting' = Tail(waiting)
             /\ phase' = IF phase = "released" THEN "free" ELSE phase
             /\ UNCHANGED <<limit, successStreak, ending>>
DrainPeek == /\ phase # "free" /\ HeadFits
             /\ Admit(Head(waiting))
             /\ UNCHANGED <<waiting, limit, successStreak, phase, ending>>

(* One turn of drain()'s loop, and its end. *)
DrainOne == /\ phase # "free" /\ HeadFits
            /\ Admit(Head(waiting))
            /\ waiting' = Tail(waiting)
            /\ UNCHANGED <<limit, successStreak, phase, ending>>

DrainEnds == /\ phase # "free" /\ ~HeadFits
             /\ \/ /\ phase = "ramped"
                   /\ \E t \in ending : Release(t)
                \/ /\ phase = "released"
                   /\ phase' = "free"
                   /\ UNCHANGED <<running, inFlightBytes, active, ending>>
             /\ UNCHANGED <<waiting, limit, successStreak>>

(* Mutant: the halving has no floor. *)
NoteRateLimitNoFloor == /\ phase = "free" /\ active # {}
                        /\ running <= limit
                        /\ limit' = limit \div 2
                        /\ successStreak' = 0
                        /\ UNCHANGED <<running, inFlightBytes, waiting, active, phase, ending>>

(* A running task met a 429. *)
NoteRateLimit == /\ phase = "free" /\ active # {}
                 /\ running <= limit
                 /\ limit' = AtLeast(MinLimit, limit \div 2)
                 /\ successStreak' = 0
                 /\ UNCHANGED <<running, inFlightBytes, waiting, active, phase, ending>>

Next == \/ \E t \in Task : RunNow(t)
        \/ \E t \in Task : Enqueue(t)
        \/ \E t \in Task : Succeed(t)
        \/ \E t \in Task : Fail(t)
        \/ DrainOne
        \/ DrainEnds
        \/ NoteRateLimit

Spec == Init /\ [][Next]_poolVars

(* The drain runs to its end, and a transfer ends: each request has a      *)
(* time-out and a bounded number of retries.                               *)
FairSpec == /\ Spec
            /\ WF_poolVars(DrainOne) /\ WF_poolVars(DrainEnds)
            /\ \A t \in Task : WF_poolVars(Succeed(t) \/ Fail(t))

-----------------------------------------------------------------------------
(* The counters are what the tasks in flight add up to, through ramps,     *)
(* failures and 429s: no slot and no byte leaks (run's finally block).     *)
Accounting == /\ running = Cardinality(active)
              /\ inFlightBytes = MapThenSumSet(LAMBDA t : Size[t], active)

(* Never more in flight than the upper bound, whatever the ramps did, and  *)
(* a task beyond the byte budget runs alone (canAdmit's deadlock guard).   *)
Bounded == running <= MaxLimit
BudgetRespected == inFlightBytes > ByteBudget => running = 1

(* No lost wake-up: between steps nobody waits who could be admitted, and  *)
(* so the queue never waits on an empty pool (drain is called wherever     *)
(* capacity grows, and noteRateLimit, which does not call it, only shrinks)*)
NoLostWakeup == phase = "free" => ~HeadFits

(* A task waits once, and never while it runs. *)
QueueWellFormed ==
  /\ Queued \cap active = {}
  /\ \A i, j \in DOMAIN waiting : waiting[i] = waiting[j] => i = j
  /\ phase = "ramped" <=> ending # {}
  /\ ending \subseteq active
  /\ \A s, t \in ending : s = t

(* After a halving the pool sheds load: no step wakes a task into a pool   *)
(* that is over its limit (the comment on AdaptivePool against AsyncPool). *)
ShedsLoad == [][running' > running => running' <= limit']_poolVars

(* No starvation: a large file at the head is not overtaken by small ones  *)
(* for ever (drain: FIFO with head-of-line blocking).                      *)
EveryTaskRuns == \A t \in Task : (t \in Queued) ~> (t \in active)
=============================================================================
