------------------------- MODULE ThreadQueueProofs -------------------------
(***************************************************************************)
(* No wake-up of the worker thread is lost, and the queue is a first-in    *)
(* first-out hand-over, for any callers, methods and queue bound.          *)
(***************************************************************************)
EXTENDS ThreadQueue, TLAPS

(* What makes NoLostWakeup inductive: between the predicate that found the *)
(* queue empty and the sleep the mutex is held, so it is still empty.      *)
QueueInv ==
    /\ QueueTypeOK
    /\ NoLostWakeup
    /\ worker = "empty" => methodsQueue = <<>>

(* The queue starts empty, with nobody waiting or holding the mutex.       *)
LEMMA QueueInitInv == Init => QueueInv
BY ThreadQueueAssumption DEF Init, QueueInv, QueueTypeOK, NoLostWakeup, WorkerSteps

(* No step of a caller or of the worker breaks it.                         *)
LEMMA QueueStepInv == QueueInv /\ [Next]_vars => QueueInv'
<1> SUFFICES ASSUME QueueInv, [Next]_vars PROVE QueueInv'
  OBVIOUS
<1> USE ThreadQueueAssumption DEF QueueInv, QueueTypeOK, NoLostWakeup,
                                   WorkerSteps, GoTo
<1>1. CASE LoopTest
  BY <1>1 DEF LoopTest
<1>2. CASE Lock
  BY <1>2 DEF Lock
<1>3. CASE TestPredicate
  BY <1>3 DEF TestPredicate
<1>4. CASE Sleep
  BY <1>4 DEF Sleep
<1>5. CASE Take
  <2>1. Head(methodsQueue) \in Methods /\ Tail(methodsQueue) \in Seq(Methods)
    BY <1>5 DEF Take
  <2> QED
    BY <1>5, <2>1 DEF Take
<1>6. CASE SpuriousWakeup
  BY <1>6 DEF SpuriousWakeup
<1>7. CASE Return
  BY <1>7 DEF Return
<1>8. CASE Stop
  BY <1>8 DEF Stop
<1>9. ASSUME NEW c \in Callers, NEW m \in Methods, AddMethod(c, m)
      PROVE  QueueInv'
  <2>1. /\ Append(methodsQueue, m) \in Seq(Methods)
        /\ Append(methodsQueue, m) # <<>>
    OBVIOUS
  <2> QED
    BY <1>9, <2>1 DEF AddMethod, MutexIsFree
<1>10. ASSUME NEW c \in Callers, NotifyOne(c)
       PROVE  QueueInv'
  BY <1>10 DEF NotifyOne, Wakes
<1>11. ASSUME NEW c \in Callers, IsEmpty(c)
       PROVE  QueueInv'
  BY <1>11 DEF IsEmpty, Wakes
<1>12. CASE UNCHANGED vars
  BY <1>12 DEF vars
<1> QED
  BY <1>1, <1>2, <1>3, <1>4, <1>5, <1>6, <1>7, <1>8, <1>9, <1>10, <1>11, <1>12
     DEF Next, GetExecutor

(* So it holds throughout.                                                 *)
LEMMA QueueAlwaysInv == Spec => []QueueInv
BY QueueInitInv, QueueStepInv, PTL DEF Spec

(* getExecutor of the worker thread never pops from an empty queue.        *)
THEOREM QueueTypeCorrect == Spec => []QueueTypeOK
BY QueueAlwaysInv, PTL DEF QueueInv

(* addMethod's notification outside the mutex is never lost: the worker    *)
(* does not sleep on a method that nobody is about to announce.            *)
THEOREM WakeupsReachTheWorker == Spec => []NoLostWakeup
BY QueueAlwaysInv, PTL DEF QueueInv

(* A push adds a method, a pop takes the first, a method returns, the      *)
(* queue stops; every other step is invisible.                             *)
LEMMA QueueStepRefines == QueueInv /\ [Next]_vars => [Abstract!Next]_(Abstract!queueVars)
<1> SUFFICES ASSUME QueueInv, [Next]_vars
             PROVE  [Abstract!Next]_(Abstract!queueVars)
  OBVIOUS
<1> USE ThreadQueueAssumption DEF QueueInv, QueueTypeOK, GoTo, Abstract!queueVars
<1>1. CASE LoopTest \/ Lock \/ TestPredicate \/ Sleep \/ SpuriousWakeup
  BY <1>1 DEF LoopTest, Lock, TestPredicate, Sleep, SpuriousWakeup
<1>2. CASE Take
  BY <1>2 DEF Take, Abstract!Take, Abstract!Next
<1>3. CASE Return
  BY <1>3 DEF Return, Abstract!Return, Abstract!Next
<1>4. CASE Stop
  BY <1>4 DEF Stop, Abstract!Stop, Abstract!Next
<1>5. ASSUME NEW c \in Callers, NEW m \in Methods, AddMethod(c, m)
      PROVE  Abstract!Next
  BY <1>5 DEF AddMethod, Abstract!Add, Abstract!Next
<1>6. ASSUME NEW c \in Callers, NotifyOne(c) \/ IsEmpty(c)
      PROVE  UNCHANGED Abstract!queueVars
  BY <1>6 DEF NotifyOne, IsEmpty
<1>7. CASE UNCHANGED vars
  BY <1>7 DEF vars
<1> QED
  BY <1>1, <1>2, <1>3, <1>4, <1>5, <1>6, <1>7 DEF Next, GetExecutor

(* The queue with its lock and its wake-ups hands the methods over first   *)
(* in, first out and one at a time, as ExecutionManager assumes of it.     *)
THEOREM QueueIsFifo == Spec => ImplementsFifo
<1>1. Init => Abstract!Init
  BY DEF Init, Abstract!Init
<1> QED
  BY <1>1, QueueStepRefines, QueueAlwaysInv, PTL
     DEF Spec, ImplementsFifo, Abstract!SafeSpec

=============================================================================
