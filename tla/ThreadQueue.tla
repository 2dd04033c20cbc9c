---------------------------- MODULE ThreadQueue ----------------------------
(***************************************************************************)
(* class ThreadQueue and the thread of ExecutionManagerServer that serves  *)
(* it: the mutex, the condition variable and the loop over isRunning that  *)
(* modules ExecutionManager and Platform take for an atomic queue.         *)
(*                                                                         *)
(* A caller's critical section is one step; the worker's is several, so    *)
(* that what the mutex and the predicate of wait protect is visible.       *)
(***************************************************************************)
EXTENDS Naturals, Sequences

CONSTANTS
    Callers,          \* threads that add methods
    Methods,          \* what may be added
    NoMethod,         \* an empty std::function
    MaxQueue          \* bound: methods waiting

ASSUME ThreadQueueAssumption == NoMethod \notin Methods

VARIABLES
    methodsQueue,     \* m_methodsQueue
    func,             \* the local of getExecutor
    worker,           \* where m_setMachineStateThread is
    notifying,        \* callers between the push and notify_one
    isRunning         \* ExecutionManagerServer::isRunning

vars == <<methodsQueue, func, worker, notifying, isRunning>>

(* top: the loop test; lock: about to lock m_queueMutex, from wait too;    *)
(* test: the predicate; empty: it was false, wait is about to sleep;       *)
(* take: it was true; run: executing func without the mutex.               *)
WorkerSteps == {"top", "lock", "test", "empty", "asleep", "take", "run",
                "ended"}
MutexIsFree == worker \notin {"test", "empty", "take"}

Init ==
    /\ methodsQueue = <<>>
    /\ func = NoMethod
    /\ worker = "top"
    /\ notifying = {}
    /\ isRunning = TRUE

-----------------------------------------------------------------------------
Wakes == worker' = IF worker = "asleep" THEN "lock" ELSE worker

(* Mutant: the push is not protected by the mutex.                         *)
AddMethodUnlocked(c, m) ==
    /\ c \notin notifying
    /\ Len(methodsQueue) < MaxQueue
    /\ methodsQueue' = Append(methodsQueue, m)
    /\ notifying' = notifying \cup {c}
    /\ UNCHANGED <<func, worker, isRunning>>

(* addMethod pushes under the mutex ...                                    *)
AddMethod(c, m) ==
    /\ c \notin notifying
    /\ MutexIsFree
    /\ Len(methodsQueue) < MaxQueue
    /\ methodsQueue' = Append(methodsQueue, m)
    /\ notifying' = notifying \cup {c}
    /\ UNCHANGED <<func, worker, isRunning>>

(* ... and notifies once it has released it.                               *)
NotifyOne(c) ==
    /\ c \in notifying
    /\ notifying' = notifying \ {c}
    /\ Wakes
    /\ UNCHANGED <<methodsQueue, func, isRunning>>

(* isEmpty notifies too, whatever it finds.                                *)
IsEmpty(c) ==
    /\ c \notin notifying
    /\ MutexIsFree
    /\ Wakes
    /\ UNCHANGED <<methodsQueue, func, notifying, isRunning>>

(* The destructor of the server; it goes on to join the worker.            *)
Stop ==
    /\ isRunning
    /\ isRunning' = FALSE
    /\ UNCHANGED <<methodsQueue, func, worker, notifying>>

-----------------------------------------------------------------------------
GoTo(from, to) == worker = from /\ worker' = to

(* The loop test of the worker, which enters getExecutor or ends.          *)
LoopTest ==
    /\ GoTo("top", IF isRunning THEN "lock" ELSE "ended")
    /\ UNCHANGED <<methodsQueue, func, notifying, isRunning>>

(* Mutant: woken up, the worker does not look again.                       *)
LockNoTest ==
    /\ GoTo("lock", "take")
    /\ UNCHANGED <<methodsQueue, func, notifying, isRunning>>

Lock ==
    /\ GoTo("lock", "test")
    /\ UNCHANGED <<methodsQueue, func, notifying, isRunning>>

TestPredicate ==
    /\ GoTo("test", IF methodsQueue = <<>> THEN "empty" ELSE "take")
    /\ UNCHANGED <<methodsQueue, func, notifying, isRunning>>

(* wait releases the mutex and sleeps, in one step.                        *)
Sleep ==
    /\ GoTo("empty", "asleep")
    /\ UNCHANGED <<methodsQueue, func, notifying, isRunning>>

SpuriousWakeup ==
    /\ GoTo("asleep", "lock")
    /\ UNCHANGED <<methodsQueue, func, notifying, isRunning>>

(* The method is copied out and the mutex released before it is called.    *)
Take ==
    /\ GoTo("take", "run")
    /\ func' = Head(methodsQueue)
    /\ methodsQueue' = Tail(methodsQueue)
    /\ UNCHANGED <<notifying, isRunning>>

(* Mutant: the thread executes one method, without the loop.               *)
ReturnOnce ==
    /\ GoTo("run", "ended")
    /\ func' = NoMethod
    /\ UNCHANGED <<methodsQueue, notifying, isRunning>>

(* The method returns to the loop of the worker.                           *)
Return ==
    /\ GoTo("run", "top")
    /\ func' = NoMethod
    /\ UNCHANGED <<methodsQueue, notifying, isRunning>>

GetExecutor == LoopTest \/ Lock \/ TestPredicate \/ Sleep \/ Take

Next ==
    \/ GetExecutor
    \/ SpuriousWakeup
    \/ Return
    \/ Stop
    \/ \E c \in Callers, m \in Methods : AddMethod(c, m)
    \/ \E c \in Callers : NotifyOne(c) \/ IsEmpty(c)

(* The threads are scheduled; a method need not return, and nothing wakes  *)
(* up without a reason.                                                    *)
Spec == Init /\ [][Next]_vars
FairSpec == Spec /\ WF_vars(GetExecutor)
                 /\ \A c \in Callers : WF_vars(NotifyOne(c))

-----------------------------------------------------------------------------
(* The thread's steps and what it holds in them: getExecutor pops only     *)
(* from a queue that is not empty (pop of an empty std::queue is           *)
(* undefined), spurious and needless wake-ups included.                    *)
QueueTypeOK ==
    /\ methodsQueue \in Seq(Methods)
    /\ func \in Methods \cup {NoMethod}
    /\ worker \in WorkerSteps
    /\ notifying \in SUBSET Callers
    /\ isRunning \in BOOLEAN
    /\ worker = "take" => methodsQueue # <<>>
    /\ worker = "run" <=> func # NoMethod

(* The worker never sleeps on a queue with something in it unless the      *)
(* notification is still to come: addMethod notifies outside the mutex,    *)
(* and the predicate was evaluated before wait went to sleep.              *)
NoLostWakeup ==
    worker = "asleep" /\ methodsQueue # <<>> => notifying # {}

Abstract == INSTANCE MethodQueue WITH
    waiting <- methodsQueue, executing <- func, serving <- isRunning

(* The queue, with its lock, its wake-ups and the loop around it, is the   *)
(* first-in first-out hand-over of MethodQueue, which promises besides     *)
(* that every added method is taken while the server runs.                 *)
ImplementsMethodQueue == Abstract!Spec

(* The same without the liveness part.                                     *)
ImplementsFifo == Abstract!SafeSpec

=============================================================================
