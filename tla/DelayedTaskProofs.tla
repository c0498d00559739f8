-------------------------- MODULE DelayedTaskProofs --------------------------
(***************************************************************************)
(* TLAPS proofs about DelayedTask, for any number of timer threads and     *)
(* resets: types, and that the task is settled exactly once.               *)
(***************************************************************************)
EXTENDS DelayedTask, TLAPS

\* The locations of timeoutHandler and of the destructor inside the mutex.
HandlerInside == {"locked", "enqueued", "timerDeleted"}

OwnerInside == {"dtor", "cancel"}

\* mutex_ is held by exactly the thread that is in its critical section.
LockInv ==
    /\ \A h \in Handlers : mutex = h <=> handlerPc[h] \in HandlerInside
    /\ mutex = Owner <=> ownerPc \in OwnerInside

HandedOver == task \in {"enqueued", "performed"}

\* Nothing has been settled, or everything has.
Agreed ==
    \/ ~hasCompleted /\ task = "held" /\ timer # "deleted"
    \/ hasCompleted /\ task # "held" /\ timer = "deleted"

\* Task, timer and hasCompleted_ agree except while one thread, which owns mutex_,
\* is between settling the task and writing hasCompleted_.
PhaseInv ==
    /\ mutex = Nobody => Agreed
    /\ ownerPc = "dtor" => Agreed
    /\ \A h \in Handlers :
          /\ handlerPc[h] = "locked" => Agreed
          /\ handlerPc[h] = "enqueued" =>
                ~hasCompleted /\ HandedOver /\ timer # "deleted"
          /\ handlerPc[h] = "timerDeleted" =>
                ~hasCompleted /\ HandedOver /\ timer = "deleted"
    /\ ownerPc = "cancel" => ~hasCompleted /\ task = "held" /\ timer = "deleted"

\* The timer is deleted at most once; a task is deleted only with the object; and
\* an assertion of resetTimer fails only after the hand-over.
FateInv ==
    /\ deletions = IF timer = "deleted" THEN 1 ELSE 0
    /\ task = "deleted" => ownerPc = "gone"
    /\ ownerPc = "aborted" => HandedOver

IInv == TypeOK /\ LockInv /\ PhaseInv /\ FateInv

USE DEF HandlerInside, OwnerInside

-----------------------------------------------------------------------------

LEMMA InitIInv == Init => IInv
  <1>1. ASSUME Init PROVE TypeOK
    <2>1. hasCompleted \in BOOLEAN /\ badAccess \in BOOLEAN
      BY <1>1, Zenon DEF Init
    <2>2. resets \in 0 .. MaxResets
      BY <1>1, MaxResetsAssumption DEF Init
    <2> QED BY <1>1, <2>1, <2>2 DEF Init, Delays, SetTime, TypeOK, HandlerLocations
  <1>2. ASSUME Init PROVE LockInv
    BY <1>2, HandlersAssumption, OwnerAssumption DEF Init, LockInv
  <1>3. ASSUME Init PROVE PhaseInv /\ FateInv
    BY <1>3 DEF Init, Delays, SetTime, PhaseInv, FateInv, Agreed
  <1> QED BY <1>1, <1>2, <1>3 DEF IInv

\* Every step keeps the types.
LEMMA NextTypeOK == TypeOK /\ [Next]_vars => TypeOK'
  <1> SUFFICES ASSUME TypeOK, [Next]_vars PROVE TypeOK'
    OBVIOUS
  <1> USE DEF TypeOK, HandlerLocations
  <1>1. ASSUME NEW h \in Handlers, Expire(h) PROVE TypeOK'
    BY <1>1 DEF Expire
  <1>2. ASSUME NEW h \in Handlers, HandlerStep(h) PROVE TypeOK'
    <2>1. CASE HandlerLock(h) \/ HandlerNothingToDo(h)
      BY <2>1 DEF HandlerLock, HandlerNothingToDo
    <2>2. CASE HandlerEnqueue(h) \/ HandlerDeleteTimer(h)
      BY <2>2 DEF HandlerEnqueue, HandlerDeleteTimer
    <2>3. CASE HandlerTooLate(h)
      <3>1. badAccess' \in BOOLEAN
        BY <2>3, Zenon DEF HandlerTooLate
      <3> QED BY <2>3, <3>1 DEF HandlerTooLate
    <2>4. CASE HandlerComplete(h)
      <3>1. hasCompleted' \in BOOLEAN
        BY <2>4, Zenon DEF HandlerComplete
      <3> QED BY <2>4, <3>1 DEF HandlerComplete
    <2> QED BY <1>2, <2>1, <2>2, <2>3, <2>4 DEF HandlerStep
  <1>3. CASE Perform
    BY <1>3 DEF Perform
  <1>4. ASSUME NEW newDelay \in Delays, resetTimer(newDelay)
       PROVE TypeOK'
    BY <1>4, MaxResetsAssumption DEF resetTimer, SetTime
  <1>5. CASE DtorLock \/ Dtor
    <2>1. CASE DtorLock \/ DtorDeleteTimer \/ DtorNothingToDo
      BY <2>1 DEF DtorLock, DtorDeleteTimer, DtorNothingToDo
    <2>2. CASE DtorCancel
      <3>1. hasCompleted' \in BOOLEAN
        BY <2>2, Zenon DEF DtorCancel
      <3> QED BY <2>2, <3>1 DEF DtorCancel
    <2> QED BY <1>5, <2>1, <2>2 DEF Dtor
  <1>6. CASE Terminated \/ UNCHANGED vars
    BY <1>6 DEF Terminated, vars
  <1> QED BY <1>1, <1>2, <1>3, <1>4, <1>5, <1>6 DEF Next

\* Every step keeps the ownership of the mutex.
LEMMA NextLockInv == TypeOK /\ LockInv /\ [Next]_vars => LockInv'
  <1> SUFFICES ASSUME TypeOK, LockInv, [Next]_vars PROVE LockInv'
    OBVIOUS
  <1> USE HandlersAssumption, OwnerAssumption DEF TypeOK, LockInv
  <1>1. ASSUME NEW h \in Handlers, Expire(h) PROVE LockInv'
    BY <1>1 DEF Expire
  <1>2. ASSUME NEW h \in Handlers, HandlerStep(h) PROVE LockInv'
    <2>1. CASE HandlerLock(h)
      BY <2>1 DEF HandlerLock
    <2>2. CASE HandlerTooLate(h)
      BY <2>2 DEF HandlerTooLate
    <2>3. CASE HandlerNothingToDo(h) \/ HandlerComplete(h)
      BY <2>3 DEF HandlerNothingToDo, HandlerComplete
    <2>4. CASE HandlerEnqueue(h) \/ HandlerDeleteTimer(h)
      BY <2>4 DEF HandlerEnqueue, HandlerDeleteTimer
    <2> QED BY <1>2, <2>1, <2>2, <2>3, <2>4 DEF HandlerStep
  <1>3. CASE Perform
    BY <1>3 DEF Perform
  <1>4. ASSUME NEW newDelay \in Delays, resetTimer(newDelay)
       PROVE LockInv'
    BY <1>4 DEF resetTimer, SetTime
  <1>5. CASE DtorLock
    BY <1>5 DEF DtorLock
  <1>6. CASE Dtor
    BY <1>6 DEF Dtor, DtorDeleteTimer, DtorCancel, DtorNothingToDo
  <1>7. CASE Terminated \/ UNCHANGED vars
    BY <1>7 DEF Terminated, vars
  <1> QED BY <1>1, <1>2, <1>3, <1>4, <1>5, <1>6, <1>7 DEF Next

\* Every step keeps task, timer and hasCompleted_ in agreement.
LEMMA NextPhaseInv == IInv /\ [Next]_vars => PhaseInv' /\ FateInv'
  <1> SUFFICES ASSUME IInv, [Next]_vars PROVE PhaseInv' /\ FateInv'
    OBVIOUS
  <1> USE HandlersAssumption, OwnerAssumption
      DEF IInv, TypeOK, LockInv, PhaseInv, FateInv, Agreed, HandedOver
  <1>1. ASSUME NEW h \in Handlers, Expire(h) PROVE PhaseInv' /\ FateInv'
    BY <1>1 DEF Expire
  <1>2. ASSUME NEW h \in Handlers, HandlerStep(h) PROVE PhaseInv' /\ FateInv'
    <2>1. CASE HandlerLock(h)
      BY <2>1 DEF HandlerLock
    <2>2. CASE HandlerTooLate(h)
      BY <2>2 DEF HandlerTooLate
    <2>3. CASE HandlerNothingToDo(h)
      BY <2>3 DEF HandlerNothingToDo
    <2>4. CASE HandlerEnqueue(h)
      BY <2>4 DEF HandlerEnqueue
    <2>5. CASE HandlerDeleteTimer(h)
      BY <2>5 DEF HandlerDeleteTimer
    <2>6. CASE HandlerComplete(h)
      BY <2>6 DEF HandlerComplete
    <2> QED BY <1>2, <2>1, <2>2, <2>3, <2>4, <2>5, <2>6 DEF HandlerStep
  <1>3. CASE Perform
    BY <1>3 DEF Perform
  <1>4. ASSUME NEW newDelay \in Delays, resetTimer(newDelay)
       PROVE PhaseInv' /\ FateInv'
    BY <1>4 DEF resetTimer, SetTime
  <1>5. CASE DtorLock
    BY <1>5 DEF DtorLock
  <1>6. CASE DtorDeleteTimer
    BY <1>6 DEF DtorDeleteTimer
  <1>7. CASE DtorCancel
    BY <1>7 DEF DtorCancel
  <1>8. CASE DtorNothingToDo
    BY <1>8 DEF DtorNothingToDo
  <1>9. CASE Terminated \/ UNCHANGED vars
    BY <1>9 DEF Terminated, vars
  <1> QED BY <1>1, <1>2, <1>3, <1>4, <1>5, <1>6, <1>7, <1>8, <1>9 DEF Next, Dtor

\* The inductive invariant: who owns mutex_, and what task, timer and hasCompleted_
\* may be at each location.
THEOREM Invariance == SafetySpec => []IInv
  <1>1. IInv /\ [Next]_vars => IInv'
    BY NextTypeOK, NextLockInv, NextPhaseInv DEF IInv
  <1> QED BY InitIInv, <1>1, PTL DEF SafetySpec

\* The variables of a delayed task keep their types.
THEOREM TypeCorrect == SafetySpec => []TypeOK
  <1>1. IInv => TypeOK
    BY DEF IInv
  <1> QED BY Invariance, <1>1, PTL

\* Whatever expiries, resets and the destructor do, timeoutHandler and the
\* destructor settle the task once and delete the timer once.
THEOREM TaskSettledOnce == SafetySpec => []SettledOnce
  <1>1. IInv => SettledOnce
    BY DEF IInv, TypeOK, PhaseInv, FateInv, Agreed, HandedOver, SettledOnce
  <1> QED BY Invariance, <1>1, PTL
=============================================================================
