------------------------------ MODULE Semaphore ------------------------------
(***************************************************************************)
(* base::Semaphore of lib/inc/lock.h: a counting semaphore made of a mutex *)
(* and a condition variable, that may start below zero.  The benchmarks    *)
(* use it as a barrier: it starts at 1 - n, n tasks call up when they end, *)
(* and the main thread waits in down.                                      *)
(*                                                                         *)
(* All of up, and all of down between two waits, runs with mutex_ held: a  *)
(* step is one critical section.                                           *)
(***************************************************************************)
EXTENDS Integers, FiniteSets

CONSTANTS
    SemThreads,
    initVal,    \* the argument of the constructor
    MaxUps      \* bound of the model: calls of up ("Can overflow if current value
                \* is max value for int": the bound keeps val_ below it)

ASSUME ThreadsAssumption == IsFiniteSet(SemThreads)
ASSUME InitValAssumption == initVal \in Int
ASSUME MaxUpsAssumption == MaxUps \in Nat

VARIABLES
    val,        \* val_
    sleeping,   \* threads that wait in cond_.wait
    woken,      \* threads that have left the wait but not yet got mutex_ back
    ups,        \* history: calls of up so far
    downs       \* history: calls of down that have returned

semVars == <<val, sleeping, woken, ups, downs>>

SemTypeOK ==
    /\ val \in Int
    /\ sleeping \in SUBSET SemThreads
    /\ woken \in SUBSET SemThreads
    /\ sleeping \cap woken = {}
    /\ ups \in 0 .. MaxUps
    /\ downs \in Nat

SemInit ==
    /\ val = initVal
    /\ sleeping = {}
    /\ woken = {}
    /\ ups = 0
    /\ downs = 0

\* A thread that is not inside down may call an operation.
Idle(th) == th \in SemThreads \ (sleeping \cup woken)

\* cond_.signal() wakes one of the sleepers, and is lost if there is none.
signal ==
    \/ /\ sleeping = {}
       /\ UNCHANGED <<sleeping, woken>>
    \/ \E th \in sleeping :
          /\ sleeping' = sleeping \ {th}
          /\ woken' = woken \cup {th}

\* Mutant: up signals only when the value becomes positive.
upSignalsAtOne(th) ==
    /\ Idle(th) /\ ups < MaxUps
    /\ val' = val + 1
    /\ ups' = ups + 1
    /\ IF val' = 1 THEN signal ELSE UNCHANGED <<sleeping, woken>>
    /\ UNCHANGED downs

\* Mutant: up does not signal the first unit.
upSignalsAboveOne(th) ==
    /\ Idle(th) /\ ups < MaxUps
    /\ val' = val + 1
    /\ ups' = ups + 1
    /\ IF val' > 1 THEN signal ELSE UNCHANGED <<sleeping, woken>>
    /\ UNCHANGED downs

up(th) ==
    /\ Idle(th) /\ ups < MaxUps
    /\ val' = val + 1
    /\ ups' = ups + 1
    /\ IF val' > 0 THEN signal ELSE UNCHANGED <<sleeping, woken>>
    /\ UNCHANGED downs

\* The rest of down for a thread that has the mutex: it takes one unit, or waits
\* (which releases the mutex).
DownOrWait(th) ==
    \/ /\ val > 0
       /\ val' = val - 1
       /\ downs' = downs + 1
       /\ sleeping' = sleeping
    \/ /\ val <= 0
       /\ sleeping' = sleeping \cup {th}
       /\ UNCHANGED <<val, downs>>

down(th) ==
    /\ Idle(th)
    /\ DownOrWait(th)
    /\ UNCHANGED <<woken, ups>>

\* Mutant: the value is tested with if, not while.
DownAfterWaitUntested(th) ==
    /\ th \in woken
    /\ woken' = woken \ {th}
    /\ val' = val - 1
    /\ downs' = downs + 1
    /\ UNCHANGED <<sleeping, ups>>

\* Back from the wait, the while loop tests the value again.
DownAfterWait(th) ==
    /\ th \in woken
    /\ woken' = woken \ {th}
    /\ DownOrWait(th)
    /\ UNCHANGED ups

\* pthread_cond_wait may return without a signal, and pthread_cond_signal may
\* wake more threads than one.
SpuriousWakeup(th) ==
    /\ th \in sleeping
    /\ sleeping' = sleeping \ {th}
    /\ woken' = woken \cup {th}
    /\ UNCHANGED <<val, ups, downs>>

SemNext ==
    \E th \in SemThreads :
        up(th) \/ down(th) \/ DownAfterWait(th) \/ SpuriousWakeup(th)

\* A woken thread gets the mutex and goes on.  Nobody is obliged to call up, and
\* no wake-up comes without a signal.
SemFairness == \A th \in SemThreads : WF_semVars(DownAfterWait(th))

SemSafetySpec == SemInit /\ [][SemNext]_semVars

SemSpec == SemSafetySpec /\ SemFairness

-----------------------------------------------------------------------------
(* Properties *)

\* A thread sleeps beside a positive value only while at least that many woken
\* threads are on their way to take it: a unit that down may take is never left
\* lying while everybody sleeps, although a woken thread may be overtaken by
\* another caller of down and a signal without a sleeper is lost.
UnitsHaveTakers == sleeping # {} => val <= Cardinality(woken)

\* The barrier of the benchmarks: down returns only when the calls of up cover
\* it, so with 1 - n at the start the first one returns after n calls.
DownsAreCovered == downs > 0 => downs <= initVal + ups

\* "blocks until the value becomes > 0": as long as it is positive, the threads
\* inside down become fewer until none is left.
DownReturns == []<>(val <= 0 \/ sleeping \cup woken = {})
=============================================================================
