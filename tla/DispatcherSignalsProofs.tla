----------------------- MODULE DispatcherSignalsProofs -----------------------
(***************************************************************************)
(* Theorems about DispatcherSignals, for any number of threads and tasks,  *)
(* and about Semaphore, the other user of the mutexes of lock.h.           *)
(***************************************************************************)
EXTENDS DispatcherSignals, Semaphore, FiniteSetTheorems, TLAPS

(***************************************************************************)
(* The inductive invariant                                                 *)
(***************************************************************************)

EnqueueLocations == {"enqueueTask", "push", "countLock", "count"}
PendingLocations == {"pendingTasks", "sum"}
LoopLocations ==
    {"top", "while", "sleep", "waiting", "reacquire", "executing",
     "popLock", "pop", "uncountLock", "uncount"}

\* A call never leaves the function it is in.
SameFunction(from, to) ==
    \E L \in {EnqueueLocations, PendingLocations, LoopLocations} : from \in L /\ to \in L

\* The calls of a thread: what it does by itself, at most one call of a method made
\* there, and at most one handler, which interrupts either and makes no call.
Shape(th, s) ==
    /\ s \in Seq(Frame)
    /\ Len(s) \in 1 .. 3
    /\ ~s[1].handler
    /\ s[1].at \in (IF th = Loop THEN LoopLocations ELSE {"idle"})
    /\ \A i \in 2 .. Len(s) :
          /\ s[i].handler => i = Len(s) /\ s[i].at \in EnqueueLocations
          /\ ~s[i].handler => /\ i = 2
                              /\ s[1].at \in {"idle", "executing"}
                              /\ s[i].at \in EnqueueLocations \cup PendingLocations
          /\ s[i].at \in {"enqueueTask", "push"} => s[i].task \in Tasks

\* Where the call is that is no handler, and where the handler is.
MainAt(s) == IF s[Len(s)].handler THEN s[Len(s) - 1].at ELSE s[Len(s)].at

HandlerAt(s) == IF s[Len(s)].handler THEN s[Len(s)].at ELSE "none"

\* The locations in which a call holds a mutex.
Holding(m) ==
    IF m = "queue"
       THEN {"push", "countLock", "count", "while", "sleep", "pop", "uncountLock", "uncount"}
       ELSE {"count", "uncount", "sum"}

\* How many of a thread's calls are in some locations.
CallsIn(s, L) ==
    (IF MainAt(s) \in L THEN 1 ELSE 0) + (IF HandlerAt(s) \in L THEN 1 ELSE 0)

\* A mutex belongs to the thread with calls that hold it, as deep as those are.
LockOK(m, l, st) ==
    /\ l \in [owner : Threads \cup {NoThread}, depth : 0 .. 2]
    /\ l.owner = NoThread <=> l.depth = 0
    /\ \A th \in Threads :
          CallsIn(st[th], Holding(m)) = IF l.owner = th THEN l.depth ELSE 0

LockInv == \A m \in {"queue", "count"} : LockOK(m, mutex[m], stack)

\* The task that the loop executes or is about to pop is still queued.
QueueInv == stack[Loop][1].at \in {"executing", "popLock", "pop"} => taskQueue # <<>>

Uncounted(s) == CallsIn(s, {"countLock", "count"})

Popped == IF stack[Loop][1].at \in {"uncountLock", "uncount"} THEN 1 ELSE 0

\* The counters are the length of the queue, but for the tasks that one thread,
\* which owns queueMutex_, has pushed and not counted or popped and not uncounted.
CountInv ==
    \A th \in Threads :
        (\A other \in Threads \ {th} : Uncounted(stack[other]) = 0)
            => taskCount = Len(taskQueue) - Uncounted(stack[th]) + Popped

Inv ==
    /\ TypeOK
    /\ \A th \in Threads : Shape(th, stack[th])
    /\ LockInv
    /\ QueueInv
    /\ CountInv

(***************************************************************************)
(* What the operations on a stack do to it                                 *)
(***************************************************************************)

\* Locations that hold no mutex and owe the counters nothing.
Outside ==
    {"none", "idle", "executing", "waiting", "reacquire", "enqueueTask", "pendingTasks",
     "top", "popLock"}

\* 1 if the location is one of L.
In(at, L) == IF at \in L THEN 1 ELSE 0

LEMMA WatchedLocations ==
  /\ \A m \in {"queue", "count"} : Holding(m) \cap Outside = {}
  /\ {"countLock", "count"} \cap Outside = {}
BY DEF Holding, Outside

LEMMA CallsInIs ==
  ASSUME NEW s, NEW L
  PROVE  /\ CallsIn(s, L) = In(MainAt(s), L) + In(HandlerAt(s), L)
         /\ CallsIn(s, L) \in 0 .. 2
BY DEF CallsIn, In

LEMMA InIs == \A at, L : In(at, L) \in 0 .. 1
BY DEF In

LEMMA SeqElement ==
  ASSUME NEW S, NEW s \in Seq(S), NEW i \in 1 .. Len(s)
  PROVE  s[i] \in S
OBVIOUS

LEMMA SeqUpdate ==
  ASSUME NEW S, NEW s \in Seq(S), NEW i \in 1 .. Len(s), NEW e \in S
  PROVE  /\ [s EXCEPT ![i] = e] \in Seq(S)
         /\ Len([s EXCEPT ![i] = e]) = Len(s)
         /\ [s EXCEPT ![i] = e][i] = e
         /\ \A j \in 1 .. Len(s) : j # i => [s EXCEPT ![i] = e][j] = s[j]
OBVIOUS

LEMMA SameTop ==
  ASSUME NEW s, NEW t, s[Len(s)] = t[Len(t)]
  PROVE  HandlerAt(s) = HandlerAt(t)
BY Zenon DEF HandlerAt

\* The stack t is s with the running call moved on within its function.
CanMove(s, to, t) ==
    /\ SameFunction(s[Len(s)].at, to)
    /\ to # "enqueueTask"
    /\ to = "push" => s[Len(s)].at = "enqueueTask"
    /\ t = [s EXCEPT ![Len(s)].at = to]

Moved(th, s, to, t) ==
    /\ Shape(th, t)
    /\ t[1].at = IF Len(s) = 1 THEN to ELSE s[1].at
    /\ \A L : CallsIn(t, L) = CallsIn(s, L) - In(s[Len(s)].at, L) + In(to, L)

\* Moving on within a function.
LEMMA GotoMoves ==
  ASSUME NEW th \in Threads, NEW s, Shape(th, s), NEW to, NEW t, CanMove(s, to, t)
  PROVE  Moved(th, s, to, t)
<1>0. /\ SameFunction(s[Len(s)].at, to)
      /\ to # "enqueueTask"
      /\ to = "push" => s[Len(s)].at = "enqueueTask"
      /\ t = [s EXCEPT ![Len(s)].at = to]
  BY DEF CanMove
<1> DEFINE n == Len(s)
           from == s[n].at
<1>1. n \in 1 .. 3 /\ s \in Seq(Frame) /\ to \in Locations
  BY <1>0 DEF Shape, SameFunction, Locations, EnqueueLocations, PendingLocations, LoopLocations
<1>2. /\ t \in Seq(Frame) /\ Len(t) = n
      /\ t[n].at = to /\ t[n].task = s[n].task /\ t[n].handler = s[n].handler
      /\ \A i \in 1 .. n : i # n => t[i] = s[i]
  <2>0. n \in 1 .. n
    <3> HIDE DEF n
    <3>1. QED
      BY <1>1
  <2>1. s[n] \in Frame
    BY <1>1, <2>0, SeqElement
  <2>2. [s[n] EXCEPT !.at = to] \in Frame
    BY <1>1, <2>1 DEF Frame
  <2> DEFINE e == [s[n] EXCEPT !.at = to]
  <2>3. t = [s EXCEPT ![n] = e]
    BY <1>0
  <2>4. e.at = to /\ e.task = s[n].task /\ e.handler = s[n].handler
    BY <2>1 DEF Frame
  <2> HIDE DEF e
  <2>5. e \in Frame
    BY <2>2 DEF e
  <2>6. t \in Seq(Frame) /\ Len(t) = n /\ t[n] = e /\ \A i \in 1 .. n : i # n => t[i] = s[i]
    BY <1>1, <2>0, <2>3, <2>5, SeqUpdate
  <2>7. QED
    BY <2>4, <2>6
<1>3. n = 1 => th = Loop /\ to \in LoopLocations
  BY <1>0, <1>1 DEF Shape, SameFunction, EnqueueLocations, PendingLocations, LoopLocations
<1>4. n # 1 => /\ from \in EnqueueLocations => to \in EnqueueLocations
               /\ from \in PendingLocations => to \in PendingLocations
               /\ from \in EnqueueLocations \cup PendingLocations
  <2>1. n # 1 => from \in EnqueueLocations \cup PendingLocations
    BY <1>1 DEF Shape
  <2>2. QED
    BY <1>0, <2>1 DEF SameFunction, EnqueueLocations, PendingLocations, LoopLocations
<1>5. t[1].at = IF n = 1 THEN to ELSE s[1].at
  BY <1>1, <1>2
<1>6. Shape(th, t)
  <2>1. ~t[1].handler /\ t[1].at \in (IF th = Loop THEN LoopLocations ELSE {"idle"})
    BY <1>1, <1>2, <1>3, <1>5 DEF Shape
  <2>2. ASSUME NEW i \in 2 .. n
        PROVE  /\ t[i].handler => i = n /\ t[i].at \in EnqueueLocations
               /\ ~t[i].handler => /\ i = 2
                                   /\ t[1].at \in {"idle", "executing"}
                                   /\ t[i].at \in EnqueueLocations \cup PendingLocations
               /\ t[i].at \in {"enqueueTask", "push"} => t[i].task \in Tasks
    <3>1. CASE i # n
      BY <1>1, <1>2, <1>5, <3>1 DEF Shape
    <3>2. CASE i = n
      BY <1>0, <1>1, <1>2, <1>4, <1>5, <3>2 DEF Shape
    <3>3. QED
      BY <3>1, <3>2
  <2>3. QED
    BY <1>1, <1>2, <2>1, <2>2 DEF Shape
<1>7. ASSUME NEW L
      PROVE  CallsIn(t, L) = CallsIn(s, L) - In(from, L) + In(to, L)
  <2>1. CASE s[n].handler
    <3>1. n > 1
      BY <1>1, <2>1 DEF Shape
    <3>2. n - 1 \in 1 .. n /\ n - 1 # n
      BY <1>1, <3>1
    <3>3. t[Len(t)].handler /\ t[Len(t) - 1] = s[n - 1] /\ t[Len(t)].at = to
      BY <1>2, <2>1, <3>2
    <3>4. MainAt(t) = MainAt(s) /\ HandlerAt(s) = from /\ HandlerAt(t) = to
      BY <2>1, <3>3 DEF MainAt, HandlerAt
    <3>5. QED
      BY <3>4, CallsInIs, InIs
  <2>2. CASE ~s[n].handler
    <3>1. MainAt(s) = from /\ MainAt(t) = to /\ HandlerAt(s) = "none" /\ HandlerAt(t) = "none"
      BY <1>1, <1>2, <2>2 DEF MainAt, HandlerAt
    <3>2. /\ CallsIn(s, L) = In(from, L) + In("none", L)
          /\ CallsIn(t, L) = In(to, L) + In("none", L)
      BY <3>1, CallsInIs
    <3>3. In(from, L) \in 0 .. 1 /\ In(to, L) \in 0 .. 1 /\ In("none", L) \in 0 .. 1
      BY InIs
    <3> HIDE DEF from
    <3>4. QED
      BY <3>2, <3>3
  <2>3. QED
    BY <2>1, <2>2
<1>8. QED
  BY <1>5, <1>6, <1>7 DEF Moved

\* The stack t has the same calls in the locations that matter as s.
SameCalls(th, s, t) ==
    /\ Shape(th, t)
    /\ t[1].at = s[1].at
    /\ \A L : L \cap Outside = {} => CallsIn(t, L) = CallsIn(s, L)

\* A call that a thread makes, or the handler's.
CanEnter(s, call) ==
    /\ call \in Frame
    /\ call.at = "enqueueTask" => call.task \in Tasks
    /\ \/ /\ call.handler
          /\ \A i \in 1 .. Len(s) : ~s[i].handler
          /\ call.at = "enqueueTask"
       \/ /\ ~call.handler
          /\ s[Len(s)].at \in {"idle", "executing"}
          /\ call.at \in {"enqueueTask", "pendingTasks"}

\* A call of enqueueTask or pendingTasks, and the handler's.
LEMMA EnterAdds ==
  ASSUME NEW th \in Threads, NEW s, Shape(th, s), NEW call, CanEnter(s, call)
  PROVE  SameCalls(th, s, Append(s, call))
<1> DEFINE n == Len(s)
           t == Append(s, call)
<1>1. n \in 1 .. 3 /\ s \in Seq(Frame) /\ call \in Frame
  BY DEF Shape, CanEnter
<1>2. t \in Seq(Frame) /\ Len(t) = n + 1 /\ t[n + 1] = call /\ \A i \in 1 .. n : t[i] = s[i]
  BY <1>1
<1> HIDE DEF t
<1>3. ~call.handler => n = 1
  BY <1>1 DEF Shape, CanEnter, EnqueueLocations, PendingLocations
<1>4. \A i \in 1 .. n : s[i].handler => FALSE
  BY <1>1, <1>3 DEF Shape, CanEnter
<1>5. n \in 1 .. 2
  BY <1>1, <1>4 DEF Shape
<1>6. ~s[n].handler
  <2> HIDE DEF n
  <2>1. n \in 1 .. n
    BY <1>5
  <2>2. QED
    BY <1>4, <2>1
<1>7. Shape(th, t)
  <2>1. Len(t) \in 1 .. 3 /\ t[1] = s[1]
    BY <1>2, <1>5
  <2>2. ASSUME NEW i \in 2 .. Len(t)
        PROVE  /\ t[i].handler => i = Len(t) /\ t[i].at \in EnqueueLocations
               /\ ~t[i].handler => /\ i = 2
                                   /\ t[1].at \in {"idle", "executing"}
                                   /\ t[i].at \in EnqueueLocations \cup PendingLocations
               /\ t[i].at \in {"enqueueTask", "push"} => t[i].task \in Tasks
    <3>1. CASE i = n + 1
      BY <1>2, <1>3, <2>1, <3>1 DEF CanEnter, EnqueueLocations, PendingLocations
    <3>2. CASE i \in 2 .. n
      BY <1>2, <1>4, <2>1, <3>2 DEF Shape
    <3>3. QED
      BY <1>1, <1>2, <3>1, <3>2
  <2>3. QED
    BY <1>2, <2>1, <2>2 DEF Shape
<1>8. ASSUME NEW L, L \cap Outside = {}
      PROVE  CallsIn(t, L) = CallsIn(s, L)
  <2>1. MainAt(s) = s[n].at /\ HandlerAt(s) = "none"
    BY <1>6 DEF MainAt, HandlerAt
  <2>2. CASE call.handler
    <3>1. MainAt(t) = s[n].at /\ HandlerAt(t) = "enqueueTask"
      BY <1>1, <1>2, <2>2 DEF CanEnter, MainAt, HandlerAt
    <3>2. QED
      BY <1>8, <2>1, <3>1, CallsInIs DEF CanEnter, In, Outside
  <2>3. CASE ~call.handler
    <3>1. MainAt(t) = call.at /\ HandlerAt(t) = "none"
      BY <1>1, <1>2, <2>3 DEF MainAt, HandlerAt
    <3>2. QED
      BY <1>8, <2>1, <2>3, <3>1, CallsInIs DEF CanEnter, In, Outside
  <2>4. QED
    BY <2>2, <2>3
<1>9. t[1].at = s[1].at
  BY <1>1, <1>2
<1>10. QED
  BY <1>7, <1>8, <1>9 DEF t, SameCalls

\* The stack t is s without the running call.
Returned(th, s, t) ==
    /\ Shape(th, t)
    /\ t[1].at = s[1].at
    /\ \A L : L \cap Outside = {} => CallsIn(t, L) = CallsIn(s, L) - In(s[Len(s)].at, L)

\* The return of a call or of the handler.
LEMMA ReturnRemoves ==
  ASSUME NEW th \in Threads, NEW s, Shape(th, s),
         s[Len(s)].at \in EnqueueLocations \cup PendingLocations
  PROVE  Returned(th, s, Front(s))
<1> DEFINE n == Len(s)
           t == Front(s)
<1>1. n \in 2 .. 3 /\ s \in Seq(Frame)
  BY DEF Shape, EnqueueLocations, PendingLocations, LoopLocations
<1>2. t \in Seq(Frame) /\ Len(t) = n - 1 /\ \A i \in 1 .. n - 1 : t[i] = s[i]
  BY <1>1 DEF Front
<1> HIDE DEF t
<1>3. \A i \in 1 .. n - 1 : ~s[i].handler
  BY <1>1 DEF Shape
<1>4. Shape(th, t)
  BY <1>1, <1>2, <1>3 DEF Shape
<1>5. ASSUME NEW L, L \cap Outside = {}
      PROVE  CallsIn(t, L) = CallsIn(s, L) - In(s[n].at, L)
  <2>1. MainAt(t) = s[n - 1].at /\ HandlerAt(t) = "none"
    BY <1>1, <1>2, <1>3 DEF MainAt, HandlerAt
  <2>2. CASE s[n].handler
    <3>1. MainAt(s) = s[n - 1].at /\ HandlerAt(s) = s[n].at
      BY <2>2 DEF MainAt, HandlerAt
    <3>2. QED
      BY <1>5, <2>1, <3>1, CallsInIs DEF In, Outside
  <2>3. CASE ~s[n].handler
    <3>1. MainAt(s) = s[n].at /\ HandlerAt(s) = "none"
      BY <2>3 DEF MainAt, HandlerAt
    <3>2. n = 2 /\ s[n - 1].at \in {"idle", "executing"}
      BY <1>1, <2>3 DEF Shape
    <3>3. QED
      BY <1>5, <2>1, <3>1, <3>2, CallsInIs DEF In, Outside
  <2>4. QED
    BY <2>2, <2>3
<1>6. t[1].at = s[1].at
  BY <1>1, <1>2
<1>7. QED
  BY <1>4, <1>5, <1>6 DEF t, Returned

\* newTaskCond_.signal(): the loop that waits, interrupted by a handler or not, goes on.
LEMMA WakeMoves ==
  ASSUME NEW s, Shape(Loop, s), s[1].at = "waiting",
         NEW t, t = [s EXCEPT ![1].at = "reacquire"]
  PROVE  /\ Shape(Loop, t)
         /\ t[1].at = "reacquire"
         /\ \A L : L \cap Outside = {} => CallsIn(t, L) = CallsIn(s, L)
<1> DEFINE n == Len(s)
           e == [s[1] EXCEPT !.at = "reacquire"]
<1>1. n \in 1 .. 3 /\ s \in Seq(Frame) /\ s[1] \in Frame
  BY DEF Shape
<1>2. /\ e \in Frame /\ e.at = "reacquire" /\ e.task = s[1].task /\ e.handler = s[1].handler
  BY <1>1 DEF Frame, Locations
<1>3. t = [s EXCEPT ![1] = e]
  OBVIOUS
<1> HIDE DEF e
<1>4. /\ t \in Seq(Frame) /\ Len(t) = n /\ t[1] = e
      /\ \A i \in 1 .. n : i # 1 => t[i] = s[i]
  <2>1. 1 \in 1 .. n
    BY <1>1
  <2>2. QED
    BY <1>1, <1>2, <1>3, <2>1, SeqUpdate
<1>5. n \in 1 .. 2 /\ (n = 2 => s[2].handler)
  <2>1. \A i \in 2 .. n : s[i].handler /\ i = n
    BY DEF Shape
  <2>2. CASE n = 3
    <3>1. 2 \in 2 .. n
      BY <2>2
    <3>2. QED
      BY <2>1, <2>2, <3>1
  <2>3. CASE n = 2
    BY <2>1, <2>3
  <2>4. QED
    BY <1>1, <2>2, <2>3
<1>6. Shape(Loop, t)
  <2>1. t[1].at \in LoopLocations /\ ~t[1].handler
    BY <1>2, <1>4 DEF Shape, LoopLocations
  <2>2. n = 2 => t[2] = s[2]
    BY <1>4
  <2>3. QED
    BY <1>4, <1>5, <2>1, <2>2 DEF Shape
<1>7. ASSUME NEW L, L \cap Outside = {}
      PROVE  CallsIn(t, L) = CallsIn(s, L)
  <2>1. HandlerAt(t) = HandlerAt(s)
    <3>1. CASE n = 1
      <4>1. t[Len(t)].handler = s[n].handler /\ ~s[n].handler
        BY <1>2, <1>4, <3>1 DEF Shape
      <4>2. QED
        BY <4>1 DEF HandlerAt
    <3>2. CASE n = 2
      <4>1. Len(t) = 2 /\ Len(s) = 2
        BY <1>4, <3>2
      <4>2. t[2] = s[2]
        BY <1>4, <3>2
      <4>3. t[Len(t)] = s[Len(s)]
        BY <4>1, <4>2, Zenon
      <4>4. QED
        BY <4>3, SameTop, Zenon
    <3>3. QED
      BY <1>5, <3>1, <3>2
  <2>2. MainAt(t) = "reacquire" /\ MainAt(s) = "waiting"
    <3>1. CASE n = 1
      <4>1. ~s[1].handler
        BY DEF Shape
      <4>2. QED
        BY <1>2, <1>4, <3>1, <4>1 DEF MainAt
    <3>2. CASE n = 2
      <4>1. Len(t) = 2 /\ Len(s) = 2 /\ 2 - 1 = 1
        BY <1>4, <3>2
      <4>2. t[2] = s[2] /\ s[2].handler /\ t[1].at = "reacquire"
        BY <1>2, <1>4, <1>5, <3>2
      <4>3. /\ t[Len(t)].handler /\ t[Len(t) - 1].at = "reacquire"
            /\ s[Len(s)].handler /\ s[Len(s) - 1].at = "waiting"
        BY <4>1, <4>2, Zenon
      <4>4. QED
        BY <4>3, Zenon DEF MainAt
    <3>3. QED
      BY <1>5, <3>1, <3>2
  <2>3. QED
    BY <1>7, <2>1, <2>2, CallsInIs DEF In, Outside
<1>8. QED
  BY <1>2, <1>4, <1>6, <1>7

\* The loop's own call, with nothing on top of it.
LEMMA LoopCall ==
  ASSUME NEW s, Shape(Loop, s), s[Len(s)].at \in LoopLocations
  PROVE  /\ Len(s) = 1
         /\ \A L : CallsIn(s, L) = In(s[1].at, L) + In("none", L)
<1>1. Len(s) = 1 /\ ~s[1].handler
  BY DEF Shape, LoopLocations, EnqueueLocations, PendingLocations
<1>2. MainAt(s) = s[1].at /\ HandlerAt(s) = "none"
  BY <1>1 DEF MainAt, HandlerAt
<1>3. QED
  BY <1>1, <1>2, CallsInIs

LEMMA NewLoopCall ==
  ASSUME NEW at \in LoopLocations, NEW task \in Tasks \cup {NoTask}
  PROVE  /\ Shape(Loop, <<Call(at, task, FALSE)>>)
         /\ <<Call(at, task, FALSE)>>[1].at = at
         /\ \A L : CallsIn(<<Call(at, task, FALSE)>>, L) = In(at, L) + In("none", L)
<1> DEFINE c == Call(at, task, FALSE)
<1>1. c \in Frame /\ c.at = at /\ c.handler = FALSE
  BY DEF Call, Frame, Locations, LoopLocations
<1> HIDE DEF c
<1>2. Shape(Loop, <<c>>)
  BY <1>1 DEF Shape
<1>3. Len(<<c>>) = 1 /\ <<c>>[1] = c
  OBVIOUS
<1>4. MainAt(<<c>>) = at /\ HandlerAt(<<c>>) = "none"
  BY <1>1, <1>3 DEF MainAt, HandlerAt
<1>5. \A L : CallsIn(<<c>>, L) = In(at, L) + In("none", L)
  BY <1>4, CallsInIs
<1>6. QED
  BY <1>1, <1>2, <1>3, <1>5 DEF c

(***************************************************************************)
(* What a step does to the mutexes and the counters                        *)
(***************************************************************************)

\* One mutex, and a thread that takes it or releases it once.
LEMMA LockOne ==
  ASSUME NEW m, NEW l, NEW st, NEW st2, NEW th \in Threads, LockOK(m, l, st),
         l.owner \in {NoThread, th},
         CallsIn(st2[th], Holding(m)) = CallsIn(st[th], Holding(m)) + 1,
         \A other \in Threads \ {th} : CallsIn(st2[other], Holding(m)) = CallsIn(st[other], Holding(m))
  PROVE  LockOK(m, [owner |-> th, depth |-> l.depth + 1], st2)
<1>1. th # NoThread
  BY ThreadAssumption DEF Threads
<1>2. l.depth \in 0 .. 2 /\ CallsIn(st[th], Holding(m)) = l.depth
  BY <1>1 DEF LockOK
<1>3. CallsIn(st2[th], Holding(m)) \in 0 .. 2
  BY CallsInIs
<1>4. l.depth + 1 \in 0 .. 2 /\ l.depth + 1 # 0
  BY <1>2, <1>3
<1>5. \A other \in Threads \ {th} : CallsIn(st2[other], Holding(m)) = 0
  BY DEF LockOK
<1>6. QED
  BY <1>1, <1>2, <1>4, <1>5 DEF LockOK

LEMMA UnlockOne ==
  ASSUME NEW m, NEW l, NEW st, NEW st2, NEW th \in Threads, LockOK(m, l, st),
         CallsIn(st[th], Holding(m)) > 0,
         CallsIn(st2[th], Holding(m)) = CallsIn(st[th], Holding(m)) - 1,
         \A other \in Threads \ {th} : CallsIn(st2[other], Holding(m)) = CallsIn(st[other], Holding(m))
  PROVE  LockOK(m, Unlocked(l), st2)
<1>1. th # NoThread
  BY ThreadAssumption DEF Threads
<1>2. l.owner = th /\ l.depth \in 1 .. 2 /\ CallsIn(st[th], Holding(m)) = l.depth
  BY CallsInIs DEF LockOK
<1>3. \A other \in Threads \ {th} : CallsIn(st2[other], Holding(m)) = 0
  BY <1>2 DEF LockOK
<1>4. CallsIn(st2[th], Holding(m)) = l.depth - 1
  BY <1>2
<1>5. CASE l.depth = 1
  <2>1. Unlocked(l) = [owner |-> NoThread, depth |-> 0]
    BY <1>5 DEF Unlocked
  <2>2. \A o \in Threads : CallsIn(st2[o], Holding(m)) = 0 /\ o # NoThread
    BY <1>3, <1>4, <1>5, ThreadAssumption DEF Threads
  <2>3. QED
    BY <2>1, <2>2 DEF LockOK
<1>6. CASE l.depth = 2
  <2>1. Unlocked(l) = [owner |-> th, depth |-> 1]
    BY <1>2, <1>6 DEF Unlocked, LockOK
  <2>2. CallsIn(st2[th], Holding(m)) = 1
    <3>1. CallsIn(st2[th], Holding(m)) = 2 - 1
      BY <1>4, <1>6
    <3>2. 2 - 1 = 1
      OBVIOUS
    <3>3. QED
      BY <3>1, <3>2, Zenon
  <2>3. QED
    BY <1>1, <1>3, <2>1, <2>2 DEF LockOK
<1>7. QED
  BY <1>2, <1>5, <1>6

LEMMA SameLock ==
  ASSUME NEW m, NEW l, NEW st, NEW st2, LockOK(m, l, st),
         \A th \in Threads : CallsIn(st2[th], Holding(m)) = CallsIn(st[th], Holding(m))
  PROVE  LockOK(m, l, st2)
BY DEF LockOK

\* The stack of one thread is replaced.
LEMMA StackOfOne ==
  ASSUME Inv, NEW th \in Threads, NEW t, Shape(th, t), stack' = [stack EXCEPT ![th] = t]
  PROVE  /\ stack' \in [Threads -> Seq(Frame)]
         /\ stack'[th] = t
         /\ \A other \in Threads \ {th} : stack'[other] = stack[other]
         /\ \A o \in Threads : Shape(o, stack'[o])
<1>1. stack \in [Threads -> Seq(Frame)] /\ t \in Seq(Frame)
  BY DEF Inv, TypeOK, Shape
<1>2. stack' \in [Threads -> Seq(Frame)]
  BY <1>1
<1>3. stack'[th] = t /\ \A other \in Threads \ {th} : stack'[other] = stack[other]
  BY <1>1
<1>4. \A o \in Threads : Shape(o, stack'[o])
  BY <1>3 DEF Inv
<1>5. QED
  BY <1>2, <1>3, <1>4

\* The running call of a thread.
LEMMA RunningIs ==
  ASSUME Inv, NEW th \in Threads
  PROVE  /\ Shape(th, stack[th])
         /\ Running(th) = stack[th][Len(stack[th])]
         /\ Len(stack[th]) \in 1 .. 3
         /\ Running(th) \in Frame
<1>1. Shape(th, stack[th])
  BY DEF Inv
<1>2. Len(stack[th]) \in 1 .. 3 /\ stack[th] \in Seq(Frame)
  BY <1>1 DEF Shape
<1>3. Running(th) = stack[th][Len(stack[th])]
  BY DEF Running, Last
<1>4. stack[th][Len(stack[th])] \in Frame
  BY <1>2, SeqElement
<1>5. QED
  BY <1>1, <1>2, <1>3, <1>4

\* What Goto does: the running call of one thread is elsewhere in its function.
GotoDone(th, from, to) ==
    /\ stack' \in [Threads -> Seq(Frame)]
    /\ \A o \in Threads : Shape(o, stack'[o])
    /\ \A other \in Threads \ {th} : stack'[other] = stack[other]
    /\ \A L : CallsIn(stack'[th], L) = CallsIn(stack[th], L) - In(from, L) + In(to, L)
    /\ \/ stack'[Loop][1].at = stack[Loop][1].at
       \/ th = Loop /\ stack[Loop][1].at = from /\ stack'[Loop][1].at = to
    /\ th = Loop /\ Len(stack[Loop]) = 1 => stack'[Loop][1].at = to

\* A step within a function.
LEMMA GotoEffect ==
  ASSUME Inv, NEW th \in Threads, NEW from, NEW to, At(th, from), Goto(th, to),
         SameFunction(from, to), to # "enqueueTask", to = "push" => from = "enqueueTask"
  PROVE  GotoDone(th, from, to)
<1> DEFINE s == stack[th]
           t == [s EXCEPT ![Len(s)].at = to]
<1>1. Shape(th, s) /\ s[Len(s)].at = from /\ Len(s) \in 1 .. 3
  BY RunningIs DEF At
<1>2. /\ Shape(th, t)
      /\ t[1].at = IF Len(s) = 1 THEN to ELSE s[1].at
      /\ \A L : CallsIn(t, L) = CallsIn(s, L) - In(from, L) + In(to, L)
  <2> HIDE DEF s
  <2>1. t = [s EXCEPT ![Len(s)].at = to]
    OBVIOUS
  <2> HIDE DEF t
  <2>2. SameFunction(s[Len(s)].at, to) /\ (to = "push" => s[Len(s)].at = "enqueueTask")
    BY <1>1, Zenon
  <2>3. /\ Shape(th, t)
        /\ t[1].at = IF Len(s) = 1 THEN to ELSE s[1].at
        /\ \A L : CallsIn(t, L) = CallsIn(s, L) - In(s[Len(s)].at, L) + In(to, L)
    <3>1. CanMove(s, to, t)
      BY <2>1, <2>2 DEF CanMove
    <3>2. Moved(th, s, to, t)
      BY <1>1, <3>1, GotoMoves
    <3>3. QED
      BY <3>2, Zenon DEF Moved
  <2>4. QED
    BY <1>1, <2>3, Zenon
<1>3. stack' = [stack EXCEPT ![th] = t]
  BY DEF Goto
<1> HIDE DEF t
<1>4. /\ stack' \in [Threads -> Seq(Frame)]
      /\ stack'[th] = t
      /\ \A other \in Threads \ {th} : stack'[other] = stack[other]
      /\ \A o \in Threads : Shape(o, stack'[o])
  BY <1>2, <1>3, StackOfOne
<1>5. \/ stack'[Loop][1].at = stack[Loop][1].at
      \/ th = Loop /\ stack[Loop][1].at = from /\ stack'[Loop][1].at = to
  <2>1. Loop \in Threads
    BY DEF Threads
  <2>2. CASE th # Loop
    BY <1>4, <2>1, <2>2
  <2>3. CASE th = Loop
    BY <1>1, <1>2, <1>4, <2>3
  <2>4. QED
    BY <2>2, <2>3
<1>6. th = Loop /\ Len(stack[Loop]) = 1 => stack'[Loop][1].at = to
  BY <1>2, <1>4
<1>7. QED
  BY <1>2, <1>4, <1>5, <1>6 DEF GotoDone

\* The mutexes after a step that leaves them, and the calls that hold them, alone.
LEMMA KeepLocks ==
  ASSUME Inv, mutex' = mutex,
         \A th \in Threads, m \in {"queue", "count"} :
             CallsIn(stack'[th], Holding(m)) = CallsIn(stack[th], Holding(m))
  PROVE  LockInv'
BY SameLock DEF Inv, LockInv

\* The counters after a step that leaves them, and what is owed to them, alone.
LEMMA KeepCount ==
  ASSUME Inv, taskCount' = taskCount, taskQueue' = taskQueue, Popped' = Popped,
         \A th \in Threads : Uncounted(stack'[th]) = Uncounted(stack[th])
  PROVE  CountInv'
BY DEF Inv, CountInv

(***************************************************************************)
(* The steps                                                               *)
(***************************************************************************)

UncountedLocations == {"countLock", "count"}

\* Which locations a step may lead from and to that takes mutex m: exactly that
\* mutex is held afterwards, and neither the queue nor the counters are touched.
LockMove(from, m, to) ==
    /\ SameFunction(from, to) /\ to # "enqueueTask" /\ (to = "push" => from = "enqueueTask")
    /\ In(from, Holding(m)) = 0 /\ In(to, Holding(m)) = 1
    /\ \A x \in {"queue", "count"} \ {m} : In(from, Holding(x)) = In(to, Holding(x))
    /\ In(from, UncountedLocations) = In(to, UncountedLocations)
    /\ from \in {"uncountLock", "uncount"} <=> to \in {"uncountLock", "uncount"}
    /\ to \in {"executing", "popLock", "pop"} => from \in {"executing", "popLock", "pop"}

LEMMA LockMoves ==
  /\ LockMove("enqueueTask", "queue", "push")
  /\ LockMove("countLock", "count", "count")
  /\ LockMove("pendingTasks", "count", "sum")
  /\ LockMove("top", "queue", "while")
  /\ LockMove("reacquire", "queue", "while")
  /\ LockMove("popLock", "queue", "pop")
  /\ LockMove("uncountLock", "count", "uncount")
BY DEF LockMove, SameFunction, EnqueueLocations, PendingLocations, LoopLocations, In,
       Holding, UncountedLocations

LEMMA LockStep ==
  ASSUME Inv, NEW th \in Threads, NEW from, NEW m \in {"queue", "count"}, NEW to,
         LockAndGoto(th, from, m, to), LockMove(from, m, to)
  PROVE  Inv'
<1>1. /\ At(th, from) /\ Goto(th, to) /\ Available(m, th)
      /\ mutex' = Locked(m, th)
      /\ UNCHANGED <<taskQueue, taskCount, sigPending, stage, corrupted>>
  BY DEF LockAndGoto
<1>2. GotoDone(th, from, to)
  BY <1>1, GotoEffect DEF LockMove
<1>3. ASSUME NEW L, In(from, L) = In(to, L), NEW o \in Threads
      PROVE  CallsIn(stack'[o], L) = CallsIn(stack[o], L)
  <2>1. CASE o # th
    BY <1>2, <2>1 DEF GotoDone
  <2>2. CASE o = th
    <3>1. CallsIn(stack'[th], L) = CallsIn(stack[th], L) - In(from, L) + In(to, L)
      BY <1>2 DEF GotoDone
    <3>2. CallsIn(stack[th], L) \in 0 .. 2 /\ In(from, L) \in 0 .. 1
      BY CallsInIs, InIs
    <3>3. QED
      BY <1>3, <2>2, <3>1, <3>2
  <2>3. QED
    BY <2>1, <2>2
<1>4. /\ mutex'[m] = [owner |-> th, depth |-> mutex[m].depth + 1]
      /\ \A x \in {"queue", "count"} \ {m} : mutex'[x] = mutex[x]
      /\ DOMAIN mutex' = {"queue", "count"}
      /\ mutex' = [x \in {"queue", "count"} |-> mutex'[x]]
  BY <1>1 DEF Locked, Inv, TypeOK
<1>5. LockOK(m, mutex'[m], stack')
  <2>1. LockOK(m, mutex[m], stack) /\ mutex[m].owner \in {NoThread, th}
    BY <1>1 DEF Inv, LockInv, Available
  <2>2. CallsIn(stack'[th], Holding(m)) = CallsIn(stack[th], Holding(m)) - In(from, Holding(m)) + In(to, Holding(m))
    BY <1>2 DEF GotoDone
  <2>3. In(from, Holding(m)) = 0 /\ In(to, Holding(m)) = 1
    BY DEF LockMove
  <2>4. CallsIn(stack'[th], Holding(m)) = CallsIn(stack[th], Holding(m)) + 1
    BY <2>2, <2>3, CallsInIs
  <2>5. \A other \in Threads \ {th} : CallsIn(stack'[other], Holding(m)) = CallsIn(stack[other], Holding(m))
    BY <1>2 DEF GotoDone
  <2>6. LockOK(m, [owner |-> th, depth |-> mutex[m].depth + 1], stack')
    BY <2>1, <2>4, <2>5, LockOne
  <2>7. QED
    BY <1>4, <2>6
<1>6. ASSUME NEW x \in {"queue", "count"}, x # m
      PROVE  LockOK(x, mutex'[x], stack')
  <2>1. LockOK(x, mutex[x], stack)
    BY DEF Inv, LockInv
  <2>2. In(from, Holding(x)) = In(to, Holding(x))
    BY <1>6 DEF LockMove
  <2>3. \A o \in Threads : CallsIn(stack'[o], Holding(x)) = CallsIn(stack[o], Holding(x))
    BY <1>3, <2>2
  <2>4. mutex'[x] = mutex[x]
    BY <1>4, <1>6
  <2>5. QED
    BY <2>1, <2>3, <2>4, SameLock
<1>7. LockInv'
  BY <1>5, <1>6 DEF LockInv
<1>8. TypeOK'
  <2>1. \A x \in {"queue", "count"} :
            mutex'[x] \in [owner : Threads \cup {NoThread}, depth : 0 .. 2]
    BY <1>5, <1>6 DEF LockOK
  <2>2. mutex' \in [{"queue", "count"} -> [owner : Threads \cup {NoThread}, depth : 0 .. 2]]
    BY <1>4, <2>1
  <2>3. stack' \in [Threads -> Seq(Frame)]
    BY <1>2 DEF GotoDone
  <2>4. QED
    BY <1>1, <2>2, <2>3 DEF Inv, TypeOK
<1>9. \A o \in Threads : Shape(o, stack'[o])
  BY <1>2 DEF GotoDone
<1>10. QueueInv'
  BY <1>1, <1>2 DEF GotoDone, LockMove, Inv, QueueInv
<1>11. CountInv'
  <2>1. Popped' = Popped
    BY <1>2 DEF GotoDone, LockMove, Popped
  <2>2. In(from, UncountedLocations) = In(to, UncountedLocations)
    BY DEF LockMove
  <2>3. \A o \in Threads : Uncounted(stack'[o]) = Uncounted(stack[o])
    BY <1>3, <2>2 DEF Uncounted, UncountedLocations
  <2>4. QED
    BY <1>1, <2>1, <2>3, KeepCount
<1>12. QED
  BY <1>7, <1>8, <1>9, <1>10, <1>11 DEF Inv

LEMMA AcquireStep ==
  ASSUME Inv, NEW th \in Threads, Acquire(th)
  PROVE  Inv'
<1>1. Loop \in Threads
  BY DEF Threads
<1>2. CASE EnqueueLock(th)
  BY <1>2, LockMoves, LockStep DEF EnqueueLock
<1>3. CASE EnqueueCountLock(th)
  BY <1>3, LockMoves, LockStep DEF EnqueueCountLock
<1>4. CASE PendingTasksLock(th)
  BY <1>4, LockMoves, LockStep DEF PendingTasksLock
<1>5. CASE LoopLock
  BY <1>1, <1>5, LockMoves, LockStep DEF LoopLock
<1>6. CASE LoopReacquire
  BY <1>1, <1>6, LockMoves, LockStep DEF LoopReacquire
<1>7. CASE LoopPopLock
  BY <1>1, <1>7, LockMoves, LockStep DEF LoopPopLock
<1>8. CASE LoopCountLock
  BY <1>1, <1>8, LockMoves, LockStep DEF LoopCountLock
<1>9. QED
  BY <1>2, <1>3, <1>4, <1>5, <1>6, <1>7, <1>8 DEF Acquire

\* What a step does to the calls that matter: those of one thread move from one
\* location to another, where "none" stands for no call.
Effect(th, from, to) ==
    \A L : L \cap Outside = {} =>
        /\ CallsIn(stack'[th], L) = CallsIn(stack[th], L) - In(from, L) + In(to, L)
        /\ \A other \in Threads \ {th} : CallsIn(stack'[other], L) = CallsIn(stack[other], L)

LEMMA GotoHasEffect ==
  ASSUME NEW th \in Threads, NEW from, NEW to, GotoDone(th, from, to)
  PROVE  Effect(th, from, to)
BY DEF GotoDone, Effect

\* What the step does to the mutex: nothing, or it is released once.
ReleasesOrKeeps(m, from, to) ==
    \/ mutex'[m] = mutex[m] /\ In(from, Holding(m)) = In(to, Holding(m))
    \/ mutex'[m] = Unlocked(mutex[m]) /\ In(from, Holding(m)) = 1 /\ In(to, Holding(m)) = 0

LEMMA LocksAfter ==
  ASSUME Inv, NEW th \in Threads, NEW from, NEW to, Effect(th, from, to),
         mutex' = [m \in {"queue", "count"} |-> mutex'[m]],
         \A m \in {"queue", "count"} : ReleasesOrKeeps(m, from, to)
  PROVE  /\ LockInv'
         /\ mutex' \in [{"queue", "count"} -> [owner : Threads \cup {NoThread}, depth : 0 .. 2]]
<1>1. ASSUME NEW m \in {"queue", "count"}
      PROVE  LockOK(m, mutex'[m], stack')
  <2> DEFINE H == Holding(m)
  <2>1. LockOK(m, mutex[m], stack) /\ ReleasesOrKeeps(m, from, to)
    BY DEF Inv, LockInv
  <2>2. /\ CallsIn(stack'[th], H) = CallsIn(stack[th], H) - In(from, H) + In(to, H)
        /\ \A other \in Threads \ {th} : CallsIn(stack'[other], H) = CallsIn(stack[other], H)
    BY WatchedLocations DEF Effect
  <2>3. CallsIn(stack[th], H) \in 0 .. 2 /\ CallsIn(stack'[th], H) \in 0 .. 2 /\ In(to, H) \in 0 .. 1
    BY CallsInIs, InIs
  <2>4. CASE mutex'[m] = mutex[m] /\ In(from, H) = In(to, H)
    <3>1. CallsIn(stack'[th], H) = CallsIn(stack[th], H)
      BY <2>2, <2>3, <2>4
    <3>2. \A o \in Threads : CallsIn(stack'[o], H) = CallsIn(stack[o], H)
      BY <2>2, <3>1
    <3>3. LockOK(m, mutex[m], stack')
      BY <2>1, <3>2, SameLock
    <3>4. QED
      BY <2>4, <3>3
  <2>5. CASE mutex'[m] = Unlocked(mutex[m]) /\ In(from, H) = 1 /\ In(to, H) = 0
    <3>1. CallsIn(stack'[th], H) = CallsIn(stack[th], H) - 1 /\ CallsIn(stack[th], H) > 0
      BY <2>2, <2>3, <2>5
    <3>2. LockOK(m, Unlocked(mutex[m]), stack')
      BY <2>1, <2>2, <3>1, UnlockOne
    <3>3. QED
      BY <2>5, <3>2
  <2>6. QED
    BY <2>1, <2>4, <2>5 DEF ReleasesOrKeeps
<1>2. LockInv'
  BY <1>1 DEF LockInv
<1>3. \A m \in {"queue", "count"} :
          mutex'[m] \in [owner : Threads \cup {NoThread}, depth : 0 .. 2]
  BY <1>1 DEF LockOK
<1>4. QED
  BY <1>2, <1>3

\* What is owed to the counters after a step.
LEMMA UncountedAfter ==
  ASSUME NEW th \in Threads, NEW from, NEW to, Effect(th, from, to)
  PROVE  /\ Uncounted(stack'[th]) = Uncounted(stack[th]) - In(from, UncountedLocations)
                                      + In(to, UncountedLocations)
         /\ \A other \in Threads \ {th} : Uncounted(stack'[other]) = Uncounted(stack[other])
BY WatchedLocations DEF Effect, Uncounted, UncountedLocations

LEMMA UncountedType ==
  ASSUME NEW s
  PROVE  Uncounted(s) \in 0 .. 2
BY CallsInIs DEF Uncounted

\* A thread whose running call holds queueMutex_ is the only one that owes the
\* counters anything.
LEMMA OwnerOnly ==
  ASSUME Inv, NEW th \in Threads, Running(th).at \in Holding("queue")
  PROVE  /\ \A other \in Threads \ {th} : Uncounted(stack[other]) = 0
         /\ taskCount = Len(taskQueue) - Uncounted(stack[th]) + Popped
<1> DEFINE H == Holding("queue")
<1>1. CallsIn(stack[th], H) > 0
  <2>1. Running(th) = stack[th][Len(stack[th])]
    BY RunningIs
  <2>2. MainAt(stack[th]) \in H \/ HandlerAt(stack[th]) \in H
    BY <2>1 DEF MainAt, HandlerAt
  <2>3. QED
    BY <2>2 DEF CallsIn
<1>2. mutex["queue"].owner = th
  BY <1>1 DEF Inv, LockInv, LockOK
<1>3. \A other \in Threads \ {th} : CallsIn(stack[other], H) = 0
  BY <1>2 DEF Inv, LockInv, LockOK
<1>4. UncountedLocations \subseteq H
  BY DEF UncountedLocations, Holding
<1>5. ASSUME NEW other \in Threads \ {th}
      PROVE  Uncounted(stack[other]) = 0
  <2> HIDE DEF H
  <2>1. CallsIn(stack[other], H) = 0
    BY <1>3
  <2>2. MainAt(stack[other]) \notin H /\ HandlerAt(stack[other]) \notin H
    BY <2>1 DEF CallsIn
  <2>3. QED
    BY <1>4, <2>2 DEF Uncounted, CallsIn, UncountedLocations
<1>6. QED
  BY <1>5 DEF Inv, CountInv

\* The loop starts a round, or executes a task.
LEMMA LoopCallEffect ==
  ASSUME Inv, NEW from \in LoopLocations, At(Loop, from), NEW to \in LoopLocations,
         NEW task \in Tasks \cup {NoTask},
         stack' = [stack EXCEPT ![Loop] = <<Call(to, task, FALSE)>>]
  PROVE  GotoDone(Loop, from, to) /\ stack'[Loop][1].at = to /\ stack[Loop][1].at = from
<1> DEFINE t == <<Call(to, task, FALSE)>>
           s == stack[Loop]
<1>1. Loop \in Threads
  BY DEF Threads
<1>2. Shape(Loop, s) /\ s[Len(s)].at = from
  BY <1>1, RunningIs DEF At
<1>3. Len(s) = 1 /\ \A L : CallsIn(s, L) = In(s[1].at, L) + In("none", L)
  <2> HIDE DEF s
  <2>1. QED
    BY <1>2, LoopCall
<1>4. s[1].at = from
  BY <1>2, <1>3
<1>5. /\ Shape(Loop, t) /\ t[1].at = to
      /\ \A L : CallsIn(t, L) = In(to, L) + In("none", L)
  BY NewLoopCall
<1> HIDE DEF t
<1>6. /\ stack' \in [Threads -> Seq(Frame)]
      /\ stack'[Loop] = t
      /\ \A other \in Threads \ {Loop} : stack'[other] = stack[other]
      /\ \A o \in Threads : Shape(o, stack'[o])
  <2>1. stack' = [stack EXCEPT ![Loop] = t]
    BY DEF t
  <2>2. QED
    BY <1>1, <1>5, <2>1, StackOfOne
<1>7. ASSUME NEW L
      PROVE  CallsIn(stack'[Loop], L) = CallsIn(stack[Loop], L) - In(from, L) + In(to, L)
  <2>1. /\ CallsIn(stack'[Loop], L) = In(to, L) + In("none", L)
        /\ CallsIn(stack[Loop], L) = In(from, L) + In("none", L)
    BY <1>3, <1>4, <1>5, <1>6
  <2>2. In(to, L) \in 0 .. 1 /\ In(from, L) \in 0 .. 1 /\ In("none", L) \in 0 .. 1
    BY InIs
  <2>3. QED
    BY <2>1, <2>2
<1>8. stack'[Loop][1].at = to
  BY <1>5, <1>6
<1>9. QED
  BY <1>4, <1>6, <1>7, <1>8 DEF GotoDone

\* A step of the loop's own call within eventLoop.
LEMMA LoopGotoEffect ==
  ASSUME Inv, NEW from \in LoopLocations, At(Loop, from), NEW to \in LoopLocations,
         Goto(Loop, to)
  PROVE  GotoDone(Loop, from, to) /\ stack'[Loop][1].at = to /\ stack[Loop][1].at = from
<1> DEFINE s == stack[Loop]
<1>1. Loop \in Threads
  BY DEF Threads
<1>2. Shape(Loop, s) /\ s[Len(s)].at = from
  BY <1>1, RunningIs DEF At
<1>3. Len(s) = 1
  <2> HIDE DEF s
  <2>1. QED
    BY <1>2, LoopCall
<1>4. SameFunction(from, to) /\ to # "enqueueTask" /\ to # "push"
  BY DEF SameFunction, LoopLocations
<1>5. GotoDone(Loop, from, to)
  BY <1>1, <1>4, GotoEffect
<1>6. stack'[Loop][1].at = to /\ stack[Loop][1].at = from
  BY <1>2, <1>3, <1>5 DEF GotoDone
<1>7. QED
  BY <1>5, <1>6

\* What is left to show of a step, once it is known what it does to the calls.
LEMMA CombineStep ==
  ASSUME Inv, NEW th \in Threads, NEW from, NEW to, Effect(th, from, to),
         stack' \in [Threads -> Seq(Frame)], \A o \in Threads : Shape(o, stack'[o]),
         mutex' = [m \in {"queue", "count"} |-> mutex'[m]],
         \A m \in {"queue", "count"} : ReleasesOrKeeps(m, from, to),
         taskQueue' \in Seq(Tasks), taskCount' \in Nat,
         sigPending' \in Completions \cup {NoTask},
         stage' \in [Tasks -> {"new", "merged", "signalled", "handed", "queued", "executed"}],
         corrupted' \in BOOLEAN, QueueInv', CountInv'
  PROVE  Inv'
<1>1. LockInv' /\ mutex' \in [{"queue", "count"} -> [owner : Threads \cup {NoThread}, depth : 0 .. 2]]
  BY LocksAfter
<1>2. TypeOK'
  BY <1>1 DEF TypeOK
<1>3. QED
  BY <1>1, <1>2 DEF Inv

LEMMA MutexIsFunction ==
  ASSUME Inv
  PROVE  /\ mutex = [m \in {"queue", "count"} |-> mutex[m]]
         /\ DOMAIN mutex = {"queue", "count"}
BY DEF Inv, TypeOK

\* An operation ends; no thread notices.
LEMMA CompleteStep ==
  ASSUME Inv, NEW t \in Completions, Complete(t)
  PROVE  Inv'
<1>1. /\ sigPending' \in Completions \cup {NoTask}
      /\ stage' \in [Tasks -> {"new", "merged", "signalled", "handed", "queued", "executed"}]
  BY DEF Complete, Inv, TypeOK
<1>2. UNCHANGED <<taskQueue, taskCount, mutex, stack, corrupted>>
  BY DEF Complete
<1>3. QED
  BY <1>1, <1>2 DEF Inv, TypeOK, LockInv, QueueInv, CountInv, Popped

\* A call of enqueueTask or pendingTasks, and the handler's.
LEMMA EnterStep ==
  ASSUME Inv, NEW th \in Threads, NEW call, CanEnter(stack[th], call), Enter(th, call),
         UNCHANGED <<taskQueue, taskCount, mutex, corrupted>>,
         sigPending' \in Completions \cup {NoTask},
         stage' \in [Tasks -> {"new", "merged", "signalled", "handed", "queued", "executed"}]
  PROVE  Inv'
<1> DEFINE t == Append(stack[th], call)
<1>1. SameCalls(th, stack[th], t)
  BY EnterAdds, RunningIs
<1>2. stack' = [stack EXCEPT ![th] = t]
  BY DEF Enter
<1> HIDE DEF t
<1>3. /\ stack' \in [Threads -> Seq(Frame)]
      /\ stack'[th] = t
      /\ \A other \in Threads \ {th} : stack'[other] = stack[other]
      /\ \A o \in Threads : Shape(o, stack'[o])
  BY <1>1, <1>2, StackOfOne DEF SameCalls
<1>4. \A L : L \cap Outside = {} => \A o \in Threads : CallsIn(stack'[o], L) = CallsIn(stack[o], L)
  BY <1>1, <1>3 DEF SameCalls
<1>5. LockInv'
  <2>1. \A o \in Threads, m \in {"queue", "count"} :
            CallsIn(stack'[o], Holding(m)) = CallsIn(stack[o], Holding(m))
    BY <1>4, WatchedLocations
  <2>2. QED
    BY <2>1, KeepLocks
<1>6. stack'[Loop][1].at = stack[Loop][1].at
  BY <1>1, <1>3 DEF SameCalls, Threads
<1>7. QueueInv'
  BY <1>6 DEF Inv, QueueInv
<1>8. CountInv'
  <2>1. \A o \in Threads : Uncounted(stack'[o]) = Uncounted(stack[o])
    BY <1>4, WatchedLocations DEF Uncounted
  <2>2. Popped' = Popped
    BY <1>6 DEF Popped
  <2>3. QED
    BY <2>1, <2>2, KeepCount
<1>9. TypeOK'
  BY <1>3 DEF Inv, TypeOK
<1>10. QED
  BY <1>3, <1>5, <1>7, <1>8, <1>9 DEF Inv

LEMMA AioDoneStep ==
  ASSUME Inv, NEW th \in Threads, aio_done(th)
  PROVE  Inv'
<1> DEFINE call == Call("enqueueTask", sigPending, TRUE)
<1>1. sigPending \in Completions /\ sigPending \in Tasks
  BY DEF aio_done, Inv, TypeOK, Tasks
<1>2. call \in Frame /\ call.at = "enqueueTask" /\ call.task = sigPending /\ call.handler = TRUE
  BY <1>1 DEF Call, Frame, Locations
<1>3. Enter(th, call) /\ \A i \in DOMAIN stack[th] : ~stack[th][i].handler
  BY DEF aio_done
<1> HIDE DEF call
<1>4. CanEnter(stack[th], call)
  <2>1. DOMAIN stack[th] = 1 .. Len(stack[th])
    BY RunningIs DEF Shape
  <2>2. QED
    BY <1>1, <1>2, <1>3, <2>1 DEF CanEnter
<1>5. stage' \in [Tasks -> {"new", "merged", "signalled", "handed", "queued", "executed"}]
  BY DEF aio_done, Inv, TypeOK
<1>6. UNCHANGED <<taskQueue, taskCount, mutex, corrupted>> /\ sigPending' = NoTask
  BY DEF aio_done
<1>7. QED
  BY <1>3, <1>4, <1>5, <1>6, EnterStep

LEMMA CallEnqueueTaskStep ==
  ASSUME Inv, NEW th \in Threads, NEW t \in ClientTasks, CallEnqueueTask(th, t)
  PROVE  Inv'
<1> DEFINE call == Call("enqueueTask", t, FALSE)
<1>1. call \in Frame /\ call.at = "enqueueTask" /\ call.task \in Tasks /\ call.handler = FALSE
  BY DEF Call, Frame, Locations, Tasks
<1>2. Enter(th, call) /\ Running(th).at \in {"idle", "executing"}
  BY DEF CallEnqueueTask
<1> HIDE DEF call
<1>3. CanEnter(stack[th], call)
  BY <1>1, <1>2, RunningIs DEF CanEnter
<1>4. stage' \in [Tasks -> {"new", "merged", "signalled", "handed", "queued", "executed"}]
  BY DEF CallEnqueueTask, Inv, TypeOK
<1>5. UNCHANGED <<taskQueue, taskCount, mutex, sigPending, corrupted>>
  BY DEF CallEnqueueTask
<1>6. sigPending' \in Completions \cup {NoTask}
  BY <1>5 DEF Inv, TypeOK
<1>7. QED
  BY <1>2, <1>3, <1>4, <1>5, <1>6, EnterStep

LEMMA CallPendingTasksStep ==
  ASSUME Inv, NEW th \in Threads, CallPendingTasks(th)
  PROVE  Inv'
<1> DEFINE call == Call("pendingTasks", NoTask, FALSE)
<1>1. call \in Frame /\ call.at = "pendingTasks" /\ call.handler = FALSE
  BY DEF Call, Frame, Locations
<1>2. Enter(th, call) /\ Running(th).at \in {"idle", "executing"}
  BY DEF CallPendingTasks
<1> HIDE DEF call
<1>3. CanEnter(stack[th], call)
  BY <1>1, <1>2, RunningIs DEF CanEnter
<1>4. UNCHANGED <<taskQueue, taskCount, mutex, sigPending, stage, corrupted>>
  BY DEF CallPendingTasks
<1>5. /\ stage' \in [Tasks -> {"new", "merged", "signalled", "handed", "queued", "executed"}]
      /\ sigPending' \in Completions \cup {NoTask}
  BY <1>4 DEF Inv, TypeOK
<1>6. QED
  BY <1>2, <1>3, <1>4, <1>5, EnterStep

\* The loop's call moves without touching the queue or the counters.
LEMMA LoopMoveStep ==
  ASSUME Inv, NEW from \in LoopLocations, NEW to \in LoopLocations,
         GotoDone(Loop, from, to), stack'[Loop][1].at = to, stack[Loop][1].at = from,
         mutex' = [m \in {"queue", "count"} |-> mutex'[m]],
         \A m \in {"queue", "count"} : ReleasesOrKeeps(m, from, to),
         from \in {"uncountLock", "uncount"} <=> to \in {"uncountLock", "uncount"},
         to \in {"executing", "popLock", "pop"} => taskQueue # <<>>,
         UNCHANGED <<taskQueue, taskCount, sigPending, corrupted>>,
         stage' \in [Tasks -> {"new", "merged", "signalled", "handed", "queued", "executed"}]
  PROVE  Inv'
<1>1. Loop \in Threads
  BY DEF Threads
<1>2. Effect(Loop, from, to)
  BY <1>1, GotoHasEffect
<1>3. In(from, UncountedLocations) = 0 /\ In(to, UncountedLocations) = 0
  BY DEF In, UncountedLocations, LoopLocations
<1>4. \A th \in Threads : Uncounted(stack'[th]) = Uncounted(stack[th])
  <2>1. Uncounted(stack'[Loop]) = Uncounted(stack[Loop]) - 0 + 0
    BY <1>1, <1>2, <1>3, UncountedAfter
  <2>2. Uncounted(stack'[Loop]) = Uncounted(stack[Loop])
    BY <2>1, UncountedType
  <2>3. QED
    BY <1>1, <1>2, <2>2, UncountedAfter
<1>5. Popped' = Popped
  BY DEF Popped
<1>6. CountInv'
  BY <1>4, <1>5, KeepCount
<1>7. QueueInv'
  BY DEF QueueInv
<1>8. taskQueue' \in Seq(Tasks) /\ taskCount' \in Nat /\ sigPending' \in Completions \cup {NoTask}
      /\ corrupted' \in BOOLEAN
  BY DEF Inv, TypeOK
<1>9. QED
  BY <1>1, <1>2, <1>6, <1>7, <1>8, CombineStep DEF GotoDone

LEMMA StageType ==
  ASSUME Inv, stage' = stage
  PROVE  stage' \in [Tasks -> {"new", "merged", "signalled", "handed", "queued", "executed"}]
BY DEF Inv, TypeOK

LEMMA LoopEmptyStep ==
  ASSUME Inv, LoopEmpty
  PROVE  Inv'
<1>1. "while" \in LoopLocations /\ "sleep" \in LoopLocations
  BY DEF LoopLocations
<1>2. GotoDone(Loop, "while", "sleep") /\ stack'[Loop][1].at = "sleep" /\ stack[Loop][1].at = "while"
  BY <1>1, LoopGotoEffect DEF LoopEmpty
<1>3. UNCHANGED <<taskQueue, taskCount, mutex, sigPending, stage, corrupted>>
  BY DEF LoopEmpty
<1>4. \A m \in {"queue", "count"} : ReleasesOrKeeps(m, "while", "sleep")
  BY <1>3 DEF ReleasesOrKeeps, In, Holding
<1>5. QED
  BY <1>1, <1>2, <1>3, <1>4, MutexIsFunction, StageType, LoopMoveStep

LEMMA LoopTimeoutStep ==
  ASSUME Inv, LoopTimeout
  PROVE  Inv'
<1>1. "waiting" \in LoopLocations /\ "reacquire" \in LoopLocations
  BY DEF LoopLocations
<1>2. /\ GotoDone(Loop, "waiting", "reacquire")
      /\ stack'[Loop][1].at = "reacquire" /\ stack[Loop][1].at = "waiting"
  BY <1>1, LoopGotoEffect DEF LoopTimeout
<1>3. UNCHANGED <<taskQueue, taskCount, mutex, sigPending, stage, corrupted>>
  BY DEF LoopTimeout
<1>4. \A m \in {"queue", "count"} : ReleasesOrKeeps(m, "waiting", "reacquire")
  BY <1>3 DEF ReleasesOrKeeps, In, Holding
<1>5. QED
  BY <1>1, <1>2, <1>3, <1>4, MutexIsFunction, StageType, LoopMoveStep

LEMMA LoopTaskReturnsStep ==
  ASSUME Inv, LoopTaskReturns
  PROVE  Inv'
<1>1. "executing" \in LoopLocations /\ "popLock" \in LoopLocations
  BY DEF LoopLocations
<1>2. /\ GotoDone(Loop, "executing", "popLock")
      /\ stack'[Loop][1].at = "popLock" /\ stack[Loop][1].at = "executing"
  BY <1>1, LoopGotoEffect DEF LoopTaskReturns
<1>3. UNCHANGED <<taskQueue, taskCount, mutex, sigPending, corrupted>>
  BY DEF LoopTaskReturns
<1>4. \A m \in {"queue", "count"} : ReleasesOrKeeps(m, "executing", "popLock")
  BY <1>3 DEF ReleasesOrKeeps, In, Holding
<1>5. stage' \in [Tasks -> {"new", "merged", "signalled", "handed", "queued", "executed"}]
  BY DEF LoopTaskReturns, Inv, TypeOK
<1>6. taskQueue # <<>>
  BY <1>2 DEF Inv, QueueInv
<1>7. QED
  BY <1>1, <1>2, <1>3, <1>4, <1>5, <1>6, MutexIsFunction, LoopMoveStep

\* The queue's mutex is released and the other one is left alone.
LEMMA ReleaseQueue ==
  ASSUME Inv, mutex' = [mutex EXCEPT !["queue"] = Unlocked(@)], NEW from, NEW to,
         from \in Holding("queue") \ Holding("count"),
         to \notin Holding("queue") \cup Holding("count")
  PROVE  /\ mutex' = [m \in {"queue", "count"} |-> mutex'[m]]
         /\ \A m \in {"queue", "count"} : ReleasesOrKeeps(m, from, to)
<1>1. mutex' = [m \in {"queue", "count"} |-> mutex'[m]]
  BY MutexIsFunction
<1>2. mutex'["queue"] = Unlocked(mutex["queue"]) /\ mutex'["count"] = mutex["count"]
  BY MutexIsFunction
<1>3. QED
  BY <1>1, <1>2 DEF ReleasesOrKeeps, In

LEMMA LoopWaitStep ==
  ASSUME Inv, LoopWait
  PROVE  Inv'
<1>1. "sleep" \in LoopLocations /\ "waiting" \in LoopLocations
  BY DEF LoopLocations
<1>2. /\ GotoDone(Loop, "sleep", "waiting")
      /\ stack'[Loop][1].at = "waiting" /\ stack[Loop][1].at = "sleep"
  BY <1>1, LoopGotoEffect DEF LoopWait
<1>3. UNCHANGED <<taskQueue, taskCount, sigPending, stage, corrupted>>
  BY DEF LoopWait
<1>4. /\ mutex' = [m \in {"queue", "count"} |-> mutex'[m]]
      /\ \A m \in {"queue", "count"} : ReleasesOrKeeps(m, "sleep", "waiting")
  <2>1. "sleep" \in Holding("queue") \ Holding("count") /\ "waiting" \notin Holding("queue") \cup Holding("count")
    BY DEF Holding
  <2>2. mutex' = [mutex EXCEPT !["queue"] = Unlocked(@)]
    BY DEF LoopWait
  <2>3. QED
    BY <2>1, <2>2, ReleaseQueue
<1>5. QED
  BY <1>1, <1>2, <1>3, <1>4, StageType, LoopMoveStep

LEMMA LoopFrontStep ==
  ASSUME Inv, LoopFront
  PROVE  Inv'
<1>1. "while" \in LoopLocations /\ "executing" \in LoopLocations
  BY DEF LoopLocations
<1>2. taskQueue # <<>> /\ Head(taskQueue) \in Tasks
  BY DEF LoopFront, Inv, TypeOK
<1>3. /\ GotoDone(Loop, "while", "executing")
      /\ stack'[Loop][1].at = "executing" /\ stack[Loop][1].at = "while"
  BY <1>1, <1>2, LoopCallEffect DEF LoopFront
<1>4. UNCHANGED <<taskQueue, taskCount, sigPending, stage, corrupted>>
  BY DEF LoopFront
<1>5. /\ mutex' = [m \in {"queue", "count"} |-> mutex'[m]]
      /\ \A m \in {"queue", "count"} : ReleasesOrKeeps(m, "while", "executing")
  <2>1. "while" \in Holding("queue") \ Holding("count") /\ "executing" \notin Holding("queue") \cup Holding("count")
    BY DEF Holding
  <2>2. mutex' = [mutex EXCEPT !["queue"] = Unlocked(@)]
    BY DEF LoopFront
  <2>3. QED
    BY <2>1, <2>2, ReleaseQueue
<1>6. QED
  BY <1>1, <1>2, <1>3, <1>4, <1>5, StageType, LoopMoveStep

\* The loop pops the task it has executed: the counters lag behind by one.
LEMMA LoopPopStep ==
  ASSUME Inv, LoopPop
  PROVE  Inv'
<1>1. "pop" \in LoopLocations /\ "uncountLock" \in LoopLocations /\ Loop \in Threads
  BY DEF LoopLocations, Threads
<1>2. /\ GotoDone(Loop, "pop", "uncountLock")
      /\ stack'[Loop][1].at = "uncountLock" /\ stack[Loop][1].at = "pop"
  BY <1>1, LoopGotoEffect DEF LoopPop
<1>3. taskQueue' = Tail(taskQueue) /\ UNCHANGED <<taskCount, mutex, sigPending, stage, corrupted>>
  BY DEF LoopPop
<1>4. taskQueue # <<>> /\ taskQueue \in Seq(Tasks) /\ taskCount \in Nat
  BY <1>2 DEF Inv, QueueInv, TypeOK
<1>5. taskQueue' \in Seq(Tasks) /\ Len(taskQueue') = Len(taskQueue) - 1 /\ Len(taskQueue) \in Nat
  BY <1>3, <1>4
<1>6. \A m \in {"queue", "count"} : ReleasesOrKeeps(m, "pop", "uncountLock")
  BY <1>3 DEF ReleasesOrKeeps, In, Holding
<1>7. Effect(Loop, "pop", "uncountLock")
  BY <1>1, <1>2, GotoHasEffect
<1>8. \A th \in Threads : Uncounted(stack'[th]) = Uncounted(stack[th]) /\ Uncounted(stack[th]) \in 0 .. 2
  <2>1. In("pop", UncountedLocations) = 0 /\ In("uncountLock", UncountedLocations) = 0
    BY DEF In, UncountedLocations
  <2>2. Uncounted(stack'[Loop]) = Uncounted(stack[Loop]) - 0 + 0
    BY <1>1, <1>7, <2>1, UncountedAfter
  <2>3. Uncounted(stack'[Loop]) = Uncounted(stack[Loop])
    BY <2>2, UncountedType
  <2>4. QED
    BY <1>1, <1>7, <2>3, UncountedAfter, UncountedType
<1>9. CountInv'
  <2>1. Popped = 0 /\ Popped' = 1
    BY <1>2 DEF Popped
  <2>2. ASSUME NEW th \in Threads, \A other \in Threads \ {th} : Uncounted(stack'[other]) = 0
        PROVE  taskCount' = Len(taskQueue') - Uncounted(stack'[th]) + Popped'
    <3>1. \A other \in Threads \ {th} : Uncounted(stack[other]) = 0
      BY <1>8, <2>2
    <3>2. taskCount = Len(taskQueue) - Uncounted(stack[th]) + Popped
      BY <3>1 DEF Inv, CountInv
    <3>3. QED
      BY <1>3, <1>4, <1>5, <1>8, <2>1, <3>2
  <2>3. QED
    BY <2>2 DEF CountInv
<1>10. QueueInv'
  BY <1>2 DEF QueueInv
<1>11. /\ taskCount' \in Nat /\ sigPending' \in Completions \cup {NoTask}
       /\ stage' \in [Tasks -> {"new", "merged", "signalled", "handed", "queued", "executed"}]
       /\ corrupted' \in BOOLEAN
  BY <1>3 DEF Inv, TypeOK
<1>12. QED
  BY <1>1, <1>2, <1>3, <1>5, <1>6, <1>7, <1>9, <1>10, <1>11, MutexIsFunction, CombineStep DEF GotoDone

\* The loop's counter follows; both mutexes are released.
LEMMA LoopCountStep ==
  ASSUME Inv, LoopCount
  PROVE  Inv'
<1>1. "uncount" \in LoopLocations /\ "top" \in LoopLocations /\ Loop \in Threads
  BY DEF LoopLocations, Threads
<1>2. /\ GotoDone(Loop, "uncount", "top")
      /\ stack'[Loop][1].at = "top" /\ stack[Loop][1].at = "uncount"
  BY <1>1, LoopCallEffect DEF LoopCount
<1>3. /\ taskCount' = taskCount - 1
      /\ mutex' = [m \in {"queue", "count"} |-> Unlocked(mutex[m])]
      /\ UNCHANGED <<taskQueue, sigPending, stage, corrupted>>
  BY DEF LoopCount
<1>4. taskQueue \in Seq(Tasks) /\ Len(taskQueue) \in Nat /\ taskCount \in Nat
  BY DEF Inv, TypeOK
<1>5. \A m \in {"queue", "count"} : ReleasesOrKeeps(m, "uncount", "top")
  BY <1>3 DEF ReleasesOrKeeps, In, Holding
<1>6. Effect(Loop, "uncount", "top")
  BY <1>1, <1>2, GotoHasEffect
<1>7. Popped = 1 /\ Popped' = 0
  BY <1>2 DEF Popped
<1>8. Uncounted(stack[Loop]) = 0
  <2>1. Shape(Loop, stack[Loop]) /\ stack[Loop][Len(stack[Loop])].at \in LoopLocations
    BY <1>1, RunningIs DEF LoopCount, At
  <2>2. Uncounted(stack[Loop]) = In("uncount", UncountedLocations) + In("none", UncountedLocations)
    BY <1>2, <2>1, LoopCall DEF Uncounted, UncountedLocations
  <2>3. QED
    BY <2>2 DEF In, UncountedLocations
<1>9. /\ \A other \in Threads \ {Loop} : Uncounted(stack[other]) = 0
      /\ taskCount = Len(taskQueue) + 1
  <2>1. Running(Loop).at \in Holding("queue")
    BY DEF LoopCount, At, Holding
  <2>2. QED
    BY <1>1, <1>4, <1>7, <1>8, <2>1, OwnerOnly
<1>10. \A th \in Threads : Uncounted(stack'[th]) = 0
  <2>1. In("uncount", UncountedLocations) = 0 /\ In("top", UncountedLocations) = 0
    BY DEF In, UncountedLocations
  <2>2. Uncounted(stack'[Loop]) = 0
    BY <1>1, <1>6, <1>8, <2>1, UncountedAfter
  <2>3. QED
    BY <1>1, <1>6, <1>9, <2>2, UncountedAfter
<1>11. taskCount' = Len(taskQueue') /\ taskCount' \in Nat
  BY <1>3, <1>4, <1>9
<1>12. CountInv'
  BY <1>3, <1>4, <1>7, <1>10, <1>11 DEF CountInv
<1>13. QueueInv'
  BY <1>2 DEF QueueInv
<1>14. /\ taskQueue' \in Seq(Tasks) /\ sigPending' \in Completions \cup {NoTask}
       /\ stage' \in [Tasks -> {"new", "merged", "signalled", "handed", "queued", "executed"}]
       /\ corrupted' \in BOOLEAN
  BY <1>3 DEF Inv, TypeOK
<1>15. mutex' = [m \in {"queue", "count"} |-> mutex'[m]]
  BY <1>3
<1>16. QED
  BY <1>1, <1>2, <1>5, <1>6, <1>11, <1>12, <1>13, <1>14, <1>15, CombineStep DEF GotoDone

\* A task is pushed: the counters lag behind by one.
LEMMA EnqueuePushStep ==
  ASSUME Inv, NEW th \in Threads, EnqueuePush(th)
  PROVE  Inv'
<1> DEFINE task == Running(th).task
<1>1. /\ At(th, "push") /\ Goto(th, "countLock")
      /\ taskQueue' = Append(taskQueue, task)
      /\ stage' = [stage EXCEPT ![task] = "queued"]
      /\ corrupted' = Interrupted(th, {"push", "pop"})
      /\ UNCHANGED <<taskCount, mutex, sigPending>>
  BY DEF EnqueuePush
<1>2. GotoDone(th, "push", "countLock")
  <2>1. SameFunction("push", "countLock")
    BY DEF SameFunction, EnqueueLocations
  <2>2. QED
    BY <1>1, <2>1, GotoEffect
<1>3. task \in Tasks
  <2> DEFINE s == stack[th]
             n == Len(s)
  <2>1. Shape(th, s) /\ s[n].at = "push" /\ n \in 1 .. 3 /\ task = s[n].task
    BY <1>1, RunningIs DEF At
  <2> HIDE DEF s, task
  <2>2. n # 1
    BY <2>1 DEF Shape, LoopLocations
  <2> HIDE DEF n
  <2>3. n \in 2 .. n
    BY <2>1, <2>2
  <2>4. s[n].task \in Tasks
    BY <2>1, <2>3 DEF Shape, n
  <2>5. QED
    BY <2>1, <2>4
<1> HIDE DEF task
<1>4. taskQueue \in Seq(Tasks) /\ Len(taskQueue) \in Nat /\ taskCount \in Nat
  BY DEF Inv, TypeOK
<1>5. taskQueue' \in Seq(Tasks) /\ Len(taskQueue') = Len(taskQueue) + 1 /\ taskQueue' # <<>>
  BY <1>1, <1>3, <1>4
<1>6. \A m \in {"queue", "count"} : ReleasesOrKeeps(m, "push", "countLock")
  BY <1>1 DEF ReleasesOrKeeps, In, Holding
<1>7. Effect(th, "push", "countLock")
  BY <1>2, GotoHasEffect
<1>8. Uncounted(stack'[th]) = Uncounted(stack[th]) + 1 /\ Uncounted(stack[th]) \in 0 .. 2
  <2>1. In("push", UncountedLocations) = 0 /\ In("countLock", UncountedLocations) = 1
    BY DEF In, UncountedLocations
  <2>2. QED
    BY <1>7, <2>1, UncountedAfter, UncountedType
<1>9. taskCount = Len(taskQueue) - Uncounted(stack[th]) + Popped
  <2>1. Running(th).at \in Holding("queue")
    BY <1>1 DEF At, Holding
  <2>2. QED
    BY <2>1, OwnerOnly
<1>10. Popped' = Popped /\ Popped \in 0 .. 1
  BY <1>2 DEF GotoDone, Popped
<1>11. CountInv'
  <2>1. ASSUME NEW x \in Threads, \A other \in Threads \ {x} : Uncounted(stack'[other]) = 0
        PROVE  taskCount' = Len(taskQueue') - Uncounted(stack'[x]) + Popped'
    <3>1. Uncounted(stack'[th]) # 0
      BY <1>8
    <3>2. x = th
      BY <2>1, <3>1
    <3>3. QED
      BY <1>1, <1>4, <1>5, <1>8, <1>9, <1>10, <3>2
  <2>2. QED
    BY <2>1 DEF CountInv
<1>12. QueueInv'
  BY <1>5 DEF QueueInv
<1>13. /\ taskCount' \in Nat /\ sigPending' \in Completions \cup {NoTask}
       /\ stage' \in [Tasks -> {"new", "merged", "signalled", "handed", "queued", "executed"}]
       /\ corrupted' \in BOOLEAN
  BY <1>1, <1>3 DEF Inv, TypeOK, Interrupted
<1>14. QED
  BY <1>1, <1>2, <1>5, <1>6, <1>7, <1>11, <1>12, <1>13, MutexIsFunction, CombineStep DEF GotoDone

\* All stacks after a call has returned.
ReturnDone(th, from, st) ==
    /\ st \in [Threads -> Seq(Frame)]
    /\ \A o \in Threads : Shape(o, st[o])
    /\ \A L : L \cap Outside = {} =>
          /\ CallsIn(st[th], L) = CallsIn(stack[th], L) - In(from, L)
          /\ \A other \in Threads \ {th} : CallsIn(st[other], L) = CallsIn(stack[other], L)

LEMMA ReturnEffect ==
  ASSUME Inv, NEW th \in Threads, NEW from \in EnqueueLocations \cup PendingLocations,
         At(th, from), NEW st, st = [stack EXCEPT ![th] = Front(@)]
  PROVE  ReturnDone(th, from, st) /\ st[Loop][1].at = stack[Loop][1].at
<1> DEFINE t == Front(stack[th])
<1>1. Shape(th, stack[th]) /\ stack[th][Len(stack[th])].at = from
  BY RunningIs DEF At
<1>2. Returned(th, stack[th], t)
  BY <1>1, ReturnRemoves
<1>3. stack \in [Threads -> Seq(Frame)] /\ Loop \in Threads
  BY DEF Inv, TypeOK, Threads
<1> HIDE DEF t
<1>4. t \in Seq(Frame) /\ Shape(th, t)
  BY <1>2 DEF Returned, Shape
<1>5. st = [stack EXCEPT ![th] = t]
  BY DEF t
<1>6. st[th] = t /\ \A other \in Threads \ {th} : st[other] = stack[other]
  BY <1>3, <1>5
<1>7. st \in [Threads -> Seq(Frame)]
  BY <1>3, <1>4, <1>5
<1>8. \A o \in Threads : Shape(o, st[o])
  BY <1>4, <1>6 DEF Inv
<1>9. st[Loop][1].at = stack[Loop][1].at
  BY <1>2, <1>3, <1>6 DEF Returned
<1>10. ASSUME NEW L, L \cap Outside = {}
       PROVE  /\ CallsIn(st[th], L) = CallsIn(stack[th], L) - In(from, L)
              /\ \A other \in Threads \ {th} : CallsIn(st[other], L) = CallsIn(stack[other], L)
  BY <1>1, <1>2, <1>6, <1>10 DEF Returned
<1>11. QED
  BY <1>7, <1>8, <1>9, <1>10 DEF ReturnDone

\* Waking the loop afterwards changes nothing that matters.
LEMMA WakeEffect ==
  ASSUME NEW th \in Threads, NEW from, NEW st, ReturnDone(th, from, st),
         st[Loop][1].at = "waiting", NEW st2, st2 = [st EXCEPT ![Loop][1].at = "reacquire"]
  PROVE  ReturnDone(th, from, st2) /\ st2[Loop][1].at = "reacquire"
<1> DEFINE s == st[Loop]
           t == [s EXCEPT ![1].at = "reacquire"]
<1>1. Loop \in Threads /\ st \in [Threads -> Seq(Frame)] /\ Shape(Loop, s)
  BY DEF Threads, ReturnDone
<1>2. Shape(Loop, t) /\ t[1].at = "reacquire" /\ \A L : L \cap Outside = {} => CallsIn(t, L) = CallsIn(s, L)
  <2> HIDE DEF s
  <2>1. s[1].at = "waiting"
    BY DEF s
  <2>2. QED
    BY <1>1, <2>1, WakeMoves
<1>3. st2 = [st EXCEPT ![Loop] = t]
  OBVIOUS
<1> HIDE DEF t
<1>4. t \in Seq(Frame)
  BY <1>2 DEF Shape
<1>5. st2[Loop] = t /\ \A o \in Threads \ {Loop} : st2[o] = st[o]
  BY <1>1, <1>3
<1>6. st2 \in [Threads -> Seq(Frame)]
  BY <1>1, <1>3, <1>4
<1>7. \A o \in Threads : Shape(o, st2[o])
  BY <1>2, <1>5 DEF ReturnDone
<1>8. \A L : L \cap Outside = {} => \A o \in Threads : CallsIn(st2[o], L) = CallsIn(st[o], L)
  BY <1>2, <1>5
<1>9. QED
  BY <1>2, <1>5, <1>6, <1>7, <1>8 DEF ReturnDone

LEMMA ReturnHasEffect ==
  ASSUME NEW th \in Threads, NEW from, ReturnDone(th, from, stack')
  PROVE  Effect(th, from, "none")
<1>1. SUFFICES ASSUME NEW L, L \cap Outside = {}
               PROVE  /\ CallsIn(stack'[th], L) = CallsIn(stack[th], L) - In(from, L) + In("none", L)
                      /\ \A other \in Threads \ {th} : CallsIn(stack'[other], L) = CallsIn(stack[other], L)
  BY DEF Effect
<1>2. /\ CallsIn(stack'[th], L) = CallsIn(stack[th], L) - In(from, L)
      /\ \A other \in Threads \ {th} : CallsIn(stack'[other], L) = CallsIn(stack[other], L)
  BY <1>1 DEF ReturnDone
<1>3. In("none", L) = 0
  BY <1>1 DEF In, Outside
<1>4. CallsIn(stack[th], L) \in 0 .. 2 /\ In(from, L) \in 0 .. 1
  BY CallsInIs, InIs
<1>5. QED
  BY <1>2, <1>3, <1>4

\* The end of enqueueTask: the counter catches up, both mutexes are released, and
\* the loop is woken if it waits.
LEMMA EnqueueCountStep ==
  ASSUME Inv, NEW th \in Threads, EnqueueCount(th)
  PROVE  Inv'
<1> DEFINE returned == [stack EXCEPT ![th] = Front(@)]
<1>1. /\ At(th, "count")
      /\ taskCount' = taskCount + 1
      /\ corrupted' = Interrupted(th, {"count", "uncount", "sum"})
      /\ mutex' = [m \in {"queue", "count"} |-> Unlocked(mutex[m])]
      /\ stack' = IF stack[Loop][1].at = "waiting"
                     THEN [returned EXCEPT ![Loop][1].at = "reacquire"] ELSE returned
      /\ UNCHANGED <<taskQueue, sigPending, stage>>
  BY DEF EnqueueCount
<1>2. ReturnDone(th, "count", returned) /\ returned[Loop][1].at = stack[Loop][1].at
  BY <1>1, ReturnEffect DEF EnqueueLocations
<1> HIDE DEF returned
<1>3. /\ ReturnDone(th, "count", stack')
      /\ \/ stack'[Loop][1].at = stack[Loop][1].at
         \/ stack[Loop][1].at = "waiting" /\ stack'[Loop][1].at = "reacquire"
  <2>1. CASE stack[Loop][1].at = "waiting"
    <3>1. stack' = [returned EXCEPT ![Loop][1].at = "reacquire"] /\ returned[Loop][1].at = "waiting"
      BY <1>1, <1>2, <2>1
    <3>2. ReturnDone(th, "count", stack') /\ stack'[Loop][1].at = "reacquire"
      BY <1>2, <3>1, WakeEffect
    <3>3. QED
      BY <2>1, <3>2
  <2>2. CASE stack[Loop][1].at # "waiting"
    <3>1. stack' = returned
      BY <1>1, <2>2
    <3>2. QED
      BY <1>2, <3>1
  <2>3. QED
    BY <2>1, <2>2
<1>4. Effect(th, "count", "none")
  BY <1>3, ReturnHasEffect
<1>5. taskQueue \in Seq(Tasks) /\ Len(taskQueue) \in Nat /\ taskCount \in Nat
  BY DEF Inv, TypeOK
<1>6. \A m \in {"queue", "count"} : ReleasesOrKeeps(m, "count", "none")
  BY <1>1 DEF ReleasesOrKeeps, In, Holding
<1>7. /\ Uncounted(stack'[th]) = Uncounted(stack[th]) - 1
      /\ \A other \in Threads \ {th} : Uncounted(stack'[other]) = Uncounted(stack[other])
  <2>1. In("count", UncountedLocations) = 1 /\ In("none", UncountedLocations) = 0
    BY DEF In, UncountedLocations
  <2>2. Uncounted(stack[th]) \in 0 .. 2
    BY UncountedType
  <2>3. QED
    BY <1>4, <2>1, <2>2, UncountedAfter
<1>8. /\ \A other \in Threads \ {th} : Uncounted(stack[other]) = 0
      /\ taskCount = Len(taskQueue) - Uncounted(stack[th]) + Popped
  <2>1. Running(th).at \in Holding("queue")
    BY <1>1 DEF At, Holding
  <2>2. QED
    BY <2>1, OwnerOnly
<1>9. Popped' = Popped /\ Popped \in 0 .. 1
  BY <1>3 DEF Popped
<1>10. Uncounted(stack[th]) \in 0 .. 2
  BY UncountedType
<1>11. CountInv'
  <2>1. ASSUME NEW x \in Threads, \A other \in Threads \ {x} : Uncounted(stack'[other]) = 0
        PROVE  taskCount' = Len(taskQueue') - Uncounted(stack'[x]) + Popped'
    <3>1. CASE x = th
      BY <1>1, <1>5, <1>7, <1>8, <1>9, <1>10, <3>1
    <3>2. CASE x # th
      <4>1. Uncounted(stack'[th]) = 0 /\ Uncounted(stack'[x]) = 0
        BY <1>7, <1>8, <2>1, <3>2
      <4>2. Uncounted(stack[th]) = 1
        BY <1>7, <1>10, <4>1
      <4>3. QED
        BY <1>1, <1>5, <1>8, <1>9, <4>1, <4>2
    <3>3. QED
      BY <3>1, <3>2
  <2>2. QED
    BY <2>1 DEF CountInv
<1>12. QueueInv'
  BY <1>1, <1>3 DEF Inv, QueueInv
<1>13. /\ taskQueue' \in Seq(Tasks) /\ taskCount' \in Nat /\ sigPending' \in Completions \cup {NoTask}
       /\ stage' \in [Tasks -> {"new", "merged", "signalled", "handed", "queued", "executed"}]
       /\ corrupted' \in BOOLEAN
  BY <1>1 DEF Inv, TypeOK, Interrupted
<1>14. mutex' = [m \in {"queue", "count"} |-> mutex'[m]]
  BY <1>1
<1>15. QED
  BY <1>3, <1>4, <1>6, <1>11, <1>12, <1>13, <1>14, CombineStep DEF ReturnDone

\* The end of pendingTasks.
LEMMA PendingTasksReturnStep ==
  ASSUME Inv, NEW th \in Threads, PendingTasksReturn(th)
  PROVE  Inv'
<1>1. /\ At(th, "sum")
      /\ mutex' = [mutex EXCEPT !["count"] = Unlocked(@)]
      /\ stack' = [stack EXCEPT ![th] = Front(@)]
      /\ UNCHANGED <<taskQueue, taskCount, sigPending, stage, corrupted>>
  BY DEF PendingTasksReturn, Return
<1>2. ReturnDone(th, "sum", stack') /\ stack'[Loop][1].at = stack[Loop][1].at
  BY <1>1, ReturnEffect DEF PendingLocations
<1>3. Effect(th, "sum", "none")
  BY <1>2, ReturnHasEffect
<1>4. mutex' = [m \in {"queue", "count"} |-> mutex'[m]]
  BY <1>1, MutexIsFunction
<1>5. \A m \in {"queue", "count"} : ReleasesOrKeeps(m, "sum", "none")
  <2>1. mutex'["count"] = Unlocked(mutex["count"]) /\ mutex'["queue"] = mutex["queue"]
    BY <1>1, MutexIsFunction
  <2>2. QED
    BY <2>1 DEF ReleasesOrKeeps, In, Holding
<1>6. \A o \in Threads : Uncounted(stack'[o]) = Uncounted(stack[o])
  <2>1. In("sum", UncountedLocations) = 0 /\ In("none", UncountedLocations) = 0
    BY DEF In, UncountedLocations
  <2>2. Uncounted(stack'[th]) = Uncounted(stack[th])
    BY <1>3, <2>1, UncountedAfter, UncountedType
  <2>3. QED
    BY <1>3, <2>2, UncountedAfter
<1>7. CountInv'
  <2>1. Popped' = Popped
    BY <1>2 DEF Popped
  <2>2. QED
    BY <1>1, <1>6, <2>1, KeepCount
<1>8. QueueInv'
  BY <1>1, <1>2 DEF Inv, QueueInv
<1>9. /\ taskQueue' \in Seq(Tasks) /\ taskCount' \in Nat /\ sigPending' \in Completions \cup {NoTask}
      /\ stage' \in [Tasks -> {"new", "merged", "signalled", "handed", "queued", "executed"}]
      /\ corrupted' \in BOOLEAN
  BY <1>1 DEF Inv, TypeOK
<1>10. QED
  BY <1>2, <1>3, <1>4, <1>5, <1>7, <1>8, <1>9, CombineStep DEF ReturnDone

LEMMA Initially == Init => Inv
<1> SUFFICES ASSUME Init PROVE Inv
  OBVIOUS
<1> DEFINE at(th) == IF th = Loop THEN "top" ELSE "idle"
<1>1. \A th \in Threads : stack[th] = <<Call(at(th), NoTask, FALSE)>>
  BY DEF Init
<1>2. ASSUME NEW th \in Threads
      PROVE  /\ stack[th] \in Seq(Frame)
             /\ Shape(th, stack[th])
             /\ \A L : L \cap Outside = {} => CallsIn(stack[th], L) = 0
  <2> DEFINE c == Call(at(th), NoTask, FALSE)
  <2>1. c \in Frame /\ c.at = at(th) /\ c.handler = FALSE
    BY DEF Call, Frame, Locations
  <2>2. at(th) \in (IF th = Loop THEN LoopLocations ELSE {"idle"}) /\ at(th) \in Outside
    BY DEF LoopLocations, Outside
  <2>3. stack[th] = <<c>>
    BY <1>1
  <2> HIDE DEF c, at
  <2>4. Len(<<c>>) = 1 /\ <<c>>[1] = c /\ <<c>> \in Seq(Frame)
    BY <2>1
  <2>5. Shape(th, <<c>>)
    BY <2>1, <2>2, <2>4 DEF Shape
  <2>6. MainAt(<<c>>) = at(th) /\ HandlerAt(<<c>>) = "none"
    BY <2>1, <2>4 DEF MainAt, HandlerAt
  <2>7. ASSUME NEW L, L \cap Outside = {}
        PROVE  CallsIn(<<c>>, L) = 0
    <3>1. at(th) \notin L /\ "none" \notin L
      BY <2>2, <2>7 DEF Outside
    <3>2. QED
      BY <2>6, <3>1 DEF CallsIn
  <2>8. QED
    BY <2>3, <2>4, <2>5, <2>7
<1>3. \A m \in {"queue", "count"} : mutex[m] = [owner |-> NoThread, depth |-> 0]
  BY DEF Init
<1>4. LockInv
  <2>1. \A th \in Threads, m \in {"queue", "count"} : CallsIn(stack[th], Holding(m)) = 0
    BY <1>2, WatchedLocations
  <2>2. \A th \in Threads : th # NoThread
    BY ThreadAssumption DEF Threads
  <2>3. QED
    BY <1>3, <2>1, <2>2 DEF LockInv, LockOK
<1>5. TypeOK
  <2>1. stack \in [Threads -> Seq(Frame)]
    <3>1. stack = [th \in Threads |-> stack[th]]
      BY DEF Init
    <3>2. QED
      BY <1>2, <3>1
  <2>2. mutex \in [{"queue", "count"} -> [owner : Threads \cup {NoThread}, depth : 0 .. 2]]
    BY DEF Init
  <2>3. taskQueue \in Seq(Tasks) /\ taskCount \in Nat
    BY DEF Init
  <2>4. stage \in [Tasks -> {"new", "merged", "signalled", "handed", "queued", "executed"}]
    BY DEF Init
  <2>5. sigPending \in Completions \cup {NoTask} /\ corrupted \in BOOLEAN
    BY DEF Init
  <2>6. QED
    BY <2>1, <2>2, <2>3, <2>4, <2>5 DEF TypeOK
<1>6. stack[Loop][1].at = "top"
  <2>1. Loop \in Threads /\ Call("top", NoTask, FALSE).at = "top"
    BY DEF Threads, Call
  <2>2. stack[Loop] = <<Call("top", NoTask, FALSE)>>
    BY <1>1, <2>1
  <2>3. stack[Loop][1] = Call("top", NoTask, FALSE)
    BY <2>2
  <2>4. QED
    BY <2>1, <2>3
<1>7. QueueInv
  BY <1>6 DEF QueueInv
<1>8. CountInv
  <2>1. \A th \in Threads : Uncounted(stack[th]) = 0
    BY <1>2, WatchedLocations DEF Uncounted
  <2>2. Popped = 0 /\ taskCount = 0 /\ Len(taskQueue) = 0
    BY <1>6 DEF Popped, Init
  <2>3. QED
    BY <2>1, <2>2 DEF CountInv
<1>9. QED
  BY <1>2, <1>4, <1>5, <1>7, <1>8 DEF Inv

LEMMA ThreadStep ==
  ASSUME Inv, NEW th \in Threads, Step(th)
  PROVE  Inv'
BY EnqueuePushStep, EnqueueCountStep, PendingTasksReturnStep, LoopEmptyStep, LoopWaitStep,
   LoopTimeoutStep, LoopFrontStep, LoopPopStep, LoopCountStep DEF Step

LEMMA Inductive == Inv /\ [Next]_vars => Inv'
<1> SUFFICES ASSUME Inv, [Next]_vars PROVE Inv'
  OBVIOUS
<1>1. CASE \E t \in Completions : Complete(t)
  BY <1>1, CompleteStep
<1>2. CASE \E th \in Threads : aio_done(th)
  BY <1>2, AioDoneStep
<1>3. CASE \E th \in Threads, t \in ClientTasks : CallEnqueueTask(th, t)
  BY <1>3, CallEnqueueTaskStep
<1>4. CASE \E th \in Threads : CallPendingTasks(th)
  BY <1>4, CallPendingTasksStep
<1>5. CASE \E th \in Threads : Acquire(th) \/ Step(th)
  BY <1>5, AcquireStep, ThreadStep
<1>6. CASE LoopTaskReturns
  BY <1>6, LoopTaskReturnsStep
<1>7. CASE UNCHANGED vars
  BY <1>7 DEF vars, Inv, TypeOK, LockInv, QueueInv, CountInv, Popped
<1>8. QED
  BY <1>1, <1>2, <1>3, <1>4, <1>5, <1>6, <1>7 DEF Next

\* The inductive invariant holds throughout.
LEMMA Invariant == SafetySpec => []Inv
<1>1. QED
  BY Initially, Inductive, PTL DEF SafetySpec

(***************************************************************************)
(* Theorems                                                                *)
(***************************************************************************)

\* Every variable has its type: no mutex is taken more than twice, the counters
\* never run below zero and the loop never pops an empty queue, wherever the signal
\* handler interrupts.
THEOREM TypeCorrect == SafetySpec => []TypeOK
<1>1. Inv => TypeOK
  BY DEF Inv
<1>2. QED
  BY <1>1, Invariant, PTL

\* A thread that asks for queueMutex_ and owns taskCountMutex_ is a handler's, and
\* has interrupted a call that holds the counters.
LEMMA AgainstPrecedence ==
  ASSUME Inv, NEW th \in Threads, Wants(th, "queue"), mutex["count"].owner = th,
         mutex["queue"].owner # th
  PROVE  Interrupted(th, {"sum"})
<1> DEFINE s == stack[th]
           n == Len(s)
<1>1. Shape(th, s) /\ n \in 1 .. 3 /\ s[n].at \in {"enqueueTask", "top", "reacquire", "popLock"}
  BY RunningIs DEF Wants
<1>2. CallsIn(s, Holding("count")) # 0
  <2>1. LockOK("count", mutex["count"], stack) /\ th # NoThread
    BY ThreadAssumption DEF Inv, LockInv, Threads
  <2>2. QED
    BY <2>1 DEF LockOK
<1>3. CallsIn(s, Holding("queue")) = 0
  BY DEF Inv, LockInv, LockOK
<1>4. s[n].at \notin Holding("count")
  BY <1>1 DEF Holding
<1> HIDE DEF s
<1>5. s[n].handler /\ s[n - 1].at \in Holding("count")
  <2>1. MainAt(s) \in Holding("count") \/ HandlerAt(s) \in Holding("count")
    BY <1>2 DEF CallsIn
  <2>2. HandlerAt(s) \notin Holding("count")
    BY <1>4 DEF HandlerAt, Holding
  <2>3. QED
    BY <1>4, <2>1, <2>2 DEF MainAt
<1>6. s[n - 1].at \notin Holding("queue")
  BY <1>3, <1>5 DEF CallsIn, MainAt
<1>7. s[n - 1].at = "sum"
  BY <1>5, <1>6 DEF Holding
<1>8. n # 1
  <2> HIDE DEF n
  <2>1. ~s[1].handler
    BY <1>1 DEF Shape
  <2>2. QED
    BY <1>5, <2>1
<1> HIDE DEF n
<1>9. n - 1 \in 1 .. n - 1
  BY <1>1, <1>8
<1>10. QED
  BY <1>7, <1>9 DEF Interrupted, s, n

\* Two threads block each other only if the handler has interrupted pendingTasks
\* while that holds taskCountMutex_: everywhere else the code keeps the precedence
\* queueMutex_ -> taskCountMutex_, whatever the handler interrupts.
THEOREM DeadlockOnlyFromPendingTasks == SafetySpec => []DeadlockNeedsPendingTasks
<1>1. ASSUME Inv PROVE DeadlockNeedsPendingTasks
  <2>1. SUFFICES ASSUME NEW th \in Threads, NEW other \in Threads \ {th},
                        BlockedBy(th, other), BlockedBy(other, th)
                 PROVE  \E x \in Threads : Interrupted(x, {"sum"}) /\ Wants(x, "queue")
    BY DEF DeadlockNeedsPendingTasks, Deadlocked
  <2>2. PICK m \in {"queue", "count"} : Wants(th, m) /\ mutex[m].owner = other
    BY <2>1 DEF BlockedBy
  <2>3. PICK p \in {"queue", "count"} : Wants(other, p) /\ mutex[p].owner = th
    BY <2>1 DEF BlockedBy
  <2>4. CASE m = "queue"
    <3>1. p = "count"
      BY <2>2, <2>3, <2>4
    <3>2. Interrupted(th, {"sum"})
      BY <1>1, <2>2, <2>3, <2>4, <3>1, AgainstPrecedence
    <3>3. QED
      BY <2>2, <2>4, <3>2
  <2>5. CASE m = "count"
    <3>1. p = "queue"
      BY <2>2, <2>3, <2>5
    <3>2. Interrupted(other, {"sum"})
      BY <1>1, <2>2, <2>3, <2>5, <3>1, AgainstPrecedence
    <3>3. QED
      BY <2>3, <3>1, <3>2
  <2>6. QED
    BY <2>4, <2>5
<1>2. QED
  BY <1>1, Invariant, PTL

(***************************************************************************)
(* base::Semaphore, for any finite number of threads and any initial       *)
(* value.  UnitsHaveTakers is inductive given the types; for the barrier   *)
(* two facts are added: units are neither lost nor made, and the value is  *)
(* not negative once a down has returned.                                  *)
(***************************************************************************)

UnitsConserved == val = initVal + ups - downs

NotNegativeAfterDown == downs > 0 => val >= 0

SemInv ==
    /\ SemTypeOK
    /\ UnitsHaveTakers
    /\ UnitsConserved
    /\ NotNegativeAfterDown

\* Sets of threads are finite: one that gains or loses a thread changes its
\* cardinality by one.
LEMMA CountThreads ==
    ASSUME NEW S \in SUBSET SemThreads
    PROVE  /\ Cardinality(S) \in Nat
           /\ \A th \in SemThreads :
                 /\ th \notin S => Cardinality(S \cup {th}) = Cardinality(S) + 1
                 /\ th \in S => Cardinality(S \ {th}) = Cardinality(S) - 1
  <1>1. IsFiniteSet(S)
    BY ThreadsAssumption, FS_Subset
  <1>2. Cardinality(S) \in Nat
    BY <1>1, FS_CardinalityType
  <1>3. ASSUME NEW th \in SemThreads
        PROVE  /\ th \notin S => Cardinality(S \cup {th}) = Cardinality(S) + 1
               /\ th \in S => Cardinality(S \ {th}) = Cardinality(S) - 1
    BY <1>1, FS_AddElement, FS_RemoveElement, Zenon
  <1> QED BY <1>2, <1>3

LEMMA InitInv == SemInit => SemInv
  BY InitValAssumption, MaxUpsAssumption
     DEF SemInit, SemInv, SemTypeOK, UnitsHaveTakers, UnitsConserved, NotNegativeAfterDown

\* up: one unit more, and one taker more if somebody slept.
LEMMA UpInv ==
    ASSUME SemInv, NEW th \in SemThreads, up(th)
    PROVE  SemInv'
  <1> USE DEF SemInv
  <1>1. SemTypeOK'
    BY MaxUpsAssumption DEF SemTypeOK, up, signal, Idle
  <1>2. UnitsHaveTakers'
    <2>1. Cardinality(woken) \in Nat
      BY CountThreads DEF SemTypeOK
    <2>2. CASE val' > 0 /\ sleeping # {}
      <3>1. PICK u \in sleeping : sleeping' = sleeping \ {u} /\ woken' = woken \cup {u}
        BY <2>2 DEF up, signal
      <3>2. Cardinality(woken') = Cardinality(woken) + 1
        BY <3>1, CountThreads DEF SemTypeOK
      <3>3. val <= Cardinality(woken)
        BY <2>2 DEF UnitsHaveTakers
      <3> QED BY <2>1, <3>2, <3>3 DEF UnitsHaveTakers, up, SemTypeOK
    <2>3. CASE val' <= 0
      <3>1. woken' = woken
        BY <2>3 DEF up, SemTypeOK
      <3> QED BY <2>1, <2>3, <3>1, InitValAssumption DEF UnitsHaveTakers, up, SemTypeOK
    <2>4. CASE sleeping = {}
      BY <2>4 DEF UnitsHaveTakers, up, signal
    <2> QED BY <2>2, <2>3, <2>4 DEF up, SemTypeOK
  <1>3. UnitsConserved' /\ NotNegativeAfterDown'
    BY InitValAssumption DEF UnitsConserved, NotNegativeAfterDown, up, SemTypeOK
  <1> QED BY <1>1, <1>2, <1>3

\* down without a wait: the unit is taken from the value alone.
LEMMA DownInv ==
    ASSUME SemInv, NEW th \in SemThreads, down(th)
    PROVE  SemInv'
  <1> USE DEF SemInv
  <1>1. Cardinality(woken) \in Nat
    BY CountThreads DEF SemTypeOK
  <1>2. SemTypeOK'
    BY DEF SemTypeOK, down, DownOrWait, Idle
  <1>3. UnitsHaveTakers'
    BY <1>1 DEF UnitsHaveTakers, down, DownOrWait, SemTypeOK
  <1>4. UnitsConserved' /\ NotNegativeAfterDown'
    BY InitValAssumption
       DEF UnitsConserved, NotNegativeAfterDown, down, DownOrWait, SemTypeOK
  <1> QED BY <1>2, <1>3, <1>4

\* Back from the wait: a unit and its taker go together, or there was none.
LEMMA DownAfterWaitInv ==
    ASSUME SemInv, NEW th \in SemThreads, DownAfterWait(th)
    PROVE  SemInv'
  <1> USE DEF SemInv
  <1>1. /\ Cardinality(woken) \in Nat
        /\ Cardinality(woken') = Cardinality(woken) - 1
        /\ Cardinality(woken') \in Nat
    <2>1. woken' = woken \ {th} /\ th \in woken /\ woken \in SUBSET SemThreads
      BY DEF DownAfterWait, SemTypeOK
    <2>2. woken' \in SUBSET SemThreads
      BY <2>1
    <2> QED BY <2>1, <2>2, CountThreads
  <1>2. SemTypeOK'
    BY DEF SemTypeOK, DownAfterWait, DownOrWait
  <1>3. UnitsHaveTakers'
    BY <1>1 DEF UnitsHaveTakers, DownAfterWait, DownOrWait, SemTypeOK
  <1>4. UnitsConserved' /\ NotNegativeAfterDown'
    BY InitValAssumption
       DEF UnitsConserved, NotNegativeAfterDown, DownAfterWait, DownOrWait, SemTypeOK
  <1> QED BY <1>2, <1>3, <1>4

LEMMA SpuriousWakeupInv ==
    ASSUME SemInv, NEW th \in SemThreads, SpuriousWakeup(th)
    PROVE  SemInv'
  <1> USE DEF SemInv
  <1>1. /\ Cardinality(woken) \in Nat
        /\ Cardinality(woken') = Cardinality(woken) + 1
    <2>1. woken' = woken \cup {th} /\ th \notin woken /\ woken \in SUBSET SemThreads
      BY DEF SpuriousWakeup, SemTypeOK
    <2> QED BY <2>1, CountThreads
  <1>2. SemTypeOK'
    BY DEF SemTypeOK, SpuriousWakeup
  <1>3. UnitsHaveTakers'
    BY <1>1 DEF UnitsHaveTakers, SpuriousWakeup, SemTypeOK
  <1>4. UnitsConserved' /\ NotNegativeAfterDown'
    BY DEF UnitsConserved, NotNegativeAfterDown, SpuriousWakeup
  <1> QED BY <1>2, <1>3, <1>4

LEMMA StepInv == SemInv /\ [SemNext]_semVars => SemInv'
  <1> SUFFICES ASSUME SemInv, [SemNext]_semVars PROVE SemInv'
    OBVIOUS
  <1>1. CASE SemNext
    BY <1>1, UpInv, DownInv, DownAfterWaitInv, SpuriousWakeupInv DEF SemNext
  <1>2. CASE UNCHANGED semVars
    BY <1>2 DEF semVars, SemInv, SemTypeOK, UnitsHaveTakers, UnitsConserved,
                NotNegativeAfterDown
  <1> QED BY <1>1, <1>2

LEMMA AlwaysInv == SemSafetySpec => []SemInv
  BY InitInv, StepInv, PTL DEF SemSafetySpec

\* up and down never leave a unit lying beside threads that all sleep.
THEOREM NoUnitIsForgotten == SemSafetySpec => []UnitsHaveTakers
  <1>1. SemInv => UnitsHaveTakers
    BY DEF SemInv
  <1> QED BY <1>1, AlwaysInv, PTL

\* down never returns before enough calls of up: the barrier holds for every
\* number of tasks.
THEOREM BarrierHolds == SemSafetySpec => []DownsAreCovered
  <1>1. SemInv => DownsAreCovered
    BY InitValAssumption
       DEF SemInv, SemTypeOK, UnitsConserved, NotNegativeAfterDown, DownsAreCovered
  <1> QED BY <1>1, AlwaysInv, PTL
=============================================================================
