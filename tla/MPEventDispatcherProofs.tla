----------------------- MODULE MPEventDispatcherProofs -----------------------
(***************************************************************************)
(* Theorems about MPEventDispatcher, for any number of dispatchers, client *)
(* threads, groups and tasks, and for both builds.                         *)
(***************************************************************************)
EXTENDS MPEventDispatcher, TLAPS

(***************************************************************************)
(* Routing: a group has one home, and everything of the group is there.    *)
(***************************************************************************)

\* The dispatcher of a group, Unassigned before the table build has met it.
home == [g \in Groups |-> IF useHashing THEN hashDestination(g) ELSE taskIDTable[g]]

RouteInv ==
    /\ \A th \in Threads : callTask[th] # NoTask =>
          taskDestination[th] = home[id[callTask[th]]]
    /\ \A d \in Dispatchers : \A p \in DOMAIN taskQueue[d] :
          home[id[taskQueue[d][p]]] = d
    /\ \A g \in Groups : home[g] = Unassigned => arrived[g] = <<>>

(***************************************************************************)
(* The event loops: what is executed or has just ended is still at the     *)
(* front, and only a running task calls enqueueTask.                       *)
(***************************************************************************)
LoopInv ==
    /\ \A d \in Dispatchers :
          loop[d] \in {"executing", "finished"} => taskQueue[d] # <<>>
    /\ \A d \in Dispatchers : callTask[d] # NoTask => loop[d] = "executing"
    /\ \A d \in Dispatchers : mode[d] = "gone" => loop[d] = "returned"
    /\ \A d \in Dispatchers : loop[d] = "returned" => mode[d] \in {"dying", "gone"}

(***************************************************************************)
(* A task is new until it is forwarded, and is forwarded once.             *)
(***************************************************************************)
TaskInv ==
    /\ \A th \in Threads : callTask[th] # NoTask => outcome[callTask[th]] = "new"
    /\ \A th, x \in Threads :
          callTask[th] # NoTask /\ callTask[th] = callTask[x] => th = x
    /\ \A d \in Dispatchers : \A p \in DOMAIN taskQueue[d] :
          outcome[taskQueue[d][p]] # "new"
    /\ \A g \in Groups : \A i \in DOMAIN arrived[g] : outcome[arrived[g][i]] # "new"

(***************************************************************************)
(* The order of a group: its unstarted tasks wait in its home's queue in   *)
(* the order of arrival, and none is missing unless the home is dying.     *)
(***************************************************************************)

\* The front of the queue has started, unless the loop is idle.
Unstarted(d, p) == p \in DOMAIN taskQueue[d] /\ (p > 1 \/ loop[d] = "idle")

ArrivedInGroup == \A g \in Groups : \A i \in DOMAIN arrived[g] : id[arrived[g][i]] = g

ArrivedOnce ==
    \A g \in Groups : \A i, j \in DOMAIN arrived[g] :
        arrived[g][i] = arrived[g][j] => i = j

BegunIsPrefix ==
    \A g \in Groups :
        /\ Len(begun[g]) <= Len(arrived[g])
        /\ \A i \in DOMAIN begun[g] : begun[g][i] = arrived[g][i]

QueueKeepsOrder ==
    \A d \in Dispatchers, g \in Groups :
        \A p, q \in DOMAIN taskQueue[d] : \A i, j \in DOMAIN arrived[g] :
            /\ taskQueue[d][p] = arrived[g][i]
            /\ taskQueue[d][q] = arrived[g][j]
            /\ p < q
            => i < j

UnstartedNotBegun ==
    \A d \in Dispatchers : \A p \in DOMAIN taskQueue[d] :
        Unstarted(d, p) =>
            LET g == id[taskQueue[d][p]] IN
            \E i \in DOMAIN arrived[g] :
                i > Len(begun[g]) /\ arrived[g][i] = taskQueue[d][p]

NotBegunUnstarted ==
    \A d \in Dispatchers, g \in Groups :
        home[g] = d /\ mode[d] # "dying" /\ mode[d] # "gone" =>
            \A i \in DOMAIN arrived[g] : i > Len(begun[g]) =>
                \E p \in DOMAIN taskQueue[d] :
                    Unstarted(d, p) /\ taskQueue[d][p] = arrived[g][i]

OrderInv ==
    /\ ArrivedInGroup
    /\ ArrivedOnce
    /\ BegunIsPrefix
    /\ QueueKeepsOrder
    /\ UnstartedNotBegun
    /\ NotBegunUnstarted

(***************************************************************************)
(* busy(): an accepted task is in a queue, and the queues that the scan    *)
(* has passed stay empty unless a task of another dispatcher fills them.   *)
(***************************************************************************)
BusyInv ==
    /\ \A t \in Tasks : outcome[t] = "accepted" =>
          \E d \in Dispatchers : \E p \in DOMAIN taskQueue[d] : taskQueue[d][p] = t
    /\ \A d \in Dispatchers : loop[d] = "finished" =>
          outcome[Head(taskQueue[d])] # "accepted"
    /\ ~spread => \A d \in Dispatchers : d < scan => taskQueue[d] = <<>>

Inv == TypeOK /\ RouteInv /\ LoopInv /\ TaskInv /\ OrderInv /\ BusyInv

\* The destructor and busy(), which leave tasks, queues and loops alone.
Administration ==
    \/ DtorCall \/ DtorStop \/ DtorKill \/ DtorNext
    \/ BusyCall \/ BusyReturnsTrue \/ BusyNext \/ BusyReturnsFalse
    \/ Gone

(***************************************************************************)
(* Operators of the model                                                  *)
(***************************************************************************)

\* Both ways of choosing a dispatcher name one that exists, and a group that has
\* a home is sent to it.
LEMMA DestinationExists ==
  ASSUME TypeOK, NEW g \in Groups
  PROVE  /\ hashDestination(g) \in Dispatchers
         /\ destination(g) \in Dispatchers
         /\ home[g] # Unassigned => destination(g) = home[g]
<1>1. hasher[g] \in Nat /\ concurrentTaskCount \in Nat /\ concurrentTaskCount > 0
  BY CountAssumption, GroupAssumption
<1>2. hashDestination(g) \in Dispatchers
  BY <1>1 DEF hashDestination, Dispatchers
<1>3. taskIDTable[g] # Unassigned => taskIDTable[g] \in Dispatchers
  BY DEF TypeOK
<1>4. QED
  BY <1>2, <1>3 DEF destination, home, TypeOK

\* Unassigned is no dispatcher.
LEMMA UnassignedIsNoDispatcher == Unassigned \notin Dispatchers
BY CountAssumption DEF Unassigned, Dispatchers

\* What Append adds is the last element, and the others stay where they are.
LEMMA AppendAt ==
  ASSUME NEW S, NEW s \in Seq(S), NEW e \in S
  PROVE  /\ Append(s, e) \in Seq(S)
         /\ Len(Append(s, e)) = Len(s) + 1
         /\ DOMAIN Append(s, e) = 1 .. Len(s) + 1
         /\ Append(s, e)[Len(s) + 1] = e
         /\ \A p \in DOMAIN s : Append(s, e)[p] = s[p] /\ p # Len(s) + 1
         /\ \A p \in DOMAIN Append(s, e) : p \in DOMAIN s \/ p = Len(s) + 1
OBVIOUS

\* Tail moves every element but the first one place to the front.
LEMMA TailAt ==
  ASSUME NEW S, NEW s \in Seq(S), s # <<>>
  PROVE  /\ Tail(s) \in Seq(S)
         /\ 1 \in DOMAIN s /\ Head(s) = s[1]
         /\ Len(Tail(s)) = Len(s) - 1
         /\ \A p \in DOMAIN Tail(s) : p + 1 \in DOMAIN s /\ Tail(s)[p] = s[p + 1]
         /\ \A p \in DOMAIN s : p # 1 => p - 1 \in DOMAIN Tail(s)
OBVIOUS

\* The two ends of Forward, for a call of thread th with task t for dispatcher d.
ForwardFrame(th, t, d) ==
    /\ callTask[th] = t /\ taskDestination[th] = d
    /\ callTask' = [callTask EXCEPT ![th] = NoTask]
    /\ spread' \in BOOLEAN
    /\ ~spread' => ~spread /\ (scan = -1 \/ d = th)
    /\ badAccess' \in BOOLEAN
    /\ UNCHANGED <<useHashing, routeVars, taskDestination, loop, mode, dtorIndex, scan,
                   begun>>

Accepts(th, t, d) ==
    /\ ForwardFrame(th, t, d)
    /\ mode[d] = "open"
    /\ taskQueue' = [taskQueue EXCEPT ![d] = Append(@, t)]
    /\ outcome' = [outcome EXCEPT ![t] = "accepted"]
    /\ arrived' = [arrived EXCEPT ![id[t]] = Append(@, t)]

Refuses(th, t, d) ==
    /\ ForwardFrame(th, t, d)
    /\ \E o \in {"discarded", "lost"} : outcome' = [outcome EXCEPT ![t] = o]
    /\ UNCHANGED <<taskQueue, arrived>>

\* A call that is forwarded ends in one of these ways.
LEMMA ForwardEnds ==
  ASSUME TypeOK, NEW th \in Threads, Forward(th)
  PROVE  \E t \in Tasks, d \in Dispatchers : Accepts(th, t, d) \/ Refuses(th, t, d)
<1>1. callTask[th] \in Tasks /\ taskDestination[th] \in Dispatchers
  BY DEF Forward, TypeOK
<1>2. ForwardFrame(th, callTask[th], taskDestination[th])
  BY DEF Forward, ForwardFrame, TypeOK
<1>3. \/ Accepts(th, callTask[th], taskDestination[th])
      \/ Refuses(th, callTask[th], taskDestination[th])
  BY <1>2 DEF Forward, Accepts, Refuses
<1>4. QED
  BY <1>1, <1>3

\* What an accepted task t adds to the queue of d, at place n, and to the arrivals
\* of its group, at place m.
Pushed(t, d, n) ==
    /\ n \in Nat /\ 0 < n
    /\ \A e \in Dispatchers : e # d => taskQueue'[e] = taskQueue[e]
    /\ \A p \in DOMAIN taskQueue'[d] : p \in DOMAIN taskQueue[d] \/ p = n
    /\ \A p \in DOMAIN taskQueue[d] :
          p \in DOMAIN taskQueue'[d] /\ taskQueue'[d][p] = taskQueue[d][p]
    /\ \A p \in DOMAIN taskQueue[d] : p \in Nat /\ 0 < p /\ p < n
    /\ n \in DOMAIN taskQueue'[d] /\ taskQueue'[d][n] = t
    /\ n > 1 \/ taskQueue[d] = <<>>
    /\ taskQueue'[d] # <<>>
    /\ taskQueue[d] # <<>> => Head(taskQueue'[d]) = Head(taskQueue[d])

Arrived(t, m) ==
    /\ m \in Nat /\ 0 < m
    /\ \A g \in Groups : g # id[t] => arrived'[g] = arrived[g]
    /\ \A i \in DOMAIN arrived'[id[t]] : i \in DOMAIN arrived[id[t]] \/ i = m
    /\ \A i \in DOMAIN arrived[id[t]] :
          i \in DOMAIN arrived'[id[t]] /\ arrived'[id[t]][i] = arrived[id[t]][i]
    /\ \A i \in DOMAIN arrived[id[t]] : i \in Nat /\ 0 < i /\ i < m
    /\ m \in DOMAIN arrived'[id[t]] /\ arrived'[id[t]][m] = t
    /\ Len(arrived'[id[t]]) = m /\ Len(arrived[id[t]]) = m - 1

\* An accepted task comes last in the queue and among the arrivals of its group.
LEMMA AcceptAdds ==
  ASSUME TypeOK, NEW th \in Threads, NEW t \in Tasks, NEW d \in Dispatchers,
         Accepts(th, t, d)
  PROVE  /\ \E n \in Nat : Pushed(t, d, n)
         /\ \E m \in Nat : Arrived(t, m)
<1>1. taskQueue[d] \in Seq(Tasks) /\ id[t] \in Groups
  BY GroupAssumption DEF TypeOK
<1>2. arrived[id[t]] \in Seq(Tasks)
  BY <1>1 DEF TypeOK
<1>3. taskQueue'[d] = Append(taskQueue[d], t) /\ arrived'[id[t]] = Append(arrived[id[t]], t)
  BY <1>1 DEF Accepts, TypeOK
<1>4. /\ \A e \in Dispatchers : e # d => taskQueue'[e] = taskQueue[e]
      /\ \A g \in Groups : g # id[t] => arrived'[g] = arrived[g]
  BY DEF Accepts, TypeOK
<1>5. Len(taskQueue[d]) + 1 \in Nat /\ Pushed(t, d, Len(taskQueue[d]) + 1)
  BY <1>1, <1>3, <1>4, AppendAt DEF Pushed
<1>6. Len(arrived[id[t]]) + 1 \in Nat /\ Arrived(t, Len(arrived[id[t]]) + 1)
  BY <1>2, <1>3, <1>4, AppendAt DEF Arrived
<1>7. QED
  BY <1>5, <1>6

\* pop moves the rest of the queue one place to the front.
LEMMA PopMoves ==
  ASSUME TypeOK, LoopInv, NEW d \in Dispatchers, LoopPop(d)
  PROVE  /\ \A e \in Dispatchers : e # d => taskQueue'[e] = taskQueue[e]
         /\ taskQueue[d] # <<>> /\ Head(taskQueue[d]) = taskQueue[d][1]
         /\ \A p \in DOMAIN taskQueue'[d] :
               p + 1 \in DOMAIN taskQueue[d] /\ taskQueue'[d][p] = taskQueue[d][p + 1]
         /\ \A p \in DOMAIN taskQueue[d] : p # 1 =>
               p - 1 \in DOMAIN taskQueue'[d] /\ taskQueue'[d][p - 1] = taskQueue[d][p]
         /\ \A p \in DOMAIN taskQueue'[d] : p \in Nat /\ 0 < p
         /\ \A p \in DOMAIN taskQueue[d] : p \in Nat /\ 0 < p
<1>1. taskQueue[d] \in Seq(Tasks) /\ taskQueue[d] # <<>>
  BY DEF LoopPop, LoopInv, TypeOK
<1>2. /\ taskQueue'[d] = Tail(taskQueue[d])
      /\ \A e \in Dispatchers : e # d => taskQueue'[e] = taskQueue[e]
  BY DEF LoopPop, TypeOK
<1>3. QED
  BY <1>1, <1>2, TailAt

\* The destructor and busy() leave routes, calls, queues and loops alone.
LEMMA AdministrationFrame ==
  ASSUME Administration
  PROVE  /\ UNCHANGED <<useHashing, taskIDTable, roundRobinToken, callTask,
                         taskDestination, taskQueue, loop, outcome, arrived, begun,
                         badAccess>>
         /\ UNCHANGED mode \/ DtorStop \/ DtorKill \/ DtorNext
         /\ UNCHANGED <<scan, spread>> \/ BusyCall \/ BusyReturnsTrue \/ BusyNext
            \/ BusyReturnsFalse
BY DEF Administration, DtorCall, DtorStop, DtorKill, DtorNext, BusyCall,
       BusyReturnsTrue, BusyNext, BusyReturnsFalse, Gone, vars, routeVars, callVars,
       historyVars

(***************************************************************************)
(* Initially                                                               *)
(***************************************************************************)

\* The constructor establishes the invariant.
LEMMA InvInit == Init => Inv
<1> SUFFICES ASSUME Init PROVE Inv
  OBVIOUS
<1> USE CountAssumption, CallersAssumption DEF Init
<1>1. TypeOK
  <2>1. 0 \in Dispatchers /\ 0 \in Int
    BY DEF Dispatchers
  <2>2. QED
    BY <2>1 DEF TypeOK
<1>2. RouteInv
  BY DEF RouteInv, home
<1>3. LoopInv
  BY DEF LoopInv, Threads
<1>4. TaskInv
  BY DEF TaskInv
<1>5. OrderInv
  BY DEF OrderInv, ArrivedInGroup, ArrivedOnce, BegunIsPrefix, QueueKeepsOrder, UnstartedNotBegun,
         NotBegunUnstarted
<1>6. BusyInv
  BY DEF BusyInv, Dispatchers
<1>7. QED
  BY <1>1, <1>2, <1>3, <1>4, <1>5, <1>6 DEF Inv

(***************************************************************************)
(* Typing                                                                  *)
(***************************************************************************)

\* Every step preserves the types, the token and the destinations staying within
\* the dispatchers.
LEMMA TypeStep == TypeOK /\ LoopInv /\ [Next]_vars => TypeOK'
<1> SUFFICES ASSUME TypeOK, LoopInv, [Next]_vars PROVE TypeOK'
  OBVIOUS
<1> USE DEF routeVars, callVars, historyVars
<1>1. ASSUME NEW th \in Threads, NEW t \in Tasks, Route(th, t)
      PROVE  TypeOK'
  <2>1. destination(id[t]) \in Dispatchers
    BY DestinationExists, GroupAssumption
  <2>2. (roundRobinToken + 1) % concurrentTaskCount \in Dispatchers
    BY CountAssumption DEF Dispatchers, TypeOK
  <2>3. /\ taskIDTable' \in [Groups -> Dispatchers \cup {Unassigned}]
        /\ roundRobinToken' \in Dispatchers
    BY <1>1, <2>2 DEF Route, TypeOK
  <2>4. QED
    BY <1>1, <2>1, <2>3 DEF Route, TypeOK
<1>2. ASSUME NEW th \in Threads, Forward(th)
      PROVE  TypeOK'
  <2>1. PICK t \in Tasks, d \in Dispatchers : Accepts(th, t, d) \/ Refuses(th, t, d)
    BY <1>2, ForwardEnds
  <2>2. CASE Accepts(th, t, d)
    <3>1. Append(taskQueue[d], t) \in Seq(Tasks) /\ Append(arrived[id[t]], t) \in Seq(Tasks)
      BY AppendAt, GroupAssumption DEF TypeOK
    <3>2. taskQueue' \in [Dispatchers -> Seq(Tasks)] /\ arrived' \in [Groups -> Seq(Tasks)]
      BY <2>2, <3>1 DEF Accepts, TypeOK
    <3>3. QED
      BY <2>2, <3>2 DEF Accepts, ForwardFrame, TypeOK
  <2>3. CASE Refuses(th, t, d)
    BY <2>3 DEF Refuses, ForwardFrame, TypeOK
  <2>4. QED
    BY <2>1, <2>2, <2>3
<1>3. ASSUME NEW d \in Dispatchers, LoopStep(d)
      PROVE  TypeOK'
  <2>1. CASE LoopBegin(d)
    <3>1. Head(taskQueue[d]) \in Tasks
      BY <2>1 DEF LoopBegin, TypeOK
    <3>2. Append(begun[id[Head(taskQueue[d])]], Head(taskQueue[d])) \in Seq(Tasks)
      BY <3>1, AppendAt, GroupAssumption DEF TypeOK
    <3>3. begun' \in [Groups -> Seq(Tasks)]
      BY <2>1, <3>1, <3>2 DEF LoopBegin, TypeOK
    <3>4. QED
      BY <2>1, <3>3 DEF LoopBegin, TypeOK
  <2>2. CASE LoopEnd(d)
    BY <2>2 DEF LoopEnd, TypeOK
  <2>3. CASE LoopSkip(d)
    BY <2>3 DEF LoopSkip, TypeOK
  <2>4. CASE LoopPop(d)
    <3>1. taskQueue[d] \in Seq(Tasks) /\ taskQueue[d] # <<>>
      BY <2>4 DEF LoopPop, LoopInv, TypeOK
    <3>2. QED
      BY <2>4, <3>1, TailAt DEF LoopPop, TypeOK
  <2>5. CASE LoopReturn(d)
    BY <2>5 DEF LoopReturn, TypeOK
  <2>6. QED
    BY <1>3, <2>1, <2>2, <2>3, <2>4, <2>5 DEF LoopStep
<1>4. CASE Administration
  <2>1. /\ dtorIndex' \in -1 .. concurrentTaskCount
        /\ scan' \in -1 .. concurrentTaskCount
    <3>1. /\ \/ dtorIndex' = dtorIndex \/ dtorIndex' = 0
             \/ dtorIndex \in Dispatchers /\ dtorIndex' = dtorIndex + 1
          /\ \/ scan' = scan \/ scan' = 0 \/ scan' = -1
             \/ scan \in Dispatchers /\ scan' = scan + 1
      BY <1>4
      DEF Administration, DtorCall, DtorStop, DtorKill, DtorNext, BusyCall,
          BusyReturnsTrue, BusyNext, BusyReturnsFalse, Gone, vars
    <3>2. QED
      <4>1. concurrentTaskCount \in Int /\ concurrentTaskCount > 0
        BY CountAssumption
      <4>2. dtorIndex' \in -1 .. concurrentTaskCount
        BY <3>1, <4>1 DEF TypeOK, Dispatchers
      <4>3. scan' \in -1 .. concurrentTaskCount
        BY <3>1, <4>1 DEF TypeOK, Dispatchers
      <4>4. QED
        BY <4>2, <4>3
  <2>2. mode' \in [Dispatchers -> {"open", "stopped", "dying", "gone"}]
    BY <1>4
    DEF Administration, DtorCall, DtorStop, DtorKill, DtorNext, BusyCall,
        BusyReturnsTrue, BusyNext, BusyReturnsFalse, Gone, TypeOK, vars
  <2>3. spread' \in BOOLEAN
    BY <1>4
    DEF Administration, DtorCall, DtorStop, DtorKill, DtorNext, BusyCall,
        BusyReturnsTrue, BusyNext, BusyReturnsFalse, Gone, TypeOK, vars
  <2>4. QED
    BY <1>4, <2>1, <2>2, <2>3, AdministrationFrame DEF TypeOK
<1>5. CASE UNCHANGED vars
  BY <1>5 DEF vars, TypeOK
<1>6. QED
  BY <1>1, <1>2, <1>3, <1>4, <1>5 DEF Next, Administration

(***************************************************************************)
(* Routing                                                                 *)
(***************************************************************************)

\* home[g] is fixed once g has one.
LEMMA HomeStep ==
  ASSUME TypeOK, [Next]_vars, NEW g \in Groups
  PROVE  home[g] # Unassigned => home'[g] = home[g]
<1> USE DEF routeVars, callVars, historyVars, home, hashDestination
<1>1. ASSUME NEW th \in Threads, NEW t \in Tasks, Route(th, t)
      PROVE  home[g] # Unassigned => home'[g] = home[g]
  BY <1>1, GroupAssumption DEF Route, TypeOK
<1>2. ASSUME NEW th \in Threads, Forward(th)
      PROVE  home'[g] = home[g]
  BY <1>2 DEF Forward
<1>3. ASSUME NEW d \in Dispatchers, LoopStep(d)
      PROVE  home'[g] = home[g]
  BY <1>3 DEF LoopStep, LoopBegin, LoopEnd, LoopSkip, LoopPop, LoopReturn
<1>4. CASE Administration
  BY <1>4, AdministrationFrame
<1>5. CASE UNCHANGED vars
  BY <1>5 DEF vars
<1>6. QED
  BY <1>1, <1>2, <1>3, <1>4, <1>5 DEF Next, Administration

\* Calls, queues and arrivals keep agreeing with the routes: whichever threads
\* race to enqueue the first tasks of a group, one dispatcher gets them all.
LEMMA RouteStep == TypeOK /\ LoopInv /\ RouteInv /\ [Next]_vars => RouteInv'
<1> SUFFICES ASSUME TypeOK, LoopInv, RouteInv, [Next]_vars PROVE RouteInv'
  OBVIOUS
<1> DEFINE Keeps == \A g \in Groups : home[g] # Unassigned => home'[g] = home[g]
<1>a. Keeps
  BY HomeStep
<1>b. Unassigned \notin Dispatchers /\ Unassigned' = Unassigned
  BY UnassignedIsNoDispatcher DEF Unassigned
<1>c. \A t \in Tasks : id[t] \in Groups
  BY GroupAssumption
<1>d. \A d \in Dispatchers : \A p \in DOMAIN taskQueue[d] :
        taskQueue[d][p] \in Tasks /\ home'[id[taskQueue[d][p]]] = d
  <2> TAKE d \in Dispatchers
  <2> TAKE p \in DOMAIN taskQueue[d]
  <2>1. taskQueue[d] \in Seq(Tasks)
    BY DEF TypeOK
  <2>2. taskQueue[d][p] \in Tasks
    BY <2>1
  <2>3. home[id[taskQueue[d][p]]] = d
    BY DEF RouteInv
  <2>4. QED
    BY <1>a, <1>b, <1>c, <2>2, <2>3
<1>e. \A th \in Threads : callTask[th] # NoTask =>
        /\ callTask[th] \in Tasks
        /\ taskDestination[th] = home'[id[callTask[th]]]
        /\ home[id[callTask[th]]] # Unassigned
  BY <1>a, <1>b, <1>c DEF RouteInv, TypeOK
<1>f. \A g \in Groups : home'[g] = Unassigned => arrived[g] = <<>>
  BY <1>a DEF RouteInv
<1> USE DEF routeVars, callVars, historyVars
<1>1. ASSUME NEW th \in Threads, NEW t \in Tasks, Route(th, t)
      PROVE  RouteInv'
  <2>1. destination(id[t]) = home'[id[t]]
    BY <1>1, <1>c DEF Route, destination, home, TypeOK, hashDestination
  <2>2. UNCHANGED <<taskQueue, arrived>>
    BY <1>1 DEF Route
  <2>3. ASSUME NEW x \in Threads, callTask'[x] # NoTask
        PROVE  taskDestination'[x] = home'[id[callTask'[x]]]
    <3>1. CASE x = th
      BY <1>1, <2>1, <3>1 DEF Route, TypeOK
    <3>2. CASE x # th
      BY <1>1, <1>e, <2>3, <3>2 DEF Route, TypeOK
    <3>3. QED
      BY <3>1, <3>2
  <2>4. QED
    BY <1>b, <1>d, <1>f, <2>2, <2>3 DEF RouteInv
<1>2. ASSUME NEW th \in Threads, Forward(th)
      PROVE  RouteInv'
  <2>1. PICK t \in Tasks, d \in Dispatchers : Accepts(th, t, d) \/ Refuses(th, t, d)
    BY <1>2, ForwardEnds
  <2>2. \A x \in Threads : callTask'[x] # NoTask =>
          taskDestination'[x] = home'[id[callTask'[x]]]
    BY <1>e, <2>1 DEF Accepts, Refuses, ForwardFrame, TypeOK
  <2>3. t # NoTask /\ callTask[th] = t /\ taskDestination[th] = d
    BY <2>1, CallersAssumption DEF Accepts, Refuses, ForwardFrame
  <2>4. home'[id[t]] = d
    BY <1>e, <2>3
  <2>5. CASE Accepts(th, t, d)
    <3>1. ASSUME NEW e \in Dispatchers, NEW p \in DOMAIN taskQueue'[e]
          PROVE  home'[id[taskQueue'[e][p]]] = e
      <4>1. PICK n \in Nat : Pushed(t, d, n)
        BY <2>5, AcceptAdds
      <4>2. QED
        BY <1>d, <2>4, <4>1 DEF Pushed
    <3>2. \A g \in Groups : home'[g] = Unassigned => arrived'[g] = <<>>
      BY <1>b, <1>f, <2>4, <2>5 DEF Accepts, TypeOK
    <3>3. QED
      BY <1>b, <2>2, <3>1, <3>2 DEF RouteInv
  <2>6. CASE Refuses(th, t, d)
    BY <1>b, <1>d, <1>f, <2>2, <2>6 DEF Refuses, RouteInv
  <2>7. QED
    BY <2>1, <2>5, <2>6
<1>3. ASSUME NEW d \in Dispatchers, LoopStep(d)
      PROVE  RouteInv'
  <2>1. UNCHANGED <<callTask, taskDestination, arrived>>
    BY <1>3 DEF LoopStep, LoopBegin, LoopEnd, LoopSkip, LoopPop, LoopReturn
  <2>2. \A e \in Dispatchers : \A p \in DOMAIN taskQueue'[e] :
          home'[id[taskQueue'[e][p]]] = e
    <3>1. CASE UNCHANGED taskQueue
      BY <1>d, <3>1
    <3>2. CASE LoopPop(d)
      BY <1>d, <3>2, PopMoves
    <3>3. QED
      BY <1>3, <3>1, <3>2 DEF LoopStep, LoopBegin, LoopEnd, LoopSkip, LoopReturn
  <2>3. QED
    BY <1>b, <1>e, <1>f, <2>1, <2>2 DEF RouteInv
<1>4. CASE UNCHANGED <<callTask, taskDestination, taskQueue, arrived>>
  BY <1>b, <1>d, <1>e, <1>f, <1>4 DEF RouteInv
<1>5. QED
  BY <1>1, <1>2, <1>3, <1>4, AdministrationFrame DEF Next, Administration, vars

(***************************************************************************)
(* The event loops                                                         *)
(***************************************************************************)

\* The front stays in the queue until its loop pops it, a call from a task ends
\* before the task does, and a dispatcher is deleted after its loop returned.
LEMMA LoopInvStep == TypeOK /\ LoopInv /\ [Next]_vars => LoopInv'
<1> SUFFICES ASSUME TypeOK, LoopInv, [Next]_vars PROVE LoopInv'
  OBVIOUS
<1>a. Dispatchers \subseteq Threads
  BY DEF Threads
<1> USE DEF routeVars, callVars, historyVars
<1>1. ASSUME NEW th \in Threads, NEW t \in Tasks, Route(th, t)
      PROVE  LoopInv'
  <2>1. th \in Dispatchers => loop[th] = "executing"
    BY <1>1, CallersAssumption DEF Route, MayCall
  <2>2. QED
    BY <1>1, <1>a, <2>1 DEF Route, LoopInv, TypeOK
<1>2. ASSUME NEW th \in Threads, Forward(th)
      PROVE  LoopInv'
  <2>1. PICK t \in Tasks, d \in Dispatchers : Accepts(th, t, d) \/ Refuses(th, t, d)
    BY <1>2, ForwardEnds
  <2>2. \A e \in Dispatchers : taskQueue[e] # <<>> => taskQueue'[e] # <<>>
    <3>1. CASE Accepts(th, t, d)
      BY <3>1, AcceptAdds DEF Pushed
    <3>2. CASE Refuses(th, t, d)
      BY <3>2 DEF Refuses
    <3>3. QED
      BY <2>1, <3>1, <3>2
  <2>3. /\ \A e \in Dispatchers : callTask'[e] # NoTask => callTask[e] # NoTask
        /\ UNCHANGED <<loop, mode>>
    BY <1>a, <2>1 DEF Accepts, Refuses, ForwardFrame, TypeOK
  <2>4. QED
    BY <2>2, <2>3 DEF LoopInv
<1>3. ASSUME NEW d \in Dispatchers, LoopStep(d)
      PROVE  LoopInv'
  <2>1. CASE LoopBegin(d)
    BY <2>1 DEF LoopBegin, LoopInv, TypeOK
  <2>2. CASE LoopEnd(d)
    BY <2>2 DEF LoopEnd, LoopInv, TypeOK
  <2>3. CASE LoopSkip(d)
    BY <2>3 DEF LoopSkip, LoopInv, TypeOK
  <2>4. CASE LoopPop(d)
    <3>1. \A e \in Dispatchers : e # d => taskQueue'[e] = taskQueue[e]
      BY <2>4, PopMoves
    <3>2. /\ loop'[d] = "idle" /\ loop[d] = "finished"
          /\ \A e \in Dispatchers : e # d => loop'[e] = loop[e]
          /\ UNCHANGED <<callTask, mode>>
      BY <2>4 DEF LoopPop, TypeOK
    <3>3. QED
      BY <3>1, <3>2 DEF LoopInv
  <2>5. CASE LoopReturn(d)
    BY <2>5 DEF LoopReturn, LoopInv, TypeOK
  <2>6. QED
    BY <1>3, <2>1, <2>2, <2>3, <2>4, <2>5 DEF LoopStep
<1>4. CASE Administration
  <2>1. \A d \in Dispatchers : mode'[d] = "gone" =>
          mode[d] = "gone" \/ loop[d] = "returned"
    BY <1>4, AdministrationFrame DEF DtorStop, DtorKill, DtorNext, TypeOK
  <2>2. \A d \in Dispatchers : mode[d] \in {"dying", "gone"} => mode'[d] \in {"dying", "gone"}
    BY <1>4, AdministrationFrame DEF DtorStop, DtorKill, DtorNext, TypeOK
  <2>3. QED
    BY <1>4, <2>1, <2>2, AdministrationFrame DEF LoopInv
<1>5. CASE UNCHANGED vars
  BY <1>5 DEF vars, LoopInv
<1>6. QED
  BY <1>1, <1>2, <1>3, <1>4, <1>5 DEF Next, Administration

(***************************************************************************)
(* Tasks                                                                   *)
(***************************************************************************)

\* A task is handed to one dispatcher, once.
LEMMA TaskStep == TypeOK /\ LoopInv /\ TaskInv /\ [Next]_vars => TaskInv'
<1> SUFFICES ASSUME TypeOK, LoopInv, TaskInv, [Next]_vars PROVE TaskInv'
  OBVIOUS
<1> USE DEF routeVars, callVars, historyVars
<1>a. \A d \in Dispatchers : \A p \in DOMAIN taskQueue[d] : taskQueue[d][p] \in Tasks
  <2> TAKE d \in Dispatchers
  <2>1. taskQueue[d] \in Seq(Tasks)
    BY DEF TypeOK
  <2>2. QED
    BY <2>1
<1>b. \A g \in Groups : \A i \in DOMAIN arrived[g] : arrived[g][i] \in Tasks
  <2> TAKE g \in Groups
  <2>1. arrived[g] \in Seq(Tasks)
    BY DEF TypeOK
  <2>2. QED
    BY <2>1
<1>1. ASSUME NEW th \in Threads, NEW t \in Tasks, Route(th, t)
      PROVE  TaskInv'
  BY <1>1 DEF Route, TaskInv, TypeOK
<1>2. ASSUME NEW th \in Threads, Forward(th)
      PROVE  TaskInv'
  <2>1. PICK t \in Tasks, d \in Dispatchers : Accepts(th, t, d) \/ Refuses(th, t, d)
    BY <1>2, ForwardEnds
  <2>2. /\ callTask[th] = t /\ t # NoTask
        /\ callTask' = [callTask EXCEPT ![th] = NoTask]
        /\ \A x \in Tasks : x # t => outcome'[x] = outcome[x]
        /\ outcome'[t] # "new"
    BY <2>1, CallersAssumption DEF Accepts, Refuses, ForwardFrame, TypeOK
  <2>3. /\ \A x \in Threads : callTask'[x] # NoTask =>
              callTask'[x] = callTask[x] /\ callTask[x] # t /\ callTask[x] \in Tasks
    BY <2>2 DEF TaskInv, TypeOK
  <2>4. /\ \A x \in Threads : callTask'[x] # NoTask => outcome'[callTask'[x]] = "new"
        /\ \A x, y \in Threads :
              callTask'[x] # NoTask /\ callTask'[x] = callTask'[y] => x = y
    BY <2>2, <2>3 DEF TaskInv
  <2>5. /\ \A e \in Dispatchers : \A p \in DOMAIN taskQueue[e] :
              outcome'[taskQueue[e][p]] # "new"
        /\ \A g \in Groups : \A i \in DOMAIN arrived[g] : outcome'[arrived[g][i]] # "new"
    BY <1>a, <1>b, <2>2 DEF TaskInv
  <2>6. CASE Accepts(th, t, d)
    <3>1. PICK n \in Nat : Pushed(t, d, n)
      BY <2>6, AcceptAdds
    <3>2. PICK m \in Nat : Arrived(t, m)
      BY <2>6, AcceptAdds
    <3>3. \A e \in Dispatchers : \A p \in DOMAIN taskQueue'[e] :
            outcome'[taskQueue'[e][p]] # "new"
      BY <2>2, <2>5, <3>1 DEF Pushed
    <3>4. ASSUME NEW g \in Groups, NEW i \in DOMAIN arrived'[g]
          PROVE  outcome'[arrived'[g][i]] # "new"
      <4>1. CASE g = id[t]
        BY <2>2, <2>5, <3>2, <4>1 DEF Arrived
      <4>2. CASE g # id[t]
        BY <2>5, <3>2, <4>2 DEF Arrived
      <4>3. QED
        BY <4>1, <4>2
    <3>5. QED
      BY <2>4, <3>3, <3>4 DEF TaskInv
  <2>7. CASE Refuses(th, t, d)
    BY <2>4, <2>5, <2>7 DEF Refuses, TaskInv
  <2>8. QED
    BY <2>1, <2>6, <2>7
<1>3. ASSUME NEW d \in Dispatchers, LoopStep(d)
      PROVE  TaskInv'
  <2>1. CASE LoopBegin(d)
    BY <2>1 DEF LoopBegin, TaskInv
  <2>2. CASE LoopEnd(d) \/ LoopSkip(d)
    <3>1. taskQueue[d] \in Seq(Tasks) /\ taskQueue[d] # <<>>
      BY <2>2 DEF LoopEnd, LoopSkip, LoopInv, TypeOK
    <3>2. 1 \in DOMAIN taskQueue[d] /\ Head(taskQueue[d]) = taskQueue[d][1]
      BY <3>1, TailAt
    <3>3. outcome[Head(taskQueue[d])] # "new" /\ Head(taskQueue[d]) \in Tasks
      BY <1>a, <3>2 DEF TaskInv
    <3>4. \A t \in Tasks : outcome'[t] = "new" <=> outcome[t] = "new"
      BY <2>2, <3>3 DEF LoopEnd, LoopSkip, TypeOK
    <3>5. UNCHANGED <<callTask, taskQueue, arrived>>
      BY <2>2 DEF LoopEnd, LoopSkip
    <3>6. QED
      BY <1>a, <1>b, <3>4, <3>5 DEF TaskInv, TypeOK
  <2>3. CASE LoopPop(d)
    <3>1. \A e \in Dispatchers : \A p \in DOMAIN taskQueue'[e] :
            outcome[taskQueue'[e][p]] # "new"
      BY <2>3, PopMoves DEF TaskInv
    <3>2. UNCHANGED <<callTask, arrived, outcome>>
      BY <2>3 DEF LoopPop
    <3>3. QED
      BY <3>1, <3>2 DEF TaskInv
  <2>4. CASE LoopReturn(d)
    BY <2>4 DEF LoopReturn, TaskInv
  <2>5. QED
    BY <1>3, <2>1, <2>2, <2>3, <2>4 DEF LoopStep
<1>4. CASE UNCHANGED <<callTask, taskQueue, arrived, outcome>>
  BY <1>4 DEF TaskInv
<1>5. QED
  BY <1>1, <1>2, <1>3, <1>4, AdministrationFrame DEF Next, Administration, vars

(***************************************************************************)
(* The order of a group                                                    *)
(***************************************************************************)

\* Steps that leave the queues and both orders alone, that start no task, and that
\* take none away from a dispatcher that goes on executing.
LEMMA OrderFrame ==
  ASSUME OrderInv, UNCHANGED <<taskQueue, arrived, begun>>,
         \A d \in Dispatchers : \A p \in DOMAIN taskQueue[d] :
             Unstarted(d, p)' => Unstarted(d, p),
         \A d \in Dispatchers, g \in Groups :
             home'[g] = d /\ mode'[d] # "dying" /\ mode'[d] # "gone" =>
                 \/ arrived[g] = <<>>
                 \/ /\ home[g] = d /\ mode[d] # "dying" /\ mode[d] # "gone"
                    /\ \A p \in DOMAIN taskQueue[d] : Unstarted(d, p) => Unstarted(d, p)'
  PROVE  OrderInv'
<1>1. ArrivedInGroup' /\ ArrivedOnce' /\ BegunIsPrefix' /\ QueueKeepsOrder'
  BY DEF OrderInv, ArrivedInGroup, ArrivedOnce, BegunIsPrefix, QueueKeepsOrder
<1>2. UnstartedNotBegun'
  BY DEF OrderInv, UnstartedNotBegun
<1>3. NotBegunUnstarted'
  <2> SUFFICES ASSUME NEW d \in Dispatchers, NEW g \in Groups, home'[g] = d,
                      mode'[d] # "dying", mode'[d] # "gone",
                      NEW i \in DOMAIN arrived[g], i > Len(begun[g])
               PROVE  \E p \in DOMAIN taskQueue[d] :
                         Unstarted(d, p)' /\ taskQueue[d][p] = arrived[g][i]
    BY DEF NotBegunUnstarted
  <2>1. arrived[g] # <<>>
    OBVIOUS
  <2>2. PICK p \in DOMAIN taskQueue[d] :
          Unstarted(d, p) /\ taskQueue[d][p] = arrived[g][i]
    BY <2>1 DEF OrderInv, NotBegunUnstarted
  <2>3. QED
    BY <2>1, <2>2
<1>4. QED
  BY <1>1, <1>2, <1>3 DEF OrderInv

\* Forward: the new task comes last in both orders, so nothing that waits is
\* overtaken.
LEMMA OrderForward ==
  ASSUME TypeOK, RouteInv, LoopInv, TaskInv, OrderInv, RouteInv',
         NEW th \in Threads, Forward(th)
  PROVE  OrderInv'
<1>1. PICK t \in Tasks, d \in Dispatchers : Accepts(th, t, d) \/ Refuses(th, t, d)
  BY ForwardEnds
<1>2. UNCHANGED <<home, loop, mode, begun>>
  BY <1>1 DEF Accepts, Refuses, ForwardFrame, routeVars, home, hashDestination
<1>3. CASE Refuses(th, t, d)
  <2>1. UNCHANGED <<taskQueue, arrived>>
    BY <1>3 DEF Refuses
  <2>2. \A e \in Dispatchers : \A p \in DOMAIN taskQueue[e] :
          Unstarted(e, p)' <=> Unstarted(e, p)
    BY <1>2, <2>1 DEF Unstarted
  <2>3. QED
    BY <1>2, <2>1, <2>2, OrderFrame
<1>4. CASE Accepts(th, t, d)
  <2>1. PICK n \in Nat : Pushed(t, d, n)
    BY <1>4, AcceptAdds
  <2>2. PICK m \in Nat : Arrived(t, m)
    BY <1>4, AcceptAdds
  <2>3. /\ id[t] \in Groups /\ home[id[t]] = d /\ outcome[t] = "new" /\ mode[d] = "open"
    BY <1>4, GroupAssumption, CallersAssumption
    DEF Accepts, ForwardFrame, RouteInv, TaskInv
  <2>4. /\ \A e \in Dispatchers : \A p \in DOMAIN taskQueue[e] : taskQueue[e][p] # t
        /\ \A g \in Groups : \A i \in DOMAIN arrived[g] : arrived[g][i] # t
    BY <2>3 DEF TaskInv
  <2>5. \A g \in Groups : \A i \in DOMAIN arrived'[g] :
          \/ g = id[t] /\ i = m
          \/ i \in DOMAIN arrived[g] /\ arrived'[g][i] = arrived[g][i]
    BY <2>2 DEF Arrived
  <2>6. \A e \in Dispatchers : \A p \in DOMAIN taskQueue'[e] :
          \/ e = d /\ p = n
          \/ p \in DOMAIN taskQueue[e] /\ taskQueue'[e][p] = taskQueue[e][p]
    BY <2>1 DEF Pushed
  <2>7. /\ \A g \in Groups : \A i \in DOMAIN arrived[g] :
              i \in DOMAIN arrived'[g] /\ arrived'[g][i] = arrived[g][i]
        /\ \A e \in Dispatchers : \A p \in DOMAIN taskQueue[e] :
              p \in DOMAIN taskQueue'[e] /\ taskQueue'[e][p] = taskQueue[e][p]
    BY <2>1, <2>2 DEF Pushed, Arrived
  <2>8. \A e \in Dispatchers, p \in Nat :
          Unstarted(e, p) => Unstarted(e, p)'
    BY <1>2, <2>7 DEF Unstarted
  <2>9. ArrivedInGroup'
    BY <2>2, <2>5 DEF Arrived, OrderInv, ArrivedInGroup
  <2>10. ArrivedOnce'
    <3> SUFFICES ASSUME NEW g \in Groups, NEW i \in DOMAIN arrived'[g],
                        NEW j \in DOMAIN arrived'[g], arrived'[g][i] = arrived'[g][j]
                 PROVE  i = j
      BY DEF ArrivedOnce
    <3>1. QED
      BY <2>2, <2>4, <2>5 DEF Arrived, OrderInv, ArrivedOnce
  <2>11. BegunIsPrefix'
    <3> SUFFICES ASSUME NEW g \in Groups
                 PROVE  /\ Len(begun[g]) <= Len(arrived'[g])
                        /\ \A i \in DOMAIN begun[g] : begun[g][i] = arrived'[g][i]
      BY <1>2 DEF BegunIsPrefix
    <3>1. begun[g] \in Seq(Tasks) /\ arrived[g] \in Seq(Tasks)
      BY DEF TypeOK
    <3>2. Len(begun[g]) <= Len(arrived[g])
          /\ \A i \in DOMAIN begun[g] : begun[g][i] = arrived[g][i]
      BY DEF OrderInv, BegunIsPrefix
    <3>3. DOMAIN begun[g] \subseteq DOMAIN arrived[g]
      BY <3>1, <3>2
    <3>4. Len(arrived[g]) <= Len(arrived'[g])
      BY <2>2, <3>1 DEF Arrived
    <3>5. QED
      BY <2>7, <3>1, <3>2, <3>3, <3>4
  <2>12. QueueKeepsOrder'
    <3> SUFFICES ASSUME NEW e \in Dispatchers, NEW g \in Groups,
                        NEW p \in DOMAIN taskQueue'[e], NEW q \in DOMAIN taskQueue'[e],
                        NEW i \in DOMAIN arrived'[g], NEW j \in DOMAIN arrived'[g],
                        taskQueue'[e][p] = arrived'[g][i],
                        taskQueue'[e][q] = arrived'[g][j],
                        p < q
                 PROVE  i < j
      BY DEF QueueKeepsOrder
    <3>1. CASE e = d /\ q = n
      <4>1. p # n /\ p \in DOMAIN taskQueue[d] /\ taskQueue'[d][p] # t
        BY <2>1, <2>4, <2>6, <3>1 DEF Pushed
      <4>2. g = id[t] /\ j = m
        BY <2>1, <2>4, <2>5, <3>1 DEF Pushed
      <4>3. i # m /\ i \in DOMAIN arrived[g]
        BY <2>2, <2>5, <3>1, <4>1, <4>2 DEF Arrived
      <4>4. QED
        BY <2>2, <4>2, <4>3 DEF Arrived
    <3>2. CASE ~(e = d /\ q = n)
      <4>1. q \in DOMAIN taskQueue[e] /\ taskQueue'[e][q] = taskQueue[e][q]
        BY <2>6, <3>2
      <4>2. p \in DOMAIN taskQueue[e] /\ taskQueue'[e][p] = taskQueue[e][p]
        BY <2>1, <2>6, <4>1 DEF Pushed
      <4>3. /\ i \in DOMAIN arrived[g] /\ arrived'[g][i] = arrived[g][i]
            /\ j \in DOMAIN arrived[g] /\ arrived'[g][j] = arrived[g][j]
        <5>1. taskQueue[e][p] # t /\ taskQueue[e][q] # t
          BY <2>4, <4>1, <4>2
        <5>2. arrived'[g][i] # t /\ arrived'[g][j] # t
          BY <4>1, <4>2, <5>1
        <5>3. ~(g = id[t] /\ i = m) /\ ~(g = id[t] /\ j = m)
          BY <2>2, <5>2 DEF Arrived
        <5>4. QED
          BY <2>5, <5>3
      <4>4. QED
        BY <4>1, <4>2, <4>3 DEF OrderInv, QueueKeepsOrder
    <3>3. QED
      BY <3>1, <3>2
  <2>13. UnstartedNotBegun'
    <3> SUFFICES ASSUME NEW e \in Dispatchers, NEW p \in DOMAIN taskQueue'[e],
                        Unstarted(e, p)'
                 PROVE  \E i \in DOMAIN arrived'[id[taskQueue'[e][p]]] :
                           /\ i > Len(begun[id[taskQueue'[e][p]]])
                           /\ arrived'[id[taskQueue'[e][p]]][i] = taskQueue'[e][p]
      BY <1>2 DEF UnstartedNotBegun
    <3>1. CASE e = d /\ p = n
      <4>1. taskQueue'[e][p] = t /\ m \in DOMAIN arrived'[id[t]] /\ arrived'[id[t]][m] = t
        BY <2>1, <2>2, <3>1 DEF Pushed, Arrived
      <4>2. Len(begun[id[t]]) <= Len(arrived[id[t]]) /\ Len(arrived[id[t]]) = m - 1
            /\ Len(begun[id[t]]) \in Nat
        BY <2>2, <2>3 DEF Arrived, OrderInv, BegunIsPrefix, TypeOK
      <4>3. m > Len(begun[id[t]])
        BY <4>2
      <4>4. QED
        BY <4>1, <4>3
    <3>2. CASE ~(e = d /\ p = n)
      <4>1. p \in DOMAIN taskQueue[e] /\ taskQueue'[e][p] = taskQueue[e][p]
        BY <2>6, <3>2
      <4>2. Unstarted(e, p)
        BY <1>2, <4>1 DEF Unstarted
      <4>3. id[taskQueue[e][p]] \in Groups
        <5>1. taskQueue[e] \in Seq(Tasks)
          BY DEF TypeOK
        <5>2. QED
          BY <4>1, <5>1, GroupAssumption
      <4>4. PICK i \in DOMAIN arrived[id[taskQueue[e][p]]] :
              /\ i > Len(begun[id[taskQueue[e][p]]])
              /\ arrived[id[taskQueue[e][p]]][i] = taskQueue[e][p]
        BY <4>1, <4>2 DEF OrderInv, UnstartedNotBegun
      <4>5. QED
        BY <2>7, <4>1, <4>3, <4>4
    <3>3. QED
      BY <3>1, <3>2
  <2>14. NotBegunUnstarted'
    <3> SUFFICES ASSUME NEW e \in Dispatchers, NEW g \in Groups, home[g] = e,
                        mode[e] # "dying", mode[e] # "gone",
                        NEW i \in DOMAIN arrived'[g], i > Len(begun[g])
                 PROVE  \E p \in DOMAIN taskQueue'[e] :
                           Unstarted(e, p)' /\ taskQueue'[e][p] = arrived'[g][i]
      BY <1>2 DEF NotBegunUnstarted
    <3>1. CASE g = id[t] /\ i = m
      <4>1. e = d /\ n \in DOMAIN taskQueue'[e] /\ taskQueue'[e][n] = arrived'[g][i]
        BY <2>1, <2>2, <2>3, <3>1 DEF Pushed, Arrived
      <4>2. n > 1 \/ taskQueue[d] = <<>>
        BY <2>1 DEF Pushed
      <4>3. taskQueue[d] = <<>> => loop[d] # "executing" /\ loop[d] # "finished"
        BY DEF LoopInv
      <4>4. loop[d] # "returned"
        BY <2>3 DEF LoopInv
      <4>5. loop[d] \in {"idle", "executing", "finished", "returned"}
        BY DEF TypeOK
      <4>6. n > 1 \/ loop'[d] = "idle"
        BY <1>2, <4>2, <4>3, <4>4, <4>5
      <4>7. QED
        BY <4>1, <4>6 DEF Unstarted
    <3>2. CASE ~(g = id[t] /\ i = m)
      <4>1. i \in DOMAIN arrived[g] /\ arrived'[g][i] = arrived[g][i]
        BY <2>5, <3>2
      <4>2. PICK p \in DOMAIN taskQueue[e] :
              Unstarted(e, p) /\ taskQueue[e][p] = arrived[g][i]
        BY <4>1 DEF OrderInv, NotBegunUnstarted
      <4>3. p \in Nat
        BY DEF TypeOK
      <4>4. QED
        BY <2>7, <2>8, <4>1, <4>2, <4>3
    <3>3. QED
      BY <3>1, <3>2
  <2>15. QED
    BY <2>9, <2>10, <2>11, <2>12, <2>13, <2>14 DEF OrderInv
<1>5. QED
  BY <1>1, <1>3, <1>4

\* LoopBegin: the front is the first of its group's arrivals that has not begun,
\* since an earlier one would wait in this queue, too, and before it.
LEMMA OrderBegin ==
  ASSUME TypeOK, RouteInv, LoopInv, OrderInv, NEW d \in Dispatchers, LoopBegin(d)
  PROVE  OrderInv'
<1> DEFINE t == Head(taskQueue[d])
           g == id[t]
           k == Len(begun[g]) + 1
<1>1. /\ taskQueue[d] \in Seq(Tasks) /\ taskQueue[d] # <<>>
      /\ loop[d] = "idle" /\ mode[d] # "dying" /\ mode[d] # "gone"
  BY DEF LoopBegin, LoopInv, TypeOK
<1>2. /\ 1 \in DOMAIN taskQueue[d] /\ t = taskQueue[d][1] /\ t \in Tasks
      /\ \A p \in DOMAIN taskQueue[d] : p \in Nat /\ 0 < p
  BY <1>1
<1>3. g \in Groups
  BY <1>2, GroupAssumption
<1>4. begun[g] \in Seq(Tasks) /\ arrived[g] \in Seq(Tasks) /\ home[g] = d
  BY <1>2, <1>3 DEF TypeOK, RouteInv
<1>5. /\ begun'[g] = Append(begun[g], t)
      /\ \A x \in Groups : x # g => begun'[x] = begun[x]
  BY <1>3 DEF LoopBegin, TypeOK
<1>6. /\ UNCHANGED <<taskQueue, arrived, mode, home>>
      /\ loop'[d] = "executing"
      /\ \A e \in Dispatchers : e # d => loop'[e] = loop[e]
  BY DEF LoopBegin, TypeOK, routeVars, home, hashDestination
<1>7. /\ Len(begun'[g]) = k /\ DOMAIN begun'[g] = 1 .. k /\ begun'[g][k] = t
      /\ \A i \in 1 .. k - 1 : begun'[g][i] = begun[g][i]
      /\ k \in Nat /\ 0 < k /\ DOMAIN begun[g] = 1 .. k - 1
  BY <1>2, <1>4, <1>5, AppendAt
<1>8. k \in DOMAIN arrived[g] /\ arrived[g][k] = t
  <2>1. PICK i \in DOMAIN arrived[g] : i > Len(begun[g]) /\ arrived[g][i] = t
    BY <1>1, <1>2 DEF OrderInv, UnstartedNotBegun, Unstarted
  <2>2. k <= i /\ k \in DOMAIN arrived[g] /\ k > Len(begun[g])
    <3>1. /\ i \in 1 .. Len(arrived[g]) /\ DOMAIN arrived[g] = 1 .. Len(arrived[g])
          /\ Len(arrived[g]) \in Nat /\ Len(begun[g]) \in Nat
      BY <1>4
    <3>2. i \in Nat /\ i > Len(begun[g])
      BY <2>1, <3>1
    <3>3. k <= i /\ k > Len(begun[g])
      BY <3>1, <3>2
    <3>4. k \in 1 .. Len(arrived[g])
      BY <1>7, <3>1, <3>3
    <3>5. QED
      BY <3>1, <3>3, <3>4
  <2>3. PICK p \in DOMAIN taskQueue[d] : taskQueue[d][p] = arrived[g][k]
    BY <1>1, <1>3, <1>4, <2>2 DEF OrderInv, NotBegunUnstarted
  <2>4. CASE p = 1
    BY <1>2, <2>2, <2>3, <2>4
  <2>5. CASE p # 1
    <3>1. 1 < p
      BY <1>2, <2>5
    <3>2. i < k
      BY <1>2, <1>3, <2>1, <2>2, <2>3, <3>1 DEF OrderInv, QueueKeepsOrder
    <3>3. QED
      BY <1>4, <1>7, <2>1, <2>2, <3>2
  <2>6. QED
    BY <2>4, <2>5
<1>9. ArrivedInGroup' /\ ArrivedOnce' /\ QueueKeepsOrder'
  BY <1>6 DEF OrderInv, ArrivedInGroup, ArrivedOnce, QueueKeepsOrder
<1>10. BegunIsPrefix'
  <2> SUFFICES ASSUME NEW x \in Groups
               PROVE  /\ Len(begun'[x]) <= Len(arrived[x])
                      /\ \A i \in DOMAIN begun'[x] : begun'[x][i] = arrived[x][i]
    BY <1>6 DEF BegunIsPrefix
  <2>1. CASE x # g
    BY <1>5, <2>1 DEF OrderInv, BegunIsPrefix
  <2>2. CASE x = g
    <3>1. \A i \in 1 .. k - 1 : begun[g][i] = arrived[g][i]
      BY <1>3, <1>7 DEF OrderInv, BegunIsPrefix
    <3>2. k <= Len(arrived[g])
      BY <1>4, <1>8
    <3>3. \A i \in 1 .. k : i = k \/ i \in 1 .. k - 1
      BY <1>7
    <3>4. \A i \in 1 .. k : begun'[g][i] = arrived[g][i]
      BY <1>7, <1>8, <3>1, <3>3
    <3>5. QED
      BY <1>7, <2>2, <3>2, <3>4
  <2>3. QED
    BY <2>1, <2>2
<1>11. UnstartedNotBegun'
  <2> SUFFICES ASSUME NEW e \in Dispatchers, NEW p \in DOMAIN taskQueue[e],
                      Unstarted(e, p)'
               PROVE  LET x == id[taskQueue[e][p]] IN
                      \E i \in DOMAIN arrived[x] :
                          i > Len(begun'[x]) /\ arrived[x][i] = taskQueue[e][p]
    BY <1>6 DEF UnstartedNotBegun
  <2> DEFINE x == id[taskQueue[e][p]]
  <2>1. Unstarted(e, p)
    BY <1>6 DEF Unstarted
  <2>2. x \in Groups
    <3>1. taskQueue[e] \in Seq(Tasks)
      BY DEF TypeOK
    <3>2. QED
      BY <3>1, GroupAssumption
  <2>3. PICK i \in DOMAIN arrived[x] : i > Len(begun[x]) /\ arrived[x][i] = taskQueue[e][p]
    BY <2>1 DEF OrderInv, UnstartedNotBegun
  <2>4. CASE x # g
    BY <1>5, <2>2, <2>3, <2>4
  <2>5. CASE x = g
    <3>1. e = d
      BY <1>4, <2>5 DEF RouteInv
    <3>2. 1 < p
      BY <1>2, <1>6, <3>1 DEF Unstarted
    <3>3. k < i
      BY <1>2, <1>3, <1>8, <2>3, <2>5, <3>1, <3>2 DEF OrderInv, QueueKeepsOrder
    <3>4. QED
      BY <1>7, <2>3, <2>5, <3>3
  <2>6. QED
    BY <2>4, <2>5
<1>12. NotBegunUnstarted'
  <2> SUFFICES ASSUME NEW e \in Dispatchers, NEW x \in Groups, home[x] = e,
                      mode[e] # "dying", mode[e] # "gone",
                      NEW i \in DOMAIN arrived[x], i > Len(begun'[x])
               PROVE  \E p \in DOMAIN taskQueue[e] :
                         Unstarted(e, p)' /\ taskQueue[e][p] = arrived[x][i]
    BY <1>6 DEF NotBegunUnstarted
  <2>1. i \in Nat /\ Len(begun[x]) \in Nat
    BY DEF TypeOK
  <2>2. i > Len(begun[x]) /\ (x = g => i # k)
    BY <1>5, <1>7, <2>1
  <2>3. PICK p \in DOMAIN taskQueue[e] :
          Unstarted(e, p) /\ taskQueue[e][p] = arrived[x][i]
    BY <2>2 DEF OrderInv, NotBegunUnstarted
  <2>4. CASE e # d
    BY <1>6, <2>3, <2>4 DEF Unstarted
  <2>5. CASE e = d
    <3>1. p # 1
      <4>1. SUFFICES ASSUME p = 1 PROVE FALSE
        OBVIOUS
      <4>2. arrived[x][i] = t
        BY <1>2, <2>3, <2>5, <4>1
      <4>3. CASE x = g
        BY <1>3, <1>8, <2>2, <4>2, <4>3 DEF OrderInv, ArrivedOnce
      <4>4. CASE x # g
        BY <4>2, <4>4 DEF OrderInv, ArrivedInGroup
      <4>5. QED
        BY <4>3, <4>4
    <3>2. QED
      BY <1>2, <1>6, <2>3, <2>5, <3>1 DEF Unstarted
  <2>6. QED
    BY <2>4, <2>5
<1>13. QED
  BY <1>9, <1>10, <1>11, <1>12 DEF OrderInv

\* LoopPop: what was popped had begun, or was dropped by a dying dispatcher.
LEMMA OrderPop ==
  ASSUME TypeOK, LoopInv, OrderInv, NEW d \in Dispatchers, LoopPop(d)
  PROVE  OrderInv'
<1>1. /\ UNCHANGED <<arrived, begun, mode, home>>
      /\ loop[d] = "finished" /\ loop'[d] = "idle"
      /\ \A e \in Dispatchers : e # d => loop'[e] = loop[e]
  BY DEF LoopPop, TypeOK, historyVars, routeVars, home, hashDestination
<1>2. /\ \A e \in Dispatchers : e # d => taskQueue'[e] = taskQueue[e]
      /\ \A p \in DOMAIN taskQueue'[d] :
            p + 1 \in DOMAIN taskQueue[d] /\ taskQueue'[d][p] = taskQueue[d][p + 1]
      /\ \A p \in DOMAIN taskQueue[d] : p # 1 =>
            p - 1 \in DOMAIN taskQueue'[d] /\ taskQueue'[d][p - 1] = taskQueue[d][p]
      /\ \A p \in DOMAIN taskQueue'[d] : p \in Nat /\ 0 < p
      /\ \A p \in DOMAIN taskQueue[d] : p \in Nat /\ 0 < p
  BY PopMoves
<1>3. ArrivedInGroup' /\ ArrivedOnce' /\ BegunIsPrefix'
  BY <1>1 DEF OrderInv, ArrivedInGroup, ArrivedOnce, BegunIsPrefix
<1>4. QueueKeepsOrder'
  <2> SUFFICES ASSUME NEW e \in Dispatchers, NEW g \in Groups,
                      NEW p \in DOMAIN taskQueue'[e], NEW q \in DOMAIN taskQueue'[e],
                      NEW i \in DOMAIN arrived[g], NEW j \in DOMAIN arrived[g],
                      taskQueue'[e][p] = arrived[g][i],
                      taskQueue'[e][q] = arrived[g][j],
                      p < q
               PROVE  i < j
    BY <1>1 DEF QueueKeepsOrder
  <2>1. CASE e # d
    BY <1>2, <2>1 DEF OrderInv, QueueKeepsOrder
  <2>2. CASE e = d
    <3>1. /\ p + 1 \in DOMAIN taskQueue[d] /\ taskQueue[d][p + 1] = arrived[g][i]
          /\ q + 1 \in DOMAIN taskQueue[d] /\ taskQueue[d][q + 1] = arrived[g][j]
          /\ p + 1 < q + 1
      BY <1>2, <2>2
    <3>2. QED
      BY <3>1 DEF OrderInv, QueueKeepsOrder
  <2>3. QED
    BY <2>1, <2>2
<1>5. UnstartedNotBegun'
  <2> SUFFICES ASSUME NEW e \in Dispatchers, NEW p \in DOMAIN taskQueue'[e],
                      Unstarted(e, p)'
               PROVE  LET g == id[taskQueue'[e][p]] IN
                      \E i \in DOMAIN arrived[g] :
                          i > Len(begun[g]) /\ arrived[g][i] = taskQueue'[e][p]
    BY <1>1 DEF UnstartedNotBegun
  <2>1. CASE e # d
    <3>1. taskQueue'[e] = taskQueue[e] /\ Unstarted(e, p)
      BY <1>1, <1>2, <2>1 DEF Unstarted
    <3>2. QED
      BY <3>1 DEF OrderInv, UnstartedNotBegun
  <2>2. CASE e = d
    <3>1. p + 1 \in DOMAIN taskQueue[d] /\ taskQueue'[e][p] = taskQueue[d][p + 1]
          /\ p + 1 > 1
      BY <1>2, <2>2
    <3>2. Unstarted(d, p + 1)
      BY <3>1 DEF Unstarted
    <3>3. QED
      BY <3>1, <3>2 DEF OrderInv, UnstartedNotBegun
  <2>3. QED
    BY <2>1, <2>2
<1>6. NotBegunUnstarted'
  <2> SUFFICES ASSUME NEW e \in Dispatchers, NEW g \in Groups, home[g] = e,
                      mode[e] # "dying", mode[e] # "gone",
                      NEW i \in DOMAIN arrived[g], i > Len(begun[g])
               PROVE  \E p \in DOMAIN taskQueue'[e] :
                         Unstarted(e, p)' /\ taskQueue'[e][p] = arrived[g][i]
    BY <1>1 DEF NotBegunUnstarted
  <2>1. PICK p \in DOMAIN taskQueue[e] :
          Unstarted(e, p) /\ taskQueue[e][p] = arrived[g][i]
    BY DEF OrderInv, NotBegunUnstarted
  <2>2. CASE e # d
    BY <1>1, <1>2, <2>1, <2>2 DEF Unstarted
  <2>3. CASE e = d
    <3>1. p # 1
      BY <1>1, <2>1, <2>3 DEF Unstarted
    <3>2. p - 1 \in DOMAIN taskQueue'[d] /\ taskQueue'[d][p - 1] = arrived[g][i]
      BY <1>2, <2>1, <2>3, <3>1
    <3>3. QED
      BY <1>1, <2>3, <3>2 DEF Unstarted
  <2>4. QED
    BY <2>2, <2>3
<1>7. QED
  BY <1>3, <1>4, <1>5, <1>6 DEF OrderInv

\* Every step keeps the order of the groups.
LEMMA OrderStep ==
  TypeOK /\ RouteInv /\ RouteInv' /\ LoopInv /\ TaskInv /\ OrderInv /\ [Next]_vars
      => OrderInv'
<1> SUFFICES ASSUME TypeOK, RouteInv, RouteInv', LoopInv, TaskInv, OrderInv, [Next]_vars
             PROVE  OrderInv'
  OBVIOUS
<1> USE DEF routeVars, callVars, historyVars
<1>1. ASSUME NEW th \in Threads, NEW t \in Tasks, Route(th, t)
      PROVE  OrderInv'
  <2>1. UNCHANGED <<taskQueue, arrived, begun, loop, mode>>
    BY <1>1 DEF Route
  <2>2. \A d \in Dispatchers : \A p \in DOMAIN taskQueue[d] :
          Unstarted(d, p)' <=> Unstarted(d, p)
    BY <2>1 DEF Unstarted
  <2>3. \A g \in Groups : arrived[g] = <<>> \/ home'[g] = home[g]
    BY HomeStep DEF RouteInv
  <2>4. QED
    BY <2>1, <2>2, <2>3, OrderFrame
<1>2. ASSUME NEW th \in Threads, Forward(th)
      PROVE  OrderInv'
  BY <1>2, OrderForward
<1>3. ASSUME NEW d \in Dispatchers, LoopStep(d)
      PROVE  OrderInv'
  <2>1. CASE LoopBegin(d)
    BY <2>1, OrderBegin
  <2>2. CASE LoopPop(d)
    BY <2>2, OrderPop
  <2>3. CASE LoopEnd(d) \/ LoopSkip(d) \/ LoopReturn(d)
    <3>1. UNCHANGED <<taskQueue, arrived, begun, mode, home>>
      BY <2>3 DEF LoopEnd, LoopSkip, LoopReturn, home, hashDestination
    <3>2. /\ loop'[d] # "idle"
          /\ \A e \in Dispatchers : e # d => loop'[e] = loop[e]
          /\ loop[d] = "idle" => mode[d] = "dying"
      BY <2>3 DEF LoopEnd, LoopSkip, LoopReturn, TypeOK
    <3>3. \A e \in Dispatchers : \A p \in DOMAIN taskQueue[e] :
            Unstarted(e, p)' => Unstarted(e, p)
      BY <3>1, <3>2 DEF Unstarted
    <3>4. \A e \in Dispatchers : \A p \in DOMAIN taskQueue[e] :
            mode[e] # "dying" => (Unstarted(e, p) => Unstarted(e, p)')
      BY <3>1, <3>2 DEF Unstarted
    <3>5. QED
      BY <3>1, <3>3, <3>4, OrderFrame
  <2>4. QED
    BY <1>3, <2>1, <2>2, <2>3 DEF LoopStep
<1>4. CASE Administration
  <2>1. UNCHANGED <<taskQueue, arrived, begun, loop, home>>
    BY <1>4, AdministrationFrame DEF home, hashDestination
  <2>2. \A d \in Dispatchers : mode'[d] # "dying" /\ mode'[d] # "gone" =>
          mode[d] # "dying" /\ mode[d] # "gone"
    BY <1>4, AdministrationFrame DEF DtorStop, DtorKill, DtorNext, TypeOK
  <2>3. \A d \in Dispatchers : \A p \in DOMAIN taskQueue[d] :
          Unstarted(d, p)' <=> Unstarted(d, p)
    BY <2>1 DEF Unstarted
  <2>4. QED
    BY <2>1, <2>2, <2>3, OrderFrame
<1>5. CASE UNCHANGED vars
  <2>1. UNCHANGED <<taskQueue, arrived, begun, loop, mode, home>>
    BY <1>5 DEF vars, home, hashDestination
  <2>2. \A d \in Dispatchers : \A p \in DOMAIN taskQueue[d] :
          Unstarted(d, p)' <=> Unstarted(d, p)
    BY <2>1 DEF Unstarted
  <2>3. QED
    BY <2>1, <2>2, OrderFrame
<1>6. QED
  BY <1>1, <1>2, <1>3, <1>4, <1>5 DEF Next, Administration

(***************************************************************************)
(* busy()                                                                  *)
(***************************************************************************)

\* A queue that the scan has found empty is filled by its own tasks only while
\* one of them is still in it.
LEMMA BusyStep == TypeOK /\ LoopInv /\ TaskInv /\ BusyInv /\ [Next]_vars => BusyInv'
<1> SUFFICES ASSUME TypeOK, LoopInv, TaskInv, BusyInv, [Next]_vars PROVE BusyInv'
  OBVIOUS
<1> USE DEF routeVars, callVars, historyVars
<1>a. \A d \in Dispatchers : taskQueue[d] # <<>> =>
        /\ 1 \in DOMAIN taskQueue[d] /\ Head(taskQueue[d]) = taskQueue[d][1]
        /\ Head(taskQueue[d]) \in Tasks
  <2> SUFFICES ASSUME NEW d \in Dispatchers, taskQueue[d] # <<>>
               PROVE  /\ 1 \in DOMAIN taskQueue[d] /\ Head(taskQueue[d]) = taskQueue[d][1]
                      /\ Head(taskQueue[d]) \in Tasks
    OBVIOUS
  <2>1. taskQueue[d] \in Seq(Tasks)
    BY DEF TypeOK
  <2>2. QED
    BY <2>1
<1>1. ASSUME NEW th \in Threads, NEW t \in Tasks, Route(th, t)
      PROVE  BusyInv'
  BY <1>1 DEF Route, BusyInv
<1>2. ASSUME NEW th \in Threads, Forward(th)
      PROVE  BusyInv'
  <2>1. PICK t \in Tasks, d \in Dispatchers : Accepts(th, t, d) \/ Refuses(th, t, d)
    BY <1>2, ForwardEnds
  <2>2. /\ callTask[th] = t /\ t # NoTask /\ outcome[t] = "new"
        /\ \A x \in Tasks : x # t => outcome'[x] = outcome[x]
        /\ UNCHANGED <<loop, scan>>
        /\ ~spread' => ~spread /\ (scan = -1 \/ d = th)
    BY <2>1, CallersAssumption DEF Accepts, Refuses, ForwardFrame, TaskInv, TypeOK
  <2>3. \A e \in Dispatchers : loop[e] = "finished" =>
          /\ taskQueue[e] # <<>> /\ Head(taskQueue[e]) \in Tasks
          /\ Head(taskQueue[e]) # t /\ outcome'[Head(taskQueue[e])] # "accepted"
    BY <1>a, <2>2 DEF LoopInv, TaskInv, BusyInv
  <2>4. CASE Accepts(th, t, d)
    <3>1. PICK n \in Nat : Pushed(t, d, n)
      BY <2>4, AcceptAdds
    <3>2. ASSUME NEW x \in Tasks, outcome'[x] = "accepted"
          PROVE  \E e \in Dispatchers : \E p \in DOMAIN taskQueue'[e] : taskQueue'[e][p] = x
      <4>1. CASE x = t
        BY <3>1, <4>1 DEF Pushed
      <4>2. CASE x # t
        <5>1. PICK e \in Dispatchers : \E p \in DOMAIN taskQueue[e] : taskQueue[e][p] = x
          BY <2>2, <3>2, <4>2 DEF BusyInv
        <5>2. PICK p \in DOMAIN taskQueue[e] : taskQueue[e][p] = x
          BY <5>1
        <5>3. p \in DOMAIN taskQueue'[e] /\ taskQueue'[e][p] = x
          BY <3>1, <5>2 DEF Pushed
        <5>4. QED
          BY <5>3
      <4>3. QED
        BY <4>1, <4>2
    <3>3. \A e \in Dispatchers : loop'[e] = "finished" =>
            outcome'[Head(taskQueue'[e])] # "accepted"
      BY <2>2, <2>3, <3>1 DEF Pushed
    <3>4. ASSUME ~spread', NEW e \in Dispatchers, e < scan'
          PROVE  taskQueue'[e] = <<>>
      <4>1. taskQueue[e] = <<>> /\ (scan = -1 \/ d = th)
        BY <2>2, <3>4 DEF BusyInv
      <4>2. scan # -1
        BY <2>2, <3>4 DEF Dispatchers, TypeOK
      <4>3. d # e
        BY <2>2, <4>1, <4>2 DEF LoopInv
      <4>4. QED
        BY <3>1, <4>1, <4>3 DEF Pushed
    <3>5. QED
      BY <3>2, <3>3, <3>4 DEF BusyInv
  <2>5. CASE Refuses(th, t, d)
    <3>1. outcome'[t] # "accepted" /\ UNCHANGED taskQueue
      BY <2>5 DEF Refuses, TypeOK
    <3>2. QED
      BY <2>2, <2>3, <3>1 DEF BusyInv
  <2>6. QED
    BY <2>1, <2>4, <2>5
<1>3. ASSUME NEW d \in Dispatchers, LoopStep(d)
      PROVE  BusyInv'
  <2>1. CASE LoopBegin(d) \/ LoopReturn(d)
    <3>1. /\ UNCHANGED <<taskQueue, outcome, scan, spread>>
          /\ \A e \in Dispatchers : loop'[e] = "finished" => loop[e] = "finished"
      BY <2>1 DEF LoopBegin, LoopReturn, TypeOK
    <3>2. QED
      BY <3>1 DEF BusyInv
  <2>2. CASE LoopEnd(d) \/ LoopSkip(d)
    <3>1. taskQueue[d] # <<>>
      BY <2>2 DEF LoopEnd, LoopSkip, LoopInv
    <3>2. Head(taskQueue[d]) \in Tasks
      BY <1>a, <3>1
    <3>3. /\ UNCHANGED <<taskQueue, scan, spread>>
          /\ outcome'[Head(taskQueue[d])] # "accepted"
          /\ \A t \in Tasks : outcome'[t] = "accepted" => outcome[t] = "accepted"
          /\ \A e \in Dispatchers : e # d => loop'[e] = loop[e]
      BY <2>2, <3>2 DEF LoopEnd, LoopSkip, TypeOK
    <3>4. \A e \in Dispatchers : loop'[e] = "finished" =>
            outcome'[Head(taskQueue[e])] # "accepted"
      BY <1>a, <3>3 DEF BusyInv, LoopInv
    <3>5. QED
      BY <3>3, <3>4 DEF BusyInv
  <2>3. CASE LoopPop(d)
    <3>1. /\ UNCHANGED <<outcome, scan, spread>>
          /\ loop[d] = "finished" /\ loop'[d] = "idle"
          /\ \A e \in Dispatchers : e # d => loop'[e] = loop[e]
      BY <2>3 DEF LoopPop, TypeOK
    <3>2. /\ \A e \in Dispatchers : e # d => taskQueue'[e] = taskQueue[e]
          /\ taskQueue[d] # <<>> /\ Head(taskQueue[d]) = taskQueue[d][1]
          /\ \A p \in DOMAIN taskQueue[d] : p # 1 =>
                p - 1 \in DOMAIN taskQueue'[d] /\ taskQueue'[d][p - 1] = taskQueue[d][p]
      BY <2>3, PopMoves
    <3>3. ASSUME NEW t \in Tasks, outcome[t] = "accepted"
          PROVE  \E e \in Dispatchers : \E p \in DOMAIN taskQueue'[e] : taskQueue'[e][p] = t
      <4>1. PICK e \in Dispatchers : \E p \in DOMAIN taskQueue[e] : taskQueue[e][p] = t
        BY <3>3 DEF BusyInv
      <4>2. PICK p \in DOMAIN taskQueue[e] : taskQueue[e][p] = t
        BY <4>1
      <4>3. CASE e # d
        BY <3>2, <4>2, <4>3
      <4>4. CASE e = d
        <5>1. p # 1
          BY <3>1, <3>2, <3>3, <4>2, <4>4 DEF BusyInv
        <5>2. QED
          BY <3>2, <4>2, <4>4, <5>1
      <4>5. QED
        BY <4>3, <4>4
    <3>4. \A e \in Dispatchers : loop'[e] = "finished" =>
            outcome[Head(taskQueue'[e])] # "accepted"
      BY <3>1, <3>2 DEF BusyInv
    <3>5. ASSUME ~spread, NEW e \in Dispatchers, e < scan
          PROVE  taskQueue'[e] = <<>>
      BY <3>2, <3>5 DEF BusyInv
    <3>6. QED
      BY <3>1, <3>3, <3>4, <3>5 DEF BusyInv
  <2>4. QED
    BY <1>3, <2>1, <2>2, <2>3 DEF LoopStep
<1>4. CASE Administration
  <2>1. UNCHANGED <<taskQueue, loop, outcome>>
    BY <1>4, AdministrationFrame
  <2>2. ASSUME ~spread', NEW d \in Dispatchers, d < scan'
        PROVE  taskQueue[d] = <<>>
    <3>1. CASE UNCHANGED <<scan, spread>>
      BY <2>2, <3>1 DEF BusyInv
    <3>2. CASE BusyCall \/ BusyReturnsTrue \/ BusyReturnsFalse
      <4>1. scan' = 0 \/ scan' = -1
        BY <3>2 DEF BusyCall, BusyReturnsTrue, BusyReturnsFalse
      <4>2. QED
        BY <2>2, <4>1 DEF Dispatchers
    <3>3. CASE BusyNext
      <4>1. d < scan \/ d = scan
        BY <2>2, <3>3 DEF BusyNext, Dispatchers
      <4>2. QED
        BY <2>2, <3>3, <4>1 DEF BusyNext, BusyInv
    <3>4. QED
      BY <1>4, <3>1, <3>2, <3>3, AdministrationFrame
  <2>3. QED
    BY <2>1, <2>2 DEF BusyInv
<1>5. CASE UNCHANGED vars
  BY <1>5 DEF vars, BusyInv
<1>6. QED
  BY <1>1, <1>2, <1>3, <1>4, <1>5 DEF Next, Administration

(***************************************************************************)
(* The theorems                                                            *)
(***************************************************************************)

\* Every step preserves the invariant.
LEMMA InvStep == Inv /\ [Next]_vars => Inv'
BY TypeStep, RouteStep, LoopInvStep, TaskStep, OrderStep, BusyStep DEF Inv

\* The invariant holds in every reachable state.
LEMMA Invariance == SafetySpec => []Inv
BY InvInit, InvStep, PTL DEF SafetySpec

\* The token, the destinations and the indices of the destructor and of busy()
\* never leave the vector of dispatchers.
THEOREM TypeCorrect == SafetySpec => []TypeOK
<1>1. Inv => TypeOK
  BY DEF Inv
<1>2. QED
  BY <1>1, Invariance, PTL

\* Tasks of a group start in the order in which they were accepted and never run
\* at the same time, whatever threads and dispatchers do and also while the
\* destructor is at work.
THEOREM GroupOrder == SafetySpec => []GroupsAreSequential
<1>1. Inv => GroupsAreSequential
  <2> SUFFICES ASSUME Inv PROVE GroupsAreSequential
    OBVIOUS
  <2>1. ASSUME NEW g \in Groups
        PROVE  IsPrefix(begun[g], arrived[g])
    <3>1. begun[g] \in Seq(Tasks) /\ arrived[g] \in Seq(Tasks)
      BY DEF Inv, TypeOK
    <3>2. /\ Len(begun[g]) <= Len(arrived[g])
          /\ \A i \in 1 .. Len(begun[g]) : begun[g][i] = arrived[g][i]
      BY <3>1 DEF Inv, OrderInv, BegunIsPrefix
    <3>3. QED
      BY <3>1, <3>2 DEF IsPrefix
  <2>2. ASSUME NEW d \in Dispatchers, NEW e \in Dispatchers, d # e,
               Executing(d), Executing(e)
        PROVE  id[Head(taskQueue[d])] # id[Head(taskQueue[e])]
    <3>1. /\ taskQueue[d] \in Seq(Tasks) /\ taskQueue[d] # <<>>
          /\ taskQueue[e] \in Seq(Tasks) /\ taskQueue[e] # <<>>
      BY <2>2 DEF Executing, Inv, TypeOK, LoopInv
    <3>2. home[id[Head(taskQueue[d])]] = d /\ home[id[Head(taskQueue[e])]] = e
      BY <3>1, TailAt DEF Inv, RouteInv
    <3>3. QED
      BY <2>2, <3>2
  <2>3. QED
    BY <2>1, <2>2 DEF GroupsAreSequential
<1>2. QED
  BY <1>1, Invariance, PTL

\* When busy() is about to return false every accepted task has been executed or
\* dropped, unless a task sent one to another dispatcher during the scan.
THEOREM BusyIsRight == SafetySpec => []FalseMeansNoPendingJobsIfNoSpread
<1>1. Inv => FalseMeansNoPendingJobsIfNoSpread
  <2> SUFFICES ASSUME Inv, scan = concurrentTaskCount, ~spread,
                      NEW t \in Tasks, outcome[t] = "accepted"
               PROVE  FALSE
    BY DEF FalseMeansNoPendingJobsIfNoSpread
  <2>1. PICK d \in Dispatchers : \E p \in DOMAIN taskQueue[d] : taskQueue[d][p] = t
    BY DEF Inv, BusyInv
  <2>2. d < scan
    BY CountAssumption DEF Dispatchers
  <2>3. taskQueue[d] = <<>>
    BY <2>2 DEF Inv, BusyInv
  <2>4. QED
    BY <2>1, <2>3
<1>2. QED
  BY <1>1, Invariance, PTL
=============================================================================
