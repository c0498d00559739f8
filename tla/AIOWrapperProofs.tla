-------------------------- MODULE AIOWrapperProofs --------------------------
(***************************************************************************)
(* Theorems about AIOWrapper, for any number of operations and groups, any *)
(* callbacks and both builds.                                              *)
(***************************************************************************)
EXTENDS AIOWrapper, FiniteSetTheorems, TLAPS

(***************************************************************************)
(* The inductive invariant                                                 *)
(***************************************************************************)

\* How far the system and the memory are at each stage of the code.
StageInv ==
    \A op \in Ops :
        /\ stage[op] \in {"new", "prepared"} => kernel[op] = "none"
        /\ stage[op] = "failed" => kernel[op] = "refused"
        /\ stage[op] \in {"check", "queued"} =>
              ~signalBuild /\ kernel[op] \in {"EINPROGRESS", "ok", "err"}
        /\ stage[op] = "signal" =>
              signalBuild /\ kernel[op] \in {"EINPROGRESS", "ok", "err"}
        /\ stage[op] = "handler" => signalBuild /\ kernel[op] \in {"ok", "err"}
        /\ stage[op] \in {"release", "done"} => kernel[op] \in {"ok", "err", "refused"}
        /\ blocks[op] = "freed" => stage[op] = "done"

\* A pending signal is about an operation that waits for one and has ended.
SignalInv ==
    sigPending # NoOp => stage[sigPending] = "signal" /\ kernel[sigPending] \in {"ok", "err"}

\* Tasks are in the queue of their operation's group.
HomeInv == \A g \in Groups : \A i \in DOMAIN taskQueue[g] : id[taskQueue[g][i][2]] = g

\* At most one check of an operation is queued, and only while the code waits
\* for it.
CheckInv ==
    \A op \in Ops : \A i, j \in Queued("check", op) : i = j /\ stage[op] = "queued"

\* The queued notifications of an operation.
Notifications(op) == Queued("ok", op) \cup Queued("err", op)

\* An operation is notified of when its blocks are about to be freed, not before,
\* once, and by the part of the callback that is due.
NotifiedOnce(op) ==
    /\ \A i, j \in Notifications(op) : i = j
    /\ called[op] = 1 => Notifications(op) = {}
    /\ stage[op] \notin {"release", "done"} =>
          called[op] = 0 /\ Notifications(op) = {}
    /\ stage[op] \in {"release", "done"} =>
          IF Due(op) \cap callback[op] # {}
             THEN called[op] = 1 \/ Notifications(op) # {}
             ELSE called[op] = 0 /\ Notifications(op) = {}
    /\ \A kind \in {"ok", "err"} :
          Queued(kind, op) # {} => kind \in Due(op) \cap callback[op]

NotifyInv == \A op \in Ops : NotifiedOnce(op)

Inv == TypeOK /\ StageInv /\ SignalInv /\ HomeInv /\ CheckInv /\ NotifyInv

(***************************************************************************)
(* What the operations on the queues do to the tasks about an operation    *)
(***************************************************************************)

\* A step that leaves the queues alone.
LEMMA QueuedFrame ==
  ASSUME UNCHANGED taskQueue
  PROVE  \A kind, op : Queued(kind, op)' = Queued(kind, op)
BY DEF Queued

\* Enqueue adds one task of that kind about that operation, and no other.
LEMMA QueuedAfterEnqueue ==
  ASSUME TypeOK, NEW kind \in {"check", "ok", "err"}, NEW op \in Ops, Enqueue(kind, op)
  PROVE  /\ \E n \in Nat : Queued(kind, op)' = Queued(kind, op) \cup {n}
         /\ \A k, x : x \in Ops /\ (k # kind \/ x # op) => Queued(k, x)' = Queued(k, x)
<1> DEFINE q == taskQueue[id[op]]
           n == Len(q) + 1
<1>1. id[op] \in Groups /\ q \in Seq({"check", "ok", "err"} \X Ops)
  BY IdAssumption DEF TypeOK
<1>2. taskQueue'[id[op]] = Append(q, <<kind, op>>)
      /\ \A g \in Groups : g # id[op] => taskQueue'[g] = taskQueue[g]
  BY <1>1 DEF Enqueue, TypeOK
<1>3. /\ DOMAIN Append(q, <<kind, op>>) = DOMAIN q \cup {n}
      /\ n \notin DOMAIN q /\ n \in Nat
      /\ Append(q, <<kind, op>>)[n] = <<kind, op>>
      /\ \A i \in DOMAIN q : Append(q, <<kind, op>>)[i] = q[i]
  BY <1>1
<1>4. Queued(kind, op)' = Queued(kind, op) \cup {n}
  BY <1>1, <1>2, <1>3 DEF Queued
<1>5. ASSUME NEW k, NEW x \in Ops, k # kind \/ x # op
      PROVE  Queued(k, x)' = Queued(k, x)
  <2>1. id[x] \in Groups /\ <<k, x>> # <<kind, op>>
    BY <1>5, IdAssumption
  <2>2. CASE id[x] = id[op]
    <3>1. Queued(k, x)' = {i \in DOMAIN q \cup {n} : Append(q, <<kind, op>>)[i] = <<k, x>>}
      BY <1>2, <1>3, <2>2 DEF Queued
    <3>2. Queued(k, x) = {i \in DOMAIN q : q[i] = <<k, x>>}
      BY <2>2 DEF Queued
    <3>3. QED
      BY <1>3, <2>1, <3>1, <3>2
  <2>3. CASE id[x] # id[op]
    BY <1>2, <2>1, <2>3 DEF Queued
  <2>4. QED
    BY <2>2, <2>3
<1>6. QED
  BY <1>3, <1>4, <1>5

\* The front of a queue is a task about an operation of that group.
LEMMA FrontTask ==
  ASSUME TypeOK, HomeInv, NEW g \in Groups, taskQueue[g] # <<>>
  PROVE  \E kind \in {"check", "ok", "err"}, op \in Ops :
            /\ Head(taskQueue[g]) = <<kind, op>>
            /\ id[op] = g
            /\ 1 \in Queued(kind, op)
<1>1. taskQueue[g] \in Seq({"check", "ok", "err"} \X Ops)
  BY DEF TypeOK
<1>2. 1 \in DOMAIN taskQueue[g] /\ Head(taskQueue[g]) = taskQueue[g][1]
      /\ Head(taskQueue[g]) \in {"check", "ok", "err"} \X Ops
  BY <1>1
<1>3. PICK kind \in {"check", "ok", "err"}, op \in Ops : Head(taskQueue[g]) = <<kind, op>>
  BY <1>2
<1>4. id[op] = g
  BY <1>2, <1>3 DEF HomeInv
<1>5. QED
  BY <1>2, <1>3, <1>4 DEF Queued

\* Popping the front of a queue moves the other tasks one place.
LEMMA QueuedAfterPop ==
  ASSUME TypeOK, NEW g \in Groups, taskQueue[g] # <<>>,
         taskQueue' = [taskQueue EXCEPT ![g] = Tail(@)],
         NEW kind, NEW op \in Ops
  PROVE  /\ id[op] # g => Queued(kind, op)' = Queued(kind, op)
         /\ id[op] = g =>
               /\ \A i \in Queued(kind, op)' : i \in Nat /\ i + 1 \in Queued(kind, op)
               /\ \A i \in Queued(kind, op) : i # 1 =>
                     i \in Nat /\ i - 1 \in Queued(kind, op)'
<1>1. id[op] \in Groups /\ taskQueue[g] \in Seq({"check", "ok", "err"} \X Ops)
  BY IdAssumption DEF TypeOK
<1>2. CASE id[op] # g
  BY <1>1, <1>2 DEF Queued, TypeOK
<1>3. CASE id[op] = g
  <2>1. taskQueue'[g] = Tail(taskQueue[g])
    BY DEF TypeOK
  <2>2. /\ \A i \in DOMAIN Tail(taskQueue[g]) :
              i \in Nat /\ i + 1 \in DOMAIN taskQueue[g]
              /\ Tail(taskQueue[g])[i] = taskQueue[g][i + 1]
        /\ \A i \in DOMAIN taskQueue[g] : i # 1 =>
              i \in Nat /\ i - 1 \in DOMAIN Tail(taskQueue[g])
              /\ Tail(taskQueue[g])[i - 1] = taskQueue[g][i]
    BY <1>1
  <2>3. QED
    <3>1. Queued(kind, op)' =
            {i \in DOMAIN Tail(taskQueue[g]) : Tail(taskQueue[g])[i] = <<kind, op>>}
      BY <1>3, <2>1 DEF Queued
    <3>2. Queued(kind, op) = {i \in DOMAIN taskQueue[g] : taskQueue[g][i] = <<kind, op>>}
      BY <1>3 DEF Queued
    <3>3. QED
      BY <1>3, <2>2, <3>1, <3>2
<1>4. QED
  BY <1>2, <1>3

(***************************************************************************)
(* Initially                                                               *)
(***************************************************************************)

\* Nothing has been called.
LEMMA InvInit == Init => Inv
<1> SUFFICES ASSUME Init PROVE Inv
  OBVIOUS
<1> USE DEF Init
<1>1. TypeOK
  <2>1. taskQueue \in [Groups -> Seq({"check", "ok", "err"} \X Ops)]
    OBVIOUS
  <2>2. callback \in [Ops -> Callbacks \cup {{"NULL"}}]
    OBVIOUS
  <2>3. called \in [Ops -> 0 .. 1]
    OBVIOUS
  <2>4. dropped \in SUBSET Ops /\ crashed \in BOOLEAN
    OBVIOUS
  <2>5. QED
    BY <2>1, <2>2, <2>3, <2>4 DEF TypeOK, Stages
<1>2. StageInv /\ SignalInv /\ HomeInv
  BY DEF StageInv, SignalInv, HomeInv
<1>3. \A kind, op : op \in Ops => Queued(kind, op) = {}
  BY IdAssumption DEF Queued
<1>4. CheckInv
  BY <1>3 DEF CheckInv
<1>5. NotifyInv
  BY <1>3 DEF NotifyInv, NotifiedOnce, Notifications
<1>6. QED
  BY <1>1, <1>2, <1>4, <1>5 DEF Inv

(***************************************************************************)
(* Stages, signals and types                                               *)
(***************************************************************************)

\* A notification that is at the front of a queue has not been called.
LEMMA FrontNotCalled ==
  ASSUME TypeOK, NotifyInv, NEW kind \in {"ok", "err"}, NEW op \in Ops,
         Queued(kind, op) # {}
  PROVE  called[op] = 0
<1>1. called[op] \in 0 .. 1
  BY DEF TypeOK
<1>2. called[op] # 1
  BY DEF NotifyInv, NotifiedOnce, Notifications
<1>3. QED
  BY <1>1, <1>2

\* What Execute does, split by the kind of the front task.
LEMMA ExecuteCases ==
  ASSUME TypeOK, HomeInv, NEW g \in Groups, Execute(g)
  PROVE  \E kind \in {"check", "ok", "err"}, op \in Ops :
            /\ id[op] = g /\ 1 \in Queued(kind, op) /\ taskQueue[g] # <<>>
            /\ \A k, x : x \in Ops /\ (k # kind \/ x # op) => 1 \notin Queued(k, x)
                                                              \/ id[x] # g
            /\ taskQueue' = [taskQueue EXCEPT ![g] = Tail(@)]
            /\ IF kind = "check"
                  THEN /\ stage' = [stage EXCEPT ![op] = "check"]
                       /\ polling' = [polling EXCEPT ![g] = op]
                       /\ UNCHANGED called
                  ELSE /\ called' = [called EXCEPT ![op] = @ + 1]
                       /\ UNCHANGED <<stage, polling>>
<1>1. taskQueue[g] # <<>>
  BY DEF Execute
<1>2. PICK kind \in {"check", "ok", "err"}, op \in Ops :
        Head(taskQueue[g]) = <<kind, op>> /\ id[op] = g /\ 1 \in Queued(kind, op)
  BY <1>1, FrontTask
<1>3. Head(taskQueue[g])[1] = kind /\ Head(taskQueue[g])[2] = op
  BY <1>2
<1>4. ASSUME NEW k, NEW x \in Ops, k # kind \/ x # op, id[x] = g
      PROVE  1 \notin Queued(k, x)
  <2>1. taskQueue[g][1] = <<kind, op>>
    BY <1>2 DEF Queued
  <2>2. <<k, x>> # <<kind, op>>
    BY <1>4
  <2>3. QED
    BY <1>4, <2>1, <2>2 DEF Queued
<1>5. QED
  BY <1>1, <1>2, <1>3, <1>4 DEF Execute

\* Every step keeps the types: an operation is never notified of a second time.
LEMMA TypeStep == Inv /\ [Next]_vars => TypeOK'
<1> SUFFICES ASSUME Inv, [Next]_vars PROVE TypeOK'
  OBVIOUS
<1>a. TypeOK /\ HomeInv /\ NotifyInv
  BY DEF Inv
<1>b. ASSUME NEW kind \in {"check", "ok", "err"}, NEW op \in Ops, Enqueue(kind, op)
      PROVE  taskQueue' \in [Groups -> Seq({"check", "ok", "err"} \X Ops)]
  <2>1. taskQueue[id[op]] \in Seq({"check", "ok", "err"} \X Ops) /\ id[op] \in Groups
    BY <1>a, IdAssumption DEF TypeOK
  <2>2. Append(taskQueue[id[op]], <<kind, op>>) \in Seq({"check", "ok", "err"} \X Ops)
    BY <2>1
  <2>3. QED
    BY <1>a, <1>b, <2>1, <2>2 DEF Enqueue, TypeOK
<1>c. ASSUME NEW result \in {"ok", "err"}, NEW op \in Ops, Notify(op, result)
      PROVE  taskQueue' \in [Groups -> Seq({"check", "ok", "err"} \X Ops)]
  <2>1. CASE Enqueue(result, op)
    BY <1>b, <2>1
  <2>2. CASE UNCHANGED taskQueue
    BY <1>a, <2>2 DEF TypeOK
  <2>3. QED
    BY <1>c, <2>1, <2>2 DEF Notify
<1>d. ASSUME NEW op \in Ops, EndOfCheck(op)
      PROVE  polling' \in [Groups -> Ops \cup {NoOp}]
  BY <1>a, <1>d, IdAssumption DEF EndOfCheck, TypeOK
<1> USE DEF Goto, Stages
<1>1. ASSUME NEW op \in Ops, NEW argument \in Callbacks, Prepare(op, argument)
      PROVE  TypeOK'
  BY <1>1, <1>a DEF Prepare, TypeOK
<1>2. ASSUME NEW op \in Ops, Accepted(op) \/ Refused(op)
      PROVE  TypeOK'
  BY <1>2, <1>a DEF Accepted, Refused, TypeOK
<1>3. ASSUME NEW op \in Ops, ReportRefusal(op)
      PROVE  TypeOK'
  <2>1. taskQueue' \in [Groups -> Seq({"check", "ok", "err"} \X Ops)]
    BY <1>3, <1>a, <1>c DEF ReportRefusal, TypeOK
  <2>2. QED
    BY <1>3, <1>a, <2>1 DEF ReportRefusal, TypeOK
<1>4. ASSUME NEW op \in Ops, aio_done(op)
      PROVE  TypeOK'
  <2>1. kernel[op] \in {"ok", "err"}
    BY <1>4 DEF aio_done, Inv, StageInv
  <2>2. taskQueue' \in [Groups -> Seq({"check", "ok", "err"} \X Ops)]
    BY <1>4, <1>c, <2>1 DEF aio_done
  <2>3. QED
    BY <1>4, <1>a, <2>2 DEF aio_done, TypeOK
<1>5. ASSUME NEW op \in Ops, checkInProgress(op)
      PROVE  TypeOK'
  <2>1. taskQueue' \in [Groups -> Seq({"check", "ok", "err"} \X Ops)]
    BY <1>5, <1>b DEF checkInProgress
  <2>2. polling' \in [Groups -> Ops \cup {NoOp}]
    BY <1>5, <1>d DEF checkInProgress
  <2>3. QED
    BY <1>5, <1>a, <2>1, <2>2 DEF checkInProgress, TypeOK
<1>6. ASSUME NEW op \in Ops, checkCrashes(op)
      PROVE  TypeOK'
  BY <1>6, <1>a DEF checkCrashes, TypeOK
<1>7. ASSUME NEW op \in Ops, checkEnded(op)
      PROVE  TypeOK'
  <2>1. kernel[op] \in {"ok", "err"}
    BY <1>7 DEF checkEnded, Inv, StageInv
  <2>2. taskQueue' \in [Groups -> Seq({"check", "ok", "err"} \X Ops)]
    BY <1>7, <1>c, <2>1 DEF checkEnded
  <2>3. QED
    BY <1>7, <1>a, <2>2 DEF checkEnded, TypeOK
<1>8. ASSUME NEW op \in Ops, Release(op)
      PROVE  TypeOK'
  <2>1. polling' \in [Groups -> Ops \cup {NoOp}]
    BY <1>8, <1>d DEF Release
  <2>2. QED
    BY <1>8, <1>a, <2>1 DEF Release, TypeOK
<1>9. ASSUME NEW op \in Ops, NEW result \in {"ok", "err"}, Complete(op, result)
      PROVE  TypeOK'
  BY <1>9, <1>a DEF Complete, TypeOK
<1>10. CASE Deliver
  BY <1>10, <1>a DEF Deliver, TypeOK
<1>11. ASSUME NEW g \in Groups, Execute(g)
       PROVE  TypeOK'
  <2>1. PICK kind \in {"check", "ok", "err"}, op \in Ops :
          /\ 1 \in Queued(kind, op) /\ taskQueue[g] # <<>>
          /\ taskQueue' = [taskQueue EXCEPT ![g] = Tail(@)]
          /\ IF kind = "check"
                THEN /\ stage' = [stage EXCEPT ![op] = "check"]
                     /\ polling' = [polling EXCEPT ![g] = op]
                     /\ UNCHANGED called
                ELSE /\ called' = [called EXCEPT ![op] = @ + 1]
                     /\ UNCHANGED <<stage, polling>>
    BY <1>11, <1>a, ExecuteCases
  <2>2. Tail(taskQueue[g]) \in Seq({"check", "ok", "err"} \X Ops)
    BY <1>a, <2>1 DEF TypeOK
  <2>3. taskQueue' \in [Groups -> Seq({"check", "ok", "err"} \X Ops)]
    BY <1>a, <2>1, <2>2 DEF TypeOK
  <2>4. kind # "check" => called[op] + 1 \in 0 .. 1
    BY <1>a, <2>1, FrontNotCalled
  <2>5. called' \in [Ops -> 0 .. 1]
    BY <1>a, <2>1, <2>4 DEF TypeOK
  <2>6. stage' \in [Ops -> Stages] /\ polling' \in [Groups -> Ops \cup {NoOp}]
    BY <1>a, <2>1 DEF TypeOK
  <2>7. QED
    BY <1>11, <1>a, <2>3, <2>5, <2>6 DEF Execute, TypeOK
<1>12. CASE UNCHANGED vars
  BY <1>12, <1>a DEF vars, TypeOK
<1>13. QED
  BY <1>1, <1>2, <1>3, <1>4, <1>5, <1>6, <1>7, <1>8, <1>9, <1>10, <1>11, <1>12
  DEF Next, Code, Terminated

\* Every step keeps stages, system and memory in agreement: only the check or the
\* handler, which run after the operation has ended, lead to the release.
LEMMA StageStep == Inv /\ [Next]_vars => StageInv' /\ SignalInv'
<1> SUFFICES ASSUME Inv, [Next]_vars PROVE StageInv' /\ SignalInv'
  OBVIOUS
<1>a. TypeOK /\ HomeInv /\ StageInv /\ SignalInv /\ CheckInv
  BY DEF Inv
<1> USE NoOpAssumption DEF Goto, StageInv, SignalInv
<1>1. ASSUME NEW op \in Ops, NEW argument \in Callbacks, Prepare(op, argument)
      PROVE  StageInv' /\ SignalInv'
  BY <1>1, <1>a DEF Prepare, TypeOK
<1>2. ASSUME NEW op \in Ops, Accepted(op)
      PROVE  StageInv' /\ SignalInv'
  BY <1>2, <1>a DEF Accepted, TypeOK
<1>3. ASSUME NEW op \in Ops, Refused(op)
      PROVE  StageInv' /\ SignalInv'
  BY <1>3, <1>a DEF Refused, TypeOK
<1>4. ASSUME NEW op \in Ops, ReportRefusal(op)
      PROVE  StageInv' /\ SignalInv'
  BY <1>4, <1>a DEF ReportRefusal, TypeOK
<1>5. ASSUME NEW op \in Ops, aio_done(op)
      PROVE  StageInv' /\ SignalInv'
  BY <1>5, <1>a DEF aio_done, TypeOK
<1>6. ASSUME NEW op \in Ops, checkInProgress(op)
      PROVE  StageInv' /\ SignalInv'
  BY <1>6, <1>a DEF checkInProgress, TypeOK
<1>7. ASSUME NEW op \in Ops, checkEnded(op)
      PROVE  StageInv' /\ SignalInv'
  BY <1>7, <1>a DEF checkEnded, TypeOK
<1>8. ASSUME NEW op \in Ops, Release(op)
      PROVE  StageInv' /\ SignalInv'
  BY <1>8, <1>a DEF Release, TypeOK
<1>9. ASSUME NEW op \in Ops, NEW result \in {"ok", "err"}, Complete(op, result)
      PROVE  StageInv' /\ SignalInv'
  <2>1. /\ kernel[op] = "EINPROGRESS" /\ kernel'[op] = result
        /\ \A x \in Ops : x # op => kernel'[x] = kernel[x]
        /\ UNCHANGED <<signalBuild, stage, blocks>>
    BY <1>9, <1>a DEF Complete, TypeOK
  <2>2. stage[op] \in {"check", "queued", "signal"} /\ (signalBuild => stage[op] = "signal")
    BY <1>a, <2>1 DEF TypeOK, Stages
  <2>3. StageInv'
    BY <1>a, <2>1, <2>2
  <2>4. sigPending' = sigPending \/ (signalBuild /\ sigPending' = op)
    BY <1>9 DEF Complete
  <2>5. sigPending # op
    BY <1>a, <2>1
  <2>6. SignalInv'
    BY <1>a, <2>1, <2>2, <2>4, <2>5 DEF TypeOK
  <2>7. QED
    BY <2>3, <2>6
<1>10. CASE Deliver
  BY <1>10, <1>a DEF Deliver, TypeOK
<1>11. ASSUME NEW g \in Groups, Execute(g)
       PROVE  StageInv' /\ SignalInv'
  <2>1. PICK kind \in {"check", "ok", "err"}, op \in Ops :
          /\ 1 \in Queued(kind, op)
          /\ IF kind = "check" THEN stage' = [stage EXCEPT ![op] = "check"]
                               ELSE UNCHANGED stage
    BY <1>11, <1>a, ExecuteCases
  <2>2. UNCHANGED <<signalBuild, kernel, blocks, sigPending>>
    BY <1>11 DEF Execute
  <2>3. kind = "check" => stage[op] = "queued"
    BY <1>a, <2>1 DEF CheckInv
  <2>4. QED
    BY <1>a, <2>1, <2>2, <2>3 DEF TypeOK
<1>12. CASE UNCHANGED <<signalBuild, stage, kernel, blocks, sigPending>>
  BY <1>12, <1>a
<1>13. QED
  BY <1>1, <1>2, <1>3, <1>4, <1>5, <1>6, <1>7, <1>8, <1>9, <1>10, <1>11, <1>12
  DEF Next, Code, Terminated, checkCrashes, vars

(***************************************************************************)
(* The queues                                                              *)
(***************************************************************************)

\* Enqueueing and popping keep every task in the queue of its group.
LEMMA HomeStep == Inv /\ [Next]_vars => HomeInv'
<1> SUFFICES ASSUME Inv, [Next]_vars PROVE HomeInv'
  OBVIOUS
<1>a. TypeOK /\ HomeInv
  BY DEF Inv
<1>b. \A g \in Groups : taskQueue[g] \in Seq({"check", "ok", "err"} \X Ops)
  BY <1>a DEF TypeOK
<1>1. CASE UNCHANGED taskQueue
  BY <1>1, <1>a DEF HomeInv
<1>2. ASSUME NEW kind, NEW op \in Ops, Enqueue(kind, op)
      PROVE  HomeInv'
  <2>1. /\ taskQueue'[id[op]] = Append(taskQueue[id[op]], <<kind, op>>)
        /\ \A g \in Groups : g # id[op] => taskQueue'[g] = taskQueue[g]
        /\ id[op] \in Groups
    BY <1>2, <1>a, IdAssumption DEF Enqueue, TypeOK
  <2>2. ASSUME NEW i \in DOMAIN taskQueue'[id[op]]
        PROVE  \/ i \in DOMAIN taskQueue[id[op]]
                  /\ taskQueue'[id[op]][i] = taskQueue[id[op]][i]
               \/ taskQueue'[id[op]][i] = <<kind, op>>
    BY <1>b, <2>1
  <2>3. ASSUME NEW g \in Groups, NEW i \in DOMAIN taskQueue'[g]
        PROVE  id[taskQueue'[g][i][2]] = g
    <3>1. CASE g # id[op]
      BY <1>a, <2>1, <3>1 DEF HomeInv
    <3>2. CASE g = id[op]
      <4>1. CASE taskQueue'[g][i] = <<kind, op>>
        BY <3>2, <4>1
      <4>2. CASE i \in DOMAIN taskQueue[g] /\ taskQueue'[g][i] = taskQueue[g][i]
        BY <1>a, <4>2 DEF HomeInv
      <4>3. QED
        BY <2>2, <3>2, <4>1, <4>2
    <3>3. QED
      BY <3>1, <3>2
  <2>4. QED
    BY <2>3 DEF HomeInv
<1>3. ASSUME NEW g \in Groups, Execute(g)
      PROVE  HomeInv'
  <2>1. /\ taskQueue[g] # <<>> /\ taskQueue'[g] = Tail(taskQueue[g])
        /\ \A x \in Groups : x # g => taskQueue'[x] = taskQueue[x]
    BY <1>3, <1>a DEF Execute, TypeOK
  <2>2. ASSUME NEW i \in DOMAIN taskQueue'[g]
        PROVE  i + 1 \in DOMAIN taskQueue[g] /\ taskQueue'[g][i] = taskQueue[g][i + 1]
    BY <1>b, <2>1
  <2>3. ASSUME NEW x \in Groups, NEW i \in DOMAIN taskQueue'[x]
        PROVE  id[taskQueue'[x][i][2]] = x
    <3>1. CASE x # g
      BY <1>a, <2>1, <3>1 DEF HomeInv
    <3>2. CASE x = g
      <4>1. i + 1 \in DOMAIN taskQueue[g] /\ taskQueue'[x][i] = taskQueue[g][i + 1]
        BY <2>2, <3>2
      <4>2. QED
        BY <1>a, <3>2, <4>1 DEF HomeInv
    <3>3. QED
      BY <3>1, <3>2
  <2>4. QED
    BY <2>3 DEF HomeInv
<1>4. QED
  BY <1>1, <1>2, <1>3
  DEF Next, Code, Terminated, vars, Prepare, Accepted, Refused, ReportRefusal, aio_done,
      checkInProgress, checkCrashes, checkEnded, Release, Complete, Deliver, Notify

\* A check is enqueued by the check that it follows, and only then: no second one
\* is ever queued.
LEMMA CheckStep == Inv /\ [Next]_vars => CheckInv'
<1> SUFFICES ASSUME Inv, [Next]_vars PROVE CheckInv'
  OBVIOUS
<1>a. TypeOK /\ HomeInv /\ CheckInv
  BY DEF Inv
<1>b. ASSUME NEW op \in Ops, stage[op] # "queued"
      PROVE  Queued("check", op) = {}
  BY <1>a, <1>b DEF CheckInv
<1>c. ASSUME NEW op \in Ops, NEW kind \in {"ok", "err"}, Notify(op, kind)
      PROVE  \A x \in Ops : Queued("check", x)' = Queued("check", x)
  <2>1. CASE Enqueue(kind, op)
    BY <1>a, <2>1, QueuedAfterEnqueue
  <2>2. CASE UNCHANGED taskQueue
    BY <2>2, QueuedFrame
  <2>3. QED
    BY <1>c, <2>1, <2>2 DEF Notify
\* Steps that enqueue and execute no check, and start from another stage.
<1>d. ASSUME NEW op \in Ops, \A x \in Ops : Queued("check", x)' = Queued("check", x),
             stage[op] # "queued", \A x \in Ops : x # op => stage'[x] = stage[x]
      PROVE  CheckInv'
  BY <1>a, <1>b, <1>d DEF CheckInv
<1> USE DEF Goto
<1>1. ASSUME NEW op \in Ops,
             \/ \E argument \in Callbacks : Prepare(op, argument)
             \/ Accepted(op) \/ Refused(op) \/ Release(op)
      PROVE  CheckInv'
  <2>1. /\ UNCHANGED taskQueue /\ stage[op] # "queued"
        /\ \A x \in Ops : x # op => stage'[x] = stage[x]
    BY <1>1, <1>a DEF Prepare, Accepted, Refused, Release, TypeOK
  <2>2. QED
    BY <1>d, <2>1, QueuedFrame
<1>2. ASSUME NEW op \in Ops, ReportRefusal(op) \/ aio_done(op) \/ checkEnded(op)
      PROVE  CheckInv'
  <2>1. /\ stage[op] # "queued"
        /\ \A x \in Ops : x # op => stage'[x] = stage[x]
    BY <1>2, <1>a DEF ReportRefusal, aio_done, checkEnded, TypeOK
  <2>2. aio_done(op) \/ checkEnded(op) => kernel[op] \in {"ok", "err"}
    BY DEF aio_done, checkEnded, Inv, StageInv
  <2>3. UNCHANGED taskQueue \/ \E kind \in {"ok", "err"} : Notify(op, kind)
    BY <1>2, <2>2 DEF ReportRefusal, aio_done, checkEnded
  <2>4. \A x \in Ops : Queued("check", x)' = Queued("check", x)
    BY <1>c, <2>3, QueuedFrame
  <2>5. QED
    BY <1>d, <2>1, <2>4
<1>3. ASSUME NEW op \in Ops, checkInProgress(op)
      PROVE  CheckInv'
  <2>1. /\ stage[op] = "check" /\ stage'[op] = "queued" /\ Enqueue("check", op)
        /\ \A x \in Ops : x # op => stage'[x] = stage[x]
    BY <1>3, <1>a DEF checkInProgress, TypeOK
  <2>2. Queued("check", op) = {}
    BY <1>b, <2>1
  <2>3. /\ \E n \in Nat : Queued("check", op)' = Queued("check", op) \cup {n}
        /\ \A x \in Ops : x # op => Queued("check", x)' = Queued("check", x)
    BY <1>a, <2>1, QueuedAfterEnqueue
  <2>4. QED
    BY <1>a, <2>1, <2>2, <2>3 DEF CheckInv
<1>4. ASSUME NEW g \in Groups, Execute(g)
      PROVE  CheckInv'
  <2>1. PICK kind \in {"check", "ok", "err"}, op \in Ops :
          /\ id[op] = g /\ 1 \in Queued(kind, op) /\ taskQueue[g] # <<>>
          /\ taskQueue' = [taskQueue EXCEPT ![g] = Tail(@)]
          /\ IF kind = "check" THEN stage' = [stage EXCEPT ![op] = "check"]
                               ELSE UNCHANGED stage
    BY <1>4, <1>a, ExecuteCases
  <2>2. ASSUME NEW x \in Ops, NEW i \in Queued("check", x)', NEW j \in Queued("check", x)'
        PROVE  i = j /\ stage'[x] = "queued"
    <3>1. CASE id[x] # g
      <4>1. Queued("check", x)' = Queued("check", x)
        BY <1>a, <2>1, <3>1, QueuedAfterPop
      <4>2. x # op
        BY <2>1, <3>1
      <4>3. QED
        BY <1>a, <2>1, <2>2, <4>1, <4>2 DEF CheckInv, TypeOK
    <3>2. CASE id[x] = g
      <4>1. /\ i + 1 \in Queued("check", x) /\ i \in Nat
            /\ j + 1 \in Queued("check", x) /\ j \in Nat
            /\ \A l \in Queued("check", x)' : l \in Nat
        BY <1>a, <2>1, <2>2, <3>2, QueuedAfterPop
      <4>2. i + 1 = j + 1 /\ stage[x] = "queued"
        BY <1>a, <4>1 DEF CheckInv
      <4>3. CASE kind = "check" /\ x = op
        <5>1. i + 1 = 1
          BY <1>a, <2>1, <4>1, <4>3 DEF CheckInv
        <5>2. i # 0
          <6>1. i \in DOMAIN taskQueue'[g]
            BY <2>2, <3>2 DEF Queued
          <6>2. taskQueue[g] \in Seq({"check", "ok", "err"} \X Ops)
                /\ taskQueue'[g] = Tail(taskQueue[g])
            BY <1>a, <2>1 DEF TypeOK
          <6>3. QED
            BY <2>1, <6>1, <6>2
        <5>3. QED
          BY <4>1, <5>1, <5>2
      <4>4. CASE ~(kind = "check" /\ x = op)
        BY <1>a, <2>1, <4>1, <4>2, <4>4 DEF TypeOK
      <4>5. QED
        BY <4>3, <4>4
    <3>3. QED
      BY <3>1, <3>2
  <2>3. QED
    BY <2>2 DEF CheckInv
<1>5. CASE Deliver
  <2>1. /\ UNCHANGED taskQueue /\ sigPending \in Ops /\ stage[sigPending] # "queued"
        /\ \A x \in Ops : x # sigPending => stage'[x] = stage[x]
    BY <1>5, <1>a DEF Deliver, Inv, SignalInv, TypeOK
  <2>2. QED
    BY <1>d, <2>1, QueuedFrame
<1>6. CASE UNCHANGED <<stage, taskQueue>>
  BY <1>6, <1>a, QueuedFrame DEF CheckInv
<1>7. QED
  BY <1>1, <1>2, <1>3, <1>4, <1>5, <1>6
  DEF Next, Code, Terminated, checkCrashes, Complete, vars

(***************************************************************************)
(* Notifications                                                           *)
(***************************************************************************)

\* An operation whose notifications, stage, result and callback stay the same.
LEMMA NotifiedFrame ==
  ASSUME NEW op \in Ops, NotifiedOnce(op), UNCHANGED signalBuild,
         Queued("ok", op)' = Queued("ok", op), Queued("err", op)' = Queued("err", op),
         called'[op] = called[op], callback'[op] = callback[op],
         kernel'[op] = kernel[op],
         stage'[op] \in {"release", "done"} <=> stage[op] \in {"release", "done"}
  PROVE  NotifiedOnce(op)'
<1>1. Due(op)' = Due(op)
  BY DEF Due
<1>2. Notifications(op)' = Notifications(op)
  BY DEF Notifications
<1>3. \A kind \in {"ok", "err"} : Queued(kind, op)' = Queued(kind, op)
  OBVIOUS
<1>4. QED
  BY <1>1, <1>2, <1>3 DEF NotifiedOnce

\* An operation that is not yet to be released has no notifications, whatever
\* its result may become.
LEMMA NotYetNotified ==
  ASSUME NEW op \in Ops, NotifiedOnce(op), stage[op] \notin {"release", "done"},
         Queued("ok", op)' = Queued("ok", op), Queued("err", op)' = Queued("err", op),
         called'[op] = called[op], stage'[op] \notin {"release", "done"}
  PROVE  NotifiedOnce(op)'
<1>1. called[op] = 0 /\ Queued("ok", op) = {} /\ Queued("err", op) = {}
  BY DEF NotifiedOnce, Notifications
<1>2. Notifications(op)' = {}
  BY <1>1 DEF Notifications
<1>3. QED
  BY <1>1, <1>2 DEF NotifiedOnce

\* The step that leads to the release makes the notification that is due.
LEMMA NotifiedNow ==
  ASSUME TypeOK, NEW op \in Ops, NotifiedOnce(op), stage[op] \notin {"release", "done"},
         stage'[op] = "release", UNCHANGED <<signalBuild, callback, kernel, called>>,
         \/ Due(op) = {} /\ UNCHANGED taskQueue
         \/ \E kind \in {"ok", "err"} : Due(op) = {kind} /\ Notify(op, kind)
  PROVE  NotifiedOnce(op)'
<1>1. called[op] = 0 /\ called'[op] = 0 /\ Queued("ok", op) = {} /\ Queued("err", op) = {}
  BY DEF NotifiedOnce, Notifications
<1>2. Due(op)' = Due(op) /\ callback'[op] = callback[op]
  BY DEF Due
<1>3. CASE Due(op) \cap callback[op] = {} /\ UNCHANGED taskQueue
  <2>1. Queued("ok", op)' = {} /\ Queued("err", op)' = {}
    BY <1>1, <1>3, QueuedFrame
  <2>2. Notifications(op)' = {}
    BY <2>1 DEF Notifications
  <2>3. QED
    BY <1>1, <1>2, <1>3, <2>1, <2>2 DEF NotifiedOnce
<1>4. ASSUME NEW kind \in {"ok", "err"}, Due(op) = {kind}, kind \in callback[op],
             Enqueue(kind, op)
      PROVE  NotifiedOnce(op)'
  <2>1. PICK n \in Nat : Queued(kind, op)' = Queued(kind, op) \cup {n}
    BY <1>4, QueuedAfterEnqueue
  <2>2. \A k \in {"ok", "err"} : k # kind => Queued(k, op)' = Queued(k, op)
    BY <1>4, QueuedAfterEnqueue
  <2>3. Queued(kind, op)' = {n} /\ \A k \in {"ok", "err"} : k # kind => Queued(k, op)' = {}
    BY <1>1, <2>1, <2>2
  <2>4. Notifications(op)' = {n}
    BY <2>3 DEF Notifications
  <2>5. kind \in Due(op)' \cap callback'[op]
    BY <1>2, <1>4
  <2>6. \A k \in {"ok", "err"} : Queued(k, op)' # {} => k \in Due(op)' \cap callback'[op]
    BY <2>3, <2>5
  <2>7. QED
    BY <1>1, <2>4, <2>5, <2>6 DEF NotifiedOnce
<1>5. QED
  BY <1>3, <1>4 DEF Notify

\* A step of op that leads to the release leaves the others alone.
LEMMA OthersNotNotified ==
  ASSUME TypeOK, NEW op \in Ops, NEW x \in Ops, x # op,
         UNCHANGED taskQueue \/ \E kind \in {"check", "ok", "err"} : Enqueue(kind, op)
  PROVE  Queued("ok", x)' = Queued("ok", x) /\ Queued("err", x)' = Queued("err", x)
BY QueuedFrame, QueuedAfterEnqueue

\* An operation whose notifications move one place to the front of the queue.
LEMMA NotifiedShift ==
  ASSUME NEW op \in Ops, NotifiedOnce(op), UNCHANGED <<signalBuild, callback, kernel>>,
         called'[op] = called[op],
         stage'[op] \in {"release", "done"} <=> stage[op] \in {"release", "done"},
         \A kind \in {"ok", "err"} :
             /\ \A i \in Queued(kind, op)' : i \in Nat /\ i + 1 \in Queued(kind, op)
             /\ \A i \in Queued(kind, op) : i \in Nat /\ i - 1 \in Queued(kind, op)'
  PROVE  NotifiedOnce(op)'
<1>1. Due(op)' = Due(op)
  BY DEF Due
<1>2. \A kind \in {"ok", "err"} : Queued(kind, op)' # {} => Queued(kind, op) # {}
  OBVIOUS
<1>3. \A i \in Notifications(op)' : i \in Nat /\ i + 1 \in Notifications(op)
  BY DEF Notifications
<1>4. \A i \in Notifications(op) : i - 1 \in Notifications(op)'
  BY DEF Notifications
<1>5. Notifications(op)' = {} <=> Notifications(op) = {}
  BY <1>3, <1>4
<1>6. \A i, j \in Notifications(op)' : i = j
  <2> TAKE i, j \in Notifications(op)'
  <2>1. i + 1 = j + 1 /\ i \in Nat /\ j \in Nat
    BY <1>3 DEF NotifiedOnce
  <2>2. QED
    BY <2>1
<1>7. QED
  BY <1>1, <1>2, <1>5, <1>6 DEF NotifiedOnce

\* Every step keeps the notifications right.
LEMMA NotifyStep == Inv /\ [Next]_vars => NotifyInv'
<1> SUFFICES ASSUME Inv, [Next]_vars, NEW x \in Ops PROVE NotifiedOnce(x)'
  BY DEF NotifyInv
<1>a. TypeOK /\ HomeInv /\ StageInv /\ SignalInv /\ CheckInv /\ NotifiedOnce(x)
  BY DEF Inv, NotifyInv
<1> USE DEF Goto
<1>1. ASSUME NEW op \in Ops, NEW argument \in Callbacks, Prepare(op, argument)
      PROVE  NotifiedOnce(x)'
  <2>1. UNCHANGED <<taskQueue, called, kernel, signalBuild>>
    BY <1>1 DEF Prepare
  <2>2. Queued("ok", x)' = Queued("ok", x) /\ Queued("err", x)' = Queued("err", x)
    BY <2>1, QueuedFrame
  <2>3. CASE x = op
    <3>1. stage[x] \notin {"release", "done"} /\ stage'[x] \notin {"release", "done"}
      BY <1>1, <1>a, <2>3 DEF Prepare, TypeOK
    <3>2. QED
      BY <1>a, <2>1, <2>2, <3>1, NotYetNotified
  <2>4. CASE x # op
    <3>1. stage'[x] = stage[x] /\ callback'[x] = callback[x]
      BY <1>1, <1>a, <2>4 DEF Prepare, TypeOK
    <3>2. QED
      BY <1>a, <2>1, <2>2, <3>1, NotifiedFrame
  <2>5. QED
    BY <2>3, <2>4
<1>2. ASSUME NEW op \in Ops, Accepted(op) \/ Refused(op)
      PROVE  NotifiedOnce(x)'
  <2>1. UNCHANGED <<taskQueue, called, callback, signalBuild>>
    BY <1>2 DEF Accepted, Refused
  <2>2. Queued("ok", x)' = Queued("ok", x) /\ Queued("err", x)' = Queued("err", x)
    BY <2>1, QueuedFrame
  <2>3. CASE x = op
    <3>1. stage[x] \notin {"release", "done"} /\ stage'[x] \notin {"release", "done"}
      BY <1>2, <1>a, <2>3 DEF Accepted, Refused, TypeOK
    <3>2. QED
      BY <1>a, <2>1, <2>2, <3>1, NotYetNotified
  <2>4. CASE x # op
    <3>1. stage'[x] = stage[x] /\ kernel'[x] = kernel[x]
      BY <1>2, <1>a, <2>4 DEF Accepted, Refused, TypeOK
    <3>2. QED
      BY <1>a, <2>1, <2>2, <3>1, NotifiedFrame
  <2>5. QED
    BY <2>3, <2>4
<1>3. ASSUME NEW op \in Ops, ReportRefusal(op) \/ aio_done(op) \/ checkEnded(op)
      PROVE  NotifiedOnce(x)'
  <2>1. UNCHANGED <<callback, kernel, called, signalBuild>>
    BY <1>3 DEF ReportRefusal, aio_done, checkEnded
  <2>2. /\ stage[op] \notin {"release", "done"} /\ stage'[op] = "release"
        /\ \A y \in Ops : y # op => stage'[y] = stage[y]
    BY <1>3, <1>a DEF ReportRefusal, aio_done, checkEnded, TypeOK
  <2>3. \/ Due(op) = {} /\ UNCHANGED taskQueue
        \/ \E kind \in {"ok", "err"} : Due(op) = {kind} /\ Notify(op, kind)
    <3>1. CASE ReportRefusal(op)
      <4>1. kernel[op] = "refused"
        BY <1>a, <3>1 DEF ReportRefusal, StageInv
      <4>2. QED
        BY <3>1, <4>1 DEF ReportRefusal, Due
    <3>2. CASE aio_done(op) \/ checkEnded(op)
      <4>1. kernel[op] \in {"ok", "err"} /\ Notify(op, kernel[op])
        BY <1>a, <3>2 DEF aio_done, checkEnded, StageInv
      <4>2. Due(op) = {kernel[op]}
        BY <4>1 DEF Due
      <4>3. QED
        BY <4>1, <4>2
    <3>3. QED
      BY <1>3, <3>1, <3>2
  <2>4. CASE x = op
    BY <1>a, <2>1, <2>2, <2>3, <2>4, NotifiedNow
  <2>5. CASE x # op
    <3>1. Queued("ok", x)' = Queued("ok", x) /\ Queued("err", x)' = Queued("err", x)
      BY <1>a, <2>3, <2>5, OthersNotNotified DEF Notify
    <3>2. QED
      BY <1>a, <2>1, <2>2, <2>5, <3>1, NotifiedFrame
  <2>6. QED
    BY <2>4, <2>5
<1>4. ASSUME NEW op \in Ops, checkInProgress(op)
      PROVE  NotifiedOnce(x)'
  <2>1. UNCHANGED <<callback, kernel, called, signalBuild>> /\ Enqueue("check", op)
    BY <1>4 DEF checkInProgress
  <2>2. Queued("ok", x)' = Queued("ok", x) /\ Queued("err", x)' = Queued("err", x)
    BY <1>a, <2>1, QueuedAfterEnqueue
  <2>3. stage'[x] \in {"release", "done"} <=> stage[x] \in {"release", "done"}
    BY <1>4, <1>a DEF checkInProgress, TypeOK
  <2>4. QED
    BY <1>a, <2>1, <2>2, <2>3, NotifiedFrame
<1>5. ASSUME NEW op \in Ops, Release(op)
      PROVE  NotifiedOnce(x)'
  <2>1. UNCHANGED <<callback, kernel, called, signalBuild, taskQueue>>
    BY <1>5 DEF Release
  <2>2. Queued("ok", x)' = Queued("ok", x) /\ Queued("err", x)' = Queued("err", x)
    BY <2>1, QueuedFrame
  <2>3. stage'[x] \in {"release", "done"} <=> stage[x] \in {"release", "done"}
    BY <1>5, <1>a DEF Release, TypeOK
  <2>4. QED
    BY <1>a, <2>1, <2>2, <2>3, NotifiedFrame
<1>6. ASSUME NEW op \in Ops, NEW result \in {"ok", "err"}, Complete(op, result)
      PROVE  NotifiedOnce(x)'
  <2>1. UNCHANGED <<callback, stage, called, signalBuild, taskQueue>>
    BY <1>6 DEF Complete
  <2>2. Queued("ok", x)' = Queued("ok", x) /\ Queued("err", x)' = Queued("err", x)
    BY <2>1, QueuedFrame
  <2>3. CASE x = op
    <3>1. stage[x] \notin {"release", "done"}
      BY <1>6, <1>a, <2>3 DEF Complete, StageInv
    <3>2. QED
      BY <1>a, <2>1, <2>2, <3>1, NotYetNotified
  <2>4. CASE x # op
    <3>1. kernel'[x] = kernel[x]
      BY <1>6, <1>a, <2>4 DEF Complete, TypeOK
    <3>2. QED
      BY <1>a, <2>1, <2>2, <3>1, NotifiedFrame
  <2>5. QED
    BY <2>3, <2>4
<1>7. CASE Deliver
  <2>1. UNCHANGED <<callback, kernel, called, signalBuild, taskQueue>>
    BY <1>7 DEF Deliver
  <2>2. Queued("ok", x)' = Queued("ok", x) /\ Queued("err", x)' = Queued("err", x)
    BY <2>1, QueuedFrame
  <2>3. stage'[x] \in {"release", "done"} <=> stage[x] \in {"release", "done"}
    BY <1>7, <1>a DEF Deliver, SignalInv, TypeOK
  <2>4. QED
    BY <1>a, <2>1, <2>2, <2>3, NotifiedFrame
<1>8. ASSUME NEW g \in Groups, Execute(g)
      PROVE  NotifiedOnce(x)'
  <2>1. PICK kind \in {"check", "ok", "err"}, op \in Ops :
          /\ id[op] = g /\ 1 \in Queued(kind, op) /\ taskQueue[g] # <<>>
          /\ \A k, y : y \in Ops /\ (k # kind \/ y # op) => 1 \notin Queued(k, y)
                                                            \/ id[y] # g
          /\ taskQueue' = [taskQueue EXCEPT ![g] = Tail(@)]
          /\ IF kind = "check"
                THEN /\ stage' = [stage EXCEPT ![op] = "check"]
                     /\ UNCHANGED called
                ELSE /\ called' = [called EXCEPT ![op] = @ + 1]
                     /\ UNCHANGED stage
    BY <1>8, <1>a, ExecuteCases
  <2>2. UNCHANGED <<signalBuild, callback, kernel>>
    BY <1>8 DEF Execute
  <2>3. stage'[x] \in {"release", "done"} <=> stage[x] \in {"release", "done"}
    <3>1. kind = "check" => stage[op] = "queued"
      BY <1>a, <2>1 DEF CheckInv
    <3>2. QED
      BY <1>a, <2>1, <3>1 DEF TypeOK
  <2>4. kind = "check" \/ x # op => called'[x] = called[x]
    BY <1>a, <2>1 DEF TypeOK
  <2>5. CASE id[x] # g
    <3>1. Queued("ok", x)' = Queued("ok", x) /\ Queued("err", x)' = Queued("err", x)
      BY <1>a, <2>1, <2>5, QueuedAfterPop
    <3>2. QED
      BY <1>a, <2>1, <2>2, <2>3, <2>4, <2>5, <3>1, NotifiedFrame
  <2>6. CASE id[x] = g /\ (kind = "check" \/ x # op)
    <3>1. ASSUME NEW k \in {"ok", "err"}
          PROVE  /\ \A i \in Queued(k, x)' : i \in Nat /\ i + 1 \in Queued(k, x)
                 /\ \A i \in Queued(k, x) : i \in Nat /\ i - 1 \in Queued(k, x)'
      <4>1. 1 \notin Queued(k, x)
        BY <2>1, <2>6
      <4>2. QED
        BY <1>a, <2>1, <2>6, <4>1, QueuedAfterPop
    <3>2. QED
      BY <1>a, <2>2, <2>3, <2>4, <2>6, <3>1, NotifiedShift
  <2>7. CASE kind # "check" /\ x = op
    <3>1. kind \in {"ok", "err"} /\ 1 \in Notifications(x)
      BY <2>1, <2>7 DEF Notifications
    <3>2. called[x] = 0 /\ called'[x] = 1
      BY <1>a, <2>1, <2>7, <3>1, FrontNotCalled DEF TypeOK, Inv
    <3>3. ASSUME NEW k \in {"ok", "err"}
          PROVE  Queued(k, x)' = {}
      <4>1. SUFFICES ASSUME NEW i \in Queued(k, x)' PROVE FALSE
        OBVIOUS
      <4>2. i \in Nat /\ i + 1 \in Queued(k, x)
        BY <1>a, <2>1, <2>7, <4>1, QueuedAfterPop
      <4>3. i + 1 \in Notifications(x)
        BY <4>2 DEF Notifications
      <4>4. i + 1 = 1
        BY <1>a, <3>1, <4>3 DEF NotifiedOnce
      <4>5. i # 0
        <5>1. i \in DOMAIN taskQueue'[g]
          BY <2>1, <2>7, <4>1 DEF Queued
        <5>2. taskQueue[g] \in Seq({"check", "ok", "err"} \X Ops)
              /\ taskQueue'[g] = Tail(taskQueue[g])
          BY <1>a, <2>1 DEF TypeOK
        <5>3. QED
          BY <2>1, <5>1, <5>2
      <4>6. QED
        BY <4>2, <4>4, <4>5
    <3>4. Notifications(x)' = {}
      BY <3>3 DEF Notifications
    <3>5. kind \in Due(x) \cap callback[x] /\ stage[x] \in {"release", "done"}
      BY <1>a, <2>1, <2>7, <3>1 DEF NotifiedOnce
    <3>6. Due(x)' = Due(x) /\ callback'[x] = callback[x]
      BY <2>2 DEF Due
    <3>7. QED
      BY <2>3, <3>2, <3>3, <3>4, <3>5, <3>6 DEF NotifiedOnce
  <2>8. QED
    BY <2>5, <2>6, <2>7
<1>9. CASE UNCHANGED <<signalBuild, callback, stage, kernel, taskQueue, called>>
  <2>1. Queued("ok", x)' = Queued("ok", x) /\ Queued("err", x)' = Queued("err", x)
    BY <1>9, QueuedFrame
  <2>2. QED
    BY <1>9, <1>a, <2>1, NotifiedFrame
<1>10. QED
  BY <1>1, <1>2, <1>3, <1>4, <1>5, <1>6, <1>7, <1>8, <1>9
  DEF Next, Code, Terminated, checkCrashes, vars

(***************************************************************************)
(* The theorems                                                            *)
(***************************************************************************)

\* Every step preserves the invariant.
LEMMA InvStep == Inv /\ [Next]_vars => Inv'
<1> SUFFICES ASSUME Inv, [Next]_vars PROVE Inv'
  OBVIOUS
<1>1. QED
  BY TypeStep, StageStep, HomeStep, CheckStep, NotifyStep DEF Inv

\* The invariant holds in every reachable state.
LEMMA Invariance == SafetySpec => []Inv
BY InvInit, InvStep, PTL DEF SafetySpec

\* Types; in particular a notification of an operation is executed at most once.
THEOREM TypeCorrect == SafetySpec => []TypeOK
<1>1. Inv => TypeOK
  BY DEF Inv
<1>2. QED
  BY <1>1, Invariance, PTL

\* Nobody comes back to the blocks of an operation after they were freed: not the
\* system, a check in a queue or a signal.
THEOREM BlocksAreSafe == SafetySpec => []BlocksOutliveOperation
<1>1. Inv => BlocksOutliveOperation
  <2> SUFFICES ASSUME Inv, NEW op \in Ops
               PROVE  /\ blocks[op] = "freed" =>
                            /\ kernel[op] # "EINPROGRESS"
                            /\ Queued("check", op) = {} /\ stage[op] = "done"
                            /\ sigPending # op
                      /\ \A i, j \in Queued("check", op) : i = j /\ stage[op] = "queued"
    BY DEF BlocksOutliveOperation
  <2>1. \A i, j \in Queued("check", op) : i = j /\ stage[op] = "queued"
    BY DEF Inv, CheckInv
  <2>2. blocks[op] = "freed" => stage[op] = "done"
    BY DEF Inv, StageInv
  <2>3. stage[op] = "done" => kernel[op] # "EINPROGRESS"
    BY DEF Inv, StageInv
  <2>4. stage[op] = "done" => sigPending # op
    BY NoOpAssumption DEF Inv, SignalInv
  <2>5. stage[op] = "done" => Queued("check", op) = {}
    BY <2>1
  <2>6. QED
    BY <2>1, <2>2, <2>3, <2>4, <2>5
<1>2. QED
  BY <1>1, Invariance, PTL

\* An operation is reported once, by the part of the callback that is for its
\* result, and before its blocks are freed.
THEOREM ReportedOnce == SafetySpec => []ReportedExactlyOnce
<1>1. Inv => ReportedExactlyOnce
  <2> SUFFICES ASSUME Inv, NEW op \in Ops
               PROVE  /\ Reports(op) <= 1
                      /\ stage[op] \in {"release", "done"} =>
                            Reports(op) = IF Due(op) \cap callback[op] # {} THEN 1 ELSE 0
                      /\ \A kind \in {"ok", "err"} :
                            Queued(kind, op) # {} => kind \in Due(op) \cap callback[op]
    BY DEF ReportedExactlyOnce
  <2>1. NotifiedOnce(op) /\ called[op] \in 0 .. 1
    BY DEF Inv, NotifyInv, TypeOK
  <2>2. Reports(op) = called[op] + Cardinality(Notifications(op))
    BY DEF Reports, Notifications
  <2>3. CASE Notifications(op) = {}
    <3>1. Cardinality(Notifications(op)) = 0
      BY <2>3, FS_EmptySet
    <3>2. Reports(op) = called[op]
      BY <2>1, <2>2, <3>1
    <3>3. QED
      BY <2>1, <2>3, <3>2 DEF NotifiedOnce
  <2>4. CASE Notifications(op) # {}
    <3>1. PICK n \in Notifications(op) : Notifications(op) = {n}
      BY <2>1, <2>4 DEF NotifiedOnce
    <3>2. Cardinality(Notifications(op)) = 1
      BY <3>1, FS_Singleton
    <3>3. called[op] = 0
      BY <2>1, <2>4 DEF NotifiedOnce
    <3>4. Reports(op) = 1
      BY <2>2, <3>2, <3>3
    <3>5. QED
      BY <2>1, <2>4, <3>4 DEF NotifiedOnce
  <2>5. QED
    BY <2>3, <2>4
<1>2. QED
  BY <1>1, Invariance, PTL
=============================================================================
