----------------------------- MODULE PoolProofs -----------------------------
(***************************************************************************)
(* Theorems about the worker pool, for every number of calls, workers and  *)
(* Closes and every queue size: the invariant PoolInv is inductive, and    *)
(* the safety properties of Pool follow from it.                           *)
(***************************************************************************)
EXTENDS Pool, TLAPS

\* What appending a call to the buffer does to its elements
\* (case p.tasks <- t, pool.go:123).
LEMMA AppendElements ==
  ASSUME NEW S, NEW s \in Seq(S), NEW e \in S
  PROVE  /\ Append(s, e) \in Seq(S)
         /\ Len(Append(s, e)) = Len(s) + 1
         /\ DOMAIN Append(s, e) = DOMAIN s \cup {Len(s) + 1}
         /\ Len(s) + 1 \notin DOMAIN s
         /\ \A i \in DOMAIN s : Append(s, e)[i] = s[i]
         /\ Append(s, e)[Len(s) + 1] = e
  OBVIOUS

\* What taking the head of the buffer does to its elements
\* (for task := range p.tasks, pool.go:89).
LEMMA TailElements ==
  ASSUME NEW S, NEW s \in Seq(S), s # <<>>
  PROVE  /\ Head(s) = s[1]
         /\ Head(s) \in S
         /\ 1 \in DOMAIN s
         /\ Tail(s) \in Seq(S)
         /\ Len(Tail(s)) = Len(s) - 1
         /\ \A i \in DOMAIN Tail(s) :
              i + 1 \in DOMAIN s /\ i + 1 # 1 /\ Tail(s)[i] = s[i + 1]
         /\ \A i \in DOMAIN s : i # 1 => i - 1 \in DOMAIN Tail(s) /\ Tail(s)[i - 1] = s[i]
  OBVIOUS
-----------------------------------------------------------------------------
(* The parts of the invariant that a step leaves alone. *)

\* A step that changes neither the buffer, nor what workers hold, nor done,
\* nor accepted, keeps every task in its one place.
LEMMA HeldOnceFrame ==
  ASSUME AcceptedIsHeldOnce, UNCHANGED <<tasks, cur, done, accepted>>
  PROVE  AcceptedIsHeldOnce'
  BY DEF AcceptedIsHeldOnce

\* What is buffered or held stays as it is.
LEMMA HeldTasksFrame ==
  ASSUME HeldTasks, UNCHANGED <<tasks, cur, wpc, done, starts, accepted>>
  PROVE  HeldTasks'
  BY DEF HeldTasks

\* No call moves and no task is entered or ended.
LEMMA CallProgressFrame ==
  ASSUME CallProgress, UNCHANGED <<pc, err, done, starts, accepted>>
  PROVE  CallProgress'
  BY DEF CallProgress

\* No worker moves and no context is cancelled.
LEMMA PreCancelledFrame ==
  ASSUME PreCancelledStuck, UNCHANGED <<cancelled, starts, cur, wpc>>
  PROVE  PreCancelledStuck'
  BY DEF PreCancelledStuck

\* Neither the channel nor a Close nor a worker moves.
LEMMA CloseOrderFrame ==
  ASSUME CloseOrder, UNCHANGED <<closed, tasksClosed, cpc, wpc, tasks>>
  PROVE  CloseOrder'
  BY Zenon DEF CloseOrder
-----------------------------------------------------------------------------
(* Type correctness. *)

\* Every step of callers, workers and Close keeps the types, and the buffer
\* within its capacity.
LEMMA TypeOKStep == TypeOK /\ [Next]_vars => TypeOK'
<1> SUFFICES ASSUME TypeOK, [Next]_vars
             PROVE  TypeOK'
  OBVIOUS
<1> USE PoolAssumption DEF TypeOK, CallPC, Errors, WorkerPC, CloserPC,
                           callVars, workVars, closeVars
<1>1. ASSUME NEW c \in Calls, RejectClosed(c)  PROVE TypeOK'
  BY <1>1 DEF RejectClosed, MayCall, Return
<1>2. ASSUME NEW c \in Calls, PassClosedCheck(c)  PROVE TypeOK'
  BY <1>2 DEF PassClosedCheck, MayCall
<1>3. ASSUME NEW c \in Calls, RunStart(c)  PROVE TypeOK'
  BY <1>3 DEF RunStart, MayCall
<1>4. ASSUME NEW c \in Calls, SendBuffered(c)  PROVE TypeOK'
  BY AppendElements, <1>4 DEF SendBuffered
<1>5. ASSUME NEW c \in Calls, NEW w \in Workers, SendDirect(c, w)  PROVE TypeOK'
  BY <1>5 DEF SendDirect
<1>6. ASSUME NEW c \in Calls, SendPanics(c)  PROVE TypeOK'
  BY <1>6 DEF SendPanics
<1>7. ASSUME NEW c \in Calls, ReturnCtxErr(c)  PROVE TypeOK'
  BY <1>7 DEF ReturnCtxErr, Return
<1>8. ASSUME NEW c \in Calls, ReturnNil(c)  PROVE TypeOK'
  BY <1>8 DEF ReturnNil, Return
<1>9. ASSUME NEW c \in Calls, RunFn(c)  PROVE TypeOK'
  BY <1>9 DEF RunFn
<1>10. ASSUME NEW c \in Calls, RunFnEnds(c)  PROVE TypeOK'
  BY <1>10 DEF RunFnEnds
<1>11. ASSUME NEW c \in Calls, RunReturns(c)  PROVE TypeOK'
  BY <1>11 DEF RunReturns, Return
<1>12. ASSUME NEW c \in Calls, Cancel(c)  PROVE TypeOK'
  BY <1>12 DEF Cancel
<1>13. ASSUME NEW w \in Workers, Receive(w)  PROVE TypeOK'
  BY TailElements, <1>13 DEF Receive
<1>14. ASSUME NEW w \in Workers, CheckCtxLive(w)  PROVE TypeOK'
  BY <1>14 DEF CheckCtxLive
<1>15. ASSUME NEW w \in Workers, CheckCtxDone(w)  PROVE TypeOK'
  BY <1>15 DEF CheckCtxDone, FinishTask
<1>16. ASSUME NEW w \in Workers, EnterFn(w)  PROVE TypeOK'
  <2>1. CASE cur[w] \in Calls
    BY <1>16, <2>1 DEF EnterFn
  <2>2. CASE cur[w] \notin Calls
    <3>1. starts' = starts
      BY <1>16, <2>2 DEF EnterFn
    <3> QED  BY <1>16, <3>1, Zenon DEF EnterFn
  <2> QED  BY <2>1, <2>2
<1>17. ASSUME NEW w \in Workers, LeaveFn(w)  PROVE TypeOK'
  BY <1>17, Zenon DEF LeaveFn, FinishTask
<1>18. ASSUME NEW w \in Workers, Exit(w)  PROVE TypeOK'
  BY <1>18 DEF Exit
<1>19. ASSUME NEW k \in Closers, CloseWins(k)  PROVE TypeOK'
  BY <1>19 DEF CloseWins
<1>20. ASSUME NEW k \in Closers, CloseLoses(k)  PROVE TypeOK'
  BY <1>20 DEF CloseLoses
<1>21. ASSUME NEW k \in Closers, CloseTasks(k)  PROVE TypeOK'
  BY <1>21 DEF CloseTasks
<1>22. ASSUME NEW k \in Closers, WaitWorkers(k)  PROVE TypeOK'
  BY <1>22 DEF WaitWorkers
<1>23. CASE UNCHANGED vars
  BY <1>23 DEF vars
<1>24. QED
  BY <1>1, <1>2, <1>3, <1>4, <1>5, <1>6, <1>7, <1>8, <1>9, <1>10, <1>11,
     <1>12, <1>13, <1>14, <1>15, <1>16, <1>17, <1>18, <1>19, <1>20, <1>21,
     <1>22, <1>23, Zenon
     DEF Next, Call, CallStep, RunStep, WorkerStep, CloseStep

\* A fresh pool is well typed.
LEMMA TypeOKInit == Init => TypeOK
<1>1. <<>> \in Seq(Calls) /\ Len(<<>>) = 0
  OBVIOUS
<1>2. ASSUME Init
      PROVE  /\ pc \in [Calls -> CallPC] /\ err \in [Calls -> Errors]
             /\ done \in [Calls -> BOOLEAN] /\ starts \in [Calls -> Nat]
             /\ wpc \in [Workers -> WorkerPC]
             /\ cur \in [Workers -> Calls \cup {NoCall}]
             /\ cpc \in [Closers -> CloserPC]
  BY <1>2 DEF Init, NewPool, CallPC, Errors, WorkerPC, CloserPC
<1>3. ASSUME Init
      PROVE  /\ tasks \in Seq(Calls) /\ Len(tasks) <= QueueSize
             /\ cancelled \in SUBSET Cancellable
             /\ accepted \in SUBSET Calls
  BY <1>1, <1>3, PoolAssumption DEF Init, NewPool
<1>4. Init => closed \in BOOLEAN /\ tasksClosed \in BOOLEAN
  BY Zenon DEF Init, NewPool
<1>5. QED
  BY <1>2, <1>3, <1>4 DEF TypeOK

\* The pool's variables always have their types; the buffer never exceeds
\* the capacity make(chan poolTask, cfg.queueSize) gave it.
THEOREM TypeCorrect == SafeSpec => []TypeOK
<1>1. Init => TypeOK
  BY TypeOKInit
<1>2. QED
  BY <1>1, TypeOKStep, PTL DEF SafeSpec
-----------------------------------------------------------------------------
(* Invariance of PoolInv. *)

\* A fresh pool satisfies the invariant.
LEMMA PoolInvInit == Init => PoolInv
<1> SUFFICES ASSUME Init PROVE PoolInv
  OBVIOUS
<1> USE PoolAssumption DEF Init, NewPool
<1>1. TypeOK
  BY TypeOKInit
<1>2. AcceptedIsHeldOnce /\ HeldTasks
  BY DEF AcceptedIsHeldOnce, HeldTasks
<1>3. CallProgress
  BY DEF CallProgress, PoolCalls, CallPC
<1>4. PreCancelledStuck
  BY DEF PreCancelledStuck
<1>5. CloseOrder
  BY DEF CloseOrder
<1>6. QED
  BY <1>1, <1>2, <1>3, <1>4, <1>5 DEF PoolInv

\* The end of a task takes it out of the hands of its one holder
\* (the deferred close(done), pool.go:113).
LEMMA FinishTaskHeld ==
  ASSUME PoolInv, NEW w \in Workers, cur[w] # NoCall, FinishTask(w),
         UNCHANGED <<tasks, accepted>>
  PROVE  AcceptedIsHeldOnce'
<1> USE PoolAssumption DEF PoolInv, TypeOK, FinishTask, AcceptedIsHeldOnce
<1>1. cur[w] \in Calls /\ done' = [done EXCEPT ![cur[w]] = TRUE]
  OBVIOUS
<1>2. ASSUME NEW c \in accepted', ~done'[c]
      PROVE  \/ \E i \in DOMAIN tasks' : tasks'[i] = c
             \/ \E v \in Workers : cur'[v] = c
  BY <1>1, <1>2
<1>3. \A u, v \in Workers : cur'[v] # NoCall /\ cur'[v] = cur'[u] => v = u
  OBVIOUS
<1>4. \A i \in DOMAIN tasks', v \in Workers : tasks'[i] # cur'[v]
  OBVIOUS
<1>5. QED
  BY <1>2, <1>3, <1>4, Zenon

\* Every step of callers, workers and Close keeps the invariant.  Under each
\* action stand the parts of the invariant it can disturb.
LEMMA PoolInvStep == PoolInv /\ [Next]_vars => PoolInv'
<1>i. SUFFICES ASSUME PoolInv, [Next]_vars
               PROVE  PoolInv'
  OBVIOUS
<1>0. TypeOK'
  BY <1>i, TypeOKStep DEF PoolInv
<1>h. AcceptedIsHeldOnce
  BY <1>i DEF PoolInv
<1>t. HeldTasks
  BY <1>i DEF PoolInv
<1>c. CallProgress
  BY <1>i DEF PoolInv
<1>p. PreCancelledStuck
  BY <1>i DEF PoolInv
<1>o. CloseOrder
  BY <1>i DEF PoolInv
<1>a. /\ pc \in [Calls -> CallPC] /\ err \in [Calls -> Errors]
      /\ done \in [Calls -> BOOLEAN] /\ starts \in [Calls -> Nat]
      /\ accepted \subseteq Calls /\ tasks \in Seq(Calls)
      /\ cancelled \subseteq Cancellable
      /\ wpc \in [Workers -> WorkerPC] /\ cur \in [Workers -> Calls \cup {NoCall}]
      /\ cpc \in [Closers -> CloserPC]
  BY <1>i DEF PoolInv, TypeOK
<1>1. ASSUME NEW c \in Calls, RejectClosed(c)  PROVE PoolInv'
  <2>1. CallProgress'
    BY <1>1, <1>a, <1>c
       DEF RejectClosed, MayCall, Return, CallProgress, PoolCalls, CallPC,
           Errors, workVars, closeVars
  <2> QED  BY <1>0, <1>1, <2>1, <1>h, <1>t, <1>p, <1>o, HeldOnceFrame,
              HeldTasksFrame, PreCancelledFrame, CloseOrderFrame
              DEF RejectClosed, MayCall, Return, PoolInv, workVars, closeVars
<1>2. ASSUME NEW c \in Calls, PassClosedCheck(c)  PROVE PoolInv'
  <2>1. CallProgress'
    BY <1>2, <1>a, <1>c
       DEF PassClosedCheck, MayCall, CallProgress, PoolCalls, CallPC, Errors,
           workVars, closeVars
  <2> QED  BY <1>0, <1>2, <2>1, <1>h, <1>t, <1>p, <1>o, HeldOnceFrame,
              HeldTasksFrame, PreCancelledFrame, CloseOrderFrame
              DEF PassClosedCheck, PoolInv, workVars, closeVars
<1>3. ASSUME NEW c \in Calls, RunStart(c)  PROVE PoolInv'
  <2>1. CallProgress'
    BY <1>3, <1>a, <1>c
       DEF RunStart, MayCall, CallProgress, PoolCalls, CallPC, Errors,
           workVars, closeVars
  <2> QED  BY <1>0, <1>3, <2>1, <1>h, <1>t, <1>p, <1>o, HeldOnceFrame,
              HeldTasksFrame, PreCancelledFrame, CloseOrderFrame
              DEF RunStart, PoolInv, workVars, closeVars
<1>4. ASSUME NEW c \in Calls, SendBuffered(c)  PROVE PoolInv'
  <2>a. c \in PoolCalls /\ c \notin accepted /\ ~done[c] /\ starts[c] = 0
    BY <1>4, <1>a, <1>c
       DEF SendBuffered, CallProgress, PoolCalls, workVars, closeVars
  <2>b. /\ DOMAIN tasks' = DOMAIN tasks \cup {Len(tasks) + 1}
        /\ Len(tasks) + 1 \notin DOMAIN tasks
        /\ \A i \in DOMAIN tasks : tasks'[i] = tasks[i]
        /\ tasks'[Len(tasks) + 1] = c
    BY <1>4, AppendElements, <1>a DEF SendBuffered, workVars, closeVars
  <2>c. \A i \in DOMAIN tasks : tasks[i] # c
    BY <2>a, <1>a, <1>t DEF HeldTasks
  <2>d. \A v \in Workers : cur[v] # c
    BY <2>a, <1>a, <1>t, PoolAssumption DEF HeldTasks
  <2>1. AcceptedIsHeldOnce'
    <3>1. \A e \in accepted' : ~done'[e] =>
            \/ \E i \in DOMAIN tasks' : tasks'[i] = e
            \/ \E v \in Workers : cur'[v] = e
      <4> SUFFICES ASSUME NEW e \in accepted', ~done'[e]
                   PROVE  \/ \E i \in DOMAIN tasks' : tasks'[i] = e
                          \/ \E v \in Workers : cur'[v] = e
        OBVIOUS
      <4>1. CASE e = c
        BY <2>b, <4>1
      <4>2. CASE e \in accepted
        <5>1. /\ cur' = cur
              /\ \/ \E i \in DOMAIN tasks : tasks[i] = e
                 \/ \E v \in Workers : cur[v] = e
          BY <1>4, <4>2, <1>a, <1>h, SMTT(30)
             DEF SendBuffered, AcceptedIsHeldOnce, workVars, closeVars
        <5> QED  BY <5>1, <2>b
      <4> QED  BY <1>4, <4>1, <4>2, <1>a DEF SendBuffered, workVars, closeVars
    <3>2. \A i, j \in DOMAIN tasks' : tasks'[i] = tasks'[j] => i = j
      BY <2>b, <2>c, <1>a, <1>h DEF AcceptedIsHeldOnce
    <3>3. \A i \in DOMAIN tasks', v \in Workers : tasks'[i] # cur'[v]
      BY <1>4, <2>b, <2>d, <1>a, <1>h
         DEF SendBuffered, AcceptedIsHeldOnce, workVars, closeVars
    <3> QED
      BY <1>4, <3>1, <3>2, <3>3, <1>h, Zenon
         DEF SendBuffered, AcceptedIsHeldOnce, workVars, closeVars
  <2>2. HeldTasks'
    BY <1>4, <2>a, <2>b, <1>a, <1>t
       DEF SendBuffered, HeldTasks, workVars, closeVars
  <2>3. CallProgress'
    BY <1>4, <2>a, <1>a, <1>c
       DEF SendBuffered, CallProgress, PoolCalls, CallPC, workVars, closeVars
  <2>4. CloseOrder'
    BY <1>4, <1>a, <1>o DEF SendBuffered, CloseOrder, workVars, closeVars
  <2> QED  BY <1>0, <1>4, <2>1, <2>2, <2>3, <2>4, <1>p, PreCancelledFrame
              DEF SendBuffered, PoolInv, workVars, closeVars
<1>5. ASSUME NEW c \in Calls, NEW w \in Workers, SendDirect(c, w)  PROVE PoolInv'
  <2>a. c \in PoolCalls /\ c \notin accepted /\ ~done[c] /\ starts[c] = 0
    BY <1>5, <1>a, <1>c, SMTT(30) DEF SendDirect, CallProgress, PoolCalls
  <2>b. \A v \in Workers : cur[v] # c
    BY <2>a, <1>a, <1>t, PoolAssumption DEF HeldTasks
  <2>1. AcceptedIsHeldOnce'
    <3>1. cur[w] = NoCall /\ cur' = [cur EXCEPT ![w] = c]
      BY <1>5, <1>t DEF SendDirect, HeldTasks
    <3> QED  BY <1>5, <2>a, <2>b, <3>1, <1>a, <1>h, PoolAssumption
                DEF SendDirect, AcceptedIsHeldOnce
  <2>2. HeldTasks'
    BY <1>5, <2>a, <1>a, <1>t, PoolAssumption DEF SendDirect, HeldTasks
  <2>3. CallProgress'
    BY <1>5, <2>a, <1>a, <1>c
       DEF SendDirect, CallProgress, PoolCalls, CallPC, closeVars
  <2>4. PreCancelledStuck'
    BY <1>5, <1>a, <1>t, <1>c, <1>p
       DEF SendDirect, PreCancelledStuck, HeldTasks, CallProgress, closeVars
  <2>5. CloseOrder'
    BY <1>5, <1>a, <1>o DEF SendDirect, CloseOrder, closeVars
  <2> QED  BY <1>0, <1>5, <2>1, <2>2, <2>3, <2>4, <2>5
              DEF SendDirect, PoolInv, closeVars
<1>6. ASSUME NEW c \in Calls, SendPanics(c)  PROVE PoolInv'
  <2>1. CallProgress'
    BY <1>6, <1>a, <1>c
       DEF SendPanics, CallProgress, PoolCalls, CallPC, Errors, workVars,
           closeVars
  <2> QED  BY <1>0, <1>6, <2>1, <1>h, <1>t, <1>p, <1>o, HeldOnceFrame,
              HeldTasksFrame, PreCancelledFrame, CloseOrderFrame
              DEF SendPanics, PoolInv, workVars, closeVars
<1>7. ASSUME NEW c \in Calls, ReturnCtxErr(c)  PROVE PoolInv'
  <2>1. CallProgress'
    BY <1>7, <1>a, <1>c
       DEF ReturnCtxErr, Return, CallProgress, PoolCalls, CallPC, Errors,
           workVars, closeVars
  <2> QED  BY <1>0, <1>7, <2>1, <1>h, <1>t, <1>p, <1>o, HeldOnceFrame,
              HeldTasksFrame, PreCancelledFrame, CloseOrderFrame
              DEF ReturnCtxErr, Return, PoolInv, workVars, closeVars
<1>8. ASSUME NEW c \in Calls, ReturnNil(c)  PROVE PoolInv'
  <2>1. CallProgress'
    BY <1>8, <1>a, <1>c
       DEF ReturnNil, Return, CallProgress, PoolCalls, CallPC, Errors,
           workVars, closeVars
  <2> QED  BY <1>0, <1>8, <2>1, <1>h, <1>t, <1>p, <1>o, HeldOnceFrame,
              HeldTasksFrame, PreCancelledFrame, CloseOrderFrame
              DEF ReturnNil, Return, PoolInv, workVars, closeVars
<1>9. ASSUME NEW c \in Calls, RunFn(c)  PROVE PoolInv'
  <2>1. HeldTasks'
    <3>1. c \notin accepted
      BY <1>9, <1>c, Zenon DEF RunFn, CallProgress
    <3> QED  BY <1>9, <3>1, <1>a, <1>t
                DEF RunFn, HeldTasks, callVars, closeVars
  <2>2. CallProgress'
    BY <1>9, <1>a, <1>c
       DEF RunFn, CallProgress, PoolCalls, CallPC, Errors, callVars, closeVars
  <2>3. PreCancelledStuck'
    <3>1. c \in OneOff
      BY <1>9, <1>a, <1>c, Zenon DEF RunFn, CallProgress, PoolCalls, CallPC
    <3> QED  BY <1>9, <3>1, <1>a, <1>p, PoolAssumption
                DEF RunFn, PreCancelledStuck
  <2> QED  BY <1>0, <1>9, <2>1, <2>2, <2>3, <1>h, <1>o, HeldOnceFrame,
              CloseOrderFrame
              DEF RunFn, PoolInv, callVars, closeVars
<1>10. ASSUME NEW c \in Calls, RunFnEnds(c)  PROVE PoolInv'
  <2>1. AcceptedIsHeldOnce'
    <3>1. c \notin accepted
      BY <1>10, <1>c, Zenon DEF RunFnEnds, CallProgress
    <3> QED  BY <1>10, <3>1, <1>a, <1>h
                DEF RunFnEnds, AcceptedIsHeldOnce, callVars, closeVars
  <2>2. HeldTasks'
    <3>1. c \notin accepted
      BY <1>10, <1>c, Zenon DEF RunFnEnds, CallProgress
    <3> QED  BY <1>10, <3>1, <1>a, <1>t
                DEF RunFnEnds, HeldTasks, callVars, closeVars
  <2>3. CallProgress'
    BY <1>10, <1>a, <1>c
       DEF RunFnEnds, CallProgress, PoolCalls, CallPC, Errors, callVars,
           closeVars
  <2> QED  BY <1>0, <1>10, <2>1, <2>2, <2>3, <1>p, <1>o, PreCancelledFrame,
              CloseOrderFrame
              DEF RunFnEnds, PoolInv, callVars, closeVars
<1>11. ASSUME NEW c \in Calls, RunReturns(c)  PROVE PoolInv'
  <2>1. CallProgress'
    BY <1>11, <1>a, <1>c
       DEF RunReturns, Return, CallProgress, PoolCalls, CallPC, Errors,
           workVars, closeVars
  <2> QED  BY <1>0, <1>11, <2>1, <1>h, <1>t, <1>p, <1>o, HeldOnceFrame,
              HeldTasksFrame, PreCancelledFrame, CloseOrderFrame
              DEF RunReturns, Return, PoolInv, workVars, closeVars
<1>12. ASSUME NEW c \in Calls, Cancel(c)  PROVE PoolInv'
  <2>1. PreCancelledStuck'
    BY <1>12, <1>a, <1>t, <1>c, <1>p
       DEF Cancel, PreCancelledStuck, HeldTasks, CallProgress, callVars,
           workVars, closeVars
  <2> QED  BY <1>0, <1>12, <2>1, <1>h, <1>t, <1>c, <1>o, HeldOnceFrame,
              HeldTasksFrame, CallProgressFrame, CloseOrderFrame
              DEF Cancel, PoolInv, callVars, workVars, closeVars
<1>13. ASSUME NEW w \in Workers, Receive(w)  PROVE PoolInv'
  <2>1. AcceptedIsHeldOnce'
    <3>1. /\ cur[w] = NoCall
          /\ cur' = [cur EXCEPT ![w] = tasks[1]]
          /\ tasks[1] \in Calls
          /\ 1 \in DOMAIN tasks
          /\ UNCHANGED <<done, accepted>>
      BY <1>13, TailElements, <1>a, <1>t
         DEF Receive, HeldTasks, callVars, closeVars
    <3>2. /\ \A i \in DOMAIN tasks' :
               i + 1 \in DOMAIN tasks /\ i + 1 # 1 /\ tasks'[i] = tasks[i + 1]
          /\ \A i \in DOMAIN tasks :
               i # 1 => i - 1 \in DOMAIN tasks' /\ tasks'[i - 1] = tasks[i]
          /\ DOMAIN tasks' \subseteq Nat
      BY <1>13, TailElements, <1>a DEF Receive, callVars, closeVars
    <3>3. \A e \in accepted' : ~done'[e] =>
            \/ \E i \in DOMAIN tasks' : tasks'[i] = e
            \/ \E v \in Workers : cur'[v] = e
      <4> SUFFICES ASSUME NEW e \in accepted, ~done[e]
                   PROVE  \/ \E i \in DOMAIN tasks' : tasks'[i] = e
                          \/ \E v \in Workers : cur'[v] = e
        BY <3>1
      <4>1. CASE \E v \in Workers : cur[v] = e
        BY <3>1, <4>1, <1>a, PoolAssumption
      <4>2. ASSUME NEW i \in DOMAIN tasks, tasks[i] = e
            PROVE  \/ \E j \in DOMAIN tasks' : tasks'[j] = e
                   \/ \E v \in Workers : cur'[v] = e
        BY <3>1, <3>2, <4>2, <1>a, SMTT(30)
      <4> QED  BY <4>1, <4>2, <1>h, Zenon DEF AcceptedIsHeldOnce
    <3>4. \A i, j \in DOMAIN tasks' : tasks'[i] = tasks'[j] => i = j
      BY <3>2, <1>a, <1>h DEF AcceptedIsHeldOnce
    <3>5. \A u, v \in Workers : cur'[u] # NoCall /\ cur'[u] = cur'[v] => u = v
      BY <3>1, <1>a, <1>h DEF AcceptedIsHeldOnce
    <3>6. \A i \in DOMAIN tasks', v \in Workers : tasks'[i] # cur'[v]
      BY <3>1, <3>2, <1>a, <1>h DEF AcceptedIsHeldOnce
    <3> QED  BY <3>3, <3>4, <3>5, <3>6, Zenon DEF AcceptedIsHeldOnce
  <2>2. HeldTasks'
    BY TailElements, <1>13, <1>a, <1>h, <1>t, <1>c
       DEF Receive, HeldTasks, AcceptedIsHeldOnce, CallProgress, PoolCalls,
           callVars, closeVars
  <2>3. PreCancelledStuck'
    BY TailElements, <1>13, <1>a, <1>t, <1>c, <1>p
       DEF Receive, PreCancelledStuck, HeldTasks, CallProgress, callVars,
           closeVars
  <2>4. CloseOrder'
    BY TailElements, <1>13, <1>a, <1>o
       DEF Receive, CloseOrder, callVars, closeVars
  <2> QED  BY <1>0, <1>13, <2>1, <2>2, <2>3, <2>4, <1>c, CallProgressFrame
              DEF Receive, PoolInv, callVars, closeVars
<1>14. ASSUME NEW w \in Workers, CheckCtxLive(w)  PROVE PoolInv'
  <2>1. HeldTasks'
    BY <1>14, <1>a, <1>h, <1>t, <1>c
       DEF CheckCtxLive, HeldTasks, AcceptedIsHeldOnce, CallProgress,
           PoolCalls, callVars, closeVars
  <2>2. PreCancelledStuck'
    BY <1>14, <1>a, <1>t, <1>c, <1>p
       DEF CheckCtxLive, PreCancelledStuck, HeldTasks, CallProgress, callVars,
           closeVars
  <2>3. CloseOrder'
    BY <1>14, <1>a, <1>o DEF CheckCtxLive, CloseOrder, callVars, closeVars
  <2> QED  BY <1>0, <1>14, <2>1, <2>2, <2>3, <1>h, <1>c, HeldOnceFrame,
              CallProgressFrame
              DEF CheckCtxLive, PoolInv, callVars, closeVars
<1>15. ASSUME NEW w \in Workers, CheckCtxDone(w)  PROVE PoolInv'
  <2>a. /\ cur[w] \in accepted /\ cur[w] \in Calls /\ cur[w] \notin OneOff
        /\ ~done[cur[w]] /\ starts[cur[w]] = 0
    BY <1>15, <1>a, <1>t, <1>c, Zenon DEF CheckCtxDone, HeldTasks, CallProgress
  <2>1. AcceptedIsHeldOnce'
    BY <1>15, <2>a, <1>i, FinishTaskHeld, PoolAssumption, Zenon DEF CheckCtxDone
  <2>2. HeldTasks'
    BY <1>15, <1>a, <1>h, <1>t, <1>c
       DEF CheckCtxDone, FinishTask, HeldTasks, AcceptedIsHeldOnce,
           CallProgress, PoolCalls, callVars, closeVars
  <2>3. CallProgress'
    BY <1>15, <2>a, <1>a, <1>c
       DEF CheckCtxDone, FinishTask, CallProgress, PoolCalls, callVars
  <2>4. PreCancelledStuck'
    BY <1>15, <1>a, <1>t, <1>p, PoolAssumption
       DEF CheckCtxDone, FinishTask, PreCancelledStuck, HeldTasks,
           CallProgress, callVars, closeVars
  <2>5. CloseOrder'
    BY <1>15, <1>a, <1>o
       DEF CheckCtxDone, FinishTask, CloseOrder, callVars, closeVars
  <2> QED  BY <1>0, <1>15, <2>1, <2>2, <2>3, <2>4, <2>5
              DEF CheckCtxDone, PoolInv, callVars, closeVars
<1>16. ASSUME NEW w \in Workers, EnterFn(w)  PROVE PoolInv'
  <2>a. /\ cur[w] \in accepted /\ cur[w] \in Calls /\ cur[w] \notin OneOff
        /\ ~done[cur[w]] /\ starts[cur[w]] = 0
    BY <1>16, <1>a, <1>t, <1>c, Zenon DEF EnterFn, HeldTasks, CallProgress
  <2>1. HeldTasks'
    BY <1>16, <1>a, <1>h, <1>t, <1>c
       DEF EnterFn, HeldTasks, AcceptedIsHeldOnce, CallProgress, PoolCalls,
           callVars, closeVars
  <2>2. CallProgress'
    BY <1>16, <2>a, <1>a, <1>c
       DEF EnterFn, CallProgress, PoolCalls, callVars
  <2>3. PreCancelledStuck'
    BY <1>16, <1>a, <1>t, <1>c, <1>p
       DEF EnterFn, PreCancelledStuck, HeldTasks, CallProgress, callVars,
           closeVars
  <2>4. CloseOrder'
    BY <1>16, <1>a, <1>o DEF EnterFn, CloseOrder, callVars, closeVars
  <2> QED  BY <1>0, <1>16, <2>1, <2>2, <2>3, <2>4, <1>h, HeldOnceFrame
              DEF EnterFn, PoolInv, callVars, closeVars
<1>17. ASSUME NEW w \in Workers, LeaveFn(w)  PROVE PoolInv'
  <2>a. /\ cur[w] \in accepted /\ cur[w] \in Calls /\ cur[w] \notin OneOff
        /\ ~done[cur[w]] /\ starts[cur[w]] = 1
    BY <1>17, <1>a, <1>t, <1>c, Zenon DEF LeaveFn, HeldTasks, CallProgress
  <2>1. AcceptedIsHeldOnce'
    BY <1>17, <2>a, <1>i, FinishTaskHeld, PoolAssumption, Zenon DEF LeaveFn
  <2>2. HeldTasks'
    BY <1>17, <1>a, <1>h, <1>t, <1>c, SMTT(30)
       DEF LeaveFn, FinishTask, HeldTasks, AcceptedIsHeldOnce, CallProgress,
           PoolCalls, callVars, closeVars
  <2>3. CallProgress'
    BY <1>17, <2>a, <1>a, <1>c
       DEF LeaveFn, FinishTask, CallProgress, PoolCalls, callVars
  <2>4. PreCancelledStuck'
    BY <1>17, <1>a, <1>t, <1>p, PoolAssumption
       DEF LeaveFn, FinishTask, PreCancelledStuck, HeldTasks, CallProgress,
           callVars, closeVars
  <2>5. CloseOrder'
    BY <1>17, <1>a, <1>o, Zenon
       DEF LeaveFn, FinishTask, CloseOrder, callVars, closeVars
  <2> QED  BY <1>0, <1>17, <2>1, <2>2, <2>3, <2>4, <2>5, Zenon
              DEF LeaveFn, PoolInv, callVars, closeVars
<1>18. ASSUME NEW w \in Workers, Exit(w)  PROVE PoolInv'
  <2>1. HeldTasks'
    BY <1>18, <1>a, <1>h, <1>t, <1>c
       DEF Exit, HeldTasks, AcceptedIsHeldOnce, CallProgress, PoolCalls,
           callVars, closeVars
  <2>2. PreCancelledStuck'
    BY <1>18, <1>a, <1>t, <1>c, <1>p
       DEF Exit, PreCancelledStuck, HeldTasks, CallProgress, callVars,
           closeVars
  <2>3. CloseOrder'
    BY <1>18, <1>a, <1>o DEF Exit, CloseOrder, callVars, closeVars
  <2> QED  BY <1>0, <1>18, <2>1, <2>2, <2>3, <1>h, <1>c, HeldOnceFrame,
              CallProgressFrame
              DEF Exit, PoolInv, callVars, closeVars
<1>19. ASSUME NEW k \in Closers, CloseWins(k)  PROVE PoolInv'
  <2>1. CloseOrder'
    BY <1>19, <1>a, <1>o DEF CloseWins, CloseOrder, callVars, workVars
  <2> QED  BY <1>0, <1>19, <2>1, <1>h, <1>t, <1>c, <1>p, HeldOnceFrame,
              HeldTasksFrame, CallProgressFrame, PreCancelledFrame
              DEF CloseWins, PoolInv, callVars, workVars
<1>20. ASSUME NEW k \in Closers, CloseLoses(k)  PROVE PoolInv'
  <2>1. CloseOrder'
    BY <1>20, <1>a, <1>o DEF CloseLoses, CloseOrder, callVars, workVars
  <2> QED  BY <1>0, <1>20, <2>1, <1>h, <1>t, <1>c, <1>p, HeldOnceFrame,
              HeldTasksFrame, CallProgressFrame, PreCancelledFrame
              DEF CloseLoses, PoolInv, callVars, workVars
<1>21. ASSUME NEW k \in Closers, CloseTasks(k)  PROVE PoolInv'
  <2>1. CloseOrder'
    BY <1>21, <1>a, <1>o DEF CloseTasks, CloseOrder, callVars, workVars
  <2> QED  BY <1>0, <1>21, <2>1, <1>h, <1>t, <1>c, <1>p, HeldOnceFrame,
              HeldTasksFrame, CallProgressFrame, PreCancelledFrame
              DEF CloseTasks, PoolInv, callVars, workVars
<1>22. ASSUME NEW k \in Closers, WaitWorkers(k)  PROVE PoolInv'
  <2>1. CloseOrder'
    BY <1>22, <1>a, <1>o DEF WaitWorkers, CloseOrder, callVars, workVars
  <2> QED  BY <1>0, <1>22, <2>1, <1>h, <1>t, <1>c, <1>p, HeldOnceFrame,
              HeldTasksFrame, CallProgressFrame, PreCancelledFrame
              DEF WaitWorkers, PoolInv, callVars, workVars
<1>23. CASE UNCHANGED vars
  BY <1>0, <1>h, <1>t, <1>c, <1>p, <1>o, <1>23, HeldOnceFrame, HeldTasksFrame, CallProgressFrame,
     PreCancelledFrame, CloseOrderFrame DEF vars, PoolInv
<1>24. QED
  BY <1>1, <1>2, <1>3, <1>4, <1>5, <1>6, <1>7, <1>8, <1>9, <1>10, <1>11,
     <1>12, <1>13, <1>14, <1>15, <1>16, <1>17, <1>18, <1>19, <1>20, <1>21,
     <1>22, <1>23, <1>i, Zenon
     DEF Next, Call, CallStep, RunStep, WorkerStep, CloseStep

\* PoolInv is an invariant of the pool.
THEOREM PoolInvariance == SafeSpec => []PoolInv
  BY PoolInvInit, PoolInvStep, PTL DEF SafeSpec
-----------------------------------------------------------------------------
(* What follows from it. *)

\* A submitted function is entered at most once (workerLoop).
THEOREM AtMostOnceHolds == SafeSpec => []AtMostOnce
<1>1. PoolInv => AtMostOnce
  BY DEF PoolInv, CallProgress, AtMostOnce
<1>2. QED
  BY <1>1, PoolInvariance, PTL

\* No accepted task is lost or duplicated (send, receive, close(done)).
THEOREM AcceptedIsHeldOnceHolds == SafeSpec => []AcceptedIsHeldOnce
<1>1. PoolInv => AcceptedIsHeldOnce
  BY DEF PoolInv
<1>2. QED
  BY <1>1, PoolInvariance, PTL

\* Do and RunInPool return nil only after fn has run to its end.
THEOREM NilMeansCompletedHolds == SafeSpec => []NilMeansCompleted
<1>1. PoolInv => NilMeansCompleted
  <2> SUFFICES ASSUME PoolInv, NEW c \in Calls \ Cancellable, err[c] = "nil"
               PROVE  /\ starts[c] = 1 /\ done[c]
                      /\ \A w \in Workers : cur[w] # c
    BY DEF NilMeansCompleted
  <2>1. starts[c] = 1 /\ done[c]
    BY DEF PoolInv, CallProgress
  <2>2. \A w \in Workers : cur[w] # c
    BY <2>1, PoolAssumption DEF PoolInv, HeldTasks
  <2> QED  BY <2>1, <2>2
<1>2. QED
  BY <1>1, PoolInvariance, PTL

\* The function of a call that got ErrPoolClosed is never entered.
THEOREM RejectedNeverRunsHolds == SafeSpec => []RejectedNeverRuns
<1>1. PoolInv => RejectedNeverRuns
  <2> SUFFICES ASSUME PoolInv, NEW c \in Calls, err[c] = "ErrPoolClosed"
               PROVE  c \notin accepted /\ starts[c] = 0
    BY DEF RejectedNeverRuns
  <2>1. c \notin accepted /\ (c \in PoolCalls => starts[c] = 0)
    BY DEF PoolInv, CallProgress
  <2>2. c \notin OneOff
    BY DEF PoolInv, CallProgress
  <2> QED  BY <2>1, <2>2 DEF PoolCalls
<1>2. QED
  BY <1>1, PoolInvariance, PTL

\* The function of a call whose context was done before it is never entered.
THEOREM PreCancelledNeverRunsHolds == SafeSpec => []PreCancelledNeverRuns
<1>1. PoolInv => PreCancelledNeverRuns
  BY DEF PoolInv, PreCancelledStuck, PreCancelledNeverRuns
<1>2. QED
  BY <1>1, PoolInvariance, PTL

\* The function of a refused call is never entered (pool.go:105-115).
THEOREM RefusedNeverRunsHolds == SafeSpec => []RefusedNeverRuns
<1>1. RejectedNeverRuns /\ PreCancelledNeverRuns => RefusedNeverRuns
  BY DEF RefusedNeverRuns
<1>2. QED
  BY <1>1, RejectedNeverRunsHolds, PreCancelledNeverRunsHolds, PTL

\* When the winning Close returns, every accepted task has ended and every
\* worker is gone.
THEOREM CloseDrainsHolds == SafeSpec => []CloseDrains
<1>1. PoolInv => CloseDrains
  <2> SUFFICES ASSUME PoolInv, NEW k \in Closers, cpc[k] = "returned"
               PROVE  /\ \A c \in accepted : done[c]
                      /\ \A w \in Workers : wpc[w] = "exited"
    BY DEF CloseDrains
  <2>1. tasksClosed /\ \A w \in Workers : wpc[w] = "exited"
    BY DEF PoolInv, CloseOrder
  <2>2. \A w \in Workers : cur[w] = NoCall
    BY <2>1 DEF PoolInv, HeldTasks
  <2>3. tasks = <<>>
    BY <2>1, PoolAssumption DEF PoolInv, CloseOrder
  <2>4. \A c \in accepted : c \in Calls /\ c # NoCall
    BY PoolAssumption DEF PoolInv, TypeOK
  <2> QED
    BY <2>1, <2>2, <2>3, <2>4 DEF PoolInv, AcceptedIsHeldOnce
<1>2. QED
  BY <1>1, PoolInvariance, PTL
-----------------------------------------------------------------------------
(* The pool implements TaskService. *)

\* A fresh pool is a fresh service.
LEMMA ServiceInit == Init => Service!Init
  BY PoolAssumption
     DEF Init, NewPool, Service!Init, job, result, service, PoolCalls

\* What each part of the abstract state depends on.
LEMMA ServiceFrame ==
  /\ UNCHANGED <<done, starts, accepted>> => UNCHANGED job
  /\ UNCHANGED <<pc, err>> => UNCHANGED result
  /\ UNCHANGED <<closed, cpc>> => UNCHANGED service
  BY DEF job, result, service

\* One job changes and the others do not.
LEMMA JobMoves ==
  ASSUME NEW c \in PoolCalls, NEW to, job'[c] = to,
         \A d \in PoolCalls : d # c => job'[d] = job[d]
  PROVE  job' = [job EXCEPT ![c] = to]
  BY Zenon DEF job

\* A pool call that returns e answers e in the service.
LEMMA ReturnAnswers ==
  ASSUME PoolInv, NEW c \in PoolCalls, NEW e \in Errors, Return(c, e),
         pc[c] \in {"call", "send", "wait"},
         UNCHANGED <<done, starts, accepted, closed, cpc, cancelled>>
  PROVE  Service!Answer(c, e)
<1> USE DEF PoolInv, TypeOK, PoolCalls
<1>1. UNCHANGED <<job, service, cancelled>>
  BY ServiceFrame
<1>2. result[c] = "none"
  BY DEF result, CallProgress
<1>3. result' = [result EXCEPT ![c] = e]
  BY Zenon DEF result, Return
<1>4. QED
  BY <1>1, <1>2, <1>3 DEF Service!Answer

\* A send that the channel accepts is Accept in the service.
LEMMA SendAccepts ==
  ASSUME PoolInv, NEW c \in Calls, pc[c] = "send", ~tasksClosed,
         accepted' = accepted \cup {c}, pc' = [pc EXCEPT ![c] = "wait"],
         UNCHANGED <<err, done, starts, closed, cpc, cancelled>>
  PROVE  c \in PoolCalls /\ Service!Accept(c)
<1> USE PoolAssumption DEF PoolInv, TypeOK
<1>1. c \in PoolCalls /\ c \notin accepted /\ starts[c] = 0 /\ ~done[c]
  BY Zenon DEF CallProgress, PoolCalls
<1>2. UNCHANGED <<result, service>> /\ result[c] = "none"
  BY <1>1, ServiceFrame DEF result, CallProgress
<1>3. service # "shut"
  BY DEF service, CloseOrder
<1>4. /\ job[c] = "new" /\ job'[c] = "accepted"
      /\ \A d \in PoolCalls : d # c => job'[d] = job[d]
  BY <1>1 DEF job
<1>5. QED
  BY <1>1, <1>2, <1>3, <1>4, JobMoves DEF Service!Accept, Service!Stage

\* Every step of the pool is a step of the service or changes nothing it sees.
LEMMA ServiceStep ==
  PoolInv /\ [Next]_vars => [Service!Next]_Service!vars
<1> DEFINE Stutter == UNCHANGED <<job, result, cancelled, service>>
<1>i. SUFFICES ASSUME PoolInv, [Next]_vars
               PROVE  Service!Next \/ Stutter
  BY DEF Service!vars
<1>h. AcceptedIsHeldOnce
  BY <1>i DEF PoolInv
<1>t. HeldTasks
  BY <1>i DEF PoolInv
<1>c. CallProgress
  BY <1>i DEF PoolInv
<1>p. PreCancelledStuck
  BY <1>i DEF PoolInv
<1>o. CloseOrder
  BY <1>i DEF PoolInv
<1>a. /\ pc \in [Calls -> CallPC] /\ err \in [Calls -> Errors]
      /\ done \in [Calls -> BOOLEAN] /\ starts \in [Calls -> Nat]
      /\ accepted \subseteq Calls /\ tasks \in Seq(Calls)
      /\ cancelled \subseteq Cancellable
      /\ wpc \in [Workers -> WorkerPC] /\ cur \in [Workers -> Calls \cup {NoCall}]
      /\ cpc \in [Closers -> CloserPC]
  BY <1>i DEF PoolInv, TypeOK
<1>1. ASSUME NEW c \in Calls, RejectClosed(c)  PROVE Service!Next
  <2>1. c \in PoolCalls /\ c \notin accepted /\ pc[c] = "call"
    BY <1>1, <1>c
       DEF RejectClosed, MayCall, PoolCalls, CallProgress, workVars, closeVars
  <2>2. job[c] = "new" /\ service # "open"
    BY <1>1, <2>1, <1>c
       DEF RejectClosed, job, service, CallProgress, workVars, closeVars
  <2>3. Service!Answer(c, "ErrPoolClosed")
    BY <1>1, <2>1, ReturnAnswers, <1>i
       DEF RejectClosed, Errors, workVars, closeVars
  <2> QED  BY <2>1, <2>2, <2>3, SMTT(30) DEF Service!Next, Service!AnswerClosed
<1>2. ASSUME NEW c \in Calls, PassClosedCheck(c)  PROVE Stutter
  <2>1. UNCHANGED result
    BY <1>2, <1>a
       DEF PassClosedCheck, MayCall, result, PoolCalls, workVars, closeVars
  <2> QED  BY <1>2, <2>1, ServiceFrame DEF PassClosedCheck, workVars, closeVars
<1>3. ASSUME NEW c \in Calls, RunStart(c)  PROVE Stutter
  <2>1. UNCHANGED result
    BY <1>3, <1>a DEF RunStart, MayCall, result, PoolCalls, workVars, closeVars
  <2> QED  BY <1>3, <2>1, ServiceFrame DEF RunStart, workVars, closeVars
<1>4. ASSUME NEW c \in Calls, SendBuffered(c)  PROVE Service!Next
  BY <1>4, SendAccepts, <1>i, Zenon
     DEF SendBuffered, Service!Next, workVars, closeVars
<1>5. ASSUME NEW c \in Calls, NEW w \in Workers, SendDirect(c, w)  PROVE Service!Next
  BY <1>5, SendAccepts, <1>i, Zenon
     DEF SendDirect, Service!Next, closeVars
<1>6. ASSUME NEW c \in Calls, SendPanics(c)  PROVE Service!Next
  <2>1. c \in PoolCalls /\ c \notin accepted
    BY <1>6, <1>c DEF SendPanics, PoolCalls, CallProgress, workVars, closeVars
  <2>2. job[c] = "new" /\ service # "open" /\ UNCHANGED <<job, service, cancelled>>
    BY <1>6, <2>1, ServiceFrame, <1>c, <1>o
       DEF SendPanics, job, service, CallProgress, CloseOrder, workVars,
           closeVars
  <2>3. result[c] = "none" /\ result' = [result EXCEPT ![c] = "panic"]
    BY <1>6, <2>1, <1>a, <1>c, Zenon
       DEF SendPanics, result, PoolCalls, CallProgress, workVars, closeVars
  <2> QED  BY <2>1, <2>2, <2>3, Zenon
              DEF Service!Next, Service!AnswerPanic, Service!Answer
<1>7. ASSUME NEW c \in Calls, ReturnCtxErr(c)  PROVE Service!Next
  <2>1. c \in PoolCalls /\ c \in cancelled
    BY <1>7, <1>c
       DEF ReturnCtxErr, PoolCalls, CallProgress, workVars, closeVars
  <2>2. Service!Answer(c, "ctxErr")
    BY <1>7, <2>1, ReturnAnswers, <1>i
       DEF ReturnCtxErr, Errors, workVars, closeVars
  <2> QED  BY <2>1, <2>2 DEF Service!Next, Service!AnswerCtxErr
<1>8. ASSUME NEW c \in Calls, ReturnNil(c)  PROVE Service!Next
  <2>1. c \in PoolCalls /\ job[c] \in {"ran", "skipped"}
    BY <1>8, <1>c
       DEF ReturnNil, job, PoolCalls, CallProgress, workVars, closeVars
  <2>2. Service!Answer(c, "nil")
    BY <1>8, <2>1, ReturnAnswers, <1>i
       DEF ReturnNil, Errors, workVars, closeVars
  <2> QED  BY <2>1, <2>2 DEF Service!Next, Service!AnswerNil
<1>9. ASSUME NEW c \in Calls, Cancel(c)  PROVE Service!Next
  <2>1. c \in PoolCalls /\ UNCHANGED <<job, result, service>>
    BY <1>9, PoolAssumption, ServiceFrame
       DEF Cancel, PoolCalls, callVars, workVars, closeVars
  <2> QED  BY <1>9, <2>1
              DEF Cancel, Service!Next, Service!CancelCtx, callVars, workVars,
                  closeVars
<1>10. ASSUME NEW c \in Calls, RunFn(c)  PROVE Stutter
  <2>1. c \in OneOff
    BY <1>10, <1>c
       DEF RunFn, PoolCalls, CallPC, CallProgress, callVars, closeVars
  <2>2. UNCHANGED job
    BY <1>10, <2>1, <1>a DEF RunFn, job, PoolCalls, callVars, closeVars
  <2> QED  BY <1>10, <2>2, ServiceFrame DEF RunFn, callVars, closeVars
<1>11. ASSUME NEW c \in Calls, RunFnEnds(c)  PROVE Stutter
  <2>1. c \in OneOff
    BY <1>11, <1>c
       DEF RunFnEnds, PoolCalls, CallPC, CallProgress, callVars, closeVars
  <2>2. UNCHANGED job
    BY <1>11, <2>1, <1>a DEF RunFnEnds, job, PoolCalls, callVars, closeVars
  <2> QED  BY <1>11, <2>2, ServiceFrame DEF RunFnEnds, callVars, closeVars
<1>12. ASSUME NEW c \in Calls, RunReturns(c)  PROVE Stutter
  <2>1. c \in OneOff
    BY <1>12, <1>c
       DEF RunReturns, PoolCalls, CallPC, CallProgress, workVars, closeVars
  <2>2. UNCHANGED result
    BY <1>12, <2>1, <1>a
       DEF RunReturns, Return, result, PoolCalls, workVars, closeVars
  <2> QED  BY <1>12, <2>2, ServiceFrame DEF RunReturns, workVars, closeVars
<1>13. ASSUME NEW w \in Workers, Receive(w)  PROVE Stutter
  BY <1>13, ServiceFrame DEF Receive, callVars, closeVars
<1>14. ASSUME NEW w \in Workers, CheckCtxLive(w)  PROVE Stutter
  BY <1>14, ServiceFrame, SMTT(30) DEF CheckCtxLive, callVars, closeVars
<1>15. ASSUME NEW w \in Workers, CheckCtxDone(w)  PROVE Service!Next
  <2>1. cur[w] \in PoolCalls /\ cur[w] \in accepted /\ ~done[cur[w]] /\ starts[cur[w]] = 0
    BY <1>15, <1>a, <1>t, <1>c, Zenon
       DEF CheckCtxDone, PoolCalls, HeldTasks, CallProgress, callVars,
           closeVars
  <2>2. /\ job[cur[w]] = "accepted" /\ job'[cur[w]] = "skipped"
        /\ \A d \in PoolCalls : d # cur[w] => job'[d] = job[d]
    BY <1>15, <2>1, <1>a
       DEF CheckCtxDone, FinishTask, job, PoolCalls, callVars, closeVars
  <2>3. UNCHANGED <<result, cancelled, service>> /\ cur[w] \in cancelled
    BY <1>15, ServiceFrame DEF CheckCtxDone, callVars, closeVars
  <2> QED  BY <2>1, <2>2, <2>3, JobMoves
              DEF Service!Next, Service!Skip, Service!Stage
<1>16. ASSUME NEW w \in Workers, EnterFn(w)  PROVE Service!Next
  <2>1. cur[w] \in PoolCalls /\ cur[w] \in accepted /\ ~done[cur[w]] /\ starts[cur[w]] = 0
    BY <1>16, <1>a, <1>t, <1>c, Zenon
       DEF EnterFn, PoolCalls, HeldTasks, CallProgress, callVars, closeVars
  <2>2. /\ job[cur[w]] = "accepted" /\ job'[cur[w]] = "running"
        /\ \A d \in PoolCalls : d # cur[w] => job'[d] = job[d]
    BY <1>16, <2>1, <1>a DEF EnterFn, job, PoolCalls, callVars, closeVars
  <2>3. UNCHANGED <<result, cancelled, service>>
    BY <1>16, ServiceFrame, SMTT(30) DEF EnterFn, callVars, closeVars
  <2> QED  BY <2>1, <2>2, <2>3, JobMoves
              DEF Service!Next, Service!Start, Service!Stage
<1>17. ASSUME NEW w \in Workers, LeaveFn(w)  PROVE Service!Next
  <2>1. cur[w] \in PoolCalls /\ cur[w] \in accepted /\ ~done[cur[w]] /\ starts[cur[w]] = 1
    BY <1>17, <1>a, <1>t, <1>c, Zenon
       DEF LeaveFn, PoolCalls, HeldTasks, CallProgress, callVars, closeVars
  <2>2. /\ job[cur[w]] = "running" /\ job'[cur[w]] = "ran"
        /\ \A d \in PoolCalls : d # cur[w] => job'[d] = job[d]
    BY <1>17, <2>1, <1>a, SMTT(30)
       DEF LeaveFn, FinishTask, job, PoolCalls, callVars, closeVars
  <2>3. UNCHANGED <<result, cancelled, service>>
    BY <1>17, ServiceFrame DEF LeaveFn, callVars, closeVars
  <2> QED  BY <2>1, <2>2, <2>3, JobMoves
              DEF Service!Next, Service!Finish, Service!Stage
<1>18. ASSUME NEW w \in Workers, Exit(w)  PROVE Stutter
  BY <1>18, ServiceFrame DEF Exit, callVars, closeVars
<1>19. ASSUME NEW k \in Closers, CloseWins(k)  PROVE Service!Next
  <2>1. service = "open" /\ service' = "closing"
    BY <1>19, <1>a, <1>o DEF CloseWins, service, CloseOrder, callVars, workVars
  <2> QED  BY <1>19, <2>1, ServiceFrame
              DEF CloseWins, Service!Next, Service!StartClosing, callVars,
                  workVars
<1>20. ASSUME NEW k \in Closers, CloseLoses(k)  PROVE Stutter
  <2>1. UNCHANGED service
    BY <1>20, <1>a DEF CloseLoses, service, callVars, workVars
  <2> QED  BY <1>20, <2>1, ServiceFrame DEF CloseLoses, callVars, workVars
<1>21. ASSUME NEW k \in Closers, CloseTasks(k)  PROVE Stutter
  <2>1. UNCHANGED service
    BY <1>21, <1>a DEF CloseTasks, service, callVars, workVars
  <2> QED  BY <1>21, <2>1, ServiceFrame DEF CloseTasks, callVars, workVars
<1>22. ASSUME NEW k \in Closers, WaitWorkers(k)  PROVE Service!Next
  <2>1. service = "closing" /\ service' = "shut"
    BY <1>22, <1>a, <1>o, Zenon
       DEF WaitWorkers, service, CloseOrder, callVars, workVars
  <2>2. \A c \in accepted : done[c]
    <3>1. tasks = <<>> /\ \A w \in Workers : cur[w] = NoCall
      BY <1>22, <1>t, <1>o, PoolAssumption
         DEF WaitWorkers, HeldTasks, CloseOrder
    <3>2. NoCall \notin accepted
      BY <1>a, PoolAssumption
    <3> QED  BY <3>1, <3>2, <1>h DEF AcceptedIsHeldOnce
  <2>3. \A c \in PoolCalls : job[c] \in {"new", "ran", "skipped"}
    BY <2>2, <1>c DEF job, CallProgress
  <2> QED
    BY <1>22, <2>1, <2>3, ServiceFrame
       DEF WaitWorkers, Service!Next, Service!Shut, callVars, workVars
<1>23. CASE UNCHANGED vars
  BY <1>23, ServiceFrame DEF vars
<1>24. QED
  BY <1>1, <1>2, <1>3, <1>4, <1>5, <1>6, <1>7, <1>8, <1>9, <1>10, <1>11,
     <1>12, <1>13, <1>14, <1>15, <1>16, <1>17, <1>18, <1>19, <1>20, <1>21,
     <1>22, <1>23, <1>i, Zenon
     DEF Next, Call, CallStep, RunStep, WorkerStep, CloseStep

\* The pool implements the abstract service: acceptance, at most one run,
\* skips only for a cancelled context, answers only for a reason, and a shut
\* service in which nothing is left undone.
THEOREM PoolImplementsService == SafeSpec => ImplementsService
  BY ServiceInit, ServiceStep, PoolInvariance, PTL
     DEF SafeSpec, ImplementsService, Service!Spec
=============================================================================
