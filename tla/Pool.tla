-------------------------------- MODULE Pool --------------------------------
(***************************************************************************)
(* The worker pool of go/gort/pool.go: callers submit functions over a     *)
(* buffered channel to worker goroutines and wait for them, contexts may   *)
(* cancel a call at any moment, and Close shuts the pool down.             *)
(*                                                                         *)
(* One element of Calls is one invocation of Do, DoContext, RunInPool or   *)
(* Run.  A Go select is an action for each of its ready cases.  What a     *)
(* submitted function computes is abstracted away; that it runs, how       *)
(* often, when it ends and which calls it makes itself is kept.            *)
(***************************************************************************)
EXTENDS Naturals, Sequences, FiniteSets

CONSTANTS
  Calls,         \* invocations of Do / DoContext / RunInPool / Run
  OneOff,        \* those that are gort.Run: no pool involved
  Cancellable,   \* those whose context can be cancelled (Do: Background)
  PreCancelled,  \* those whose context is cancelled before the call
  Parent,        \* the call whose fn makes this call, or NoCall
  Workers,       \* the worker goroutines of NewPool
  Closers,       \* goroutines that call Close
  QueueSize,     \* capacity of the channel p.tasks
  NoCall         \* "no call": not an element of Calls

ASSUME PoolAssumption ==
  /\ OneOff \subseteq Calls
  /\ Cancellable \subseteq Calls \ OneOff
  /\ PreCancelled \subseteq Cancellable
  /\ NoCall \notin Calls
  /\ Parent \in [Calls -> Calls \cup {NoCall}]
  /\ Workers # {}     \* WithWorkers ignores n <= 0
  /\ QueueSize \in Nat  \* WithQueueSize ignores size < 0

VARIABLES
  closed,       \* p.closed, the atomic flag
  tasks,        \* p.tasks: the buffered calls
  tasksClosed,  \* close(p.tasks) has happened
  pc,           \* where each call is
  err,          \* what it returned
  cancelled,    \* calls whose context is done
  done,         \* the call's done channel is closed
  wpc,          \* where each worker is
  cur,          \* the task each worker holds
  cpc,          \* where each Close is
  accepted,     \* history: calls whose send succeeded
  starts        \* history: how often the call's fn was entered

callVars == <<pc, err>>
workVars == <<wpc, cur, done, starts>>
closeVars == <<closed, tasksClosed, cpc>>
vars == <<closed, tasks, tasksClosed, pc, err, cancelled, done, wpc, cur,
          cpc, accepted, starts>>

CallPC == {"call", "send", "wait", "oneoff", "returned", "panicked"}
Errors == {"none", "nil", "ctxErr", "ErrPoolClosed"}
WorkerPC == {"range", "check", "enter", "fn", "exited"}
CloserPC == {"idle", "closing", "waiting", "returned", "lost"}

\* The type invariant: in particular the channel never holds more than its
\* capacity (make(chan poolTask, cfg.queueSize), pool.go:72).
TypeOK ==
  /\ closed \in BOOLEAN
  /\ tasks \in Seq(Calls)
  /\ Len(tasks) <= QueueSize
  /\ tasksClosed \in BOOLEAN
  /\ pc \in [Calls -> CallPC]
  /\ err \in [Calls -> Errors]
  /\ cancelled \in SUBSET Cancellable
  /\ done \in [Calls -> BOOLEAN]
  /\ wpc \in [Workers -> WorkerPC]
  /\ cur \in [Workers -> Calls \cup {NoCall}]
  /\ cpc \in [Closers -> CloserPC]
  /\ accepted \in SUBSET Calls
  /\ starts \in [Calls -> Nat]

\* NewPool: an empty channel and every worker at the head of its loop.
NewPool ==
  /\ closed = FALSE
  /\ tasks = <<>>
  /\ tasksClosed = FALSE
  /\ wpc = [w \in Workers |-> "range"]
  /\ cur = [w \in Workers |-> NoCall]

Init ==
  /\ NewPool
  /\ pc = [c \in Calls |-> "call"]
  /\ err = [c \in Calls |-> "none"]
  /\ cancelled = PreCancelled
  /\ done = [c \in Calls |-> FALSE]
  /\ cpc = [k \in Closers |-> "idle"]
  /\ accepted = {}
  /\ starts = [c \in Calls |-> 0]
-----------------------------------------------------------------------------
(* Callers. *)

Ended(c) == pc[c] \in {"returned", "panicked"}

\* A nested call is made by the fn of its parent while that fn runs.
MayCall(c) ==
  /\ pc[c] = "call"
  /\ Parent[c] # NoCall =>
       \E w \in Workers : wpc[w] = "fn" /\ cur[w] = Parent[c]

Return(c, e) ==
  /\ pc' = [pc EXCEPT ![c] = "returned"]
  /\ err' = [err EXCEPT ![c] = e]

\* p.closed.Load() is true: ErrPoolClosed.
RejectClosed(c) ==
  /\ c \notin OneOff
  /\ MayCall(c)
  /\ closed
  /\ Return(c, "ErrPoolClosed")
  /\ UNCHANGED <<tasks, cancelled, accepted, workVars, closeVars>>

\* p.closed.Load() is false: on to the first select.
PassClosedCheck(c) ==
  /\ c \notin OneOff
  /\ MayCall(c)
  /\ ~closed
  /\ pc' = [pc EXCEPT ![c] = "send"]
  /\ UNCHANGED <<err, tasks, cancelled, accepted, workVars, closeVars>>

\* case p.tasks <- t, into the buffer.
SendBuffered(c) ==
  /\ pc[c] = "send"
  /\ ~tasksClosed
  /\ Len(tasks) < QueueSize
  /\ tasks' = Append(tasks, c)
  /\ accepted' = accepted \cup {c}
  /\ pc' = [pc EXCEPT ![c] = "wait"]
  /\ UNCHANGED <<err, cancelled, workVars, closeVars>>

\* case p.tasks <- t, handed to a worker that is blocked in its receive.
SendDirect(c, w) ==
  /\ pc[c] = "send"
  /\ ~tasksClosed
  /\ tasks = <<>>
  /\ wpc[w] = "range"
  /\ wpc' = [wpc EXCEPT ![w] = "check"]
  /\ cur' = [cur EXCEPT ![w] = c]
  /\ accepted' = accepted \cup {c}
  /\ pc' = [pc EXCEPT ![c] = "wait"]
  /\ UNCHANGED <<err, tasks, cancelled, done, starts, closeVars>>

\* A select whose send case names a closed channel panics.
SendPanics(c) ==
  /\ pc[c] = "send"
  /\ tasksClosed
  /\ pc' = [pc EXCEPT ![c] = "panicked"]
  /\ UNCHANGED <<err, tasks, cancelled, accepted, workVars, closeVars>>

\* case <-ctx.Done(), of either select.
ReturnCtxErr(c) ==
  /\ pc[c] \in {"send", "wait"}
  /\ c \in cancelled
  /\ Return(c, "ctxErr")
  /\ UNCHANGED <<tasks, cancelled, accepted, workVars, closeVars>>

\* Slip: the select stands in a loop and its break leaves the select only.
ReturnNil_BreaksSelect(c) == pc[c] = "wait" /\ done[c] /\ UNCHANGED vars

\* case <-done.
ReturnNil(c) ==
  /\ pc[c] = "wait"
  /\ done[c]
  /\ Return(c, "nil")
  /\ UNCHANGED <<tasks, cancelled, accepted, workVars, closeVars>>

\* The context of the call is cancelled, by anyone, at any time.
Cancel(c) ==
  /\ c \in Cancellable \ cancelled
  /\ ~Ended(c)
  /\ cancelled' = cancelled \cup {c}
  /\ UNCHANGED <<callVars, tasks, accepted, workVars, closeVars>>
-----------------------------------------------------------------------------
(* Workers: workerLoop and the closure t.fn that DoContext built. *)

\* Slip: the task is read but stays in the buffer.
Receive_KeepsTask(w) ==
  /\ wpc[w] = "range"
  /\ tasks # <<>>
  /\ cur' = [cur EXCEPT ![w] = Head(tasks)]
  /\ wpc' = [wpc EXCEPT ![w] = "check"]
  /\ UNCHANGED <<callVars, tasks, cancelled, done, accepted, starts, closeVars>>

\* for task := range p.tasks, with a task in the buffer.
Receive(w) ==
  /\ wpc[w] = "range"
  /\ tasks # <<>>
  /\ cur' = [cur EXCEPT ![w] = Head(tasks)]
  /\ tasks' = Tail(tasks)
  /\ wpc' = [wpc EXCEPT ![w] = "check"]
  /\ UNCHANGED <<callVars, cancelled, done, accepted, starts, closeVars>>

\* The deferred close(done) of t.fn, and back to the loop.
FinishTask(w) ==
  /\ done' = [done EXCEPT ![cur[w]] = TRUE]
  /\ wpc' = [wpc EXCEPT ![w] = "range"]
  /\ cur' = [cur EXCEPT ![w] = NoCall]

\* Slip: fn is entered whatever the context says.
CheckCtxLive_NoCheck(w) ==
  /\ wpc[w] = "check"
  /\ wpc' = [wpc EXCEPT ![w] = "enter"]
  /\ UNCHANGED <<callVars, tasks, cancelled, done, cur, accepted, starts,
                 closeVars>>

\* if ctx.Err() == nil: enter fn, else skip it.  (The test of task.ctx in
\* workerLoop has two equal branches and decides nothing.)
CheckCtxLive(w) ==
  /\ wpc[w] = "check"
  /\ cur[w] \notin cancelled
  /\ wpc' = [wpc EXCEPT ![w] = "enter"]
  /\ UNCHANGED <<callVars, tasks, cancelled, done, cur, accepted, starts,
                 closeVars>>

\* Slip: the cancelled branch of workerLoop drops the task without t.fn().
CheckCtxDone_Dropped(w) ==
  /\ wpc[w] = "check"
  /\ cur[w] \in cancelled
  /\ wpc' = [wpc EXCEPT ![w] = "range"]
  /\ cur' = [cur EXCEPT ![w] = NoCall]
  /\ UNCHANGED <<callVars, tasks, cancelled, done, accepted, starts, closeVars>>

CheckCtxDone(w) ==
  /\ wpc[w] = "check"
  /\ cur[w] \in cancelled
  /\ FinishTask(w)
  /\ UNCHANGED <<callVars, tasks, cancelled, accepted, starts, closeVars>>

\* Slip: close(done) without the defer, before fn runs.
EnterFn_ClosesDone(w) ==
  /\ wpc[w] = "enter"
  /\ wpc' = [wpc EXCEPT ![w] = "fn"]
  /\ starts' = [starts EXCEPT ![cur[w]] = @ + 1]
  /\ done' = [done EXCEPT ![cur[w]] = TRUE]
  /\ UNCHANGED <<callVars, tasks, cancelled, cur, accepted, closeVars>>

EnterFn(w) ==
  /\ wpc[w] = "enter"
  /\ wpc' = [wpc EXCEPT ![w] = "fn"]
  /\ starts' = [starts EXCEPT ![cur[w]] = @ + 1]
  /\ UNCHANGED <<callVars, tasks, cancelled, done, cur, accepted, closeVars>>

\* fn returns, once the calls it makes itself have ended.
LeaveFn(w) ==
  /\ wpc[w] = "fn"
  /\ \A c \in Calls : Parent[c] = cur[w] => Ended(c)
  /\ FinishTask(w)
  /\ UNCHANGED <<callVars, tasks, cancelled, accepted, starts, closeVars>>

\* Slip: a worker leaves on the closed channel and abandons the buffer.
Exit_Undrained(w) ==
  /\ wpc[w] = "range"
  /\ tasksClosed
  /\ wpc' = [wpc EXCEPT ![w] = "exited"]
  /\ UNCHANGED <<callVars, tasks, cancelled, done, cur, accepted, starts,
                 closeVars>>

\* Slip: the loop receives from the closed channel without looking at ok.
Exit_Spins(w) ==
  wpc[w] = "range" /\ tasksClosed /\ tasks = <<>> /\ UNCHANGED vars

\* The range loop ends on a closed and drained channel; wg.Done().
Exit(w) ==
  /\ wpc[w] = "range"
  /\ tasksClosed
  /\ tasks = <<>>
  /\ wpc' = [wpc EXCEPT ![w] = "exited"]
  /\ UNCHANGED <<callVars, tasks, cancelled, done, cur, accepted, starts,
                 closeVars>>
-----------------------------------------------------------------------------
(* Close. *)

\* Slip: the flag is stored without comparing.
CloseWins_NoCompare(k) ==
  /\ cpc[k] = "idle"
  /\ closed' = TRUE
  /\ cpc' = [cpc EXCEPT ![k] = "closing"]
  /\ UNCHANGED <<tasksClosed, callVars, tasks, cancelled, accepted, workVars>>

\* p.closed.CompareAndSwap(false, true) succeeds for one Close only.
CloseWins(k) ==
  /\ cpc[k] = "idle"
  /\ ~closed
  /\ closed' = TRUE
  /\ cpc' = [cpc EXCEPT ![k] = "closing"]
  /\ UNCHANGED <<tasksClosed, callVars, tasks, cancelled, accepted, workVars>>

\* Every other Close returns at once.
CloseLoses(k) ==
  /\ cpc[k] = "idle"
  /\ closed
  /\ cpc' = [cpc EXCEPT ![k] = "lost"]
  /\ UNCHANGED <<closed, tasksClosed, callVars, tasks, cancelled, accepted,
                 workVars>>

\* close(p.tasks)
CloseTasks(k) ==
  /\ cpc[k] = "closing"
  /\ tasksClosed' = TRUE
  /\ cpc' = [cpc EXCEPT ![k] = "waiting"]
  /\ UNCHANGED <<closed, callVars, tasks, cancelled, accepted, workVars>>

\* Slip: Close does not wait for the workers.
WaitWorkers_NoWait(k) ==
  /\ cpc[k] = "waiting"
  /\ cpc' = [cpc EXCEPT ![k] = "returned"]
  /\ UNCHANGED <<closed, tasksClosed, callVars, tasks, cancelled, accepted,
                 workVars>>

\* p.wg.Wait()
WaitWorkers(k) ==
  /\ cpc[k] = "waiting"
  /\ \A w \in Workers : wpc[w] = "exited"
  /\ cpc' = [cpc EXCEPT ![k] = "returned"]
  /\ UNCHANGED <<closed, tasksClosed, callVars, tasks, cancelled, accepted,
                 workVars>>
-----------------------------------------------------------------------------
(* gort.Run: a goroutine of its own, no pool, no context. *)

RunStart(c) ==
  /\ c \in OneOff
  /\ MayCall(c)
  /\ pc' = [pc EXCEPT ![c] = "oneoff"]
  /\ UNCHANGED <<err, tasks, cancelled, accepted, workVars, closeVars>>

RunFn(c) ==
  /\ pc[c] = "oneoff"
  /\ starts[c] = 0
  /\ starts' = [starts EXCEPT ![c] = 1]
  /\ UNCHANGED <<callVars, tasks, cancelled, accepted, wpc, cur, done,
                 closeVars>>

RunFnEnds(c) ==
  /\ pc[c] = "oneoff"
  /\ starts[c] = 1
  /\ ~done[c]
  /\ done' = [done EXCEPT ![c] = TRUE]
  /\ UNCHANGED <<callVars, tasks, cancelled, accepted, wpc, cur, starts,
                 closeVars>>

RunReturns(c) ==
  /\ pc[c] = "oneoff"
  /\ done[c]
  /\ Return(c, "nil")
  /\ UNCHANGED <<tasks, cancelled, accepted, workVars, closeVars>>
-----------------------------------------------------------------------------
CallStep(c) ==
  \/ SendBuffered(c)
  \/ \E w \in Workers : SendDirect(c, w)
  \/ SendPanics(c)
  \/ ReturnCtxErr(c)
  \/ ReturnNil(c)

Call(c) == RejectClosed(c) \/ PassClosedCheck(c) \/ RunStart(c)

RunStep(c) == RunFn(c) \/ RunFnEnds(c) \/ RunReturns(c)

WorkerStep(w) ==
  \/ Receive(w)
  \/ CheckCtxLive(w)
  \/ CheckCtxDone(w)
  \/ EnterFn(w)
  \/ LeaveFn(w)
  \/ Exit(w)

CloseStep(k) == CloseTasks(k) \/ WaitWorkers(k)

\* Everything has ended: every call that was made, every Close and worker.
Quiescent ==
  /\ \A c \in Calls : Ended(c) \/ (pc[c] = "call" /\ Parent[c] # NoCall)
  /\ \A k \in Closers : cpc[k] \in {"returned", "lost"}
  /\ \A w \in Workers : wpc[w] = "exited"

Next ==
  \/ \E c \in Calls : Call(c) \/ CallStep(c) \/ RunStep(c) \/ Cancel(c)
  \/ \E w \in Workers : WorkerStep(w)
  \/ \E k \in Closers : CloseWins(k) \/ CloseLoses(k) \/ CloseStep(k)
  \/ Quiescent /\ UNCHANGED vars

SafeSpec == Init /\ [][Next]_vars

\* The Go scheduler runs every runnable goroutine, and the submitted
\* functions end.  Nobody has to cancel a context or to call Close.
Fairness ==
  /\ \A c \in Calls : WF_vars(Call(c)) /\ WF_vars(CallStep(c))
                        /\ WF_vars(RunStep(c))
  /\ \A w \in Workers : WF_vars(WorkerStep(w))
  /\ \A k \in Closers : WF_vars(CloseStep(k))

Spec == SafeSpec /\ Fairness
-----------------------------------------------------------------------------
(* Safety. *)

PoolCalls == Calls \ OneOff

\* A submitted function is entered at most once, whoever dequeues it and
\* however Close, cancellation and the workers interleave (workerLoop,
\* pool.go:84-96).
AtMostOnce == \A c \in Calls : starts[c] <= 1

\* "Do executes fn ... and waits for it to complete" (pool.go:98): a call
\* that cannot be cancelled and returns nil returns after its fn was entered
\* and once no worker is inside it.  RunInPool reads fn's results after that return.
NilMeansCompleted ==
  \A c \in Calls \ Cancellable :
    err[c] = "nil" =>
      /\ starts[c] = 1
      /\ done[c]
      /\ \A w \in Workers : cur[w] # c

\* ErrPoolClosed is final: the function of a rejected call was not handed to
\* a worker and is never entered (pool.go:105-107).
RejectedNeverRuns ==
  \A c \in Calls : err[c] = "ErrPoolClosed" => c \notin accepted /\ starts[c] = 0

\* "cancelled task must not execute" (pool_test.go:61): a context that is
\* done before the call keeps fn from being entered, even when the select
\* picks the send and a worker gets the task.
PreCancelledNeverRuns == \A c \in PreCancelled : starts[c] = 0

\* A call that was refused leaves no trace, whether the pool was closed or
\* its context done before it was made (pool.go:105-115).
RefusedNeverRuns == RejectedNeverRuns /\ PreCancelledNeverRuns

\* "Close gracefully closes the pool, waiting for all currently queued tasks
\* to complete" (pool.go:134), for the Close that wins the CompareAndSwap:
\* when it returns, every task the channel accepted has ended and no worker
\* is left that could run one.
CloseDrains ==
  \A k \in Closers : cpc[k] = "returned" =>
    /\ \A c \in accepted : done[c]
    /\ \A w \in Workers : wpc[w] = "exited"

\* A task the channel accepted is neither lost nor duplicated: until its done
\* channel is closed it is in the buffer or in the hands of a worker, and
\* never in two places (DoContext's send, workerLoop's receive).
AcceptedIsHeldOnce ==
  /\ \A c \in accepted : ~done[c] =>
       \/ \E i \in DOMAIN tasks : tasks[i] = c
       \/ \E w \in Workers : cur[w] = c
  /\ \A i, j \in DOMAIN tasks : tasks[i] = tasks[j] => i = j
  /\ \A v, w \in Workers : cur[v] # NoCall /\ cur[v] = cur[w] => v = w
  /\ \A i \in DOMAIN tasks, w \in Workers : tasks[i] # cur[w]

\* The state of the abstract service that a state of the pool stands for.
job ==
  [c \in PoolCalls |->
     IF starts[c] > 0
     THEN IF done[c] THEN "ran" ELSE "running"
     ELSE IF done[c] THEN "skipped"
          ELSE IF c \in accepted THEN "accepted" ELSE "new"]

result ==
  [c \in PoolCalls |-> IF pc[c] = "panicked" THEN "panic" ELSE err[c]]

service ==
  IF \E k \in Closers : cpc[k] = "returned" THEN "shut"
  ELSE IF closed THEN "closing" ELSE "open"

Service == INSTANCE TaskService
  WITH Calls <- PoolCalls, ctxDone <- cancelled

\* The pool implements the abstract service: every step of callers, workers
\* and Close is a step that TaskService allows, or changes nothing it sees.
ImplementsService == Service!Spec
-----------------------------------------------------------------------------
(* Liveness. *)

\* Every call ends, even when Close runs at the same time, when the queue is
\* full, and when fn itself calls Do (as long as a worker is left for it).
EveryCallEnds == \A c \in Calls : MayCall(c) ~> Ended(c)

\* A task the channel accepted is run or skipped, also after Close.
AcceptedEventuallyDone == \A c \in Calls : c \in accepted ~> done[c]

\* The Close that wins returns.
CloseReturns == \A k \in Closers : cpc[k] = "closing" ~> cpc[k] = "returned"
-----------------------------------------------------------------------------
(* The inductive invariant behind the theorems of PoolProofs. *)

\* Workers hold a task exactly between receive and close(done); whatever is
\* buffered or held was accepted, is not done, and was entered only if its
\* worker is inside fn.
HeldTasks ==
  /\ \A w \in Workers : cur[w] = NoCall <=> wpc[w] \in {"range", "exited"}
  /\ \A i \in DOMAIN tasks :
       tasks[i] \in accepted /\ ~done[tasks[i]] /\ starts[tasks[i]] = 0
  /\ \A w \in Workers : cur[w] # NoCall =>
       /\ cur[w] \in accepted
       /\ ~done[cur[w]]
       /\ starts[cur[w]] = IF wpc[w] = "fn" THEN 1 ELSE 0

\* How far a call has come bounds what can have happened to its task.
CallProgress ==
  /\ \A c \in accepted : c \notin OneOff /\ pc[c] \in {"wait", "returned"}
  /\ \A c \in PoolCalls \ accepted :
       starts[c] = 0 /\ ~done[c] /\ pc[c] \in CallPC \ {"wait", "oneoff"}
  /\ \A c \in OneOff :
       /\ pc[c] \in {"call", "oneoff", "returned"}
       /\ pc[c] = "call" => starts[c] = 0
       /\ done[c] => starts[c] = 1
       /\ err[c] \in {"none", "nil"}
  /\ \A c \in Calls :
       /\ starts[c] <= 1
       /\ done[c] /\ c \notin Cancellable => starts[c] = 1
       /\ err[c] = "nil" => done[c]
       /\ err[c] = "ErrPoolClosed" => c \notin accepted
       /\ err[c] # "none" => pc[c] = "returned"

\* A context that is done before the call never lets a worker past the check.
PreCancelledStuck ==
  /\ PreCancelled \subseteq cancelled
  /\ \A c \in PreCancelled :
       starts[c] = 0 /\ \A w \in Workers : cur[w] = c => wpc[w] = "check"

\* One Close wins; the channel is closed after the flag is set; a worker
\* leaves only a closed and drained channel.
CloseOrder ==
  /\ tasksClosed => closed
  /\ \A k, l \in Closers :
       cpc[k] \notin {"idle", "lost"} /\ cpc[l] \notin {"idle", "lost"} => k = l
  /\ \A k \in Closers :
       /\ cpc[k] \notin {"idle", "lost"} => closed
       /\ cpc[k] = "closing" => ~tasksClosed
       /\ cpc[k] \in {"waiting", "returned"} => tasksClosed
       /\ cpc[k] = "returned" => \A w \in Workers : wpc[w] = "exited"
  /\ \A w \in Workers : wpc[w] = "exited" => tasksClosed /\ tasks = <<>>

PoolInv ==
  /\ TypeOK
  /\ AcceptedIsHeldOnce
  /\ HeldTasks
  /\ CallProgress
  /\ PreCancelledStuck
  /\ CloseOrder
-----------------------------------------------------------------------------
(* What a comment says and the code does not do. *)

\* "ErrPoolClosed is returned when submitting tasks to a closed pool"
\* (pool.go:12): a submission never ends in a panic.
SubmitNeverPanics == \A c \in Calls : pc[c] # "panicked"
=============================================================================
