------------------------------- MODULE Spawn -------------------------------
(***************************************************************************)
(* Spawn of go/spawn.go: goroutines of one process fork children at the    *)
(* same time, and each learns over its close-on-exec error pipe whether    *)
(* its child got through to exec.                                          *)
(*                                                                         *)
(* Every system call of Spawn, forkAndRun and the child is an action.      *)
(* Descriptors are shared by all goroutines of the parent, so a child also *)
(* inherits the error pipes of the other Spawns; the signal mask belongs   *)
(* to a thread, and the Go scheduler may move a goroutine that is not      *)
(* pinned.  How the child rebuilds its table is ChildFds; here it succeeds *)
(* or fails, and Files lists no closed number that an error pipe gets      *)
(* (ErrorPipeKept of ChildFds says what happens otherwise).                *)
(***************************************************************************)
EXTENDS Naturals

CONSTANTS
  Spawns,      \* calls of Spawn, each on a goroutine of its own
  Threads,     \* OS threads of the parent
  Wants,       \* per call: which of "setsid", "ctty", "chdir" attr asks for
  Sweeps       \* whether close_range succeeds: a set of Booleans

ASSUME SpawnAssumption ==
  /\ Wants \in [Spawns -> SUBSET {"setsid", "ctty", "chdir"}]
  /\ Sweeps \subseteq BOOLEAN

VARIABLES
  ppc,      \* where each Spawn is
  result,   \* what it returned: "none", "pid", "errno" or a failed step
  got,      \* the step the parent read from its pipe, or "none"
  thread,   \* the thread the goroutine runs on
  blocked,  \* the threads whose mask blocks every signal
  saved,    \* old: was the mask already full before the fork
  pfds,     \* descriptors Spawn has open in the parent
  cpc,      \* where each child is
  holds,    \* the error pipes whose write end a child has open
  cmask,    \* the child blocks every signal
  actions,  \* the child's signal actions: "inherited" or "default"
  failed,   \* the step the child failed in, or "none"
  report    \* what is in the pipe: "none" or a step

parent == <<ppc, result, got>>
child == <<cpc, holds, cmask, actions, failed, report>>
masks == <<thread, blocked, saved>>
vars == <<ppc, result, got, thread, blocked, saved, pfds, cpc, holds, cmask,
          actions, failed, report>>

Ends == {"r", "w", "err"}
Steps == {"files", "setsid", "ctty", "chdir", "execve"}
BeforeExec == Steps \cup {"sweep", "sigs", "unmask", "report", "exit"}

\* The type invariant.
TypeOK ==
  /\ ppc \in [Spawns -> {"call", "pipe", "dup", "closeW", "block", "clone",
                         "restore", "closeErr", "abort", "read", "closeR",
                         "wait", "returned"}]
  /\ result \in [Spawns -> {"none", "pid", "errno"} \cup Steps]
  /\ got \in [Spawns -> {"none"} \cup Steps]
  /\ thread \in [Spawns -> Threads]
  /\ blocked \in SUBSET Threads
  /\ saved \in [Spawns -> BOOLEAN]
  /\ pfds \in SUBSET (Ends \X Spawns)
  /\ cpc \in [Spawns -> BeforeExec \cup {"none", "running", "zombie", "reaped"}]
  /\ holds \in [Spawns -> SUBSET Spawns]
  /\ cmask \in [Spawns -> BOOLEAN]
  /\ actions \in [Spawns -> {"inherited", "default"}]
  /\ failed \in [Spawns -> {"none"} \cup Steps]
  /\ report \in [Spawns -> {"none"} \cup Steps]

Init ==
  /\ ppc = [s \in Spawns |-> "call"]
  /\ result = [s \in Spawns |-> "none"]
  /\ got = [s \in Spawns |-> "none"]
  /\ thread \in [Spawns -> Threads]
  /\ \A s, t \in Spawns : thread[s] = thread[t] => s = t
  /\ blocked = {}
  /\ saved = [s \in Spawns |-> FALSE]
  /\ pfds = {}
  /\ cpc = [s \in Spawns |-> "none"]
  /\ holds = [s \in Spawns |-> {}]
  /\ cmask = [s \in Spawns |-> FALSE]
  /\ actions = [s \in Spawns |-> "inherited"]
  /\ failed = [s \in Spawns |-> "none"]
  /\ report = [s \in Spawns |-> "none"]
-----------------------------------------------------------------------------
(* The parent. *)

Go(s, to) == ppc' = [ppc EXCEPT ![s] = to]

Return(s, r) ==
  /\ Go(s, "returned")
  /\ result' = [result EXCEPT ![s] = r]

CloseFd(s, e) == pfds' = pfds \ {<<e, s>>}

\* Slip: forkChild does not lock its goroutine to the thread.
Pinned_Not(s) == FALSE

\* runtime.LockOSThread, for the duration of forkChild.
Pinned(s) == ppc[s] \in {"block", "clone", "restore"}

\* The Go scheduler moves a goroutine that is not pinned to a free thread.
Migrate(s) ==
  /\ ~Pinned(s)
  /\ ppc[s] # "returned"
  /\ \E t \in Threads :
       /\ \A u \in Spawns : ppc[u] # "returned" => thread[u] # t
       /\ thread' = [thread EXCEPT ![s] = t]
  /\ UNCHANGED <<parent, blocked, saved, pfds, child>>

\* Bad attributes, no raw syscalls, or a string with a NUL byte.
Refuse(s) ==
  /\ ppc[s] = "call"
  /\ Return(s, "errno")
  /\ UNCHANGED <<got, masks, pfds, child>>

Accept(s) ==
  /\ ppc[s] = "call"
  /\ Go(s, "pipe")
  /\ UNCHANGED <<result, got, masks, pfds, child>>

\* Pipe2(O_CLOEXEC)
Pipe2(s) ==
  /\ ppc[s] = "pipe"
  /\ \/ /\ pfds' = pfds \cup {<<"r", s>>, <<"w", s>>}
        /\ Go(s, "dup")
        /\ UNCHANGED result
     \/ /\ Return(s, "errno")
        /\ UNCHANGED pfds
  /\ UNCHANGED <<got, masks, child>>

\* errFd, err := fcntlDupFd(w, maxSpawnFiles*2)
DupErrFd(s) ==
  /\ ppc[s] = "dup"
  /\ \/ pfds' = pfds \cup {<<"err", s>>}
     \/ UNCHANGED pfds
  /\ Go(s, "closeW")
  /\ UNCHANGED <<result, got, masks, child>>

\* Slip: the error return leaves the read end open.
CloseW_Leaks(s) ==
  /\ ppc[s] = "closeW"
  /\ CloseFd(s, "w")
  /\ IF <<"err", s>> \in pfds
     THEN Go(s, "block") /\ UNCHANGED result
     ELSE Return(s, "errno")
  /\ UNCHANGED <<got, masks, child>>

\* _ = Close(w), then the test of fcntlDupFd's error.
CloseW(s) ==
  /\ ppc[s] = "closeW"
  /\ CloseFd(s, "w")
  /\ Go(s, IF <<"err", s>> \in pfds THEN "block" ELSE "abort")
  /\ UNCHANGED <<result, got, masks, child>>

\* Slip: the error of rt_sigprocmask is ignored.
Block_ErrorIgnored(s) ==
  /\ ppc[s] = "block"
  /\ \/ /\ saved' = [saved EXCEPT ![s] = thread[s] \in blocked]
        /\ blocked' = blocked \cup {thread[s]}
     \/ UNCHANGED <<saved, blocked>>
  /\ Go(s, "clone")
  /\ UNCHANGED <<result, got, thread, pfds, child>>

\* rt_sigprocmask(SIG_SETMASK, all, old), on the current thread.
Block(s) ==
  /\ ppc[s] = "block"
  /\ \/ /\ saved' = [saved EXCEPT ![s] = thread[s] \in blocked]
        /\ blocked' = blocked \cup {thread[s]}
        /\ Go(s, "clone")
     \/ /\ Go(s, "closeErr")
        /\ UNCHANGED <<saved, blocked>>
  /\ UNCHANGED <<result, got, thread, pfds, child>>

\* The write ends a fork at this moment copies.
OpenWriteEnds == {t \in Spawns : {<<"w", t>>, <<"err", t>>} \cap pfds # {}}

\* clone(SIGCHLD): the child has a copy of the table and of the mask.
Clone(s) ==
  /\ ppc[s] = "clone"
  /\ \/ /\ cpc' = [cpc EXCEPT ![s] = "files"]
        /\ holds' = [holds EXCEPT ![s] = OpenWriteEnds]
        /\ cmask' = [cmask EXCEPT ![s] = thread[s] \in blocked]
     \/ UNCHANGED <<cpc, holds, cmask>>
  /\ Go(s, "restore")
  /\ UNCHANGED <<result, got, masks, pfds, actions, failed, report>>

\* rt_sigprocmask(SIG_SETMASK, old), after the fork or its failure.
Restore(s) ==
  /\ ppc[s] = "restore"
  /\ blocked' = IF saved[s] THEN blocked \cup {thread[s]}
                            ELSE blocked \ {thread[s]}
  /\ Go(s, "closeErr")
  /\ UNCHANGED <<result, got, thread, saved, pfds, child>>

\* _ = Close(errFd), then the test of the fork's error.
CloseErr(s) ==
  /\ ppc[s] = "closeErr"
  /\ CloseFd(s, "err")
  /\ Go(s, IF cpc[s] = "none" THEN "abort" ELSE "read")
  /\ UNCHANGED <<result, got, masks, child>>

\* _ = Close(r); return -1, err
Abort(s) ==
  /\ ppc[s] = "abort"
  /\ CloseFd(s, "r")
  /\ Return(s, "errno")
  /\ UNCHANGED <<got, masks, child>>

\* Somebody still has the pipe's write end open.
HasWriter(s) ==
  \/ {<<"w", s>>, <<"err", s>>} \cap pfds # {}
  \/ \E c \in Spawns : s \in holds[c]

\* Slip: the two words of the report are read in the wrong order.
Read_Swapped(s) ==
  /\ ppc[s] = "read"
  /\ report[s] # "none" \/ ~HasWriter(s)
  /\ got' = [got EXCEPT ![s] = IF report[s] = "none" THEN "none" ELSE "errno"]
  /\ Go(s, "closeR")
  /\ UNCHANGED <<result, masks, pfds, child>>

\* Read(r, report) returns the report, or end of file when no writer is
\* left.  (The 16 bytes are one atomic pipe write.)
Read(s) ==
  /\ ppc[s] = "read"
  /\ report[s] # "none" \/ ~HasWriter(s)
  /\ got' = [got EXCEPT ![s] = report[s]]
  /\ Go(s, "closeR")
  /\ UNCHANGED <<result, masks, pfds, child>>

\* Slip: the read end is closed and the answer is the pid, whatever was read.
CloseR_IgnoresReport(s) ==
  /\ ppc[s] = "closeR"
  /\ CloseFd(s, "r")
  /\ Return(s, "pid")
  /\ UNCHANGED <<got, masks, child>>

\* _ = Close(r); end of file: return pid, nil.
CloseR(s) ==
  /\ ppc[s] = "closeR"
  /\ CloseFd(s, "r")
  /\ IF got[s] = "none" THEN Return(s, "pid")
                        ELSE Go(s, "wait") /\ UNCHANGED result
  /\ UNCHANGED <<got, masks, child>>

\* Wait4(pid) blocks until the child has exited; return the SpawnError.
Wait4(s) ==
  /\ ppc[s] = "wait"
  /\ cpc[s] = "zombie"
  /\ cpc' = [cpc EXCEPT ![s] = "reaped"]
  /\ Return(s, got[s])
  /\ UNCHANGED <<got, masks, pfds, holds, cmask, actions, failed, report>>
-----------------------------------------------------------------------------
(* The child: spawnChildMain and spawnChildRun. *)

ChildGo(s, to) == cpc' = [cpc EXCEPT ![s] = to]

\* What spawnChildRun does after each step.
After ==
  [files |-> "sweep", setsid |-> "ctty", ctty |-> "chdir", chdir |-> "sigs"]

\* A step that succeeds, or that attr did not ask for.
ChildPasses(s) ==
  /\ cpc[s] \in Steps \ {"execve"}
  /\ ChildGo(s, After[cpc[s]])
  /\ UNCHANGED <<parent, masks, pfds, holds, cmask, actions, failed, report>>

\* return step, e
ChildFails(s) ==
  /\ cpc[s] \in Steps
  /\ cpc[s] \in {"files", "execve"} \cup Wants[s]
  /\ failed' = [failed EXCEPT ![s] = cpc[s]]
  /\ ChildGo(s, "report")
  /\ UNCHANGED <<parent, masks, pfds, holds, cmask, actions, report>>

\* close_range on both sides of errFd; an old kernel does not have it, and
\* its error is ignored.
ChildSweeps(s) ==
  /\ cpc[s] = "sweep"
  /\ \E done \in Sweeps :
       holds' = [holds EXCEPT ![s] = IF done THEN @ \cap {s} ELSE @]
  /\ ChildGo(s, "setsid")
  /\ UNCHANGED <<parent, masks, pfds, cmask, actions, failed, report>>

\* rt_sigaction(SIG_DFL) for every signal: all of it under a full mask.
ChildResetsSignals(s) ==
  /\ cpc[s] = "sigs"
  /\ actions' = [actions EXCEPT ![s] = "default"]
  /\ ChildGo(s, "unmask")
  /\ UNCHANGED <<parent, masks, pfds, holds, cmask, failed, report>>

\* rt_sigprocmask(SIG_SETMASK, empty set)
ChildUnmasks(s) ==
  /\ cpc[s] = "unmask"
  /\ cmask' = [cmask EXCEPT ![s] = FALSE]
  /\ ChildGo(s, "execve")
  /\ UNCHANGED <<parent, masks, pfds, holds, actions, failed, report>>

\* Slip: the write ends are not close-on-exec.
ChildExecs_KeepsPipe(s) ==
  /\ cpc[s] = "execve"
  /\ ChildGo(s, "running")
  /\ UNCHANGED <<parent, masks, pfds, holds, cmask, actions, failed, report>>

\* A successful execve closes every error pipe the child still holds.
ChildExecs(s) ==
  /\ cpc[s] = "execve"
  /\ holds' = [holds EXCEPT ![s] = {}]
  /\ ChildGo(s, "running")
  /\ UNCHANGED <<parent, masks, pfds, cmask, actions, failed, report>>

\* write(errFd, report)
ChildReports(s) ==
  /\ cpc[s] = "report"
  /\ report' = [report EXCEPT ![s] = failed[s]]
  /\ ChildGo(s, "exit")
  /\ UNCHANGED <<parent, masks, pfds, holds, cmask, actions, failed>>

\* A process that ends has no descriptors left.
Die(s) ==
  /\ ChildGo(s, "zombie")
  /\ holds' = [holds EXCEPT ![s] = {}]
  /\ UNCHANGED <<parent, masks, pfds, cmask, actions, failed, report>>

\* exit_group(253)
ChildExits(s) == cpc[s] = "exit" /\ Die(s)

\* SIGKILL at any time; any signal once the mask is empty; the program's
\* own exit.
ChildEnds(s) == cpc[s] \in BeforeExec \cup {"running"} /\ Die(s)

\* "The child is not waited for; use Wait4": the caller reaps it.
CallerReaps(s) ==
  /\ result[s] = "pid"
  /\ cpc[s] = "zombie"
  /\ ChildGo(s, "reaped")
  /\ UNCHANGED <<parent, masks, pfds, holds, cmask, actions, failed, report>>
-----------------------------------------------------------------------------
ParentStep(s) ==
  \/ Pipe2(s) \/ DupErrFd(s) \/ CloseW(s)
  \/ Block(s) \/ Clone(s) \/ Restore(s)
  \/ CloseErr(s) \/ Abort(s) \/ Read(s) \/ CloseR(s) \/ Wait4(s)

ChildStep(s) ==
  \/ ChildPasses(s) \/ ChildFails(s) \/ ChildSweeps(s)
  \/ ChildResetsSignals(s) \/ ChildUnmasks(s) \/ ChildExecs(s)
  \/ ChildReports(s) \/ ChildExits(s)

\* Every call has returned and every child has been reaped.
Quiescent ==
  \A s \in Spawns : ppc[s] = "returned" /\ cpc[s] \in {"none", "reaped"}

Next ==
  \/ \E s \in Spawns :
       \/ Accept(s) \/ Refuse(s) \/ ParentStep(s) \/ Migrate(s)
       \/ ChildStep(s) \/ ChildEnds(s) \/ CallerReaps(s)
  \/ Quiescent /\ UNCHANGED vars

SafeSpec == Init /\ [][Next]_vars

\* The kernel runs the child and none of its calls hangs; the goroutine runs
\* whenever its call can return.  Nobody has to call Spawn, a started
\* program need not end and need not be reaped.
Fairness ==
  \A s \in Spawns : WF_vars(ParentStep(s)) /\ WF_vars(ChildStep(s))

Spec == SafeSpec /\ Fairness
-----------------------------------------------------------------------------
(* Properties. *)

\* However Spawn returns, none of its descriptors is left open; if it
\* returns an error, no child is left either, running or unreaped
\* (spawn.go:154-211).
ReturnsClean ==
  \A s \in Spawns : ppc[s] = "returned" =>
    /\ \A e \in Ends : <<e, s>> \notin pfds
    /\ result[s] # "pid" => cpc[s] \in {"none", "reaped"}

\* The mask of a thread is full only while a goroutine inside forkChild is
\* on it: no error path and no migration leaves a thread of the Go runtime
\* deaf (spawn.go:243-245, 281, 287).
MaskRestored ==
  \A t \in blocked : \E s \in Spawns :
    thread[s] = t /\ ppc[s] \in {"clone", "restore"}

\* "no handler runs in the child before it has exec'd" (threading.md:75): at
\* every point until the exec either the mask keeps signals out or no
\* inherited handler is left, although the mask is opened before the exec;
\* and the program inherits neither a mask nor ignored signals
\* (spawn.go:262-265, 386-395).
ChildSignals ==
  \A s \in Spawns :
    /\ cpc[s] \in BeforeExec => cmask[s] \/ actions[s] = "default"
    /\ cpc[s] = "running" => ~cmask[s] /\ actions[s] = "default"

\* A report that was written reaches the caller as that very step, and a
\* program that runs is never answered by an error (spawn.go:196-210).
AnswerMatchesChild ==
  \A s \in Spawns : ppc[s] = "returned" =>
    /\ report[s] # "none" => result[s] = report[s]
    /\ cpc[s] = "running" => result[s] = "pid"

\* Every Spawn returns, also while the children of other Spawns hold copies
\* of its error pipe, and although a started program may run for ever
\* (spawn.go:188-211).  Files may not list a closed number: a program that was
\* given the error pipe in its place keeps Spawn in Read until it ends.
EverySpawnReturns ==
  \A s \in Spawns : ppc[s] = "pipe" ~> ppc[s] = "returned"
-----------------------------------------------------------------------------
(* The inductive invariant behind the theorems of SpawnProofs. *)

\* Which ends of its pipe a Spawn has open at each point.
OpenEnds ==
  \A s \in Spawns :
    /\ <<"r", s>> \in pfds =>
         ppc[s] \notin {"call", "pipe", "wait", "returned"}
    /\ <<"w", s>> \in pfds => ppc[s] \in {"dup", "closeW"}
    /\ <<"err", s>> \in pfds =>
         ppc[s] \in {"closeW", "block", "clone", "restore", "closeErr"}
    /\ ppc[s] \in {"block", "clone"} => <<"err", s>> \in pfds

\* No two goroutines share a thread, and the thread of one that has blocked
\* the signals, and of no other, has them blocked and not before.
OwnThread ==
  /\ \A s, t \in Spawns :
       /\ ppc[s] # "returned" /\ ppc[t] # "returned"
       /\ thread[s] = thread[t]
       => s = t
  /\ \A s \in Spawns : ppc[s] \in {"clone", "restore"} =>
       thread[s] \in blocked /\ ~saved[s]
  /\ MaskRestored

\* The child exists from clone on, and is gone only once its parent knows.
ChildExists ==
  \A s \in Spawns :
    /\ ppc[s] \in {"call", "pipe", "dup", "closeW", "block", "clone", "abort"}
         => cpc[s] = "none"
    /\ ppc[s] \in {"read", "closeR", "wait"} => cpc[s] # "none"
    /\ result[s] = "none" <=> ppc[s] # "returned"
    /\ cpc[s] = "reaped" => ppc[s] = "returned"
    /\ result[s] = "errno" => cpc[s] = "none"
    /\ result[s] \in Steps => cpc[s] = "reaped"
    /\ result[s] = "pid" => cpc[s] # "none"

\* A child that has not exec'd or died holds its own pipe, so that the end
\* of file comes after the report if there is one.
PipeHeld ==
  \A s \in Spawns :
    /\ cpc[s] \in BeforeExec => s \in holds[s]
    /\ report[s] # "none" => cpc[s] \in {"exit", "zombie", "reaped"}
    /\ ppc[s] \in {"closeR", "wait", "returned"} /\ cpc[s] # "none" =>
         /\ got[s] = report[s]
         /\ got[s] = "none" => cpc[s] \notin BeforeExec
    /\ ppc[s] = "wait" => got[s] # "none"
    /\ result[s] = "pid" => got[s] = "none"
    /\ result[s] \in Steps => result[s] = got[s]

\* The mask and the actions of a child at each point.
SignalsAt ==
  \A s \in Spawns :
    /\ cpc[s] \in {"files", "sweep", "setsid", "ctty", "chdir", "sigs"} =>
         cmask[s]
    /\ cpc[s] \in {"unmask", "execve", "running"} => actions[s] = "default"
    /\ cpc[s] \in {"execve", "running"} => ~cmask[s]
    /\ cpc[s] \in {"report", "exit"} => cmask[s] \/ actions[s] = "default"

\* Everything that the steps of the parent and of the child rely on about
\* each other (spawn.go:154-211, 243-290, 310-400).
SpawnInv ==
  TypeOK /\ OpenEnds /\ OwnThread /\ ChildExists /\ PipeHeld /\ SignalsAt
=============================================================================
