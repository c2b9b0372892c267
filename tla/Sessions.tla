------------------------------ MODULE Sessions ------------------------------
(***************************************************************************)
(* The terminal sessions of cmd/test-runner/spawn.go, which use StartPTY   *)
(* as a terminal emulator would: runPTY, and the tests of ^C, of Tcgetpgrp *)
(* and of pipes in place of a terminal.  readPTY collects output until the *)
(* child hangs up, waitPid reaps it, each with a limit.  The child writes, *)
(* closes its terminal and exits when it likes.  What it wrote before it   *)
(* hung up can still be read.                                              *)
(***************************************************************************)
EXTENDS Naturals, Sequences, Handles

CONSTANT MaxLen   \* bound: blocks of output, and of a file

VARIABLES
  child,    \* "none", "runs", "exited", "reaped"
  hungUp,   \* no one has the terminal, or the pipe, open for writing
  src,      \* what the child has written; for the file operations, the source
  buf       \* what was read

sessionVars == <<child, hungUp, src, buf>>

PtySessions == {"runPTY", "Interrupt", "ForegroundGroup"}
SessionOps == PtySessions \cup {"PipeSession"}

SessionPcs == {"pipe2", "spawnPiped", "started", "poll", "readPTY", "kill",
               "waitKilled", "wait", "intr", "pgrp"}

Upto(k) == [b \in 1 .. k |-> b]

\* A return runs the deferred Closes; closing the master hangs the child up.
SessionReturns(r) ==
  /\ Done(r)
  /\ open' = {}
  /\ hungUp' = (hungUp \/ "master" \in open)
-----------------------------------------------------------------------------
(* The child. *)

ChildWrites ==
  /\ op \in SessionOps
  /\ child = "runs" /\ ~hungUp /\ Len(src) < MaxLen
  /\ src' = Upto(Len(src) + 1)
  /\ UNCHANGED <<handleVars, child, hungUp, buf>>

\* It closes its descriptors before it exits, or leaves the pipe to others
\* that close it later.
ChildHangsUp ==
  /\ child \in {"runs", "exited"} /\ ~hungUp
  /\ hungUp' = TRUE
  /\ UNCHANGED <<handleVars, child, src, buf>>

\* The exit of a session's leader hangs the terminal up.
ChildExits ==
  /\ child = "runs"
  /\ child' = "exited"
  /\ hungUp' = (hungUp \/ op \in PtySessions)
  /\ UNCHANGED <<handleVars, src, buf>>
-----------------------------------------------------------------------------
(* The test runner. *)

OpenPipe ==
  /\ pc = "pipe2"
  /\ open' = {"r", "w"}
  /\ Go("spawnPiped")
  /\ UNCHANGED <<op, sessionVars>>

\* Spawn with the pipe as standard output and error; the parent's end is
\* closed whatever Spawn answered.
SpawnPiped ==
  /\ pc = "spawnPiped"
  /\ open' = {"r"}
  /\ Go("started")
  /\ UNCHANGED <<op, sessionVars>>

Started ==
  /\ pc = "started"
  /\ child' = "runs"
  /\ Go(CASE op = "Interrupt" -> "intr"
          [] op = "ForegroundGroup" -> "pgrp"
          [] OTHER -> "poll")
  /\ UNCHANGED <<op, open, hungUp, src, buf>>

\* Poll says that there is output, or that the other side has hung up.
PollAnswers ==
  /\ pc = "poll"
  /\ Len(buf) < Len(src) \/ hungUp
  /\ Go("readPTY")
  /\ UNCHANGED <<op, open, sessionVars>>

\* Output is taken first; then EIO, or nothing with POLLHUP, ends it.
ReadPTY ==
  /\ pc = "readPTY"
  /\ IF Len(buf) < Len(src)
     THEN /\ \E k \in Len(buf) + 1 .. Len(src) : buf' = Upto(k)
          /\ Go("poll")
     ELSE UNCHANGED buf /\ Go("wait")
  /\ UNCHANGED <<op, open, child, hungUp, src>>

\* Slip: runPTY returns the error and leaves the child.
ReadGivesUp_Leaves ==
  /\ pc \in {"poll", "readPTY"}
  /\ SessionReturns("err")
  /\ UNCHANGED <<op, child, src, buf>>

\* Poll or Read fails, or the limit is reached.
ReadGivesUp ==
  /\ pc \in {"poll", "readPTY"}
  /\ IF op = "runPTY" THEN Go("kill") /\ UNCHANGED <<open, hungUp>>
                      ELSE SessionReturns("err")
  /\ UNCHANGED <<op, child, src, buf>>

\* Write(master, ^C): the line discipline interrupts the child, which may go
\* on; a failure is returned.
WriteInterrupt ==
  /\ pc = "intr"
  /\ \/ Go("wait") /\ UNCHANGED <<open, hungUp>>
     \/ SessionReturns("err")
  /\ UNCHANGED <<op, child, src, buf>>

\* Tcgetpgrp's answer is looked at after the child was killed and reaped.
Tcgetpgrp == pc = "pgrp" /\ Go("kill") /\ UNCHANGED <<op, open, sessionVars>>

\* Kill(pid, SIGKILL), its error ignored; the test of ^C does not wait again.
Kill ==
  /\ pc = "kill"
  /\ child' = IF child = "runs" THEN "exited" ELSE child
  /\ IF op = "Interrupt" THEN SessionReturns("err")
     ELSE Go("waitKilled") /\ hungUp' = TRUE /\ UNCHANGED open
  /\ UNCHANGED <<op, src, buf>>

\* Wait4(WNOHANG) finds that the child has exited.  The tests go on to look
\* at the status, the group or the output they have.
WaitPid ==
  /\ pc \in {"wait", "waitKilled"}
  /\ child = "exited"
  /\ child' = "reaped"
  /\ \E r \in {"nil", "err"} :
       /\ op = "runPTY" => (r = "nil" <=> pc = "wait")
       /\ SessionReturns(r)
  /\ UNCHANGED <<op, src, buf>>

\* The limit is reached, or Wait4 fails: of no account to the test of
\* Tcgetpgrp, which has its answer.
WaitGivesUp ==
  /\ pc \in {"wait", "waitKilled"}
  /\ IF op = "Interrupt" THEN Go("kill") /\ UNCHANGED <<open, hungUp>>
     ELSE \E r \in {"nil", "err"} :
            /\ op # "ForegroundGroup" => r = "err"
            /\ SessionReturns(r)
  /\ UNCHANGED <<op, child, src, buf>>

\* Pipe2 or Spawn fails, with the descriptors closed by hand and by defer.
SessionFails ==
  /\ pc \in {"pipe2", "spawnPiped"}
  /\ SessionReturns("err")
  /\ UNCHANGED <<op, child, src, buf>>

ChildSteps == ChildWrites \/ ChildHangsUp \/ ChildExits

SessionProceeds ==
  \/ OpenPipe \/ SpawnPiped \/ Started \/ PollAnswers \/ ReadPTY
  \/ WriteInterrupt \/ Tcgetpgrp \/ Kill \/ WaitPid

SessionGivesUp == ReadGivesUp \/ WaitGivesUp \/ SessionFails
=============================================================================
