------------------------------ MODULE Handles ------------------------------
(***************************************************************************)
(* The operations of go/pty.go, go/net.go and c/src/net.c that hand out    *)
(* descriptors: OpenPTY, StartPTY, DialUnix, ListenUnix and ws_dial_unix.  *)
(* Each makes several calls, any of which can fail, and closes by hand,    *)
(* not with defer, what it had open.                                       *)
(*                                                                         *)
(* One operation runs; Sessions and VfsOps add operations to the same      *)
(* control.  Spawn is one call here and has a module of its own.           *)
(***************************************************************************)

VARIABLES
  op,       \* the operation
  pc,       \* the call it is about to make
  open,     \* descriptors the operation has open
  result    \* "none" until it returns: "nil" or "err"

handleVars == <<op, pc, open, result>>

PtyOps == {"OpenPTY", "StartPTY"}
SocketOps == {"DialUnix", "ListenUnix", "WsDialUnix"}
HandleOps == PtyOps \cup SocketOps

HandlePcs == {"ptmx", "unlock", "ptn", "winsize", "slave", "spawn",
              "length", "socket", "connect", "bind", "listen"}
HandleFds == {"master", "slave", "socket"}

\* The first call of each operation.
FirstCall == IF op \in SocketOps THEN "length" ELSE "ptmx"

\* What a successful return leaves to the caller.
Handed == IF op \in PtyOps THEN {"master"} ELSE {"socket"}

Go(to) == pc' = to /\ UNCHANGED result

Done(r) == pc' = "done" /\ result' = r
-----------------------------------------------------------------------------
OpenPtmx ==
  /\ pc = "ptmx"
  /\ open' = open \cup {"master"}
  /\ Go("unlock")
  /\ UNCHANGED op

\* Ioctl(TIOCSPTLCK).
Unlock == pc = "unlock" /\ Go("ptn") /\ UNCHANGED <<op, open>>

\* Ioctl(TIOCGPTN): the end of OpenPTY, which StartPTY begins with.
GetPtn ==
  /\ pc = "ptn"
  /\ IF op = "OpenPTY" THEN Done("nil") ELSE Go("winsize")
  /\ UNCHANGED <<op, open>>

SetWinsize == pc = "winsize" /\ Go("slave") /\ UNCHANGED <<op, open>>

OpenSlave ==
  /\ pc = "slave"
  /\ open' = open \cup {"slave"}
  /\ Go("spawn")
  /\ UNCHANGED op

\* Slip: the slave is closed only when Spawn failed.
SpawnChild_KeepsSlave ==
  /\ pc = "spawn"
  /\ IF op = "StartPTY" THEN Done("nil") ELSE Go("started")
  /\ UNCHANGED <<op, open>>

\* The child has the slave three times; the parent's is closed whatever
\* Spawn answered.  A session goes on from here.
SpawnChild ==
  /\ pc = "spawn"
  /\ open' = open \ {"slave"}
  /\ IF op = "StartPTY" THEN Done("nil") ELSE Go("started")
  /\ UNCHANGED op

\* len(uPath) is neither zero (which C lets pass) nor too long for sun_path.
CheckLength == pc = "length" /\ Go("socket") /\ UNCHANGED <<op, open>>

OpenSocket ==
  /\ pc = "socket"
  /\ open' = open \cup {"socket"}
  /\ Go(IF op = "ListenUnix" THEN "bind" ELSE "connect")
  /\ UNCHANGED op

Connect == pc = "connect" /\ Done("nil") /\ UNCHANGED <<op, open>>

Bind == pc = "bind" /\ Go("listen") /\ UNCHANGED <<op, open>>

Listen == pc = "listen" /\ Done("nil") /\ UNCHANGED <<op, open>>

\* What the error path of each call closes.  Those before the first
\* descriptor close nothing; when Spawn failed both ends are closed.
ClosedOnError ==
  CASE pc \in {"unlock", "ptn", "winsize", "slave"} -> {"master"}
    [] pc = "spawn" -> {"slave", "master"}
    [] pc \in {"connect", "bind", "listen"} -> {"socket"}
    [] OTHER -> {}

\* A call fails and the operation returns its error.
HandleFails ==
  /\ pc \in HandlePcs
  /\ open' = open \ ClosedOnError
  /\ Done("err")
  /\ UNCHANGED op

HandleProceeds ==
  \/ OpenPtmx \/ Unlock \/ GetPtn \/ SetWinsize \/ OpenSlave \/ SpawnChild
  \/ CheckLength \/ OpenSocket \/ Connect \/ Bind \/ Listen
=============================================================================
