------------------------------- MODULE Retry -------------------------------
(***************************************************************************)
(* One system call, from the wrapper to its return: the gate of Syscall6,  *)
(* the trap, retryEINTR of go/winescape.go and the wrappers around it, the *)
(* loop of Sleep in go/tty_proc.go, the two that must not be retried,      *)
(* Close in go/fs.go and Connect in go/net.go, and the wrappers of c/src,  *)
(* which have neither gate nor retry.  Poll is given a limit here.         *)
(*                                                                         *)
(* The gate is Available's answer.  While some goroutine runs the          *)
(* self-test it lets every call through, the test's own and the others',   *)
(* and a call may then reach another one of the kernel: nothing is said of *)
(* what follows.  Detect models how Available comes to its answer.         *)
(*                                                                         *)
(* The Go runtime's SIGURG can arrive at any moment and any number of      *)
(* times.  One goroutine makes one call; a second opens files meanwhile    *)
(* and is given the lowest free number.                                    *)
(***************************************************************************)
EXTENDS Dispatch

CONSTANTS
  Duration,   \* ticks that a timed call is asked for
  Supply      \* bound: items (bytes, connections, exits) that may arrive

ASSUME RetryAssumption == Duration \in Nat \ {0} /\ Supply \in Nat \ {0}

VARIABLES
  op,       \* the call
  host,     \* the system whose kernel is reached: "windows" is native Windows
  os, arch, \* the target whose numbers the binary was built with
  gate,     \* what Available answers: "open", "shut", or "testing"
  bad,      \* an argument is one the wrapper turns away (NUL, empty mapping)
  pc,       \* "user", "kernel", "leaving" (Close, after the release), "done",
            \* "stray" (the kernel took the number for another call)
  trap,     \* what the kernel was asked, <<>> before
  req,      \* the Timespec passed to the kernel
  timer,    \* the kernel's own count
  waited,   \* ticks spent in the kernel, over all attempts
  ready,    \* items waiting to be taken
  taken,    \* items taken out by the kernel on behalf of the call
  arrived,  \* items that have arrived
  owner,    \* who owns the descriptor's number: "caller", "other", "nobody"
  began,    \* connection attempts begun
  answer,   \* the kernel's last answer, negative if the call failed
  result,   \* "none", "nil", "timeout", "error", "invalid", "unavailable"
  errno     \* the error number the caller is given

build == <<host, os, arch, gate, bad>>
items == <<ready, taken, arrived>>
vars == <<op, build, pc, trap, req, timer, waited, items, owner, began,
          answer, result, errno>>

\* Calls that sleep, and those that wait for an item and take it: bytes or
\* room for them, the other end of a FIFO, a lock, a connection, an exit.
Sleeps == {"Sleep", "Nanosleep", "ClockNanosleep", "ws_nanosleep",
           "ws_clock_nanosleep"}
Timed == Sleeps \cup {"Poll"}
FileCalls == {"Openat", "Open", "Read", "Write", "Pread", "Pwrite", "OpenFile",
              "FileRead", "FileWrite", "FileReadAt", "FileWriteAt"}
Taking == FileCalls \cup {"Flock", "Accept4", "Wait4"} \cup
          {"ws_open", "ws_read", "ws_write", "ws_flock", "ws_accept4",
           "ws_wait4"}
Closing == {"Close", "FileClose", "ws_close"}
Connecting == {"Connect", "ws_connect"}
Plain == DOMAIN Calls \ (Timed \cup Taking \cup Closing \cup Connecting)

\* Those inside retryEINTR, or with Sleep's loop around them.
Retried == FileCalls \cup {"Flock", "Accept4", "Wait4", "Poll", "Sleep"}

InC == op \in DOMAIN CCalls

\* The first choice that has a number, or else the last.
Choice ==
  LET c == Calls[op]
  IN  IF Number(os, arch, c[1].sys) # Zero THEN c[1] ELSE c[Len(c)]

\* What selfTest calls and checks the effect of; a call that is not the one
\* meant does not have it.
SelfTested == {"openat", "write", "close", "read", "unlinkat"}

\* Slip: the host's name is enough.
SelfTestPasses_Untested == host = "linux"

SelfTestPasses ==
  /\ host = "linux"
  /\ \A s \in SelfTested : Served(host, arch, Number(os, arch, s)) = s

EINTR == 4
ERESTART == 516

\* The type invariant.
TypeOK ==
  /\ op \in DOMAIN Calls
  /\ host \in OSes \cup {"windows"}
  /\ os \in OSes \cup {"fallback"}
  /\ arch \in Arches
  /\ gate \in {"open", "shut", "testing"}
  /\ bad \in BOOLEAN
  /\ pc \in {"user", "kernel", "leaving", "done", "stray"}
  /\ req \in 0 .. Duration
  /\ timer \in 0 .. Duration
  /\ waited \in 0 .. Duration + 1
  /\ ready \in 0 .. Supply /\ taken \in 0 .. Supply /\ arrived \in 0 .. Supply
  /\ owner \in {"caller", "other", "nobody"}
  /\ began \in 0 .. 2
  /\ answer \in Int
  /\ result \in {"none", "nil", "timeout", "error", "invalid", "unavailable"}
  /\ errno \in Nat

\* A binary built for one architecture runs on that architecture; the C
\* library is compiled for its host, and for amd64 only.  A self-test begins
\* once the host is known to be Linux, and may also fail for lack of a /tmp.
Init ==
  /\ op \in DOMAIN Calls
  /\ host \in OSes \cup {"windows"}
  /\ os \in OSes \cup {"fallback"}
  /\ arch \in Arches
  /\ InC => /\ os = host /\ arch = "amd64"
            /\ HasMacro(os, arch, Calls[op][1].sys)
  /\ gate \in {"open", "shut", "testing"}
  /\ gate = "testing" => host = "linux"
  /\ gate = "open" => SelfTestPasses
  /\ bad \in BOOLEAN
  /\ pc = "user"
  /\ trap = <<>>
  /\ req = Duration /\ timer = 0 /\ waited = 0
  /\ ready = 0 /\ taken = 0 /\ arrived = 0
  /\ owner = "caller"
  /\ began = 0
  /\ answer = 0 /\ result = "none" /\ errno = 0
-----------------------------------------------------------------------------
(* The kernel and the rest of the process. *)

Arrive ==
  /\ op \in Taking \cup {"Poll"}
  /\ arrived < Supply
  /\ arrived' = arrived + 1
  /\ ready' = ready + 1
  /\ UNCHANGED <<op, build, pc, trap, req, timer, waited, taken, owner, began,
                 answer, result, errno>>

\* Another goroutine opens a file and is given the number.
OtherOpens ==
  /\ owner = "nobody"
  /\ owner' = "other"
  /\ UNCHANGED <<op, build, pc, trap, req, timer, waited, items, began,
                 answer, result, errno>>

\* The self-test is over.
TestEnds ==
  /\ gate = "testing"
  /\ gate' \in {"shut"} \cup {g \in {"open"} : SelfTestPasses}
  /\ UNCHANGED <<op, host, os, arch, bad, pc, trap, req, timer, waited, items,
                 owner, began, answer, result, errno>>

\* Time passes while the call sleeps.  (waited saturates.)
Tick ==
  /\ pc = "kernel"
  /\ op \in Timed
  /\ timer > 0
  /\ timer' = timer - 1
  /\ waited' = IF waited > Duration THEN waited ELSE waited + 1
  /\ UNCHANGED <<op, build, pc, trap, req, items, owner, began, answer,
                 result, errno>>
-----------------------------------------------------------------------------
(* The way in. *)

\* The wrappers that look for their number before they use it.
Guarded == {"Renameat2", "RenameNoReplace", "Poll"}

\* Those that drop the gate's error, and return the 0 that comes with it.
Silent == {"Getuid", "Getgid", "Geteuid", "Getegid", "Getppid"}

\* The wrapper or the gate answers without a trap.
TurnedAway ==
  IF InC THEN "none"
  ELSE IF bad /\ op = "Munmap" THEN "nil"
  ELSE IF op \in Guarded /\ Number(os, arch, Choice.sys) = Zero
  THEN "unavailable"
  ELSE IF bad /\ \E k \in DOMAIN Choice.args : Choice.args[k] = "path"
  THEN "invalid"
  ELSE IF gate # "shut" THEN "none"
  ELSE IF op \in Silent THEN "nil" ELSE "unavailable"

Refused ==
  /\ pc = "user"
  /\ TurnedAway # "none"
  /\ pc' = "done"
  /\ result' = TurnedAway
  /\ UNCHANGED <<op, build, trap, req, timer, waited, items, owner, began,
                 answer, errno>>

Registers ==
  LET A == Six(Choice.args)
  IN  IF InC THEN CAmd64(A)
      ELSE IF arch = "amd64" THEN GoAmd64(A) ELSE GoArm64(A)

\* What the kernel takes the trap for.
Meant == Served(host, arch, Number(os, arch, Choice.sys))

\* The trap.  close releases the number at once; connect begins.
Enter ==
  /\ pc = "user"
  /\ TurnedAway = "none"
  /\ trap' = [sys |-> Meant, tested |-> gate = "open",
              args |-> [k \in 1 .. 6 |-> Registers[KernelOrder(arch)[k]]]]
  /\ IF Meant # Choice.sys
     THEN pc' = "stray" /\ UNCHANGED <<timer, owner, began>>
     ELSE /\ pc' = IF op \in Closing THEN "leaving" ELSE "kernel"
          /\ timer' = IF op \in Timed THEN req ELSE 0
          /\ owner' = IF op \in Closing THEN "nobody" ELSE owner
          /\ began' = IF op \in Connecting /\ began < 2 THEN began + 1
                      ELSE began
  /\ UNCHANGED <<op, build, req, waited, items, answer, result, errno>>
-----------------------------------------------------------------------------
(* The way out. *)

Decoded(a) ==
  LET m == Answered(host, a)
  IN  IF InC /\ host = "freebsd" THEN DecodeCarry(m) ELSE Decode(m)

\* The error number reaches the wrapper: a C call gets it only if the pointer
\* that the trampoline reads is the one it was passed.
Reported == InC => CAmd64(Six(Choice.args)).err_out = "err_out"

\* The kernel answers a, and the call returns what the trampoline makes of it.
Return(a) ==
  /\ pc' = "done"
  /\ answer' = a
  /\ errno' = IF Reported THEN Decoded(a).err ELSE 0
  /\ result' = CASE Decoded(a).err # 0 -> "error"
                 [] op = "Poll" /\ Decoded(a).r1 = 0 -> "timeout"
                 [] OTHER -> "nil"

\* The loop goes round.
Again ==
  /\ pc' = "user"
  /\ UNCHANGED <<answer, result, errno>>

\* EINTR or ERESTART with no effect so far.  rest is what the next attempt
\* is given; a call that is not retried returns.
InterruptedWith(rest) ==
  /\ pc = "kernel"
  /\ op \in Timed \cup Taking
  /\ op \in Timed => timer > 0
  /\ op \in Taking => ready = 0
  /\ IF op \in Retried THEN Again
                       ELSE \E e \in {EINTR, ERESTART} : Return(-e)
  /\ req' = IF op \in Timed THEN rest ELSE req
  /\ UNCHANGED <<op, build, trap, timer, waited, items, owner, began>>

\* Slip: the time that is left is not passed on.
Interrupted_ForgetsRest == InterruptedWith(req)

\* Sleep has rem in place of req; the kernel has updated ppoll's Timespec.
Interrupted == InterruptedWith(timer)

\* Slip: Poll's answer 0 is taken for an interruption.
TimeIsUp_PollsAgain ==
  /\ pc = "kernel"
  /\ op \in Timed
  /\ timer = 0
  /\ IF op = "Poll" THEN Again ELSE Return(0)
  /\ req' = timer
  /\ UNCHANGED <<op, build, trap, timer, waited, items, owner, began>>

TimeIsUp ==
  /\ pc = "kernel"
  /\ op \in Timed
  /\ timer = 0
  /\ Return(0)
  /\ UNCHANGED <<op, build, trap, req, timer, waited, items, owner, began>>

\* ppoll finds a descriptor ready.
PollReady ==
  /\ pc = "kernel"
  /\ op = "Poll"
  /\ ready > 0
  /\ Return(1)
  /\ UNCHANGED <<op, build, trap, req, timer, waited, items, owner, began>>

\* Slip: the call is made again although an item was taken.
Take_Again ==
  /\ pc = "kernel"
  /\ op \in Taking
  /\ ready > 0
  /\ ready' = ready - 1
  /\ taken' = taken + 1
  /\ Return(1) \/ Again
  /\ UNCHANGED <<op, build, trap, req, timer, waited, arrived, owner, began>>

\* read, accept4 and wait4 take one item and return it.
Take ==
  /\ pc = "kernel"
  /\ op \in Taking
  /\ ready > 0
  /\ ready' = ready - 1
  /\ taken' = taken + 1
  /\ Return(1)
  /\ UNCHANGED <<op, build, trap, req, timer, waited, arrived, owner, began>>

\* Slip: Close is wrapped in retryEINTR.
CloseReturns_Retried ==
  /\ pc = "leaving"
  /\ Return(0) \/ Again
  /\ UNCHANGED <<op, build, trap, req, timer, waited, items, owner, began>>

\* A signal during close shows only after the release; no retry.
CloseReturns ==
  /\ pc = "leaving"
  /\ \E a \in {0, -EINTR} : Return(a)
  /\ UNCHANGED <<op, build, trap, req, timer, waited, items, owner, began>>

\* Connected, or interrupted while the attempt goes on; no retry.
ConnectReturns ==
  /\ pc = "kernel"
  /\ op \in Connecting
  /\ \E a \in {0, -EINTR} : Return(a)
  /\ UNCHANGED <<op, build, trap, req, timer, waited, items, owner, began>>

\* The calls that no kernel lets fail.
NeverFail == {"getpid", "getuid", "getgid", "geteuid", "getegid", "getppid"}

\* Any other call succeeds, with a small or a large value, or fails with the
\* least or the greatest error number that Linux has.
PlainReturns ==
  /\ pc = "kernel"
  /\ op \in Plain
  /\ \E a \in {0, 8192} \cup (IF Choice.sys \in NeverFail THEN {}
                            ELSE {-1, -133}) : Return(a)
  /\ UNCHANGED <<op, build, trap, req, timer, waited, items, owner, began>>

Next ==
  \/ Arrive \/ OtherOpens \/ Tick \/ TestEnds
  \/ Refused \/ Enter \/ Interrupted \/ TimeIsUp \/ PollReady \/ Take
  \/ CloseReturns \/ ConnectReturns \/ PlainReturns
  \/ pc \in {"done", "stray"} /\ UNCHANGED vars

\* The goroutine runs and the kernel completes what it can; time passes in
\* spite of signals that keep interrupting (strong fairness: each one takes
\* the call out of the kernel for a moment).
Fairness ==
  /\ WF_vars(Refused) /\ WF_vars(Enter)
  /\ WF_vars(CloseReturns) /\ WF_vars(ConnectReturns) /\ WF_vars(PlainReturns)
  /\ SF_vars(Tick) /\ SF_vars(TimeIsUp) /\ SF_vars(Take)

Spec == Init /\ [][Next]_vars /\ Fairness
-----------------------------------------------------------------------------
(* Properties. *)

\* Argument k of the call is where the kernel looks for it.
Arrived(k) == trap.args[k] = Six(Choice.args)[k]

\* Once the self-test has passed, and in C, a wrapper that traps has the
\* kernel do the call it is named after, whatever targets the binary's numbers
\* were taken from: the five calls that the test checks tell the tables apart
\* (selftest_windows.go:35-90, winescape.go:95-104).  Every argument is in the
\* place of the parameter it stands for in the kernel's own declaration, of a
\* C call the first three (CArgumentsArrive is about the others).  Calls made
\* while a self-test runs are not covered (detect_windows.go:102-117), nor is
\* one wrong entry in a table that the test does not use.
RightCall ==
  trap # <<>> =>
    /\ trap.tested \/ InC => trap.sys = Choice.sys
    /\ \A k \in DOMAIN Signature(Choice.sys) :
         (InC /\ k > 3) \/ Fits(trap.args[k], Signature(Choice.sys)[k])

\* A call that reports success was made, but for an empty mapping's Munmap and
\* for the five accessors that drop the gate's error (proc.go:4-31).  An error
\* is reported exactly when the kernel failed, by Go with the kernel's number,
\* and an interruption that was retried leaves no trace
\* (trampoline_windows_amd64.s:12-24, winescape.go:99-103,160-168).
KernelsWord ==
  /\ result = "nil" => trap # <<>> \/ op \in Silent \cup {"Munmap"}
  /\ pc = "done" /\ trap # <<>> =>
       /\ result = "error" <=> answer < 0
       /\ ~InC => errno = IF answer < 0 THEN -answer ELSE 0
       /\ op \in Retried => errno \notin {EINTR, ERESTART}

\* However often it is interrupted, Sleep waits as long as it was asked to
\* and no longer, and Poll never beyond its timeout (tty_proc.go:74-95,
\* pty.go:53-60).
WaitsOnce ==
  /\ waited <= Duration
  /\ op \in Sleeps /\ result = "nil" => waited = Duration
  /\ op = "Poll" /\ result = "timeout" => waited = Duration

\* No effect happens twice: what arrived is either waiting still or was
\* given to the caller, once, and connect, which has an effect before it
\* returns, is issued once (winescape.go:150-158, net.go:43-53).
EffectsOnce ==
  /\ arrived = ready + taken
  /\ taken = IF op \in Taking /\ result = "nil" THEN 1 ELSE 0
  /\ began <= 1

\* A descriptor number that was released and given to another goroutine is
\* never closed by the first (winescape.go:155-158).
NoForeignClose == [][owner = "other" => owner' = "other"]_vars

\* Signals alone never keep a call from returning: every call returns, and
\* one that waits for an item does once an item has come, unless the kernel
\* took its number for another call (winescape.go:160-168, tty_proc.go:79-94).
CallReturns ==
  (op \notin Taking \/ arrived > 0) ~> pc \in {"done", "stray"}

\* What c/src/trampoline_linux_amd64.S:12 says of the stack: every argument
\* of a C call arrives, the fourth to the sixth too.
CArgumentsArrive ==
  trap # <<>> /\ InC => \A k \in 1 .. Args(Choice.sys) : Arrived(k)
-----------------------------------------------------------------------------
(* The inductive invariant behind the theorems of RetryProofs. *)

\* Where the call can be, and what is known once a gate was passed.
Control ==
  /\ gate = "testing" => host = "linux"
  /\ gate = "open" => SelfTestPasses
  /\ trap # <<>> /\ ~InC => host = "linux"
  /\ pc \in {"kernel", "leaving"} => trap # <<>>
  /\ pc = "kernel" => op \notin Closing
  /\ pc = "leaving" => op \in Closing
  /\ result = "none" <=> pc # "done"
  /\ InC => /\ os = host /\ arch = "amd64"
            /\ HasMacro(os, arch, Calls[op][1].sys)

\* The time waited and the time still to wait are together what was asked
\* for, in the kernel by its own count and outside by the Timespec.
Waits ==
  /\ op \in Timed =>
       /\ pc = "kernel" => waited + timer = Duration
       /\ pc = "user" => waited + req = Duration
  /\ op \notin Timed => waited = 0

\* The descriptor is the caller's until close, and the connection is begun
\* in the only attempt there is.
OnlyAttempt ==
  /\ owner # "caller" => op \in Closing /\ pc \in {"leaving", "done"}
  /\ began > 0 => op \in Connecting /\ pc \in {"kernel", "done"}

\* Everything a step relies on (winescape.go:94-168, tty_proc.go:74-95).
RetryInv ==
  /\ TypeOK /\ Control /\ Waits /\ OnlyAttempt
  /\ KernelsWord /\ WaitsOnce /\ EffectsOnce
=============================================================================
