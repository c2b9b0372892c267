------------------------------ MODULE ChildFds ------------------------------
(***************************************************************************)
(* How a spawned child rebuilds its descriptor table between fork and      *)
(* exec: spawnChildRun of go/spawn.go, lines 310-365, and the execve that  *)
(* follows.  The child has one thread and a table of its own, so one       *)
(* iteration of a loop, with its single system call, is one action.        *)
(*                                                                         *)
(* An open file is named by the descriptor it had before the fork.         *)
(***************************************************************************)
EXTENDS Integers

CONSTANTS
  MaxFiles,    \* maxSpawnFiles
  Limit,       \* RLIMIT_NOFILE: descriptors are below it
  Sources,     \* what Files may list: descriptors, or negative numbers
  Opened,      \* the descriptors open when Spawn forks, the read end of
               \* the error pipe among them, its write end left out
  CloseRange   \* the kernel has close_range (Linux 5.9)

ASSUME ChildFdsAssumption ==
  /\ MaxFiles \in Nat
  /\ Limit \in Nat
  /\ Sources \subseteq Int
  /\ Opened \subseteq 0 .. Limit - 1
  /\ CloseRange \in BOOLEAN

VARIABLES
  n,        \* a.nfds
  errFd,    \* a.errFd, the write end of the error pipe
  want,     \* SpawnAttr.Files as the caller gave it
  fds,      \* a.fds, which the child overwrites
  pc,       \* the loop the child is in
  i,        \* its loop counter
  next,     \* the next free number above everything in play
  file,     \* the child's table: the open file of each descriptor
  cloexec   \* the descriptors marked close-on-exec

request == <<n, errFd, want>>
vars == <<n, errFd, want, fds, pc, i, next, file, cloexec>>

Fd == 0 .. Limit - 1
NoFile == -1

\* The type invariant: the loops stay inside a.fds, and only open
\* descriptors of the table carry close-on-exec.
TypeOK ==
  /\ n \in 0 .. MaxFiles
  /\ errFd \in Fd
  /\ want \in [0 .. n - 1 -> Sources]
  /\ fds \in [0 .. n - 1 -> Int]
  /\ pc \in {"raise", "move", "fill", "low", "high", "exec",
             "running", "failed"}
  /\ i \in 0 .. n
  /\ next \in Nat
  /\ file \in [Fd -> Fd \cup {NoFile}]
  /\ cloexec \in SUBSET Fd
  /\ \A f \in cloexec : file[f] # NoFile

\* Spawn has opened the error pipe and moved its write end to a descriptor
\* of 2*maxSpawnFiles or more that was free: a number that Files lists too,
\* when it was closed.  The child starts with a copy of the table.
Init ==
  /\ n \in 0 .. MaxFiles
  /\ want \in [0 .. n - 1 -> Sources]
  /\ errFd \in {f \in Fd : f >= 2 * MaxFiles} \ Opened
  /\ fds = want
  /\ pc = "raise"
  /\ i = 0
  /\ next = IF errFd >= n THEN errFd + 1 ELSE n
  /\ file = [f \in Fd |-> IF f \in Opened \cup {errFd} THEN f ELSE NoFile]
  /\ \E flagged \in SUBSET Opened : cloexec = flagged \cup {errFd}
-----------------------------------------------------------------------------
(* System calls on the table. *)

\* dup3 needs an open source and a target below the limit.
CanDup(from, to) == from \in Fd /\ file[from] # NoFile /\ to \in Fd

\* dup3(from, to, 0): no close-on-exec on the copy.
Dup3(from, to) ==
  /\ file' = [file EXCEPT ![to] = file[from]]
  /\ cloexec' = cloexec \ {to}

Close(S) ==
  /\ file' = [f \in Fd |-> IF f \in S THEN NoFile ELSE file[f]]
  /\ cloexec' = cloexec \ S
-----------------------------------------------------------------------------
(* spawnChildRun. *)

EndLoop(from, to) ==
  /\ pc = from
  /\ i = n
  /\ pc' = to
  /\ i' = 0
  /\ UNCHANGED <<request, fds, next, file, cloexec>>

\* return stepFiles, e
Fail ==
  /\ pc' = "failed"
  /\ UNCHANGED <<request, fds, i, next, file, cloexec>>

\* Slip: next is not raised above the sources.
RaiseNext_Not ==
  /\ pc = "raise"
  /\ i < n
  /\ i' = i + 1
  /\ UNCHANGED <<request, fds, pc, next, file, cloexec>>

\* if a.fds[i] >= next { next = a.fds[i] + 1 }
RaiseNext ==
  /\ pc = "raise"
  /\ i < n
  /\ next' = IF fds[i] >= next THEN fds[i] + 1 ELSE next
  /\ i' = i + 1
  /\ UNCHANGED <<request, fds, pc, file, cloexec>>

\* Slip: a source equal to an earlier target is not noticed.
MustMove_OffByOne == fds[i] >= 0 /\ fds[i] < i - 1

\* Slip: every source is moved, also those nothing overwrites.
MustMove_Always == fds[i] >= 0

\* fd >= 0 && fd < i: an earlier target would overwrite the source.
MustMove == fds[i] >= 0 /\ fds[i] < i

MoveAside ==
  /\ pc = "move"
  /\ i < n
  /\ MustMove
  /\ CanDup(fds[i], next)
  /\ Dup3(fds[i], next)
  /\ fds' = [fds EXCEPT ![i] = next]
  /\ next' = next + 1
  /\ i' = i + 1
  /\ UNCHANGED <<request, pc>>

MoveFails ==
  /\ pc = "move"
  /\ i < n
  /\ MustMove
  /\ ~CanDup(fds[i], next)
  /\ Fail

MoveNot ==
  /\ pc = "move"
  /\ i < n
  /\ ~MustMove
  /\ i' = i + 1
  /\ UNCHANGED <<request, fds, pc, next, file, cloexec>>

\* fd < 0: close(i), whatever close answers.
FillClosed ==
  /\ pc = "fill"
  /\ i < n
  /\ fds[i] < 0
  /\ Close({i})
  /\ i' = i + 1
  /\ UNCHANGED <<request, fds, pc, next>>

\* fd == i: fcntl(F_SETFD, 0) clears close-on-exec.
FillSame ==
  /\ pc = "fill"
  /\ i < n
  /\ fds[i] = i
  /\ i \in Fd /\ file[i] # NoFile
  /\ cloexec' = cloexec \ {i}
  /\ i' = i + 1
  /\ UNCHANGED <<request, fds, pc, next, file>>

FillDup ==
  /\ pc = "fill"
  /\ i < n
  /\ fds[i] >= 0 /\ fds[i] # i
  /\ CanDup(fds[i], i)
  /\ Dup3(fds[i], i)
  /\ i' = i + 1
  /\ UNCHANGED <<request, fds, pc, next>>

FillFails ==
  /\ pc = "fill"
  /\ i < n
  /\ fds[i] >= 0
  /\ ~CanDup(fds[i], i)
  /\ Fail

\* close_range(n, errFd - 1), errors ignored.
CloseLow ==
  /\ pc = "low"
  /\ IF CloseRange /\ errFd > n
     THEN Close(n .. errFd - 1)
     ELSE UNCHANGED <<file, cloexec>>
  /\ pc' = "high"
  /\ UNCHANGED <<request, fds, i, next>>

\* Slip: the second range starts at the error pipe.
CloseHigh_OffByOne ==
  /\ pc = "high"
  /\ IF CloseRange
     THEN Close({f \in Fd : f >= errFd})
     ELSE UNCHANGED <<file, cloexec>>
  /\ pc' = "exec"
  /\ UNCHANGED <<request, fds, i, next>>

\* Slip: only one range is closed.
CloseHigh_Forgotten ==
  /\ pc = "high"
  /\ pc' = "exec"
  /\ UNCHANGED <<request, fds, i, next, file, cloexec>>

\* close_range(errFd + 1, 0xffffffff), errors ignored.
CloseHigh ==
  /\ pc = "high"
  /\ IF CloseRange
     THEN Close({f \in Fd : f > errFd})
     ELSE UNCHANGED <<file, cloexec>>
  /\ pc' = "exec"
  /\ UNCHANGED <<request, fds, i, next>>

\* A successful execve closes what is marked close-on-exec.
Exec ==
  /\ pc = "exec"
  /\ Close(cloexec)
  /\ pc' = "running"
  /\ UNCHANGED <<request, fds, i, next>>

Ended == pc \in {"running", "failed"}

Next ==
  \/ RaiseNext \/ EndLoop("raise", "move")
  \/ MoveAside \/ MoveFails \/ MoveNot \/ EndLoop("move", "fill")
  \/ FillClosed \/ FillSame \/ FillDup \/ FillFails \/ EndLoop("fill", "low")
  \/ CloseLow \/ CloseHigh \/ Exec
  \/ Ended /\ UNCHANGED vars

Spec == Init /\ [][Next]_vars
-----------------------------------------------------------------------------
(* Properties. *)

\* "child descriptor i is a duplicate of Files[i]. -1 closes descriptor i"
\* (spawn.go:60): what the program finds after exec, whatever order and
\* overlap of sources and targets Files asked for.
ChildTable ==
  pc = "running" =>
    \A j \in 0 .. n - 1 :
      file[j] = IF want[j] < 0 THEN NoFile ELSE want[j]

\* "Every other descriptor is closed in the child" (spawn.go:61).
EveryOtherClosed ==
  pc = "running" => \A f \in Fd : f >= n => file[f] = NoFile

\* "above every fd the child builds" (spawn.go:102): rebuilding and closing
\* never touch the error pipe, so that a failure of any later step can still
\* be reported.  The exec that succeeds closes it, so that Spawn's Read ends
\* (spawn.go:150-153), except where Files listed a closed number and fcntl
\* gave that number to the pipe: the program then holds the pipe as the
\* descriptors that were to be duplicates of it, and as no other.
ErrorPipeKept ==
  /\ pc # "running" => file[errFd] = errFd /\ errFd \in cloexec
  /\ pc = "running" =>
       \A f \in Fd : file[f] = errFd => f < n /\ want[f] = errFd

Headroom ==
  /\ \A j \in 0 .. n - 1 :
       want[j] >= 0 => want[j] \in Opened /\ want[j] + n <= Limit
  /\ errFd + n <= Limit

\* With every listed descriptor open and n numbers left above the highest
\* one, the rebuild cannot fail: the temporaries of spawn.go:325-335 need no
\* more than that.
NoSpuriousFailure == Headroom => pc # "failed"
-----------------------------------------------------------------------------
(* The inductive invariant behind the theorems of ChildFdsProofs. *)

\* What a descriptor held before the fork, and what it holds now.
Before(f) == IF f \in Opened \cup {errFd} THEN f ELSE NoFile
Held(f) == IF f \in Fd THEN file[f] ELSE NoFile

\* The targets already built.
Built(m) ==
  \A j \in 0 .. m - 1 :
    /\ j \notin cloexec
    /\ file[j] = IF want[j] < 0 THEN NoFile ELSE want[j]

\* The sources still needed: each holds what its number held before the fork
\* and lies where no earlier target is.
Needed(m) ==
  \A j \in m .. n - 1 :
    /\ want[j] < 0 <=> fds[j] < 0
    /\ want[j] >= 0 => Held(fds[j]) = Before(want[j])

\* Numbers from next on are above everything in play.
Above(m) == \A j \in 0 .. m - 1 : fds[j] < next

\* The error pipe lies above the targets and below next, and nothing else
\* refers to it but the targets that Files gave its number.
PipeApart ==
  /\ errFd >= n /\ errFd < next
  /\ errFd \notin Opened
  /\ \A f \in Fd : file[f] = errFd =>
       f = errFd \/ (pc \notin {"raise", "move"} /\ f < n /\ want[f] = errFd)
  /\ IF pc = "running" THEN file[errFd] # errFd
                       ELSE file[errFd] = errFd /\ errFd \in cloexec

\* How far the loops have come.
Progress ==
  /\ pc = "raise" => fds = want /\ Needed(0) /\ Above(i)
  /\ pc = "move" => /\ Needed(0) /\ Above(n)
                    /\ \A j \in 0 .. i - 1 : fds[j] < 0 \/ fds[j] >= j
  /\ pc = "fill" => /\ Needed(i) /\ Built(i)
                    /\ \A j \in 0 .. n - 1 : fds[j] < 0 \/ fds[j] >= j
  /\ pc \in {"low", "high", "exec", "running"} => Built(n)

\* What close_range and exec have closed.
Swept ==
  CloseRange =>
    /\ pc \in {"high", "exec"} =>
         \A f \in Fd : n <= f /\ f < errFd => file[f] = NoFile
    /\ pc = "exec" => \A f \in Fd : f > errFd => file[f] = NoFile
    /\ pc = "running" => \A f \in Fd : n <= f => file[f] = NoFile

\* The numbers that are left for temporaries.
Room ==
  Headroom =>
    /\ pc # "failed"
    /\ pc = "raise" => next + n <= Limit + 1
    /\ pc = "move" => next + n - i <= IF i = 0 THEN Limit + 1 ELSE Limit

FdsInv == TypeOK /\ PipeApart /\ Progress /\ Swept /\ Room
=============================================================================
