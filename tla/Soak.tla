-------------------------------- MODULE Soak --------------------------------
(***************************************************************************)
(* cmd/soaktest: raw calls that block, under the Go scheduler.  A raw call *)
(* does not tell the scheduler that it leaves (go/winescape.go:95-104), so *)
(* a goroutine keeps its P while the kernel holds it, cannot be preempted  *)
(* (the handlers are installed with SA_RESTART) and is waited for by every *)
(* stop of the world.                                                      *)
(*                                                                         *)
(* Each cycle makes a pipe, starts a helper that reads from it or writes   *)
(* to it, and is told by a channel or by the watchdog how that ended.  The *)
(* faults that the program is there to find strike up to MaxFaults calls:  *)
(* an error, a damaged block, a wakeup that is lost, for good or until the *)
(* pipe is closed.  A payload fits a pipe (4096 bytes of 64 KiB), so a     *)
(* write is one step.  One churner is modelled: it keeps a P busy that it  *)
(* gives up as soon as another waits.                                      *)
(***************************************************************************)
EXTENDS Naturals, Sequences, FiniteSets

CONSTANTS
  Iterations,  \* cycles of each of the three scenarios
  NumCPU,      \* processors of the machine
  MinProcs,    \* the least number of Ps that is asked for, four in the code
  NumWorkers,  \* workers of the pool, four in the code
  MaxFaults,   \* bound: faults
  MaxStops     \* bound: times that the collector stops the world

ASSUME SoakAssumption ==
  /\ Iterations \in Nat \ {0} /\ NumCPU \in Nat \ {0}
  /\ MinProcs \in Nat \ {0} /\ NumWorkers \in Nat \ {0}
  /\ MaxFaults \in Nat /\ MaxStops \in Nat

VARIABLES
  sched,     \* of each goroutine: "new", "parked", "ready" (without a P),
             \* "running", "kernel" (both with a P), "dead"
  at,        \* of each goroutine: where it is
  stopping,  \* the world is being stopped
  stops,     \* how often it was
  rfd, wfd,  \* the cycle whose pipe the two numbers stand for, 0 if closed
  buf,       \* of each cycle's pipe: the blocks in it
  from,      \* of each goroutine in a read: the pipe it reads
  lost,      \* the goroutines whose wakeup is lost
  got,       \* of each cycle: the blocks its reader has
  done,      \* of each cycle: what its channel holds
  owner,     \* of each worker: the helper whose task it runs, 0 for none
  cycle,     \* the current cycle
  ok,        \* the result of the current cycle
  allOK,     \* of all cycles so far
  faults     \* how many have struck

scheduler == <<sched, stopping, stops>>
pipes == <<rfd, wfd, buf, from, lost, got>>
verdict == <<ok, allOK>>
vars == <<scheduler, at, pipes, done, owner, cycle, verdict, faults>>

Payload == <<1, 2>>
Damaged == 0

Cycles == 1 .. 3 * Iterations
Scenario(c) ==
  IF c <= Iterations THEN "Read"
  ELSE IF c <= 2 * Iterations THEN "Write" ELSE "Gort"

\* The helpers are numbered by their cycles.
Main == 0
Workers == 3 * Iterations + 1 .. 3 * Iterations + NumWorkers
Churner == 3 * Iterations + NumWorkers + 1
Goroutines == 0 .. Churner

NumProcs == IF NumCPU < MinProcs THEN MinProcs ELSE NumCPU

Init ==
  /\ sched = [g \in Goroutines |-> CASE g = Main -> "running"
                                     [] g = Churner -> "ready"
                                     [] g \in Workers -> "parked"
                                     [] OTHER -> "new"]
  /\ at = [g \in Goroutines |-> CASE g = Main -> "pipe"
                                  [] g = Churner -> "churn"
                                  [] OTHER -> "idle"]
  /\ stopping = FALSE /\ stops = 0
  /\ rfd = 0 /\ wfd = 0
  /\ buf = [c \in Cycles |-> <<>>]
  /\ from = [g \in Goroutines |-> 0]
  /\ lost = {}
  /\ got = [c \in Cycles |-> <<>>]
  /\ done = [c \in Cycles |-> "none"]
  /\ owner = [w \in Workers |-> 0]
  /\ cycle = 1
  /\ ok = FALSE /\ allOK = TRUE
  /\ faults = 0
-----------------------------------------------------------------------------
(* The Go scheduler. *)

Holders == {g \in Goroutines : sched[g] \in {"running", "kernel"}}

Schedule(g) ==
  /\ sched[g] = "ready"
  /\ ~stopping
  /\ Cardinality(Holders) < NumProcs
  /\ sched' = [sched EXCEPT ![g] = "running"]
  /\ UNCHANGED <<at, stopping, stops, pipes, done, owner, cycle, verdict,
                 faults>>

\* A goroutine in Go code gives its P up to a stop; the churner, the only one
\* that computes for long, also to another that waits.
Preempt(g) ==
  /\ sched[g] = "running"
  /\ \/ stopping
     \/ g = Churner /\ \E h \in Goroutines : sched[h] = "ready"
  /\ sched' = [sched EXCEPT ![g] = "ready"]
  /\ UNCHANGED <<at, stopping, stops, pipes, done, owner, cycle, verdict,
                 faults>>

\* The collector stops the world, and starts it when no P is held.
StopWorld ==
  /\ ~stopping
  /\ stops < MaxStops
  /\ stopping' = TRUE
  /\ stops' = stops + 1
  /\ UNCHANGED <<sched, at, pipes, done, owner, cycle, verdict, faults>>

StartWorld ==
  /\ stopping
  /\ Holders = {}
  /\ stopping' = FALSE
  /\ UNCHANGED <<sched, stops, at, pipes, done, owner, cycle, verdict, faults>>
-----------------------------------------------------------------------------
(* Reads, by the helpers, the workers and main. *)

\* The cycle whose slice g reads into.
Target(g) == IF g = Main THEN cycle ELSE IF g \in Workers THEN owner[g] ELSE g

Fault ==
  /\ faults < MaxFaults
  /\ faults' = faults + 1

\* At a call of Read; a task of a worker makes one.
AtRead(g) ==
  \/ at[g] = "read"
  \/ at[g] = "some" /\ (g = Main \/ (g \in Cycles /\ Scenario(g) = "Read"))

\* The trap: a closed number is refused at once.
ReadTrap(g) ==
  /\ sched[g] = "running"
  /\ AtRead(g)
  /\ IF rfd = 0
     THEN /\ at' = [at EXCEPT ![g] = "failed"]
          /\ UNCHANGED <<sched, from>>
     ELSE /\ sched' = [sched EXCEPT ![g] = "kernel"]
          /\ from' = [from EXCEPT ![g] = rfd]
          /\ UNCHANGED at
  /\ UNCHANGED <<stopping, stops, rfd, wfd, buf, lost, got, done, owner, cycle,
                 verdict, faults>>

\* The read can return: there is something to read, or the last writer is
\* gone, and the reader was woken.
CanReturn(g) ==
  g \notin lost /\ (buf[from[g]] # <<>> \/ wfd # from[g])

\* The kernel holds g until another goroutine acts.
Stuck(g) == sched[g] = "kernel" /\ ~CanReturn(g)

\* What a read of n blocks leaves its reader to do; main does not look for
\* the end of the pipe, whose other end it holds.
AfterRead(g, n) ==
  IF Len(got[Target(g)]) + n = Len(Payload) THEN "full"
  ELSE IF n = 0 /\ g # Main THEN "failed" ELSE "some"

Damage(s) == [s EXCEPT ![1] = Damaged]

\* The read returns blocks from the pipe, damaged ones if a fault strikes.
ReadReturns(g) ==
  LET s == buf[from[g]]
      room == Len(Payload) - Len(got[Target(g)])
  IN  /\ sched[g] = "kernel"
      /\ CanReturn(g)
      /\ \E n \in 0 .. Len(s) :
           /\ n = 0 <=> s = <<>>
           /\ n <= room
           /\ \/ /\ got' = [got EXCEPT ![Target(g)] = @ \o SubSeq(s, 1, n)]
                 /\ UNCHANGED faults
              \/ /\ n > 0
                 /\ Fault
                 /\ got' = [got EXCEPT ![Target(g)] =
                                         @ \o Damage(SubSeq(s, 1, n))]
           /\ buf' = [buf EXCEPT ![from[g]] = SubSeq(s, n + 1, Len(s))]
           /\ at' = [at EXCEPT ![g] = AfterRead(g, n)]
      /\ sched' = [sched EXCEPT ![g] = "running"]
      /\ lost' = lost \ {g}
      /\ UNCHANGED <<stopping, stops, rfd, wfd, from, done, owner, cycle,
                     verdict>>

\* Faults: the read fails, or its wakeup will be lost.
ReadFails(g) ==
  /\ sched[g] = "kernel"
  /\ Fault
  /\ sched' = [sched EXCEPT ![g] = "running"]
  /\ at' = [at EXCEPT ![g] = "failed"]
  /\ lost' = lost \ {g}
  /\ UNCHANGED <<stopping, stops, rfd, wfd, buf, from, got, done, owner, cycle,
                 verdict>>

\* The end of the pipe wakes it after all, or does not.
HangupWakes(g) ==
  /\ g \in lost /\ wfd # from[g]
  /\ lost' = lost \ {g}
  /\ UNCHANGED <<scheduler, at, rfd, wfd, buf, from, got, done, owner, cycle,
                 verdict, faults>>

WakeupLost(g) ==
  /\ sched[g] = "kernel"
  /\ buf[from[g]] = <<>> /\ wfd = from[g] /\ g \notin lost
  /\ Fault
  /\ lost' = lost \cup {g}
  /\ UNCHANGED <<scheduler, at, rfd, wfd, buf, from, got, done, owner, cycle,
                 verdict>>
-----------------------------------------------------------------------------
(* The helpers. *)

\* The helper sends its result and ends; the channel has room for it.
Send(c, r) ==
  /\ done' = [done EXCEPT ![c] = r]
  /\ sched' = [sched EXCEPT ![c] = "dead"]

ReadVerdict(c) == IF got[c] = Payload THEN "ok" ELSE "fail"

\* close(readerReady) lets main go on to its Sleep.
ReadHelperStarts(c) ==
  /\ sched[c] = "running" /\ at[c] = "start" /\ Scenario(c) = "Read"
  /\ at' = [at EXCEPT ![c] = "read", ![Main] = "sleep"]
  /\ UNCHANGED <<scheduler, pipes, done, owner, cycle, verdict, faults>>

ReadHelperEnds(c) ==
  /\ sched[c] = "running" /\ at[c] \in {"full", "failed"}
  /\ Scenario(c) # "Write"
  /\ Send(c, IF at[c] = "full" THEN ReadVerdict(c) ELSE "fail")
  /\ UNCHANGED <<at, stopping, stops, pipes, owner, cycle, verdict, faults>>

\* The helper's Write puts the payload into the pipe, or fails.
WriteHelper(c) ==
  /\ sched[c] = "running" /\ at[c] = "start" /\ Scenario(c) = "Write"
  /\ \/ /\ wfd # 0
        /\ buf' = [buf EXCEPT ![wfd] = @ \o Payload]
        /\ Send(c, "ok")
        /\ UNCHANGED faults
     \/ /\ IF wfd = 0 THEN UNCHANGED faults ELSE Fault
        /\ Send(c, "fail")
        /\ UNCHANGED buf
  /\ UNCHANGED <<at, stopping, stops, rfd, wfd, from, lost, got, owner, cycle,
                 verdict>>

\* RunInPool: the helper waits while a worker, once one is free, reads.
GortHelperSubmits(c) ==
  /\ sched[c] = "running" /\ at[c] \in {"start", "some"}
  /\ Scenario(c) = "Gort"
  /\ sched' = [sched EXCEPT ![c] = "parked"]
  /\ at' = [at EXCEPT ![c] = "queued"]
  /\ UNCHANGED <<stopping, stops, pipes, done, owner, cycle, verdict, faults>>

\* The idle workers are alike: the first of them takes the task.
WorkerTakes(w) ==
  \E c \in Cycles :
    /\ at[c] = "queued" /\ at[w] = "idle"
    /\ \A v \in Workers : at[v] = "idle" => w <= v
    /\ owner' = [owner EXCEPT ![w] = c]
    /\ sched' = [sched EXCEPT ![w] = "ready"]
    /\ at' = [at EXCEPT ![c] = "waiting", ![w] = "read"]
    /\ UNCHANGED <<stopping, stops, pipes, done, cycle, verdict, faults>>

\* The task runs once: what it returned is the helper's to act on.
WorkerReturns(w) ==
  /\ sched[w] = "running"
  /\ at[w] \in {"full", "some", "failed"}
  /\ at' = [at EXCEPT ![owner[w]] = at[w], ![w] = "idle"]
  /\ sched' = [sched EXCEPT ![owner[w]] = "ready", ![w] = "parked"]
  /\ owner' = [owner EXCEPT ![w] = 0]
  /\ UNCHANGED <<stopping, stops, pipes, done, cycle, verdict, faults>>
-----------------------------------------------------------------------------
(* main and the cycles. *)

MainAt(l) == sched[Main] = "running" /\ at[Main] = l
MainGoes(l) == at' = [at EXCEPT ![Main] = l]
MainParks == sched' = [sched EXCEPT ![Main] = "parked"]
MainWakes == sched' = [sched EXCEPT ![Main] = "ready"]

\* Pipe2, and the helper is started; blockingReadCycle waits until it runs.
\* A failure ends the cycle, with nothing to close.
OpenPipe ==
  /\ MainAt("pipe")
  /\ \/ /\ rfd' = cycle /\ wfd' = cycle
        /\ sched' = [sched EXCEPT ![Main] = "parked", ![cycle] = "ready"]
        /\ at' = [at EXCEPT ![cycle] = "start",
                            ![Main] = IF Scenario(cycle) = "Read"
                                      THEN "readerReady" ELSE "sleep"]
        /\ UNCHANGED faults
     \/ /\ Fault
        /\ MainGoes("next")
        /\ UNCHANGED <<rfd, wfd, sched>>
  /\ ok' = FALSE
  /\ UNCHANGED <<stopping, stops, buf, from, lost, got, done, owner, cycle,
                 allOK>>

\* Slip: main drains the pipe in every scenario.
SleepEnds_Drains ==
  /\ at[Main] = "sleep"
  /\ MainWakes
  /\ MainGoes("read")
  /\ UNCHANGED <<stopping, stops, pipes, done, owner, cycle, verdict, faults>>

\* time.Sleep(*blockFor) is over.
SleepEnds ==
  /\ at[Main] = "sleep"
  /\ MainWakes
  /\ MainGoes(IF Scenario(cycle) = "Write" THEN "read" ELSE "write")
  /\ UNCHANGED <<stopping, stops, pipes, done, owner, cycle, verdict, faults>>

\* The Write that unblocks the reader.
MainWrites ==
  /\ MainAt("write")
  /\ \/ /\ buf' = [buf EXCEPT ![wfd] = @ \o Payload]
        /\ MainParks
        /\ MainGoes("select")
        /\ UNCHANGED faults
     \/ /\ Fault
        /\ MainGoes("closeW")
        /\ UNCHANGED <<buf, sched>>
  /\ UNCHANGED <<stopping, stops, rfd, wfd, from, lost, got, done, owner,
                 cycle, verdict>>

\* blockingWriteCycle has drained the pipe, or a read has failed.
DrainEnds ==
  /\ sched[Main] = "running"
  /\ \/ at[Main] = "full" /\ MainParks /\ MainGoes("select")
     \/ at[Main] = "failed" /\ MainGoes("closeW") /\ UNCHANGED sched
  /\ UNCHANGED <<stopping, stops, pipes, done, owner, cycle, verdict, faults>>

\* Slip: blockingWriteCycle takes the writer's word.
Receive_Unchecked ==
  /\ at[Main] = "select"
  /\ done[cycle] # "none"
  /\ ok' = (done[cycle] = "ok")
  /\ MainWakes
  /\ MainGoes("closeW")
  /\ UNCHANGED <<stopping, stops, pipes, done, owner, cycle, allOK, faults>>

Receive ==
  /\ at[Main] = "select"
  /\ done[cycle] # "none"
  /\ ok' = (done[cycle] = "ok" /\ (Scenario(cycle) = "Write" => got[cycle] = Payload))
  /\ MainWakes
  /\ MainGoes("closeW")
  /\ UNCHANGED <<stopping, stops, pipes, done, owner, cycle, allOK, faults>>

\* The helper's call does not return, or no worker comes to make it.
HelperStuck ==
  IF Scenario(cycle) = "Gort"
  THEN \/ \E w \in Workers : owner[w] = cycle /\ Stuck(w)
       \/ at[cycle] = "queued" /\ \A w \in Workers : Stuck(w)
  ELSE Stuck(cycle)

\* Slip: the watchdog reports and the wait goes on.
Watchdog_WaitsOn ==
  /\ at[Main] = "select"
  /\ HelperStuck
  /\ UNCHANGED vars

\* The watchdog is so much slower than the scheduler that it fires only when
\* the helper is stuck.
Watchdog ==
  /\ at[Main] = "select"
  /\ HelperStuck
  /\ MainWakes
  /\ MainGoes("closeW")
  /\ UNCHANGED <<stopping, stops, pipes, done, owner, cycle, verdict, faults>>

\* The deferred calls, last first.
CloseWrite ==
  /\ MainAt("closeW")
  /\ wfd' = 0
  /\ MainGoes("closeR")
  /\ UNCHANGED <<scheduler, rfd, buf, from, lost, got, done, owner, cycle,
                 verdict, faults>>

CloseRead ==
  /\ MainAt("closeR")
  /\ rfd' = 0
  /\ MainGoes("next")
  /\ UNCHANGED <<scheduler, wfd, buf, from, lost, got, done, owner, cycle,
                 verdict, faults>>

\* runScenario counts the result; after the last cycle the pool is closed.
NextCycle ==
  /\ MainAt("next")
  /\ allOK' = (allOK /\ ok)
  /\ IF cycle + 1 \in Cycles THEN cycle' = cycle + 1 /\ MainGoes("pipe")
                             ELSE MainGoes("poolClose") /\ UNCHANGED cycle
  /\ UNCHANGED <<scheduler, pipes, done, owner, ok, faults>>

\* pool.Close waits for the workers; then the churners are told and main ends.
PoolClose ==
  /\ MainAt("poolClose")
  /\ \A w \in Workers : at[w] = "idle"
  /\ \A c \in Cycles : at[c] # "queued"
  /\ MainGoes("end")
  /\ UNCHANGED <<scheduler, pipes, done, owner, cycle, verdict, faults>>

\* The goroutine's own steps.
Step(g) ==
  \/ ReadTrap(g) \/ ReadReturns(g)
  \/ /\ g = Main
     /\ \/ OpenPipe \/ MainWrites \/ DrainEnds \/ CloseWrite \/ CloseRead
        \/ NextCycle \/ PoolClose
  \/ /\ g \in Cycles
     /\ \/ ReadHelperStarts(g) \/ ReadHelperEnds(g) \/ WriteHelper(g)
        \/ GortHelperSubmits(g)
  \/ g \in Workers /\ (WorkerTakes(g) \/ WorkerReturns(g))

\* Nothing moves again: the world waits for a call that the kernel holds.
Wedged ==
  /\ stopping
  /\ Holders # {}
  /\ \A g \in Holders : Stuck(g)

\* main is in a Read of its own, which no watchdog covers, and what it waits
\* for does not come.
UnwatchedDrain ==
  /\ Stuck(Main)
  /\ Main \in lost \/ sched[cycle] = "dead"

\* Every P is held by a call that waits for another goroutine.
Starved ==
  /\ Cardinality(Holders) = NumProcs
  /\ \A g \in Holders : Stuck(g)

\* pool.Close waits for a worker whose call does not return.
HungWorker ==
  /\ at[Main] = "poolClose"
  /\ \E w \in Workers : Stuck(w)

NoVerdict == Wedged \/ UnwatchedDrain \/ Starved \/ HungWorker

Stopped ==
  /\ at[Main] = "end" \/ NoVerdict
  /\ UNCHANGED vars

Next ==
  \/ /\ at[Main] # "end"
     /\ \/ \E g \in Goroutines : \/ Schedule(g) \/ Preempt(g) \/ Step(g)
                                 \/ ReadFails(g) \/ WakeupLost(g)
                                 \/ HangupWakes(g)
        \/ StopWorld \/ StartWorld \/ SleepEnds \/ Receive \/ Watchdog
  \/ Stopped

\* What the scheduler, the timers, the kernel and the goroutines do of
\* themselves, the churner left out.
Progress ==
  \/ \E g \in Goroutines \ {Churner} : Schedule(g) \/ Preempt(g) \/ Step(g)
  \/ StartWorld \/ SleepEnds \/ Receive \/ Watchdog

\* The churner gives its P up, and does not always get it back before the
\* others; apart from it something goes on as long as something can.
Fairness == SF_vars(Progress) /\ WF_vars(Preempt(Churner))

Spec == Init /\ [][Next]_vars /\ Fairness
-----------------------------------------------------------------------------
(* Properties. *)

\* The program says PASSED exactly when no fault struck: damage, errors and
\* lost wakeups all become a failed cycle, and neither partial reads, stops
\* of the world nor what an earlier cycle left behind does
\* (main.go:20-33,132-138,181-190,256-266).
VerdictIsRight ==
  at[Main] = "end" => (allOK <=> faults = 0)

\* The cycles cost one P at a time: besides the call that is meant to block,
\* the kernel holds no more calls than faults have struck, also when cycles
\* that were given up pile up and read what a later one wrote.  The last P is
\* safe, and with it the goroutine that will release the others, until
\* NumProcs - 1 faults have struck (main.go:284-288, winescape.go:95-104).
OnePPerFault == Cardinality({g \in Goroutines : Stuck(g)}) <= faults + 1

\* The program comes to its verdict, whatever faults strike, but for four
\* cases in which nothing is reported: the world is stopped while a raw call
\* is blocked, the drain of blockingWriteCycle misses its data (main.go:174),
\* hung calls have taken every P, and pool.Close waits for a hung worker
\* (main.go:303).  Without a fault none of the last three happens.
ProgramEnds == <>(at[Main] = "end" \/ Wedged \/ (NoVerdict /\ faults > 0))
=============================================================================
