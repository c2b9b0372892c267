------------------------------- MODULE Detect -------------------------------
(***************************************************************************)
(* Available of go/detect_windows.go: is the raw system call path usable?  *)
(* Every gated call (Syscall6) asks it, from any goroutine, without a      *)
(* lock; the first to ask runs selfTest, whose own calls are gated too and *)
(* therefore ask again, one stack frame deeper.                            *)
(*                                                                         *)
(* A frame of Available is a record: where it is, how many probes of its   *)
(* self-test are left and whether the probes so far were right.  The       *)
(* memoized results of IsWine, HostOS and Available are read and written   *)
(* without synchronisation: on a weakly ordered machine (windows/arm64) a  *)
(* goroutine may see a "checked" flag before the value written ahead of    *)
(* it.                                                                     *)
(***************************************************************************)
EXTENDS Naturals, Sequences, FiniteSets

CONSTANTS
  Goroutines,
  Hosts,        \* what HostOS may find: "windows", "linux" or "other"
  Outcomes,     \* whether a probe's system call behaves: a set of Booleans
  Probes,       \* gated calls in selfTest
  MaxCalls      \* bound: calls of Available per goroutine

ASSUME DetectAssumption ==
  /\ Hosts \subseteq {"windows", "linux", "other"}
  /\ Outcomes \subseteq BOOLEAN
  /\ Probes \in Nat \ {0}
  /\ MaxCalls \in Nat
  /\ IsFiniteSet(Goroutines)

VARIABLES
  host,             \* where the program runs
  machine,          \* what it was built for
  isWineBy,         \* goroutines that stored isWineCached and isWineChecked
  hostOSBy,         \* goroutines that stored hostOSCached and hostOSChecked
  availableCached,
  availableChecked,
  availableBy,      \* goroutines that stored availableCached
  selfTestErr,      \* selfTestErr != nil
  selfTestRunning,
  stack,            \* the frames of Available on each goroutine's stack
  calls,            \* calls made by each goroutine
  answer,           \* the last answer to a call from outside selfTest
  passed            \* some self-test has succeeded

memos == <<host, machine, isWineBy, hostOSBy>>
flags == <<availableCached, availableChecked, availableBy, selfTestErr>>
vars == <<host, machine, isWineBy, hostOSBy, availableCached,
          availableChecked, availableBy, selfTestErr, selfTestRunning, stack,
          calls, answer, passed>>

InSelfTest == {"probe", "end", "store"}
Frame ==
  [pc : {"checked", "running", "wine", "host", "foreign", "begin",
         "publish"}
        \cup InSelfTest,
   left : 0 .. Probes,
   ok : BOOLEAN]
NewFrame == [pc |-> "checked", left |-> 0, ok |-> TRUE]

\* The type invariant.
TypeOK ==
  /\ host \in Hosts
  /\ machine \in {"amd64", "arm64"}
  /\ isWineBy \in SUBSET Goroutines
  /\ hostOSBy \in SUBSET Goroutines
  /\ availableBy \in SUBSET Goroutines
  /\ {availableCached, availableChecked, selfTestErr, selfTestRunning, passed}
       \subseteq BOOLEAN
  /\ stack \in [Goroutines -> Seq(Frame)]
  /\ calls \in [Goroutines -> 0 .. MaxCalls]
  /\ answer \in [Goroutines -> {"none", "true", "false"}]

Init ==
  /\ host \in Hosts
  /\ machine \in {"amd64", "arm64"}
  /\ isWineBy = {} /\ hostOSBy = {} /\ availableBy = {}
  /\ availableCached = FALSE
  /\ availableChecked = FALSE
  /\ selfTestErr = FALSE
  /\ selfTestRunning = FALSE
  /\ stack = [g \in Goroutines |-> <<>>]
  /\ calls = [g \in Goroutines |-> 0]
  /\ answer = [g \in Goroutines |-> "none"]
  /\ passed = FALSE
-----------------------------------------------------------------------------
At(g, pc) == stack[g] # <<>> /\ Head(stack[g]).pc = pc

\* The innermost frame goes on at pc.
Go(g, pc) == stack' = [stack EXCEPT ![g][1].pc = pc]

\* A racing variable was written by the goroutines in by: on a machine that
\* does not keep stores in order another one may still read its zero value.
MayBeStale(g, by) == machine = "arm64" /\ g \notin by

\* The innermost frame returns b, to the caller or to a gated call of the
\* self-test below it, which is refused or made, and may then misbehave.
Return(g, b) ==
  LET below == Tail(stack[g]) IN
  IF below = <<>>
  THEN /\ stack' = [stack EXCEPT ![g] = <<>>]
       /\ answer' = [answer EXCEPT ![g] = IF b THEN "true" ELSE "false"]
  ELSE /\ \E behaves \in Outcomes :
            stack' = [stack EXCEPT ![g] =
              IF b /\ behaves
              THEN [below EXCEPT ![1].left = @ - 1]
              ELSE [below EXCEPT ![1].ok = FALSE, ![1].pc = "end"]]
       /\ UNCHANGED answer

\* Syscall6 of a goroutine that is not inside the self-test.
Call(g) ==
  /\ stack[g] = <<>>
  /\ calls[g] < MaxCalls
  /\ calls' = [calls EXCEPT ![g] = @ + 1]
  /\ stack' = [stack EXCEPT ![g] = <<NewFrame>>]
  /\ UNCHANGED <<memos, flags, selfTestRunning, answer, passed>>

\* if availableChecked { return availableCached }
ReadChecked(g) ==
  /\ At(g, "checked")
  /\ \/ /\ availableChecked
        /\ \/ Return(g, availableCached)
           \/ MayBeStale(g, availableBy) /\ Return(g, FALSE)
     \/ /\ ~availableChecked
        /\ Go(g, "running")
        /\ UNCHANGED answer
  /\ UNCHANGED <<memos, flags, selfTestRunning, calls, passed>>

\* Slip: the branch that stops the recursion is missing.
ReadRunning_Not(g) ==
  /\ At(g, "running")
  /\ Go(g, "wine")
  /\ UNCHANGED <<memos, flags, selfTestRunning, calls, answer, passed>>

\* Slip: a call during the self-test waits for its end.
ReadRunning_Waits(g) ==
  /\ At(g, "running")
  /\ Go(g, IF selfTestRunning THEN "checked" ELSE "wine")
  /\ UNCHANGED <<memos, flags, selfTestRunning, calls, answer, passed>>

\* if selfTestRunning { return true }
ReadRunning(g) ==
  /\ At(g, "running")
  /\ IF selfTestRunning THEN Return(g, TRUE)
                        ELSE Go(g, "wine") /\ UNCHANGED answer
  /\ UNCHANGED <<memos, flags, selfTestRunning, calls, passed>>

\* What a memoized fact reads as: its value, or the zero value if the store
\* of another goroutine has not arrived.
Reads(g, by, fact) ==
  {fact} \cup {b \in {FALSE} : by # {} /\ MayBeStale(g, by)}

\* if !IsWine() { availableChecked = true; return false }
AskWine(g) ==
  /\ At(g, "wine")
  /\ \E wine \in Reads(g, isWineBy, host # "windows") :
       IF wine THEN Go(g, "host")
       ELSE stack' = [stack EXCEPT ![g][1] =
                        [@ EXCEPT !.pc = "publish", !.ok = FALSE]]
  /\ isWineBy' = isWineBy \cup {g}
  /\ UNCHANGED <<host, machine, hostOSBy, flags, selfTestRunning, calls, answer,
                 passed>>

\* HostOS(), and the test for a Linux host.
AskHost(g) ==
  /\ At(g, "host")
  /\ \E linux \in Reads(g, hostOSBy, host = "linux") :
       Go(g, IF linux THEN "begin" ELSE "foreign")
  /\ hostOSBy' = hostOSBy \cup {g}
  /\ UNCHANGED <<host, machine, isWineBy, flags, selfTestRunning, calls, answer,
                 passed>>

\* availableCached = false, for a foreign host.
StoreForeign(g) ==
  /\ At(g, "foreign")
  /\ availableCached' = FALSE
  /\ availableBy' = availableBy \cup {g}
  /\ stack' = [stack EXCEPT ![g][1] =
                  [@ EXCEPT !.pc = "publish", !.ok = FALSE]]
  /\ UNCHANGED <<memos, availableChecked, selfTestErr, selfTestRunning, calls,
                 answer, passed>>

\* selfTestRunning = true
Begin(g) ==
  /\ At(g, "begin")
  /\ selfTestRunning' = TRUE
  /\ stack' = [stack EXCEPT ![g][1] = [@ EXCEPT !.pc = "probe", !.left = Probes]]
  /\ UNCHANGED <<memos, flags, calls, answer, passed>>

\* The next system call of selfTest asks Available in its turn.
Probe(g) ==
  /\ At(g, "probe")
  /\ Head(stack[g]).left > 0
  /\ stack' = [stack EXCEPT ![g] = <<NewFrame>> \o @]
  /\ UNCHANGED <<memos, flags, selfTestRunning, calls, answer, passed>>

ProbesDone(g) ==
  /\ At(g, "probe")
  /\ Head(stack[g]).left = 0
  /\ Go(g, "end")
  /\ passed' = TRUE
  /\ UNCHANGED <<memos, flags, selfTestRunning, calls, answer>>

\* selfTestRunning = false
End(g) ==
  /\ At(g, "end")
  /\ selfTestRunning' = FALSE
  /\ Go(g, "store")
  /\ UNCHANGED <<memos, flags, calls, answer, passed>>

\* Slip: the reason of a failed self-test is not kept.
Store_NoReason(g) ==
  /\ At(g, "store")
  /\ availableCached' = Head(stack[g]).ok
  /\ availableBy' = availableBy \cup {g}
  /\ Go(g, "publish")
  /\ UNCHANGED <<memos, availableChecked, selfTestErr, selfTestRunning, calls,
                 answer, passed>>

\* Slip: the result of selfTest is not looked at.
Store_Always(g) ==
  /\ At(g, "store")
  /\ selfTestErr' = (selfTestErr \/ ~Head(stack[g]).ok)
  /\ availableCached' = TRUE
  /\ availableBy' = availableBy \cup {g}
  /\ Go(g, "publish")
  /\ UNCHANGED <<memos, availableChecked, selfTestRunning, calls, answer,
                 passed>>

\* selfTestErr = err if there is one, and availableCached = err == nil
Store(g) ==
  /\ At(g, "store")
  /\ selfTestErr' = (selfTestErr \/ ~Head(stack[g]).ok)
  /\ availableCached' = Head(stack[g]).ok
  /\ availableBy' = availableBy \cup {g}
  /\ Go(g, "publish")
  /\ UNCHANGED <<memos, availableChecked, selfTestRunning, calls, answer,
                 passed>>

\* availableChecked = true, and the return.
Publish(g) ==
  /\ At(g, "publish")
  /\ availableChecked' = TRUE
  /\ Return(g, Head(stack[g]).ok)
  /\ UNCHANGED <<memos, availableCached, availableBy, selfTestErr,
                 selfTestRunning, calls, passed>>

Available(g) ==
  \/ ReadChecked(g) \/ ReadRunning(g) \/ AskWine(g) \/ AskHost(g)
  \/ StoreForeign(g) \/ Begin(g) \/ Probe(g) \/ ProbesDone(g) \/ End(g)
  \/ Store(g) \/ Publish(g)

AllDone == \A g \in Goroutines : stack[g] = <<>> /\ calls[g] = MaxCalls

Next ==
  \/ \E g \in Goroutines : Call(g) \/ Available(g)
  \/ AllDone /\ UNCHANGED vars

\* A goroutine inside Available keeps running: it blocks nowhere.
Spec ==
  /\ Init
  /\ [][Next]_vars
  /\ \A g \in Goroutines : WF_vars(Available(g))
-----------------------------------------------------------------------------
(* Properties. *)

\* The recursion Available -> selfTest -> Syscall6 -> Available is cut
\* (detect_windows.go:102-117): however the goroutines overlap, the frames
\* of Available on one stack are few.  Every other goroutine can end its own
\* self-test, clear the shared flag and so let one more start, but when a
\* memo is published that ends.
BoundedNesting ==
  \A g \in Goroutines : Len(stack[g]) <= Cardinality(Goroutines) + 2

\* Where stores are kept in order, a negative answer on a Linux host has a
\* reason that SelfTestError gives (detect_windows.go:152-160).  On arm64 a
\* stale memo can be the only reason.
FalseHasReason ==
  machine = "amd64" => \A g \in Goroutines :
    answer[g] = "false" /\ host = "linux" => selfTestErr

\* Whatever is answered meanwhile, the positive answer that stays is earned:
\* availableCached becomes true only after a self-test has passed, on either
\* machine (detect_windows.go:140-149).
MemoIsEarned == availableCached => passed

\* Every call of Available returns, however the self-tests of several
\* goroutines overlap.
EveryCallReturns ==
  \A g \in Goroutines : stack[g] # <<>> ~> stack[g] = <<>>
-----------------------------------------------------------------------------
(* The inductive invariant behind the theorems of DetectProofs. *)

\* Every frame but the innermost waits for a gated call of its self-test.
OuterFrames ==
  \A g \in Goroutines : \A k \in 2 .. Len(stack[g]) :
    stack[g][k].pc = "probe" /\ stack[g][k].left > 0

\* The goroutines past their self-test, with selfTestRunning cleared, that
\* have not yet set availableChecked.
Finishing == {h \in Goroutines : At(h, "store") \/ At(h, "publish")}
Others(g) == Cardinality(Finishing \ {g})

\* How deep a stack can be with its innermost frame at pc: until the memo is
\* published each further self-test was let in by another goroutine that is
\* finishing, and after that no self-test starts any more.
NestingOf(g) ==
  LET pc == stack[g][1].pc
      depth == Len(stack[g])
  IN /\ ~availableChecked =>
          depth <= Others(g) + IF pc \in {"checked", "running"} THEN 2 ELSE 1
     /\ ~availableChecked /\ ~selfTestRunning /\ g \notin Finishing =>
          depth <= Others(g) + IF pc \in {"probe", "end"} THEN 0 ELSE 1
     /\ availableChecked =>
          depth <= Cardinality(Goroutines) + IF pc = "checked" THEN 2 ELSE 1
Nesting == \A g \in Goroutines : stack[g] # <<>> => NestingOf(g)

\* A frame that comes to a positive result has passed its self-test.
Earned ==
  /\ MemoIsEarned
  /\ \A g \in Goroutines :
       /\ stack[g] # <<>>
       /\ stack[g][1].pc \in {"end", "store", "publish"}
       /\ stack[g][1].ok
       => passed

\* On a Linux host with ordered stores no frame takes the host for another
\* one, and a negative result comes with the error of a self-test.
Reasons ==
  machine = "amd64" /\ host = "linux" =>
    /\ availableChecked => availableCached \/ selfTestErr
    /\ \A g \in Goroutines :
         /\ answer[g] = "false" => selfTestErr
         /\ stack[g] # <<>> =>
              /\ stack[g][1].pc # "foreign"
              /\ stack[g][1].pc = "publish" =>
                   IF stack[g][1].ok THEN availableCached \/ selfTestErr
                                     ELSE selfTestErr

\* Everything the frames of the goroutines rely on about each other
\* (detect_windows.go:98-150).
DetectInv == TypeOK /\ OuterFrames /\ Nesting /\ Earned /\ Reasons
-----------------------------------------------------------------------------
(* What the documentation says and the code does not do. *)

\* The self-test shows that the path works "before anything trusts it"
\* (detect_windows.go:136; README.md:31-33).
TestedBeforeTrusted ==
  \A g \in Goroutines : answer[g] = "true" => passed
=============================================================================
