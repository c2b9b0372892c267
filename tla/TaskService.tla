----------------------------- MODULE TaskService -----------------------------
(***************************************************************************)
(* What the pool of go/gort/pool.go promises, without queue or workers: a  *)
(* submitted function is accepted or rejected, an accepted one runs once   *)
(* or is skipped because its context is done, a call returns only for a    *)
(* reason, and once the service has shut down nothing runs any more.       *)
(***************************************************************************)
CONSTANTS Calls, Cancellable

VARIABLES
  job,      \* per call: "new", "accepted", "running", "ran" or "skipped"
  result,   \* per call: "none" or what it returned
  ctxDone,  \* the calls whose context is done
  service   \* "open", "closing" or "shut"

vars == <<job, result, ctxDone, service>>

Init ==
  /\ job = [c \in Calls |-> "new"]
  /\ result = [c \in Calls |-> "none"]
  /\ ctxDone \in SUBSET Cancellable
  /\ service = "open"

\* From one stage of a job to the next.
Stage(c, from, to) ==
  /\ job[c] = from
  /\ job' = [job EXCEPT ![c] = to]
  /\ UNCHANGED <<result, ctxDone, service>>

\* A call that has not returned enters the service, unless it is shut.
Accept(c) == service # "shut" /\ result[c] = "none" /\ Stage(c, "new", "accepted")
Start(c) == Stage(c, "accepted", "running")
Finish(c) == Stage(c, "running", "ran")
Skip(c) == c \in ctxDone /\ Stage(c, "accepted", "skipped")

Answer(c, r) ==
  /\ result[c] = "none"
  /\ result' = [result EXCEPT ![c] = r]
  /\ UNCHANGED <<job, ctxDone, service>>

AnswerNil(c) == job[c] \in {"ran", "skipped"} /\ Answer(c, "nil")
AnswerCtxErr(c) == c \in ctxDone /\ Answer(c, "ctxErr")
AnswerClosed(c) == job[c] = "new" /\ service # "open" /\ Answer(c, "ErrPoolClosed")
AnswerPanic(c) == job[c] = "new" /\ service # "open" /\ Answer(c, "panic")

CancelCtx(c) ==
  /\ c \in Cancellable \ ctxDone
  /\ ctxDone' = ctxDone \cup {c}
  /\ UNCHANGED <<job, result, service>>

StartClosing ==
  /\ service = "open"
  /\ service' = "closing"
  /\ UNCHANGED <<job, result, ctxDone>>

\* The service is shut when nothing accepted is left undone.
Shut ==
  /\ service = "closing"
  /\ \A c \in Calls : job[c] \in {"new", "ran", "skipped"}
  /\ service' = "shut"
  /\ UNCHANGED <<job, result, ctxDone>>

Next ==
  \/ \E c \in Calls :
       \/ Accept(c) \/ Start(c) \/ Finish(c) \/ Skip(c)
       \/ AnswerNil(c) \/ AnswerCtxErr(c) \/ AnswerClosed(c) \/ AnswerPanic(c)
       \/ CancelCtx(c)
  \/ StartClosing
  \/ Shut

Spec == Init /\ [][Next]_vars
=============================================================================
