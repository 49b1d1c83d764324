--------------------------- MODULE ToolCallStack ---------------------------
(***************************************************************************)
(* The tool-call side of the agent's middleware stack on one thread.       *)
(* core/agent.py nests the layers in the order                             *)
(*   CircuitBreaker ( RetryTool ( RevisionLoopCap ( ToolCallLimit (tool)))) *)
(* and every layer keeps its state in a dict keyed by the thread id, shared *)
(* by all the agent runs of that thread.  Threads do not interact, so one  *)
(* thread is modelled.  Eager tools runs a tool while the model still      *)
(* streams, outside all four layers; the tool step then passes them with   *)
(* the result in hand, or with a call still to run when that raised.       *)
(*                                                                         *)
(* asyncio runs a coroutine without interruption up to its next await, so  *)
(* one action is the code between two awaits: admission down to the tool,  *)
(* the tool's result back up to the agent, a retry after its backoff.      *)
(***************************************************************************)
EXTENDS Naturals, FiniteSets

CONSTANTS
  Run,               \* slots for concurrent agent runs on the thread
  Call,              \* slots for concurrent tool calls
  Tool,              \* the tools the agent uses, by name
  EagerTool,         \* those eager tools dispatches, {} when it is off
  FailureThreshold,  \* circuit_breaker_failure_threshold
  MaxAttempts,       \* retry_max_attempts
  MaxCalls,          \* tool_call_limit
  MaxLoops,          \* max_revision_loops
  MaxFailures,       \* bound of the model: highest failure_count reached
  MaxResets,         \* bound of the model: resets of a count under a run
  MaxIssued          \* bound of the model: tool calls one run asks for

\* Which layer acts on which tool, as the frozensets and guards name them.
RetryTools   == {"search_knowledge_base", "search_codebase", "send_response", "fetch_issue"}
CircuitTools == Tool \cap {"internet_search", "qna_search", "fetch_url", "search_knowledge_base",
                           "search_codebase", "fetch_issue", "create_pr", "run_tests"}
LimitExempt  == {"grade_response", "send_response"}

\* Tools that wait for the tool step, _EAGER_DENY.
EagerDeny ==
  {"send_response", "create_pr", "grade_response", "run_bugfix_pipeline",
   "run_audit_pipeline", "run_refactor_pipeline", "start_async_task",
   "cancel_async_task", "evaluate"}

ASSUME StackAssumption ==
  /\ Run # {} /\ Call # {} /\ Tool # {} /\ EagerTool \subseteq Tool \ EagerDeny
  /\ FailureThreshold \in Nat \ {0} /\ MaxAttempts \in Nat \ {0}
  /\ MaxCalls \in Nat /\ MaxLoops \in Nat
  /\ MaxFailures \in Nat /\ MaxResets \in Nat /\ MaxIssued \in Nat

VARIABLES
  run,        \* run[r]: the phase of the run in slot r
  call,       \* call[c]: the tool call in slot c
  breaker,    \* _breakers[thread]: the circuit entry of each tool
  toolCount,  \* ToolCallLimitMiddleware._counts[thread]; an absent key reads as 0
  gradeCount, \* RevisionLoopCapMiddleware._counts[thread]; likewise
  seen        \* seen[r]: what an observer of run r has counted (no code reads it)

vars == <<run, call, breaker, toolCount, gradeCount, seen>>

\* A run is active while the model answers and acting in its tool step; between its
\* own reset of the counts and its end it is working.
Working == {"active", "acting", "interrupted"}
Live == {"starting", "started", "ending", "ended"} \cup Working

FreshEntry == [state |-> "closed", failures |-> 0, cooling |-> FALSE]
FreshBreakers == [t \in CircuitTools |-> FreshEntry]

Idle == [phase |-> "idle", run |-> "none", tool |-> "none", attempt |-> 1, attached |-> FALSE]

Unseen == [issued |-> 0, executed |-> 0, graded |-> 0, eager |-> 0,
           resets |-> 0, regrades |-> 0, exclusive |-> TRUE,
           failed |-> [t \in CircuitTools |-> 0]]

Init ==
  /\ run = [r \in Run |-> "idle"]
  /\ call = [c \in Call |-> Idle]
  /\ breaker = FreshBreakers
  /\ toolCount = 0
  /\ gradeCount = 0
  /\ seen = [r \in Run |-> Unseen]

-----------------------------------------------------------------------------
(* The circuit of one tool.  cooling abstracts the clock: it is TRUE from  *)
(* record_failure until recovery_timeout has elapsed.                      *)

\* Fault: the probe forgets the failures that opened the circuit.
ProbeFault(entry) ==
  [entry EXCEPT !.state    = IF @ = "open" THEN "half_open" ELSE @,
                !.failures = IF entry.state = "open" THEN 0 ELSE @]

Probe(entry) == [entry EXCEPT !.state = IF @ = "open" THEN "half_open" ELSE @]

Blocks(t) == t \in CircuitTools /\ breaker[t].state = "open" /\ breaker[t].cooling

RecordSuccess(entry) == FreshEntry

\* Fault: the threshold is compared for equality, which a failed probe has passed.
RecordFailureFault(entry) ==
  [state    |-> IF entry.failures + 1 = FailureThreshold THEN "open" ELSE entry.state,
   failures |-> entry.failures + 1,
   cooling  |-> TRUE]

RecordFailure(entry) ==
  [state    |-> IF entry.failures + 1 >= FailureThreshold THEN "open" ELSE entry.state,
   failures |-> entry.failures + 1,
   cooling  |-> TRUE]

\* An entry popped by a reset lives on only in the calls that hold it; what they
\* write to it is never read again, so only attached calls change the circuit.
OnCircuit(c, Op(_)) ==
  breaker' = IF call[c].attached
             THEN [breaker EXCEPT ![call[c].tool] = Op(@)]
             ELSE breaker

-----------------------------------------------------------------------------
(* The two caps count an attempt before they let it through.               *)

Counted(t) == t \notin LimitExempt

\* Fault: the count is compared before this attempt is added to it.
OverCapFault(t) ==
  \/ t = "grade_response" /\ gradeCount > MaxLoops
  \/ Counted(t) /\ toolCount > MaxCalls

OverCap(t) ==
  \/ t = "grade_response" /\ gradeCount + 1 > MaxLoops
  \/ Counted(t) /\ toolCount + 1 > MaxCalls

CountAttempt(t) ==
  /\ toolCount'  = IF Counted(t) THEN toolCount + 1 ELSE toolCount
  /\ gradeCount' = IF t = "grade_response" THEN gradeCount + 1 ELSE gradeCount

\* What the observer notes of run r when the caps have let tool t execute, and when a
\* call that was not dispatched before reaches the tool step.
Executes(r, t) ==
  [seen[r] EXCEPT !.executed = IF Counted(t) THEN @ + 1 ELSE @,
                  !.graded   = IF t = "grade_response" THEN @ + 1 ELSE @]
Issues(c, view) == [view EXCEPT !.issued = IF call[c].phase = "idle" THEN @ + 1 ELSE @]

\* The counts are kept by thread: a run that resets one resets it for all of them.
Under(r) == {q \in Run \ {r} : run[q] \in Working}
ResetUnder(r) ==
  /\ toolCount' = 0
  /\ \A q \in Under(r) : seen[q].resets < MaxResets
  /\ seen' = [q \in Run |-> IF q \in Under(r) THEN [seen[q] EXCEPT !.resets = @ + 1]
                            ELSE seen[q]]
RegradeUnder(r) ==
  /\ gradeCount' = 0
  /\ \A q \in Under(r) : seen[q].regrades < MaxResets
  /\ seen' = [q \in Run |-> IF q \in Under(r) THEN [seen[q] EXCEPT !.regrades = @ + 1]
                            ELSE seen[q]]

-----------------------------------------------------------------------------
(* Runs.                                                                   *)

OthersLive(r) == \E q \in Run \ {r} : run[q] \in Live

\* Fault: the hooks leave the entries of earlier runs.
PopBreakersFault == UNCHANGED <<breaker, call>>

\* The breaker's before_agent and after_agent pop the thread's dict of entries.
PopBreakers ==
  /\ breaker' = FreshBreakers
  /\ call' = [c \in Call |-> [call[c] EXCEPT !.attached = FALSE]]

Quiet(r) == \A c \in Call : call[c].run = r => call[c].phase = "idle"

Phase(r, from, to) ==
  /\ run[r] = from
  /\ run' = [run EXCEPT ![r] = to]

\* Each layer's hook is a step of the graph of its own: before_agent from the outermost
\* layer inwards, after_agent outwards, so another run may act between two of them.
StartRun(r) ==
  /\ Phase(r, "idle", "starting")
  /\ PopBreakers
  /\ seen' = [q \in Run |->
                 IF q = r THEN [Unseen EXCEPT !.exclusive = ~OthersLive(r)]
                 ELSE IF run[q] \in Live THEN [seen[q] EXCEPT !.exclusive = FALSE]
                 ELSE seen[q]]
  /\ UNCHANGED <<toolCount, gradeCount>>

ResetGrades(r) ==
  /\ Phase(r, "starting", "started")
  /\ RegradeUnder(r)
  /\ UNCHANGED <<call, breaker, toolCount>>

ResetCalls(r) ==
  /\ Phase(r, "started", "active")
  /\ ResetUnder(r)
  /\ UNCHANGED <<call, breaker, gradeCount>>

EndRun(r) ==
  /\ Phase(r, "active", "ending")
  /\ Quiet(r)
  /\ ResetUnder(r)
  /\ UNCHANGED <<call, breaker, gradeCount>>

ReclaimGrades(r) ==
  /\ Phase(r, "ending", "ended")
  /\ RegradeUnder(r)
  /\ UNCHANGED <<call, breaker, toolCount>>

ReclaimBreakers(r) ==
  /\ Phase(r, "ended", "idle")
  /\ PopBreakers
  /\ seen' = [seen EXCEPT ![r] = Unseen]
  /\ UNCHANGED <<toolCount, gradeCount>>

\* An exception or a cancelled request ends the run, or nobody resumes a parked one:
\* after_agent is not reached, and a cancelled call leaves through CancelledError,
\* which no layer catches.
AbortRun(r) ==
  /\ run[r] \in Live
  /\ run' = [run EXCEPT ![r] = "idle"]
  /\ call' = [c \in Call |-> IF call[c].run = r THEN Idle ELSE call[c]]
  /\ seen' = [seen EXCEPT ![r] = Unseen]
  /\ UNCHANGED <<breaker, toolCount, gradeCount>>

\* The model has answered: what it asked for goes through the tool step.
Answered(r) == \A c \in Call : call[c].run = r => call[c].phase # "eager"

Act(r) ==
  /\ Phase(r, "active", "acting")
  /\ Answered(r)
  /\ UNCHANGED <<call, breaker, toolCount, gradeCount, seen>>

\* Every call is answered, and the model is asked again.
AskModel(r) ==
  /\ Phase(r, "acting", "active")
  /\ Quiet(r)
  /\ UNCHANGED <<call, breaker, toolCount, gradeCount, seen>>

\* A human-review interrupt parks the run before its tool calls; thread_resume
\* continues it from the checkpoint without going through before_agent again.
Interrupt(r) ==
  /\ Phase(r, "active", "interrupted")
  /\ Answered(r)
  /\ UNCHANGED <<call, breaker, toolCount, gradeCount, seen>>

Resume(r) ==
  /\ Phase(r, "interrupted", "acting")
  /\ UNCHANGED <<call, breaker, toolCount, gradeCount, seen>>

\* The server restarts: the dicts are lost, parked runs are still in the checkpointer.
Restart ==
  /\ \A r \in Run : run[r] = "interrupted" =>
       seen[r].resets < MaxResets /\ seen[r].regrades < MaxResets
  /\ run' = [r \in Run |-> IF run[r] = "interrupted" THEN "interrupted" ELSE "idle"]
  /\ call' = [c \in Call |-> Idle]
  /\ breaker' = FreshBreakers
  /\ toolCount' = 0
  /\ gradeCount' = 0
  /\ seen' = [r \in Run |-> IF run[r] = "interrupted"
                            THEN [seen[r] EXCEPT !.exclusive = FALSE, !.resets = @ + 1,
                                                 !.regrades = @ + 1]
                            ELSE Unseen]

-----------------------------------------------------------------------------
(* Tool calls.                                                             *)

MayIssue(c, r) == call[c].phase = "idle" /\ seen[r].issued < MaxIssued

\* The model's stream completes a call, and eager tools runs the tool itself: no layer
\* around tool calls sees it, and nothing is counted.
EagerDispatch(c, r, t) ==
  /\ run[r] = "active"
  /\ t \in EagerTool
  /\ MayIssue(c, r)
  /\ call' = [call EXCEPT ![c] = [phase |-> "eager", run |-> r, tool |-> t, attempt |-> 1,
                                  attached |-> FALSE]]
  /\ seen' = [seen EXCEPT ![r].issued = @ + 1, ![r].eager = IF Counted(t) THEN @ + 1 ELSE @]
  /\ UNCHANGED <<run, breaker, toolCount, gradeCount>>

\* Its result is held for the tool step; when it raises, the call is still to be run.
EagerEnds(c) ==
  /\ call[c].phase = "eager"
  /\ \E outcome \in {"held", "asked"} : call' = [call EXCEPT ![c].phase = outcome]
  /\ UNCHANGED <<run, breaker, toolCount, gradeCount, seen>>

\* The stream fails, and its calls are dropped with it: the model is asked again.
DropEager(r) ==
  /\ run[r] = "active"
  /\ \E c \in Call : call[c].run = r
  /\ call' = [c \in Call |-> IF call[c].run = r THEN Idle ELSE call[c]]
  /\ UNCHANGED <<run, breaker, toolCount, gradeCount, seen>>

\* In the tool step: a call that was not dispatched, or one that was.
Asks(c, r, t) ==
  /\ run[r] = "acting"
  /\ \/ MayIssue(c, r)
     \/ call[c].phase \in {"held", "asked"} /\ call[c].run = r /\ call[c].tool = t

\* The circuit is open and still cooling: the call is answered at once.
BlockedCall(c, r, t) ==
  /\ Asks(c, r, t)
  /\ Blocks(t)
  /\ call' = [call EXCEPT ![c] = Idle]
  /\ seen' = [seen EXCEPT ![r] = Issues(c, @)]
  /\ UNCHANGED <<run, breaker, toolCount, gradeCount>>

AdmitCall(c, r, t) ==
  /\ Asks(c, r, t) /\ call[c].phase # "held"
  /\ ~Blocks(t)
  /\ ~OverCap(t)
  /\ CountAttempt(t)
  /\ breaker' = IF t \in CircuitTools THEN [breaker EXCEPT ![t] = Probe(@)] ELSE breaker
  /\ call' = [call EXCEPT ![c] = [phase |-> "running", run |-> r, tool |-> t, attempt |-> 1,
                                  attached |-> t \in CircuitTools]]
  /\ seen' = [seen EXCEPT ![r] = Issues(c, Executes(r, t))]
  /\ UNCHANGED run

\* A cap answers for the tool, or the innermost layer with the result it holds; the
\* layers outside take either for a success.
AnsweredInside(c, r, t) ==
  /\ Asks(c, r, t)
  /\ ~Blocks(t)
  /\ OverCap(t) \/ call[c].phase = "held"
  /\ CountAttempt(t)
  /\ breaker' = IF t \in CircuitTools THEN [breaker EXCEPT ![t] = RecordSuccess(@)] ELSE breaker
  /\ call' = [call EXCEPT ![c] = Idle]
  /\ seen' = [seen EXCEPT ![r] = Issues(c, @)]
  /\ UNCHANGED run

ToolReturns(c) ==
  /\ call[c].phase = "running"
  /\ OnCircuit(c, RecordSuccess)
  /\ call' = [call EXCEPT ![c] = Idle]
  /\ UNCHANGED <<run, toolCount, gradeCount, seen>>

\* Fault: one attempt too many.
RetriesLeftFault(c) == call[c].tool \in RetryTools /\ call[c].attempt <= MaxAttempts

RetriesLeft(c) == call[c].tool \in RetryTools /\ call[c].attempt < MaxAttempts

ToolRaisesAndBacksOff(c) ==
  /\ call[c].phase = "running"
  /\ RetriesLeft(c)
  /\ call' = [call EXCEPT ![c].phase = "backoff"]
  /\ UNCHANGED <<run, breaker, toolCount, gradeCount, seen>>

\* The exception leaves the retry layer, is recorded by the breaker and re-raised.
ToolRaises(c) ==
  /\ call[c].phase = "running"
  /\ ~RetriesLeft(c)
  /\ call[c].attached => breaker[call[c].tool].failures < MaxFailures
  /\ OnCircuit(c, RecordFailure)
  /\ seen' = IF call[c].attached
             THEN [seen EXCEPT ![call[c].run].failed[call[c].tool] = @ + 1]
             ELSE seen
  /\ call' = [call EXCEPT ![c] = Idle]
  /\ UNCHANGED <<run, toolCount, gradeCount>>

RetryCall(c) ==
  /\ call[c].phase = "backoff"
  /\ ~OverCap(call[c].tool)
  /\ CountAttempt(call[c].tool)
  /\ call' = [call EXCEPT ![c].phase = "running", ![c].attempt = @ + 1]
  /\ seen' = [seen EXCEPT ![call[c].run] = Executes(call[c].run, call[c].tool)]
  /\ UNCHANGED <<run, breaker>>

RetryIsCapped(c) ==
  /\ call[c].phase = "backoff"
  /\ OverCap(call[c].tool)
  /\ CountAttempt(call[c].tool)
  /\ OnCircuit(c, RecordSuccess)
  /\ call' = [call EXCEPT ![c] = Idle]
  /\ UNCHANGED <<run, seen>>

RecoveryElapses(t) ==
  /\ breaker[t].cooling
  /\ breaker' = [breaker EXCEPT ![t].cooling = FALSE]
  /\ UNCHANGED <<run, call, toolCount, gradeCount, seen>>

-----------------------------------------------------------------------------
RunStep(r) ==
  \/ StartRun(r) \/ ResetGrades(r) \/ ResetCalls(r)
  \/ EndRun(r) \/ ReclaimGrades(r) \/ ReclaimBreakers(r)
  \/ AbortRun(r) \/ Act(r) \/ AskModel(r) \/ Interrupt(r) \/ Resume(r) \/ DropEager(r)

IssueStep(c, r, t) ==
  \/ EagerDispatch(c, r, t)
  \/ BlockedCall(c, r, t) \/ AdmitCall(c, r, t) \/ AnsweredInside(c, r, t)

CallStep(c) ==
  \/ EagerEnds(c)
  \/ ToolReturns(c) \/ ToolRaisesAndBacksOff(c) \/ ToolRaises(c)
  \/ RetryCall(c) \/ RetryIsCapped(c)

Next ==
  \/ \E r \in Run : RunStep(r)
  \/ \E c \in Call, r \in Run, t \in Tool : IssueStep(c, r, t)
  \/ \E c \in Call : CallStep(c)
  \/ \E t \in CircuitTools : RecoveryElapses(t)
  \/ Restart

Spec == Init /\ [][Next]_vars

-----------------------------------------------------------------------------
Entry == [state : {"closed", "open", "half_open"}, failures : Nat, cooling : BOOLEAN]
CallSlot == [phase : {"idle", "eager", "held", "asked", "running", "backoff"},
             run : Run \cup {"none"},
             tool : Tool \cup {"none"}, attempt : 1..MaxAttempts, attached : BOOLEAN]
View == [issued : Nat, executed : Nat, graded : Nat, eager : Nat,
         resets : Nat, regrades : Nat, exclusive : BOOLEAN,
         failed : [CircuitTools -> Nat]]

TypeOK ==
  /\ run \in [Run -> {"idle"} \cup Live]
  /\ call \in [Call -> CallSlot]
  /\ breaker \in [CircuitTools -> Entry]
  /\ toolCount \in Nat
  /\ gradeCount \in Nat
  /\ seen \in [Run -> View]

(* A circuit is off "closed" exactly when failure_count has reached the    *)
(* threshold: the probe keeps the count that opened the circuit, and every *)
(* way back to closed clears it.  (_BreakerEntry, awrap_tool_call)         *)
CircuitMatchesCount ==
  \A t \in CircuitTools :
    (breaker[t].state = "closed") <=> (breaker[t].failures < FailureThreshold)

(* A call that fails while its circuit is half open always re-opens it for *)
(* a full timeout, whatever other calls of the tool did since the circuit  *)
(* opened.  (CircuitBreakerMiddleware: HALF_OPEN, call fails, OPEN)        *)
FailedProbeReopens ==
  [][\A t \in CircuitTools :
       breaker[t].state = "half_open" /\ breaker'[t].failures > breaker[t].failures
         => breaker'[t].state = "open" /\ breaker'[t].cooling]_vars

(* A run lets at most tool_call_limit counted calls through to their tools *)
(* and grades at most max_revision_loops drafts, retries and interrupts    *)
(* included; and as many again for each time another run of the thread or  *)
(* a restart set the count back while it worked, and for nothing else.     *)
(* What eager tools ran on its own is not in this count (HardCap).         *)
(* (ToolCallLimitMiddleware, RevisionLoopCapMiddleware)                    *)
RunStaysInBudget ==
  \A r \in Run :
    /\ seen[r].executed <= MaxCalls * (1 + seen[r].resets)
    /\ seen[r].graded <= MaxLoops * (1 + seen[r].regrades)

(* What ToolCallLimitMiddleware is documented to do: "Hard-cap the total   *)
(* number of tool calls per agent run", counting "every tool invocation".  *)
HardCap ==
  \A r \in Run : seen[r].exclusive => seen[r].executed + seen[r].eager <= MaxCalls

(* A run that never shared the thread with another live run, nor outlived  *)
(* the process, is never blocked by what an earlier run, aborted or ended, *)
(* left behind: the failures its circuits hold are failures of its own     *)
(* calls.  (the reset in before_agent, entries captured before the await)  *)
ExclusiveRunSeesOwnFailures ==
  \A r \in Run : seen[r].exclusive /\ run[r] \in Live =>
    \A t \in CircuitTools : breaker[t].failures <= seen[r].failed[t]
=============================================================================
