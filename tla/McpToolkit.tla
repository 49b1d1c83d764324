----------------------------- MODULE McpToolkit -----------------------------
(***************************************************************************)
(* MCPToolkit and its workers (core/mcp_tools.py) as build_agent_async     *)
(* (core/agent.py) enters and leaves it around the store.  Each server has *)
(* a worker task that owns its session: it connects, resolves its future   *)
(* ready, parks until it is told to shut down, and closes.  The parent     *)
(* waits for each ready up to a timeout and keeps the workers that         *)
(* answered; a teardown gives a worker a grace period, or none when forced, *)
(* and then cancels it.  The parent may itself be cancelled at any await.  *)
(***************************************************************************)
EXTENDS FiniteSets

CONSTANT Server \* the configured servers of a supported transport

VARIABLES
  worker,    \* worker[s]: where _ServerWorker.run is
  ready,     \* ready[s]: the future worker.ready
  waiter,    \* waiter[s]: the parent's wait_for(worker.ready, timeout)
  shutdown,  \* the workers whose _shutdown event is set
  cancelled, \* the worker tasks with a cancel() not yet delivered
  teardown,  \* teardown[s]: where _await_worker_teardown(s) is
  held,      \* toolkit._workers, whose tools the agent gets
  parent     \* where build_agent_async is

toolkitVars == <<worker, ready, waiter, shutdown, cancelled, teardown, held, parent>>

ToolkitInit ==
  /\ worker = [s \in Server |-> "new"]
  /\ ready = [s \in Server |-> "pending"]
  /\ waiter = [s \in Server |-> "waiting"]
  /\ shutdown = {}
  /\ cancelled = {}
  /\ teardown = [s \in Server |-> "none"]
  /\ held = {}
  /\ parent = "starting"

-----------------------------------------------------------------------------
(* A worker.  With a cancel() pending, its next step is to receive it.     *)

Resolve(s, outcome) ==
  ready' = [ready EXCEPT ![s] = IF @ = "pending" THEN outcome ELSE @]

Connects(s) ==
  /\ worker[s] = "connecting" /\ s \notin cancelled
  /\ worker' = [worker EXCEPT ![s] = "parked"]
  /\ Resolve(s, "tools")
  /\ UNCHANGED <<waiter, shutdown, cancelled, teardown, held, parent>>

\* Fault: an exception that is not handed to whoever waits for ready.
ConnectFailsSilently(s) ==
  /\ worker[s] = "connecting" /\ s \notin cancelled
  /\ worker' = [worker EXCEPT ![s] = "closing"]
  /\ UNCHANGED <<ready, waiter, shutdown, cancelled, teardown, held, parent>>

\* An exception, or the transport cancelling its own task group.
ConnectFails(s) ==
  /\ worker[s] = "connecting" /\ s \notin cancelled
  /\ worker' = [worker EXCEPT ![s] = "closing"]
  /\ Resolve(s, "failed")
  /\ UNCHANGED <<waiter, shutdown, cancelled, teardown, held, parent>>

SeesShutdown(s) ==
  /\ worker[s] = "parked" /\ s \in shutdown /\ s \notin cancelled
  /\ worker' = [worker EXCEPT ![s] = "closing"]
  /\ UNCHANGED <<ready, waiter, shutdown, cancelled, teardown, held, parent>>

\* The transport of a parked worker breaks down.
SessionLost(s) ==
  /\ worker[s] = "parked" /\ s \notin cancelled
  /\ worker' = [worker EXCEPT ![s] = "closing"]
  /\ UNCHANGED <<ready, waiter, shutdown, cancelled, teardown, held, parent>>

\* CancelledError reaches the worker at its await.  In the finally clause it is
\* suppressed, after the exit stack has closed what else it holds.
CancelDelivered(s) ==
  /\ s \in cancelled
  /\ cancelled' = cancelled \ {s}
  /\ \/ /\ worker[s] \in {"connecting", "parked"}
        /\ worker' = [worker EXCEPT ![s] = "closing"]
        /\ Resolve(s, "failed")
     \/ /\ worker[s] = "closing"
        /\ UNCHANGED <<worker, ready>>
  /\ UNCHANGED <<waiter, shutdown, teardown, held, parent>>

Closed(s) ==
  /\ worker[s] = "closing" /\ s \notin cancelled
  /\ worker' = [worker EXCEPT ![s] = "ended"]
  /\ Resolve(s, "failed")
  /\ UNCHANGED <<waiter, shutdown, cancelled, teardown, held, parent>>

\* No session: the worker was never started, or has closed it.
Gone(s) == worker[s] \in {"new", "ended"}

-----------------------------------------------------------------------------
(* MCPToolkit.__aenter__.                                                  *)

\* The MCP file cannot be read: the agent is built without a toolkit.
NoToolkit ==
  /\ parent = "starting"
  /\ parent' = "opening"
  /\ UNCHANGED <<worker, ready, waiter, shutdown, cancelled, teardown, held>>

StartWorkers ==
  /\ parent = "starting"
  /\ parent' = "connecting"
  /\ worker' = [s \in Server |-> "connecting"]
  /\ UNCHANGED <<ready, waiter, shutdown, cancelled, teardown, held>>

\* Fault: the wait returns before the future is resolved.
WaiterReturns(s) ==
  /\ parent = "connecting" /\ waiter[s] = "waiting"
  /\ waiter' = [waiter EXCEPT ![s] = ready[s]]
  /\ UNCHANGED <<worker, ready, shutdown, cancelled, teardown, held, parent>>

WaiterResolves(s) ==
  /\ parent = "connecting" /\ waiter[s] = "waiting"
  /\ ready[s] \in {"tools", "failed"}
  /\ waiter' = [waiter EXCEPT ![s] = ready[s]]
  /\ UNCHANGED <<worker, ready, shutdown, cancelled, teardown, held, parent>>

\* wait_for gives up and cancels the future; one that was resolved at the same moment
\* keeps its result, which nobody looks at.
ConnectTimeout(s) ==
  /\ parent = "connecting" /\ waiter[s] = "waiting"
  /\ waiter' = [waiter EXCEPT ![s] = "timeout"]
  /\ Resolve(s, "cancelled")
  /\ UNCHANGED <<worker, shutdown, cancelled, teardown, held, parent>>

\* The gather returns: the loop keeps the workers that answered, and tears the others
\* down one after the other.
Gathered ==
  /\ parent = "connecting"
  /\ \A s \in Server : waiter[s] # "waiting"
  /\ held' = {s \in Server : waiter[s] = "tools"}
  /\ parent' = "rejecting"
  /\ UNCHANGED <<worker, ready, waiter, shutdown, cancelled, teardown>>

Underway(s) == teardown[s] \in {"grace", "draining"}

Reject(s) ==
  /\ parent = "rejecting"
  /\ s \notin held /\ teardown[s] = "none"
  /\ \A q \in Server : ~Underway(q)
  /\ shutdown' = shutdown \cup {s}
  /\ teardown' = [teardown EXCEPT ![s] = "grace"]
  /\ UNCHANGED <<worker, ready, waiter, cancelled, held, parent>>

\* Fault: a worker that does not end in its grace period is left alone.
GiveUp ==
  /\ parent = "rejecting"
  /\ \A s \in Server \ held : teardown[s] # "none"
  /\ parent' = "opening"
  /\ UNCHANGED <<worker, ready, waiter, shutdown, cancelled, teardown, held>>

Entered ==
  /\ parent = "rejecting"
  /\ \A s \in Server \ held : teardown[s] = "done"
  /\ parent' = "opening"
  /\ UNCHANGED <<worker, ready, waiter, shutdown, cancelled, teardown, held>>

-----------------------------------------------------------------------------
(* _await_worker_teardown and _drain_worker_task.                          *)

Cancel(S) == cancelled' = cancelled \cup {s \in S : worker[s] # "ended"}

GraceSuffices(s) ==
  /\ teardown[s] = "grace" /\ worker[s] = "ended"
  /\ teardown' = [teardown EXCEPT ![s] = "done"]
  /\ UNCHANGED <<worker, ready, waiter, shutdown, cancelled, held, parent>>

\* Fault: the grace period is over and the worker is not cancelled.
GraceExpiresMildly(s) ==
  /\ teardown[s] = "grace"
  /\ teardown' = [teardown EXCEPT ![s] = "draining"]
  /\ UNCHANGED <<worker, ready, waiter, shutdown, cancelled, held, parent>>

GraceExpires(s) ==
  /\ teardown[s] = "grace"
  /\ teardown' = [teardown EXCEPT ![s] = "draining"]
  /\ Cancel({s})
  /\ UNCHANGED <<worker, ready, waiter, shutdown, held, parent>>

Drained(s) ==
  /\ teardown[s] = "draining" /\ worker[s] = "ended"
  /\ teardown' = [teardown EXCEPT ![s] = "done"]
  /\ UNCHANGED <<worker, ready, waiter, shutdown, cancelled, held, parent>>

\* _teardown_workers: every shutdown event at once, then a task per worker.
Schedule(S) ==
  /\ shutdown' = shutdown \cup S
  /\ teardown' = [s \in Server |-> IF s \in S THEN "scheduled" ELSE teardown[s]]

StartTeardown(s) ==
  /\ teardown[s] = "scheduled"
  /\ \/ /\ parent = "closing"
        /\ teardown' = [teardown EXCEPT ![s] = "grace"]
        /\ UNCHANGED cancelled
     \/ /\ parent = "unwinding"
        /\ teardown' = [teardown EXCEPT ![s] = "draining"]
        /\ Cancel({s})
  /\ UNCHANGED <<worker, ready, waiter, shutdown, held, parent>>

Over == \A s \in Server : teardown[s] \in {"none", "done"}

-----------------------------------------------------------------------------
(* Cancellation of the parent: the task of the lifespan is cancelled.      *)

\* Fault: the workers started so far are not torn down.
CancelConnectBare ==
  /\ parent = "connecting"
  /\ ready' = [s \in Server |-> IF ready[s] = "pending" THEN "cancelled" ELSE ready[s]]
  /\ parent' = "cancelled"
  /\ UNCHANGED <<worker, waiter, shutdown, cancelled, teardown, held>>

CancelConnect ==
  /\ parent = "connecting"
  /\ ready' = [s \in Server |-> IF ready[s] = "pending" THEN "cancelled" ELSE ready[s]]
  /\ Schedule(Server)
  /\ parent' = "unwinding"
  /\ UNCHANGED <<worker, waiter, cancelled, held>>

\* In the grace period: the worker is brought down before the cancellation goes on.
CancelGrace(s) ==
  /\ parent = "rejecting" /\ teardown[s] = "grace"
  /\ teardown' = [teardown EXCEPT ![s] = "draining"]
  /\ Cancel({s})
  /\ parent' = "interrupted"
  /\ UNCHANGED <<worker, ready, waiter, shutdown, held>>

\* While draining the cancellation goes on at once, now or after CancelGrace.
CancelDrain(s) ==
  /\ parent \in {"rejecting", "interrupted"} /\ teardown[s] = "draining"
  /\ Schedule(Server)
  /\ parent' = "unwinding"
  /\ UNCHANGED <<worker, ready, waiter, cancelled, held>>

Unwind ==
  /\ parent = "interrupted"
  /\ \A s \in Server : ~Underway(s)
  /\ Schedule(Server)
  /\ parent' = "unwinding"
  /\ UNCHANGED <<worker, ready, waiter, cancelled, held>>

\* The gather of the teardowns is cancelled: a teardown that has not begun never will,
\* one in its grace period cancels its worker and drains it, one that drains stops.
CancelTeardown ==
  /\ parent \in {"unwinding", "closing", "cut"}
  /\ Cancel({s \in Server : teardown[s] = "grace"})
  /\ teardown' = [s \in Server |->
                    IF teardown[s] = "grace" THEN "draining"
                    ELSE IF teardown[s] \in {"scheduled", "draining"} THEN "done"
                    ELSE teardown[s]]
  /\ parent' = "cut"
  /\ UNCHANGED <<worker, ready, waiter, shutdown, held>>

Torn ==
  /\ parent \in {"unwinding", "closing", "cut"}
  /\ Over
  /\ parent' = IF parent = "closing" THEN "closed" ELSE "cancelled"
  /\ UNCHANGED <<worker, ready, waiter, shutdown, cancelled, teardown, held>>

-----------------------------------------------------------------------------
(* build_agent_async around the toolkit.                                   *)

StoreOpens ==
  /\ parent = "opening"
  /\ parent' = "serving"
  /\ UNCHANGED <<worker, ready, waiter, shutdown, cancelled, teardown, held>>

\* The store cannot be entered, before the try that would leave the toolkit, or
\* cannot be left, in the finally clause before the toolkit.
StoreDoesNotOpen ==
  /\ parent \in {"opening", "serving"}
  /\ parent' = "failed"
  /\ UNCHANGED <<worker, ready, waiter, shutdown, cancelled, teardown, held>>

aexit ==
  /\ parent = "serving"
  /\ Schedule(held)
  /\ held' = {}
  /\ parent' = "closing"
  /\ UNCHANGED <<worker, ready, waiter, cancelled>>

-----------------------------------------------------------------------------
WorkerStep(s) ==
  \/ Connects(s) \/ ConnectFails(s) \/ SeesShutdown(s) \/ SessionLost(s)
  \/ CancelDelivered(s) \/ Closed(s)

EnterStep(s) == WaiterResolves(s) \/ ConnectTimeout(s) \/ Reject(s)

TeardownStep(s) == StartTeardown(s) \/ GraceSuffices(s) \/ GraceExpires(s) \/ Drained(s)

ParentStep == NoToolkit \/ StartWorkers \/ Gathered \/ Entered \/ Unwind \/ Torn

ParentIsCancelled ==
  \/ CancelConnect \/ CancelTeardown
  \/ \E s \in Server : CancelGrace(s) \/ CancelDrain(s)

ToolkitNext ==
  \/ \E s \in Server : WorkerStep(s) \/ EnterStep(s) \/ TeardownStep(s)
  \/ ParentStep
  \/ ParentIsCancelled
  \/ StoreOpens \/ StoreDoesNotOpen \/ aexit

ToolkitSpec == ToolkitInit /\ [][ToolkitNext]_toolkitVars

\* Tasks that are ready run, timers fire, and closing a session ends (its requests have
\* timeouts).  Nothing is assumed of a server's answer to a connect.
Fairness ==
  /\ WF_toolkitVars(ParentStep)
  /\ \A s \in Server :
       /\ WF_toolkitVars(EnterStep(s)) /\ WF_toolkitVars(TeardownStep(s))
       /\ WF_toolkitVars(SeesShutdown(s)) /\ WF_toolkitVars(CancelDelivered(s))
       /\ WF_toolkitVars(Closed(s))

FairToolkitSpec == ToolkitSpec /\ Fairness

-----------------------------------------------------------------------------
ToolkitTypeOK ==
  /\ worker \in [Server -> {"new", "connecting", "parked", "closing", "ended"}]
  /\ ready \in [Server -> {"pending", "tools", "failed", "cancelled"}]
  /\ waiter \in [Server -> {"waiting", "tools", "failed", "timeout"}]
  /\ shutdown \subseteq Server
  /\ cancelled \subseteq Server
  /\ teardown \in [Server -> {"none", "scheduled", "grace", "draining", "done"}]
  /\ held \subseteq Server
  /\ parent \in {"starting", "connecting", "rejecting", "interrupted", "unwinding", "opening",
                 "serving", "closing", "cut", "closed", "cancelled", "failed"}

(* Nobody waits out the timeout for a worker that has already failed: a    *)
(* worker that is closing or gone has resolved its future, or nobody waits *)
(* for it any more.  (_ServerWorker.run, every way to its finally clause)  *)
ReadyResolved ==
  \A s \in Server : worker[s] \in {"closing", "ended"} => ready[s] # "pending"

(* When the agent is built, the only sessions are those whose tools it     *)
(* has: a worker that was late, timed out or failed has ended, even if its *)
(* server answered after the timeout.  (__aenter__, the teardown loop)     *)
NoStrayWorker ==
  parent \in {"opening", "serving"} => \A s \in Server \ held : Gone(s)

(* An exit that nobody cancelled leaves no session behind, and one that    *)
(* was cancelled, once or many times, has told every worker to stop, or    *)
(* found it gone.  (_teardown_workers)                                     *)
NoSessionOutlivesToolkit ==
  /\ parent = "closed" => \A s \in Server : Gone(s)
  /\ parent = "cancelled" => \A s \in Server : s \in shutdown \/ Gone(s)

Busy == {"connecting", "rejecting", "interrupted", "unwinding", "closing", "cut"}

(* A server that never answers holds up neither the boot nor the shutdown. *)
(* (connect timeout, grace period, forced cancel)                          *)
ToolkitSettles == parent \in Busy ~> parent \notin Busy
=============================================================================
