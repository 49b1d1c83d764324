----------------------------- MODULE AgentTurn -----------------------------
(***************************************************************************)
(* One turn of the agent as build_agent_async puts it together             *)
(* (core/agent.py, core/middleware.py, core/middleware_adapters.py): the   *)
(* calls of the model through the layers that wrap them, tools that start  *)
(* while the model still streams, the review by a human, and the tools'    *)
(* own step with its retries.  The caps and the circuits around a tool     *)
(* call, which answer in the tool's stead, are in ToolCallStack.           *)
(***************************************************************************)
EXTENDS Tools, Plugins, FiniteSets

CONSTANTS
  Tool,        \* the tools the model asks for
  File,        \* files that plugins may be loaded from, a sequence
  Document,    \* what the places of ossia.json may hold, a set of sequences
  MaxAttempts, \* settings.model_retry_max_attempts
  MaxToolAttempts, \* settings.retry_max_attempts
  MaxAsked, MaxRounds \* bounds: tools a stream asks for, calls of the model in a turn

ASSUME BoundsAssumption ==
  /\ MaxAttempts \in Nat \ {0} /\ MaxToolAttempts \in Nat \ {0}
  /\ MaxAsked \in Nat /\ MaxRounds \in Nat
  /\ \A t \in Tool : t \in STRING

\* A file has one path; the lists of files and of entries are finite sequences.
ASSUME FilesAssumption ==
  /\ File \in Seq(ToSet(File))
  /\ \A i, j \in DOMAIN File : File[i].path = File[j].path => i = j
  /\ \A documents \in Document :
       /\ documents \in Seq(ToSet(documents))
       /\ \A d \in ToSet(documents) :
            d.form \notin {"absent", "invalid"} => d.entries \in Seq(ToSet(d.entries))

VARIABLES
  flags,      \* settings: a fallback model, eager tools, human review
  entries,    \* the plugins ossia.json declares
  plugins,    \* those the agent was built with
  at,         \* where the turn is
  request,    \* the ModelRequest: its model, how often bound, and its tools
  attempt,    \* of ModelRetryMiddleware
  sent,       \* the calls the providers have got in this round
  response,   \* the tools asked for in the stream so far
  dispatched, \* those eager tools has the results of
  approved,   \* those a human has let through
  effects,    \* effects[t]: how often t has run in this round, to its end or not
  tries,      \* tries[t]: how often it has raised in the tool step of this round
  answers,    \* what the last tool of the round has answered, if it has run
  mem0,       \* _memory and _mem0_config_error of the process
  kb,         \* _kb_cache of the process
  round

built == <<flags, entries, plugins>>
process == <<mem0, kb>>
vars == <<built, at, request, attempt, sent, response, dispatched, approved, effects, tries,
          answers, process, round>>

-----------------------------------------------------------------------------
(* What the agent is made of.                                              *)

\* create_core_tools; MCP tools and those of the filesystem are not among them.
CoreTools ==
  {"qna_search", "fetch_issue", "create_pr", "grade_response", "send_response",
   "search_memory", "add_memory", "run_bugfix_pipeline", "run_audit_pipeline",
   "run_refactor_pipeline"}

\* _SUBAGENT_TOOL_MAP and _resolve_web_reviewer_tools: what a delegation (the tool
\* "task") can end up running, MCP tools aside.  A subagent's specification names no
\* middleware: the layers are not around the tools it runs.
Delegated ==
  {"search_codebase", "search_knowledge_base", "run_tests", "internet_search", "fetch_url",
   "browser_use_task"}

\* _EXTERNAL_TOOLS
RetryTools == {"search_knowledge_base", "search_codebase", "send_response", "fetch_issue"}

\* _interrupt_config: calls that wait for a human.
Gated == IF flags.review THEN {"send_response", "create_pr", "write_file"} ELSE {}

EagerDeny ==
  {"send_response", "create_pr", "grade_response", "run_bugfix_pipeline",
   "run_audit_pipeline", "run_refactor_pipeline", "start_async_task",
   "cancel_async_task", "evaluate"}

\* Fault: the adapter looks only at the tool's attribute, which none has.
IdempotentByDefault(t) == TRUE

\* EagerToolAdapter.idempotent: what is not on the list and has no attribute is.
Idempotent(t) == t \notin EagerDeny

\* _compile_agent: with the plugins' tools and those of core/episodic.py, whose
\* stores are taken to be configured.
OwnTools ==
  CoreTools \cup PluginTools(plugins)
  \cup {"recall_thread_turns", "search_threads", "semantic_recall"}

\* Tools of files that may be plugins; the model may ask for one that is not loaded.
Foreign == UNION {f.tools : f \in ToSet(File)}
Bound(t) == t \in Foreign => t \in OwnTools

\* Of the tools of core/ it is known which can raise.
MayRaise(t) == t \in Tools \ Foreign => Raised \in Answers[t]

\* RetryToolMiddleware: the attempts a call has in the tool step.
Attempts(t) == IF t \in RetryTools /\ MayRaise(t) THEN MaxToolAttempts ELSE 1

\* eager_tool_map covers the agent's own tools.
Eagerly(t) == flags.eager /\ t \in OwnTools /\ Idempotent(t)

\* _build_middlewares and _compile_agent, outermost first; layers that change
\* neither model nor tools nor prompt of a call are left out.
Layers ==
  <<"ModelRetry">> \o (IF flags.fallback THEN <<"ModelFallback">> ELSE <<>>)
  \o <<"ForceToolChoice">> \o (IF flags.eager THEN <<"Eager">> ELSE <<>>)
  \o (IF PluginLayer(plugins) THEN <<"Plugin">> ELSE <<>>) \o <<"CallerContext">>

\* The layers a call passes: eager tools calls the model itself, and what is
\* further in is never asked.
Passed ==
  ToSet(IF flags.eager THEN SubSeq(Layers, 1, SelectInSeq(Layers, LAMBDA l : l = "Eager"))
        ELSE Layers)

\* _ForceToolChoice._enforce: binds the tools onto the model and empties the list.
Enforce(req) ==
  IF req.tools /\ "ForceToolChoice" \in Passed
  THEN [req EXCEPT !.bound = @ + 1, !.tools = FALSE]
  ELSE req

\* Fault: the request is changed in place, not overridden.
KeptInPlace(req) == Enforce(req)

\* The request the layers further out keep: override makes a copy.
Kept(req) == req

\* What reaches the provider; the model's own node binds the tools that are left.
ProviderCall(req) ==
  LET inner == Enforce(req) IN
  [model |-> inner.model,
   bound |-> inner.bound + (IF inner.tools /\ "Eager" \notin Passed THEN 1 ELSE 0),
   caller |-> "CallerContext" \in Passed]

FreshRequest == [model |-> "primary", bound |-> 0, tools |-> TRUE]

Init ==
  /\ flags \in [fallback : BOOLEAN, eager : BOOLEAN, review : BOOLEAN]
  /\ entries \in {LoadConfig(documents) : documents \in Document}
  /\ plugins = Discover(entries, File)
  /\ at = "call"
  /\ request = FreshRequest
  /\ attempt = 1
  /\ sent = <<>>
  /\ response = {} /\ dispatched = {} /\ approved = {}
  /\ effects = [t \in Tool |-> 0] /\ tries = [t \in Tool |-> 0]
  /\ answers = {}
  /\ mem0 = "unset" /\ kb = "unset"
  /\ round = 1

-----------------------------------------------------------------------------
(* The call of the model.                                                  *)

\* ModelRetry, ModelFallback and the layers inside them hand on the request.
CallModel ==
  /\ at = "call"
  /\ sent' = Append(sent, ProviderCall(request))
  /\ request' = Kept(request)
  /\ at' = "stream"
  /\ response' = {} /\ dispatched' = {}
  /\ UNCHANGED <<built, attempt, approved, effects, tries, answers, process, round>>

\* _get_memory: the first call of the process builds the memory or keeps the error
\* for good.
GetMemory(t) ==
  mem0' \in IF t \in MemoryTools /\ mem0 = "unset" THEN {"built", "failed"} ELSE {mem0}

\* The stream completes the call of tool t.  Eager tools runs it at once; when
\* that raises, the tool step runs it again.
Seal(t) ==
  /\ at = "stream" /\ t \notin response /\ Cardinality(response) < MaxAsked
  /\ response' = response \cup {t}
  /\ IF Eagerly(t)
     THEN /\ dispatched' \in {dispatched, dispatched \cup {t}}
          /\ effects' = [effects EXCEPT ![t] = @ + 1]
          /\ GetMemory(t)
     ELSE UNCHANGED <<dispatched, effects, mem0>>
  /\ UNCHANGED <<built, at, request, attempt, sent, approved, tries, answers, kb, round>>

\* Fault: the fallback model stays in the request.
RetryKeepsFallback ==
  /\ IF attempt < MaxAttempts
     THEN at' = "call" /\ attempt' = attempt + 1
     ELSE at' = "failed" /\ UNCHANGED attempt
  /\ UNCHANGED request

\* Fault: one attempt too many.
RetryOffByOne ==
  /\ request' = [request EXCEPT !.model = "primary",
                               !.bound = IF request.model = "fallback" THEN 0 ELSE @]
  /\ IF attempt =< MaxAttempts
     THEN at' = "call" /\ attempt' = attempt + 1
     ELSE at' = "failed" /\ UNCHANGED attempt

\* ModelFallback puts the model back and raises; ModelRetry tries again or gives up.
Retry ==
  /\ request' = [request EXCEPT !.model = "primary",
                               !.bound = IF request.model = "fallback" THEN 0 ELSE @]
  /\ IF attempt < MaxAttempts
     THEN at' = "call" /\ attempt' = attempt + 1
     ELSE at' = "failed" /\ UNCHANGED attempt

\* A rate limit, a timeout, a lost connection or a server error, at any point of
\* the stream.  The answer so far is dropped; what ran of it has run.
TransientFailure ==
  /\ at = "stream"
  /\ IF flags.fallback /\ request.model = "primary"
     THEN /\ request' = [request EXCEPT !.model = "fallback", !.bound = 0]
          /\ at' = "call"
          /\ UNCHANGED attempt
     ELSE Retry
  /\ response' = {} /\ dispatched' = {}
  /\ UNCHANGED <<built, sent, approved, effects, tries, answers, process, round>>

\* Any other exception passes both layers.
FatalFailure ==
  /\ at = "stream"
  /\ at' = "failed"
  /\ UNCHANGED <<built, request, attempt, sent, response, dispatched, approved, effects,
                 tries, answers, process, round>>

\* The stream ends: no tools, the answer of the turn; or a human is asked first.
EndStream ==
  /\ at = "stream"
  /\ at' = CASE response = {}                -> "done"
             [] response \cap Gated # {}     -> "review"
             [] OTHER                        -> "tools"
  /\ UNCHANGED <<built, request, attempt, sent, response, dispatched, approved, effects,
                 tries, answers, process, round>>

-----------------------------------------------------------------------------
(* The review and the tools.                                               *)

\* thread_resume: a rejected call is answered without being run.
Review ==
  /\ at = "review"
  /\ approved' \in SUBSET (response \cap Gated)
  /\ response' = response \ (Gated \ approved')
  /\ at' = "tools"
  /\ UNCHANGED <<built, request, attempt, sent, dispatched, effects, tries, answers, process,
                 round>>

\* create_kb: the first read of Redis that succeeds is kept for good.
GetSnapshot(t) == kb' \in IF t = "task" /\ kb = "unset" THEN {"unset", "kept"} ELSE {kb}

\* Fault: add_memory and search_memory go on without the memory.
AnswersWithoutMemory(t) ==
  IF t = "search_knowledge_base" THEN KbAnswers[kb' = "kept"] ELSE Answers[t]

\* What tool t may answer, a delegation what the tool it ends up running does.
AnswersNow(t) ==
  CASE t \in MemoryTools /\ mem0' = "failed" -> {NoMemory}
    [] t = "search_knowledge_base"           -> KbAnswers[kb' = "kept"]
    [] OTHER                                 -> Answers[t]
Outcomes(t) ==
  IF t = "task" THEN UNION {{u} \X AnswersNow(u) : u \in Delegated}
  ELSE IF t \in Tools \ Foreign THEN {t} \X AnswersNow(t)
  ELSE {}
ComesTo(t, raised) ==
  LET pairs == {pair \in Outcomes(t) : pair[2].raised = raised}
  IN answers' \in IF pairs = {} THEN {{}} ELSE {{pair} : pair \in pairs}

\* A call eager tools has the result of, or one that runs in the tool step.
RunTool(t) ==
  /\ at = "tools" /\ t \in response
  /\ response' = response \ {t}
  /\ effects' = IF t \in dispatched \/ ~Bound(t) THEN effects
                ELSE [effects EXCEPT ![t] = @ + 1]
  /\ GetMemory(t) /\ GetSnapshot(t)
  /\ ComesTo(t, FALSE)
  /\ UNCHANGED <<built, at, request, attempt, sent, dispatched, approved, tries, round>>

\* It raises, and is run again after a pause; what its last attempt raises ends the
\* turn, or the tool node makes an answer of it.
RaiseTool(t) ==
  /\ at = "tools" /\ t \in response \ dispatched /\ Bound(t) /\ MayRaise(t)
  /\ effects' = [effects EXCEPT ![t] = @ + 1]
  /\ tries' = [tries EXCEPT ![t] = @ + 1]
  /\ IF tries[t] + 1 < Attempts(t)
     THEN UNCHANGED <<at, response, answers, kb>>
     ELSE /\ at' \in {"tools", "failed"} /\ response' = response \ {t}
          /\ GetSnapshot(t)
          /\ ComesTo(t, TRUE)
  /\ UNCHANGED <<built, request, attempt, sent, dispatched, approved, mem0, round>>

\* A cap or an open circuit answers in the tool's stead.
Withhold(t) ==
  /\ at = "tools" /\ t \in response
  /\ response' = response \ {t} /\ answers' = {}
  /\ UNCHANGED <<built, at, request, attempt, sent, dispatched, approved, effects, tries,
                 process, round>>

\* With all results in, the model is called again.
NextRound ==
  /\ at = "tools" /\ response = {} /\ round < MaxRounds
  /\ at' = "call"
  /\ request' = FreshRequest
  /\ attempt' = 1
  /\ sent' = <<>>
  /\ dispatched' = {} /\ approved' = {} /\ answers' = {}
  /\ effects' = [t \in Tool |-> 0] /\ tries' = [t \in Tool |-> 0]
  /\ round' = round + 1
  /\ UNCHANGED <<built, response, process>>

Next ==
  \/ CallModel \/ TransientFailure \/ FatalFailure \/ EndStream \/ Review \/ NextRound
  \/ \E t \in Tool : Seal(t) \/ RunTool(t) \/ RaiseTool(t) \/ Withhold(t)

Spec == Init /\ [][Next]_vars

-----------------------------------------------------------------------------
(* Properties.                                                             *)

Call == [model : {"primary", "fallback"}, bound : Nat, caller : BOOLEAN]

\* Types: the request, the calls, and the tools of the round.
TypeOK ==
  /\ flags \in [fallback : BOOLEAN, eager : BOOLEAN, review : BOOLEAN]
  /\ \A i \in DOMAIN plugins : plugins[i].file \in ToSet(File)
  /\ at \in {"call", "stream", "review", "tools", "done", "failed"}
  /\ request \in [model : {"primary", "fallback"}, bound : Nat, tools : BOOLEAN]
  /\ attempt \in 1..MaxAttempts
  /\ sent \in Seq(Call)
  /\ {response, dispatched, approved} \subseteq SUBSET Tool
  /\ effects \in [Tool -> Nat] /\ tries \in [Tool -> Nat]
  /\ answers \subseteq Tools \X AnswerSet
  /\ mem0 \in {"unset", "built", "failed"} /\ kb \in {"unset", "kept"}
  /\ round \in Nat

\* However the calls of a round fail, every attempt asks the primary model first
\* and the fallback once after it, no provider is asked more than max_attempts
\* times, and every one of these calls goes out with the tools bound exactly once:
\* a second binding raises, and without one the model believes it has no tools.
ProviderCalls ==
  /\ Len(sent) =< MaxAttempts * (IF flags.fallback THEN 2 ELSE 1)
  /\ \A i \in DOMAIN sent :
       /\ sent[i].model = IF flags.fallback /\ i % 2 = 0 THEN "fallback" ELSE "primary"
       /\ sent[i].bound = 1

\* The agent is built with the plugins ossia.json declares.
DeclaredPluginsLoaded == PluginsAsDeclared(entries, File, plugins)

\* A tool that sends, opens or starts something runs only after the model has
\* finished asking for it and once in a round, whatever fails (send_response is among
\* the retried, but nothing in it raises); none that waits for a human runs before it
\* is approved, but a plugin's that has taken the name of one that is on no list.  Any
\* other tool of the agent, add_memory and the tools of plugins among them, can run
\* once for each call of a provider that streamed it, and in the tool step once more,
\* or as often as it is retried there; a plugin's only if ossia.json has it loaded.
EffectsHeldBack ==
  /\ DeclaredPluginsLoaded
  /\ \A t \in Tool :
       /\ t \in Gated /\ effects[t] > 0 =>
            t \in approved \/ t \in PluginTools(plugins) \ EagerDeny
       /\ effects[t] > 0 => t \in OwnTools \ EagerDeny \/ at \in {"tools", "failed"}
       /\ t \in EagerDeny \ Foreign => effects[t] =< 1
       /\ effects[t] =<
            Attempts(t) + (IF t \in OwnTools \ EagerDeny THEN Len(sent) ELSE 0)
       /\ t \in Foreign /\ effects[t] > 0 => t \in OwnTools

\* An answer says where it comes from, if it comes from anywhere.
Named(answer) ==
  answer.from # "" =>
    answer.says = answer.from \/ (answer.from = "page" /\ answer.says = "duckduckgo")

\* And it is what has become of the tool: one of the agent's own has run in this round,
\* as often as it is retried when it comes to its exception; the memory answers with
\* something only where its first use in the process has succeeded; and the web is asked
\* in the knowledge base's stead only where that has been read, which raises only until
\* then.
Honest(t, answer) ==
  /\ Named(answer)
  /\ t \in Tool \ Delegated => effects[t] >= IF answer.raised THEN Attempts(t) ELSE 1
  /\ t \in MemoryTools /\ answer.holds => mem0 = "built"
  /\ t = "search_knowledge_base" =>
       /\ answer.says = "duckduckgo" => kb = "kept"
       /\ answer.raised => kb = "unset"

\* Whatever state the services are in, and in whatever order they fail and the tools
\* are retried, no answer passes for what it is not.
AnswersHonest == \A pair \in answers : Honest(pair[1], pair[2])

\* The identity of the caller is in the prompt of every call of the model
\* (_compile_agent: "visible in every LLM turn").
CallerInPrompt == \A i \in DOMAIN sent : sent[i].caller

=============================================================================
