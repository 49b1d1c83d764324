------------------------------- MODULE Tools -------------------------------
(***************************************************************************)
(* What the tools of core/tools.py, core/mem0_tools.py, core/episodic.py,  *)
(* core/browser_use_tool.py and core/orchestrators/tools.py answer in      *)
(* every state of the services they call.  A service is "up", has nothing  *)
(* to say ("empty"), is "down", or answers what cannot be read; a tool     *)
(* answers with where the answer says it comes from, where it does come    *)
(* from, whether it holds anything a model would take for a result, and    *)
(* whether it raised.  The circuit and the retries around a tool see only  *)
(* the last.                                                               *)
(***************************************************************************)
EXTENDS Naturals

\* The services: a Tavily key and Tavily, DuckDuckGo, web pages; the one service
\* of any other tool (GitHub, a local program, a store, a browser, RediSearch), which
\* may also be cut off half-way, or be "broken": not start at all, or answer what is
\* not in its format; what the knowledge base of the process has, if it can be read;
\* whether a page is fetched to answer a question, and whether the request and the
\* settings it needs are well formed.
World ==
  [key : BOOLEAN, tavily : {"up", "empty", "down", "garbled"}, ddg : {"up", "empty", "down"},
   page : {"up", "down"}, service : {"up", "empty", "down", "cut off", "broken"},
   snapshot : {"hits", "nothing", "unread"}, question : BOOLEAN, valid : BOOLEAN]

Answer(says, from, holds) == [says |-> says, from |-> from, holds |-> holds, raised |-> FALSE]
Raised == [says |-> "", from |-> "", holds |-> FALSE, raised |-> TRUE]
AnswerSet ==
  [says : {"", "tavily", "duckduckgo", "github", "local", "kb", "memory", "threads", "browser"},
   from : {"", "tavily", "duckduckgo", "page", "github", "local", "kb", "memory", "threads",
           "browser"},
   holds : BOOLEAN, raised : BOOLEAN]

\* Fault: the backend is named before the call has succeeded.
TavilyFirstTagsEarly(w, served, fallback) ==
  IF w.key /\ w.tavily # "down" THEN served
  ELSE [fallback EXCEPT !.says = IF w.key THEN "tavily" ELSE "duckduckgo"]

\* _tavily_first: Tavily with a key, else or when it fails the fallback, whose
\* own failure is an answer with nothing in it.
TavilyFirst(w, served, fallback) == IF w.key /\ w.tavily # "down" THEN served ELSE fallback

DdgAnswer(w) ==
  IF w.ddg = "up" THEN Answer("duckduckgo", "duckduckgo", TRUE)
  ELSE Answer("duckduckgo", "", FALSE)

\* internet_search reads Tavily's answer, and raises on what it cannot read, after
\* _tavily_first has returned.
InternetSearch(w) ==
  TavilyFirst(w, IF w.tavily = "garbled" THEN Raised
                 ELSE Answer("tavily", "tavily", w.tavily = "up"),
              DdgAnswer(w))

\* qna_search with _ddg_search_for_answer: whatever Tavily answers is made a string.
QnaSearch(w) == TavilyFirst(w, Answer("tavily", "tavily", w.tavily # "empty"), DdgAnswer(w))

\* _fetch_url_text: a page that cannot be fetched is answered with the error's text.
PageAnswer(w) == Answer("duckduckgo", IF w.page = "up" THEN "page" ELSE "", TRUE)

\* fetch_url with _ddg_fetch_url_via_search: with a question, the top hit is fetched;
\* Tavily's answer is read as in internet_search.
FetchUrl(w) ==
  TavilyFirst(w, IF w.tavily = "garbled" THEN Raised
                 ELSE Answer("tavily", "tavily", w.tavily = "up"),
              IF w.question /\ w.ddg # "up" THEN Answer("duckduckgo", "", FALSE)
              ELSE PageAnswer(w))

\* An answer of a service whose failure is told by an answer without a result.
Told(name, w) ==
  Answer(name, IF w.service \in {"up", "empty"} THEN name ELSE "", w.valid /\ w.service = "up")

\* fetch_issue: a bad repository, an outage and an HTTP error are issues of their own;
\* a page that is not JSON raises.
FetchIssue(w) ==
  CASE w.valid /\ w.service = "up"     -> Answer("github", "github", TRUE)
    [] w.valid /\ w.service = "broken" -> Raised
    [] OTHER                           -> Answer("github", "", TRUE)

\* create_pr: number 0 whenever the request, the head, the token or GitHub is missing;
\* a reply that is not JSON raises, though the pull request may be open.
CreatePr(w) == IF w.valid /\ w.service = "broken" THEN Raised ELSE Told("github", w)

\* search_codebase: no ripgrep, a timeout or a bad exit are no matches; a ripgrep that
\* cannot be started, and a match or a path that is not text, raise.
SearchCodebase(w) == IF w.service = "broken" THEN Raised ELSE Told("local", w)

\* search_knowledge_base: RediSearch's hits, else those of the snapshot of the process
\* (create_kb), else the web's; a snapshot that is yet to be read and cannot be raises.
SearchKnowledgeBase(w) ==
  CASE w.service = "up" \/ w.snapshot = "hits" -> Answer("kb", "kb", TRUE)
    [] w.service # "up" /\ w.snapshot = "unread" -> Raised
    [] OTHER -> DdgAnswer(w)

\* run_tests: a timeout and a missing command are failed tests; a command that
\* cannot be split or started, and output that is not text, raise.
RunTests(w) == IF w.service = "broken" THEN Raised ELSE Answer("local", "local", TRUE)

\* propose_fix only looks at what it is given; a name no file can have raises.
ProposeFix(w) == IF w.service = "broken" THEN Raised ELSE Answer("local", "local", w.valid)

\* grade_response
GradeResponse(w) == Answer("local", "local", TRUE)

\* send_response only confirms.
SendResponse(w) == Answer("local", "local", TRUE)

\* run_bugfix_pipeline, run_audit_pipeline, run_refactor_pipeline: a script that
\* the agent is told to run.
Pipeline(w) == Answer("local", "local", TRUE)

\* search_memory
SearchMemory(w) == Told("memory", w)

\* add_memory: there is nothing to be empty of.
AddMemory(w) == Told("memory", IF w.service = "empty" THEN [w EXCEPT !.service = "up"] ELSE w)

\* What both answer when the memory could not be built.
NoMemory == Answer("memory", "", FALSE)

\* recall_thread_turns: a checkpointer that fails is an answer without turns.
RecallThreadTurns(w) == Told("threads", w)

\* search_threads catches nothing; without a caller it does not ask.
SearchThreads(w) ==
  IF w.valid /\ w.service \notin {"up", "empty"} THEN Raised ELSE Told("threads", w)

\* semantic_recall
SemanticRecall(w) == Told("threads", w)

\* browser_use_task: what is missing and what the run raises are answers that say
\* so; a run that stops before it has a verdict counts as a success.
BrowserUseTask(w) ==
  IF w.valid /\ w.service = "cut off" THEN Answer("browser", "", TRUE) ELSE Told("browser", w)

MemoryTools == {"search_memory", "add_memory"}
Tools ==
  MemoryTools \cup
  {"internet_search", "qna_search", "fetch_url", "fetch_issue", "create_pr", "search_codebase",
   "search_knowledge_base", "run_tests", "propose_fix", "grade_response", "send_response",
   "run_bugfix_pipeline", "run_audit_pipeline", "run_refactor_pipeline",
   "recall_thread_turns", "search_threads", "semantic_recall", "browser_use_task"}

AnswerOf(t, w) ==
  CASE t = "internet_search"     -> InternetSearch(w)
    [] t = "qna_search"          -> QnaSearch(w)
    [] t = "fetch_url"           -> FetchUrl(w)
    [] t = "fetch_issue"         -> FetchIssue(w)
    [] t = "create_pr"           -> CreatePr(w)
    [] t = "search_codebase"     -> SearchCodebase(w)
    [] t = "search_knowledge_base" -> SearchKnowledgeBase(w)
    [] t = "run_tests"           -> RunTests(w)
    [] t = "propose_fix"         -> ProposeFix(w)
    [] t = "grade_response"      -> GradeResponse(w)
    [] t = "send_response"       -> SendResponse(w)
    [] t = "search_memory"       -> SearchMemory(w)
    [] t = "add_memory"          -> AddMemory(w)
    [] t = "recall_thread_turns" -> RecallThreadTurns(w)
    [] t = "search_threads"      -> SearchThreads(w)
    [] t = "semantic_recall"     -> SemanticRecall(w)
    [] t = "browser_use_task"    -> BrowserUseTask(w)
    [] OTHER                     -> Pipeline(w)

\* What each tool may answer, whatever the world is like; and the knowledge base, with
\* a snapshot and without.
Answers == [t \in Tools |-> {AnswerOf(t, w) : w \in World}]
KbAnswers ==
  [kept \in BOOLEAN |->
     {SearchKnowledgeBase(w) : w \in {v \in World : (v.snapshot # "unread") = kept}}]

=============================================================================
