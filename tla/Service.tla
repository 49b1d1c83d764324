------------------------------ MODULE Service ------------------------------
(***************************************************************************)
(* Servers that start, serve, stop and crash (lifespan in core/api.py,     *)
(* build_agent_async in core/agent.py, the connections of core/memory.py   *)
(* and core/redis_client.py) and share one knowledge base.  A server opens *)
(* its checkpointer, loads the knowledge base, opens MCP toolkit and store *)
(* and compiles the agent; every one of these can fail, and so can every   *)
(* close.                                                                  *)
(***************************************************************************)
EXTENDS KnowledgeBase

VARIABLES
  settings, \* what the environment configures, the same for every server
  at,       \* at[p]: what p does next
  open,     \* open[p]: the connections and sessions p holds
  failed    \* failed[p]: the steps of this life of p that raised

vars == <<kbVars, settings, at, open, failed>>

Resource == {"checkpointer", "redis", "toolkit", "store"}

\* Settings: an API key, ENABLE_HUMAN_REVIEW, REDIS_URL, POSTGRES_URL, KB_SOURCE_URLS.
Settings == [key : BOOLEAN, review : BOOLEAN, redis : BOOLEAN, postgres : BOOLEAN, sources : BOOLEAN]

Init ==
  /\ KbInit
  /\ settings \in Settings
  /\ at = [p \in Process |-> "off"]
  /\ open = [p \in Process |-> {}]
  /\ failed = [p \in Process |-> {}]

Goto(p, step) == at' = [at EXCEPT ![p] = step]
Opens(p, r) == open' = [open EXCEPT ![p] = @ \cup {r}]
Closes(p, r) == open' = [open EXCEPT ![p] = @ \ {r}]
Fails(p, step) == failed' = [failed EXCEPT ![p] = @ \cup {step}]

\* The checkpointer and the store are connections when either URL is set.
Persistent == settings.redis \/ settings.postgres

-----------------------------------------------------------------------------
(* Starting.                                                               *)

\* _require_api_key_at_startup and the check of human review, which refuse the start.
Start(p) ==
  /\ at[p] = "off"
  /\ settings.key
  /\ settings.review => Persistent
  /\ Goto(p, "checkpointer")
  /\ UNCHANGED <<kbVars, settings, open, failed>>

\* get_redis_checkpointer or get_checkpointer, entered on the exit stack; a
\* setup that raises closes the connection it made.  Neither: InMemorySaver.
OpenCheckpointer(p) ==
  /\ at[p] = "checkpointer"
  /\ Goto(p, "sources")
  /\ IF Persistent THEN Opens(p, "checkpointer") ELSE UNCHANGED open
  /\ UNCHANGED <<kbVars, settings, failed>>

CheckpointerFails(p) ==
  /\ at[p] = "checkpointer" /\ Persistent
  /\ Goto(p, "ended")
  /\ Fails(p, "checkpointer")
  /\ UNCHANGED <<kbVars, settings, open>>

\* The first get_async_redis makes the clients; without REDIS_URL there are none.
UsesRedis(p) == IF settings.redis THEN Opens(p, "redis") ELSE UNCHANGED open

SourcesBegin(p) ==
  /\ at[p] = "sources"
  /\ settings.sources
  /\ UsesRedis(p)
  /\ IF settings.redis
     THEN Goto(p, "loading") /\ BeginLoad(p)
     ELSE Goto(p, "model") /\ UNCHANGED kbVars
  /\ UNCHANGED <<settings, failed>>

NoSources(p) ==
  /\ at[p] = "sources" /\ ~settings.sources
  /\ Goto(p, "model")
  /\ UNCHANGED <<kbVars, settings, open, failed>>

Load(p) ==
  /\ at[p] = "loading"
  /\ \/ (Fetch(p) \/ ReadOld(p)) /\ UNCHANGED at
     \/ (Replace(p) \/ AbandonLoad(p)) /\ Goto(p, "model")
  /\ UNCHANGED <<settings, open, failed>>

-----------------------------------------------------------------------------
(* build_agent_async.                                                      *)

\* create_chat_model raises without a key or for a provider that is gone; the
\* exit stack then closes the checkpointer.
CreateModel(p) ==
  /\ at[p] = "model"
  /\ \/ Goto(p, "toolkit") /\ UNCHANGED failed
     \/ Goto(p, "exit checkpointer") /\ Fails(p, "model")
  /\ UNCHANGED <<kbVars, settings, open>>

\* MCPToolkit.__aenter__; a failure leaves the agent without MCP tools.
OpenToolkit(p) ==
  /\ at[p] = "toolkit"
  /\ Goto(p, "store")
  /\ Opens(p, "toolkit") \/ UNCHANGED open
  /\ UNCHANGED <<kbVars, settings, failed>>

\* get_redis_store, get_store or an InMemoryStore, and seed_memory, whose
\* failure is logged and whose lock uses the Redis clients.
OpenStore(p) ==
  /\ at[p] = "store"
  /\ Goto(p, "compile")
  /\ open' = [open EXCEPT ![p] =
       @ \cup (IF Persistent THEN {"store"} ELSE {})
         \cup (IF settings.redis THEN {"redis"} ELSE {})]
  /\ UNCHANGED <<kbVars, settings, failed>>

\* The store is entered outside the try: nothing closes the toolkit any more.
StoreFails(p) ==
  /\ at[p] = "store" /\ Persistent
  /\ Goto(p, "exit checkpointer")
  /\ Fails(p, "store")
  /\ UNCHANGED <<kbVars, settings, open>>

\* load_plugins_into and _compile_agent; a failure runs the finally clause.
Compile(p) ==
  /\ at[p] = "compile"
  /\ \/ Goto(p, "serving") /\ UNCHANGED failed
     \/ Goto(p, "exit store") /\ Fails(p, "compile")
  /\ UNCHANGED <<kbVars, settings, open>>

-----------------------------------------------------------------------------
(* Serving and stopping.                                                   *)

\* A search; get_async_redis makes the clients if they are not there.
Serve(p) ==
  /\ at[p] = "serving"
  /\ \E s \in Search :
       \/ BeginSearch(p, s) /\ UsesRedis(p)
       \/ ReadManifest(p, s, settings.redis) /\ UNCHANGED open
       \/ ReadDocuments(p, s) /\ UNCHANGED open
       \/ EndSearch(p, s) /\ UNCHANGED open
  /\ UNCHANGED <<settings, at, failed>>

\* Fault: the lifespan leaves the Redis clients to the exit stack, which has none.
StopForgetsRedis(p) ==
  /\ at[p] = "serving"
  /\ \A s \in Search : search[p][s] = NoSearch
  /\ Goto(p, "exit store")
  /\ UNCHANGED <<kbVars, settings, open, failed>>

\* SIGTERM: the requests have ended; close_redis comes first.  When aclose
\* raises, the clients are kept and the exit stack unwinds all the same.
Stop(p) ==
  /\ at[p] = "serving"
  /\ \A s \in Search : search[p][s] = NoSearch
  /\ Goto(p, "exit store")
  /\ \/ Closes(p, "redis") /\ UNCHANGED failed
     \/ Fails(p, "close redis") /\ UNCHANGED open
  /\ UNCHANGED <<kbVars, settings>>

\* The finally clause of build_agent_async: the store, then the toolkit, which is
\* never reached when the exit of the store raises.
ExitStore(p) ==
  /\ at[p] = "exit store"
  /\ \/ Goto(p, "exit toolkit") /\ Closes(p, "store") /\ UNCHANGED failed
     \/ /\ "store" \in open[p]
        /\ Goto(p, "exit checkpointer")
        /\ Fails(p, "exit store")
        /\ UNCHANGED open
  /\ UNCHANGED <<kbVars, settings>>

ExitToolkit(p) ==
  /\ at[p] = "exit toolkit"
  /\ Goto(p, "exit checkpointer")
  /\ Closes(p, "toolkit")
  /\ UNCHANGED <<kbVars, settings, failed>>

\* The last of the exit stack.
ExitCheckpointer(p) ==
  /\ at[p] = "exit checkpointer"
  /\ Goto(p, "ended")
  /\ \/ Closes(p, "checkpointer") /\ UNCHANGED failed
     \/ /\ "checkpointer" \in open[p]
        /\ Fails(p, "exit checkpointer")
        /\ UNCHANGED open
  /\ UNCHANGED <<kbVars, settings>>

\* The process is gone, at the end or by a crash at any point.
Exit(p) ==
  /\ at[p] # "off"
  /\ Goto(p, "off")
  /\ open' = [open EXCEPT ![p] = {}]
  /\ failed' = [failed EXCEPT ![p] = {}]
  /\ Forget(p)
  /\ UNCHANGED settings

Next == \E p \in Process :
  \/ Start(p) \/ OpenCheckpointer(p) \/ CheckpointerFails(p)
  \/ SourcesBegin(p) \/ NoSources(p) \/ Load(p)
  \/ CreateModel(p) \/ OpenToolkit(p) \/ OpenStore(p) \/ StoreFails(p) \/ Compile(p)
  \/ Serve(p) \/ Stop(p)
  \/ ExitStore(p) \/ ExitToolkit(p) \/ ExitCheckpointer(p) \/ Exit(p)

Spec == Init /\ [][Next]_vars

-----------------------------------------------------------------------------
(* Properties.                                                             *)

Step == {"off", "checkpointer", "sources", "loading", "model", "toolkit", "store", "compile",
         "serving", "exit store", "exit toolkit", "exit checkpointer", "ended"}

\* Types: the corpus and its readers, and how far each server is.
TypeOK ==
  /\ KbTypeOK
  /\ settings \in Settings
  /\ at \in [Process -> Step]
  /\ open \in [Process -> SUBSET Resource]
  /\ failed \in [Process -> SUBSET (Step \cup {"close redis"})]

\* A server that takes requests has what its settings promise: connections for
\* its threads and its memory, and with human review threads that outlive it.
ServesWhole ==
  \A p \in Process : at[p] = "serving" =>
    /\ Persistent => {"checkpointer", "store"} \subseteq open[p]
    /\ settings.review => "checkpointer" \in open[p]
    /\ load[p] = NoLoad

\* The store, which requests use, is gone before the checkpointer, unless its own
\* exit failed.
StoreInsideCheckpointer ==
  \A p \in Process :
    "store" \in open[p] => "checkpointer" \in open[p] \/ "exit store" \in failed[p]

\* Whatever step of the start or the stop raises, the server ends with
\* everything closed that did not itself fail to close, but for two things: the
\* toolkit (with the processes of its MCP servers), which a store that fails to
\* open or to close leaves running, and the Redis clients of a start that failed.
EndsClosed ==
  \A p \in Process : at[p] = "ended" =>
    /\ "checkpointer" \in open[p] => "exit checkpointer" \in failed[p]
    /\ "store" \in open[p] => "exit store" \in failed[p]
    /\ "toolkit" \in open[p] => failed[p] \cap {"store", "exit store"} # {}
    /\ "redis" \in open[p] => failed[p] \cap {"close redis", "model", "store", "compile"} # {}

\* Resources come and go in the order the code nests them.
ResourcesNest == ServesWhole /\ StoreInsideCheckpointer /\ EndsClosed

=============================================================================
