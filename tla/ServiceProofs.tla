---------------------------- MODULE ServiceProofs ----------------------------
(***************************************************************************)
(* Proofs about Service and KnowledgeBase, for any number of servers,      *)
(* sources, documents and concurrent searches; about MemorySeed, what each *)
(* start and each chat request of these servers runs, for any number of    *)
(* concurrent calls; and about McpToolkit, the sessions a start opens, for *)
(* any set of servers of tools.                                            *)
(***************************************************************************)
EXTENDS Service, MemorySeed, McpToolkit, TLAPS

USE DEF Goto, Opens, Closes, Fails, LoadStep, SearchStep

-----------------------------------------------------------------------------
(* The corpus.  Its properties are inductive by themselves: every transaction *)
(* leaves in Redis what it wrote, what it had not read, and nothing else.     *)

KbSteps(p) ==
  \/ BeginLoad(p) \/ Fetch(p) \/ ReadOld(p) \/ Replace(p) \/ AbandonLoad(p) \/ Forget(p)
  \/ \E s \in Search :
       \/ BeginSearch(p, s) \/ ReadManifest(p, s, settings.redis) \/ ReadDocuments(p, s)
       \/ EndSearch(p, s)

\* What a server does is one step of the knowledge base, or leaves it alone.
LEMMA KbStep ==
  ASSUME NEW p \in Process, Next \/ UNCHANGED vars
  PROVE  UNCHANGED kbVars \/ \E q \in Process : KbSteps(q)
<1>1. ASSUME NEW q \in Process,
             Start(q) \/ OpenCheckpointer(q) \/ CheckpointerFails(q) \/ NoSources(q)
             \/ CreateModel(q) \/ OpenToolkit(q) \/ OpenStore(q) \/ StoreFails(q) \/ Compile(q)
             \/ Stop(q) \/ ExitStore(q) \/ ExitToolkit(q) \/ ExitCheckpointer(q)
      PROVE UNCHANGED kbVars
  BY <1>1 DEF Start, OpenCheckpointer, CheckpointerFails, NoSources, CreateModel, OpenToolkit,
              OpenStore, StoreFails, Compile, Stop, ExitStore, ExitToolkit, ExitCheckpointer
<1>2. ASSUME NEW q \in Process, SourcesBegin(q) PROVE UNCHANGED kbVars \/ KbSteps(q)
  BY <1>2 DEF SourcesBegin, KbSteps
<1>3. ASSUME NEW q \in Process, Load(q) PROVE KbSteps(q)
  BY <1>3 DEF Load, KbSteps
<1>4. ASSUME NEW q \in Process, Serve(q) PROVE KbSteps(q)
  BY <1>4 DEF Serve, KbSteps
<1>5. ASSUME NEW q \in Process, Exit(q) PROVE KbSteps(q)
  BY <1>5 DEF Exit, KbSteps
<1>6. CASE UNCHANGED vars
  BY <1>6 DEF vars
<1> QED BY <1>1, <1>2, <1>3, <1>4, <1>5, <1>6 DEF Next

LEMMA CorpusInit == Init => CorpusWhole
BY DEF Init, KbInit, CorpusWhole

LEMMA CorpusNext == CorpusWhole /\ [Next]_vars => CorpusWhole'
<1> SUFFICES ASSUME CorpusWhole, Next \/ UNCHANGED vars PROVE CorpusWhole'
  OBVIOUS
<1> USE DEF CorpusWhole
<1>1. CASE UNCHANGED kbVars
  BY <1>1 DEF kbVars
<1>2. ASSUME NEW q \in Process, KbSteps(q) PROVE CorpusWhole'
  <2>1. CASE Replace(q)
    BY <2>1 DEF Replace
  <2>2. CASE ~Replace(q)
    <3>1. UNCHANGED <<manifest, stored, overlapped>>
      BY <1>2, <2>2 DEF KbSteps, BeginLoad, Fetch, ReadOld, AbandonLoad, Forget, BeginSearch,
                        ReadManifest, ReadDocuments, EndSearch
    <3> QED BY <3>1
  <2> QED BY <2>1, <2>2
<1>3. Process # {} \/ UNCHANGED vars
  BY DEF Next
<1> QED BY <1>1, <1>2, <1>3, KbStep DEF vars

(* Whichever servers start, fail or crash beside each other, the manifest  *)
(* lists only documents that are stored, and only overlapping loads leave  *)
(* documents behind that it does not list.  (load_kb_into_redis)           *)
THEOREM CorpusCorrect == Spec => []CorpusWhole
<1> QED BY CorpusInit, CorpusNext, PTL DEF Spec

-----------------------------------------------------------------------------
(* Types.                                                                  *)

LEMMA TypeInit == Init => TypeOK
<1> SUFFICES ASSUME Init PROVE TypeOK
  OBVIOUS
<1>1. load \in [Process -> [step : {"none", "fetch", "replace"}, left : SUBSET Url,
                           got : SUBSET Doc, old : SUBSET Doc]]
  BY DEF Init, KbInit, NoLoad
<1>2. search \in [Process -> [Search -> [step : {"none", "smembers", "get", "rank"},
                                        ids : SUBSET Doc]]]
  BY DEF Init, KbInit, NoSearch
<1>3. KbTypeOK
  BY <1>1, <1>2 DEF Init, KbInit, KbTypeOK
<1>4. at \in [Process -> Step]
  BY DEF Init, Step
<1> QED BY <1>3, <1>4 DEF Init, TypeOK

LEMMA KbTypeStep ==
  ASSUME KbTypeOK, UNCHANGED kbVars \/ \E q \in Process : KbSteps(q)
  PROVE  KbTypeOK'
<1> USE ServesAssumption DEF KbTypeOK, NoLoad, NoSearch
<1>1. CASE UNCHANGED kbVars
  BY <1>1 DEF kbVars
<1>2. ASSUME NEW q \in Process, KbSteps(q) PROVE KbTypeOK'
  <2>1. CASE BeginLoad(q)
    BY <2>1 DEF BeginLoad
  <2>2. CASE Fetch(q)
    <3>1. PICK u \in load[q].left : \E docs \in {{}, Serves[u]} :
            load' = [load EXCEPT ![q] = [load[q] EXCEPT !.left = @ \ {u}, !.got = @ \cup docs]]
      BY <2>2 DEF Fetch
    <3>2. PICK docs \in SUBSET Doc :
            load' = [load EXCEPT ![q] = [load[q] EXCEPT !.left = @ \ {u}, !.got = @ \cup docs]]
      BY <3>1
    <3>3. load[q].left \ {u} \subseteq Url /\ load[q].got \cup docs \subseteq Doc
      OBVIOUS
    <3>4. [load[q] EXCEPT !.left = @ \ {u}, !.got = @ \cup docs]
            \in [step : {"none", "fetch", "replace"}, left : SUBSET Url,
                 got : SUBSET Doc, old : SUBSET Doc]
      <4>1. load[q] \in [step : {"none", "fetch", "replace"}, left : SUBSET Url,
                         got : SUBSET Doc, old : SUBSET Doc]
        OBVIOUS
      <4> HIDE DEF KbTypeOK
      <4> QED BY <3>3, <4>1
    <3>5. UNCHANGED <<manifest, stored, snapshot, search, overlapped>>
      BY <2>2 DEF Fetch
    <3> QED BY <3>2, <3>4, <3>5
  <2>3. CASE ReadOld(q)
    BY <2>3 DEF ReadOld
  <2>4. CASE Replace(q)
    BY <2>4 DEF Replace
  <2>5. CASE AbandonLoad(q)
    BY <2>5 DEF AbandonLoad
  <2>6. CASE Forget(q)
    BY <2>6 DEF Forget
  <2>7. ASSUME NEW s \in Search, BeginSearch(q, s) PROVE KbTypeOK'
    BY <2>7 DEF BeginSearch
  <2>8. ASSUME NEW s \in Search, ReadManifest(q, s, settings.redis) PROVE KbTypeOK'
    <3>1. CASE snapshot' = [snapshot EXCEPT ![q] = {}]
               /\ search' = [search EXCEPT ![q][s] = [NoSearch EXCEPT !.step = "rank"]]
      <4>1. {} \in SUBSET Doc
        OBVIOUS
      <4> QED BY <2>8, <3>1, <4>1 DEF ReadManifest
    <3>2. CASE snapshot' = snapshot
               /\ search' = [search EXCEPT ![q][s] = [step |-> "get", ids |-> manifest]]
      BY <2>8, <3>2 DEF ReadManifest
    <3> QED BY <2>8, <3>1, <3>2 DEF ReadManifest
  <2>9. ASSUME NEW s \in Search, ReadDocuments(q, s) PROVE KbTypeOK'
    BY <2>9 DEF ReadDocuments
  <2>10. ASSUME NEW s \in Search, EndSearch(q, s) PROVE KbTypeOK'
    BY <2>10 DEF EndSearch
  <2> QED BY <1>2, <2>1, <2>2, <2>3, <2>4, <2>5, <2>6, <2>7, <2>8, <2>9, <2>10 DEF KbSteps
<1> QED BY <1>1, <1>2

LEMMA TypeNext == TypeOK /\ [Next]_vars => TypeOK'
<1> SUFFICES ASSUME TypeOK, Next \/ UNCHANGED vars PROVE TypeOK'
  OBVIOUS
<1>1. CASE UNCHANGED vars
  BY <1>1 DEF vars, kbVars, TypeOK, KbTypeOK
<1>2. ASSUME NEW p \in Process,
             \/ Start(p) \/ OpenCheckpointer(p) \/ CheckpointerFails(p)
             \/ SourcesBegin(p) \/ NoSources(p) \/ Load(p)
             \/ CreateModel(p) \/ OpenToolkit(p) \/ OpenStore(p) \/ StoreFails(p) \/ Compile(p)
             \/ Serve(p) \/ Stop(p)
             \/ ExitStore(p) \/ ExitToolkit(p) \/ ExitCheckpointer(p) \/ Exit(p)
      PROVE TypeOK'
  <2>1. KbTypeOK'
    <3>1. Next
      BY <1>2 DEF Next
    <3> QED BY <3>1, KbStep, KbTypeStep DEF TypeOK
  <2>2. settings' \in Settings
    BY <1>2 DEF TypeOK, Start, OpenCheckpointer, CheckpointerFails, SourcesBegin, NoSources, Load,
               CreateModel, OpenToolkit, OpenStore, StoreFails, Compile, Serve, Stop, ExitStore,
               ExitToolkit, ExitCheckpointer, Exit
  <2>3. at' \in [Process -> Step]
    BY <1>2 DEF TypeOK, Step, Start, OpenCheckpointer, CheckpointerFails, SourcesBegin, NoSources,
               Load, CreateModel, OpenToolkit, OpenStore, StoreFails, Compile, Serve, Stop,
               ExitStore, ExitToolkit, ExitCheckpointer, Exit
  <2>4. open' \in [Process -> SUBSET Resource]
    <3>1. open \in [Process -> SUBSET Resource]
      BY DEF TypeOK
    <3>2. \/ UNCHANGED open
          \/ \E rs \in SUBSET Resource : open' = [open EXCEPT ![p] = rs]
      <4>1. open[p] \in SUBSET Resource
        BY <3>1
      <4>2. /\ \A r \in Resource : {open[p] \cup {r}, open[p] \ {r}} \subseteq SUBSET Resource
            /\ {"checkpointer", "redis", "toolkit", "store"} \subseteq Resource
        BY <4>1 DEF Resource
      <4>3. CASE Exit(p)
        BY <4>3 DEF Exit
      <4>4. CASE OpenStore(p)
        <5>1. open[p] \cup (IF Persistent THEN {"store"} ELSE {})
                \cup (IF settings.redis THEN {"redis"} ELSE {}) \in SUBSET Resource
          BY <4>1, <4>2
        <5> QED BY <4>4, <5>1 DEF OpenStore
      <4>5. CASE OpenCheckpointer(p) \/ OpenToolkit(p) \/ SourcesBegin(p) \/ Serve(p)
        BY <4>1, <4>2, <4>5 DEF OpenCheckpointer, OpenToolkit, SourcesBegin, Serve, UsesRedis
      <4>6. CASE Stop(p) \/ ExitStore(p) \/ ExitToolkit(p) \/ ExitCheckpointer(p)
        BY <4>1, <4>2, <4>6 DEF Stop, ExitStore, ExitToolkit, ExitCheckpointer
      <4> QED BY <1>2, <4>3, <4>4, <4>5, <4>6
                 DEF Start, CheckpointerFails, NoSources, Load, CreateModel, StoreFails, Compile
    <3> QED BY <3>1, <3>2
  <2>5. failed' \in [Process -> SUBSET (Step \cup {"close redis"})]
    <3>1. failed \in [Process -> SUBSET (Step \cup {"close redis"})]
      BY DEF TypeOK
    <3>2. \/ UNCHANGED failed
          \/ failed' = [failed EXCEPT ![p] = {}]
          \/ \E step \in {"checkpointer", "model", "store", "compile", "close redis",
                          "exit store", "exit checkpointer"} :
               failed' = [failed EXCEPT ![p] = failed[p] \cup {step}]
      BY <1>2 DEF Start, OpenCheckpointer, CheckpointerFails, SourcesBegin, NoSources, Load,
                 CreateModel, OpenToolkit, OpenStore, StoreFails, Compile, Serve, Stop,
                 ExitStore, ExitToolkit, ExitCheckpointer, Exit
    <3> QED BY <3>1, <3>2 DEF Step
  <2> QED BY <2>1, <2>2, <2>3, <2>4, <2>5 DEF TypeOK
<1> QED BY <1>1, <1>2 DEF Next

(* The state of the servers and of their corpus is always well typed.      *)
THEOREM TypeCorrect == Spec => []TypeOK
<1> QED BY TypeInit, TypeNext, PTL DEF Spec
-----------------------------------------------------------------------------
(* Resources.                                                              *)

\* What server p may hold, and must hold, at each place of its life.
Nested(p) ==
  /\ at[p] # "loading" => load[p] = NoLoad
  /\ at[p] # "off" /\ settings.review => Persistent
  /\ at[p] \in {"off", "checkpointer"} => open[p] = {}
  /\ Persistent /\ at[p] \notin {"off", "checkpointer", "ended"} => "checkpointer" \in open[p]
  /\ Persistent /\ at[p] \in {"compile", "serving"} => "store" \in open[p]
  /\ "checkpointer" \in open[p] /\ at[p] = "ended" => "exit checkpointer" \in failed[p]
  /\ "store" \in open[p] =>
       "exit store" \in failed[p] \/ at[p] \in {"compile", "serving", "exit store"}
  /\ "store" \in open[p] => Persistent
  /\ "toolkit" \in open[p] =>
       \/ failed[p] \cap {"store", "exit store"} # {}
       \/ at[p] \in {"store", "compile", "serving", "exit store", "exit toolkit"}
  /\ "redis" \in open[p] =>
       \/ failed[p] \cap {"close redis", "model", "store", "compile"} # {}
       \/ at[p] \in {"loading", "model", "toolkit", "store", "compile", "serving"}

NestInv == TypeOK /\ \A p \in Process : Nested(p)

LEMMA NestInit == Init => NestInv
<1> SUFFICES ASSUME Init PROVE NestInv
  OBVIOUS
<1>1. ASSUME NEW p \in Process PROVE Nested(p)
  BY DEF Init, KbInit, Nested
<1> QED BY <1>1, TypeInit DEF NestInv

\* A step of one server leaves the others where they are.
Elsewhere(p) ==
  \A q \in Process \ {p} :
    at'[q] = at[q] /\ open'[q] = open[q] /\ failed'[q] = failed[q] /\ load'[q] = load[q]

LEMMA NestNext == NestInv /\ [Next]_vars => NestInv'
<1> SUFFICES ASSUME NestInv, Next \/ UNCHANGED vars PROVE NestInv'
  OBVIOUS
<1> USE DEF Persistent
<1>1. TypeOK'
  BY TypeNext DEF NestInv
<1>2. CASE UNCHANGED vars
  BY <1>1, <1>2 DEF vars, kbVars, NestInv, Nested
<1>3. ASSUME NEW p \in Process,
             \/ Start(p) \/ OpenCheckpointer(p) \/ CheckpointerFails(p)
             \/ SourcesBegin(p) \/ NoSources(p) \/ Load(p)
             \/ CreateModel(p) \/ OpenToolkit(p) \/ OpenStore(p) \/ StoreFails(p) \/ Compile(p)
             \/ Serve(p) \/ Stop(p)
             \/ ExitStore(p) \/ ExitToolkit(p) \/ ExitCheckpointer(p) \/ Exit(p)
      PROVE Elsewhere(p) /\ UNCHANGED settings /\ Nested(p)'
  <2> DEFINE Before == /\ at \in [Process -> Step] /\ open \in [Process -> SUBSET Resource]
                       /\ failed \in [Process -> SUBSET (Step \cup {"close redis"})]
                       /\ DOMAIN load = Process /\ Nested(p)
  <2>0. Before
    BY DEF NestInv, TypeOK, KbTypeOK
  <2> HIDE DEF Before
  <2>1. CASE Start(p)
    BY <2>0, <2>1 DEF Before, Nested, Elsewhere, Start, kbVars
  <2>2. CASE OpenCheckpointer(p)
    <3>1. Elsewhere(p) /\ UNCHANGED settings
      BY <2>0, <2>2 DEF Before, Elsewhere, OpenCheckpointer, kbVars
    <3>2. /\ at[p] = "checkpointer" /\ at'[p] = "sources" /\ UNCHANGED <<failed, load, settings>>
          /\ Persistent => open'[p] = {"checkpointer"}
          /\ ~Persistent => open'[p] = {}
      <4>1. open[p] = {} /\ p \in DOMAIN open /\ p \in DOMAIN at
        BY <2>0, <2>2 DEF Before, Nested, OpenCheckpointer
      <4>2. CASE Persistent
        BY <2>2, <4>1, <4>2 DEF OpenCheckpointer, kbVars
      <4>3. CASE ~Persistent
        BY <2>2, <4>1, <4>3 DEF OpenCheckpointer, kbVars
      <4> QED BY <4>2, <4>3
    <3>3. Nested(p)
      BY <2>0 DEF Before
    <3> QED BY <3>1, <3>2, <3>3 DEF Nested
  <2>3. CASE CheckpointerFails(p)
    BY <2>0, <2>3 DEF Before, Nested, Elsewhere, CheckpointerFails, kbVars
  <2>4. CASE SourcesBegin(p)
    <3>1. Elsewhere(p) /\ UNCHANGED settings
      BY <2>0, <2>4 DEF Before, Elsewhere, SourcesBegin, UsesRedis, BeginLoad, kbVars
    <3>2. /\ at[p] = "sources" /\ UNCHANGED <<failed, settings>>
          /\ at'[p] = "loading" \/ (at'[p] = "model" /\ UNCHANGED load)
          /\ open'[p] = open[p] \cup {"redis"} \/ UNCHANGED open
      <4>1. CASE settings.redis
        BY <2>0, <2>4, <4>1 DEF Before, SourcesBegin, UsesRedis
      <4>2. CASE ~settings.redis
        BY <2>0, <2>4, <4>2 DEF Before, SourcesBegin, UsesRedis, kbVars
      <4> QED BY <4>1, <4>2
    <3>3. Nested(p)
      BY <2>0 DEF Before
    <3> QED BY <3>1, <3>2, <3>3 DEF Nested
  <2>5. CASE NoSources(p)
    BY <2>0, <2>5 DEF Before, Nested, Elsewhere, NoSources, kbVars
  <2>6. CASE Load(p)
    <3>1. \/ at' = at
          \/ at' = [at EXCEPT ![p] = "model"] /\ load' = [load EXCEPT ![p] = NoLoad]
      BY <2>6 DEF Load, Replace, AbandonLoad
    <3>2. UNCHANGED <<settings, open, failed>> /\ at[p] = "loading"
      BY <2>6 DEF Load
    <3>3. \E record : load' = [load EXCEPT ![p] = record]
      BY <2>6 DEF Load, Fetch, ReadOld, Replace, AbandonLoad
    <3> QED BY <2>0, <3>1, <3>2, <3>3 DEF Before, Nested, Elsewhere
  <2>7. CASE CreateModel(p)
    <3>1. Elsewhere(p) /\ UNCHANGED settings
      BY <2>0, <2>7 DEF Before, Elsewhere, CreateModel, kbVars
    <3>2. /\ at[p] = "model" /\ UNCHANGED <<open, load, settings>>
          /\ \/ at'[p] = "toolkit" /\ UNCHANGED failed
             \/ at'[p] = "exit checkpointer" /\ failed'[p] = failed[p] \cup {"model"}
      BY <2>0, <2>7 DEF Before, CreateModel, kbVars
    <3>3. Nested(p)
      BY <2>0 DEF Before
    <3> QED BY <3>1, <3>2, <3>3 DEF Nested
  <2>8. CASE OpenToolkit(p)
    <3>1. Elsewhere(p) /\ UNCHANGED settings
      BY <2>0, <2>8 DEF Before, Elsewhere, OpenToolkit, kbVars
    <3>2. /\ at[p] = "toolkit" /\ at'[p] = "store" /\ UNCHANGED <<failed, load, settings>>
          /\ open'[p] = open[p] \cup {"toolkit"} \/ UNCHANGED open
      BY <2>0, <2>8 DEF Before, OpenToolkit, kbVars
    <3>3. Nested(p)
      BY <2>0 DEF Before
    <3> QED BY <3>1, <3>2, <3>3 DEF Nested
  <2>9. CASE OpenStore(p)
    <3>1. Elsewhere(p) /\ UNCHANGED settings
      BY <2>0, <2>9 DEF Before, Elsewhere, OpenStore, kbVars
    <3>2. /\ at[p] = "store" /\ at'[p] = "compile" /\ UNCHANGED <<failed, load, settings>>
          /\ open'[p] = open[p] \cup (IF Persistent THEN {"store"} ELSE {})
                                \cup (IF settings.redis THEN {"redis"} ELSE {})
      BY <2>0, <2>9 DEF Before, OpenStore, kbVars
    <3>3. Nested(p)
      BY <2>0 DEF Before
    <3> QED BY <3>1, <3>2, <3>3 DEF Nested
  <2>10. CASE StoreFails(p)
    <3>1. Elsewhere(p) /\ UNCHANGED settings
      BY <2>0, <2>10 DEF Before, Elsewhere, StoreFails, kbVars
    <3>2. /\ at[p] = "store" /\ at'[p] = "exit checkpointer"
          /\ UNCHANGED <<open, load, settings>> /\ failed'[p] = failed[p] \cup {"store"}
      BY <2>0, <2>10 DEF Before, StoreFails, kbVars
    <3>3. Nested(p)
      BY <2>0 DEF Before
    <3> QED BY <3>1, <3>2, <3>3 DEF Nested
  <2>11. CASE Compile(p)
    <3>1. Elsewhere(p) /\ UNCHANGED settings
      BY <2>0, <2>11 DEF Before, Elsewhere, Compile, kbVars
    <3>2. /\ at[p] = "compile" /\ UNCHANGED <<open, load, settings>>
          /\ \/ at'[p] = "serving" /\ UNCHANGED failed
             \/ at'[p] = "exit store" /\ failed'[p] = failed[p] \cup {"compile"}
      BY <2>0, <2>11 DEF Before, Compile, kbVars
    <3>3. Nested(p)
      BY <2>0 DEF Before
    <3> QED BY <3>1, <3>2, <3>3 DEF Nested
  <2>12. CASE Serve(p)
    <3>1. UNCHANGED <<settings, at, failed, load>> /\ at[p] = "serving"
      BY <2>12 DEF Serve, BeginSearch, ReadManifest, ReadDocuments, EndSearch
    <3>2. UNCHANGED open \/ open' = [open EXCEPT ![p] = @ \cup {"redis"}]
      BY <2>12 DEF Serve, UsesRedis
    <3>3. Elsewhere(p) /\ (UNCHANGED open \/ open'[p] = open[p] \cup {"redis"})
      BY <2>0, <3>1, <3>2 DEF Before, Elsewhere
    <3>4. Nested(p)
      BY <2>0 DEF Before
    <3> QED BY <3>1, <3>3, <3>4 DEF Nested
  <2>13. CASE Stop(p)
    <3>1. Elsewhere(p) /\ UNCHANGED settings
      BY <2>0, <2>13 DEF Before, Elsewhere, Stop, kbVars
    <3>2. /\ at[p] = "serving" /\ at'[p] = "exit store" /\ UNCHANGED <<load, settings>>
          /\ \/ open'[p] = open[p] \ {"redis"} /\ UNCHANGED failed
             \/ UNCHANGED open /\ failed'[p] = failed[p] \cup {"close redis"}
      BY <2>0, <2>13 DEF Before, Stop, kbVars
    <3>3. Nested(p)
      BY <2>0 DEF Before
    <3> QED BY <3>1, <3>2, <3>3 DEF Nested
  <2>14. CASE ExitStore(p)
    <3>1. Elsewhere(p) /\ UNCHANGED settings
      BY <2>0, <2>14 DEF Before, Elsewhere, ExitStore, kbVars
    <3>2. /\ at[p] = "exit store" /\ UNCHANGED <<load, settings>>
          /\ \/ at'[p] = "exit toolkit" /\ open'[p] = open[p] \ {"store"} /\ UNCHANGED failed
             \/ /\ at'[p] = "exit checkpointer" /\ UNCHANGED open
                /\ failed'[p] = failed[p] \cup {"exit store"}
      BY <2>0, <2>14 DEF Before, ExitStore, kbVars
    <3>3. Nested(p)
      BY <2>0 DEF Before
    <3> QED BY <3>1, <3>2, <3>3 DEF Nested
  <2>15. CASE ExitToolkit(p)
    <3>1. Elsewhere(p) /\ UNCHANGED settings
      BY <2>0, <2>15 DEF Before, Elsewhere, ExitToolkit, kbVars
    <3>2. /\ at[p] = "exit toolkit" /\ at'[p] = "exit checkpointer"
          /\ UNCHANGED <<failed, load, settings>> /\ open'[p] = open[p] \ {"toolkit"}
      BY <2>0, <2>15 DEF Before, ExitToolkit, kbVars
    <3>3. Nested(p)
      BY <2>0 DEF Before
    <3> QED BY <3>1, <3>2, <3>3 DEF Nested
  <2>16. CASE ExitCheckpointer(p)
    <3>1. Elsewhere(p) /\ UNCHANGED settings
      BY <2>0, <2>16 DEF Before, Elsewhere, ExitCheckpointer, kbVars
    <3>2. /\ at[p] = "exit checkpointer" /\ at'[p] = "ended" /\ UNCHANGED <<load, settings>>
          /\ \/ open'[p] = open[p] \ {"checkpointer"} /\ UNCHANGED failed
             \/ UNCHANGED open /\ failed'[p] = failed[p] \cup {"exit checkpointer"}
      BY <2>0, <2>16 DEF Before, ExitCheckpointer, kbVars
    <3>3. Nested(p)
      BY <2>0 DEF Before
    <3> QED BY <3>1, <3>2, <3>3 DEF Nested
  <2>17. CASE Exit(p)
    BY <2>0, <2>17 DEF Before, Nested, Elsewhere, Exit, Forget
  <2> QED BY <1>3, <2>1, <2>2, <2>3, <2>4, <2>5, <2>6, <2>7, <2>8, <2>9, <2>10, <2>11, <2>12,
             <2>13, <2>14, <2>15, <2>16, <2>17
<1>4. ASSUME NEW p \in Process, Elsewhere(p), UNCHANGED settings, Nested(p)' PROVE NestInv'
  <2>1. ASSUME NEW q \in Process PROVE Nested(q)'
    BY <1>4 DEF NestInv, Nested, Elsewhere
  <2> QED BY <1>1, <2>1 DEF NestInv
<1> QED BY <1>2, <1>3, <1>4 DEF Next

LEMMA NestGivesResources == NestInv => ResourcesNest
BY DEF NestInv, Nested, ResourcesNest, ServesWhole, StoreInsideCheckpointer, EndsClosed

(* Whatever fails on the way up, on the way down or between them, a server *)
(* that serves has its connections, the store is gone before the           *)
(* checkpointer, and an ended one has closed all but what the order of     *)
(* build_agent_async and of lifespan leaves out.                           *)
THEOREM NestingCorrect == Spec => []ResourcesNest
<1> QED BY NestInit, NestNext, NestGivesResources, PTL DEF Spec

-----------------------------------------------------------------------------
(* Seeding the memory (core/memory.py under redis_lock of core/cache.py).  *)

\* A call about to write read "absent" itself, so the file did not exist when it began.
EarlyInv ==
  /\ SeedTypeOK
  /\ \A s \in Seeder : phase[s] # "idle" /\ late[s] => memory # "absent"
  /\ \A s \in Seeder : phase[s] = "aput" => ~late[s]

LEMMA EarlyInit == SeedInit => EarlyInv
BY DEF SeedInit, EarlyInv, SeedTypeOK

LEMMA EarlyNext == EarlyInv /\ [SeedNext]_seedVars => EarlyInv'
<1> SUFFICES ASSUME EarlyInv, [SeedNext]_seedVars PROVE EarlyInv'
  OBVIOUS
<1> USE DEF EarlyInv, SeedTypeOK, Proceed
<1>1. ASSUME NEW s \in Seeder, Begin(s) PROVE EarlyInv'
  BY <1>1 DEF Begin
<1>2. ASSUME NEW s \in Seeder, SeedStep(s) PROVE EarlyInv'
  <2>1. CASE Acquire(s)
    BY <2>1 DEF Acquire
  <2>2. CASE AcquireFails(s)
    BY <2>2 DEF AcquireFails
  <2>3. CASE aget(s)
    BY <2>3 DEF aget
  <2>4. CASE aput(s)
    BY <2>4 DEF aput
  <2>5. CASE MemoryFails(s)
    BY <2>5 DEF MemoryFails
  <2>6. CASE NothingToRelease(s)
    BY <2>6 DEF NothingToRelease
  <2>7. CASE Release(s)
    BY <2>7 DEF Release
  <2> QED BY <1>2, <2>1, <2>2, <2>3, <2>4, <2>5, <2>6, <2>7 DEF SeedStep, Command
<1>3. ASSUME NEW s \in Seeder, Crash(s) PROVE EarlyInv'
  BY <1>3 DEF Crash
<1>4. CASE Expire
  BY <1>4 DEF Expire
<1>5. CASE edit_file
  BY <1>5 DEF edit_file
<1>6. CASE UNCHANGED seedVars
  BY <1>6 DEF seedVars
<1> QED BY <1>1, <1>2, <1>3, <1>4, <1>5, <1>6 DEF SeedNext

(* The state is always well typed.                                         *)
THEOREM SeedTypeCorrect == SeedSpec => []SeedTypeOK
<1>1. EarlyInv => SeedTypeOK
  BY DEF EarlyInv
<1> QED BY <1>1, EarlyInit, EarlyNext, PTL DEF SeedSpec

(* However the lock fails, only a call that began before the file existed  *)
(* can replace what the agent has written.                                 *)
THEOREM OnlyFirstWave == SeedSpec => OnlyFirstWaveWrites
<1>1. EarlyInv /\ [SeedNext]_seedVars =>
        [memory = "edited" /\ memory' = "seed"
           => \E s \in Seeder : phase[s] = "aput" /\ ~late[s] /\ phase'[s] # "aput"]_seedVars
  <2> SUFFICES ASSUME EarlyInv, [SeedNext]_seedVars, memory = "edited", memory' = "seed"
               PROVE  \E s \in Seeder : phase[s] = "aput" /\ ~late[s] /\ phase'[s] # "aput"
    OBVIOUS
  <2>1. PICK s \in Seeder : aput(s)
    BY DEF SeedNext, seedVars, Begin, SeedStep, Command, Crash, Expire, edit_file, Acquire,
           AcquireFails, aget, MemoryFails, NothingToRelease, Release
  <2> QED BY <2>1 DEF aput, Proceed, EarlyInv, SeedTypeOK
<1> QED BY <1>1, EarlyInit, EarlyNext, PTL DEF SeedSpec, OnlyFirstWaveWrites

-----------------------------------------------------------------------------
(* The sessions with the servers of the toolkit.                           *)

\* A future is resolved before its worker parks or closes.
ReadyInv ==
  \A s \in Server : worker[s] \in {"parked", "closing", "ended"} => ready[s] # "pending"

\* No worker runs before the toolkit starts them.
StartInv == parent = "starting" => \A s \in Server : worker[s] = "new"

\* No teardown has begun while the toolkit waits for its workers.
NoneEarlyInv ==
  parent \in {"starting", "connecting"} => \A s \in Server : teardown[s] = "none"

\* Until the parent is cancelled, a teardown that is done has seen its worker end.
DoneInv ==
  parent \in {"rejecting", "opening", "serving", "closing"} =>
    \A s \in Server : teardown[s] = "done" => Gone(s)

\* An exit tears down every session there is.
ExitInv ==
  parent = "closing" => \A s \in Server : teardown[s] = "none" => Gone(s)

\* A toolkit that is being taken down has told every worker.
ToldInv ==
  parent \in {"unwinding", "closing", "cut", "cancelled"} =>
    \A s \in Server : s \in shutdown \/ Gone(s)

ClosedInv == parent = "closed" => \A s \in Server : Gone(s)

ToolkitInv ==
  /\ ToolkitTypeOK /\ ReadyInv /\ StartInv /\ NoneEarlyInv /\ DoneInv /\ ExitInv /\ ToldInv
  /\ ClosedInv /\ NoStrayWorker

LEMMA ToolkitInitInv == ToolkitInit => ToolkitInv
  BY DEF ToolkitInit, ToolkitInv, ToolkitTypeOK, ReadyInv, StartInv, NoneEarlyInv, DoneInv,
         ExitInv, ToldInv, ClosedInv, NoStrayWorker

\* A step of a worker: what is gone stays gone, and the parent notices nothing.
LEMMA WorkerStepInv ==
  ASSUME ToolkitInv, NEW s \in Server, WorkerStep(s)
  PROVE  ToolkitInv'
<1>1. UNCHANGED <<waiter, shutdown, teardown, held, parent>>
  BY DEF WorkerStep, Connects, ConnectFails, SeesShutdown, SessionLost, CancelDelivered, Closed
<1>2. /\ worker' \in [Server -> {"new", "connecting", "parked", "closing", "ended"}]
      /\ ready' \in [Server -> {"pending", "tools", "failed", "cancelled"}]
      /\ cancelled' \subseteq Server
  BY DEF ToolkitInv, ToolkitTypeOK, WorkerStep, Connects, ConnectFails, SeesShutdown,
         SessionLost, CancelDelivered, Closed, Resolve
<1>3. \A q \in Server : Gone(q) => Gone(q)'
  BY DEF ToolkitInv, ToolkitTypeOK, Gone, WorkerStep, Connects, ConnectFails, SeesShutdown,
         SessionLost, CancelDelivered, Closed
<1>4. ReadyInv' /\ StartInv'
  BY <1>1 DEF ToolkitInv, ToolkitTypeOK, ReadyInv, StartInv, WorkerStep, Connects,
              ConnectFails, SeesShutdown, SessionLost, CancelDelivered, Closed, Resolve
<1>5. ToolkitTypeOK'
  BY <1>1, <1>2 DEF ToolkitInv, ToolkitTypeOK
<1>6. NoneEarlyInv' /\ DoneInv' /\ ExitInv' /\ ToldInv' /\ ClosedInv' /\ NoStrayWorker'
  BY <1>1, <1>3 DEF ToolkitInv, NoneEarlyInv, DoneInv, ExitInv, ToldInv, ClosedInv,
                    NoStrayWorker
<1> QED BY <1>4, <1>5, <1>6 DEF ToolkitInv

\* A step of the parent on one server: the workers stay where they are.
LEMMA ServerStepInv ==
  ASSUME ToolkitInv, NEW s \in Server, EnterStep(s) \/ TeardownStep(s)
  PROVE  ToolkitInv'
<1>1. UNCHANGED <<worker, held, parent>> /\ shutdown \subseteq shutdown'
  BY DEF EnterStep, TeardownStep, WaiterResolves, ConnectTimeout, Reject, StartTeardown,
         GraceSuffices, GraceExpires, Drained
<1>2. ToolkitTypeOK'
  BY DEF ToolkitInv, ToolkitTypeOK, EnterStep, TeardownStep, WaiterResolves, ConnectTimeout,
         Reject, StartTeardown, GraceSuffices, GraceExpires, Drained, Resolve, Cancel
<1>3. ReadyInv'
  BY DEF ToolkitInv, ToolkitTypeOK, ReadyInv, EnterStep, TeardownStep, WaiterResolves,
         ConnectTimeout, Reject, StartTeardown, GraceSuffices, GraceExpires, Drained, Resolve
<1>4. NoneEarlyInv'
  BY DEF ToolkitInv, ToolkitTypeOK, NoneEarlyInv, EnterStep, TeardownStep, WaiterResolves,
         ConnectTimeout, Reject, StartTeardown, GraceSuffices, GraceExpires, Drained
<1>5. DoneInv' /\ ExitInv'
  BY <1>1 DEF ToolkitInv, ToolkitTypeOK, DoneInv, ExitInv, Gone, EnterStep, TeardownStep,
              WaiterResolves, ConnectTimeout, Reject, StartTeardown, GraceSuffices,
              GraceExpires, Drained
<1>6. StartInv' /\ ToldInv' /\ ClosedInv' /\ NoStrayWorker'
  BY <1>1 DEF ToolkitInv, StartInv, ToldInv, ClosedInv, NoStrayWorker, Gone
<1> QED BY <1>2, <1>3, <1>4, <1>5, <1>6 DEF ToolkitInv

LEMMA ParentStepInv ==
  ASSUME ToolkitInv, ParentStep
  PROVE  ToolkitInv'
<1> USE DEF ToolkitInv, ToolkitTypeOK, ReadyInv, StartInv, NoneEarlyInv, DoneInv, ExitInv,
            ToldInv, ClosedInv, NoStrayWorker, Gone
<1>1. CASE NoToolkit
  BY <1>1 DEF NoToolkit
<1>2. CASE StartWorkers
  BY <1>2 DEF StartWorkers
<1>3. CASE Gathered
  BY <1>3 DEF Gathered
<1>4. CASE Entered
  BY <1>4 DEF Entered
<1>5. CASE Unwind
  BY <1>5 DEF Unwind, Schedule
<1>6. CASE Torn
  <2>1. CASE parent = "closing"
    BY <1>6, <2>1 DEF Torn, Over
  <2>2. CASE parent # "closing"
    BY <1>6, <2>2 DEF Torn
  <2> QED BY <2>1, <2>2
<1> QED BY <1>1, <1>2, <1>3, <1>4, <1>5, <1>6 DEF ParentStep

LEMMA CancellationInv ==
  ASSUME ToolkitInv, ParentIsCancelled
  PROVE  ToolkitInv'
<1> USE DEF ToolkitInv, ToolkitTypeOK, ReadyInv, StartInv, NoneEarlyInv, DoneInv, ExitInv,
            ToldInv, ClosedInv, NoStrayWorker, Gone
<1>1. CASE CancelConnect
  BY <1>1 DEF CancelConnect, Schedule
<1>2. CASE CancelTeardown
  BY <1>2 DEF CancelTeardown, Cancel
<1>3. ASSUME NEW s \in Server, CancelGrace(s) PROVE ToolkitInv'
  BY <1>3 DEF CancelGrace, Cancel
<1>4. ASSUME NEW s \in Server, CancelDrain(s) PROVE ToolkitInv'
  BY <1>4 DEF CancelDrain, Schedule
<1> QED BY <1>1, <1>2, <1>3, <1>4 DEF ParentIsCancelled

LEMMA AgentStepInv ==
  ASSUME ToolkitInv, StoreOpens \/ StoreDoesNotOpen \/ aexit
  PROVE  ToolkitInv'
<1> USE DEF ToolkitInv, ToolkitTypeOK, ReadyInv, StartInv, NoneEarlyInv, DoneInv, ExitInv,
            ToldInv, ClosedInv, NoStrayWorker, Gone
<1>1. CASE StoreOpens \/ StoreDoesNotOpen
  BY <1>1 DEF StoreOpens, StoreDoesNotOpen
<1>2. CASE aexit
  BY <1>2 DEF aexit, Schedule
<1> QED BY <1>1, <1>2

LEMMA ToolkitNextInv ==
  ASSUME ToolkitInv, [ToolkitNext]_toolkitVars
  PROVE  ToolkitInv'
<1>1. CASE ToolkitNext
  BY <1>1, WorkerStepInv, ServerStepInv, ParentStepInv, CancellationInv, AgentStepInv DEF
                                                                                          ToolkitNext
<1>2. CASE UNCHANGED toolkitVars
  BY <1>2 DEF toolkitVars, ToolkitInv, ToolkitTypeOK, ReadyInv, StartInv, NoneEarlyInv,
              DoneInv, ExitInv, ToldInv, ClosedInv, NoStrayWorker, Gone
<1> QED BY <1>1, <1>2

LEMMA ToolkitInvariance == ToolkitSpec => []ToolkitInv
  BY ToolkitInitInv, ToolkitNextInv, PTL DEF ToolkitSpec

(* The state of the toolkit is always well typed.                          *)
THEOREM ToolkitTypeCorrect == ToolkitSpec => []ToolkitTypeOK
<1>1. ToolkitInv => ToolkitTypeOK
  BY DEF ToolkitInv
<1> QED BY <1>1, ToolkitInvariance, PTL

(* A worker that has failed has told whoever waits for it, whatever else   *)
(* happens to it.  (_ServerWorker.run)                                     *)
THEOREM ReadyCorrect == ToolkitSpec => []ReadyResolved
<1>1. ToolkitInv => ReadyResolved
  BY DEF ToolkitInv, ReadyInv, ReadyResolved
<1> QED BY <1>1, ToolkitInvariance, PTL

(* The agent is never built beside a session whose tools it does not have. *)
(* (MCPToolkit.__aenter__)                                                 *)
THEOREM NoStray == ToolkitSpec => []NoStrayWorker
<1>1. ToolkitInv => NoStrayWorker
  BY DEF ToolkitInv
<1> QED BY <1>1, ToolkitInvariance, PTL

(* However often it is cancelled, a toolkit that has been left, or given   *)
(* up while entered, leaves no session that was not told to stop.          *)
(* (_teardown_workers, _await_worker_teardown)                             *)
THEOREM SessionsEnd == ToolkitSpec => []NoSessionOutlivesToolkit
<1>1. ToolkitInv => NoSessionOutlivesToolkit
  BY DEF ToolkitInv, ToldInv, ClosedInv, NoSessionOutlivesToolkit
<1> QED BY <1>1, ToolkitInvariance, PTL
=============================================================================
