--------------------------- MODULE KnowledgeBase ---------------------------
(***************************************************************************)
(* The knowledge base (core/kb_loader.py and search_knowledge_base in      *)
(* core/tools.py): every server that starts fetches the configured sources *)
(* and replaces the corpus all of them keep in Redis; a server reads the   *)
(* corpus at its first search and keeps that snapshot for as long as it    *)
(* runs.  Each step is one await: a fetch, a command of Redis, or a        *)
(* transaction.  A document is its id; what it says is left out.           *)
(***************************************************************************)
EXTENDS FiniteSets, Naturals

CONSTANTS
  Process,  \* servers that share one Redis
  Url,      \* KB_SOURCE_URLS
  Doc,      \* ids of documents
  Serves,   \* Serves[u]: the documents of u, one page or the entries of a manifest
  Search    \* slots for concurrent searches of one server

ASSUME ServesAssumption == Serves \in [Url -> SUBSET Doc]

VARIABLES
  manifest, \* the set kb:manifest
  stored,   \* the keys kb:doc:* that exist
  load,     \* load[p]: how far load_kb_into_redis of p is, and its locals
  snapshot, \* snapshot[p]: _kb_cache, NoSnapshot or a set of documents
  search,   \* search[p][s]: a call of search_knowledge_base
  overlapped \* a load replaced a corpus it had not read (observer)

kbVars == <<manifest, stored, load, snapshot, search, overlapped>>

NoSnapshot == {{}} \* told apart from every set of documents
NoLoad == [step |-> "none", left |-> {}, got |-> {}, old |-> {}]
NoSearch == [step |-> "none", ids |-> {}]

KbInit ==
  /\ manifest = {} /\ stored = {}
  /\ load = [p \in Process |-> NoLoad]
  /\ snapshot = [p \in Process |-> NoSnapshot]
  /\ search = [p \in Process |-> [s \in Search |-> NoSearch]]
  /\ overlapped = FALSE

-----------------------------------------------------------------------------
(* load_kb_into_redis.                                                     *)

LoadStep(p, record) == load' = [load EXCEPT ![p] = record]

BeginLoad(p) ==
  /\ LoadStep(p, [NoLoad EXCEPT !.step = "fetch", !.left = Url])
  /\ UNCHANGED <<manifest, stored, snapshot, search, overlapped>>

\* Fault: a source that fails leaves an entry without a document.
FetchKeepsFailure(p) ==
  /\ load[p].step = "fetch"
  /\ \E u \in load[p].left : \E docs \in {{{}}, Serves[u]} :
       LoadStep(p, [load[p] EXCEPT !.left = @ \ {u}, !.got = @ \cup docs])
  /\ UNCHANGED <<manifest, stored, snapshot, search, overlapped>>

\* _fetch_one: a source that fails, or a manifest that does not parse, yields nothing.
Fetch(p) ==
  /\ load[p].step = "fetch"
  /\ \E u \in load[p].left : \E docs \in {{}, Serves[u]} :
       LoadStep(p, [load[p] EXCEPT !.left = @ \ {u}, !.got = @ \cup docs])
  /\ UNCHANGED <<manifest, stored, snapshot, search, overlapped>>

\* ensure_kb_index, then SMEMBERS of the manifest.
ReadOld(p) ==
  /\ load[p].step = "fetch" /\ load[p].left = {}
  /\ LoadStep(p, [load[p] EXCEPT !.step = "replace", !.old = manifest])
  /\ UNCHANGED <<manifest, stored, snapshot, search, overlapped>>

\* Fault: the documents are written before the old ones are deleted.
ReplaceDeletesLast(p) ==
  /\ load[p].step = "replace"
  /\ manifest' = load[p].got
  /\ stored' = (stored \cup load[p].got) \ load[p].old
  /\ overlapped' = (overlapped \/ load[p].old # manifest)
  /\ LoadStep(p, NoLoad)
  /\ UNCHANGED <<snapshot, search>>

\* The transaction: forget the manifest and what it listed, store what was fetched.
Replace(p) ==
  /\ load[p].step = "replace"
  /\ manifest' = load[p].got
  /\ stored' = (stored \ load[p].old) \cup load[p].got
  /\ overlapped' = (overlapped \/ load[p].old # manifest)
  /\ LoadStep(p, NoLoad)
  /\ UNCHANGED <<snapshot, search>>

\* Creating the index, reading the manifest or the transaction raises: the
\* server starts with the corpus as it is.
AbandonLoad(p) ==
  /\ load[p].step = "replace" \/ (load[p].step = "fetch" /\ load[p].left = {})
  /\ LoadStep(p, NoLoad)
  /\ UNCHANGED <<manifest, stored, snapshot, search, overlapped>>

-----------------------------------------------------------------------------
(* search_knowledge_base.                                                  *)

SearchStep(p, s, record) == search' = [search EXCEPT ![p][s] = record]

\* FT.SEARCH fails or finds nothing (its index covers hashes, the documents are
\* strings), so a search goes on to create_kb, which reads only when it has no
\* snapshot.
BeginSearch(p, s) ==
  /\ search[p][s] = NoSearch
  /\ SearchStep(p, s, [NoSearch EXCEPT !.step = IF snapshot[p] = NoSnapshot THEN "smembers"
                                                ELSE "rank"])
  /\ UNCHANGED <<manifest, stored, load, snapshot, overlapped>>

\* read_kb_from_redis, first command; no client and an empty manifest read nothing more.
ReadManifest(p, s, connected) ==
  /\ search[p][s].step = "smembers"
  /\ IF ~connected \/ manifest = {}
     THEN /\ snapshot' = [snapshot EXCEPT ![p] = {}]
          /\ SearchStep(p, s, [NoSearch EXCEPT !.step = "rank"])
     ELSE /\ SearchStep(p, s, [step |-> "get", ids |-> manifest])
          /\ UNCHANGED snapshot
  /\ UNCHANGED <<manifest, stored, load, overlapped>>

\* Its second: documents that went in between are skipped.
ReadDocuments(p, s) ==
  /\ search[p][s].step = "get"
  /\ snapshot' = [snapshot EXCEPT ![p] = search[p][s].ids \cap stored]
  /\ SearchStep(p, s, [NoSearch EXCEPT !.step = "rank"])
  /\ UNCHANGED <<manifest, stored, load, overlapped>>

\* The search answers: documents of the snapshot, or results of the Web or none
\* of either with fallback_used.  A failing command of Redis ends it too.
EndSearch(p, s) ==
  /\ search[p][s] # NoSearch
  /\ SearchStep(p, s, NoSearch)
  /\ UNCHANGED <<manifest, stored, load, snapshot, overlapped>>

\* What a process had in memory goes with it.
Forget(p) ==
  /\ load' = [load EXCEPT ![p] = NoLoad]
  /\ snapshot' = [snapshot EXCEPT ![p] = NoSnapshot]
  /\ search' = [search EXCEPT ![p] = [s \in Search |-> NoSearch]]
  /\ UNCHANGED <<manifest, stored, overlapped>>

-----------------------------------------------------------------------------
KbTypeOK ==
  /\ manifest \subseteq Doc /\ stored \subseteq Doc
  /\ load \in [Process -> [step : {"none", "fetch", "replace"}, left : SUBSET Url,
                           got : SUBSET Doc, old : SUBSET Doc]]
  /\ snapshot \in [Process -> (SUBSET Doc) \cup {NoSnapshot}]
  /\ search \in [Process -> [Search -> [step : {"none", "smembers", "get", "rank"},
                                        ids : SUBSET Doc]]]
  /\ overlapped \in BOOLEAN

\* Every document the manifest lists is stored, whichever servers start, fail or
\* crash at the same time; and no document is stored that it does not list,
\* unless the loads of two servers overlapped: the documents of the one that is
\* replaced unread then stay in Redis for good.
CorpusWhole ==
  /\ manifest \subseteq stored
  /\ stored = manifest \/ overlapped

=============================================================================
