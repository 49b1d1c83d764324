------------------------------ MODULE Threads ------------------------------
(***************************************************************************)
(* The conversations of one server (core/api.py, core/utils/session.py):   *)
(* how a request is given the id of a thread, the checkpoints its turns    *)
(* write, the archive flag and title kept beside them in memory, and the   *)
(* endpoints that list, fetch, patch, resume and delete threads; and the   *)
(* endpoint of the Web UI, /agui, which runs turns of the same graph on    *)
(* the same checkpointer.  An id is a string cut at its colons, a sequence *)
(* of parts.  A handler is one step except for its turn, which writes its  *)
(* checkpoints one by one while other requests run.                        *)
(***************************************************************************)
EXTENDS Integers, FiniteSets, SequencesExt

CONSTANTS
  Caller,         \* what verify_api_key makes of an API key
  Request,        \* slots for turns that run at the same time
  Label,          \* ids a client makes up; each a sequence of parts
  Project, Topic, \* of a session, each a sequence of parts; the default project included
  DefaultTopic,   \* what a session without a topic is named after
  AguiId,         \* ids the clients of /agui make up
  ListWindow,     \* checkpoints list_threads reads, 200
  GetWindow,      \* checkpoints get_thread reads, 50
  MaxLimit,       \* the most threads a listing returns, 200
  MaxCheckpoints, MaxMessages, MaxMinted, MaxMeta, MaxParts, MaxTold \* bounds of the instance

ASSUME BoundsAssumption ==
  /\ {ListWindow, GetWindow, MaxLimit} \subseteq Nat \ {0}
  /\ {MaxCheckpoints, MaxMessages, MaxMinted, MaxMeta, MaxParts} \subseteq Nat
  /\ MaxTold \in [Caller -> Nat]

VARIABLES
  checkpoints, \* what the checkpointer holds of all threads, oldest first
  meta,        \* _thread_meta, thread id to title and status
  turns,       \* turns[r]: the turn in slot r, or Idle
  returned,    \* returned[c]: the thread ids c has been told
  minted       \* UUIDs of version 4 handed out

vars == <<checkpoints, meta, turns, returned, minted>>

Part ==
  ({"word"} \X STRING) \cup ({"uuid4"} \X Nat) \cup ({"uuid5"} \X Seq({"word"} \X STRING))
Id == Seq(Part)
CallerPart(c) == <<"word", c>>
None == <<>>  \* an absent or empty string of a request
Agui == "agui" \* who takes a turn of /agui, whatever its client is
Idle == [by |-> Agui, thread |-> None, messages |-> 0]

ASSUME NamesAssumption ==
  /\ Caller \subseteq STRING \ {Agui}
  /\ Label \cup AguiId \subseteq Id \ {None}
  /\ Project \subseteq Seq({"word"} \X STRING)
  /\ Topic \cup {DefaultTopic} \subseteq Seq({"word"} \X STRING) \ {None}

-----------------------------------------------------------------------------
(* Thread ids.                                                             *)

\* thread_id.startswith(f"{caller}:")
OwnedBy(c, t) == Len(t) > 1 /\ Head(t) = CallerPart(c)

\* Fault: an id that names somebody is taken for one that is scoped already.
RouteTrustsScoped(c, id) == IF Len(id) > 1 THEN id ELSE <<CallerPart(c)>> \o id

\* _thread_id_for: the routes /v1/threads/{id} always add the caller.
Route(c, id) == <<CallerPart(c)>> \o id

\* _strip_caller_prefix
Strip(c, t) == IF OwnedBy(c, t) THEN Tail(t) ELSE t

\* make_session_id hashes the names joined by a colon.
SessionUuid(c, project, topic) ==
  <<"uuid5", <<CallerPart(c)>> \o project \o (IF topic = None THEN DefaultTopic ELSE topic)>>
FreshUuid == <<"uuid4", minted>>

\* Fault: an id of another caller is used as it stands.
ResolveAnyPrefix(c, req) ==
  CASE req.thread # None /\ ~req.fresh ->
         IF \E d \in Caller : OwnedBy(d, req.thread) THEN req.thread ELSE Route(c, req.thread)
    [] req.fresh -> <<CallerPart(c), FreshUuid>>
    [] OTHER     -> <<CallerPart(c), SessionUuid(c, req.project, req.topic)>>

\* resolve_thread_id: an id of the client, a new session, or the topic's own.  The
\* topic counts only where neither of the others is asked for.
Resolve(c, req) ==
  CASE req.thread # None /\ ~req.fresh ->
         IF OwnedBy(c, req.thread) THEN req.thread ELSE Route(c, req.thread)
    [] req.fresh -> <<CallerPart(c), FreshUuid>>
    [] OTHER     -> <<CallerPart(c), SessionUuid(c, req.project, req.topic)>>

\* What a client can ask for: its own names and the ids it was given, with and
\* without the prefix (thread_id and external_id of the responses).
Requested(c) ==
  {id \in Label \cup returned[c] \cup {Strip(c, t) : t \in returned[c]} : Len(id) < MaxParts}

ChatRequest(c) ==
  [thread : Requested(c) \cup {None}, fresh : BOOLEAN, project : Project,
   topic : Topic \cup {None}]

-----------------------------------------------------------------------------
(* Checkpoints and metadata.                                               *)

Threads == {checkpoints[i].thread : i \in DOMAIN checkpoints}

\* Where the newest checkpoint of t is, 0 for none, and the messages in it.
LastOf(t) == Max({0} \cup {i \in DOMAIN checkpoints : checkpoints[i].thread = t})
Messages(t) == IF LastOf(t) = 0 THEN 0 ELSE checkpoints[LastOf(t)].messages

\* checkpointer.alist(None, limit=n): of all threads, newest first.  That is what the
\* savers of Postgres and Redis do; InMemorySaver goes through its threads one by one.
Newest(n) ==
  Reverse(SubSeq(checkpoints, Max({1, Len(checkpoints) - n + 1}), Len(checkpoints)))

\* Those of the checkpoints ks that belong to the threads in ts.
Of(ts, ks) ==
  FoldLeft(LAMBDA kept, k : IF k.thread \in ts THEN Append(kept, k) ELSE kept, <<>>, ks)

\* An absent key reads as these.
Blank == [title |-> "", status |-> "regular"]
MetaOf(t) == IF t \in DOMAIN meta THEN meta[t] ELSE Blank
Archived(t) == MetaOf(t).status = "archived"

\* _get_thread_meta of every thread in ts: reading makes the entry.
Touched(ts) == [t \in DOMAIN meta \cup ts |-> MetaOf(t)]
Room(ts) == Cardinality(DOMAIN meta \cup ts) =< MaxMeta

Init ==
  /\ checkpoints = <<>>
  /\ meta = <<>>
  /\ turns = [r \in Request |-> Idle]
  /\ returned = [c \in Caller |-> {}]
  /\ minted = 0

\* A response tells c the ids in ts.
Tell(c, ts) ==
  /\ Cardinality(returned[c] \cup ts) =< MaxTold[c]
  /\ returned' = [returned EXCEPT ![c] = @ \cup ts]

-----------------------------------------------------------------------------
(* Turns.                                                                  *)

\* A turn starts from the newest checkpoint of its thread.
Begin(r, by, t) ==
  /\ turns[r] = Idle
  /\ turns' = [turns EXCEPT ![r] = [by |-> by, thread |-> t, messages |-> Messages(t)]]

\* chat, chat_stream: the id is announced before the first checkpoint.
Chat(r, c, req) ==
  LET t == Resolve(c, req) IN
  /\ Begin(r, c, t)
  /\ Tell(c, {t})
  /\ IF req.fresh
     THEN minted < MaxMinted /\ minted' = minted + 1
     ELSE UNCHANGED minted
  /\ UNCHANGED <<checkpoints, meta>>

\* thread_resume: a thread without a checkpoint has nothing to resume.
Resume(r, c, id) ==
  /\ Messages(Route(c, id)) > 0
  /\ Begin(r, c, Route(c, id))
  /\ Tell(c, {Route(c, id)})
  /\ UNCHANGED <<checkpoints, meta, minted>>

\* POST /agui: no API key is asked for, and the id is the client's as it stands.
AguiRun(r, id) ==
  /\ Begin(r, Agui, id)
  /\ UNCHANGED <<checkpoints, meta, returned, minted>>

\* A step of the turn appends to the messages the turn has in hand.
Checkpoint(r) ==
  /\ turns[r] # Idle
  /\ Len(checkpoints) < MaxCheckpoints /\ turns[r].messages < MaxMessages
  /\ LET longer == turns[r].messages + 1 IN
       /\ checkpoints' =
            Append(checkpoints, [thread |-> turns[r].thread, messages |-> longer])
       /\ turns' = [turns EXCEPT ![r].messages = longer]
  /\ UNCHANGED <<meta, returned, minted>>

\* The turn ends, fails or is cancelled.
EndTurn(r) ==
  /\ turns[r] # Idle
  /\ turns' = [turns EXCEPT ![r] = Idle]
  /\ UNCHANGED <<checkpoints, meta, returned, minted>>

-----------------------------------------------------------------------------
(* The endpoints of /v1/threads.                                           *)

\* Fault: the deletion takes the id as it was sent.
DeleteUnscoped(c, id) ==
  /\ checkpoints' = Of(Threads \ {id}, checkpoints)
  /\ UNCHANGED <<meta, turns, returned, minted>>

\* delete_thread: the metadata stays, and so does a turn that runs.
DeleteThread(c, id) ==
  /\ checkpoints' = Of(Threads \ {Route(c, id)}, checkpoints)
  /\ UNCHANGED <<meta, turns, returned, minted>>

\* One pass of the loop of list_threads over a checkpoint.
Visit(c, limit, archivedToo, acc, k) ==
  IF Len(acc.listed) >= limit \/ ~OwnedBy(c, k.thread) \/ k.thread \in acc.seen
  THEN acc
  ELSE [seen |-> acc.seen \cup {k.thread},
        listed |-> IF Archived(k.thread) /\ ~archivedToo THEN acc.listed
                   ELSE Append(acc.listed, k)]

Clamp(limit) == Min({Max({limit, 1}), MaxLimit})

\* Fault: an archived thread uses up a place of the listing.
ScanCountsArchived(c, limit, archivedToo) ==
  FoldLeft(LAMBDA acc, k :
             IF Cardinality(acc.seen) >= Clamp(limit) THEN acc
             ELSE Visit(c, Clamp(limit), archivedToo, acc, k),
           [seen |-> {}, listed |-> <<>>], Newest(ListWindow))

\* list_threads: the threads it has seen and the newest checkpoint of each it lists.
Scan(c, limit, archivedToo) ==
  LET most == Clamp(limit)
  IN FoldLeft(LAMBDA acc, k : Visit(c, most, archivedToo, acc, k),
              [seen |-> {}, listed |-> <<>>], Newest(ListWindow))

ListThreads(c, limit, archivedToo) ==
  LET scan == Scan(c, limit, archivedToo) IN
  /\ Room(scan.seen)
  /\ meta' = Touched(scan.seen)
  /\ Tell(c, {k.thread : k \in ToSet(scan.listed)})
  /\ UNCHANGED <<checkpoints, turns, minted>>

\* initialize_thread: scopes the id whatever it is, or makes one up.
InitializeThread(c, id, title) ==
  LET t == IF id = None THEN <<CallerPart(c), FreshUuid>> ELSE Route(c, id) IN
  /\ Room({t})
  /\ meta' = IF title = "" THEN Touched({t})
             ELSE [Touched({t}) EXCEPT ![t].title = title]
  /\ Tell(c, {t})
  /\ IF id = None
     THEN minted < MaxMinted /\ minted' = minted + 1
     ELSE UNCHANGED minted
  /\ UNCHANGED <<checkpoints, turns>>

\* get_thread: the message count it answers, 0 when it does not find the thread.
Fetched(t) ==
  LET first == SelectInSeq(Newest(GetWindow), LAMBDA k : k.thread = t)
  IN IF first = 0 THEN 0 ELSE Newest(GetWindow)[first].messages

GetThread(c, id) ==
  /\ Room({Route(c, id)})
  /\ meta' = Touched({Route(c, id)})
  /\ UNCHANGED <<checkpoints, turns, returned, minted>>

\* Fault: a field that is left out is written all the same.
PatchThreadBlanks(c, id, title, status) ==
  /\ Room({Route(c, id)})
  /\ meta' = [Touched({Route(c, id)}) EXCEPT ![Route(c, id)] =
       [title |-> title, status |-> status]]
  /\ UNCHANGED <<checkpoints, turns, returned, minted>>

\* patch_thread: a field that is left out ("") stays.
PatchThread(c, id, title, status) ==
  LET t == Route(c, id)
      old == MetaOf(t)
  IN
  /\ Room({t})
  /\ meta' = [Touched({t}) EXCEPT ![t] =
       [title |-> IF title = "" THEN old.title ELSE title,
        status |-> IF status = "" THEN old.status ELSE status]]
  /\ UNCHANGED <<checkpoints, turns, returned, minted>>

UnarchiveThread(c, id) == PatchThread(c, id, "", "regular")

\* The process ends and starts: its dictionary and its turns are gone; the
\* checkpoints are kept by Postgres or Redis, not by InMemorySaver.
Restart ==
  /\ checkpoints' \in {checkpoints, <<>>}
  /\ meta' = <<>>
  /\ turns' = [r \in Request |-> Idle]
  /\ UNCHANGED <<returned, minted>>

Titles == {"", "named"}

\* The requests of caller c: those that run a turn and those that do not.
StartTurn(c) ==
  \E r \in Request :
    \/ \E req \in ChatRequest(c) : Chat(r, c, req)
    \/ \E id \in Requested(c) : Resume(r, c, id)

Manage(c) ==
  \/ \E id \in Requested(c) :
       \/ DeleteThread(c, id)
       \/ GetThread(c, id)
       \/ UnarchiveThread(c, id)
       \/ \E title \in Titles, status \in {"", "regular", "archived"} :
            PatchThread(c, id, title, status)
  \/ \E limit \in 1..MaxLimit, archivedToo \in BOOLEAN : ListThreads(c, limit, archivedToo)
  \/ \E id \in Requested(c) \cup {None}, title \in Titles : InitializeThread(c, id, title)

Next ==
  \/ \E c \in Caller : StartTurn(c) \/ Manage(c)
  \/ \E r \in Request, id \in AguiId : AguiRun(r, id)
  \/ \E r \in Request : Checkpoint(r) \/ EndTurn(r)
  \/ Restart

Spec == Init /\ [][Next]_vars

-----------------------------------------------------------------------------
(* Properties.                                                             *)

\* Types: what the checkpointer, the dictionary, the turns and the clients hold.
TypeOK ==
  /\ checkpoints \in Seq([thread : Id, messages : Nat])
  /\ DOMAIN meta \subseteq Id
  /\ \A t \in DOMAIN meta :
       meta[t] \in [title : Titles, status : {"regular", "archived"}]
  /\ turns \in [Request -> [by : Caller \cup {Agui}, thread : Id, messages : Nat]]
  /\ returned \in [Caller -> SUBSET Id]
  /\ minted \in Nat

\* What is kept of the threads of caller d: what their turns wrote, and what is
\* kept beside it.
Written(d) == Of({t \in Id : OwnedBy(d, t)}, checkpoints)
Described(d) == {<<t, MetaOf(t)>> : t \in {u \in DOMAIN meta : OwnedBy(d, u)}}

\* No request of a caller other than d takes this step.
NotByOthers(d) == \A c \in Caller \ {d} : ~Manage(c)

\* Whatever id a request of /v1 sends, its own or one that begins with the name of
\* somebody else, it neither writes, archives, titles nor deletes a thread of another
\* caller; and its turn writes only to a thread of its own that it was told of.  (The
\* turns of /agui write to whatever thread they name: nothing is said of them.)
CallersApart ==
  [][/\ turns' = turns /\ checkpoints' # checkpoints =>
          \A d \in Caller : Written(d)' # Written(d) => NotByOthers(d)
     /\ turns' = turns /\ meta' # meta =>
          \A d \in Caller : Described(d)' # Described(d) => NotByOthers(d)
     /\ \A c \in Caller : \A t \in returned'[c] : OwnedBy(c, t)
     /\ \A r \in Request :
          turns'[r].by # Agui => turns'[r].thread \in returned'[turns'[r].by]]_vars

\* The newest checkpoint of t, counted back from the newest of all.
Age(t) == Len(checkpoints) - LastOf(t) + 1

\* A listing shows each thread once, newest first, with the count of its newest
\* checkpoint, and none of another caller's.
ListsEachOnce(c, limit, archivedToo, listed) ==
  /\ Len(listed) =< limit
  /\ \A i, j \in DOMAIN listed : i < j => Age(listed[i].thread) < Age(listed[j].thread)
  /\ \A i \in DOMAIN listed :
       /\ OwnedBy(c, listed[i].thread)
       /\ listed[i].messages = Messages(listed[i].thread)
       /\ archivedToo \/ ~Archived(listed[i].thread)

\* A thread of the caller is missing only if it is archived, if the listing is
\* full of newer ones, or if the checkpoints of all callers since its last one
\* fill the window.
MissesForAReason(c, limit, archivedToo, listed) ==
  \A t \in Threads : OwnedBy(c, t) =>
    \/ \E i \in DOMAIN listed : listed[i].thread = t
    \/ Archived(t) /\ ~archivedToo
    \/ Age(t) > ListWindow
    \/ /\ Len(listed) = limit
       /\ \A i \in DOMAIN listed : Age(listed[i].thread) < Age(t)

\* get_thread answers for a listed thread as the listing does, or answers that it
\* is empty when it has fallen out of its own, shorter window.
FetchAgrees(listed) ==
  \A i \in DOMAIN listed :
    Fetched(listed[i].thread) =
      IF Age(listed[i].thread) > GetWindow THEN 0 ELSE listed[i].messages

\* The loop of list_threads over the mixed checkpoints of all callers, with its
\* set of seen threads, its archive filter and its early exit, returns what a
\* listing should, below its bounds and beyond them alike.
ListingFaithful ==
  \A c \in Caller, limit \in {0, MaxLimit + 1}, archivedToo \in BOOLEAN :
    LET listed == Scan(c, limit, archivedToo).listed IN
    /\ ListsEachOnce(c, Clamp(limit), archivedToo, listed)
    /\ MissesForAReason(c, Clamp(limit), archivedToo, listed)
    /\ FetchAgrees(listed)

\* Every id a response has told a client still names that thread when it is sent
\* back without a topic: as it stands to the chat endpoints, without the prefix to the
\* thread endpoints.  (With the prefix these name another thread, and the chat
\* endpoints do for a thread whose own name begins with the prefix, if it is left out.
\* Of a request with both ChatRequest says that the topic takes precedence; by Resolve
\* the id does, so that nothing is claimed of it here.)
HandlesComeBack ==
  \A c \in Caller : \A t \in returned[c] :
    /\ \A req \in ChatRequest(c) :
         req.thread = t /\ ~req.fresh /\ req.topic = None => Resolve(c, req) = t
    /\ Route(c, Strip(c, t)) = t
    /\ \A d \in Caller \ {c} : t \notin returned[d] /\ OwnedBy(d, Route(d, t))
=============================================================================
