----------------------------- MODULE MemorySeed -----------------------------
(***************************************************************************)
(* seed_memory (core/memory.py) for one namespace and key, under           *)
(* redis_lock (core/cache.py).  Every chat request of a caller, and every  *)
(* start of the server, seeds /memories/AGENTS.md if it is absent, and the *)
(* caller's agent edits the file from then on.  The lock never keeps the   *)
(* body from running: a contended or failed acquisition goes on as well.   *)
(* Each step is one awaited command of Redis or the store taking effect.   *)
(***************************************************************************)
EXTENDS Naturals

CONSTANT Seeder \* slots for concurrent calls of seed_memory

VARIABLES
  phase,    \* phase[s]: the command the call in slot s is about to issue
  acquired, \* acquired[s]: the local of redis_lock
  lock,     \* the lock key exists in Redis (its value names no owner)
  memory,   \* the file in the store: "absent", the "seed", or "edited" since
  late      \* late[s]: the file existed when the call began (observer)

seedVars == <<phase, acquired, lock, memory, late>>

SeedInit ==
  /\ phase = [s \in Seeder |-> "idle"]
  /\ acquired = [s \in Seeder |-> FALSE]
  /\ lock = FALSE
  /\ memory = "absent"
  /\ late = [s \in Seeder |-> FALSE]

Proceed(s, step) == phase' = [phase EXCEPT ![s] = step]

-----------------------------------------------------------------------------
(* redis_lock.                                                             *)

Begin(s) ==
  /\ phase[s] = "idle"
  /\ Proceed(s, "set")
  /\ acquired' = [acquired EXCEPT ![s] = FALSE]
  /\ late' = [late EXCEPT ![s] = memory # "absent"]
  /\ UNCHANGED <<lock, memory>>

\* Fault: a lock that waits for its holder.
AcquireWaits(s) ==
  /\ phase[s] = "set"
  /\ ~lock
  /\ acquired' = [acquired EXCEPT ![s] = TRUE]
  /\ lock' = TRUE
  /\ Proceed(s, "aget")
  /\ UNCHANGED <<memory, late>>

\* SET key 1 NX EX ttl
Acquire(s) ==
  /\ phase[s] = "set"
  /\ acquired' = [acquired EXCEPT ![s] = ~lock]
  /\ lock' = TRUE
  /\ Proceed(s, "aget")
  /\ UNCHANGED <<memory, late>>

\* The SET raises, before or after Redis obeyed it, or no Redis is configured.
AcquireFails(s) ==
  /\ phase[s] = "set"
  /\ lock' \in {lock, TRUE}
  /\ Proceed(s, "aget")
  /\ UNCHANGED <<acquired, memory, late>>

\* The finally clause: DEL only what this call believes to hold.
NothingToRelease(s) ==
  /\ phase[s] = "finally" /\ ~acquired[s]
  /\ Proceed(s, "idle")
  /\ UNCHANGED <<acquired, lock, memory, late>>

\* The DEL removes the key whoever set it, unless it raises, which is suppressed.
Release(s) ==
  /\ phase[s] = "finally" /\ acquired[s]
  /\ lock' \in {FALSE, lock}
  /\ Proceed(s, "idle")
  /\ UNCHANGED <<acquired, memory, late>>

Expire ==
  /\ lock
  /\ lock' = FALSE
  /\ UNCHANGED <<phase, acquired, memory, late>>

-----------------------------------------------------------------------------
(* The body, and the agent.                                                *)

\* Fault: the seed is written whether or not the file is there.
NoExistenceCheck(s) ==
  /\ phase[s] = "aget"
  /\ Proceed(s, "aput")
  /\ UNCHANGED <<acquired, lock, memory, late>>

\* Fault: an early return that skips the finally clause.
ReturnEarly(s) ==
  /\ phase[s] = "aget"
  /\ Proceed(s, IF memory = "absent" THEN "aput" ELSE "returned")
  /\ UNCHANGED <<acquired, lock, memory, late>>

aget(s) ==
  /\ phase[s] = "aget"
  /\ Proceed(s, IF memory = "absent" THEN "aput" ELSE "finally")
  /\ UNCHANGED <<acquired, lock, memory, late>>

aput(s) ==
  /\ phase[s] = "aput"
  /\ memory' = "seed"
  /\ Proceed(s, "finally")
  /\ UNCHANGED <<acquired, lock, late>>

\* The store raises; an aput that took effect and then raised is an aput.
MemoryFails(s) ==
  /\ phase[s] \in {"aget", "aput"}
  /\ Proceed(s, "finally")
  /\ UNCHANGED <<acquired, lock, memory, late>>

\* The process of the call dies; the finally clause does not run.
Crash(s) ==
  /\ phase[s] # "idle"
  /\ Proceed(s, "idle")
  /\ UNCHANGED <<acquired, lock, memory, late>>

\* edit_file of an agent of the caller, possible once the file is there.
edit_file ==
  /\ memory # "absent"
  /\ memory' = "edited"
  /\ UNCHANGED <<phase, acquired, lock, late>>

-----------------------------------------------------------------------------
Command(s) ==
  \/ Acquire(s) \/ aget(s) \/ aput(s) \/ NothingToRelease(s) \/ Release(s)

SeedStep(s) == Command(s) \/ AcquireFails(s) \/ MemoryFails(s)

SeedNext ==
  \/ \E s \in Seeder : Begin(s) \/ SeedStep(s) \/ Crash(s)
  \/ Expire
  \/ edit_file

SeedSpec == SeedInit /\ [][SeedNext]_seedVars

\* Each command of a call that has begun is carried out, or raises.  Nothing is assumed
\* of the lock's expiry.
FairSeedSpec == SeedSpec /\ \A s \in Seeder : WF_seedVars(Command(s))

-----------------------------------------------------------------------------
SeedTypeOK ==
  /\ phase \in [Seeder -> {"idle", "set", "aget", "aput", "finally"}]
  /\ acquired \in [Seeder -> BOOLEAN]
  /\ lock \in BOOLEAN
  /\ memory \in {"absent", "seed", "edited"}
  /\ late \in [Seeder -> BOOLEAN]

(* An edited file is only ever replaced by its agent or by a call that had *)
(* begun before the file existed: re-seeding on every later request, after *)
(* crashes, expired and lost locks, leaves the agent's notes alone.        *)
(* (seed_memory: the seed is only written if the key is absent.  It adds   *)
(* that edits are never overwritten by a re-seed; where two first requests *)
(* of a caller overlap, the later aput does undo what an agent has edited  *)
(* in between, as the lock keeps neither of them out)                      *)
OnlyFirstWaveWrites ==
  [][memory = "edited" /\ memory' = "seed"
       => \E s \in Seeder : phase[s] = "aput" /\ ~late[s] /\ phase'[s] # "aput"]_seedVars

(* A request is never held up by the lock: whatever holder crashed with    *)
(* it, and even if it never expired, each call ends.  (redis_lock: the     *)
(* body always runs)                                                       *)
SeedingEnds == \A s \in Seeder : phase[s] # "idle" ~> phase[s] = "idle"
=============================================================================
