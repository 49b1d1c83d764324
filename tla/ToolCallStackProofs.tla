------------------------ MODULE ToolCallStackProofs ------------------------
(***************************************************************************)
(* Proofs about ToolCallStack, for any number of runs, calls and tools and *)
(* any setting of the thresholds and limits.                               *)
(***************************************************************************)
EXTENDS ToolCallStack, TLAPS

(* A call in flight belongs to a working run and names a real tool: an     *)
(* eager one runs while the model answers, the others in the tool step.    *)
(* Only a circuit tool's call holds an entry, and a call that backs off    *)
(* has an attempt left.                                                    *)
InFlightOK ==
  \A c \in Call : call[c].phase # "idle" =>
    /\ call[c].run \in Run /\ run[call[c].run] \in Working
    /\ call[c].phase = "eager" => run[call[c].run] = "active"
    /\ call[c].phase \in {"running", "backoff"} => run[call[c].run] = "acting"
    /\ call[c].tool \in Tool
    /\ call[c].attached => call[c].tool \in CircuitTools
    /\ call[c].phase = "backoff" => call[c].attempt < MaxAttempts

TypeInv == TypeOK /\ InFlightOK

-----------------------------------------------------------------------------
(* The helpers keep the types.                                             *)

LEMMA EntryTypes ==
  /\ FreshEntry \in Entry
  /\ FreshBreakers \in [CircuitTools -> Entry]
  /\ Unseen \in View
  /\ \A e \in Entry : Probe(e) \in Entry /\ RecordSuccess(e) \in Entry /\ RecordFailure(e) \in Entry
<1>1. FreshEntry \in Entry
  BY DEF FreshEntry, Entry
<1>2. Unseen \in View
  BY DEF Unseen, View
<1>3. ASSUME NEW e \in Entry PROVE Probe(e) \in Entry
  BY DEF Probe, Entry
<1>4. ASSUME NEW e \in Entry PROVE RecordFailure(e) \in Entry
  BY DEF RecordFailure, Entry
<1> QED BY <1>1, <1>2, <1>3, <1>4 DEF FreshBreakers, RecordSuccess

LEMMA OnCircuitType ==
  ASSUME TypeInv, NEW c \in Call, call[c].phase # "idle",
         OnCircuit(c, RecordSuccess) \/ OnCircuit(c, RecordFailure)
  PROVE  breaker' \in [CircuitTools -> Entry]
<1>1. CASE OnCircuit(c, RecordSuccess)
  BY <1>1, EntryTypes DEF OnCircuit, TypeInv, TypeOK, InFlightOK
<1>2. CASE OnCircuit(c, RecordFailure)
  BY <1>2, EntryTypes DEF OnCircuit, TypeInv, TypeOK, InFlightOK
<1> QED BY <1>1, <1>2

LEMMA ViewFields ==
  \A v \in View : /\ v.issued \in Nat /\ v.executed \in Nat /\ v.graded \in Nat
                  /\ v.eager \in Nat /\ v.resets \in Nat /\ v.regrades \in Nat
                  /\ v.exclusive \in BOOLEAN /\ v.failed \in [CircuitTools -> Nat]
BY DEF View

LEMMA ViewTypes ==
  /\ Idle \in CallSlot
  /\ \A v \in View, c \in Call : Issues(c, v) \in View
  /\ \A v \in View : [v EXCEPT !.exclusive = FALSE] \in View
  /\ \A v \in View : [v EXCEPT !.resets = @ + 1] \in View
  /\ \A v \in View : [v EXCEPT !.regrades = @ + 1] \in View
  /\ \A v \in View : [v EXCEPT !.exclusive = FALSE, !.resets = @ + 1, !.regrades = @ + 1] \in View
  /\ \A v \in View, n \in Nat, m \in Nat :
       [v EXCEPT !.executed = n, !.graded = m] \in View
  /\ \A v \in View, n \in Nat, m \in Nat :
       [v EXCEPT !.issued = n, !.eager = m] \in View
  /\ \A v \in View, t \in CircuitTools : [v EXCEPT !.failed[t] = @ + 1] \in View
<1>1. Idle \in CallSlot
  BY StackAssumption DEF Idle, CallSlot
<1>2. ASSUME NEW v \in View, NEW c \in Call PROVE Issues(c, v) \in View
  BY DEF View, Issues
<1>3. ASSUME NEW v \in View
      PROVE  /\ [v EXCEPT !.exclusive = FALSE] \in View
             /\ [v EXCEPT !.resets = @ + 1] \in View
             /\ [v EXCEPT !.regrades = @ + 1] \in View
             /\ [v EXCEPT !.exclusive = FALSE, !.resets = @ + 1, !.regrades = @ + 1] \in View
  <2>1. v.resets + 1 \in Nat /\ v.regrades + 1 \in Nat
    BY ViewFields
  <2>2. [v EXCEPT !.exclusive = FALSE] \in View
    BY DEF View
  <2>3. [v EXCEPT !.resets = v.resets + 1] \in View
    BY <2>1 DEF View
  <2>4. [v EXCEPT !.regrades = v.regrades + 1] \in View
    BY <2>1 DEF View
  <2>5. [v EXCEPT !.exclusive = FALSE, !.resets = v.resets + 1, !.regrades = v.regrades + 1] \in View
    BY <2>1 DEF View
  <2> QED BY <2>2, <2>3, <2>4, <2>5
<1>4. ASSUME NEW v \in View, NEW n \in Nat, NEW m \in Nat
      PROVE  /\ [v EXCEPT !.executed = n, !.graded = m] \in View
             /\ [v EXCEPT !.issued = n, !.eager = m] \in View
  BY DEF View
<1>5. ASSUME NEW v \in View, NEW t \in CircuitTools
      PROVE  [v EXCEPT !.failed[t] = @ + 1] \in View
  <2>1. v.failed \in [CircuitTools -> Nat]
    BY DEF View
  <2>2. [v.failed EXCEPT ![t] = @ + 1] \in [CircuitTools -> Nat]
    BY <2>1
  <2> QED BY <2>2 DEF View
<1> QED BY <1>1, <1>2, <1>3, <1>4, <1>5

LEMMA AttemptTypes ==
  /\ \A r \in Run, t \in Tool :
       /\ [phase |-> "running", run |-> r, tool |-> t, attempt |-> 1,
           attached |-> t \in CircuitTools] \in CallSlot
       /\ [phase |-> "eager", run |-> r, tool |-> t, attempt |-> 1, attached |-> FALSE] \in CallSlot
  /\ \A v \in CallSlot : v.attempt < MaxAttempts => v.attempt + 1 \in 1..MaxAttempts
  /\ \A v \in CallSlot : [v EXCEPT !.attached = FALSE] \in CallSlot
  /\ \A v \in CallSlot, outcome \in {"held", "asked", "backoff"} :
       [v EXCEPT !.phase = outcome] \in CallSlot
<1>1. 1 \in 1..MaxAttempts /\ MaxAttempts \in Nat
  BY StackAssumption
<1>2. ASSUME NEW v \in CallSlot PROVE [v EXCEPT !.attached = FALSE] \in CallSlot
  BY DEF CallSlot
<1>3. ASSUME NEW v \in CallSlot, NEW outcome \in {"held", "asked", "backoff"}
      PROVE  [v EXCEPT !.phase = outcome] \in CallSlot
  BY DEF CallSlot
<1> QED BY <1>1, <1>2, <1>3 DEF CallSlot

LEMMA ExecutesType ==
  ASSUME TypeOK, NEW r \in Run, NEW t
  PROVE  Executes(r, t) \in View
<1>1. seen[r] \in View
  BY DEF TypeOK
<1>2. /\ (IF Counted(t) THEN seen[r].executed + 1 ELSE seen[r].executed) \in Nat
      /\ (IF t = "grade_response" THEN seen[r].graded + 1 ELSE seen[r].graded) \in Nat
  BY <1>1 DEF View
<1> QED BY <1>1, <1>2, ViewTypes DEF Executes

LEMMA ResetTypes ==
  ASSUME TypeOK, NEW r \in Run, ResetUnder(r) \/ RegradeUnder(r)
  PROVE  seen' \in [Run -> View]
BY ViewTypes DEF TypeOK, ResetUnder, RegradeUnder

LEMMA CountAttemptType ==
  ASSUME TypeOK, NEW t, CountAttempt(t)
  PROVE  toolCount' \in Nat /\ gradeCount' \in Nat
BY DEF TypeOK, CountAttempt

LEMMA CountersType ==
  ASSUME TypeOK, toolCount' \in {toolCount, 0}, gradeCount' \in {gradeCount, 0}
  PROVE  toolCount' \in Nat /\ gradeCount' \in Nat
<1>1. toolCount \in Nat /\ gradeCount \in Nat
  BY DEF TypeOK
<1> QED BY <1>1

-----------------------------------------------------------------------------
(* Type correctness.                                                       *)

LEMMA TypeInvInit == Init => TypeInv
<1>1. Init => InFlightOK
  BY DEF Init, InFlightOK, Idle
<1>2. ASSUME Init PROVE TypeOK
  <2>1. call \in [Call -> CallSlot] /\ seen \in [Run -> View]
    BY <1>2, EntryTypes, ViewTypes DEF Init
  <2> QED BY <1>2, <2>1, EntryTypes DEF Init, TypeOK
<1> QED BY <1>1, <1>2 DEF TypeInv

LEMMA TypeInvRun ==
  ASSUME TypeInv, NEW r \in Run, RunStep(r)
  PROVE  TypeInv'
<1> USE EntryTypes, ViewTypes DEF TypeInv, TypeOK, InFlightOK
<1>0. ASSUME PopBreakers, \A c \in Call : call[c].phase # "idle" =>
               run'[call[c].run] = run[call[c].run]
      PROVE  breaker' \in [CircuitTools -> Entry] /\ call' \in [Call -> CallSlot] /\ InFlightOK'
  <2>1. breaker' \in [CircuitTools -> Entry]
    BY <1>0 DEF PopBreakers
  <2>2. call' \in [Call -> CallSlot]
    BY <1>0, AttemptTypes DEF PopBreakers
  <2>3. \A c \in Call : /\ call'[c].phase = call[c].phase /\ call'[c].run = call[c].run
                        /\ call'[c].tool = call[c].tool /\ call'[c].attempt = call[c].attempt
                        /\ call'[c].attached = FALSE
    BY <1>0 DEF PopBreakers, CallSlot
  <2> QED BY <1>0, <2>1, <2>2, <2>3
<1>1. CASE StartRun(r)
  <2>1. [Unseen EXCEPT !.exclusive = ~OthersLive(r)] \in View
    BY DEF Unseen, View
  <2>2. seen' \in [Run -> View]
    BY <1>1, <2>1 DEF StartRun
  <2>3. \A c \in Call : call[c].phase # "idle" => run'[call[c].run] = run[call[c].run]
    BY <1>1 DEF StartRun, Phase, Working
  <2>4. run' \in [Run -> {"idle"} \cup Live]
    BY <1>1 DEF StartRun, Phase, Live
  <2> QED BY <1>0, <1>1, <2>2, <2>3, <2>4 DEF StartRun
<1>6. CASE ReclaimBreakers(r)
  <2>1. \A c \in Call : call[c].phase # "idle" => run'[call[c].run] = run[call[c].run]
    BY <1>6 DEF ReclaimBreakers, Phase, Working
  <2>2. run' \in [Run -> {"idle"} \cup Live] /\ seen' \in [Run -> View]
    BY <1>6 DEF ReclaimBreakers, Phase, Live
  <2> QED BY <1>0, <1>6, <2>1, <2>2 DEF ReclaimBreakers
<1>7. CASE ResetGrades(r) \/ ResetCalls(r) \/ ReclaimGrades(r) \/ EndRun(r)
  <2>1. run' \in [Run -> {"idle"} \cup Live]
    BY <1>7 DEF ResetGrades, ResetCalls, ReclaimGrades, EndRun, Phase, Live, Working
  <2>4. toolCount' \in {toolCount, 0} /\ gradeCount' \in {gradeCount, 0}
    BY <1>7 DEF ResetGrades, ResetCalls, ReclaimGrades, EndRun, ResetUnder, RegradeUnder
  <2>2. \A c \in Call : call[c].phase # "idle" => run'[call[c].run] = run[call[c].run]
    BY <1>7 DEF ResetGrades, ResetCalls, ReclaimGrades, EndRun, Quiet, Phase, Working
  <2>3. UNCHANGED <<call, breaker>>
    BY <1>7 DEF ResetGrades, ResetCalls, ReclaimGrades, EndRun
  <2>5. toolCount' \in Nat /\ gradeCount' \in Nat
    BY <2>4, CountersType
  <2>8. seen' \in [Run -> View]
    BY <1>7, ResetTypes DEF ResetGrades, ResetCalls, ReclaimGrades, EndRun
  <2>6. TypeOK'
    BY <2>1, <2>3, <2>5, <2>8
  <2>7. InFlightOK'
    BY <2>2, <2>3
  <2> QED BY <2>6, <2>7
<1>3. CASE AbortRun(r)
  <2>1. InFlightOK'
    BY <1>3 DEF AbortRun, Idle
  <2> QED BY <1>3, <2>1 DEF AbortRun, Live
<1>4. CASE Act(r) \/ AskModel(r) \/ Interrupt(r) \/ Resume(r)
  <2>1. run' \in [Run -> {"idle"} \cup Live] /\ UNCHANGED <<call, breaker, toolCount, gradeCount, seen>>
    BY <1>4 DEF Act, AskModel, Interrupt, Resume, Phase, Live, Working
  <2>2. InFlightOK'
    BY <1>4, <2>1 DEF Act, AskModel, Interrupt, Resume, Phase, Quiet, Answered, Working
  <2> QED BY <2>1, <2>2
<1>5. CASE DropEager(r)
  <2>1. InFlightOK'
    BY <1>5 DEF DropEager, Idle
  <2> QED BY <1>5, <2>1 DEF DropEager
<1> QED BY <1>1, <1>3, <1>4, <1>5, <1>6, <1>7 DEF RunStep

LEMMA TypeInvIssue ==
  ASSUME TypeInv, NEW c \in Call, NEW r \in Run, NEW t \in Tool, IssueStep(c, r, t)
  PROVE  TypeInv'
<1> USE EntryTypes, ViewTypes DEF TypeInv, TypeOK
<1>0. ASSUME call' = [call EXCEPT ![c] = Idle], run' = run
      PROVE  call' \in [Call -> CallSlot] /\ InFlightOK'
  BY <1>0 DEF InFlightOK, Idle
<1>4. CASE EagerDispatch(c, r, t)
  <2>1. seen' \in [Run -> View]
    <3>0. seen[r] \in View
      OBVIOUS
    <3>4. seen[r].issued \in Nat /\ seen[r].eager \in Nat
      BY ONLY <3>0, ViewFields
    <3>1. seen[r].issued + 1 \in Nat /\ seen[r].eager \in Nat /\ seen[r].eager + 1 \in Nat
      BY ONLY <3>4
    <3>2. (IF Counted(t) THEN seen[r].eager + 1 ELSE seen[r].eager) \in Nat
      BY <3>1
    <3>3. [seen[r] EXCEPT !.issued = @ + 1, !.eager = IF Counted(t) THEN @ + 1 ELSE @] \in View
      BY <3>0, <3>1, <3>2, ViewTypes
    <3> QED BY <1>4, <3>3 DEF EagerDispatch
  <2>2. call' \in [Call -> CallSlot]
    BY <1>4, AttemptTypes DEF EagerDispatch
  <2>3. InFlightOK'
    BY <1>4 DEF EagerDispatch, InFlightOK, Working
  <2> QED BY <1>4, <2>1, <2>2, <2>3 DEF EagerDispatch
<1>1. CASE BlockedCall(c, r, t)
  BY <1>0, <1>1 DEF BlockedCall
<1>2. CASE AdmitCall(c, r, t)
  <2>1. toolCount' \in Nat /\ gradeCount' \in Nat
    BY <1>2, CountAttemptType DEF AdmitCall
  <2>2. seen' \in [Run -> View]
    BY <1>2, ExecutesType DEF AdmitCall
  <2>3. breaker' \in [CircuitTools -> Entry]
    BY <1>2 DEF AdmitCall
  <2>4. call' \in [Call -> CallSlot]
    BY <1>2, AttemptTypes DEF AdmitCall
  <2>5. InFlightOK'
    BY <1>2 DEF AdmitCall, Asks, InFlightOK, Working
  <2> QED BY <1>2, <2>1, <2>2, <2>3, <2>4, <2>5 DEF AdmitCall
<1>3. CASE AnsweredInside(c, r, t)
  <2>1. toolCount' \in Nat /\ gradeCount' \in Nat
    BY <1>3, CountAttemptType DEF AnsweredInside
  <2>2. seen' \in [Run -> View] /\ breaker' \in [CircuitTools -> Entry]
    BY <1>3 DEF AnsweredInside
  <2> QED BY <1>0, <1>3, <2>1, <2>2 DEF AnsweredInside
<1> QED BY <1>1, <1>2, <1>3, <1>4 DEF IssueStep

LEMMA TypeInvCall ==
  ASSUME TypeInv, NEW c \in Call, CallStep(c)
  PROVE  TypeInv'
<1> USE EntryTypes, ViewTypes DEF TypeInv, TypeOK
<1>0. ASSUME call' = [call EXCEPT ![c] = Idle], run' = run
      PROVE  call' \in [Call -> CallSlot] /\ InFlightOK'
  BY <1>0 DEF InFlightOK, Idle
<1>6. CASE EagerEnds(c)
  <2>1. PICK outcome \in {"held", "asked"} : call' = [call EXCEPT ![c].phase = outcome]
    BY <1>6 DEF EagerEnds
  <2>2. [call[c] EXCEPT !.phase = outcome] \in CallSlot
    BY AttemptTypes
  <2>3. call' \in [Call -> CallSlot]
    BY <2>1, <2>2
  <2>4. /\ \A d \in Call : d # c => call'[d] = call[d]
        /\ call'[c].phase = outcome /\ call'[c].run = call[c].run /\ call'[c].tool = call[c].tool
        /\ call'[c].attached = call[c].attached
    BY <2>1 DEF CallSlot
  <2>5. InFlightOK'
    BY <1>6, <2>4 DEF EagerEnds, InFlightOK
  <2> QED BY <1>6, <2>3, <2>5 DEF EagerEnds
<1>1. CASE ToolReturns(c)
  BY <1>0, <1>1, OnCircuitType DEF ToolReturns
<1>2. CASE ToolRaisesAndBacksOff(c)
  BY <1>2 DEF ToolRaisesAndBacksOff, RetriesLeft, InFlightOK, CallSlot
<1>3. CASE ToolRaises(c)
  <2>1. breaker' \in [CircuitTools -> Entry]
    BY <1>3, OnCircuitType DEF ToolRaises
  <2>2. call[c].attached => call[c].run \in Run /\ call[c].tool \in CircuitTools
    BY <1>3 DEF ToolRaises, InFlightOK
  <2>3. seen' \in [Run -> View]
    BY <1>3, <2>2 DEF ToolRaises
  <2> QED BY <1>0, <1>3, <2>1, <2>3 DEF ToolRaises
<1>4. CASE RetryCall(c)
  <2>1. call[c].run \in Run
    BY <1>4 DEF RetryCall, InFlightOK
  <2>2. seen' \in [Run -> View]
    BY <1>4, <2>1, ExecutesType DEF RetryCall
  <2>3. toolCount' \in Nat /\ gradeCount' \in Nat
    BY <1>4, CountAttemptType DEF RetryCall
  <2>4. call[c].attempt + 1 \in 1..MaxAttempts
    <3>1. call[c] \in CallSlot /\ call[c].attempt < MaxAttempts
      BY <1>4 DEF RetryCall, InFlightOK
    <3> QED BY <3>1, AttemptTypes
  <2>5. call' \in [Call -> CallSlot]
    BY <1>4, <2>4 DEF RetryCall, CallSlot
  <2>6. InFlightOK'
    BY <1>4 DEF RetryCall, InFlightOK, CallSlot
  <2> QED BY <1>4, <2>2, <2>3, <2>5, <2>6 DEF RetryCall
<1>5. CASE RetryIsCapped(c)
  <2>1. toolCount' \in Nat /\ gradeCount' \in Nat
    BY <1>5, CountAttemptType DEF RetryIsCapped
  <2> QED BY <1>0, <1>5, <2>1, OnCircuitType DEF RetryIsCapped
<1> QED BY <1>1, <1>2, <1>3, <1>4, <1>5, <1>6 DEF CallStep

LEMMA TypeInvNext == TypeInv /\ [Next]_vars => TypeInv'
<1> SUFFICES ASSUME TypeInv, [Next]_vars PROVE TypeInv'
  OBVIOUS
<1>1. ASSUME NEW t \in CircuitTools, RecoveryElapses(t) PROVE TypeInv'
  <2>1. [breaker[t] EXCEPT !.cooling = FALSE] \in Entry
    BY DEF TypeInv, TypeOK, Entry
  <2> QED BY <1>1, <2>1 DEF RecoveryElapses, TypeInv, TypeOK, InFlightOK
<1>2. CASE Restart
  BY <1>2, EntryTypes, ViewTypes DEF Restart, TypeInv, TypeOK, InFlightOK, Idle, Live, Working
<1>3. CASE UNCHANGED vars
  BY <1>3 DEF vars, TypeInv, TypeOK, InFlightOK
<1> QED BY <1>1, <1>2, <1>3, TypeInvRun, TypeInvIssue, TypeInvCall DEF Next

(* The state is always well typed, and no call outlives its run.           *)
THEOREM TypeCorrect == Spec => [](TypeOK /\ InFlightOK)
<1>1. TypeInv => TypeOK /\ InFlightOK
  BY DEF TypeInv
<1> QED BY <1>1, TypeInvInit, TypeInvNext, PTL DEF Spec

-----------------------------------------------------------------------------
(* The circuit.                                                            *)

Coherent(e) == (e.state = "closed") <=> (e.failures < FailureThreshold)
Warmed(e) == [e EXCEPT !.cooling = FALSE]

LEMMA EntryCoherence ==
  /\ Coherent(FreshEntry)
  /\ \A e \in Entry : Coherent(e) =>
       Coherent(Probe(e)) /\ Coherent(RecordFailure(e)) /\ Coherent(Warmed(e))
<1>1. Coherent(FreshEntry)
  BY StackAssumption DEF Coherent, FreshEntry
<1>2. ASSUME NEW e \in Entry, Coherent(e) PROVE Coherent(Probe(e))
  BY <1>2 DEF Coherent, Probe, Entry
<1>3. ASSUME NEW e \in Entry, Coherent(e) PROVE Coherent(RecordFailure(e))
  BY <1>3, StackAssumption DEF Coherent, RecordFailure, Entry
<1>4. ASSUME NEW e \in Entry, Coherent(e) PROVE Coherent(Warmed(e))
  BY <1>4 DEF Coherent, Warmed, Entry
<1> QED BY <1>1, <1>2, <1>3, <1>4

\* Whatever a step does, it moves each circuit in one of five ways.
Moves(t) ==
  {breaker[t], FreshEntry, Probe(breaker[t]), RecordFailure(breaker[t]), Warmed(breaker[t])}

LEMMA BreakerStep ==
  ASSUME TypeInv, [Next]_vars, NEW t \in CircuitTools
  PROVE  breaker'[t] \in Moves(t)
<1>0. breaker \in [CircuitTools -> Entry]
  BY DEF TypeInv, TypeOK
<1>1. ASSUME NEW c \in Call, call[c].phase # "idle",
             OnCircuit(c, RecordSuccess) \/ OnCircuit(c, RecordFailure)
      PROVE  breaker'[t] \in Moves(t)
  <2>1. CASE OnCircuit(c, RecordSuccess)
    BY <1>0, <2>1 DEF OnCircuit, RecordSuccess, Moves
  <2>2. CASE OnCircuit(c, RecordFailure)
    BY <1>0, <2>2 DEF OnCircuit, Moves
  <2> QED BY <1>1, <2>1, <2>2
<1>2. ASSUME NEW r \in Run, RunStep(r) PROVE breaker'[t] \in Moves(t)
  BY <1>2 DEF RunStep, StartRun, ResetGrades, ResetCalls, EndRun, ReclaimGrades,
              ReclaimBreakers, AbortRun, Act, AskModel, Interrupt, Resume, DropEager,
              PopBreakers, FreshBreakers, Moves
<1>3. ASSUME NEW c \in Call, NEW r \in Run, NEW u \in Tool, IssueStep(c, r, u)
      PROVE  breaker'[t] \in Moves(t)
  <2>1. CASE BlockedCall(c, r, u) \/ EagerDispatch(c, r, u)
    BY <2>1 DEF BlockedCall, EagerDispatch, Moves
  <2>2. CASE AdmitCall(c, r, u)
    BY <1>0, <2>2 DEF AdmitCall, Moves
  <2>3. CASE AnsweredInside(c, r, u)
    BY <1>0, <2>3 DEF AnsweredInside, RecordSuccess, Moves
  <2> QED BY <1>3, <2>1, <2>2, <2>3 DEF IssueStep
<1>4. ASSUME NEW c \in Call, CallStep(c) PROVE breaker'[t] \in Moves(t)
  <2>1. CASE ToolReturns(c) \/ ToolRaises(c) \/ RetryIsCapped(c)
    BY <1>1, <2>1 DEF ToolReturns, ToolRaises, RetryIsCapped
  <2>2. CASE EagerEnds(c) \/ ToolRaisesAndBacksOff(c) \/ RetryCall(c)
    BY <2>2 DEF EagerEnds, ToolRaisesAndBacksOff, RetryCall, Moves
  <2> QED BY <1>4, <2>1, <2>2 DEF CallStep
<1>5. ASSUME NEW u \in CircuitTools, RecoveryElapses(u) PROVE breaker'[t] \in Moves(t)
  BY <1>0, <1>5 DEF RecoveryElapses, Warmed, Moves
<1>6. CASE Restart
  BY <1>6 DEF Restart, FreshBreakers, Moves
<1>7. CASE UNCHANGED vars
  BY <1>7 DEF vars, Moves
<1> QED BY <1>2, <1>3, <1>4, <1>5, <1>6, <1>7 DEF Next

CircuitInv == TypeInv /\ CircuitMatchesCount

LEMMA CircuitNext == CircuitInv /\ [Next]_vars => CircuitInv'
<1> SUFFICES ASSUME CircuitInv, [Next]_vars PROVE CircuitInv'
  OBVIOUS
<1>1. ASSUME NEW t \in CircuitTools PROVE Coherent(breaker'[t])
  <2>1. breaker[t] \in Entry /\ Coherent(breaker[t])
    BY DEF CircuitInv, CircuitMatchesCount, Coherent, TypeInv, TypeOK
  <2>2. breaker'[t] \in Moves(t)
    BY BreakerStep DEF CircuitInv
  <2> QED BY <2>1, <2>2, EntryCoherence DEF Moves
<1>2. CircuitMatchesCount'
  BY <1>1 DEF CircuitMatchesCount, Coherent
<1> QED BY <1>2, TypeInvNext DEF CircuitInv

LEMMA CircuitInit == Init => CircuitInv
<1>1. Init => CircuitMatchesCount
  BY EntryCoherence DEF Init, CircuitMatchesCount, FreshBreakers, Coherent
<1> QED BY <1>1, TypeInvInit DEF CircuitInv

(* A circuit is closed exactly while its failure count is below the        *)
(* threshold, in every reachable state.                                    *)
THEOREM CircuitCorrect == Spec => []CircuitMatchesCount
<1>1. CircuitInv => CircuitMatchesCount
  BY DEF CircuitInv
<1> QED BY <1>1, CircuitInit, CircuitNext, PTL DEF Spec

(* A call that fails while its circuit is half open re-opens it.  It needs *)
(* the invariant: only because the probe keeps failure_count does a single *)
(* failure reach the threshold again.                                      *)
THEOREM FailedProbe == Spec => FailedProbeReopens
<1>1. ASSUME CircuitInv, [Next]_vars, NEW t \in CircuitTools,
             breaker[t].state = "half_open", breaker'[t].failures > breaker[t].failures
      PROVE  breaker'[t].state = "open" /\ breaker'[t].cooling
  <2>1. breaker[t] \in Entry /\ breaker[t].failures >= FailureThreshold
    BY <1>1, StackAssumption DEF CircuitInv, CircuitMatchesCount, TypeInv, TypeOK, Entry
  <2>2. breaker'[t] = RecordFailure(breaker[t])
    <3>1. breaker'[t] \in Moves(t)
      BY <1>1, BreakerStep DEF CircuitInv
    <3>2. ~(breaker[t].failures > breaker[t].failures)
      BY <2>1 DEF Entry
    <3>3. Probe(breaker[t]).failures = breaker[t].failures
          /\ Warmed(breaker[t]).failures = breaker[t].failures
      BY <2>1 DEF Probe, Warmed, Entry
    <3>4. ~(FreshEntry.failures > breaker[t].failures)
      BY <2>1 DEF FreshEntry, Entry
    <3> QED BY <1>1, <3>1, <3>2, <3>3, <3>4 DEF Moves
  <2> QED BY <2>1, <2>2, StackAssumption DEF RecordFailure, Entry
<1>2. CircuitInv /\ [Next]_vars =>
        [\A t \in CircuitTools :
           breaker[t].state = "half_open" /\ breaker'[t].failures > breaker[t].failures
             => breaker'[t].state = "open" /\ breaker'[t].cooling]_vars
  BY <1>1
<1> QED BY <1>2, CircuitInit, CircuitNext, PTL DEF Spec, FailedProbeReopens

-----------------------------------------------------------------------------
(* The budgets.  Both caps keep the same relation between the phase of a   *)
(* run, how often it spent (n), how often the count was set back under it  *)
(* (b), the thread's count (k) and the limit (l).                          *)

Covers(phase, n, b, k, l) ==
  /\ n <= l * (1 + b)
  /\ phase \in {"idle", "starting", "started"} => n = 0 /\ b = 0
  /\ phase \in Working => n <= k + l * b

LEMMA CoversFresh ==
  ASSUME NEW phase, NEW k \in Nat, NEW l \in Nat
  PROVE  Covers(phase, 0, 0, k, l)
BY DEF Covers

\* Let through by a cap: the count moves with what it covers.
LEMMA CoversSpent ==
  ASSUME NEW phase \in Working, NEW n \in Nat, NEW b \in Nat, NEW k \in Nat, NEW l \in Nat,
         Covers(phase, n, b, k, l), k + 1 <= l
  PROVE  Covers(phase, n + 1, b, k + 1, l)
<1>1. l * b \in Nat /\ l * (1 + b) = l + l * b
  OBVIOUS
<1>2. n + 1 <= k + 1 + l * b
  BY <1>1 DEF Covers
<1>3. n + 1 <= l * (1 + b)
  BY <1>1, <1>2
<1> QED BY <1>2, <1>3 DEF Covers, Working

\* Set back by another run: what was spent is within the limit and its repetitions.
LEMMA CoversSetBack ==
  ASSUME NEW phase \in Working, NEW n \in Nat, NEW b \in Nat, NEW k \in Nat, NEW l \in Nat,
         Covers(phase, n, b, k, l)
  PROVE  Covers(phase, n, b + 1, 0, l)
<1>1. l * b \in Nat /\ l * (1 + b) = l + l * b /\ l * (1 + (b + 1)) = l + (l + l * b)
      /\ l * (b + 1) = l + l * b
  OBVIOUS
<1>2. n <= l + l * b
  BY <1>1 DEF Covers
<1> QED BY <1>1, <1>2 DEF Covers, Working

\* A run begins to work with nothing spent, stays at work under a count that only
\* grows, or does not work, when the count does not matter.
LEMMA CoversMoves ==
  ASSUME NEW phase, NEW next, NEW n \in Nat, NEW b \in Nat, NEW k \in Nat, NEW m \in Nat,
         NEW l \in Nat, Covers(phase, n, b, k, l),
         next \in {"idle", "starting", "started"} => phase \in {"idle", "starting", "started"},
         next \in Working => phase = "started" \/ (phase \in Working /\ m >= k)
  PROVE  Covers(next, n, b, m, l)
<1>1. l * b \in Nat
  OBVIOUS
<1>2. CASE phase = "started"
  BY <1>1, <1>2 DEF Covers
<1>3. CASE phase # "started"
  <2>1. next \in Working => n <= m + l * b
    BY <1>1, <1>3 DEF Covers
  <2> QED BY <1>3, <2>1 DEF Covers
<1> QED BY <1>2, <1>3

BudgetInv ==
  /\ TypeInv
  /\ \A r \in Run :
       /\ Covers(run[r], seen[r].executed, seen[r].resets, toolCount, MaxCalls)
       /\ Covers(run[r], seen[r].graded, seen[r].regrades, gradeCount, MaxLoops)

LEMMA BudgetInit == Init => BudgetInv
<1> SUFFICES ASSUME Init PROVE BudgetInv
  OBVIOUS
<1>1. \A r \in Run : /\ seen[r].executed = 0 /\ seen[r].resets = 0
                     /\ seen[r].graded = 0 /\ seen[r].regrades = 0
  BY DEF Init, Unseen
<1> QED BY <1>1, TypeInvInit, CoversFresh, StackAssumption DEF Init, BudgetInv

\* What a state says of run q, as the lemmas above need it.
LEMMA BudgetTypes ==
  ASSUME BudgetInv, NEW q \in Run
  PROVE  /\ seen[q] \in View /\ run[q] \in {"idle"} \cup Live
         /\ seen[q].executed \in Nat /\ seen[q].resets \in Nat
         /\ seen[q].graded \in Nat /\ seen[q].regrades \in Nat
         /\ toolCount \in Nat /\ gradeCount \in Nat
         /\ Covers(run[q], seen[q].executed, seen[q].resets, toolCount, MaxCalls)
         /\ Covers(run[q], seen[q].graded, seen[q].regrades, gradeCount, MaxLoops)
<1>1. seen[q] \in View /\ run[q] \in {"idle"} \cup Live /\ toolCount \in Nat /\ gradeCount \in Nat
  BY DEF BudgetInv, TypeInv, TypeOK
<1> QED BY <1>1, ViewFields DEF BudgetInv

\* The two budgets of run q after a step.
Kept(q) ==
  /\ Covers(run[q], seen[q].executed, seen[q].resets, toolCount, MaxCalls)
  /\ Covers(run[q], seen[q].graded, seen[q].regrades, gradeCount, MaxLoops)

\* A step that spends nothing of run q, and sets nothing back under it.
LEMMA BudgetMoves ==
  ASSUME BudgetInv, TypeInv', NEW q \in Run,
         /\ seen'[q].executed = seen[q].executed /\ seen'[q].resets = seen[q].resets
         /\ seen'[q].graded = seen[q].graded /\ seen'[q].regrades = seen[q].regrades,
         run'[q] \in {"idle", "starting", "started"} => run[q] \in {"idle", "starting", "started"},
         run'[q] \in Working =>
           \/ run[q] = "started"
           \/ run[q] \in Working /\ toolCount' >= toolCount /\ gradeCount' >= gradeCount
  PROVE  Kept(q)'
<1>1. toolCount' \in Nat /\ gradeCount' \in Nat /\ MaxCalls \in Nat /\ MaxLoops \in Nat
  BY StackAssumption DEF TypeInv, TypeOK
<1>2. Covers(run'[q], seen[q].executed, seen[q].resets, toolCount', MaxCalls)
  BY <1>1, BudgetTypes, CoversMoves
<1>3. Covers(run'[q], seen[q].graded, seen[q].regrades, gradeCount', MaxLoops)
  BY <1>1, BudgetTypes, CoversMoves
<1> QED BY <1>2, <1>3 DEF Kept

LEMMA BudgetFresh ==
  ASSUME TypeInv', NEW q \in Run,
         /\ seen'[q].executed = 0 /\ seen'[q].resets = 0
         /\ seen'[q].graded = 0 /\ seen'[q].regrades = 0
  PROVE  Kept(q)'
<1>1. toolCount' \in Nat /\ gradeCount' \in Nat /\ MaxCalls \in Nat /\ MaxLoops \in Nat
  BY StackAssumption DEF TypeInv, TypeOK
<1> QED BY <1>1, CoversFresh DEF Kept

\* A run resets the tool count: its own budget begins or is over, that of another run
\* at work is set back, and no other is touched.
LEMMA BudgetReset ==
  ASSUME BudgetInv, TypeInv', NEW r \in Run, NEW q \in Run,
         ResetUnder(r), gradeCount' = gradeCount, run' = [run EXCEPT ![r] = run'[r]],
         \/ run[r] = "started" /\ run'[r] = "active"
         \/ run[r] = "active" /\ run'[r] = "ending"
  PROVE  Kept(q)'
<1>0. run \in [Run -> {"idle"} \cup Live] /\ seen \in [Run -> View]
      /\ seen[q].resets \in Nat
  BY BudgetTypes DEF BudgetInv, TypeInv, TypeOK
<1>1. CASE q \in Under(r)
  <2>1. /\ toolCount' = 0 /\ q # r /\ run'[q] = run[q] /\ run[q] \in Working
        /\ seen'[q] = [seen[q] EXCEPT !.resets = @ + 1]
    BY <1>0, <1>1 DEF ResetUnder, Under
  <2>2. /\ seen'[q].executed = seen[q].executed /\ seen'[q].resets = seen[q].resets + 1
        /\ seen'[q].graded = seen[q].graded /\ seen'[q].regrades = seen[q].regrades
    BY <1>0, <2>1 DEF View
  <2>3. Covers(run'[q], seen'[q].executed, seen'[q].resets, toolCount', MaxCalls)
    BY <2>1, <2>2, BudgetTypes, CoversSetBack, StackAssumption
  <2> QED BY <2>1, <2>2, <2>3, BudgetTypes DEF Kept
<1>2. CASE q \notin Under(r)
  <2>1. seen'[q] = seen[q] /\ toolCount' = 0
    BY <1>0, <1>2 DEF ResetUnder
  <2>2. CASE q = r
    BY <1>0, <2>1, <2>2, BudgetMoves DEF Working
  <2>3. CASE q # r
    <3>1. run'[q] = run[q] /\ run[q] \notin Working
      BY <1>0, <1>2, <2>3 DEF Under
    <3> QED BY <2>1, <3>1, BudgetMoves
  <2> QED BY <2>2, <2>3
<1> QED BY <1>1, <1>2

\* The count of grades likewise; here neither phase of the run itself is a working one.
LEMMA BudgetRegrade ==
  ASSUME BudgetInv, TypeInv', NEW r \in Run, NEW q \in Run,
         RegradeUnder(r), toolCount' = toolCount, run' = [run EXCEPT ![r] = run'[r]],
         \/ run[r] = "starting" /\ run'[r] = "started"
         \/ run[r] = "ending" /\ run'[r] = "ended"
  PROVE  Kept(q)'
<1>0. run \in [Run -> {"idle"} \cup Live] /\ seen \in [Run -> View]
      /\ seen[q].regrades \in Nat
  BY BudgetTypes DEF BudgetInv, TypeInv, TypeOK
<1>1. CASE q \in Under(r)
  <2>1. /\ gradeCount' = 0 /\ q # r /\ run'[q] = run[q] /\ run[q] \in Working
        /\ seen'[q] = [seen[q] EXCEPT !.regrades = @ + 1]
    BY <1>0, <1>1 DEF RegradeUnder, Under
  <2>2. /\ seen'[q].executed = seen[q].executed /\ seen'[q].resets = seen[q].resets
        /\ seen'[q].graded = seen[q].graded /\ seen'[q].regrades = seen[q].regrades + 1
    BY <1>0, <2>1 DEF View
  <2>3. Covers(run'[q], seen'[q].graded, seen'[q].regrades, gradeCount', MaxLoops)
    BY <2>1, <2>2, BudgetTypes, CoversSetBack, StackAssumption
  <2> QED BY <2>1, <2>2, <2>3, BudgetTypes DEF Kept
<1>2. CASE q \notin Under(r)
  <2>1. seen'[q] = seen[q]
    BY <1>0, <1>2 DEF RegradeUnder
  <2>2. CASE q = r
    BY <1>0, <2>1, <2>2, BudgetMoves DEF Working
  <2>3. CASE q # r
    <3>1. run'[q] = run[q] /\ run[q] \notin Working
      BY <1>0, <1>2, <2>3 DEF Under
    <3> QED BY <2>1, <3>1, BudgetMoves
  <2> QED BY <2>2, <2>3
<1> QED BY <1>1, <1>2

LEMMA BudgetRun ==
  ASSUME BudgetInv, TypeInv', NEW r \in Run, RunStep(r), NEW q \in Run
  PROVE  Kept(q)'
<1>0. /\ run \in [Run -> {"idle"} \cup Live] /\ seen \in [Run -> View]
      /\ toolCount \in Nat /\ gradeCount \in Nat
  BY DEF BudgetInv, TypeInv, TypeOK
<1>1. CASE StartRun(r)
  <2>1. CASE q = r
    <3>1. seen'[q] = [Unseen EXCEPT !.exclusive = ~OthersLive(r)]
      BY <1>0, <1>1, <2>1 DEF StartRun
    <3> QED BY <3>1, BudgetFresh DEF Unseen
  <2>2. CASE q # r
    <3>1. seen'[q] \in {seen[q], [seen[q] EXCEPT !.exclusive = FALSE]} /\ run'[q] = run[q]
          /\ toolCount' = toolCount /\ gradeCount' = gradeCount
      BY <1>0, <1>1, <2>2 DEF StartRun, Phase
    <3>2. /\ seen'[q].executed = seen[q].executed /\ seen'[q].resets = seen[q].resets
          /\ seen'[q].graded = seen[q].graded /\ seen'[q].regrades = seen[q].regrades
      BY <1>0, <3>1 DEF View
    <3> QED BY <1>0, <3>1, <3>2, BudgetMoves
  <2> QED BY <2>1, <2>2
<1>2. CASE ResetCalls(r) \/ EndRun(r)
  <2>1. /\ ResetUnder(r) /\ gradeCount' = gradeCount /\ run' = [run EXCEPT ![r] = run'[r]]
        /\ \/ run[r] = "started" /\ run'[r] = "active"
           \/ run[r] = "active" /\ run'[r] = "ending"
    BY <1>0, <1>2 DEF ResetCalls, EndRun, Phase
  <2> QED BY <2>1, BudgetReset
<1>3. CASE ResetGrades(r) \/ ReclaimGrades(r)
  <2>1. /\ RegradeUnder(r) /\ toolCount' = toolCount /\ run' = [run EXCEPT ![r] = run'[r]]
        /\ \/ run[r] = "starting" /\ run'[r] = "started"
           \/ run[r] = "ending" /\ run'[r] = "ended"
    BY <1>0, <1>3 DEF ResetGrades, ReclaimGrades, Phase
  <2> QED BY <2>1, BudgetRegrade
<1>4. CASE ReclaimBreakers(r) \/ AbortRun(r)
  <2>1. /\ run' = [run EXCEPT ![r] = "idle"] /\ seen' = [seen EXCEPT ![r] = Unseen]
        /\ toolCount' = toolCount /\ gradeCount' = gradeCount
    BY <1>4 DEF ReclaimBreakers, AbortRun, Phase
  <2>2. CASE q = r
    BY <1>0, <2>1, <2>2, BudgetFresh DEF Unseen
  <2>3. CASE q # r
    BY <1>0, <2>1, <2>3, BudgetMoves
  <2> QED BY <2>2, <2>3
<1>5. CASE Act(r) \/ AskModel(r) \/ Interrupt(r) \/ Resume(r) \/ DropEager(r)
  <2>1. /\ UNCHANGED <<toolCount, gradeCount, seen>>
        /\ run'[q] = run[q] \/ (run[q] \in Working /\ run'[q] \in Working)
    BY <1>0, <1>5 DEF Act, AskModel, Interrupt, Resume, DropEager, Phase, Working
  <2> QED BY <1>0, <2>1, BudgetMoves DEF Working
<1> QED BY <1>1, <1>2, <1>3, <1>4, <1>5 DEF RunStep

\* One attempt of run r at tool t, let through by the caps or answered inside them.
LEMMA BudgetAttempt ==
  ASSUME BudgetInv, TypeInv', NEW r \in Run, NEW t, NEW q \in Run, run[r] \in Working, run' = run,
         CountAttempt(t), \A p \in Run : p # r => seen'[p] = seen[p],
         /\ seen'[r].resets = seen[r].resets /\ seen'[r].regrades = seen[r].regrades,
         \/ seen'[r].executed = seen[r].executed /\ seen'[r].graded = seen[r].graded
         \/ /\ ~OverCap(t)
            /\ seen'[r].executed = Executes(r, t).executed
            /\ seen'[r].graded = Executes(r, t).graded
  PROVE  Kept(q)'
<1>0. /\ toolCount \in Nat /\ gradeCount \in Nat /\ MaxCalls \in Nat /\ MaxLoops \in Nat
      /\ seen[r] \in View
  BY StackAssumption, BudgetTypes
<1>1. toolCount' >= toolCount /\ gradeCount' >= gradeCount
  BY <1>0 DEF CountAttempt
<1>2. CASE q # r \/ (seen'[r].executed = seen[r].executed /\ seen'[r].graded = seen[r].graded)
  BY <1>1, <1>2, BudgetMoves
<1>3. CASE q = r /\ ~(seen'[r].executed = seen[r].executed /\ seen'[r].graded = seen[r].graded)
  <2>1. /\ ~OverCap(t)
        /\ seen'[r].executed = IF Counted(t) THEN seen[r].executed + 1 ELSE seen[r].executed
        /\ seen'[r].graded = IF t = "grade_response" THEN seen[r].graded + 1 ELSE seen[r].graded
    BY <1>0, <1>3 DEF Executes, View
  <2>2. CASE Counted(t)
    <3>1. /\ toolCount' = toolCount + 1 /\ gradeCount' = gradeCount /\ toolCount + 1 <= MaxCalls
          /\ seen'[r].executed = seen[r].executed + 1 /\ seen'[r].graded = seen[r].graded
      BY <1>0, <2>1, <2>2 DEF CountAttempt, OverCap, Counted, LimitExempt
    <3>2. Covers(run'[r], seen'[r].executed, seen'[r].resets, toolCount', MaxCalls)
      BY <1>0, <3>1, BudgetTypes, CoversSpent
    <3> QED BY <1>3, <3>1, <3>2, BudgetTypes DEF Kept
  <2>3. CASE ~Counted(t)
    <3>1. t = "grade_response"
      BY <1>3, <2>1, <2>3
    <3>2. /\ toolCount' = toolCount /\ gradeCount' = gradeCount + 1 /\ gradeCount + 1 <= MaxLoops
          /\ seen'[r].executed = seen[r].executed /\ seen'[r].graded = seen[r].graded + 1
      BY <1>0, <2>1, <2>3, <3>1 DEF CountAttempt, OverCap
    <3>3. Covers(run'[r], seen'[r].graded, seen'[r].regrades, gradeCount', MaxLoops)
      BY <1>0, <3>2, BudgetTypes, CoversSpent
    <3> QED BY <1>3, <3>2, <3>3, BudgetTypes DEF Kept
  <2> QED BY <2>2, <2>3
<1> QED BY <1>2, <1>3

LEMMA BudgetIssue ==
  ASSUME BudgetInv, TypeInv', NEW c \in Call, NEW r \in Run, NEW t \in Tool,
         IssueStep(c, r, t), NEW q \in Run
  PROVE  Kept(q)'
<1>0. /\ run \in [Run -> {"idle"} \cup Live] /\ seen \in [Run -> View]
      /\ toolCount \in Nat /\ gradeCount \in Nat
  BY DEF BudgetInv, TypeInv, TypeOK
<1>1. \A v \in View :
        /\ Issues(c, v).executed = v.executed /\ Issues(c, v).resets = v.resets
        /\ Issues(c, v).graded = v.graded /\ Issues(c, v).regrades = v.regrades
  BY DEF Issues, View
<1>2. CASE EagerDispatch(c, r, t)
  <2>1. /\ run' = run /\ toolCount' = toolCount /\ gradeCount' = gradeCount
        /\ seen' = [seen EXCEPT ![r].issued = @ + 1, ![r].eager = IF Counted(t) THEN @ + 1 ELSE @]
    BY <1>2 DEF EagerDispatch
  <2>2. /\ seen'[q].executed = seen[q].executed /\ seen'[q].resets = seen[q].resets
        /\ seen'[q].graded = seen[q].graded /\ seen'[q].regrades = seen[q].regrades
    BY <1>0, <2>1 DEF View
  <2> QED BY <1>0, <2>1, <2>2, BudgetMoves
<1>3. CASE BlockedCall(c, r, t)
  <2>1. /\ run' = run /\ toolCount' = toolCount /\ gradeCount' = gradeCount
        /\ seen' = [seen EXCEPT ![r] = Issues(c, @)]
    BY <1>3 DEF BlockedCall
  <2>2. /\ seen'[q].executed = seen[q].executed /\ seen'[q].resets = seen[q].resets
        /\ seen'[q].graded = seen[q].graded /\ seen'[q].regrades = seen[q].regrades
    BY <1>0, <1>1, <2>1
  <2> QED BY <1>0, <2>1, <2>2, BudgetMoves
<1>4. CASE AnsweredInside(c, r, t)
  <2>1. /\ run[r] \in Working /\ run' = run /\ CountAttempt(t)
        /\ seen' = [seen EXCEPT ![r] = Issues(c, @)]
    BY <1>4 DEF AnsweredInside, Asks, Working
  <2>2. \A p \in Run : p # r => seen'[p] = seen[p]
    BY <1>0, <2>1
  <2>3. /\ seen'[r].executed = seen[r].executed /\ seen'[r].resets = seen[r].resets
        /\ seen'[r].graded = seen[r].graded /\ seen'[r].regrades = seen[r].regrades
    BY <1>0, <1>1, <2>1
  <2> QED BY <2>1, <2>2, <2>3, BudgetAttempt
<1>5. CASE AdmitCall(c, r, t)
  <2>1. /\ run[r] \in Working /\ run' = run /\ CountAttempt(t) /\ ~OverCap(t)
        /\ seen' = [seen EXCEPT ![r] = Issues(c, Executes(r, t))]
    BY <1>5 DEF AdmitCall, Asks, Working
  <2>2. \A p \in Run : p # r => seen'[p] = seen[p]
    BY <1>0, <2>1
  <2>6. Executes(r, t) \in View
    BY ExecutesType DEF BudgetInv, TypeInv
  <2>3. Executes(r, t).resets = seen[r].resets /\ Executes(r, t).regrades = seen[r].regrades
    BY <1>0 DEF Executes, View
  <2>4. seen'[r] = Issues(c, Executes(r, t))
    BY <1>0, <2>1
  <2>5. /\ seen'[r].executed = Executes(r, t).executed /\ seen'[r].resets = seen[r].resets
        /\ seen'[r].graded = Executes(r, t).graded /\ seen'[r].regrades = seen[r].regrades
    BY <1>1, <2>3, <2>4, <2>6
  <2> QED BY <2>1, <2>2, <2>5, BudgetAttempt
<1> QED BY <1>2, <1>3, <1>4, <1>5 DEF IssueStep

LEMMA BudgetCall ==
  ASSUME BudgetInv, TypeInv', NEW c \in Call, CallStep(c), NEW q \in Run
  PROVE  Kept(q)'
<1>0. /\ run \in [Run -> {"idle"} \cup Live] /\ seen \in [Run -> View]
      /\ toolCount \in Nat /\ gradeCount \in Nat
  BY DEF BudgetInv, TypeInv, TypeOK
<1>1. CASE EagerEnds(c) \/ ToolReturns(c) \/ ToolRaisesAndBacksOff(c)
  <2>1. UNCHANGED <<run, toolCount, gradeCount, seen>>
    BY <1>1 DEF EagerEnds, ToolReturns, ToolRaisesAndBacksOff
  <2> QED BY <1>0, <2>1, BudgetMoves
<1>2. CASE ToolRaises(c)
  <2>1. /\ run' = run /\ toolCount' = toolCount /\ gradeCount' = gradeCount
        /\ seen' \in {seen, [seen EXCEPT ![call[c].run].failed[call[c].tool] = @ + 1]}
    BY <1>2 DEF ToolRaises
  <2>2. /\ seen'[q].executed = seen[q].executed /\ seen'[q].resets = seen[q].resets
        /\ seen'[q].graded = seen[q].graded /\ seen'[q].regrades = seen[q].regrades
    BY <1>0, <2>1 DEF View
  <2> QED BY <1>0, <2>1, <2>2, BudgetMoves
<1>3. CASE RetryCall(c)
  <2> DEFINE r == call[c].run  t == call[c].tool
  <2>1. r \in Run /\ run[r] \in Working
    BY <1>3 DEF RetryCall, BudgetInv, TypeInv, InFlightOK
  <2>2. run' = run /\ CountAttempt(t) /\ ~OverCap(t) /\ seen' = [seen EXCEPT ![r] = Executes(r, t)]
    BY <1>3 DEF RetryCall
  <2> HIDE DEF r, t
  <2>3. Executes(r, t).resets = seen[r].resets /\ Executes(r, t).regrades = seen[r].regrades
    BY <1>0, <2>1 DEF Executes, View
  <2>4. seen'[r] = Executes(r, t) /\ \A p \in Run : p # r => seen'[p] = seen[p]
    BY <1>0, <2>1, <2>2
  <2> QED BY <2>1, <2>2, <2>3, <2>4, BudgetAttempt
<1>4. CASE RetryIsCapped(c)
  <2>1. call[c].run \in Run /\ run[call[c].run] \in Working
    BY <1>4 DEF RetryIsCapped, BudgetInv, TypeInv, InFlightOK
  <2>2. run' = run /\ CountAttempt(call[c].tool) /\ seen' = seen
    BY <1>4 DEF RetryIsCapped
  <2> QED BY <2>1, <2>2, BudgetAttempt
<1> QED BY <1>1, <1>2, <1>3, <1>4 DEF CallStep

LEMMA BudgetNext == BudgetInv /\ [Next]_vars => BudgetInv'
<1> SUFFICES ASSUME BudgetInv, [Next]_vars PROVE BudgetInv'
  OBVIOUS
<1>0. /\ TypeInv' /\ run \in [Run -> {"idle"} \cup Live] /\ seen \in [Run -> View]
      /\ toolCount \in Nat /\ gradeCount \in Nat
  BY TypeInvNext DEF BudgetInv, TypeInv, TypeOK
<1> SUFFICES ASSUME NEW q \in Run PROVE Kept(q)'
  BY <1>0 DEF BudgetInv, Kept
<1>1. CASE (\E t \in CircuitTools : RecoveryElapses(t)) \/ UNCHANGED vars
  <2>1. UNCHANGED <<run, toolCount, gradeCount, seen>>
    BY <1>1 DEF RecoveryElapses, vars
  <2> QED BY <1>0, <2>1, BudgetMoves
<1>2. CASE Restart
  <2>1. CASE run[q] = "interrupted"
    <3>1. /\ run'[q] = run[q] /\ toolCount' = 0 /\ gradeCount' = 0
          /\ seen'[q] = [seen[q] EXCEPT !.exclusive = FALSE, !.resets = @ + 1, !.regrades = @ + 1]
      BY <1>0, <1>2, <2>1 DEF Restart
    <3>2. /\ seen'[q].executed = seen[q].executed /\ seen'[q].resets = seen[q].resets + 1
          /\ seen'[q].graded = seen[q].graded /\ seen'[q].regrades = seen[q].regrades + 1
      BY <1>0, <3>1 DEF View
    <3>3. run[q] \in Working
      BY <2>1 DEF Working
    <3>4. Covers(run'[q], seen'[q].executed, seen'[q].resets, toolCount', MaxCalls)
      BY <3>1, <3>2, <3>3, BudgetTypes, CoversSetBack, StackAssumption
    <3>5. Covers(run'[q], seen'[q].graded, seen'[q].regrades, gradeCount', MaxLoops)
      BY <3>1, <3>2, <3>3, BudgetTypes, CoversSetBack, StackAssumption
    <3> QED BY <3>4, <3>5 DEF Kept
  <2>2. CASE run[q] # "interrupted"
    <3>1. seen'[q] = Unseen
      BY <1>0, <1>2, <2>2 DEF Restart
    <3> QED BY <1>0, <3>1, BudgetFresh DEF Unseen
  <2> QED BY <2>1, <2>2
<1> QED BY <1>0, <1>1, <1>2, BudgetRun, BudgetIssue, BudgetCall DEF Next

(* Whoever shares the thread with it, a run lets no more calls through to  *)
(* their tools and grades no more drafts than its limits, and as many      *)
(* again for each time its count was set back under it.  Eager runs are    *)
(* outside what is counted, and outside this theorem.                      *)
THEOREM BudgetCorrect == Spec => []RunStaysInBudget
<1>1. BudgetInv => RunStaysInBudget
  BY DEF BudgetInv, RunStaysInBudget, Covers
<1> QED BY <1>1, BudgetInit, BudgetNext, PTL DEF Spec

-----------------------------------------------------------------------------
(* The failures of a run that has the thread to itself.                    *)

Exclusivity ==
  \A r \in Run : seen[r].exclusive /\ run[r] \in Live => ~OthersLive(r)

OwnInv == TypeInv /\ Exclusivity /\ ExclusiveRunSeesOwnFailures

LEMMA OwnInit == Init => OwnInv
<1>1. Init => \A r \in Run : run[r] \notin Live
  BY DEF Init, Live, Working
<1> QED BY <1>1, TypeInvInit DEF OwnInv, Exclusivity, ExclusiveRunSeesOwnFailures

\* Runs that keep their slots and their views keep the thread to themselves.
LEMMA OwnExclusivity ==
  ASSUME OwnInv, \A q \in Run : run'[q] \in Live <=> run[q] \in Live,
         \A q \in Run : seen'[q].exclusive = seen[q].exclusive
  PROVE  Exclusivity'
BY DEF OwnInv, Exclusivity, OthersLive

\* A step that records no failure keeps each run's own failures in charge.
LEMMA OwnFailuresKept ==
  ASSUME OwnInv, TypeInv', \A q \in Run : run'[q] \in Live <=> run[q] \in Live,
         \A q \in Run : /\ seen'[q].exclusive = seen[q].exclusive
                       /\ seen'[q].failed = seen[q].failed,
         \A t \in CircuitTools : breaker'[t] \in Moves(t) \ {RecordFailure(breaker[t])}
  PROVE  ExclusiveRunSeesOwnFailures'
<1> SUFFICES ASSUME NEW q \in Run, seen[q].exclusive, run[q] \in Live, NEW t \in CircuitTools
             PROVE  breaker'[t].failures <= seen[q].failed[t]
  BY DEF ExclusiveRunSeesOwnFailures
<1>1. breaker[t].failures <= seen[q].failed[t] /\ breaker[t] \in Entry /\ seen[q] \in View
  BY DEF OwnInv, ExclusiveRunSeesOwnFailures, TypeInv, TypeOK
<1>2. seen[q].failed[t] \in Nat /\ breaker[t].failures \in Nat
  BY <1>1 DEF View, Entry
<1>3. Probe(breaker[t]).failures = breaker[t].failures
      /\ Warmed(breaker[t]).failures = breaker[t].failures /\ FreshEntry.failures = 0
  BY <1>1 DEF Probe, Warmed, FreshEntry, Entry
<1>4. breaker'[t] \in {breaker[t], FreshEntry, Probe(breaker[t]), Warmed(breaker[t])}
  BY DEF Moves
<1> QED BY <1>1, <1>2, <1>3, <1>4

\* Any step of a call that records no failure.
LEMMA OwnQuiet ==
  ASSUME OwnInv, TypeInv', \A q \in Run : run'[q] \in Live <=> run[q] \in Live,
         \A q \in Run : /\ seen'[q].exclusive = seen[q].exclusive
                       /\ seen'[q].failed = seen[q].failed,
         \A t \in CircuitTools : breaker'[t] \in Moves(t) \ {RecordFailure(breaker[t])}
  PROVE  OwnInv'
BY OwnFailuresKept, OwnExclusivity DEF OwnInv

LEMMA SuccessIsNoFailure ==
  ASSUME TypeInv, NEW c \in Call, OnCircuit(c, RecordSuccess)
  PROVE  \A t \in CircuitTools : breaker'[t] \in Moves(t) \ {RecordFailure(breaker[t])}
<1>0. breaker \in [CircuitTools -> Entry]
  BY DEF TypeInv, TypeOK
<1>1. \A t \in CircuitTools : breaker'[t] \in {breaker[t], FreshEntry}
  BY <1>0 DEF OnCircuit, RecordSuccess
<1>2. \A e \in Entry : RecordFailure(e) # e /\ RecordFailure(e) # FreshEntry
  BY DEF RecordFailure, FreshEntry, Entry
<1> QED BY <1>0, <1>1, <1>2 DEF Moves

\* No entry is what it is after a failure, so a step to anything else records none.
LEMMA NoFailure ==
  ASSUME TypeInv, \A u \in CircuitTools :
           breaker'[u] \in {breaker[u], FreshEntry, Probe(breaker[u]), Warmed(breaker[u])}
  PROVE  \A u \in CircuitTools : breaker'[u] \in Moves(u) \ {RecordFailure(breaker[u])}
<1>1. \A e \in Entry : /\ RecordFailure(e).failures = e.failures + 1 /\ e.failures + 1 # e.failures
                       /\ Probe(e).failures = e.failures /\ Warmed(e).failures = e.failures
                       /\ e.failures + 1 # FreshEntry.failures
  BY DEF RecordFailure, Probe, Warmed, FreshEntry, Entry
<1>2. breaker \in [CircuitTools -> Entry]
  BY DEF TypeInv, TypeOK
<1> QED BY <1>1, <1>2 DEF Moves

\* A recorded failure is one of the failing call's own run: if another live run
\* were exclusive, the failing call's run could not be live.
LEMMA OwnRaise ==
  ASSUME OwnInv, TypeInv', NEW c \in Call, ToolRaises(c)
  PROVE  OwnInv'
<1>0. /\ run \in [Run -> {"idle"} \cup Live] /\ seen \in [Run -> View]
      /\ breaker \in [CircuitTools -> Entry]
  BY DEF OwnInv, TypeInv, TypeOK
<1>1. CASE ~call[c].attached
  <2>1. UNCHANGED <<run, toolCount, gradeCount, seen>> /\ breaker' = breaker
    BY <1>1 DEF ToolRaises, OnCircuit
  <2>2. \A e \in Entry : RecordFailure(e) # e
    BY DEF RecordFailure, Entry
  <2>3. \A t \in CircuitTools : breaker'[t] \in Moves(t) \ {RecordFailure(breaker[t])}
    BY <1>0, <2>1, <2>2 DEF Moves
  <2> QED BY <2>1, <2>3, OwnQuiet
<1>2. CASE call[c].attached
  <2> DEFINE r == call[c].run  u == call[c].tool
  <2>1. r \in Run /\ run[r] \in Live /\ u \in CircuitTools
    BY <1>2 DEF ToolRaises, OwnInv, TypeInv, InFlightOK, Live
  <2>2. /\ UNCHANGED <<run, toolCount, gradeCount>>
        /\ breaker' = [breaker EXCEPT ![u] = RecordFailure(@)]
        /\ seen' = [seen EXCEPT ![r].failed[u] = @ + 1]
    BY <1>2 DEF ToolRaises, OnCircuit
  <2> HIDE DEF r, u
  <2>3. /\ \A q \in Run : /\ seen'[q].exclusive = seen[q].exclusive
                          /\ q # r => seen'[q] = seen[q]
        /\ seen'[r].failed = [seen[r].failed EXCEPT ![u] = @ + 1]
    BY <1>0, <2>1, <2>2 DEF View
  <2>4. Exclusivity'
    BY <2>2, <2>3, OwnExclusivity
  <2>5. ASSUME NEW q \in Run, seen'[q].exclusive, run'[q] \in Live, NEW t \in CircuitTools
        PROVE  breaker'[t].failures <= seen'[q].failed[t]
    <3>1. q = r
      BY <2>1, <2>2, <2>3, <2>5 DEF OwnInv, Exclusivity, OthersLive
    <3>2. breaker[t].failures <= seen[q].failed[t]
      BY <2>2, <2>3, <2>5 DEF OwnInv, ExclusiveRunSeesOwnFailures
    <3>3. seen[q].failed \in [CircuitTools -> Nat] /\ breaker[t] \in Entry
      BY <1>0 DEF View
    <3>4. seen[q].failed[t] \in Nat /\ breaker[t].failures \in Nat
      BY <3>3 DEF Entry
    <3>5. RecordFailure(breaker[t]).failures = breaker[t].failures + 1
      BY DEF RecordFailure
    <3>6. CASE t = u
      <4>1. breaker'[t].failures = breaker[t].failures + 1
        BY <1>0, <2>2, <3>5, <3>6
      <4>2. seen'[q].failed[t] = seen[q].failed[t] + 1
        BY <2>1, <2>3, <3>1, <3>3, <3>6
      <4> QED BY <3>2, <3>4, <4>1, <4>2
    <3>7. CASE t # u
      <4>1. breaker'[t] = breaker[t]
        BY <1>0, <2>2, <3>7
      <4>2. seen'[q].failed[t] = seen[q].failed[t]
        BY <2>1, <2>3, <3>1, <3>3, <3>7
      <4> QED BY <3>2, <4>1, <4>2
    <3> QED BY <3>6, <3>7
  <2>6. ExclusiveRunSeesOwnFailures'
    BY <2>5 DEF ExclusiveRunSeesOwnFailures
  <2> QED BY <2>4, <2>6 DEF OwnInv
<1> QED BY <1>1, <1>2

LEMMA OwnRun ==
  ASSUME OwnInv, TypeInv', NEW r \in Run, RunStep(r)
  PROVE  OwnInv'
<1>0. /\ TypeInv /\ run \in [Run -> {"idle"} \cup Live] /\ seen \in [Run -> View]
      /\ breaker \in [CircuitTools -> Entry]
  BY DEF OwnInv, TypeInv, TypeOK
<1>1. CASE StartRun(r)
  <2>1. \A q \in Run : q # r /\ run[q] \in Live => ~seen'[q].exclusive
    BY <1>0, <1>1 DEF StartRun, View
  <2>2. /\ seen'[r].exclusive => ~OthersLive(r)
        /\ seen'[r].failed = [t \in CircuitTools |-> 0]
    BY <1>0, <1>1 DEF StartRun, Unseen
  <2>3. \A q \in Run : q # r => run'[q] = run[q]
    BY <1>0, <1>1 DEF StartRun, Phase
  <2>4. \A t \in CircuitTools : breaker'[t].failures = 0
    BY <1>1 DEF StartRun, PopBreakers, FreshBreakers, FreshEntry
  <2>5. Exclusivity' /\ ExclusiveRunSeesOwnFailures'
    BY <2>1, <2>2, <2>3, <2>4 DEF Exclusivity, ExclusiveRunSeesOwnFailures, OthersLive
  <2> QED BY <2>5 DEF OwnInv
<1>2. CASE ReclaimBreakers(r) \/ AbortRun(r)
  <2>1. /\ run[r] \in Live /\ run' = [run EXCEPT ![r] = "idle"] /\ seen' = [seen EXCEPT ![r] = Unseen]
    BY <1>2 DEF ReclaimBreakers, AbortRun, Phase, Live
  <2>2. \A q \in Run : q # r => run'[q] = run[q] /\ seen'[q] = seen[q]
    BY <1>0, <2>1
  <2>3. \A q \in Run : q # r => ~(seen[q].exclusive /\ run[q] \in Live)
    BY <2>1 DEF OwnInv, Exclusivity, OthersLive
  <2>4. run'[r] \notin Live
    BY <1>0, <2>1 DEF Live, Working
  <2> QED BY <2>2, <2>3, <2>4 DEF OwnInv, Exclusivity, ExclusiveRunSeesOwnFailures
<1>3. CASE ResetGrades(r) \/ ResetCalls(r) \/ EndRun(r) \/ ReclaimGrades(r)
  <2>1. \A q \in Run : run'[q] \in Live <=> run[q] \in Live
    BY <1>0, <1>3 DEF ResetGrades, ResetCalls, EndRun, ReclaimGrades, Phase, Live, Working
  <2>2. ResetUnder(r) \/ RegradeUnder(r)
    BY <1>3 DEF ResetGrades, ResetCalls, EndRun, ReclaimGrades
  <2>3. \A q \in Run : seen'[q] \in {seen[q], [seen[q] EXCEPT !.resets = @ + 1],
                                     [seen[q] EXCEPT !.regrades = @ + 1]}
    BY <1>0, <2>2 DEF ResetUnder, RegradeUnder
  <2>4. \A q \in Run : /\ seen'[q].exclusive = seen[q].exclusive
                       /\ seen'[q].failed = seen[q].failed
    BY <1>0, <2>3 DEF View
  <2>5. breaker' = breaker
    BY <1>3 DEF ResetGrades, ResetCalls, EndRun, ReclaimGrades
  <2> QED BY <1>0, <2>1, <2>4, <2>5, NoFailure, OwnQuiet
<1>4. CASE Act(r) \/ AskModel(r) \/ Interrupt(r) \/ Resume(r) \/ DropEager(r)
  <2>1. /\ UNCHANGED <<breaker, seen>>
        /\ \A q \in Run : run'[q] \in Live <=> run[q] \in Live
    BY <1>0, <1>4 DEF Act, AskModel, Interrupt, Resume, DropEager, Phase, Live, Working
  <2> QED BY <1>0, <2>1, NoFailure, OwnQuiet
<1> QED BY <1>1, <1>2, <1>3, <1>4 DEF RunStep

LEMMA OwnIssue ==
  ASSUME OwnInv, TypeInv', NEW c \in Call, NEW r \in Run, NEW t \in Tool, IssueStep(c, r, t)
  PROVE  OwnInv'
<1>0. /\ TypeInv /\ run \in [Run -> {"idle"} \cup Live] /\ seen \in [Run -> View]
      /\ breaker \in [CircuitTools -> Entry] /\ Executes(r, t) \in View
  BY ExecutesType DEF OwnInv, TypeInv, TypeOK
<1>1. /\ \A v \in View : /\ Issues(c, v).exclusive = v.exclusive
                          /\ Issues(c, v).failed = v.failed
      /\ Executes(r, t).exclusive = seen[r].exclusive
      /\ Executes(r, t).failed = seen[r].failed
  BY <1>0 DEF Issues, Executes, View
<1>2. run' = run
  BY DEF IssueStep, EagerDispatch, BlockedCall, AdmitCall, AnsweredInside
<1>3. \/ seen' = [seen EXCEPT ![r].issued = @ + 1, ![r].eager = IF Counted(t) THEN @ + 1 ELSE @]
      \/ seen' = [seen EXCEPT ![r] = Issues(c, @)]
      \/ seen' = [seen EXCEPT ![r] = Issues(c, Executes(r, t))]
  BY DEF IssueStep, EagerDispatch, BlockedCall, AdmitCall, AnsweredInside
<1>4. \A q \in Run : /\ seen'[q].exclusive = seen[q].exclusive
                     /\ seen'[q].failed = seen[q].failed
  <2>1. CASE seen' = [seen EXCEPT ![r].issued = @ + 1, ![r].eager = IF Counted(t) THEN @ + 1 ELSE @]
    BY <1>0, <2>1 DEF View
  <2>2. CASE seen' = [seen EXCEPT ![r] = Issues(c, @)]
    BY <1>0, <1>1, <2>2
  <2>3. CASE seen' = [seen EXCEPT ![r] = Issues(c, Executes(r, t))]
    BY <1>0, <1>1, <2>3
  <2> QED BY <1>3, <2>1, <2>2, <2>3
<1>5. \A u \in CircuitTools : breaker'[u] \in {breaker[u], FreshEntry, Probe(breaker[u])}
  BY <1>0 DEF IssueStep, EagerDispatch, BlockedCall, AdmitCall, AnsweredInside, RecordSuccess
<1> QED BY <1>0, <1>2, <1>4, <1>5, NoFailure, OwnQuiet

LEMMA OwnCall ==
  ASSUME OwnInv, TypeInv', NEW c \in Call, CallStep(c)
  PROVE  OwnInv'
<1>0. TypeInv /\ seen \in [Run -> View]
  BY DEF OwnInv, TypeInv, TypeOK
<1>1. CASE EagerEnds(c) \/ ToolRaisesAndBacksOff(c)
  <2>1. UNCHANGED <<run, seen, breaker>>
    BY <1>1 DEF EagerEnds, ToolRaisesAndBacksOff
  <2> QED BY <1>0, <2>1, NoFailure, OwnQuiet
<1>2. CASE ToolReturns(c) \/ RetryIsCapped(c)
  <2>1. UNCHANGED <<run, seen>> /\ OnCircuit(c, RecordSuccess)
    BY <1>2 DEF ToolReturns, RetryIsCapped
  <2> QED BY <1>0, <2>1, SuccessIsNoFailure, OwnQuiet
<1>3. CASE ToolRaises(c)
  BY <1>3, OwnRaise
<1>4. CASE RetryCall(c)
  <2> DEFINE r == call[c].run  t == call[c].tool
  <2>1. r \in Run
    BY <1>0, <1>4 DEF RetryCall, TypeInv, InFlightOK
  <2>2. run' = run /\ breaker' = breaker /\ seen' = [seen EXCEPT ![r] = Executes(r, t)]
    BY <1>4 DEF RetryCall
  <2> HIDE DEF r, t
  <2>3. Executes(r, t).exclusive = seen[r].exclusive /\ Executes(r, t).failed = seen[r].failed
    BY <1>0, <2>1 DEF Executes, View
  <2>4. \A q \in Run : /\ seen'[q].exclusive = seen[q].exclusive
                       /\ seen'[q].failed = seen[q].failed
    BY <1>0, <2>1, <2>2, <2>3
  <2> QED BY <1>0, <2>2, <2>4, NoFailure, OwnQuiet
<1> QED BY <1>1, <1>2, <1>3, <1>4 DEF CallStep

LEMMA OwnNext == OwnInv /\ [Next]_vars => OwnInv'
<1> SUFFICES ASSUME OwnInv, [Next]_vars PROVE OwnInv'
  OBVIOUS
<1>0. /\ TypeInv /\ TypeInv' /\ breaker \in [CircuitTools -> Entry]
      /\ run \in [Run -> {"idle"} \cup Live] /\ seen \in [Run -> View]
  BY TypeInvNext DEF OwnInv, TypeInv, TypeOK
<1>1. ASSUME NEW t \in CircuitTools, RecoveryElapses(t) PROVE OwnInv'
  <2>1. /\ UNCHANGED <<run, seen>>
        /\ \A u \in CircuitTools : breaker'[u] \in {breaker[u], Warmed(breaker[u])}
    BY <1>0, <1>1 DEF RecoveryElapses, Warmed
  <2> QED BY <1>0, <2>1, NoFailure, OwnQuiet
<1>2. CASE Restart
  <2>1. \A q \in Run : run'[q] \in Live => run[q] = "interrupted"
    BY <1>0, <1>2 DEF Restart, Live, Working
  <2>2. \A q \in Run : run[q] = "interrupted" => ~seen'[q].exclusive
    BY <1>0, <1>2 DEF Restart, View
  <2> QED BY <1>0, <2>1, <2>2 DEF OwnInv, Exclusivity, ExclusiveRunSeesOwnFailures
<1>3. CASE UNCHANGED vars
  BY <1>0, <1>3, NoFailure, OwnQuiet DEF vars
<1> QED BY <1>0, <1>1, <1>2, <1>3, OwnRun, OwnIssue, OwnCall DEF Next

(* A run that has the thread to itself never inherits a failure: what its  *)
(* circuits count are calls of its own that failed.                        *)
THEOREM OwnFailures == Spec => []ExclusiveRunSeesOwnFailures
<1>1. OwnInv => ExclusiveRunSeesOwnFailures
  BY DEF OwnInv
<1> QED BY <1>1, OwnInit, OwnNext, PTL DEF Spec
=============================================================================
