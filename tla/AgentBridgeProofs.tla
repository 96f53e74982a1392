------------------------- MODULE AgentBridgeProofs -------------------------
(***************************************************************************)
(* Proofs about AgentBridge, for any number of jobs, any agents, chains    *)
(* and reports: type correctness, the exclusion of two processes in one    *)
(* session lane, that reports are final, and that the bridge implements    *)
(* JobContract.                                                            *)
(***************************************************************************)
EXTENDS AgentBridge, WellFoundedInduction, TLAPS

-----------------------------------------------------------------------------
(* Lemmas about the operators of the model.                                 *)

LEMMA RequestFields ==
    ASSUME NEW r \in Requests
    PROVE  r.agent \in Agents /\ r.clean \in BOOLEAN /\ r.internal \in BOOLEAN
BY AgentsAssumption

Less == {ss \in Nat \X Nat : ss[1] < ss[2]}

LEMMA LeastNatural ==
    ASSUME NEW S, S \subseteq Nat, S # {}
    PROVE  \E i \in S : \A k \in S : i <= k
<1>1. IsWellFoundedOn(Less, Nat)
  BY NatLessThanWellFounded DEF OpToRel, Less
<1>2. PICK i \in S : \A k \in S : <<k, i>> \notin Less
  BY <1>1, WFMin
<1>3. ASSUME NEW k \in S PROVE i <= k
  <2>1. ~ (k < i)
    BY <1>2 DEF Less
  <2> QED
    BY <2>1
<1> QED
  BY <1>3

LEMMA TrimIsSubset == Trim \subseteq kept
BY DEF Trim

\* A failover moves to an entry of the agent's chain.
LEMMA NextModelType ==
    ASSUME TypeOK, NEW j \in Jobs, NEW s
    PROVE  NextModel(j, s) \in Models \cup {NoModel}
<1>1. req[j].agent \in Agents
  BY RequestFields DEF TypeOK
<1>2. ChainOf(j) \in Seq(Models)
  BY <1>1, ModelsAssumption DEF ChainOf
<1>3. ASSUME Untried(j) # {} PROVE ChainOf(j)[FirstUntried(j)] \in Models
  <2>1. Untried(j) \subseteq Nat /\ Untried(j) \subseteq DOMAIN ChainOf(j)
    BY <1>2 DEF Untried
  <2>2. \E i \in Untried(j) : \A k \in Untried(j) : i <= k
    BY <1>3, <2>1, LeastNatural
  <2>3. FirstUntried(j) \in Untried(j)
    BY <2>2 DEF FirstUntried
  <2> QED
    BY <1>2, <2>1, <2>3
<1> QED
  BY <1>3 DEF NextModel

\* What the updates of a job's process, status and model put there.
LEMMA TerminateType ==
    ASSUME TypeOK, NEW j \in Jobs, Terminate(j)
    PROVE  proc' \in [Jobs -> {"none", "alive", "signalled", "dead"}]
BY DEF TypeOK, Terminate

LEMMA ApplyType ==
    ASSUME TypeOK, NEW j \in Jobs, NEW s \in Reports, Apply(j, s)
    PROVE  status' \in [Jobs -> {"none"} \cup Active \cup Terminal]
BY OutputAssumption DEF TypeOK, Apply, Active, Terminal

LEMMA ModelFailureType ==
    ASSUME TypeOK, NEW j \in Jobs, NEW b \in BOOLEAN,
           model' = [model EXCEPT ![j].failure = b]
    PROVE  model' \in [Jobs -> ModelStates]
<1>1. model[j] \in ModelStates
  BY DEF TypeOK
<1>2. [model[j] EXCEPT !.failure = b] \in ModelStates
  BY <1>1 DEF ModelStates
<1> QED
  BY <1>2 DEF TypeOK

LEMMA NoteFailureType ==
    ASSUME TypeOK, NEW j \in Jobs, NEW f, NoteFailure(j, f)
    PROVE  model' \in [Jobs -> ModelStates]
<1>1. CASE f = "none"
  BY <1>1 DEF NoteFailure, TypeOK
<1>2. CASE f # "none"
  <2>1. (f \in FailoverKinds) \in BOOLEAN
    OBVIOUS
  <2> QED
    BY <1>2, <2>1, ModelFailureType DEF NoteFailure
<1> QED
  BY <1>1, <1>2

LEMMA ReplacedType ==
    ASSUME TypeOK, NEW j \in Jobs, NEW m \in Models \cup {NoModel}
    PROVE  Replaced(j, m) \in ModelStates
<1>1. model[j] \in ModelStates
  BY DEF TypeOK
<1>2. Current(j) \in Models \cup {NoModel}
  <2>1. override[req[j].agent] \in Models \cup {NoModel}
    BY RequestFields DEF TypeOK
  <2> QED
    BY <1>1, <2>1 DEF Current, ModelStates
<1> QED
  BY <1>1, <1>2 DEF Replaced, ModelStates

LEMMA FreshModelType ==
    ASSUME NEW m \in Models \cup {NoModel}
    PROVE  FreshModel(m) \in ModelStates
BY DEF FreshModel, ModelStates

LEMMA CommandedType ==
    ASSUME TypeOK, NEW j \in Jobs, model' = [model EXCEPT ![j] = Commanded(j)]
    PROVE  model' \in [Jobs -> ModelStates]
<1>1. model[j] \in ModelStates
  BY DEF TypeOK
<1>2. JobModel(j) \in Models \cup {NoModel}
  <2>1. override[req[j].agent] \in Models \cup {NoModel}
    BY RequestFields DEF TypeOK
  <2> QED
    BY <1>1, <2>1 DEF JobModel, ModelStates
<1>3. Commanded(j) \in ModelStates
  BY <1>1, <1>2 DEF Commanded, ModelStates
<1> QED
  BY <1>3 DEF TypeOK

\* A queue that one of its entries leaves.
LEMMA LeftQueueType ==
    ASSUME NEW q \in Seq(Jobs), NEW i \in DOMAIN q
    PROVE  SubSeq(q, 1, i - 1) \o SubSeq(q, i + 1, Len(q)) \in Seq(Jobs)
<1>1. i \in 1 .. Len(q) /\ Len(q) \in Nat
  OBVIOUS
<1>2. SubSeq(q, 1, i - 1) \in Seq(Jobs)
  BY <1>1
<1>3. SubSeq(q, i + 1, Len(q)) \in Seq(Jobs)
  BY <1>1
<1> QED
  BY <1>2, <1>3

LEMMA CancelCallType ==
    ASSUME TypeOK, NEW j \in Jobs, CancelCall(j)
    PROVE  /\ status' \in [Jobs -> {"none"} \cup Active \cup Terminal]
           /\ proc' \in [Jobs -> {"none", "alive", "signalled", "dead"}]
           /\ canceller' \in [Jobs -> {"idle", "launching", "killing", "returned"}]
<1>1. CancelWait(j) \in {"idle", "launching", "killing", "returned"}
  BY DEF CancelWait
<1> QED
  BY <1>1, TerminateType DEF TypeOK, CancelCall, Terminal

\* A job settles as a terminal status.
LEMMA SettledStatusType ==
    ASSUME TypeOK, NEW j \in Jobs, NEW failed \in BOOLEAN
    PROVE  SettledStatus(j, failed) \in Terminal
BY DEF SettledStatus, TypeOK, Terminal, Active

-----------------------------------------------------------------------------
(* Type correctness.                                                        *)

LEMMA TypeInit == Init => TypeOK
<1> SUFFICES ASSUME Init PROVE TypeOK
  OBVIOUS
<1>1. NoRequest \in Requests
  BY AgentsAssumption DEF NoRequest
<1>2. FreshModel(NoModel) \in ModelStates
  BY FreshModelType
<1>3. waiters \in [SessionAgents -> Seq(Jobs)]
  BY DEF Init
<1> QED
  <2>1. created \in 0 .. MaxJobs /\ kept \subseteq 1 .. created
    BY JobsAssumption DEF Init
  <2>2. holder \in [SessionAgents -> Jobs \cup {NoJob}]
    BY DEF Init
  <2> QED
    BY <1>1, <1>2, <1>3, <2>1, <2>2 DEF Init, TypeOK, Pcs

\* A step of tasks and their processes may be looked at apart from the rest.
LEMMA TypeParts ==
    ASSUME TypeOK, UNCHANGED <<registry, modelVars, laneVars, idleVars, stop>>,
           status' \in [Jobs -> {"none"} \cup Active \cup Terminal],
           pc' \in [Jobs -> Pcs],
           proc' \in [Jobs -> {"none", "alive", "signalled", "dead"}],
           launchDone' \in [Jobs -> BOOLEAN],
           canceller' \in [Jobs -> {"idle", "launching", "killing", "returned"}],
           shutdown' \in {"no", "cancelling", "waiting", "aborting", "done"},
           stopping' \in [Jobs -> {"no", "call", "wait", "late"}],
           awaited' \subseteq Jobs
    PROVE  TypeOK'
<1>1. UNCHANGED <<created, kept, req, model, override, holder, waiters, idleNotified,
                  publicWork, stop>>
  BY DEF registry, modelVars, laneVars, idleVars
<1>2. /\ created' \in 0 .. MaxJobs /\ kept' \subseteq 1 .. created'
      /\ req' \in [Jobs -> Requests]
      /\ stop' \in [Jobs -> {"no", "quota", "timeout"}]
      /\ model' \in [Jobs -> ModelStates]
      /\ override' \in [Agents -> Models \cup {NoModel}]
      /\ holder' \in [SessionAgents -> Jobs \cup {NoJob}]
      /\ waiters' \in [SessionAgents -> Seq(Jobs)]
      /\ idleNotified' \in BOOLEAN /\ publicWork' \in BOOLEAN
  BY <1>1, Zenon DEF TypeOK
<1> QED
  BY <1>2, Zenon DEF TypeOK

LEMMA TypeNext == TypeOK /\ [Next]_vars => TypeOK'
<1> SUFFICES ASSUME TypeOK, [Next]_vars PROVE TypeOK'
  OBVIOUS
<1> USE JobsAssumption, AgentsAssumption, ModelsAssumption
        DEF registry, taskVars, modelVars, laneVars, idleVars, stopVars,
            TypeOK, Pcs, Active, Terminal, Launching, Streaming, Reporting
<1>1. ASSUME NEW r \in Requests, Start(r) PROVE TypeOK'
  <2>1. created + 1 \in Jobs
    BY <1>1 DEF Start, Jobs
  <2>2. override[r.agent] \in Models \cup {NoModel}
    BY RequestFields
  <2>3. FreshModel(override[r.agent]) \in ModelStates
    BY <2>2, FreshModelType
  <2>4. model' \in [Jobs -> ModelStates]
    BY <1>1, <2>1, <2>3 DEF Start
  <2>5. idleNotified' \in BOOLEAN /\ publicWork' \in BOOLEAN
    BY <1>1 DEF Start, MarkBusy
  <2> QED
    <3>1. created' \in 0 .. MaxJobs /\ kept' \subseteq 1 .. created'
      BY <1>1, <2>1 DEF Start, Jobs
    <3>2. \E s \in {"running", "failed"}, p \in {"queued", "notifying"} :
             /\ status' = [status EXCEPT ![created + 1] = s]
             /\ pc' = [pc EXCEPT ![created + 1] = p]
      BY <1>1, Zenon DEF Start
    <3>3. /\ status' \in [Jobs -> {"none"} \cup Active \cup Terminal]
          /\ pc' \in [Jobs -> Pcs]
      BY <2>1, <3>2
    <3>4. req' \in [Jobs -> Requests]
      BY <1>1, <2>1 DEF Start
    <3>5. stopping' \in [Jobs -> {"no", "call", "wait", "late"}]
      BY <1>1, <2>1 DEF Start
    <3> QED
      BY <1>1, <2>4, <2>5, <3>1, <3>3, <3>4, <3>5 DEF Start
<1>2. ASSUME NEW a \in Agents, NEW m \in Switches, SwitchModel(a, m) PROVE TypeOK'
  BY <1>2 DEF SwitchModel
<1>3. ASSUME NEW j \in Jobs, Task(j) PROVE TypeOK'
  <2>1. CASE BeginFree(j)
    BY <2>1 DEF BeginFree
  <2>2. CASE BeginHolding(j)
    BY <2>2 DEF BeginHolding, UsesLane
  <2>3. CASE BeginParked(j)
    BY <2>3 DEF BeginParked, UsesLane
  <2>4. CASE LaneGranted(j)
    BY <2>4 DEF LaneGranted, UsesLane
  <2>5. CASE SnapshotTaken(j)
    BY <2>5 DEF SnapshotTaken
  <2>6. CASE Briefed(j)
    <3>1. /\ status' = status \/ status' = [status EXCEPT ![j] = "failed"]
          /\ \/ pc' = [pc EXCEPT ![j] = "notifying"]
             \/ pc' = [pc EXCEPT ![j] = "spawning"]
      BY <2>6, Zenon DEF Briefed, FailFast
    <3>2. status' \in [Jobs -> {"none"} \cup Active \cup Terminal] /\ pc' \in [Jobs -> Pcs]
      <4>1. /\ status \in [Jobs -> {"none"} \cup Active \cup Terminal]
            /\ pc \in [Jobs -> Pcs]
            /\ "failed" \in Terminal /\ {"notifying", "spawning"} \subseteq Pcs
        OBVIOUS
      <4> HIDE DEF Active, Terminal, Pcs, TypeOK
      <4> QED
        BY <3>1, <4>1
    <3>3. model' \in [Jobs -> ModelStates]
      <4>1. model' = model \/ model' = [model EXCEPT ![j] = Commanded(j)]
        BY <2>6, Zenon DEF Briefed
      <4>2. CASE model' = model
        BY <4>2
      <4>3. CASE model' = [model EXCEPT ![j] = Commanded(j)]
        BY <4>3, CommandedType
      <4> QED
        BY <4>1, <4>2, <4>3
    <3>4. UNCHANGED <<created, kept, req, proc, launchDone, stop, override, holder, waiters,
                      idleNotified, publicWork, canceller, shutdown, stopping, awaited>>
      BY <2>6, Zenon DEF Briefed, FailFast
    <3> HIDE DEF Pcs, Active, Terminal
    <3> QED
      BY <3>2, <3>3, <3>4
  <2>7. CASE Spawned(j)
    <3>1. CASE FailFast(j)
      BY <2>7, <3>1 DEF Spawned, FailFast
    <3>2. ASSUME pc' = [pc EXCEPT ![j] = "running"],
                 proc' = [proc EXCEPT ![j] = "alive"],
                 status' = [status EXCEPT ![j] = IF @ = "cancelled" THEN @ ELSE "running"],
                 LaunchOver(j)
          PROVE  TypeOK'
      BY <2>7, <3>2 DEF Spawned, LaunchOver
    <3> QED
      BY <2>7, <3>1, <3>2 DEF Spawned
  <2>8. CASE GraceOver(j)
    BY <2>8, TerminateType DEF GraceOver
  <2>9. ASSUME NEW failed \in BOOLEAN, Relaunch(j, failed) PROVE TypeOK'
    <3> DEFINE m == NextModel(j, SettledStatus(j, failed))
    <3>1. m \in Models \cup {NoModel}
      BY NextModelType
    <3> HIDE DEF m
    <3>2. model' \in [Jobs -> ModelStates]
      BY <2>9, <3>1, ReplacedType DEF Relaunch, m
    <3> QED
      BY <2>9, <3>2, TrimIsSubset DEF Relaunch
  <2>10. ASSUME NEW failed \in BOOLEAN, Settle(j, failed) PROVE TypeOK'
    <3> DEFINE s == SettledStatus(j, failed)
    <3>1. s \in Terminal
      BY SettledStatusType
    <3> HIDE DEF s
    <3>2. override' \in [Agents -> Models \cup {NoModel}]
      <4>1. model[j].provider \in Models \cup {NoModel}
        BY DEF ModelStates
      <4> QED
        BY <2>10, <4>1 DEF Settle
    <3> QED
      BY <2>10, <3>1, <3>2, TrimIsSubset DEF Settle, s
  <2>11. CASE HostChecked(j)
    BY <2>11 DEF HostChecked
  <2>12. CASE Notified(j)
    BY <2>12 DEF Notified, IdleCheck, LaunchOver, ReleaseLane
  <2> QED
    BY <1>3, <2>1, <2>2, <2>3, <2>4, <2>5, <2>6, <2>7, <2>8, <2>9, <2>10, <2>11, <2>12 DEF Task
<1>4. ASSUME NEW j \in Jobs, Output(j) PROVE TypeOK'
  <2>1. ASSUME NEW s \in Reports, NEW f \in Failures \cup {"none"}, ReadMarker(j, s, f)
        PROVE  TypeOK'
    BY <2>1, ApplyType, NoteFailureType DEF ReadMarker
  <2>2. ASSUME NEW s \in (Reports \ Terminal) \cup {"none"}, NEW f \in Failures \cup {"none"},
               ReadText(j, s, f)
        PROVE  TypeOK'
    <3>1. s = "none" \/ s \in Reports
      BY <2>2
    <3> QED
      BY <2>2, <3>1, ApplyType, NoteFailureType DEF ReadText
  <2>3. CASE ReadQuota(j)
    BY <2>3, TerminateType, NoteFailureType DEF ReadQuota
  <2>4. CASE EndOfOutput(j)
    BY <2>4 DEF EndOfOutput
  <2>5. CASE TimedOut(j)
    <3>1. model' \in [Jobs -> ModelStates]
      BY <2>5, ModelFailureType DEF TimedOut
    <3> QED
      BY <2>5, <3>1, TerminateType DEF TimedOut
  <2> QED
    BY <1>4, <2>1, <2>2, <2>3, <2>4, <2>5 DEF Output
<1>5. ASSUME NEW j \in Jobs, ProcessExits(j) \/ ProcessKilled(j) PROVE TypeOK'
  <2>1. proc' = [proc EXCEPT ![j] = "dead"]
    BY <1>5 DEF ProcessExits, ProcessKilled
  <2>2. proc' \in [Jobs -> {"none", "alive", "signalled", "dead"}]
    BY <2>1
  <2> QED
    BY <1>5, <2>2, TypeParts DEF ProcessExits, ProcessKilled
<1>6. ASSUME NEW j \in Jobs, Cancel(j) \/ Canceller(j) PROVE TypeOK'
  <2>1. CASE Cancel(j)
    BY <2>1, CancelCallType DEF Cancel
  <2>2. CASE CancelResumes(j)
    BY <2>2, TerminateType DEF CancelResumes
  <2>3. CASE CancelReturns(j)
    BY <2>3 DEF CancelReturns
  <2> QED
    BY <1>6, <2>1, <2>2, <2>3 DEF Canceller
<1>7. CASE Shutdown
  <2>1. CASE ShutdownBegins
    BY <2>1 DEF ShutdownBegins
  <2>2. CASE ShutdownWaits \/ ShutdownReturns \/ ShutdownTimesOut
    <3>1. /\ shutdown' \in {"no", "cancelling", "waiting", "aborting", "done"}
          /\ awaited' \subseteq Jobs
      <4>1. {j \in 1 .. created : Usable(req[j]) /\ ~Over(j)} \subseteq Jobs
        BY DEF Jobs
      <4> QED
        BY <2>2, <4>1 DEF ShutdownWaits, ShutdownReturns, ShutdownTimesOut
    <3> QED
      BY <2>2, <3>1, TypeParts DEF ShutdownWaits, ShutdownReturns, ShutdownTimesOut
  <2>3. ASSUME NEW j \in Jobs, Aborted(j) PROVE TypeOK'
    <3> DEFINE a == req[j].agent
               Left(i) == SubSeq(waiters[a], 1, i - 1)
                            \o SubSeq(waiters[a], i + 1, Len(waiters[a]))
    <3>1. waiters' \in [SessionAgents -> Seq(Jobs)]
      <4>1. CASE UNCHANGED waiters
        BY <4>1
      <4>2. ASSUME NEW i \in DOMAIN waiters[a], waiters' = [waiters EXCEPT ![a] = Left(i)]
            PROVE  waiters' \in [SessionAgents -> Seq(Jobs)]
        <5>1. CASE a \in SessionAgents
          <6>1. Left(i) \in Seq(Jobs)
            BY <5>1, LeftQueueType
          <6> QED
            BY <4>2, <6>1
        <5>2. CASE a \notin SessionAgents
          BY <4>2, <5>2
        <5> QED
          BY <5>1, <5>2
      <4> QED
        BY <2>3, <4>1, <4>2 DEF Aborted
    <3>2. pc' \in [Jobs -> Pcs] /\ holder' \in [SessionAgents -> Jobs \cup {NoJob}]
      BY <2>3 DEF Aborted, ReleaseLane
    <3> QED
      BY <2>3, <3>1, <3>2 DEF Aborted
  <2>4. ASSUME NEW j \in Jobs, ShutdownCancels(j) PROVE TypeOK'
    <3>1. /\ status' \in [Jobs -> {"none"} \cup Active \cup Terminal]
          /\ proc' \in [Jobs -> {"none", "alive", "signalled", "dead"}]
          /\ canceller' \in [Jobs -> {"idle", "launching", "killing", "returned"}]
      BY <2>4, CancelCallType DEF ShutdownCancels
    <3>2. \/ stopping' = [stopping EXCEPT ![j] = "wait"]
          \/ stopping' = [stopping EXCEPT ![j] = "no"]
      BY <2>4, Zenon DEF ShutdownCancels
    <3>3. stopping' \in [Jobs -> {"no", "call", "wait", "late"}]
      BY <3>2
    <3> QED
      BY <2>4, <3>1, <3>3, TypeParts DEF ShutdownCancels
  <2> QED
    BY <1>7, <2>1, <2>2, <2>3, <2>4 DEF Shutdown
<1>8. CASE UNCHANGED vars
  BY <1>8 DEF vars
<1>9. CASE Finished
  BY <1>9 DEF Finished, vars
<1> QED
  BY <1>1, <1>2, <1>3, <1>4, <1>5, <1>6, <1>7, <1>8, <1>9 DEF Next

\* Every reachable state of the bridge is well typed.
THEOREM TypeCorrect == Spec => []TypeOK
BY TypeInit, TypeNext, PTL DEF Spec

-----------------------------------------------------------------------------
(* One process at a time in a session lane.                                 *)

\* LaneExclusive is not inductive: it needs to know that a process belongs to a
\* job whose task is streaming, unless shutdown() gave up on it, and that such a
\* task holds its lane.
JobsInOrder == \A j \in Jobs : j > created => pc[j] = "absent"

ProcessOwned == \A j \in Jobs : proc[j] # "none" => pc[j] \in Streaming \cup {"aborted"}

LaneHeld ==
    \A j \in Jobs : UsesLane(j) /\ pc[j] \in Launching \cup Streaming
                      => holder[req[j].agent] = j

LaneInv == /\ JobsInOrder
           /\ ProcessOwned
           /\ LaneHeld
           /\ LaneExclusive

LEMMA LaneInit == Init => LaneInv
BY DEF Init, LaneInv, JobsInOrder, ProcessOwned, LaneHeld, LaneExclusive, Live,
       Launching, Streaming

\* Signalling a process gives no job a process that it did not have.
LEMMA TerminateQuiet ==
    ASSUME TypeOK, NEW j \in Jobs, Terminate(j)
    PROVE  \A k \in Jobs : (proc'[k] # "none" => proc[k] # "none") /\ (Live(k)' => Live(k))
BY DEF Terminate, Live, TypeOK

\* Neither does a step that moves no task and no lane.
LEMMA QuietStep ==
    ASSUME LaneInv, UNCHANGED <<created, req, pc, holder>>,
           \A k \in Jobs : (proc'[k] # "none" => proc[k] # "none") /\ (Live(k)' => Live(k))
    PROVE  LaneInv'
<1>1. JobsInOrder' /\ ProcessOwned'
  BY DEF LaneInv, JobsInOrder, ProcessOwned
<1>2. LaneHeld'
  BY DEF LaneInv, LaneHeld, UsesLane
<1>3. LaneExclusive'
  BY DEF LaneInv, LaneExclusive, UsesLane
<1> QED
  BY <1>1, <1>2, <1>3 DEF LaneInv

LEMMA LaneNext == TypeOK /\ LaneInv /\ [Next]_vars => LaneInv'
<1> SUFFICES ASSUME TypeOK, LaneInv, [Next]_vars PROVE LaneInv'
  OBVIOUS
<1> USE JobsAssumption
        DEF registry, taskVars, modelVars, laneVars, idleVars, stopVars,
            TypeOK, Launching, Streaming, Reporting, UsesLane, Live, Over,
            LaneInv, JobsInOrder, ProcessOwned, LaneHeld, LaneExclusive
<1>1. ASSUME NEW r \in Requests, Start(r) PROVE LaneInv'
  <2>1. created + 1 \in Jobs
    BY <1>1 DEF Start, Jobs
  <2>2. pc[created + 1] = "absent" /\ proc[created + 1] = "none"
    <3>1. pc[created + 1] = "absent"
      BY <2>1
    <3> QED
      BY <2>1, <3>1
  <2>3. \A j \in Jobs : j # created + 1 =>
            req'[j] = req[j] /\ pc'[j] = pc[j] /\ proc'[j] = proc[j]
    BY <1>1, <2>1 DEF Start
  <2>4. pc'[created + 1] \in {"queued", "notifying"} /\ proc' = proc
    BY <1>1, <2>1 DEF Start
  <2>5. JobsInOrder' /\ ProcessOwned'
    <3>1. JobsInOrder'
      BY <1>1, <2>1, <2>3, <2>4 DEF Start, Jobs
    <3>2. ProcessOwned'
      BY <2>2, <2>3, <2>4
    <3> QED
      BY <3>1, <3>2
  <2>6. LaneHeld' /\ LaneExclusive'
    BY <1>1, <2>1, <2>2, <2>3, <2>4 DEF Start
  <2> QED
    BY <2>5, <2>6
<1>2. ASSUME NEW a \in Agents, NEW m \in Switches, SwitchModel(a, m) PROVE LaneInv'
  BY <1>2, QuietStep DEF SwitchModel
<1>3. ASSUME NEW j \in Jobs, Task(j) PROVE LaneInv'
  <2>1. CASE BeginFree(j)
    BY <2>1 DEF BeginFree
  <2>2. CASE BeginHolding(j)
    BY <2>2 DEF BeginHolding, LaneFree
  <2>3. CASE BeginParked(j)
    BY <2>3 DEF BeginParked
  <2>4. CASE LaneGranted(j)
    BY <2>4 DEF LaneGranted
  <2>5. CASE SnapshotTaken(j)
    BY <2>5 DEF SnapshotTaken
  <2>6. CASE Briefed(j)
    <3>1. CASE FailFast(j)
      BY <2>6, <3>1 DEF Briefed, FailFast
    <3>2. CASE pc' = [pc EXCEPT ![j] = "spawning"] /\ proc' = proc
      BY <2>6, <3>2 DEF Briefed
    <3> QED
      BY <2>6, <3>1, <3>2 DEF Briefed
  <2>7. CASE Spawned(j)
    <3>1. CASE FailFast(j)
      BY <2>7, <3>1 DEF Spawned, FailFast
    <3>2. ASSUME pc' = [pc EXCEPT ![j] = "running"], proc' = [proc EXCEPT ![j] = "alive"]
          PROVE  LaneInv'
      <4>1. JobsInOrder' /\ ProcessOwned' /\ LaneHeld'
        BY <2>7, <3>2 DEF Spawned
      <4>2. ASSUME NEW k \in Jobs, UsesLane(j), UsesLane(k), Live(k), k # j,
                   pc[k] # "aborted"
            PROVE  req[j].agent # req[k].agent
        <5>1. pc[k] \in Streaming /\ pc[j] = "spawning"
          BY <2>7, <4>2 DEF Spawned
        <5>2. holder[req[k].agent] = k /\ holder[req[j].agent] = j
          BY <4>2, <5>1
        <5> QED
          BY <4>2, <5>2
      <4>3. LaneExclusive'
        BY <2>7, <3>2, <4>2 DEF Spawned
      <4> QED
        BY <4>1, <4>3
    <3> QED
      BY <2>7, <3>1, <3>2 DEF Spawned
  <2>8. CASE GraceOver(j)
    BY <2>8 DEF GraceOver, Terminate
  <2>9. ASSUME NEW failed \in BOOLEAN, Relaunch(j, failed) PROVE LaneInv'
    BY <2>9 DEF Relaunch
  <2>10. ASSUME NEW failed \in BOOLEAN, Settle(j, failed) PROVE LaneInv'
    BY <2>10 DEF Settle
  <2>11. CASE HostChecked(j)
    BY <2>11 DEF HostChecked
  <2>12. CASE Notified(j)
    BY <2>12 DEF Notified, ReleaseLane
  <2> QED
    BY <1>3, <2>1, <2>2, <2>3, <2>4, <2>5, <2>6, <2>7, <2>8, <2>9, <2>10, <2>11, <2>12 DEF Task
<1>4. ASSUME NEW j \in Jobs, Output(j) PROVE LaneInv'
  <2>1. ASSUME NEW s, NEW f, ReadMarker(j, s, f) PROVE LaneInv'
    BY <2>1 DEF ReadMarker
  <2>2. ASSUME NEW s, NEW f, ReadText(j, s, f) PROVE LaneInv'
    BY <2>2 DEF ReadText
  <2>3. CASE ReadQuota(j)
    BY <2>3 DEF ReadQuota, Terminate
  <2>4. CASE EndOfOutput(j)
    BY <2>4 DEF EndOfOutput
  <2>5. CASE TimedOut(j)
    BY <2>5 DEF TimedOut, Terminate
  <2> QED
    BY <1>4, <2>1, <2>2, <2>3, <2>4, <2>5 DEF Output
<1>5. ASSUME NEW j \in Jobs, ProcessExits(j) \/ ProcessKilled(j) PROVE LaneInv'
  <2>1. CASE ProcessExits(j)
    BY <2>1, QuietStep DEF ProcessExits
  <2>2. CASE ProcessKilled(j)
    BY <2>2, QuietStep DEF ProcessKilled
  <2> QED
    BY <1>5, <2>1, <2>2
<1>6. ASSUME NEW j \in Jobs, Cancel(j) \/ Canceller(j) PROVE LaneInv'
  <2>1. CASE Cancel(j)
    BY <2>1, TerminateQuiet, QuietStep DEF Cancel, CancelCall
  <2>2. CASE CancelResumes(j)
    BY <2>2, TerminateQuiet, QuietStep DEF CancelResumes
  <2>3. CASE CancelReturns(j)
    BY <2>3, QuietStep DEF CancelReturns
  <2> QED
    BY <1>6, <2>1, <2>2, <2>3 DEF Canceller
<1>7. CASE Shutdown
  <2>1. CASE ShutdownBegins
    BY <2>1 DEF ShutdownBegins
  <2>2. CASE ShutdownWaits \/ ShutdownReturns \/ ShutdownTimesOut
    BY <2>2, QuietStep DEF ShutdownWaits, ShutdownReturns, ShutdownTimesOut
  <2>3. ASSUME NEW j \in Jobs, Aborted(j) PROVE LaneInv'
    <3>1. /\ pc' = [pc EXCEPT ![j] = IF @ = "notifying" THEN "cut" ELSE "aborted"]
          /\ pc[j] # "absent"
          /\ UNCHANGED <<created, req, proc>>
          /\ ReleaseLane(j)
      BY <2>3, Zenon DEF Aborted
    <3>2. JobsInOrder' /\ ProcessOwned'
      BY <3>1
    <3>3. LaneHeld'
      BY <3>1 DEF ReleaseLane
    <3>4. LaneExclusive'
      BY <3>1
    <3> QED
      BY <3>2, <3>3, <3>4
  <2>4. ASSUME NEW j \in Jobs, ShutdownCancels(j) PROVE LaneInv'
    <3>1. CASE CancelCall(j)
      BY <2>4, <3>1, TerminateQuiet, QuietStep DEF ShutdownCancels, CancelCall
    <3>2. CASE UNCHANGED proc
      BY <2>4, <3>2, QuietStep DEF ShutdownCancels
    <3> QED
      BY <2>4, <3>1, <3>2 DEF ShutdownCancels
  <2> QED
    BY <1>7, <2>1, <2>2, <2>3, <2>4 DEF Shutdown
<1>8. CASE UNCHANGED vars
  BY <1>8 DEF vars
<1>9. CASE Finished
  BY <1>9 DEF Finished, vars
<1> QED
  BY <1>1, <1>2, <1>3, <1>4, <1>5, <1>6, <1>7, <1>8, <1>9 DEF Next

\* In every reachable state at most one turn of each session agent has a process,
\* but for the turns that shutdown() gave up on.
THEOREM LaneSafety == Spec => []LaneExclusive
<1>1. LaneInv => LaneExclusive
  BY DEF LaneInv
<1> QED
  BY <1>1, TypeCorrect, LaneInit, LaneNext, PTL DEF Spec

-----------------------------------------------------------------------------
(* Reports are final.                                                       *)

\* A status that is terminal stays what it is when the stream settles it, and a
\* cancelled job is given no other model.
LEMMA SettlementKeepsCancel ==
    ASSUME NEW j \in Jobs, NEW failed, status[j] = "cancelled"
    PROVE  /\ SettledStatus(j, failed) = "cancelled"
           /\ NextModel(j, SettledStatus(j, failed)) = NoModel
BY DEF SettledStatus, NextModel, Terminal

\* A job past its settlement has a terminal status, which nothing replaces:
\* launches and outputs belong to tasks that are not there yet, and a cancel
\* only touches jobs that are active.
SettledJob(j) == pc[j] \in Reporting \cup {"ended", "cut"} => status[j] \in Terminal
Settled == \A j \in Jobs : SettledJob(j)
StaysReported(j) == Reported(j) => Reported(j)' /\ status'[j] = status[j]

LEMMA SettledInit == Init => Settled
BY DEF Init, Settled, SettledJob, Reporting

\* A cancel of a job past its settlement changes nothing: it is not active.
LEMMA CancelSpares ==
    ASSUME TypeOK, Settled, NEW j \in Jobs, NEW k \in Jobs,
           k \in ActiveJobs, CancelCall(k), pc' = pc
    PROVE  SettledJob(j)' /\ StaysReported(j)
<1>1. CASE j = k
  <2>1. pc[j] \notin Reporting \cup {"ended", "cut"}
    BY <1>1 DEF ActiveJobs, Active, Terminal, Settled, SettledJob
  <2> QED
    BY <1>1, <2>1 DEF SettledJob, StaysReported, Reported, Reporting
<1>2. CASE j # k
  BY <1>2 DEF CancelCall, TypeOK, Settled, SettledJob, StaysReported, Reported
<1> QED
  BY <1>1, <1>2

LEMMA SettledNext ==
    ASSUME TypeOK, LaneInv, Settled, [Next]_vars, NEW j \in Jobs
    PROVE  SettledJob(j)' /\ StaysReported(j)
<1> USE DEF registry, taskVars, modelVars, laneVars, idleVars, stopVars, TypeOK,
            Settled, SettledJob, StaysReported, Reported, Reporting
<1>1. ASSUME NEW r \in Requests, Start(r) PROVE SettledJob(j)' /\ StaysReported(j)
  <2>1. CASE j = created + 1
    <3>1. pc[j] = "absent"
      BY <2>1, JobsAssumption DEF LaneInv, JobsInOrder, Jobs
    <3> QED
      BY <1>1, <2>1, <3>1 DEF Start, Terminal
  <2>2. CASE j # created + 1
    BY <1>1, <2>2 DEF Start
  <2> QED
    BY <2>1, <2>2
<1>2. ASSUME NEW a \in Agents, NEW m \in Switches, SwitchModel(a, m)
      PROVE  SettledJob(j)' /\ StaysReported(j)
  BY <1>2 DEF SwitchModel
<1>3. ASSUME NEW k \in Jobs, Task(k) PROVE SettledJob(j)' /\ StaysReported(j)
  <2>1. CASE BeginFree(k) \/ BeginHolding(k) \/ LaneGranted(k) \/ GraceOver(k)
    BY <2>1 DEF BeginFree, BeginHolding, LaneGranted, GraceOver
  <2>2. CASE BeginParked(k)
    BY <2>2 DEF BeginParked
  <2>3. CASE SnapshotTaken(k)
    BY <2>3 DEF SnapshotTaken, Terminal
  <2>4. CASE Briefed(k)
    BY <2>4 DEF Briefed, FailFast, Terminal
  <2>5. CASE Spawned(k)
    BY <2>5 DEF Spawned, FailFast, Terminal
  <2>6. ASSUME NEW failed \in BOOLEAN, Relaunch(k, failed)
        PROVE  SettledJob(j)' /\ StaysReported(j)
    BY <2>6 DEF Relaunch
  <2>7. ASSUME NEW failed \in BOOLEAN, Settle(k, failed)
        PROVE  SettledJob(j)' /\ StaysReported(j)
    BY <2>7, SettledStatusType DEF Settle
  <2>8. CASE HostChecked(k) \/ Notified(k)
    BY <2>8 DEF HostChecked, Notified
  <2> QED
    BY <1>3, <2>1, <2>2, <2>3, <2>4, <2>5, <2>6, <2>7, <2>8 DEF Task
<1>4. ASSUME NEW k \in Jobs, Output(k) PROVE SettledJob(j)' /\ StaysReported(j)
  BY <1>4 DEF Output, ReadMarker, ReadText, ReadQuota, EndOfOutput, TimedOut, Apply
<1>5. ASSUME NEW k \in Jobs, ProcessExits(k) \/ ProcessKilled(k)
      PROVE  SettledJob(j)' /\ StaysReported(j)
  BY <1>5 DEF ProcessExits, ProcessKilled
<1>6. ASSUME NEW k \in Jobs, Cancel(k) \/ Canceller(k)
      PROVE  SettledJob(j)' /\ StaysReported(j)
  <2>1. CASE Cancel(k)
    BY <2>1, CancelSpares DEF Cancel, Cancellable
  <2>2. CASE CancelResumes(k) \/ CancelReturns(k)
    BY <2>2 DEF CancelResumes, CancelReturns
  <2> QED
    BY <1>6, <2>1, <2>2 DEF Canceller
<1>7. CASE Shutdown
  <2>1. CASE ShutdownBegins \/ ShutdownWaits \/ ShutdownReturns \/ ShutdownTimesOut
    BY <2>1 DEF ShutdownBegins, ShutdownWaits, ShutdownReturns, ShutdownTimesOut
  <2>2. ASSUME NEW k \in Jobs, Aborted(k) PROVE SettledJob(j)' /\ StaysReported(j)
    <3>1. /\ pc' = [pc EXCEPT ![k] = IF @ = "notifying" THEN "cut" ELSE "aborted"]
          /\ pc[k] \notin {"ended", "cut"}
          /\ status' = status
      BY <2>2, Zenon DEF Aborted, Over
    <3> QED
      BY <3>1
  <2>3. ASSUME NEW k \in Jobs, ShutdownCancels(k)
        PROVE  SettledJob(j)' /\ StaysReported(j)
    <3>1. CASE k \in ActiveJobs /\ CancelCall(k)
      BY <2>3, <3>1, CancelSpares DEF ShutdownCancels
    <3>2. CASE UNCHANGED status
      BY <2>3, <3>2 DEF ShutdownCancels
    <3> QED
      BY <2>3, <3>1, <3>2 DEF ShutdownCancels
  <2> QED
    BY <1>7, <2>1, <2>2, <2>3 DEF Shutdown
<1>8. CASE UNCHANGED vars \/ Finished
  BY <1>8 DEF Finished, vars
<1> QED
  BY <1>1, <1>2, <1>3, <1>4, <1>5, <1>6, <1>7, <1>8 DEF Next

\* A report comes with a terminal status and after the last process, and is
\* never taken back or changed.
THEOREM ReportsAreFinal == Spec => ReportIsFinal
<1>1. TypeOK /\ LaneInv /\ Settled /\ [Next]_vars => Settled'
  BY SettledNext DEF Settled
<1>2. TypeOK /\ LaneInv /\ Settled /\ [Next]_vars
        => [\A j \in Jobs : Reported(j) => Reported(j)' /\ status'[j] = status[j]]_vars
  BY SettledNext DEF StaysReported
<1>3. LaneInv /\ Settled
        => \A j \in Jobs : Reported(j) => status[j] \in Terminal /\ proc[j] = "none"
  BY DEF LaneInv, ProcessOwned, Settled, SettledJob, Reported, Reporting, Streaming
<1> QED
  BY <1>1, <1>2, <1>3, TypeCorrect, LaneInit, LaneNext, SettledInit, PTL
     DEF Spec, ReportIsFinal

-----------------------------------------------------------------------------
(* The bridge implements JobContract: each of its steps is a step of the    *)
(* contract, or changes nothing of what the host sees.                      *)

LEMMA ContractInit == Init => Contract!Init
BY DEF Init, Contract!Init, PhaseOf, Reported, Live

-----------------------------------------------------------------------------
(* The steps of the contract, as changes of what the host sees of jobs.     *)

SeenAsBefore(j) ==
    /\ PhaseOf(j)' = PhaseOf(j)
    /\ Live(j)' = Live(j)
    /\ Reported(j)' = Reported(j)
    /\ Reported(j) => status'[j] = status[j]
    /\ (pc[j] = "absent")' = (pc[j] = "absent")

LEMMA Unseen ==
    ASSUME req' = req, \A j \in Jobs : SeenAsBefore(j)
    PROVE  UNCHANGED Contract!cvars
BY DEF Contract!cvars, SeenAsBefore, UsesLane

\* The steps of one job, when the host sees no other job change.
LEMMA SeenReport ==
    ASSUME NEW j \in Jobs, req' = req, \A k \in Jobs \ {j} : SeenAsBefore(k),
           pc[j] \notin {"absent", "aborted"}, ~Reported(j), Reported(j)',
           ~Live(j), ~Live(j)', NEW o \in Terminal, status'[j] = o
    PROVE  Contract!Next
<1>1. PhaseOf(j) = "open" /\ PhaseOf(j)' = "reported"
  BY DEF PhaseOf, Reported
<1>2. (pc[j] = "absent")' = FALSE
  BY DEF Reported
<1>3. Contract!Report(j, o)
  BY <1>1, <1>2 DEF Contract!Report, SeenAsBefore, UsesLane
<1> QED
  BY <1>3 DEF Contract!Next

LEMMA SeenLaunch ==
    ASSUME NEW j \in Jobs, req' = req, \A k \in Jobs \ {j} : SeenAsBefore(k),
           pc[j] \notin {"absent", "aborted"}, pc'[j] \notin {"absent", "aborted"},
           ~Reported(j), ~Reported(j)', ~Live(j), Live(j)',
           UsesLane(j) => \A k \in Jobs \ {j} :
                            Live(k) /\ UsesLane(k) /\ pc[k] # "aborted"
                              => req[k].agent # req[j].agent
    PROVE  Contract!Next
<1>1. PhaseOf(j) = "open" /\ PhaseOf(j)' = "open"
  BY DEF PhaseOf, Reported
<1>2. Contract!Launch(j)
  <2>1. \A k \in {i \in Jobs : Live(i)} :
          /\ (IF pc[k] # "absent" /\ UsesLane(k) THEN req[k].agent ELSE "none")
               = (IF pc[j] # "absent" /\ UsesLane(j) THEN req[j].agent ELSE "none")
          /\ PhaseOf(k) # "abandoned"
          => (IF pc[j] # "absent" /\ UsesLane(j) THEN req[j].agent ELSE "none") = "none"
    <3> SUFFICES ASSUME NEW k \in Jobs, Live(k), PhaseOf(k) # "abandoned",
                        UsesLane(j), pc[k] # "absent", UsesLane(k)
                 PROVE  req[k].agent # req[j].agent
      OBVIOUS
    <3>1. pc[k] # "aborted"
      BY DEF PhaseOf, Reported
    <3>2. k # j
      OBVIOUS
    <3> QED
      BY <3>1, <3>2
  <2> QED
    BY <1>1, <2>1 DEF Contract!Launch, SeenAsBefore, UsesLane
<1> QED
  BY <1>2 DEF Contract!Next

LEMMA SeenExit ==
    ASSUME NEW j \in Jobs, UNCHANGED <<req, pc, status>>, \A k \in Jobs \ {j} : SeenAsBefore(k),
           Live(j), ~Live(j)'
    PROVE  Contract!Next
<1>1. PhaseOf(j)' = PhaseOf(j) /\ Reported(j)' = Reported(j)
  BY DEF PhaseOf, Reported
<1>2. Contract!Exit(j)
  BY <1>1 DEF Contract!Exit, SeenAsBefore, UsesLane
<1> QED
  BY <1>2 DEF Contract!Next

LEMMA SeenAccept ==
    ASSUME NEW j \in Jobs, \A k \in Jobs \ {j} : SeenAsBefore(k) /\ req'[k] = req[k],
           pc[j] = "absent", pc'[j] \notin {"absent", "aborted"},
           ~Live(j), ~Live(j)', UsesLane(j)' => req'[j].agent \in SessionAgents,
           Reported(j)' => status'[j] \in Terminal
    PROVE  Contract!Next
<1>1. PhaseOf(j) = "absent" /\ ~Reported(j)
  BY DEF PhaseOf, Reported
<1>2. Contract!Accept(j)
  <2> DEFINE l == IF UsesLane(j)' THEN req'[j].agent ELSE "none"
  <2>1. l \in SessionAgents \cup {"none"}
    OBVIOUS
  <2>2. [k \in Jobs |-> IF pc[k] # "absent" /\ UsesLane(k) THEN req[k].agent ELSE "none"]'
          = [[k \in Jobs |-> IF pc[k] # "absent" /\ UsesLane(k) THEN req[k].agent ELSE "none"]
               EXCEPT ![j] = l]
    BY DEF SeenAsBefore, UsesLane
  <2>3. CASE Reported(j)'
    <3>1. PhaseOf(j)' = "reported"
      BY <2>3 DEF PhaseOf, Reported
    <3>2. [k \in Jobs |-> IF Reported(k) THEN status[k] ELSE "none"]'
            = [[k \in Jobs |-> IF Reported(k) THEN status[k] ELSE "none"]
                 EXCEPT ![j] = status'[j]]
      BY <2>3 DEF SeenAsBefore
    <3>3. \E o \in Terminal :
            [k \in Jobs |-> IF Reported(k) THEN status[k] ELSE "none"]'
              = [[k \in Jobs |-> IF Reported(k) THEN status[k] ELSE "none"] EXCEPT ![j] = o]
      BY <2>3, <3>2
    <3>4. [k \in Jobs |-> PhaseOf(k)]' = [[k \in Jobs |-> PhaseOf(k)] EXCEPT ![j] = "reported"]
      BY <3>1 DEF SeenAsBefore
    <3>5. {k \in Jobs : Live(k)}' = {k \in Jobs : Live(k)}
      BY DEF SeenAsBefore
    <3> QED
      BY <1>1, <2>1, <2>2, <3>3, <3>4, <3>5 DEF Contract!Accept
  <2>4. CASE ~Reported(j)'
    <3>1. PhaseOf(j)' = "open"
      BY <2>4 DEF PhaseOf, Reported
    <3> QED
      BY <1>1, <2>1, <2>2, <2>4, <3>1 DEF Contract!Accept, SeenAsBefore
  <2> QED
    BY <2>3, <2>4
<1> QED
  BY <1>2 DEF Contract!Next

LEMMA SeenAbandon ==
    ASSUME NEW j \in Jobs, UNCHANGED <<req, proc, status>>,
           \A k \in Jobs \ {j} : SeenAsBefore(k),
           pc[j] \notin {"absent", "aborted"}, ~Reported(j), pc'[j] = "aborted"
    PROVE  Contract!Next
<1>1. PhaseOf(j) = "open" /\ PhaseOf(j)' = "abandoned" /\ ~Reported(j)'
  BY DEF PhaseOf, Reported
<1>2. Live(j)' = Live(j) /\ pc'[j] # "absent"
  BY DEF Live
<1>3. Contract!Abandon(j)
  BY <1>1, <1>2 DEF Contract!Abandon, SeenAsBefore, UsesLane
<1> QED
  BY <1>3 DEF Contract!Next

-----------------------------------------------------------------------------
(* Steps of the bridge that the host does not see.                          *)

LEMMA SeenAsBeforeWhen ==
    ASSUME NEW j \in Jobs, Live(j)' = Live(j), Reported(j) => status'[j] = status[j],
           \/ pc'[j] = pc[j]
           \/ Reported(j) /\ Reported(j)'
           \/ /\ pc[j] \notin {"absent", "aborted"} /\ pc'[j] \notin {"absent", "aborted"}
              /\ ~Reported(j) /\ ~Reported(j)'
    PROVE  SeenAsBefore(j)
<1>1. CASE pc'[j] = pc[j]
  BY <1>1 DEF SeenAsBefore, PhaseOf, Reported
<1>2. CASE Reported(j) /\ Reported(j)'
  <2>1. PhaseOf(j) = "reported" /\ PhaseOf(j)' = "reported"
    BY <1>2 DEF PhaseOf, Reported
  <2> QED
    BY <1>2, <2>1 DEF SeenAsBefore, Reported
<1>3. CASE /\ pc[j] \notin {"absent", "aborted"} /\ pc'[j] \notin {"absent", "aborted"}
           /\ ~Reported(j) /\ ~Reported(j)'
  <2>1. PhaseOf(j) = "open" /\ PhaseOf(j)' = "open"
    BY <1>3 DEF PhaseOf, Reported
  <2> QED
    BY <1>3, <2>1 DEF SeenAsBefore, Reported
<1> QED
  BY <1>1, <1>2, <1>3

\* Where the awaits of a task lie for the host.
Open(p) == p \in {"queued", "parked", "hostcheck"} \cup Launching \cup Streaming

LEMMA OpenJob ==
    ASSUME NEW j \in Jobs, Open(pc[j])
    PROVE  pc[j] \notin {"absent", "aborted"} /\ ~Reported(j)
BY DEF Open, Reported, Launching, Streaming

\* A task moves from one await to another, and its process stays what it is.
LEMMA UnseenMove ==
    ASSUME TypeOK, NEW j \in Jobs, NEW p, Open(pc[j]), Open(p),
           pc' = [pc EXCEPT ![j] = p], req' = req,
           \A k \in Jobs : Live(k)' = Live(k),
           \A k \in Jobs \ {j} : status'[k] = status[k]
    PROVE  UNCHANGED Contract!cvars
<1>1. ASSUME NEW k \in Jobs PROVE SeenAsBefore(k)
  <2>1. CASE k = j
    <3>1. pc'[j] = p
      BY DEF TypeOK
    <3> QED
      BY <2>1, <3>1, OpenJob, SeenAsBeforeWhen DEF Open, Reported, Launching, Streaming
  <2>2. CASE k # j
    BY <2>2, SeenAsBeforeWhen DEF TypeOK
  <2> QED
    BY <2>1, <2>2
<1> QED
  BY <1>1, Unseen

\* A task stays where it is.
LEMMA UnseenStay ==
    ASSUME pc' = pc, req' = req, \A k \in Jobs : Live(k)' = Live(k),
           \A k \in Jobs : Reported(k) => status'[k] = status[k]
    PROVE  UNCHANGED Contract!cvars
BY SeenAsBeforeWhen, Unseen

\* Signalling a process is not seen.
LEMMA TerminateUnseen ==
    ASSUME TypeOK, NEW j \in Jobs, Terminate(j)
    PROVE  \A k \in Jobs : Live(k)' = Live(k)
BY DEF Terminate, Live, TypeOK

LEMMA ReportMove ==
    ASSUME TypeOK, NEW j \in Jobs, Open(pc[j]), proc[j] \in {"none", "dead"},
           pc' = [pc EXCEPT ![j] = "notifying"], UNCHANGED <<req, proc>>,
           \A k \in Jobs \ {j} : status'[k] = status[k], status'[j] \in Terminal
    PROVE  Contract!Next
<1>1. ~Live(j) /\ ~Live(j)' /\ Reported(j)'
  BY DEF Live, Reported, TypeOK
<1>2. \A k \in Jobs \ {j} : SeenAsBefore(k)
  BY SeenAsBeforeWhen DEF TypeOK, Live
<1> QED
  BY <1>1, <1>2, OpenJob, SeenReport

-----------------------------------------------------------------------------
(* Every step of the bridge.                                                *)

LEMMA TaskSeen ==
    ASSUME TypeOK, LaneInv, Settled, NEW j \in Jobs, Task(j)
    PROVE  Contract!Next \/ UNCHANGED Contract!cvars
<1> USE DEF registry, taskVars, modelVars, laneVars, idleVars, stopVars
<1>1. CASE BeginFree(j)
  BY <1>1, UnseenMove DEF BeginFree, Open, Launching, Live
<1>2. CASE BeginHolding(j)
  BY <1>2, UnseenMove DEF BeginHolding, Open, Launching, Live
<1>3. CASE BeginParked(j)
  <2>1. \A k \in Jobs \ {j} : status'[k] = status[k]
    BY <1>3 DEF BeginParked, TypeOK
  <2> QED
    BY <1>3, <2>1, UnseenMove DEF BeginParked, Open, Live
<1>4. CASE LaneGranted(j)
  BY <1>4, UnseenMove DEF LaneGranted, Open, Launching, Live
<1>5. CASE SnapshotTaken(j)
  <2>1. CASE status[j] = "cancelled"
    <3>1. proc[j] = "none"
      BY <1>5 DEF SnapshotTaken, LaneInv, ProcessOwned, Streaming, TypeOK
    <3> QED
      BY <1>5, <2>1, <3>1, ReportMove DEF SnapshotTaken, Open, Launching, Terminal
  <2>2. CASE status[j] # "cancelled"
    BY <1>5, <2>2, UnseenMove DEF SnapshotTaken, Open, Launching, Live
  <2> QED
    BY <2>1, <2>2
<1>6. CASE Briefed(j)
  <2>1. CASE FailFast(j)
    <3>1. proc[j] = "none"
      BY <1>6 DEF Briefed, LaneInv, ProcessOwned, Streaming, TypeOK
    <3>2. status'[j] \in Terminal /\ \A k \in Jobs \ {j} : status'[k] = status[k]
      BY <2>1 DEF FailFast, TypeOK, Terminal
    <3> QED
      BY <1>6, <2>1, <3>1, <3>2, ReportMove DEF Briefed, FailFast, Open, Launching
  <2>2. CASE pc' = [pc EXCEPT ![j] = "spawning"] /\ UNCHANGED <<status, proc>>
    BY <1>6, <2>2, UnseenMove DEF Briefed, Open, Launching, Live
  <2> QED
    BY <1>6, <2>1, <2>2 DEF Briefed
<1>7. CASE Spawned(j)
  <2>1. proc[j] = "none" /\ pc[j] = "spawning"
    BY <1>7 DEF Spawned, LaneInv, ProcessOwned, Streaming, TypeOK
  <2>2. CASE FailFast(j)
    <3>1. status'[j] \in Terminal /\ \A k \in Jobs \ {j} : status'[k] = status[k]
      BY <2>2 DEF FailFast, TypeOK, Terminal
    <3> QED
      BY <1>7, <2>1, <2>2, <3>1, ReportMove DEF Spawned, FailFast, Open, Launching
  <2>3. ASSUME proc' = [proc EXCEPT ![j] = "alive"], pc' = [pc EXCEPT ![j] = "running"],
               status' = [status EXCEPT ![j] = IF @ = "cancelled" THEN @ ELSE "running"]
        PROVE  Contract!Next
    <3>1. \A k \in Jobs \ {j} : SeenAsBefore(k)
      BY <2>3, SeenAsBeforeWhen DEF TypeOK, Live
    <3>2. ~Live(j) /\ Live(j)' /\ pc'[j] = "running"
      BY <2>1, <2>3 DEF Live, TypeOK
    <3>3. ~Reported(j) /\ ~Reported(j)'
      BY <2>1, <3>2 DEF Reported
    <3>4. ASSUME UsesLane(j), NEW k \in Jobs \ {j}, Live(k), UsesLane(k)
          PROVE  pc[k] # "aborted" => req[k].agent # req[j].agent
      <4>1. holder[req[j].agent] = j
        BY <2>1, <3>4 DEF LaneInv, LaneHeld, Launching
      <4>2. pc[k] \in Streaming \cup {"aborted"}
        BY <3>4 DEF LaneInv, ProcessOwned, Live
      <4>3. pc[k] # "aborted" => holder[req[k].agent] = k
        BY <3>4, <4>2 DEF LaneInv, LaneHeld
      <4> QED
        BY <3>4, <4>1, <4>3
    <3>5. req' = req
      BY <1>7 DEF Spawned
    <3> QED
      BY <2>1, <3>1, <3>2, <3>3, <3>4, <3>5, SeenLaunch
  <2> QED
    BY <1>7, <2>2, <2>3 DEF Spawned
<1>8. CASE GraceOver(j)
  BY <1>8, TerminateUnseen, UnseenMove DEF GraceOver, Open, Streaming
<1>9. ASSUME NEW failed \in BOOLEAN, Relaunch(j, failed) PROVE UNCHANGED Contract!cvars
  <2>1. /\ \A k \in Jobs : Live(k)' = Live(k)
        /\ \A k \in Jobs \ {j} : status'[k] = status[k]
    BY <1>9 DEF Relaunch, TypeOK, Live
  <2> QED
    BY <1>9, <2>1, UnseenMove DEF Relaunch, Open, Streaming, Launching
<1>10. ASSUME NEW failed \in BOOLEAN, Settle(j, failed) PROVE UNCHANGED Contract!cvars
  <2>1. /\ \A k \in Jobs : Live(k)' = Live(k)
        /\ \A k \in Jobs \ {j} : status'[k] = status[k]
    BY <1>10 DEF Settle, TypeOK, Live
  <2> QED
    BY <1>10, <2>1, UnseenMove DEF Settle, Open, Streaming
<1>11. CASE HostChecked(j)
  <2>1. proc[j] = "none" /\ status[j] \in Terminal
    BY <1>11 DEF HostChecked, LaneInv, ProcessOwned, Streaming, Settled, SettledJob, Reporting
  <2> QED
    BY <1>11, <2>1, ReportMove DEF HostChecked, Open
<1>12. CASE Notified(j)
  <2>1. ASSUME NEW k \in Jobs PROVE SeenAsBefore(k)
    <3>1. CASE k = j
      BY <1>12, <3>1, SeenAsBeforeWhen DEF Notified, Reported, Live, TypeOK
    <3>2. CASE k # j
      BY <1>12, <3>2, SeenAsBeforeWhen DEF Notified, Live, TypeOK
    <3> QED
      BY <3>1, <3>2
  <2> QED
    BY <1>12, <2>1, Unseen DEF Notified
<1> QED
  BY <1>1, <1>2, <1>3, <1>4, <1>5, <1>6, <1>7, <1>8, <1>9, <1>10, <1>11, <1>12 DEF Task

LEMMA OutputSeen ==
    ASSUME TypeOK, NEW j \in Jobs, Output(j)
    PROVE  UNCHANGED Contract!cvars
<1> USE DEF registry, taskVars, modelVars, laneVars, idleVars, stopVars
<1>1. ASSUME NEW s, NEW f, ReadMarker(j, s, f) PROVE UNCHANGED Contract!cvars
  <2>1. /\ \A k \in Jobs \ {j} : status'[k] = status[k]
        /\ \A k \in Jobs : Live(k)' = Live(k)
    BY <1>1 DEF ReadMarker, Apply, TypeOK, Live
  <2>2. pc' = [pc EXCEPT ![j] = "grace"] \/ pc' = [pc EXCEPT ![j] = "running"]
    BY <1>1 DEF ReadMarker, TypeOK
  <2> QED
    BY <1>1, <2>1, <2>2, UnseenMove DEF ReadMarker, Open, Streaming
<1>2. ASSUME NEW s, NEW f, ReadText(j, s, f) PROVE UNCHANGED Contract!cvars
  <2>1. /\ \A k \in Jobs : Reported(k) => status'[k] = status[k]
        /\ \A k \in Jobs : Live(k)' = Live(k)
    BY <1>2 DEF ReadText, Apply, TypeOK, Live, Reported
  <2> QED
    BY <1>2, <2>1, UnseenStay DEF ReadText
<1>3. CASE ReadQuota(j)
  BY <1>3, TerminateUnseen, UnseenMove DEF ReadQuota, Open, Streaming
<1>4. CASE EndOfOutput(j)
  BY <1>4, UnseenMove DEF EndOfOutput, Open, Streaming, Live
<1>5. CASE TimedOut(j)
  BY <1>5, TerminateUnseen, UnseenMove DEF TimedOut, Open, Streaming
<1> QED
  BY <1>1, <1>2, <1>3, <1>4, <1>5 DEF Output

\* A cancel changes the status of an active job, which is not reported.
LEMMA CancelSeen ==
    ASSUME TypeOK, Settled, NEW j \in Jobs, j \in ActiveJobs, CancelCall(j),
           UNCHANGED <<pc, req>>
    PROVE  UNCHANGED Contract!cvars
<1>1. \A k \in Jobs : Live(k)' = Live(k)
  BY TerminateUnseen DEF CancelCall
<1>2. \A k \in Jobs : Reported(k) => status'[k] = status[k]
  BY CancelSpares DEF StaysReported
<1> QED
  BY <1>1, <1>2, UnseenStay

LEMMA ExitSeen ==
    ASSUME TypeOK, NEW j \in Jobs, ProcessExits(j) \/ ProcessKilled(j)
    PROVE  Contract!Next
<1>1. /\ proc[j] \in {"alive", "signalled"}
      /\ proc' = [proc EXCEPT ![j] = "dead"]
      /\ UNCHANGED <<req, pc, status>>
  BY DEF ProcessExits, ProcessKilled, registry
<1>2. Live(j) /\ ~Live(j)'
  BY <1>1 DEF Live, TypeOK
<1>3. \A k \in Jobs \ {j} : SeenAsBefore(k)
  BY <1>1, SeenAsBeforeWhen DEF TypeOK, Live
<1> QED
  BY <1>1, <1>2, <1>3, SeenExit

LEMMA StartSeen ==
    ASSUME TypeOK, LaneInv, NEW r \in Requests, Start(r)
    PROVE  Contract!Next
<1>0. PICK j \in Jobs : j = created + 1
  BY JobsAssumption DEF Start, Jobs, TypeOK
<1>1. pc[j] = "absent" /\ proc[j] = "none" /\ proc' = proc
  <2>1. j > created
    BY <1>0, JobsAssumption DEF TypeOK
  <2>2. pc[j] = "absent"
    BY <2>1 DEF LaneInv, JobsInOrder
  <2> QED
    BY <2>2 DEF Start, LaneInv, ProcessOwned, Streaming
<1>2. /\ req' = [req EXCEPT ![j] = r]
      /\ \/ pc' = [pc EXCEPT ![j] = "queued"]
         \/ /\ pc' = [pc EXCEPT ![j] = "notifying"]
            /\ status' = [status EXCEPT ![j] = "failed"]
      /\ \A k \in Jobs \ {j} : status'[k] = status[k]
  BY <1>0 DEF Start, TypeOK
<1>3. \A k \in Jobs \ {j} : SeenAsBefore(k) /\ req'[k] = req[k]
  BY <1>1, <1>2, SeenAsBeforeWhen DEF TypeOK, Live
<1>4. pc'[j] \in {"queued", "notifying"} /\ (pc'[j] = "notifying" => status'[j] = "failed")
  BY <1>1, <1>2 DEF TypeOK
<1>5. ~Live(j) /\ ~Live(j)'
  BY <1>1 DEF Live
<1>6. Reported(j)' => status'[j] \in Terminal
  BY <1>4 DEF Reported, Terminal
<1>7. UsesLane(j)' => req'[j].agent \in SessionAgents
  BY DEF UsesLane
<1> QED
  BY <1>1, <1>3, <1>4, <1>5, <1>6, <1>7, SeenAccept

LEMMA ShutdownSeen ==
    ASSUME TypeOK, LaneInv, Settled, Shutdown
    PROVE  Contract!Next \/ UNCHANGED Contract!cvars
<1> USE DEF registry, taskVars
<1>1. CASE ShutdownBegins \/ ShutdownWaits \/ ShutdownReturns \/ ShutdownTimesOut
  BY <1>1, UnseenStay
     DEF ShutdownBegins, ShutdownWaits, ShutdownReturns, ShutdownTimesOut, Live
<1>2. ASSUME NEW j \in Jobs, Aborted(j) PROVE Contract!Next \/ UNCHANGED Contract!cvars
  <2>1. /\ pc' = [pc EXCEPT ![j] = IF @ = "notifying" THEN "cut" ELSE "aborted"]
        /\ pc[j] \notin {"absent", "ended", "aborted", "cut"}
        /\ UNCHANGED <<req, proc, status>>
    BY <1>2, Zenon DEF Aborted, Over
  <2>2. \A k \in Jobs : Live(k)' = Live(k)
    BY <2>1 DEF Live
  <2>3. \A k \in Jobs \ {j} : SeenAsBefore(k)
    BY <2>1, <2>2, SeenAsBeforeWhen DEF TypeOK
  <2>4. CASE pc[j] = "notifying"
    <3>1. Reported(j) /\ Reported(j)'
      BY <2>1, <2>4 DEF Reported, TypeOK
    <3>2. SeenAsBefore(j)
      BY <2>1, <2>2, <3>1, SeenAsBeforeWhen
    <3> QED
      BY <2>1, <2>3, <3>2, Unseen
  <2>5. CASE pc[j] # "notifying"
    <3>1. ~Reported(j) /\ pc'[j] = "aborted"
      BY <2>1, <2>5 DEF Reported, TypeOK
    <3> QED
      BY <2>1, <2>3, <3>1, SeenAbandon
  <2> QED
    BY <2>4, <2>5
<1>3. ASSUME NEW j \in Jobs, ShutdownCancels(j) PROVE UNCHANGED Contract!cvars
  <2>1. CASE j \in ActiveJobs /\ CancelCall(j)
    BY <1>3, <2>1, CancelSeen DEF ShutdownCancels
  <2>2. CASE UNCHANGED <<status, proc>>
    BY <1>3, <2>2, UnseenStay DEF ShutdownCancels, Live
  <2> QED
    BY <1>3, <2>1, <2>2 DEF ShutdownCancels
<1> QED
  BY <1>1, <1>2, <1>3 DEF Shutdown

LEMMA ContractNext ==
    ASSUME TypeOK, LaneInv, Settled, [Next]_vars
    PROVE  [Contract!Next]_(Contract!cvars)
<1> USE DEF registry, taskVars
<1>1. ASSUME NEW r \in Requests, Start(r) PROVE Contract!Next
  BY <1>1, StartSeen
<1>2. ASSUME NEW a \in Agents, NEW m \in Switches, SwitchModel(a, m)
      PROVE  UNCHANGED Contract!cvars
  BY <1>2, UnseenStay DEF SwitchModel, Live
<1>3. ASSUME NEW j \in Jobs, Task(j)
      PROVE  Contract!Next \/ UNCHANGED Contract!cvars
  BY <1>3, TaskSeen
<1>4. ASSUME NEW j \in Jobs, Output(j) PROVE UNCHANGED Contract!cvars
  BY <1>4, OutputSeen
<1>5. ASSUME NEW j \in Jobs, ProcessExits(j) \/ ProcessKilled(j) PROVE Contract!Next
  BY <1>5, ExitSeen
<1>6. ASSUME NEW j \in Jobs, Cancel(j) PROVE UNCHANGED Contract!cvars
  BY <1>6, CancelSeen DEF Cancel, Cancellable
<1>7. ASSUME NEW j \in Jobs, Canceller(j) PROVE UNCHANGED Contract!cvars
  <2>1. CASE CancelResumes(j)
    BY <2>1, TerminateUnseen, UnseenStay DEF CancelResumes
  <2>2. CASE CancelReturns(j)
    BY <2>2, UnseenStay DEF CancelReturns, Live
  <2> QED
    BY <1>7, <2>1, <2>2 DEF Canceller
<1>8. CASE Shutdown
  BY <1>8, ShutdownSeen
<1>9. CASE UNCHANGED vars \/ Finished
  BY <1>9, UnseenStay DEF Finished, vars, Live
<1> QED
  BY <1>1, <1>2, <1>3, <1>4, <1>5, <1>6, <1>7, <1>8, <1>9 DEF Next

\* However a job is queued, launched, failed over, cancelled or shut down, the
\* host sees a behaviour of JobContract.
THEOREM BridgeKeepsContract == Spec => KeepsContract
<1>1. TypeOK /\ LaneInv /\ Settled /\ [Next]_vars => Settled'
  BY SettledNext DEF Settled
<1> QED
  BY <1>1, TypeCorrect, LaneInit, LaneNext, SettledInit, ContractInit, ContractNext, PTL
     DEF Spec, KeepsContract, Contract!Spec
=============================================================================
