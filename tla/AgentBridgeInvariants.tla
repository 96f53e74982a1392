----------------------- MODULE AgentBridgeInvariants -----------------------
(***************************************************************************)
(* Proofs about AgentBridge, continued.  A failover goes back to a model   *)
(* that failed only past a switch of the user; a lane and its queue agree  *)
(* with the jobs' tasks; the burst of public work is closed.  A cancel     *)
(* reaps what no failover has relaunched; whose process shutdown() may     *)
(* leave is known; no plain job that is active is forgotten.  An outcome   *)
(* that shows is taken back by a failover or by later output of a session  *)
(* agent only, a cancel by a lane or a launch that fails only.  Nobody     *)
(* waits for what cannot come.                                             *)
(***************************************************************************)
EXTENDS AgentBridgeProofs, SequenceTheorems

-----------------------------------------------------------------------------
(* Failover.                                                                *)

LEMMA NextIsUntried ==
    ASSUME TypeOK, NEW j \in Jobs, NEW s, NextModel(j, s) # NoModel
    PROVE  NextModel(j, s) \notin model[j].tried \cup {Current(j)}
<1>1. req[j].agent \in Agents
  BY RequestFields DEF TypeOK
<1>2. ChainOf(j) \in Seq(Models)
  BY <1>1, ModelsAssumption DEF ChainOf
<1>3. Untried(j) # {} /\ NextModel(j, s) = ChainOf(j)[FirstUntried(j)]
  BY DEF NextModel
<1>4. Untried(j) \subseteq Nat
  BY <1>2 DEF Untried
<1>5. FirstUntried(j) \in Untried(j)
  BY <1>3, <1>4, LeastNatural DEF FirstUntried
<1> QED
  BY <1>3, <1>5 DEF Untried, GivenUp

\* Before the command of a launch is built, what ran is what was given up on, if all
\* that was given up on ran; from then on the model of the launch is added to it.  A
\* failover pins a model of its own; a first launch runs on one that start() need not
\* have noted.
Unbuilt == {"absent", "queued", "parked", "snapshot", "briefing"}
RanJob(j) ==
    LET m == model[j] IN
    /\ Relaunched(j) => m.provider # NoModel /\ m.provider \notin m.tried
    /\ ~Relaunched(j) => /\ pc[j] \in Unbuilt => m.ran = {}
                         /\ \A x, y \in m.ran : x = y
    /\ pc[j] \in Unbuilt /\ m.tried \subseteq m.ran => m.ran \subseteq m.tried
    /\ m.tried \subseteq m.ran /\ m.provider \in m.ran
         => m.ran \subseteq m.tried \cup {m.provider}
RanInv == \A j \in Jobs : RanJob(j)

\* Steps that build no command for a job and do not relaunch it.
SameRuns(j) ==
    /\ model'[j].provider = model[j].provider
    /\ model'[j].tried = model[j].tried
    /\ model'[j].ran = model[j].ran
    /\ pc'[j] \in Unbuilt => pc[j] \in Unbuilt

LEMMA RanStays ==
    ASSUME NEW j \in Jobs, RanJob(j), SameRuns(j)
    PROVE  RanJob(j)'
BY DEF RanJob, SameRuns, Relaunched

LEMMA NotedModels ==
    ASSUME TypeOK, NEW j \in Jobs, NEW b \in BOOLEAN,
           model' = model \/ model' = [model EXCEPT ![j].failure = b]
    PROVE  \A k \in Jobs : /\ model'[k].provider = model[k].provider
                           /\ model'[k].tried = model[k].tried
                           /\ model'[k].ran = model[k].ran
<1> DEFINE new == [model[j] EXCEPT !.failure = b]
<1>1. model[j] \in ModelStates /\ model \in [Jobs -> ModelStates]
  BY DEF TypeOK
<1>2. /\ new.provider = model[j].provider
      /\ new.tried = model[j].tried
      /\ new.ran = model[j].ran
  BY <1>1 DEF ModelStates
<1>3. model' = model \/ model' = [model EXCEPT ![j] = new]
  OBVIOUS
<1> HIDE DEF new
<1> QED
  BY <1>1, <1>2, <1>3

\* What a failover and a launch note.
LEMMA ReplacedFields ==
    ASSUME TypeOK, NEW j \in Jobs, NEW m, model' = [model EXCEPT ![j] = Replaced(j, m)]
    PROVE  /\ model'[j].provider = m
           /\ model'[j].tried = model[j].tried \cup {Current(j)}
           /\ model'[j].ran = model[j].ran
           /\ \A k \in Jobs \ {j} : model'[k] = model[k]
<1>1. /\ Replaced(j, m).provider = m
      /\ Replaced(j, m).tried = model[j].tried \cup {Current(j)}
      /\ Replaced(j, m).ran = model[j].ran
  BY DEF Replaced
<1>2. /\ model'[j] = Replaced(j, m)
      /\ \A k \in Jobs \ {j} : model'[k] = model[k]
  BY DEF TypeOK
<1> QED
  BY <1>1, <1>2

LEMMA CommandedFields ==
    ASSUME TypeOK, NEW j \in Jobs, model' = [model EXCEPT ![j] = Commanded(j)]
    PROVE  /\ model'[j].provider = model[j].provider
           /\ model'[j].tried = model[j].tried
           /\ model'[j].ran = model[j].ran \cup {JobModel(j)}
           /\ \A k \in Jobs \ {j} : model'[k] = model[k]
<1>1. model[j] \in ModelStates
  BY DEF TypeOK
<1>2. /\ Commanded(j).provider = model[j].provider
      /\ Commanded(j).tried = model[j].tried
      /\ Commanded(j).ran = model[j].ran \cup {JobModel(j)}
  BY <1>1 DEF Commanded, ModelStates
<1>3. /\ model'[j] = Commanded(j)
      /\ \A k \in Jobs \ {j} : model'[k] = model[k]
  BY DEF TypeOK
<1> QED
  BY <1>2, <1>3

LEMMA FreshFields ==
    ASSUME TypeOK, NEW r \in Requests, Start(r), NEW j \in Jobs
    PROVE  IF j = created + 1 THEN model'[j].tried = {} /\ model'[j].ran = {}
                              ELSE model'[j] = model[j]
<1> DEFINE m == FreshModel(override[r.agent])
<1>1. m.tried = {} /\ m.ran = {}
  BY DEF FreshModel
<1>2. model' = [model EXCEPT ![created + 1] = m]
  BY DEF Start
<1> HIDE DEF m
<1> QED
  BY <1>1, <1>2 DEF TypeOK

LEMMA RelaunchRuns ==
    ASSUME TypeOK, NEW j \in Jobs, RanJob(j), NEW failed \in BOOLEAN, Relaunch(j, failed)
    PROVE  RanJob(j)'
<1> DEFINE m == NextModel(j, SettledStatus(j, failed))
<1>1. m # NoModel /\ model' = [model EXCEPT ![j] = Replaced(j, m)]
  BY DEF Relaunch
<1>2. m \notin model[j].tried \cup {Current(j)}
  BY <1>1, NextIsUntried
<1> HIDE DEF m
<1>3. /\ model'[j].provider = m
      /\ model'[j].tried = model[j].tried \cup {Current(j)}
      /\ model'[j].ran = model[j].ran
  BY <1>1, ReplacedFields
<1>4. ASSUME model[j].tried \cup {Current(j)} \subseteq model[j].ran
      PROVE  model[j].ran \subseteq model[j].tried \cup {Current(j)}
  <2>1. CASE model[j].provider # NoModel
    BY <1>4, <2>1 DEF RanJob, Current
  <2>2. CASE model[j].provider = NoModel
    <3>1. ~Relaunched(j)
      BY <2>2 DEF RanJob
    <3> QED
      BY <1>4, <3>1 DEF RanJob
  <2> QED
    BY <2>1, <2>2
<1> QED
  BY <1>1, <1>2, <1>3, <1>4 DEF RanJob, Relaunched

LEMMA CommandRuns ==
    ASSUME TypeOK, NEW j \in Jobs, RanJob(j), pc[j] = "briefing",
           pc' = [pc EXCEPT ![j] = "spawning"], model' = [model EXCEPT ![j] = Commanded(j)]
    PROVE  RanJob(j)'
<1>1. /\ model'[j].provider = model[j].provider
      /\ model'[j].tried = model[j].tried
      /\ model'[j].ran = model[j].ran \cup {JobModel(j)}
  BY CommandedFields
<1>2. pc'[j] = "spawning"
  BY DEF TypeOK
<1>3. CASE Relaunched(j)
  <2>1. JobModel(j) = model[j].provider
    BY <1>3 DEF JobModel
  <2> QED
    BY <1>1, <1>2, <1>3, <2>1 DEF RanJob, Relaunched, Unbuilt
<1>4. CASE ~Relaunched(j)
  <2>1. model[j].ran = {}
    BY <1>4 DEF RanJob, Unbuilt
  <2> QED
    BY <1>1, <1>2, <1>4, <2>1 DEF RanJob, Relaunched, Unbuilt
<1> QED
  BY <1>3, <1>4

LEMMA RanNext ==
    ASSUME TypeOK, RanInv, [Next]_vars, NEW j \in Jobs
    PROVE  RanJob(j)'
<1> USE DEF registry, taskVars, modelVars, TypeOK
<1> SUFFICES ASSUME ~SameRuns(j) PROVE RanJob(j)'
  BY RanStays DEF RanInv
<1> DEFINE Same == model' = model /\ (pc'[j] \in Unbuilt => pc[j] \in Unbuilt)
<1>a. ~Same
  BY DEF SameRuns
<1>1. ASSUME NEW r \in Requests, Start(r) PROVE RanJob(j)'
  <2>1. CASE j = created + 1
    BY <1>1, <2>1, FreshFields DEF RanJob, Relaunched
  <2>2. CASE j # created + 1
    <3>1. model'[j] = model[j]
      BY <1>1, <2>2, FreshFields
    <3>2. pc'[j] = pc[j]
      BY <1>1, <2>2 DEF Start
    <3> QED
      BY <3>1, <3>2 DEF SameRuns
  <2> QED
    BY <2>1, <2>2
<1>2. ASSUME NEW k \in Jobs, Task(k) PROVE RanJob(j)'
  <2>1. ASSUME NEW failed \in BOOLEAN, Relaunch(k, failed) PROVE RanJob(j)'
    <3>1. CASE j = k
      BY <2>1, <3>1, RelaunchRuns DEF RanInv
    <3>2. CASE j # k
      <4>1. model'[j] = model[j] /\ pc'[j] = pc[j]
        BY <2>1, <3>2, ReplacedFields DEF Relaunch
      <4> QED
        BY <4>1 DEF SameRuns
    <3> QED
      BY <3>1, <3>2
  <2>2. CASE Briefed(k)
    <3>1. CASE FailFast(k) /\ model' = model
      BY <1>a, <3>1 DEF FailFast, Unbuilt
    <3>2. CASE /\ pc' = [pc EXCEPT ![k] = "spawning"]
               /\ model' = [model EXCEPT ![k] = Commanded(k)]
      <4>1. CASE j = k
        BY <2>2, <3>2, <4>1, CommandRuns DEF Briefed, RanInv
      <4>2. CASE j # k
        <5>1. model'[j] = model[j] /\ pc'[j] = pc[j]
          BY <3>2, <4>2, CommandedFields
        <5> QED
          BY <5>1 DEF SameRuns
      <4> QED
        BY <4>1, <4>2
    <3> QED
      BY <2>2, <3>1, <3>2, Zenon DEF Briefed
  <2>3. CASE BeginFree(k) \/ BeginHolding(k) \/ BeginParked(k) \/ LaneGranted(k)
    BY <1>a, <2>3 DEF BeginFree, BeginHolding, BeginParked, LaneGranted, Unbuilt
  <2>4. CASE SnapshotTaken(k) \/ Spawned(k) \/ GraceOver(k) \/ HostChecked(k) \/ Notified(k)
    BY <1>a, <2>4 DEF SnapshotTaken, Spawned, FailFast, GraceOver, HostChecked, Notified,
                      Unbuilt
  <2>5. ASSUME NEW failed \in BOOLEAN, Settle(k, failed) PROVE RanJob(j)'
    BY <1>a, <2>5 DEF Settle, Unbuilt
  <2> QED
    BY <1>2, <2>1, <2>2, <2>3, <2>4, <2>5 DEF Task
<1>3. ASSUME NEW k \in Jobs, Output(k) PROVE RanJob(j)'
  <2>1. pc'[j] \in Unbuilt => pc[j] \in Unbuilt
    BY <1>3 DEF Output, ReadMarker, ReadText, ReadQuota, EndOfOutput, TimedOut, Unbuilt
  <2>2. ASSUME NEW f, NoteFailure(k, f) PROVE RanJob(j)'
    BY <2>1, <2>2, NotedModels DEF NoteFailure, SameRuns
  <2>3. CASE TimedOut(k)
    BY <2>1, <2>3, NotedModels DEF TimedOut, SameRuns
  <2>4. CASE EndOfOutput(k)
    BY <1>a, <2>1, <2>4 DEF EndOfOutput
  <2> QED
    BY <1>3, <2>2, <2>3, <2>4 DEF Output, ReadMarker, ReadText, ReadQuota
<1>4. ASSUME NEW a \in Agents, NEW m \in Switches, SwitchModel(a, m) PROVE RanJob(j)'
  BY <1>a, <1>4 DEF SwitchModel
<1>5. ASSUME NEW k \in Jobs, ProcessExits(k) \/ ProcessKilled(k) \/ Cancel(k) \/ Canceller(k)
      PROVE  RanJob(j)'
  BY <1>a, <1>5 DEF ProcessExits, ProcessKilled, Cancel, Canceller, CancelResumes, CancelReturns
<1>6. CASE Shutdown
  <2>1. ASSUME NEW k \in Jobs, Aborted(k) PROVE RanJob(j)'
    BY <1>a, <2>1 DEF Aborted, Unbuilt
  <2> QED
    BY <1>a, <1>6, <2>1 DEF Shutdown, ShutdownBegins, ShutdownWaits, ShutdownReturns,
                            ShutdownTimesOut, ShutdownCancels
<1>7. CASE UNCHANGED vars \/ Finished
  BY <1>a, <1>7 DEF Finished, vars
<1> QED
  BY <1>1, <1>2, <1>3, <1>4, <1>5, <1>6, <1>7 DEF Next

\* Whatever its chain: a failover goes back to a model that the job has failed on
\* only after the user switched the agent's model between start() and the launch.
THEOREM ModelsAreFresh == Spec => []NoModelRetried
<1>1. Init => RanInv
  BY DEF Init, RanInv, RanJob, Relaunched, FreshModel
<1>2. TypeOK /\ RanInv /\ [Next]_vars => RanInv'
  BY RanNext DEF RanInv
<1>3. RanInv => NoModelRetried
  BY DEF RanInv, RanJob, NoModelRetried, Unbuilt
<1> QED
  BY <1>1, <1>2, <1>3, TypeCorrect, PTL DEF Spec

-----------------------------------------------------------------------------
(* The end of a burst.                                                      *)

\* Public work that was not reported as over has a job that will see to it.
BurstInv == publicWork => ~idleNotified /\ \E j \in 1 .. created : pc[j] # "ended"

EndsNone ==
    /\ UNCHANGED <<created, idleVars>>
    /\ \A j \in Jobs : pc'[j] = "ended" => pc[j] = "ended"

LEMMA BurstStays == TypeOK /\ BurstInv /\ EndsNone => BurstInv'
<1>1. TypeOK => 1 .. created \subseteq Jobs
  BY JobsAssumption DEF TypeOK, Jobs
<1> QED
  BY <1>1 DEF EndsNone, BurstInv, idleVars

LEMMA EndsOneOrNone ==
    ASSUME TypeOK, [Next]_vars
    PROVE  EndsNone \/ (\E r \in Requests : Start(r)) \/ \E j \in Jobs : Notified(j)
<1> USE DEF TypeOK, registry, taskVars, EndsNone
<1>1. ASSUME NEW a \in Agents, NEW m \in Switches, SwitchModel(a, m) PROVE EndsNone
  BY <1>1 DEF SwitchModel
<1>2. ASSUME NEW j \in Jobs, Task(j), ~Notified(j) PROVE EndsNone
  <2>1. CASE BeginFree(j) \/ BeginHolding(j) \/ BeginParked(j) \/ LaneGranted(j)
    BY <2>1 DEF BeginFree, BeginHolding, BeginParked, LaneGranted
  <2>2. CASE SnapshotTaken(j) \/ Briefed(j) \/ Spawned(j) \/ GraceOver(j) \/ HostChecked(j)
    BY <2>2 DEF SnapshotTaken, Briefed, Spawned, GraceOver, HostChecked, FailFast
  <2>3. ASSUME NEW failed \in BOOLEAN, Relaunch(j, failed) \/ Settle(j, failed) PROVE EndsNone
    BY <2>3 DEF Relaunch, Settle
  <2> QED
    BY <1>2, <2>1, <2>2, <2>3 DEF Task
<1>3. ASSUME NEW j \in Jobs, Output(j) PROVE EndsNone
  BY <1>3 DEF Output, ReadMarker, ReadText, ReadQuota, EndOfOutput, TimedOut
<1>4. ASSUME NEW j \in Jobs, ProcessExits(j) \/ ProcessKilled(j) \/ Cancel(j) \/ Canceller(j)
      PROVE  EndsNone
  BY <1>4 DEF ProcessExits, ProcessKilled, Cancel, Canceller, CancelResumes, CancelReturns
<1>5. CASE Shutdown
  <2>1. ASSUME NEW k \in Jobs, Aborted(k) PROVE EndsNone
    BY <2>1 DEF Aborted
  <2> QED
    BY <1>5, <2>1 DEF Shutdown, ShutdownBegins, ShutdownWaits, ShutdownReturns,
                      ShutdownTimesOut, ShutdownCancels
<1>6. CASE UNCHANGED vars \/ Finished
  BY <1>6 DEF Finished, vars
<1> QED
  BY <1>1, <1>2, <1>3, <1>4, <1>5, <1>6 DEF Next, Task

LEMMA BurstNext ==
    ASSUME TypeOK, Settled, BurstInv, [Next]_vars
    PROVE  BurstInv'
<1>1. CASE EndsNone
  BY <1>1, BurstStays
<1>2. ASSUME NEW r \in Requests, Start(r) PROVE BurstInv'
  <2>1. created + 1 \in Jobs /\ created' = created + 1 /\ created + 1 \in 1 .. created'
    BY <1>2, JobsAssumption DEF Start, TypeOK, Jobs
  <2>2. pc'[created + 1] # "ended"
    BY <1>2, <2>1 DEF Start, TypeOK
  <2>3. publicWork' => ~idleNotified'
    BY <1>2, RequestFields DEF Start, MarkBusy, BurstInv, TypeOK
  <2> QED
    BY <2>1, <2>2, <2>3 DEF BurstInv
<1>3. ASSUME NEW j \in Jobs, Notified(j) PROVE BurstInv'
  <2> SUFFICES ASSUME publicWork' PROVE ~idleNotified' /\ \E k \in 1 .. created : pc'[k] # "ended"
    BY <1>3 DEF BurstInv, Notified, registry
  <2>1. publicWork /\ ~idleNotified /\ ActiveJobs # {} /\ ~idleNotified'
    BY <1>3 DEF Notified, IdleCheck, BurstInv
  <2>2. PICK k \in ActiveJobs : TRUE
    BY <2>1
  <2>3. k \in 1 .. created /\ k \in Jobs /\ status[k] \in Active
    BY <2>2, JobsAssumption DEF ActiveJobs, TypeOK, Jobs
  <2>4. pc[k] \notin Reporting \cup {"ended"}
    BY <2>3 DEF Settled, SettledJob, Active, Terminal
  <2>5. pc'[k] # "ended"
    BY <1>3, <2>3, <2>4 DEF Notified, Reporting, TypeOK
  <2> QED
    BY <2>1, <2>3, <2>5
<1> QED
  BY <1>1, <1>2, <1>3, EndsOneOrNone

\* When all jobs have ended, the aggregate event of the last burst was sent.
THEOREM BurstsAreClosed == Spec => []IdleIsNotified
<1>1. Init => BurstInv
  BY DEF Init, BurstInv
<1>2. BurstInv => IdleIsNotified
  BY DEF BurstInv, IdleIsNotified
<1>3. TypeOK /\ LaneInv /\ Settled /\ [Next]_vars => Settled'
  BY SettledNext DEF Settled
<1> QED
  BY <1>1, <1>2, <1>3, BurstNext, TypeCorrect, LaneInit, LaneNext, SettledInit, PTL DEF Spec

-----------------------------------------------------------------------------
(* Lanes and their queues.                                                  *)

Elements(q) == {q[i] : i \in DOMAIN q}
Distinct(q) == \A i, k \in DOMAIN q : q[i] = q[k] => i = k
InLane == Launching \cup Streaming \cup Reporting
ParkedAt(a) == {j \in Jobs : pc[j] = "parked" /\ req[j].agent = a}

LaneAgrees(a) ==
    /\ holder[a] # NoJob => pc[holder[a]] \in InLane
    /\ ParkedAt(a) = Elements(waiters[a])
    /\ Distinct(waiters[a])

LEMMA LanesAgree == LaneConsistent <=> \A a \in SessionAgents : LaneAgrees(a)
BY DEF LaneConsistent, LaneAgrees, ParkedAt, Elements, Distinct, InLane

LEMMA Queued ==
    ASSUME NEW q \in Seq(Jobs), NEW j \in Jobs, j \notin Elements(q), Distinct(q)
    PROVE  Elements(Append(q, j)) = Elements(q) \cup {j} /\ Distinct(Append(q, j))
<1>1. /\ DOMAIN Append(q, j) = DOMAIN q \cup {Len(q) + 1}
      /\ Append(q, j)[Len(q) + 1] = j
      /\ \A i \in DOMAIN q : Append(q, j)[i] = q[i]
  OBVIOUS
<1>2. \A i \in DOMAIN q : q[i] # j
  BY DEF Elements
<1> QED
  BY <1>1, <1>2 DEF Elements, Distinct

LEMMA Dequeued ==
    ASSUME NEW q \in Seq(Jobs), q # <<>>, Distinct(q)
    PROVE  Elements(Tail(q)) = Elements(q) \ {Head(q)} /\ Distinct(Tail(q))
<1>1. /\ Len(q) \in Nat /\ Len(q) # 0 /\ DOMAIN q = 1 .. Len(q) /\ Head(q) = q[1]
      /\ DOMAIN Tail(q) = 1 .. Len(q) - 1 /\ \A i \in 1 .. Len(q) - 1 : Tail(q)[i] = q[i + 1]
  OBVIOUS
<1>2. ASSUME NEW i \in DOMAIN q, i # 1 PROVE i - 1 \in DOMAIN Tail(q) /\ Tail(q)[i - 1] = q[i]
  BY <1>1, <1>2
<1>3. ASSUME NEW i \in DOMAIN Tail(q) PROVE i + 1 \in DOMAIN q /\ Tail(q)[i] = q[i + 1] /\ i + 1 # 1
  BY <1>1
<1>4. 1 \in DOMAIN q
  BY <1>1
<1>5. ASSUME NEW i \in DOMAIN q, q[i] # Head(q) PROVE q[i] \in Elements(Tail(q))
  BY <1>1, <1>2, <1>5 DEF Elements
<1>6. ASSUME NEW i \in DOMAIN Tail(q) PROVE Tail(q)[i] \in Elements(q) \ {Head(q)}
  BY <1>1, <1>3, <1>4 DEF Elements, Distinct
<1>7. ASSUME NEW i \in DOMAIN Tail(q), NEW k \in DOMAIN Tail(q), Tail(q)[i] = Tail(q)[k]
      PROVE  i = k
  <2>1. i + 1 = k + 1
    BY <1>3, <1>7 DEF Distinct
  <2> QED
    BY <1>1, <2>1
<1>8. Elements(Tail(q)) = Elements(q) \ {Head(q)}
  BY <1>5, <1>6 DEF Elements
<1>9. Distinct(Tail(q))
  BY <1>7 DEF Distinct
<1> QED
  BY <1>8, <1>9

\* What is left of a sequence without its n-th entry.
Lacks(r, q, n) ==
    /\ DOMAIN r = 1 .. Len(q) - 1
    /\ \A i \in 1 .. Len(q) - 1 : r[i] = IF i < n THEN q[i] ELSE q[i + 1]

LEMMA RemovedEntry ==
    ASSUME NEW q \in Seq(Jobs), NEW n \in 1 .. Len(q)
    PROVE  Lacks(SubSeq(q, 1, n - 1) \o SubSeq(q, n + 1, Len(q)), q, n)
<1> DEFINE front == SubSeq(q, 1, n - 1)
           rest == SubSeq(q, n + 1, Len(q))
           r == front \o rest
<1>1. Len(q) \in Nat /\ n \in Int /\ \A i \in 1 .. Len(q) : q[i] \in Jobs
  OBVIOUS
<1>2. /\ front \in Seq(Jobs) /\ Len(front) = n - 1
      /\ \A i \in 1 .. n - 1 : front[i] = q[i]
  BY <1>1, SubSeqProperties
<1>3. /\ rest \in Seq(Jobs) /\ Len(rest) = Len(q) - n
      /\ \A i \in 1 .. Len(q) - n : rest[i] = q[n + i]
  BY <1>1, SubSeqProperties
<1> HIDE DEF front, rest
<1>4. /\ r \in Seq(Jobs) /\ Len(r) = Len(front) + Len(rest)
      /\ \A i \in 1 .. Len(front) + Len(rest) :
            r[i] = IF i <= Len(front) THEN front[i] ELSE rest[i - Len(front)]
  BY <1>2, <1>3, ConcatProperties
<1> HIDE DEF r
<1>5. DOMAIN r = 1 .. Len(q) - 1
  BY <1>1, <1>2, <1>3, <1>4
<1>6. ASSUME NEW i \in 1 .. Len(q) - 1
      PROVE  r[i] = IF i < n THEN q[i] ELSE q[i + 1]
  <2>1. i \in 1 .. Len(front) + Len(rest) /\ (i <= Len(front) <=> i < n)
    BY <1>1, <1>2, <1>3
  <2>2. r[i] = IF i <= Len(front) THEN front[i] ELSE rest[i - Len(front)]
    BY <1>4, <2>1
  <2>3. CASE i < n
    <3>1. i \in 1 .. n - 1
      BY <1>1, <2>3
    <3> QED
      BY <1>2, <2>1, <2>2, <2>3, <3>1
  <2>4. CASE ~(i < n)
    <3>1. i - (n - 1) \in 1 .. Len(q) - n /\ n + (i - (n - 1)) = i + 1
      BY <1>1, <2>4
    <3>2. r[i] = rest[i - (n - 1)]
      BY <1>2, <2>1, <2>2, <2>4
    <3> QED
      BY <1>3, <2>4, <3>1, <3>2
  <2> QED
    BY <2>3, <2>4
<1> QED
  BY <1>5, <1>6 DEF Lacks, r, front, rest

\* An entry leaves the queue from where it stands.
LEMMA DroppedEntry ==
    ASSUME NEW q \in Seq(Jobs), NEW n \in 1 .. Len(q), Distinct(q), NEW r, Lacks(r, q, n)
    PROVE  Elements(r) = Elements(q) \ {q[n]} /\ Distinct(r)
<1> DEFINE At(i) == IF i < n THEN i ELSE i + 1
<1>a. Len(q) \in Nat /\ DOMAIN q = 1 .. Len(q)
  OBVIOUS
<1>b. /\ DOMAIN r = 1 .. Len(q) - 1
      /\ \A i \in 1 .. Len(q) - 1 : r[i] = IF i < n THEN q[i] ELSE q[i + 1]
  BY DEF Lacks
<1>1. ASSUME NEW i \in DOMAIN r
      PROVE  At(i) \in DOMAIN q /\ At(i) # n /\ r[i] = q[At(i)]
  BY <1>a, <1>b
<1>2. ASSUME NEW k \in DOMAIN q, k # n PROVE \E i \in DOMAIN r : r[i] = q[k]
  <2>1. CASE k < n
    <3>1. k \in DOMAIN r /\ r[k] = q[k]
      BY <1>a, <1>b, <2>1
    <3> QED
      BY <3>1
  <2>2. CASE ~(k < n)
    <3>1. k - 1 \in DOMAIN r /\ ~(k - 1 < n) /\ (k - 1) + 1 = k
      BY <1>a, <1>b, <1>2, <2>2
    <3>2. r[k - 1] = q[k]
      BY <1>a, <1>b, <3>1
    <3> QED
      BY <3>1, <3>2
  <2> QED
    BY <2>1, <2>2
<1>3. ASSUME NEW i \in DOMAIN r, NEW k \in DOMAIN r, At(i) = At(k) PROVE i = k
  BY <1>a, <1>b, <1>3
<1> HIDE DEF At
<1>4. n \in DOMAIN q
  BY <1>a
<1>5. ASSUME NEW i \in DOMAIN r PROVE r[i] \in Elements(q) \ {q[n]}
  BY <1>1, <1>4 DEF Elements, Distinct
<1>6. ASSUME NEW x \in Elements(q) \ {q[n]} PROVE x \in Elements(r)
  BY <1>2, <1>6 DEF Elements
<1>7. Elements(r) = Elements(q) \ {q[n]}
  BY <1>5, <1>6 DEF Elements
<1>8. ASSUME NEW i \in DOMAIN r, NEW k \in DOMAIN r, r[i] = r[k] PROVE i = k
  <2>1. q[At(i)] = q[At(k)] /\ At(i) \in DOMAIN q /\ At(k) \in DOMAIN q
    BY <1>1, <1>8
  <2>2. At(i) = At(k)
    BY <2>1 DEF Distinct
  <2> QED
    BY <1>3, <2>2
<1>9. Distinct(r)
  BY <1>8 DEF Distinct
<1> QED
  BY <1>7, <1>9

LEMMA LeftQueue ==
    ASSUME NEW q \in Seq(Jobs), NEW n \in DOMAIN q, Distinct(q),
           NEW r, r = SubSeq(q, 1, n - 1) \o SubSeq(q, n + 1, Len(q))
    PROVE  Elements(r) = Elements(q) \ {q[n]} /\ Distinct(r)
<1>1. n \in 1 .. Len(q)
  OBVIOUS
<1>2. Lacks(r, q, n)
  BY <1>1, RemovedEntry
<1> QED
  BY <1>1, <1>2, DroppedEntry

\* A step of a job that is not parked, nor gets parked, and leaves the lanes alone.
LanesStay ==
    /\ UNCHANGED <<req, holder, waiters>>
    /\ \A j \in Jobs : /\ pc[j] \in InLane => pc'[j] \in InLane
                       /\ pc'[j] = "parked" <=> pc[j] = "parked"

LEMMA LaneAgreesStays ==
    ASSUME TypeOK, LanesStay, NEW a \in SessionAgents, LaneAgrees(a)
    PROVE  LaneAgrees(a)'
<1>1. ParkedAt(a)' = ParkedAt(a)
  BY DEF LanesStay, ParkedAt
<1> QED
  BY <1>1 DEF LanesStay, LaneAgrees, TypeOK

MovesLane ==
    \/ \E r \in Requests : Start(r)
    \/ \E j \in Jobs : BeginHolding(j) \/ BeginParked(j) \/ LaneGranted(j) \/ Notified(j)
                    \/ Aborted(j)

LEMMA LanesStayOrMove ==
    ASSUME TypeOK, [Next]_vars, ~MovesLane
    PROVE  LanesStay
<1> USE DEF TypeOK, registry, taskVars, laneVars, LanesStay, InLane, Launching, Streaming, Reporting
<1>1. ASSUME NEW a \in Agents, NEW m \in Switches, SwitchModel(a, m) PROVE LanesStay
  BY <1>1 DEF SwitchModel
<1>2. ASSUME NEW j \in Jobs, Task(j) PROVE LanesStay
  <2>1. CASE BeginFree(j) \/ SnapshotTaken(j) \/ GraceOver(j) \/ HostChecked(j)
    BY <2>1 DEF BeginFree, SnapshotTaken, GraceOver, HostChecked
  <2>2. CASE Briefed(j) \/ Spawned(j)
    BY <2>2 DEF Briefed, Spawned, FailFast
  <2>3. ASSUME NEW failed \in BOOLEAN, Relaunch(j, failed) \/ Settle(j, failed) PROVE LanesStay
    BY <2>3 DEF Relaunch, Settle
  <2> QED
    BY <1>2, <2>1, <2>2, <2>3 DEF Task, MovesLane
<1>3. ASSUME NEW j \in Jobs, Output(j) PROVE LanesStay
  BY <1>3 DEF Output, ReadMarker, ReadText, ReadQuota, EndOfOutput, TimedOut
<1>4. ASSUME NEW j \in Jobs, ProcessExits(j) \/ ProcessKilled(j) \/ Cancel(j) \/ Canceller(j)
      PROVE  LanesStay
  BY <1>4 DEF ProcessExits, ProcessKilled, Cancel, Canceller, CancelResumes, CancelReturns
<1>5. CASE Shutdown
  BY <1>5 DEF Shutdown, ShutdownBegins, ShutdownWaits, ShutdownReturns, ShutdownTimesOut,
              ShutdownCancels, MovesLane
<1>6. CASE UNCHANGED vars \/ Finished
  BY <1>6 DEF Finished, vars
<1> QED
  BY <1>1, <1>2, <1>3, <1>4, <1>5, <1>6 DEF Next, MovesLane

LEMMA LaneAgreesNext ==
    ASSUME TypeOK, LaneInv, [Next]_vars, NEW a \in SessionAgents, LaneAgrees(a)
    PROVE  LaneAgrees(a)'
<1> USE DEF TypeOK, registry, laneVars
<1>1. CASE ~MovesLane
  BY <1>1, LanesStayOrMove, LaneAgreesStays
<1>2. ASSUME NEW r \in Requests, Start(r) PROVE LaneAgrees(a)'
  <2>1. created + 1 \in Jobs /\ pc[created + 1] = "absent"
    BY <1>2, JobsAssumption DEF Start, Jobs, LaneInv, JobsInOrder
  <2>2. pc'[created + 1] # "parked"
    BY <1>2, <2>1 DEF Start
  <2>3. \A j \in Jobs \ {created + 1} : pc'[j] = pc[j] /\ req'[j] = req[j]
    BY <1>2, <2>1 DEF Start
  <2>4. ParkedAt(a)' = ParkedAt(a)
    BY <2>1, <2>2, <2>3 DEF ParkedAt
  <2>5. holder[a] # NoJob => holder[a] # created + 1 /\ holder[a] \in Jobs
    BY <2>1 DEF LaneAgrees, InLane, Launching, Streaming, Reporting
  <2>6. holder' = holder /\ waiters' = waiters
    BY <1>2 DEF Start
  <2> QED
    BY <2>3, <2>4, <2>5, <2>6 DEF LaneAgrees
<1>3. ASSUME NEW j \in Jobs, BeginHolding(j) PROVE LaneAgrees(a)'
  <2>1. ParkedAt(a)' = ParkedAt(a) /\ waiters' = waiters
    BY <1>3 DEF BeginHolding, ParkedAt
  <2>2. req[j].agent \in SessionAgents
    BY <1>3 DEF BeginHolding, UsesLane
  <2>3. holder'[a] # NoJob => pc'[holder'[a]] \in InLane
    <3>1. CASE a = req[j].agent
      BY <1>3, <2>2, <3>1 DEF BeginHolding, InLane, Launching
    <3>2. CASE a # req[j].agent
      BY <1>3, <2>2, <3>2 DEF BeginHolding, InLane, Launching, LaneAgrees
    <3> QED
      BY <3>1, <3>2
  <2> QED
    BY <2>1, <2>3 DEF LaneAgrees
<1>4. ASSUME NEW j \in Jobs, BeginParked(j) PROVE LaneAgrees(a)'
  <2>1. req[j].agent \in SessionAgents /\ pc[j] = "queued" /\ pc' = [pc EXCEPT ![j] = "parked"]
    BY <1>4 DEF BeginParked, UsesLane
  <2>2. holder' = holder /\ req' = req
    BY <1>4 DEF BeginParked
  <2>3. holder'[a] # NoJob => pc'[holder'[a]] \in InLane
    BY <2>1, <2>2 DEF LaneAgrees, InLane, Launching, Streaming, Reporting
  <2>4. CASE a = req[j].agent
    <3>1. waiters'[a] = Append(waiters[a], j)
      BY <1>4, <2>1, <2>4 DEF BeginParked
    <3>2. j \notin Elements(waiters[a])
      BY <2>1 DEF LaneAgrees, ParkedAt
    <3>3. ParkedAt(a)' = ParkedAt(a) \cup {j}
      BY <2>1, <2>2, <2>4 DEF ParkedAt
    <3>4. Elements(waiters'[a]) = Elements(waiters[a]) \cup {j} /\ Distinct(waiters'[a])
      BY <3>1, <3>2, Queued DEF LaneAgrees
    <3> QED
      BY <2>3, <3>3, <3>4 DEF LaneAgrees, Elements, Distinct
  <2>5. CASE a # req[j].agent
    <3>1. waiters'[a] = waiters[a]
      BY <1>4, <2>1, <2>5 DEF BeginParked
    <3>2. ParkedAt(a)' = ParkedAt(a)
      BY <2>1, <2>2, <2>5 DEF ParkedAt
    <3> QED
      BY <2>3, <3>1, <3>2 DEF LaneAgrees, Elements, Distinct
  <2> QED
    BY <2>4, <2>5
<1>5. ASSUME NEW j \in Jobs, LaneGranted(j) PROVE LaneAgrees(a)'
  <2>1. req[j].agent \in SessionAgents /\ pc[j] = "parked" /\ pc' = [pc EXCEPT ![j] = "snapshot"]
    BY <1>5 DEF LaneGranted, UsesLane
  <2>2. req' = req
    BY <1>5 DEF LaneGranted
  <2>3. holder'[a] # NoJob => pc'[holder'[a]] \in InLane
    <3>1. CASE a = req[j].agent
      BY <1>5, <2>1, <3>1 DEF LaneGranted, InLane, Launching
    <3>2. CASE a # req[j].agent
      BY <1>5, <2>1, <3>2 DEF LaneGranted, InLane, Launching, LaneAgrees
    <3> QED
      BY <3>1, <3>2
  <2>4. CASE a = req[j].agent
    <3>1. waiters'[a] = Tail(waiters[a]) /\ Head(waiters[a]) = j /\ waiters[a] # <<>>
      BY <1>5, <2>1, <2>4 DEF LaneGranted
    <3>2. ParkedAt(a)' = ParkedAt(a) \ {j}
      BY <2>1, <2>2, <2>4 DEF ParkedAt
    <3>3. Elements(waiters'[a]) = Elements(waiters[a]) \ {j} /\ Distinct(waiters'[a])
      BY <3>1, Dequeued DEF LaneAgrees
    <3> QED
      BY <2>3, <3>2, <3>3 DEF LaneAgrees, Elements, Distinct
  <2>5. CASE a # req[j].agent
    <3>1. waiters'[a] = waiters[a]
      BY <1>5, <2>1, <2>5 DEF LaneGranted
    <3>2. ParkedAt(a)' = ParkedAt(a)
      BY <2>1, <2>2, <2>5 DEF ParkedAt
    <3> QED
      BY <2>3, <3>1, <3>2 DEF LaneAgrees, Elements, Distinct
  <2> QED
    BY <2>4, <2>5
<1>6. ASSUME NEW j \in Jobs, Notified(j) PROVE LaneAgrees(a)'
  <2>1. ParkedAt(a)' = ParkedAt(a) /\ waiters' = waiters
    BY <1>6 DEF Notified, ParkedAt
  <2>2. holder'[a] # NoJob => holder'[a] = holder[a] /\ holder[a] # j
    BY <1>6 DEF Notified, ReleaseLane
  <2>3. \A k \in Jobs \ {j} : pc'[k] = pc[k]
    BY <1>6 DEF Notified
  <2> QED
    BY <2>1, <2>2, <2>3 DEF LaneAgrees
<1>7. ASSUME NEW j \in Jobs, Aborted(j) PROVE LaneAgrees(a)'
  <2>1. /\ pc' = [pc EXCEPT ![j] = IF @ = "notifying" THEN "cut" ELSE "aborted"]
        /\ ReleaseLane(j) /\ req' = req
    BY <1>7, Zenon DEF Aborted
  <2>2. holder'[a] # NoJob => holder'[a] = holder[a] /\ holder[a] # j
    BY <2>1 DEF ReleaseLane
  <2>3. holder'[a] # NoJob => pc'[holder'[a]] \in InLane
    BY <2>1, <2>2 DEF LaneAgrees
  <2>4. CASE pc[j] = "parked" /\ req[j].agent = a
    <3>1. PICK i \in DOMAIN waiters[a] :
            /\ waiters[a][i] = j
            /\ waiters'[a] = SubSeq(waiters[a], 1, i - 1)
                               \o SubSeq(waiters[a], i + 1, Len(waiters[a]))
      BY <1>7, <2>4 DEF Aborted
    <3>2. ParkedAt(a)' = ParkedAt(a) \ {j}
      BY <2>1, <2>4 DEF ParkedAt
    <3>3. waiters[a] \in Seq(Jobs) /\ Distinct(waiters[a])
      BY DEF LaneAgrees
    <3>4. Elements(waiters'[a]) = Elements(waiters[a]) \ {j} /\ Distinct(waiters'[a])
      BY <3>1, <3>3, LeftQueue
    <3> QED
      BY <2>3, <3>2, <3>4 DEF LaneAgrees, Elements, Distinct
  <2>5. CASE ~ (pc[j] = "parked" /\ req[j].agent = a)
    <3>1. waiters'[a] = waiters[a]
      BY <1>7, <2>5 DEF Aborted
    <3>2. ParkedAt(a)' = ParkedAt(a)
      BY <2>1, <2>5 DEF ParkedAt
    <3> QED
      BY <2>3, <3>1, <3>2 DEF LaneAgrees, Elements, Distinct
  <2> QED
    BY <2>4, <2>5
<1> QED
  BY <1>1, <1>2, <1>3, <1>4, <1>5, <1>6, <1>7 DEF MovesLane

\* A lane is held by a job whose task will free it, and queued for by the jobs
\* parked there, each once.
THEOREM LanesAreConsistent == Spec => []LaneConsistent
<1>1. Init => LaneConsistent
  <2> SUFFICES ASSUME Init, NEW a \in SessionAgents PROVE LaneAgrees(a)
    BY LanesAgree
  <2>1. waiters[a] = <<>> /\ holder[a] = NoJob /\ ParkedAt(a) = {}
    BY DEF Init, ParkedAt
  <2> QED
    BY <2>1 DEF LaneAgrees, Elements, Distinct
<1>2. TypeOK /\ LaneInv /\ LaneConsistent /\ [Next]_vars => LaneConsistent'
  <2> SUFFICES ASSUME TypeOK, LaneInv, LaneConsistent, [Next]_vars PROVE LaneConsistent'
    OBVIOUS
  <2>1. \A a \in SessionAgents : LaneAgrees(a)'
    BY LanesAgree, LaneAgreesNext
  <2> QED
    BY <2>1 DEF LaneConsistent, LaneAgrees, ParkedAt, Elements, Distinct, InLane
<1> QED
  BY <1>1, <1>2, TypeCorrect, LaneInit, LaneNext, PTL DEF Spec

-----------------------------------------------------------------------------
(* What a cancel is sure to stop.                                           *)

LEMMA AcceptedFresh ==
    ASSUME TypeOK, NEW r \in Requests, Start(r), NEW j \in Jobs, j = created + 1
    PROVE  ~Relaunched(j)'
BY FreshFields DEF Relaunched

LEMMA RelaunchMarks ==
    ASSUME TypeOK, NEW j \in Jobs, NEW failed, Relaunch(j, failed)
    PROVE  Relaunched(j)'
<1> DEFINE m == NextModel(j, SettledStatus(j, failed))
<1>1. model' = [model EXCEPT ![j] = Replaced(j, m)]
  BY DEF Relaunch
<1> HIDE DEF m
<1> QED
  BY <1>1, ReplacedFields DEF Relaunched

\* A job is what start() made it, until a failover relaunches it.
LEMMA SameJob ==
    ASSUME TypeOK, [Next]_vars, NEW j \in Jobs
    PROVE  \/ j = created + 1 /\ \E r \in Requests : Start(r)
           \/ Relaunched(j)' /\ \E failed \in BOOLEAN : Relaunch(j, failed)
           \/ req'[j] = req[j] /\ Relaunched(j)' = Relaunched(j)
<1> DEFINE Same(k) == req'[k] = req[k] /\ model'[k].tried = model[k].tried
<1> USE DEF registry, modelVars
<1>1. ASSUME NEW r \in Requests, Start(r), j # created + 1 PROVE Same(j)
  BY <1>1 DEF Start, TypeOK
<1>2. ASSUME NEW k \in Jobs, Task(k) PROVE Same(j) \/ (Relaunched(j)' /\ \E failed \in BOOLEAN : Relaunch(j, failed))
  <2>1. ASSUME NEW failed \in BOOLEAN, Relaunch(k, failed), j # k PROVE Same(j)
    BY <2>1 DEF Relaunch, TypeOK
  <2>2. ASSUME NEW failed \in BOOLEAN, Relaunch(j, failed) PROVE Relaunched(j)'
    BY <2>2, RelaunchMarks
  <2>3. CASE req' = req /\ model' = model
    BY <2>3
  <2>4. CASE Briefed(k)
    <3>1. model'[j].tried = model[j].tried
      <4>1. CASE model' = model
        BY <4>1
      <4>2. CASE model' = [model EXCEPT ![k] = Commanded(k)]
        BY <4>2, CommandedFields
      <4> QED
        BY <2>4, <4>1, <4>2, Zenon DEF Briefed
    <3> QED
      BY <2>4, <3>1 DEF Briefed
  <2> QED
    BY <1>2, <2>1, <2>2, <2>3, <2>4
       DEF Task, BeginFree, BeginHolding, BeginParked, LaneGranted, SnapshotTaken, Spawned,
           GraceOver, Settle, HostChecked, Notified
<1>3. ASSUME NEW k \in Jobs, Output(k) PROVE Same(j)
  <2>1. ASSUME NEW f, NoteFailure(k, f) PROVE model'[j].tried = model[j].tried
    BY <2>1, NotedModels DEF NoteFailure
  <2>2. CASE TimedOut(k)
    BY <2>2, NotedModels DEF TimedOut
  <2> QED
    BY <1>3, <2>1, <2>2 DEF Output, ReadMarker, ReadText, ReadQuota, EndOfOutput
<1>4. ASSUME NEW a \in Agents, NEW m \in Switches, SwitchModel(a, m) PROVE Same(j)
  BY <1>4 DEF SwitchModel
<1>5. ASSUME NEW k \in Jobs, ProcessExits(k) \/ ProcessKilled(k) \/ Cancel(k) \/ Canceller(k)
      PROVE  Same(j)
  BY <1>5 DEF ProcessExits, ProcessKilled, Cancel, Canceller, CancelResumes, CancelReturns
<1>6. ASSUME Shutdown PROVE Same(j)
  BY <1>6 DEF Shutdown, ShutdownBegins, ShutdownWaits, ShutdownReturns, ShutdownTimesOut,
              ShutdownCancels, Aborted
<1>7. ASSUME UNCHANGED vars \/ Finished PROVE Same(j)
  BY <1>7 DEF Finished, vars
<1>8. Same(j) => req'[j] = req[j] /\ Relaunched(j)' = Relaunched(j)
  BY DEF Relaunched
<1> HIDE DEF Same
<1> QED
  BY <1>1, <1>2, <1>3, <1>4, <1>5, <1>6, <1>7, <1>8 DEF Next

\* On a job's first launch, _launch_done is set when its process is registered:
\* a call that returned, or is killing, has seen the only process there will be.
ReapedJob(j) ==
    /\ pc[j] = "absent" => ~Relaunched(j)
    /\ ~Relaunched(j) =>
         /\ launchDone[j] => pc[j] \notin {"absent", "queued", "parked"} \cup Launching
         /\ proc[j] # "none" => launchDone[j]
         /\ canceller[j] \in {"killing", "returned"} => launchDone[j]
         /\ canceller[j] = "killing" => proc[j] # "alive"
         /\ canceller[j] = "returned" => ~Live(j)
ReapInv == \A j \in Jobs : ReapedJob(j)

\* A call of cancel(), whatever its caller.
LEMMA CallReaps ==
    ASSUME TypeOK, ReapInv, NEW j \in Jobs, NEW k \in Jobs, CancelCall(k),
           UNCHANGED <<pc, launchDone, model>>
    PROVE  ReapedJob(j)'
<1> USE DEF TypeOK, ReapInv, ReapedJob, Live
<1>0. Relaunched(j)' = Relaunched(j)
  BY DEF Relaunched
<1>1. CASE j = k
  BY <1>0, <1>1 DEF CancelCall, CancelWait, Terminate
<1>2. CASE j # k
  BY <1>0, <1>2 DEF CancelCall, Terminate
<1> QED
  BY <1>1, <1>2

LEMMA ReapNext ==
    ASSUME TypeOK, LaneInv, ReapInv, [Next]_vars, NEW j \in Jobs
    PROVE  ReapedJob(j)'
<1> USE DEF TypeOK, registry, taskVars, ReapInv, ReapedJob, Live, Launching
<1>a. ASSUME NEW r \in Requests, Start(r), j = created + 1 PROVE ReapedJob(j)'
  <2>1. pc[j] = "absent"
    BY <1>a, JobsAssumption DEF LaneInv, JobsInOrder, Jobs
  <2> QED
    BY <1>a, <2>1, AcceptedFresh DEF Start
<1>b. ASSUME NEW failed \in BOOLEAN, Relaunch(j, failed), Relaunched(j)' PROVE ReapedJob(j)'
  BY <1>b DEF Relaunch
<1> SUFFICES ASSUME Relaunched(j)' = Relaunched(j) PROVE ReapedJob(j)'
  BY <1>a, <1>b, SameJob
<1>1. ASSUME NEW r \in Requests, Start(r), j # created + 1 PROVE ReapedJob(j)'
  BY <1>1 DEF Start
<1>2. ASSUME NEW a \in Agents, NEW m \in Switches, SwitchModel(a, m) PROVE ReapedJob(j)'
  BY <1>2 DEF SwitchModel
<1>3. ASSUME NEW k \in Jobs, Task(k) PROVE ReapedJob(j)'
  <2>1. CASE BeginFree(k) \/ BeginHolding(k) \/ BeginParked(k) \/ LaneGranted(k)
    BY <2>1 DEF BeginFree, BeginHolding, BeginParked, LaneGranted
  <2>2. CASE SnapshotTaken(k) \/ HostChecked(k)
    BY <2>2 DEF SnapshotTaken, HostChecked
  <2>3. CASE Briefed(k)
    BY <2>3 DEF Briefed, FailFast
  <2>4. CASE Spawned(k)
    <3>1. CASE FailFast(k)
      BY <2>4, <3>1 DEF Spawned, FailFast
    <3>2. CASE j = k /\ ~FailFast(k)
      BY <2>4, <3>2 DEF Spawned, LaunchOver
    <3>3. CASE j # k
      BY <2>4, <3>3 DEF Spawned, FailFast, LaunchOver
    <3> QED
      BY <3>1, <3>2, <3>3
  <2>5. CASE GraceOver(k)
    BY <2>5 DEF GraceOver, Terminate
  <2>6. ASSUME NEW failed \in BOOLEAN, Settle(k, failed) PROVE ReapedJob(j)'
    BY <2>6 DEF Settle
  <2>7. CASE Notified(k)
    BY <2>7 DEF Notified, LaunchOver
  <2>8. ASSUME NEW failed \in BOOLEAN, Relaunch(k, failed), j # k PROVE ReapedJob(j)'
    BY <2>8 DEF Relaunch
  <2>9. ASSUME NEW failed \in BOOLEAN, Relaunch(j, failed) PROVE Relaunched(j)'
    BY <2>9, RelaunchMarks
  <2> QED
    BY <1>3, <2>1, <2>2, <2>3, <2>4, <2>5, <2>6, <2>7, <2>8, <2>9, <1>b DEF Task
<1>4. ASSUME NEW k \in Jobs, Output(k) PROVE ReapedJob(j)'
  BY <1>4 DEF Output, ReadMarker, ReadText, ReadQuota, EndOfOutput, TimedOut, Terminate
<1>5. ASSUME NEW k \in Jobs, ProcessExits(k) \/ ProcessKilled(k) PROVE ReapedJob(j)'
  BY <1>5 DEF ProcessExits, ProcessKilled
<1>6. ASSUME NEW k \in Jobs, Cancel(k) \/ Canceller(k) PROVE ReapedJob(j)'
  <2>1. CASE Cancel(k)
    BY <2>1, CallReaps DEF Cancel, modelVars
  <2>2. CASE CancelResumes(k)
    BY <2>2 DEF CancelResumes, Terminate
  <2>3. CASE CancelReturns(k)
    BY <2>3 DEF CancelReturns
  <2> QED
    BY <1>6, <2>1, <2>2, <2>3 DEF Canceller
<1>7. CASE Shutdown
  <2>1. ASSUME NEW k \in Jobs, ShutdownCancels(k) PROVE ReapedJob(j)'
    <3>1. CASE CancelCall(k)
      BY <2>1, <3>1, CallReaps DEF ShutdownCancels, modelVars
    <3>2. CASE UNCHANGED <<status, proc, canceller>>
      BY <2>1, <3>2 DEF ShutdownCancels
    <3> QED
      BY <2>1, <3>1, <3>2 DEF ShutdownCancels
  <2>2. ASSUME NEW k \in Jobs, Aborted(k) PROVE ReapedJob(j)'
    BY <2>2 DEF Aborted, Over
  <2> QED
    BY <1>7, <2>1, <2>2 DEF Shutdown, ShutdownBegins, ShutdownWaits, ShutdownReturns,
                            ShutdownTimesOut
<1>8. CASE UNCHANGED vars \/ Finished
  BY <1>8 DEF Finished, vars
<1> QED
  BY <1>a, <1>1, <1>2, <1>3, <1>4, <1>5, <1>6, <1>7, <1>8 DEF Next

\* Whatever its agent and its chain: once a cancel() has returned, the job has a
\* process only if a failover relaunched it.
THEOREM CancelsReapLaunches == Spec => []OnlyRelaunchEscapes
<1>1. Init => ReapInv
  BY DEF Init, ReapInv, ReapedJob, Live, Launching, Relaunched, FreshModel
<1>2. TypeOK /\ LaneInv /\ ReapInv /\ [Next]_vars => ReapInv'
  BY ReapNext DEF ReapInv
<1>3. ReapInv => OnlyRelaunchEscapes
  BY DEF ReapInv, ReapedJob, OnlyRelaunchEscapes
<1> QED
  BY <1>1, <1>2, <1>3, TypeCorrect, LaneInit, LaneNext, PTL DEF Spec

\* Without chains nothing is ever relaunched.
NoChains == \A a \in Agents : Chain[a] = <<>>

NoneRelaunched == \A j \in Jobs : ~Relaunched(j)

LEMMA NeverRelaunched ==
    ASSUME NoChains, TypeOK, NEW j \in Jobs, NEW failed
    PROVE  ~Relaunch(j, failed)
<1>1. ChainOf(j) = <<>>
  BY RequestFields DEF TypeOK, ChainOf, NoChains
<1>2. Untried(j) = {}
  BY <1>1 DEF Untried
<1> QED
  BY <1>2 DEF Relaunch, NextModel

LEMMA FirstLaunchOnly ==
    ASSUME NoChains
    PROVE  Spec => []NoneRelaunched
<1>1. Init => NoneRelaunched
  BY DEF Init, NoneRelaunched, Relaunched, FreshModel
<1>2. TypeOK /\ NoneRelaunched /\ [Next]_vars => NoneRelaunched'
  <2> SUFFICES ASSUME TypeOK, NoneRelaunched, [Next]_vars, NEW j \in Jobs PROVE ~Relaunched(j)'
    BY DEF NoneRelaunched
  <2>1. ASSUME NEW r \in Requests, Start(r), j = created + 1 PROVE ~Relaunched(j)'
    BY <2>1, AcceptedFresh
  <2> QED
    BY <2>1, SameJob, NeverRelaunched DEF NoneRelaunched
<1> QED
  BY <1>1, <1>2, TypeCorrect, PTL DEF Spec

\* So there the process a cancel() was to stop is gone for good when it returns.
THEOREM CancelsReap ==
    ASSUME NoChains
    PROVE  Spec => []CancelReaps
<1>1. OnlyRelaunchEscapes /\ NoneRelaunched => CancelReaps
  BY DEF OnlyRelaunchEscapes, NoneRelaunched, CancelReaps
<1> QED
  BY <1>1, CancelsReapLaunches, FirstLaunchOnly, PTL

-----------------------------------------------------------------------------
(* No plain job is forgotten, and what shutdown() leaves.                   *)

\* A plain job was one from its start on.
LEMMA PlainBefore ==
    ASSUME TypeOK, [Next]_vars, NEW j \in Jobs, Plain(j)'
    PROVE  (j = created + 1 /\ \E r \in Requests : Start(r)) \/ Plain(j)
BY SameJob DEF Plain

LEMMA PlainOutsideLanes == \A j \in Jobs : Plain(j) => ~UsesLane(j)
BY DEF Plain, UsesLane

KeptJob(j) ==
    Plain(j) =>
      /\ pc[j] \in {"queued", "running"} \cup Launching => status[j] \in Active \cup {"cancelled"}
      /\ pc[j] # "parked"
      /\ status[j] \in Active => j \in kept
KeptInv == \A j \in Jobs : KeptJob(j)

LEMMA TrimKeepsActive ==
    TypeOK /\ KeptInv => \A j \in Jobs : Plain(j) /\ status[j] \in Active => j \in Trim
BY DEF Trim, Forgettable, ActiveJobs, KeptInv, KeptJob

LEMMA KeptNext ==
    ASSUME TypeOK, LaneInv, KeptInv, [Next]_vars, NEW j \in Jobs
    PROVE  KeptJob(j)'
<1> USE DEF TypeOK, registry, taskVars, KeptInv, KeptJob, Launching, Active, Terminal
<1>a. ASSUME NEW r \in Requests, Start(r), j = created + 1 PROVE KeptJob(j)'
  BY <1>a DEF Start
<1> SUFFICES ASSUME Plain(j)', Plain(j) PROVE KeptJob(j)'
  BY <1>a, PlainBefore
<1>b. ~UsesLane(j)
  BY PlainOutsideLanes
<1>1. ASSUME NEW r \in Requests, Start(r), j # created + 1 PROVE KeptJob(j)'
  BY <1>1 DEF Start
<1>2. ASSUME NEW a \in Agents, NEW m \in Switches, SwitchModel(a, m) PROVE KeptJob(j)'
  BY <1>2 DEF SwitchModel
<1>3. ASSUME NEW k \in Jobs, Task(k) PROVE KeptJob(j)'
  <2>1. CASE BeginHolding(k) \/ BeginParked(k) \/ LaneGranted(k)
    <3>1. k # j
      BY <1>b, <2>1 DEF BeginHolding, BeginParked, LaneGranted
    <3> QED
      BY <2>1, <3>1 DEF BeginHolding, BeginParked, LaneGranted
  <2>2. CASE BeginFree(k) \/ SnapshotTaken(k) \/ HostChecked(k) \/ GraceOver(k) \/ Notified(k)
    BY <2>2 DEF BeginFree, SnapshotTaken, HostChecked, GraceOver, Notified
  <2>3. CASE Briefed(k) \/ Spawned(k)
    BY <2>3 DEF Briefed, Spawned, FailFast
  <2>4. ASSUME NEW failed \in BOOLEAN, Settle(k, failed) PROVE KeptJob(j)'
    <3>1. SettledStatus(k, failed) \in Terminal
      BY SettledStatusType
    <3> QED
      BY <2>4, <3>1, TrimKeepsActive DEF Settle
  <2>5. ASSUME NEW failed \in BOOLEAN, Relaunch(k, failed) PROVE KeptJob(j)'
    <3>1. k # j
      BY <2>5, RelaunchMarks DEF Plain
    <3> QED
      BY <2>5, <3>1, TrimKeepsActive DEF Relaunch
  <2> QED
    BY <1>3, <2>1, <2>2, <2>3, <2>4, <2>5 DEF Task
<1>4. ASSUME NEW k \in Jobs, Output(k) PROVE KeptJob(j)'
  <2>1. ASSUME NEW s \in Reports, NEW f, ReadMarker(k, s, f) PROVE KeptJob(j)'
    <3>1. s \in Active \cup Terminal /\ req[j].agent \notin SessionAgents
      BY OutputAssumption DEF Plain
    <3> QED
      BY <2>1, <3>1 DEF ReadMarker, Apply
  <2>2. ASSUME NEW s \in (Reports \ Terminal) \cup {"none"}, NEW f, ReadText(k, s, f)
        PROVE  KeptJob(j)'
    <3>1. s \in Active \cup {"none"}
      BY OutputAssumption
    <3> QED
      BY <2>2, <3>1 DEF ReadText, Apply
  <2> QED
    BY <1>4, <2>1, <2>2 DEF Output, ReadQuota, EndOfOutput, TimedOut
<1>5. ASSUME NEW k \in Jobs, ProcessExits(k) \/ ProcessKilled(k) PROVE KeptJob(j)'
  BY <1>5 DEF ProcessExits, ProcessKilled
<1>6. ASSUME NEW k \in Jobs, Cancel(k) \/ Canceller(k) PROVE KeptJob(j)'
  BY <1>6 DEF Cancel, CancelCall, Canceller, CancelResumes, CancelReturns
<1>7. CASE Shutdown
  BY <1>7 DEF Shutdown, ShutdownBegins, ShutdownWaits, ShutdownReturns, ShutdownTimesOut,
              Aborted, ShutdownCancels, CancelCall
<1>8. CASE UNCHANGED vars \/ Finished
  BY <1>8 DEF Finished, vars
<1> QED
  BY <1>a, <1>1, <1>2, <1>3, <1>4, <1>5, <1>6, <1>7, <1>8 DEF Next

LEMMA KeptInit == Init => KeptInv
BY DEF Init, KeptInv, KeptJob, Launching, Active

\* No job is forgotten while it is active, unless it is a session agent's or
\* was relaunched.
THEOREM ActiveJobsAreKept == Spec => []ActiveIsKept
<1>1. TypeOK /\ LaneInv /\ KeptInv /\ [Next]_vars => KeptInv'
  BY KeptNext DEF KeptInv
<1>2. KeptInv => ActiveIsKept
  BY DEF KeptInv, KeptJob, ActiveIsKept
<1> QED
  BY <1>1, <1>2, KeptInit, TypeCorrect, LaneInit, LaneNext, PTL DEF Spec

\* When shutdown() waits for the launch tasks, every cancel() it gathers has begun.
LeftJob(j) == shutdown \in {"waiting", "aborting", "done"} => stopping[j] # "call"
LeftInv == \A j \in Jobs : LeftJob(j)

LEMMA LeftInit == Init => LeftInv
BY DEF Init, LeftInv, LeftJob

LEMMA LeftNext ==
    ASSUME TypeOK, LeftInv, [Next]_vars, NEW j \in Jobs
    PROVE  LeftJob(j)'
<1> USE DEF TypeOK, registry, taskVars, stopVars, LeftInv, LeftJob
<1>1. ASSUME NEW r \in Requests, Start(r) PROVE LeftJob(j)'
  BY <1>1 DEF Start
<1>2. ASSUME NEW a \in Agents, NEW m \in Switches, SwitchModel(a, m) PROVE LeftJob(j)'
  BY <1>2 DEF SwitchModel
<1>3. ASSUME NEW k \in Jobs, Task(k) \/ Output(k) PROVE LeftJob(j)'
  BY <1>3 DEF Task, BeginFree, BeginHolding, BeginParked, LaneGranted, SnapshotTaken, Briefed,
              Spawned, GraceOver, Relaunch, Settle, HostChecked, Notified, Output, ReadMarker,
              ReadText, ReadQuota, EndOfOutput, TimedOut
<1>4. ASSUME NEW k \in Jobs, ProcessExits(k) \/ ProcessKilled(k) \/ Cancel(k) \/ Canceller(k)
      PROVE  LeftJob(j)'
  BY <1>4 DEF ProcessExits, ProcessKilled, Cancel, Canceller, CancelResumes, CancelReturns
<1>5. CASE Shutdown
  BY <1>5 DEF Shutdown, ShutdownBegins, ShutdownWaits, ShutdownReturns, ShutdownTimesOut,
              ShutdownCancels, Aborted
<1>6. CASE UNCHANGED vars \/ Finished
  BY <1>6 DEF Finished, vars
<1> QED
  BY <1>1, <1>2, <1>3, <1>4, <1>5, <1>6 DEF Next

\* What shutdown() relies on: a job is cancelled by a call of cancel() only, and the
\* plain jobs that are active once it has begun are those it has yet to cancel, and
\* those started since.
StoppedJob(j) ==
    /\ pc[j] # "absent" => status[j] # "none"
    /\ status[j] = "cancelled" => canceller[j] # "idle"
    /\ Plain(j) /\ shutdown # "no" /\ status[j] \in Active => stopping[j] \in {"call", "late"}
StopInv == \A j \in Jobs : StoppedJob(j)

LEMMA NoProcessYet ==
    ASSUME TypeOK, LaneInv, NEW j \in Jobs
    PROVE  /\ j = created + 1 => pc[j] = "absent"
           /\ pc[j] \in {"absent", "queued", "parked"} \cup Launching => proc[j] = "none"
<1>1. created \in Nat /\ j \in Nat
  BY JobsAssumption DEF TypeOK, Jobs
<1> QED
  BY <1>1 DEF LaneInv, JobsInOrder, ProcessOwned, Streaming, Launching

LEMMA StopNext ==
    ASSUME TypeOK, KeptInv, StopInv, [Next]_vars, NEW j \in Jobs
    PROVE  StoppedJob(j)'
<1> USE DEF TypeOK, registry, taskVars, stopVars, StopInv, StoppedJob, Launching, Active
<1>a. ASSUME NEW r \in Requests, Start(r), j = created + 1 PROVE StoppedJob(j)'
  BY <1>a DEF Start
<1>b. Plain(j)' => Plain(j) \/ (j = created + 1 /\ \E r \in Requests : Start(r))
  BY PlainBefore
<1>c. Plain(j) => ~UsesLane(j)
  BY PlainOutsideLanes
<1>1. ASSUME NEW r \in Requests, Start(r), j # created + 1 PROVE StoppedJob(j)'
  BY <1>1, <1>b DEF Start
<1> SUFFICES ASSUME Plain(j)' => Plain(j) PROVE StoppedJob(j)'
  BY <1>a, <1>b, <1>1
<1>2. ASSUME NEW a \in Agents, NEW m \in Switches, SwitchModel(a, m) PROVE StoppedJob(j)'
  BY <1>2 DEF SwitchModel
<1>3. ASSUME NEW k \in Jobs, Task(k) PROVE StoppedJob(j)'
  <2>1. CASE BeginHolding(k) \/ BeginParked(k) \/ LaneGranted(k)
    BY <1>c, <2>1 DEF BeginHolding, BeginParked, LaneGranted
  <2>2. CASE BeginFree(k) \/ SnapshotTaken(k) \/ HostChecked(k) \/ GraceOver(k) \/ Notified(k)
    BY <2>2 DEF BeginFree, SnapshotTaken, HostChecked, GraceOver, Notified
  <2>3. CASE Briefed(k)
    BY <2>3 DEF Briefed, FailFast
  <2>4. CASE Spawned(k)
    <3>1. Plain(k) => status[k] \in Active \cup {"cancelled"}
      BY <2>4 DEF Spawned, KeptInv, KeptJob
    <3> QED
      BY <2>4, <3>1 DEF Spawned, FailFast
  <2>5. ASSUME NEW failed \in BOOLEAN, Settle(k, failed) PROVE StoppedJob(j)'
    <3>1. SettledStatus(k, failed) \in Terminal
      BY SettledStatusType
    <3>2. SettledStatus(k, failed) = "cancelled" => status[k] = "cancelled"
      BY DEF SettledStatus
    <3> QED
      BY <2>5, <3>1, <3>2 DEF Settle, Terminal
  <2>6. ASSUME NEW failed \in BOOLEAN, Relaunch(k, failed) PROVE StoppedJob(j)'
    <3>1. k = j => ~Plain(j)'
      BY <2>6, RelaunchMarks DEF Plain
    <3> QED
      BY <2>6, <3>1 DEF Relaunch
  <2> QED
    BY <1>3, <2>1, <2>2, <2>3, <2>4, <2>5, <2>6 DEF Task
<1>4. ASSUME NEW k \in Jobs, Output(k) PROVE StoppedJob(j)'
  <2>1. Plain(k) /\ pc[k] = "running" => status[k] \in Active \cup {"cancelled"}
    BY DEF KeptInv, KeptJob
  <2>2. ASSUME NEW s \in Reports, NEW f, ReadMarker(k, s, f) PROVE StoppedJob(j)'
    <3>1. s \in Active \cup {"done", "failed"}
      BY OutputAssumption
    <3> QED
      BY <2>1, <2>2, <3>1 DEF ReadMarker, Apply
  <2>3. ASSUME NEW s \in (Reports \ Terminal) \cup {"none"}, NEW f, ReadText(k, s, f)
        PROVE  StoppedJob(j)'
    <3>1. s \in Active \cup {"none"}
      BY OutputAssumption DEF Terminal
    <3> QED
      BY <2>1, <2>3, <3>1 DEF ReadText, Apply
  <2>4. CASE ReadQuota(k) \/ EndOfOutput(k) \/ TimedOut(k)
    BY <2>4 DEF ReadQuota, EndOfOutput, TimedOut
  <2> QED
    BY <1>4, <2>2, <2>3, <2>4 DEF Output
<1>5. ASSUME NEW k \in Jobs, ProcessExits(k) \/ ProcessKilled(k) PROVE StoppedJob(j)'
  BY <1>5 DEF ProcessExits, ProcessKilled
<1>6. ASSUME NEW k \in Jobs, Cancel(k) \/ Canceller(k) PROVE StoppedJob(j)'
  BY <1>6 DEF Cancel, CancelCall, CancelWait, Canceller, CancelResumes, CancelReturns
<1>7. CASE Shutdown
  <2>1. CASE ShutdownBegins
    BY <2>1 DEF ShutdownBegins, ToCancel, ActiveJobs, KeptInv, KeptJob
  <2>2. CASE ShutdownWaits \/ ShutdownReturns \/ ShutdownTimesOut
    BY <2>2 DEF ShutdownWaits, ShutdownReturns, ShutdownTimesOut
  <2>3. ASSUME NEW k \in Jobs, ShutdownCancels(k) PROVE StoppedJob(j)'
    <3>1. CASE CancelCall(k) /\ stopping' = [stopping EXCEPT ![k] = "wait"]
      BY <2>3, <3>1 DEF ShutdownCancels, CancelCall, CancelWait
    <3>2. CASE k \notin ActiveJobs /\ stopping' = [stopping EXCEPT ![k] = "no"]
               /\ UNCHANGED <<status, proc, canceller>>
      BY <2>3, <3>2 DEF ShutdownCancels, ActiveJobs, KeptInv, KeptJob
    <3> QED
      BY <2>3, <3>1, <3>2 DEF ShutdownCancels
  <2>4. ASSUME NEW k \in Jobs, Aborted(k) PROVE StoppedJob(j)'
    BY <2>4 DEF Aborted, Over
  <2> QED
    BY <1>7, <2>1, <2>2, <2>3, <2>4 DEF Shutdown
<1>8. CASE UNCHANGED vars \/ Finished
  BY <1>8 DEF Finished, vars
<1> QED
  BY <1>2, <1>3, <1>4, <1>5, <1>6, <1>7, <1>8, <1>a, <1>1 DEF Next

\* Whatever the agents, chains and interleavings: a process that shutdown() leaves
\* behind is a failover's relaunch, one that another cancel() is still at, or one of
\* a job that nobody asked to stop, of the three kinds Unasked names.
THEOREM ShutdownsReap == Spec => []ShutdownReaps
<1>1. Init => ReapInv /\ StopInv
  BY DEF Init, ReapInv, ReapedJob, StopInv, StoppedJob, Live, Launching, Active, Relaunched,
         FreshModel
<1>2. TypeOK /\ LaneInv /\ ReapInv /\ [Next]_vars => ReapInv'
  BY ReapNext DEF ReapInv
<1>3. TypeOK /\ LaneInv /\ KeptInv /\ [Next]_vars => KeptInv'
  BY KeptNext DEF KeptInv
<1>4. TypeOK /\ LeftInv /\ [Next]_vars => LeftInv'
  BY LeftNext DEF LeftInv
<1>5. TypeOK /\ KeptInv /\ StopInv /\ [Next]_vars => StopInv'
  BY StopNext DEF StopInv
<1>6. TypeOK /\ LaneInv /\ ReapInv /\ LeftInv /\ StopInv => ShutdownReaps
  <2> SUFFICES ASSUME TypeOK, LaneInv, ReapInv, LeftInv, StopInv, shutdown = "done",
                      NEW j \in Jobs, Live(j), ~Relaunched(j),
                      canceller[j] \notin {"launching", "killing"}
               PROVE  Unasked(j)
    BY DEF ShutdownReaps
  <2>1. canceller[j] = "idle"
    BY DEF ReapInv, ReapedJob, TypeOK
  <2>2. pc[j] # "absent"
    BY DEF LaneInv, ProcessOwned, Live, Streaming
  <2>3. status[j] \in Active \cup {"done", "failed"}
    BY <2>1, <2>2 DEF StopInv, StoppedJob, TypeOK, Terminal
  <2>4. CASE status[j] \in Active /\ req[j].agent \notin SessionAgents
    BY <2>1, <2>4 DEF StopInv, StoppedJob, LeftInv, LeftJob, Plain, Unasked
  <2> QED
    BY <2>1, <2>3, <2>4 DEF Unasked
<1> QED
  BY <1>1, <1>2, <1>3, <1>4, <1>5, <1>6, KeptInit, LeftInit, TypeCorrect, LaneInit, LaneNext, PTL
     DEF Spec

-----------------------------------------------------------------------------
(* What cancel() has seen to when it returns.                               *)

\* A process that cancel() has signalled is the last one of a job outside the
\* lanes: the job is cancelled while it has it, and gets no other.  While cancel()
\* waits for the launch of such a job, the cancel stands or the launch has failed.
CalledJob(j) ==
    /\ pc[j] = "absent" => canceller[j] = "idle" /\ status[j] = "none"
    /\ ~UsesLane(j) /\ canceller[j] = "launching" /\ status[j] # "cancelled"
         => proc[j] = "none" /\ pc[j] \in {"notifying", "ended", "cut"}
    /\ ~UsesLane(j) /\ canceller[j] = "killing" =>
         /\ proc[j] # "alive" /\ pc[j] \notin {"queued", "parked"} \cup Launching
         /\ proc[j] # "none" => status[j] = "cancelled"
CalledInv == \A j \in Jobs : CalledJob(j)

LEMMA CallOfCancel ==
    ASSUME TypeOK, LaneInv, CalledInv, NEW j \in Jobs, NEW k \in Jobs, k \in ActiveJobs,
           CancelCall(k), UNCHANGED <<pc, req>>
    PROVE  CalledJob(j)'
<1> USE DEF TypeOK, CalledInv, CalledJob, UsesLane
<1>1. proc[k] # "none" => pc[k] \in Streaming \cup {"aborted"}
  BY DEF LaneInv, ProcessOwned
<1>2. pc[k] # "absent"
  BY DEF ActiveJobs, Active
<1>3. CASE j = k
  BY <1>1, <1>2, <1>3 DEF CancelCall, CancelWait, Terminate, Streaming, Launching
<1>4. CASE j # k
  BY <1>4 DEF CancelCall, Terminate
<1> QED
  BY <1>3, <1>4

LEMMA CalledNext ==
    ASSUME TypeOK, LaneInv, CalledInv, [Next]_vars, NEW j \in Jobs
    PROVE  CalledJob(j)'
<1> USE DEF TypeOK, registry, taskVars, CalledInv, CalledJob, UsesLane, Launching
<1>1. ASSUME NEW r \in Requests, Start(r) PROVE CalledJob(j)'
  <2>1. j = created + 1 => pc[j] = "absent" /\ proc[j] = "none"
    BY NoProcessYet
  <2> QED
    BY <1>1, <2>1 DEF Start
<1>2. ASSUME NEW a \in Agents, NEW m \in Switches, SwitchModel(a, m) PROVE CalledJob(j)'
  BY <1>2 DEF SwitchModel
<1>3. ASSUME NEW k \in Jobs, Task(k) PROVE CalledJob(j)'
  <2>1. CASE BeginFree(k) \/ BeginHolding(k) \/ BeginParked(k) \/ LaneGranted(k)
    BY <2>1 DEF BeginFree, BeginHolding, BeginParked, LaneGranted
  <2>2. CASE SnapshotTaken(k) \/ HostChecked(k) \/ Notified(k)
    BY <2>2 DEF SnapshotTaken, HostChecked, Notified
  <2>3. CASE Briefed(k) \/ Spawned(k)
    <3>1. pc[k] \in Launching => proc[k] = "none"
      BY NoProcessYet
    <3> QED
      BY <2>3, <3>1 DEF Briefed, Spawned, FailFast
  <2>4. CASE GraceOver(k)
    BY <2>4 DEF GraceOver, Terminate
  <2>5. ASSUME NEW failed \in BOOLEAN, Settle(k, failed) PROVE CalledJob(j)'
    BY <2>5, SettlementKeepsCancel DEF Settle
  <2>6. ASSUME NEW failed \in BOOLEAN, Relaunch(k, failed) PROVE CalledJob(j)'
    <3>1. status[k] # "cancelled"
      BY <2>6, SettlementKeepsCancel DEF Relaunch
    <3> QED
      BY <2>6, <3>1 DEF Relaunch
  <2> QED
    BY <1>3, <2>1, <2>2, <2>3, <2>4, <2>5, <2>6 DEF Task
<1>4. ASSUME NEW k \in Jobs, Output(k) PROVE CalledJob(j)'
  BY <1>4 DEF Output, ReadMarker, ReadText, ReadQuota, EndOfOutput, TimedOut, Terminate, Apply
<1>5. ASSUME NEW k \in Jobs, ProcessExits(k) \/ ProcessKilled(k) PROVE CalledJob(j)'
  BY <1>5 DEF ProcessExits, ProcessKilled
<1>6. ASSUME NEW k \in Jobs, Cancel(k) \/ Canceller(k) PROVE CalledJob(j)'
  <2>1. CASE Cancel(k)
    BY <2>1, CallOfCancel DEF Cancel, Cancellable
  <2>2. CASE CancelResumes(k)
    <3>1. proc[k] # "none" => pc[k] \in Streaming \cup {"aborted"}
      BY DEF LaneInv, ProcessOwned
    <3> QED
      BY <2>2, <3>1 DEF CancelResumes, Terminate, Streaming
  <2>3. CASE CancelReturns(k)
    BY <2>3 DEF CancelReturns
  <2> QED
    BY <1>6, <2>1, <2>2, <2>3 DEF Canceller
<1>7. CASE Shutdown
  <2>1. ASSUME NEW k \in Jobs, ShutdownCancels(k) PROVE CalledJob(j)'
    <3>1. CASE CancelCall(k) /\ k \in ActiveJobs
      BY <2>1, <3>1, CallOfCancel DEF ShutdownCancels
    <3>2. CASE UNCHANGED <<status, proc, canceller>>
      BY <2>1, <3>2 DEF ShutdownCancels
    <3> QED
      BY <2>1, <3>1, <3>2 DEF ShutdownCancels
  <2>2. ASSUME NEW k \in Jobs, Aborted(k) PROVE CalledJob(j)'
    BY <2>2 DEF Aborted, Over
  <2> QED
    BY <1>7, <2>1, <2>2 DEF Shutdown, ShutdownBegins, ShutdownWaits, ShutdownReturns,
                            ShutdownTimesOut
<1>8. CASE UNCHANGED vars \/ Finished
  BY <1>8 DEF Finished, vars
<1> QED
  BY <1>1, <1>2, <1>3, <1>4, <1>5, <1>6, <1>7, <1>8 DEF Next

\* When cancel() returns, a process of the job is one that a failover has put in
\* the place of the one the cancel was to stop: which befalls a lane's job only,
\* whose cancel was taken back by the lane.
LeavesBehind(j) ==
    canceller[j] # "returned" /\ canceller'[j] = "returned" /\ Live(j)'
      => UsesLane(j) /\ Relaunched(j)'
ReturnIsReaped == [][\A j \in Jobs : LeavesBehind(j)]_vars

LEMMA ReturnsReaped ==
    ASSUME TypeOK, LaneInv, CalledInv, [Next]_vars, NEW j \in Jobs,
           canceller[j] # "returned", canceller'[j] = "returned", ~UsesLane(j)
    PROVE  ~Live(j)'
<1> USE DEF TypeOK, Live, registry, taskVars
<1>1. ASSUME NEW k \in Jobs, CancelCall(k), UNCHANGED pc PROVE ~Live(j)'
  BY <1>1 DEF CancelCall, CancelWait, Terminate
<1>2. ASSUME NEW k \in Jobs, Canceller(k) PROVE ~Live(j)'
  <2>1. CASE CancelResumes(k)
    BY <1>2, <2>1 DEF CancelResumes, Terminate
  <2>2. CASE CancelReturns(k)
    BY <1>2, <2>2 DEF CancelReturns, CalledInv, CalledJob
  <2> QED
    BY <1>2, <2>1, <2>2 DEF Canceller
<1>3. ASSUME UNCHANGED canceller PROVE FALSE
  BY <1>3
<1>4. ASSUME NEW k \in Jobs, Task(k) \/ Output(k) PROVE UNCHANGED canceller
  BY <1>4 DEF Task, BeginFree, BeginHolding, BeginParked, LaneGranted, SnapshotTaken, Briefed,
              Spawned, GraceOver, Relaunch, Settle, HostChecked, Notified, Output, ReadMarker,
              ReadText, ReadQuota, EndOfOutput, TimedOut
<1>5. ASSUME NEW r \in Requests, Start(r) PROVE UNCHANGED canceller
  BY <1>5 DEF Start
<1>6. ASSUME NEW a \in Agents, NEW m \in Switches, SwitchModel(a, m) PROVE UNCHANGED canceller
  BY <1>6 DEF SwitchModel
<1>7. ASSUME NEW k \in Jobs, ProcessExits(k) \/ ProcessKilled(k) PROVE UNCHANGED canceller
  BY <1>7 DEF ProcessExits, ProcessKilled
<1>8. ASSUME NEW k \in Jobs, Cancel(k) PROVE ~Live(j)'
  BY <1>1, <1>8 DEF Cancel
<1>9. CASE Shutdown
  BY <1>1, <1>3, <1>9 DEF Shutdown, ShutdownBegins, ShutdownWaits, ShutdownReturns,
                          ShutdownTimesOut, Aborted, ShutdownCancels
<1>10. CASE UNCHANGED vars \/ Finished
  BY <1>3, <1>10 DEF Finished, vars
<1> QED
  BY <1>2, <1>3, <1>4, <1>5, <1>6, <1>7, <1>8, <1>9, <1>10 DEF Next

\* For every bridge: no process survives the return of the cancel() that was to stop
\* it, whatever the agent prints, and whatever chain it has, outside the lanes.  So
\* what OnlyRelaunchEscapes lets pass is a process spawned after the return.
THEOREM ReturnsAreReaped == Spec => ReturnIsReaped
<1>1. Init => ReapInv /\ CalledInv
  BY DEF Init, ReapInv, ReapedJob, CalledInv, CalledJob, Live, Launching, Relaunched, FreshModel
<1>2. TypeOK /\ LaneInv /\ ReapInv /\ [Next]_vars => ReapInv'
  BY ReapNext DEF ReapInv
<1>3. TypeOK /\ LaneInv /\ CalledInv /\ [Next]_vars => CalledInv'
  BY CalledNext DEF CalledInv
<1>4. TypeOK /\ LaneInv /\ CalledInv /\ ReapInv' /\ [Next]_vars => [\A j \in Jobs : LeavesBehind(j)]_vars
  <2> SUFFICES ASSUME TypeOK, LaneInv, CalledInv, ReapInv', [Next]_vars, NEW j \in Jobs,
                      canceller[j] # "returned", canceller'[j] = "returned", Live(j)'
               PROVE  UsesLane(j) /\ Relaunched(j)'
    BY DEF LeavesBehind
  <2>1. Relaunched(j)'
    BY DEF ReapInv, ReapedJob
  <2> QED
    BY <2>1, ReturnsReaped
<1> QED
  BY <1>1, <1>2, <1>3, <1>4, TypeCorrect, LaneInit, LaneNext, PTL DEF Spec, ReturnIsReaped

-----------------------------------------------------------------------------
(* Which outcomes and cancels that show are taken back.                     *)

Decided(j) == status[j] \in {"done", "failed"}

\* No outcome shows before a job's output is read, nor while it is read, unless
\* the reader goes on after a terminal marker.
DecidedLateJob(j) ==
    /\ pc[j] \in {"absent", "queued", "parked"} \cup Launching => ~Decided(j)
    /\ pc[j] = "running" /\ req[j].agent \notin SessionAgents => ~Decided(j)
DecidedLate == \A j \in Jobs : DecidedLateJob(j)

\* An outcome that shows changes by a failover, or by what a session agent prints
\* after its terminal marker.
TakenBack(j) ==
    Decided(j) /\ status'[j] # status[j] =>
      \/ status[j] = "failed" /\ \E failed \in BOOLEAN : Relaunch(j, failed)
      \/ req[j].agent \in SessionAgents /\ pc[j] = "running"
OutcomeTakenBack == [][\A j \in Jobs : TakenBack(j)]_vars

LEMMA DecidedNext ==
    ASSUME TypeOK, LaneInv, DecidedLate, [Next]_vars, NEW j \in Jobs
    PROVE  DecidedLateJob(j)' /\ TakenBack(j)
<1> DEFINE Goal == DecidedLateJob(j)' /\ TakenBack(j)
<1> USE DEF TypeOK, registry, taskVars, DecidedLate, DecidedLateJob, TakenBack, Decided,
            Launching, Active, Terminal
<1>1. ASSUME NEW r \in Requests, Start(r) PROVE Goal
  <2>1. j = created + 1 => pc[j] = "absent"
    BY NoProcessYet
  <2> QED
    BY <1>1, <2>1 DEF Start
<1>2. ASSUME NEW a \in Agents, NEW m \in Switches, SwitchModel(a, m) PROVE Goal
  BY <1>2 DEF SwitchModel
<1>3. ASSUME NEW k \in Jobs, Task(k) PROVE Goal
  <2>1. CASE BeginHolding(k) \/ BeginParked(k) \/ LaneGranted(k)
    BY <2>1 DEF BeginHolding, BeginParked, LaneGranted
  <2>2. CASE BeginFree(k) \/ SnapshotTaken(k) \/ HostChecked(k) \/ GraceOver(k) \/ Notified(k)
    BY <2>2 DEF BeginFree, SnapshotTaken, HostChecked, GraceOver, Notified
  <2>3. CASE Briefed(k) \/ Spawned(k)
    BY <2>3 DEF Briefed, Spawned, FailFast
  <2>4. ASSUME NEW failed \in BOOLEAN, Settle(k, failed) PROVE Goal
    <3>1. Decided(k) => SettledStatus(k, failed) = status[k]
      BY DEF SettledStatus
    <3>2. SettledStatus(k, failed) \in Terminal
      BY SettledStatusType
    <3> QED
      BY <2>4, <3>1, <3>2 DEF Settle
  <2>5. ASSUME NEW failed \in BOOLEAN, Relaunch(k, failed) PROVE Goal
    <3>1. NextModel(k, SettledStatus(k, failed)) # NoModel
      BY <2>5 DEF Relaunch
    <3>2. SettledStatus(k, failed) = "failed"
      BY <3>1 DEF NextModel
    <3>3. status[k] # "done"
      BY <3>2 DEF SettledStatus
    <3>4. status'[k] = "running" /\ pc'[k] = "snapshot" /\ req' = req
          /\ \A i \in Jobs : i # k => status'[i] = status[i] /\ pc'[i] = pc[i]
      BY <2>5 DEF Relaunch
    <3> QED
      BY <2>5, <3>3, <3>4
  <2> QED
    BY <1>3, <2>1, <2>2, <2>3, <2>4, <2>5 DEF Task
<1>4. ASSUME NEW k \in Jobs, Output(k) PROVE Goal
  <2>1. ASSUME NEW s \in Reports, NEW f, ReadMarker(k, s, f) PROVE Goal
    <3>1. s \in Active \cup Terminal
      BY OutputAssumption
    <3> QED
      BY <2>1, <3>1 DEF ReadMarker, Apply
  <2>2. ASSUME NEW s \in (Reports \ Terminal) \cup {"none"}, NEW f, ReadText(k, s, f)
        PROVE  Goal
    <3>1. s \in Active \cup {"none"}
      BY OutputAssumption
    <3> QED
      BY <2>2, <3>1 DEF ReadText, Apply
  <2> QED
    BY <1>4, <2>1, <2>2 DEF Output, ReadQuota, EndOfOutput, TimedOut
<1>5. ASSUME NEW k \in Jobs, ProcessExits(k) \/ ProcessKilled(k) PROVE Goal
  BY <1>5 DEF ProcessExits, ProcessKilled
<1>6. ASSUME NEW k \in Jobs, Cancel(k) \/ Canceller(k) PROVE Goal
  BY <1>6 DEF Cancel, Cancellable, ActiveJobs, CancelCall, Canceller, CancelResumes,
              CancelReturns
<1>7. CASE Shutdown
  BY <1>7 DEF Shutdown, ShutdownBegins, ShutdownWaits, ShutdownReturns, ShutdownTimesOut,
              Aborted, ShutdownCancels, CancelCall, ActiveJobs
<1>8. CASE UNCHANGED vars \/ Finished
  BY <1>8 DEF Finished, vars
<1> QED
  BY <1>1, <1>2, <1>3, <1>4, <1>5, <1>6, <1>7, <1>8 DEF Next

\* No outcome that shows is taken back, but by a failover that relaunches a failed
\* job and by what a session agent prints after its terminal marker: a cancel, an
\* exit code and the end of the launch leave it alone (agent_bridge.py:2057-2064, 2416-2436).
THEOREM ShownOutcomesStand == Spec => OutcomeTakenBack
<1>1. Init => DecidedLate
  BY DEF Init, DecidedLate, DecidedLateJob, Decided
<1>2. TypeOK /\ LaneInv /\ DecidedLate /\ [Next]_vars
        => DecidedLate' /\ \A j \in Jobs : TakenBack(j)
  BY DecidedNext DEF DecidedLate
<1> QED
  BY <1>1, <1>2, TypeCorrect, LaneInit, LaneNext, PTL DEF Spec, OutcomeTakenBack

\* So where no agent has a chain or resumes a session, a failure that shows is final.
THEOREM FailuresAreFinal ==
    ASSUME NoChains, SessionAgents = {}
    PROVE  Spec => FailureSeenIsFinal
<1>1. TypeOK /\ (\A j \in Jobs : TakenBack(j))
        => \A j \in Jobs : status[j] = "failed" => status'[j] = "failed"
  BY NeverRelaunched DEF TakenBack, Decided
<1> QED
  BY <1>1, TypeCorrect, ShownOutcomesStand, PTL DEF OutcomeTakenBack, FailureSeenIsFinal

LEMMA OverwrittenBefore ==
    ASSUME TypeOK, LaneInv, CalledInv, [Next]_vars, NEW j \in Jobs
    PROVE  CancelOverwritten(j)
<1> USE DEF TypeOK, registry, taskVars, CancelOverwritten
<1>1. ASSUME NEW r \in Requests, Start(r) PROVE CancelOverwritten(j)
  <2>1. j = created + 1 => status[j] = "none"
    BY NoProcessYet DEF CalledInv, CalledJob
  <2> QED
    BY <1>1, <2>1 DEF Start
<1>2. ASSUME NEW a \in Agents, NEW m \in Switches, SwitchModel(a, m) PROVE CancelOverwritten(j)
  BY <1>2 DEF SwitchModel
<1>3. ASSUME NEW k \in Jobs, Task(k) PROVE CancelOverwritten(j)
  <2>1. CASE BeginFree(k) \/ BeginHolding(k) \/ LaneGranted(k) \/ SnapshotTaken(k)
    BY <2>1 DEF BeginFree, BeginHolding, LaneGranted, SnapshotTaken
  <2>2. CASE BeginParked(k)
    <3>1. holder[req[k].agent] = NoJob \/ j # k => UNCHANGED status[j]
      BY <2>2 DEF BeginParked
    <3> QED
      BY <2>2, <3>1
  <2>3. CASE Briefed(k) \/ Spawned(k)
    <3>1. FailFast(k) \/ UNCHANGED status[j] \/ status[j] # "cancelled"
      BY <2>3 DEF Briefed, Spawned
    <3>2. j # k => UNCHANGED status[j]
      BY <2>3 DEF Briefed, Spawned, FailFast
    <3>3. pc[k] \in {"briefing", "spawning"}
      BY <2>3 DEF Briefed, Spawned
    <3> QED
      BY <3>1, <3>2, <3>3
  <2>4. CASE GraceOver(k) \/ HostChecked(k) \/ Notified(k)
    BY <2>4 DEF GraceOver, HostChecked, Notified
  <2>5. ASSUME NEW failed \in BOOLEAN, Relaunch(k, failed) \/ Settle(k, failed)
        PROVE  CancelOverwritten(j)
    BY <2>5, SettlementKeepsCancel DEF Relaunch, Settle
  <2> QED
    BY <1>3, <2>1, <2>2, <2>3, <2>4, <2>5 DEF Task
<1>4. ASSUME NEW k \in Jobs, Output(k) PROVE CancelOverwritten(j)
  BY <1>4 DEF Output, ReadMarker, ReadText, ReadQuota, EndOfOutput, TimedOut, Apply
<1>5. ASSUME NEW k \in Jobs, ProcessExits(k) \/ ProcessKilled(k) PROVE CancelOverwritten(j)
  BY <1>5 DEF ProcessExits, ProcessKilled
<1>6. ASSUME NEW k \in Jobs, Cancel(k) \/ Canceller(k) PROVE CancelOverwritten(j)
  BY <1>6 DEF Cancel, CancelCall, Canceller, CancelResumes, CancelReturns
<1>7. CASE Shutdown
  BY <1>7 DEF Shutdown, ShutdownBegins, ShutdownWaits, ShutdownReturns, ShutdownTimesOut,
              Aborted, ShutdownCancels, CancelCall
<1>8. CASE UNCHANGED vars \/ Finished
  BY <1>8 DEF Finished, vars
<1> QED
  BY <1>1, <1>2, <1>3, <1>4, <1>5, <1>6, <1>7, <1>8 DEF Next

\* The same of cancels, for every bridge and every job: what is cancelled
\* stays so, but where a held lane shows the turn as waiting (agent_bridge.py:1567) and
\* where the launch fails (_fail_fast, agent_bridge.py:2039), both before a process.
THEOREM CancelsStandButTwice == Spec => CancelTakenBack
<1>1. Init => CalledInv
  BY DEF Init, CalledInv, CalledJob
<1>2. TypeOK /\ LaneInv /\ CalledInv /\ [Next]_vars => CalledInv' /\ \A j \in Jobs : CancelOverwritten(j)
  BY CalledNext, OverwrittenBefore DEF CalledInv
<1> QED
  BY <1>1, <1>2, TypeCorrect, LaneInit, LaneNext, PTL DEF Spec, CancelTakenBack

-----------------------------------------------------------------------------
(* Nobody waits for what cannot come.                                       *)

WaitJob(j) ==
    /\ pc[j] = "ended" => launchDone[j]
    /\ pc[j] \in {"aborted", "cut"} => shutdown \in {"aborting", "done"}
    /\ pc[j] = "parked" => UsesLane(j)
    /\ stopping[j] = "wait" => canceller[j] # "idle"
WaitInv == \A j \in Jobs : WaitJob(j)

\* The part of CancelAnswered, EveryJobReported and ShutdownReturned that needs no
\* fairness: until shutdown() gives up, a cancel() that waits for a launch has its flag
\* set or a task that will set it, a parked turn is in the queue of a lane that is
\* free or whose holder's task will free it, and each call that shutdown() gathers
\* has been made.
NoVainWait ==
    \A j \in Jobs :
        /\ canceller[j] = "launching" /\ ~launchDone[j]
             => ~Over(j) \/ shutdown \in {"aborting", "done"}
        /\ stopping[j] = "wait" => canceller[j] # "idle"
        /\ pc[j] = "parked" => LET a == req[j].agent IN
               /\ a \in SessionAgents
               /\ \E i \in DOMAIN waiters[a] : waiters[a][i] = j
               /\ holder[a] # NoJob => ~Over(holder[a])

LEMMA WaitNext ==
    ASSUME TypeOK, LaneInv, WaitInv, [Next]_vars, NEW j \in Jobs
    PROVE  WaitJob(j)'
<1> USE DEF TypeOK, registry, taskVars, stopVars, WaitInv, WaitJob, UsesLane
<1>1. ASSUME NEW r \in Requests, Start(r) PROVE WaitJob(j)'
  BY <1>1 DEF Start
<1>2. ASSUME NEW a \in Agents, NEW m \in Switches, SwitchModel(a, m) PROVE WaitJob(j)'
  BY <1>2 DEF SwitchModel
<1>3. ASSUME NEW k \in Jobs, Task(k) PROVE WaitJob(j)'
  <2>1. CASE BeginFree(k) \/ BeginHolding(k) \/ BeginParked(k) \/ LaneGranted(k)
    BY <2>1 DEF BeginFree, BeginHolding, BeginParked, LaneGranted
  <2>2. CASE SnapshotTaken(k) \/ HostChecked(k) \/ GraceOver(k)
    BY <2>2 DEF SnapshotTaken, HostChecked, GraceOver
  <2>3. CASE Briefed(k)
    BY <2>3 DEF Briefed, FailFast
  <2>4. CASE Spawned(k)
    BY <2>4 DEF Spawned, FailFast, LaunchOver
  <2>5. ASSUME NEW failed \in BOOLEAN, Relaunch(k, failed) \/ Settle(k, failed)
        PROVE  WaitJob(j)'
    BY <2>5 DEF Relaunch, Settle
  <2>6. CASE Notified(k)
    BY <2>6 DEF Notified, LaunchOver
  <2> QED
    BY <1>3, <2>1, <2>2, <2>3, <2>4, <2>5, <2>6 DEF Task
<1>4. ASSUME NEW k \in Jobs, Output(k) PROVE WaitJob(j)'
  BY <1>4 DEF Output, ReadMarker, ReadText, ReadQuota, EndOfOutput, TimedOut
<1>5. ASSUME NEW k \in Jobs, ProcessExits(k) \/ ProcessKilled(k) PROVE WaitJob(j)'
  BY <1>5 DEF ProcessExits, ProcessKilled
<1>6. ASSUME NEW k \in Jobs, Cancel(k) \/ Canceller(k) PROVE WaitJob(j)'
  BY <1>6 DEF Cancel, CancelCall, CancelWait, Canceller, CancelResumes, CancelReturns
<1>7. CASE Shutdown
  BY <1>7 DEF Shutdown, ShutdownBegins, ShutdownWaits, ShutdownReturns, ShutdownTimesOut,
              Aborted, Doomed, Over, ShutdownCancels, CancelCall, CancelWait
<1>8. CASE UNCHANGED vars \/ Finished
  BY <1>8 DEF Finished, vars
<1> QED
  BY <1>1, <1>2, <1>3, <1>4, <1>5, <1>6, <1>7, <1>8 DEF Next

\* For every bridge: no cancel(), turn of a lane or shutdown() waits for a task, a
\* lane or a call that is already over, or was never made.
THEOREM NobodyWaitsInVain == Spec => []NoVainWait
<1>1. Init => CalledInv /\ WaitInv
  BY DEF Init, CalledInv, CalledJob, WaitInv, WaitJob
<1>2. TypeOK /\ LaneInv /\ CalledInv /\ [Next]_vars => CalledInv'
  BY CalledNext DEF CalledInv
<1>3. TypeOK /\ LaneInv /\ WaitInv /\ [Next]_vars => WaitInv'
  BY WaitNext DEF WaitInv
<1>4. TypeOK /\ LaneInv /\ CalledInv /\ LaneConsistent /\ WaitInv => NoVainWait
  <2> SUFFICES ASSUME TypeOK, LaneInv, CalledInv, LaneConsistent, WaitInv, NEW j \in Jobs
               PROVE  NoVainWait!(j)
    BY DEF NoVainWait
  <2>1. canceller[j] = "launching" /\ ~launchDone[j]
          => ~Over(j) \/ shutdown \in {"aborting", "done"}
    BY DEF CalledInv, CalledJob, WaitInv, WaitJob, Over
  <2>2. stopping[j] = "wait" => canceller[j] # "idle"
    BY DEF WaitInv, WaitJob
  <2>3. ASSUME pc[j] = "parked", NEW a, a = req[j].agent
        PROVE  /\ a \in SessionAgents
               /\ \E i \in DOMAIN waiters[a] : waiters[a][i] = j
               /\ holder[a] # NoJob => ~Over(holder[a])
    <3>1. a \in SessionAgents
      BY <2>3 DEF WaitInv, WaitJob, UsesLane
    <3>2. \E i \in DOMAIN waiters[a] : waiters[a][i] = j
      BY <2>3, <3>1 DEF LaneConsistent
    <3>3. holder[a] # NoJob => ~Over(holder[a])
      BY <3>1 DEF LaneConsistent, Over, Launching, Streaming, Reporting
    <3> QED
      BY <3>1, <3>2, <3>3
  <2> QED
    BY <2>1, <2>2, <2>3
<1> QED
  BY <1>1, <1>2, <1>3, <1>4, TypeCorrect, LaneInit, LaneNext, LanesAreConsistent, PTL DEF Spec
=============================================================================
