------------------------- MODULE ControlPlaneProofs -------------------------
(***************************************************************************)
(* Proofs about ControlPlane, for any agents, callers and numbers of jobs  *)
(* and processes: one self-check at a time, no leaked reservation, no lost *)
(* outcome, and nothing untrue shown of an agent.                          *)
(***************************************************************************)
EXTENDS ControlPlane, FiniteSetTheorems, WellFoundedInduction, TLAPS

-----------------------------------------------------------------------------
(* Helpers.                                                                 *)

Less == {ss \in Nat \X Nat : ss[1] < ss[2]}

\* The oldest of some jobs is one of them.
LEMMA OldestType ==
    ASSUME NEW S, S \subseteq Jobs
    PROVE  IF S = {} THEN Oldest(S) = NoJob ELSE Oldest(S) \in S
<1>1. ASSUME S # {} PROVE \E i \in S : \A k \in S : i <= k
  <2>1. IsWellFoundedOn(Less, Nat)
    BY NatLessThanWellFounded DEF OpToRel, Less
  <2>2. S \subseteq Nat
    BY DEF Jobs
  <2>3. PICK i \in S : \A k \in S : <<k, i>> \notin Less
    BY <1>1, <2>1, <2>2, WFMin
  <2>4. ASSUME NEW k \in S PROVE i <= k
    <3>1. ~ (k < i)
      BY <2>2, <2>3 DEF Less
    <3> QED
      BY <2>2, <3>1
  <2> QED
    BY <2>4
<1> QED
  BY <1>1 DEF Oldest

LEMMA JobTypes ==
    ASSUME TypeOK, NEW j \in Jobs
    PROVE  /\ job[j] \in JobRecords /\ job[j].agent \in Agents \cup {NoAgent}
           /\ job[j].check \in BOOLEAN
           /\ job[j].status \in {"none", "running", "claimed", "over", "lost"}
BY DEF TypeOK, JobRecords

LEMMA ObsTypes ==
    ASSUME TypeOK, NEW a \in Agents
    PROVE  /\ obs[a].response \in Responses /\ obs[a].work \in Jobs \cup {NoJob}
           /\ obs[a].absent \in BOOLEAN
BY DEF TypeOK, Observations

\* Which jobs a probe may find.
Found(a) == {j \in Jobs : job[j].agent = a /\ job[j].status \in {"running", "claimed"}}

LEMMA ProbeFinds ==
    ASSUME TypeOK, NEW a \in Agents, ProbeReads(a)
    PROVE  \E j \in Found(a) \cup {NoJob, Missing} : seen' = [seen EXCEPT ![a] = j]
<1>1. PICK j \in {Oldest(S) : S \in ActiveSets(a)} \cup {Missing} : seen' = [seen EXCEPT ![a] = j]
  BY DEF ProbeReads
<1>2. \A S \in ActiveSets(a) : S \subseteq Found(a)
  BY DEF ActiveSets, Found
<1>3. \A S \in ActiveSets(a) : Oldest(S) \in Found(a) \cup {NoJob}
  <2> SUFFICES ASSUME NEW S \in ActiveSets(a) PROVE Oldest(S) \in Found(a) \cup {NoJob}
    OBVIOUS
  <2>1. S \subseteq Found(a) /\ S \subseteq Jobs
    BY <1>2 DEF Found
  <2> QED
    BY <2>1, OldestType
<1>4. j \in Found(a) \cup {NoJob, Missing}
  BY <1>1, <1>3
<1> QED
  BY <1>1, <1>4

\* A job that starts, and one that moves on.
Starts(j, a, check, status) ==
    /\ job[j].status = "none"
    /\ job'[j].agent = a /\ job'[j].check = check /\ job'[j].status = status
    /\ \A i \in Jobs : i # j => job'[i] = job[i]

Moves(j, status) ==
    /\ Alive(j)
    /\ job'[j].agent = job[j].agent /\ job'[j].check = job[j].check /\ job'[j].status = status
    /\ \A i \in Jobs : i # j => job'[i] = job[i]

LEMMA NewJobFacts ==
    ASSUME TypeOK, NEW j \in Jobs, NEW a \in Agents, NEW check \in BOOLEAN,
           NEW status \in {"running", "over"}, NewJob(j, a, check, status)
    PROVE  job' \in [Jobs -> JobRecords] /\ Starts(j, a, check, status)
<1> DEFINE new == [agent |-> a, check |-> check, status |-> status]
<1>1. new \in JobRecords /\ new.agent = a /\ new.check = check /\ new.status = status
  BY DEF JobRecords
<1>2. job' = [job EXCEPT ![j] = new] /\ job[j].status = "none" /\ job \in [Jobs -> JobRecords]
  BY DEF NewJob, TypeOK
<1> HIDE DEF new
<1> QED
  BY <1>1, <1>2 DEF Starts

LEMMA MovesFacts ==
    ASSUME TypeOK, NEW j \in Jobs, Alive(j), NEW status \in {"claimed", "over"},
           job' = [job EXCEPT ![j].status = status]
    PROVE  job' \in [Jobs -> JobRecords] /\ Moves(j, status)
BY JobTypes DEF TypeOK, Moves, JobRecords

LEMMA EmitFacts ==
    ASSUME TypeOK, NEW j \in Jobs, NEW says \in {"running"} \cup Ends, Emit(j, says)
    PROVE  /\ queue' \in Seq(Events)
           /\ queue' = Append(queue, [job |-> j, says |-> says])
BY DEF Emit, TypeOK, Events

\* What is recorded of agent a, whether or not it is there.
Records(a, response, work) == \E absent \in BOOLEAN : Observe(a, response, work, absent)

LEMMA ResponseRecords ==
    ASSUME TypeOK, NEW a \in Agents, NEW response, NEW work, RecordResponse(a, response, work)
    PROVE  Records(a, response, work)
BY ObsTypes DEF RecordResponse, Records

LEMMA ObserveFacts ==
    ASSUME TypeOK, NEW a \in Agents, NEW response \in Responses, NEW work \in Jobs \cup {NoJob},
           Records(a, response, work)
    PROVE  /\ obs' \in [Agents -> Observations] /\ newer' \in [Agents -> BOOLEAN]
           /\ obs'[a].response = response /\ obs'[a].work = work
           /\ newer'[a] = (probe[a] = "read")
           /\ \A b \in Agents : b # a => obs'[b] = obs[b] /\ newer'[b] = newer[b]
<1>0. PICK absent \in BOOLEAN : Observe(a, response, work, absent)
  BY DEF Records
<1> DEFINE new == [response |-> response, work |-> work, absent |-> absent]
<1>1. new \in Observations /\ new.response = response /\ new.work = work
  BY DEF Observations
<1>2. obs' = [obs EXCEPT ![a] = new] /\ obs \in [Agents -> Observations]
  BY <1>0 DEF Observe, TypeOK
<1>3. newer' = [newer EXCEPT ![a] = (probe[a] = "read")] /\ newer \in [Agents -> BOOLEAN]
  BY <1>0 DEF Observe, TypeOK
<1> HIDE DEF new
<1> QED
  BY <1>1, <1>2, <1>3

\* What a probe that was not overtaken records.
LEMMA ObservedFacts ==
    ASSUME TypeOK, NEW a \in Agents
    PROVE  /\ Observed(a) \in Observations /\ Observed(a).response = obs[a].response
           /\ Observed(a).work = IF seen[a] \in Jobs THEN seen[a] ELSE NoJob
BY ObsTypes DEF Observed, Kept, Observations

LEMMA ProbeRecordsFacts ==
    ASSUME TypeOK, NEW a \in Agents, ProbeRecords(a)
    PROVE  /\ obs' \in [Agents -> Observations]
           /\ ProbeEnds(a, "fit") \/ ProbeEnds(a, "unfit")
           /\ \A b \in Agents : obs'[b].response = obs[b].response /\ (b # a => obs'[b] = obs[b])
           /\ \/ obs'[a] = obs[a]
              \/ ~newer[a] /\ obs'[a].work = IF seen[a] \in Jobs THEN seen[a] ELSE NoJob
<1>1. /\ Observed(a) \in Observations /\ Observed(a).response = obs[a].response
      /\ Observed(a).work = IF seen[a] \in Jobs THEN seen[a] ELSE NoJob
  BY ObservedFacts
<1>2. obs' = IF newer[a] THEN obs ELSE [obs EXCEPT ![a] = Observed(a)]
  BY DEF ProbeRecords, Superseded
<1>3. ProbeEnds(a, "fit") \/ ProbeEnds(a, "unfit")
  BY DEF ProbeRecords
<1> QED
  BY <1>1, <1>2, <1>3 DEF TypeOK

\* What recording errors changes.
LEMMA ErrorsFacts ==
    ASSUME TypeOK, NEW S, RecordErrors(S)
    PROVE  /\ obs' \in [Agents -> Observations]
           /\ \A a \in Agents : obs'[a].response = obs[a].response /\ obs'[a].work = obs[a].work
<1> DEFINE new(a) == [obs[a] EXCEPT !.absent = @ /\ a \notin S]
<1>1. ASSUME NEW a \in Agents
      PROVE  /\ new(a) \in Observations
             /\ new(a).response = obs[a].response /\ new(a).work = obs[a].work
  BY ObsTypes DEF TypeOK, Observations
<1>2. obs' = [a \in Agents |-> new(a)]
  BY DEF RecordErrors
<1> HIDE DEF new
<1> QED
  BY <1>1, <1>2

\* Cancelling probes.
LEMMA StopFacts ==
    ASSUME TypeOK, NEW S, Stop(S)
    PROVE  /\ probe' \in [Agents -> {"none", "reading", "read", "stopping"}]
           /\ seen' \in [Agents -> Jobs \cup {NoJob, Missing}] /\ newer' \in [Agents -> BOOLEAN]
<1>1. /\ probe' = [a \in Agents |-> IF a \in S THEN "stopping" ELSE probe[a]]
      /\ \A a \in Agents : probe[a] \in {"none", "reading", "read", "stopping"}
  BY DEF Stop, TypeOK
<1>2. /\ seen' = [a \in Agents |-> IF a \in S THEN NoJob ELSE seen[a]]
      /\ \A a \in Agents : seen[a] \in Jobs \cup {NoJob, Missing}
  BY DEF Stop, TypeOK
<1>3. newer' = [a \in Agents |-> newer[a] /\ a \notin S]
  BY DEF Stop
<1>4. \A a \in Agents : (newer[a] /\ a \notin S) \in BOOLEAN
  OBVIOUS
<1>5. newer' \in [Agents -> BOOLEAN]
  BY <1>3, <1>4
<1> QED
  BY <1>1, <1>2, <1>5

\* A dispatch to an agent that was missing.
LEMMA LaunchesFacts ==
    ASSUME TypeOK, NEW a \in Agents, Launches(a)
    PROVE  /\ obs' \in [Agents -> Observations] /\ newer' \in [Agents -> BOOLEAN]
           /\ obs'[a].response = "unknown" /\ obs'[a].work = NoJob
           /\ newer'[a] = (probe[a] = "read")
           /\ \A b \in Agents : b # a => obs'[b] = obs[b] /\ newer'[b] = newer[b]
           /\ UNCHANGED <<probe, seen, watched, calling, checking, queue, run>>
           /\ \/ UNCHANGED job
              \/ \E j \in Jobs : /\ Starts(j, a, FALSE, "running")
                                 /\ job' \in [Jobs -> JobRecords]
<1>1. Records(a, "unknown", NoJob)
  BY DEF Launches, Records
<1>2. UNCHANGED job \/ \E j \in Jobs : NewJob(j, a, FALSE, "running")
  BY DEF Launches
<1>3. \/ UNCHANGED job
      \/ \E j \in Jobs : Starts(j, a, FALSE, "running") /\ job' \in [Jobs -> JobRecords]
  BY <1>2, NewJobFacts
<1>4. UNCHANGED <<probe, seen, watched, calling, checking, queue, run>>
  BY DEF Launches
<1> QED
  BY <1>1, <1>3, <1>4, ObserveFacts DEF Responses

\* The end of a probe.
LEMMA ProbeEndsFacts ==
    ASSUME TypeOK, NEW a \in Agents, NEW what \in {"fit", "unfit"}, ProbeEnds(a, what)
    PROVE  /\ probe' \in [Agents -> {"none", "reading", "read", "stopping"}]
           /\ seen' \in [Agents -> Jobs \cup {NoJob, Missing}] /\ newer' \in [Agents -> BOOLEAN]
           /\ watched' \subseteq Agents
           /\ told' \in [Callers -> {"nothing", "fit", "unfit"}]
           /\ UNCHANGED <<pc, target, held, checking, job, queue, run>>
           /\ probe'[a] = "none" /\ seen'[a] = NoJob
           /\ \A b \in Agents : b # a => /\ probe'[b] = probe[b] /\ seen'[b] = seen[b]
                                         /\ newer'[b] = newer[b]
BY DEF TypeOK, ProbeEnds, Awaits

\* What the outcomes and evidence of events are.
LEMMA OutcomeType == ASSUME NEW says PROVE Outcome(says) \in {"responded", "failed"}
BY DEF Outcome

LEMMA EndsOfType == ASSUME NEW check PROVE EndsOf(check) \subseteq Ends
BY DEF EndsOf

LEMMA EvidenceType ==
    ASSUME TypeOK, NEW a \in Agents, NEW says \in {"running"} \cup Ends
    PROVE  Evidence(a, says) \in Responses
           /\ (Evidence(a, says) \in {"responded", "failed"} \/ Evidence(a, says) = obs[a].response)
BY ObsTypes DEF Evidence, Responses, Ends, Done

LEMMA HeadTypes ==
    ASSUME TypeOK, queue # <<>>
    PROVE  /\ Head(queue) \in Events /\ Tail(queue) \in Seq(Events)
           /\ Head(queue).job \in Jobs /\ Head(queue).says \in {"running"} \cup Ends
<1>1. Head(queue) \in Events /\ Tail(queue) \in Seq(Events)
  BY DEF TypeOK
<1> QED
  BY <1>1 DEF Events

-----------------------------------------------------------------------------
(* Type correctness, and whose job it is.                                   *)

\* Jobs and requests have an agent, and what waits to be ingested is of a job.
Known ==
    /\ \A j \in Jobs : job[j].status # "none" => job[j].agent \in Agents
    /\ \A i \in 1 .. Len(queue) : job[queue[i].job].status # "none"
    /\ \A c \in Callers : pc[c] = "checking" => target[c] \in Agents

\* What no step but a restart does to a job.
KeepsJobs ==
    \A j \in Jobs :
       /\ job[j].status # "none" =>
            /\ job'[j].agent = job[j].agent /\ job'[j].check = job[j].check
            /\ job'[j].status # "none"
            /\ job'[j].status = "running" => job[j].status = "running"
            /\ job'[j].status = "lost" <=> job[j].status = "lost"
       /\ job[j].status = "none" =>
            /\ job'[j].status # "lost"
            /\ job'[j].status # "none" => job'[j].agent \in Agents

LEMMA StartsKeeps ==
    ASSUME TypeOK, NEW j \in Jobs, NEW a \in Agents, NEW check, NEW status \in {"running", "over"},
           Starts(j, a, check, status)
    PROVE  KeepsJobs
BY DEF KeepsJobs, Starts

LEMMA MovesKeeps ==
    ASSUME TypeOK, NEW j \in Jobs, NEW status \in {"claimed", "over"}, Moves(j, status)
    PROVE  KeepsJobs
BY DEF KeepsJobs, Moves, Alive

LEMMA SameKeeps == ASSUME job' = job PROVE KeepsJobs
BY DEF KeepsJobs

\* Known, when no event is taken off the queue.
LEMMA KnownStays ==
    ASSUME TypeOK, Known, KeepsJobs,
           \/ queue' = queue
           \/ \E j \in Jobs, s \in {"running"} \cup Ends :
                queue' = Append(queue, [job |-> j, says |-> s]) /\ job'[j].status # "none",
           \A c \in Callers : pc'[c] = "checking" =>
             target'[c] \in Agents \/ (pc[c] = "checking" /\ target'[c] = target[c])
    PROVE  Known'
<1>1. ASSUME NEW j \in Jobs, job'[j].status # "none" PROVE job'[j].agent \in Agents
  BY <1>1 DEF Known, KeepsJobs
<1>2. ASSUME NEW c \in Callers, pc'[c] = "checking" PROVE target'[c] \in Agents
  BY <1>2 DEF Known
<1>3. ASSUME NEW i \in 1 .. Len(queue) PROVE job'[queue[i].job].status # "none"
  <2>1. queue[i] \in Events
    BY DEF TypeOK
  <2>2. queue[i].job \in Jobs
    BY <2>1 DEF Events
  <2> QED
    BY <2>2 DEF Known, KeepsJobs
<1>4. \A i \in 1 .. Len(queue') : job'[queue'[i].job].status # "none"
  <2>1. CASE queue' = queue
    BY <1>3, <2>1
  <2>2. ASSUME NEW j \in Jobs, NEW s \in {"running"} \cup Ends,
               queue' = Append(queue, [job |-> j, says |-> s]), job'[j].status # "none"
        PROVE  \A i \in 1 .. Len(queue') : job'[queue'[i].job].status # "none"
    <3> DEFINE e == [job |-> j, says |-> s]
    <3>1. e \in Events /\ e.job = j
      BY DEF Events
    <3>2. queue' = Append(queue, e) /\ queue \in Seq(Events)
      BY <2>2 DEF TypeOK
    <3> HIDE DEF e
    <3>3. /\ Len(queue') = Len(queue) + 1 /\ queue'[Len(queue) + 1] = e
          /\ \A i \in 1 .. Len(queue) : queue'[i] = queue[i]
      BY <3>1, <3>2
    <3>4. ASSUME NEW i \in 1 .. Len(queue') PROVE job'[queue'[i].job].status # "none"
      <4>1. CASE i = Len(queue) + 1
        BY <2>2, <3>1, <3>3, <4>1
      <4>2. CASE i # Len(queue) + 1
        <5>1. i \in 1 .. Len(queue)
          BY <3>2, <3>3, <4>2
        <5> QED
          BY <1>3, <3>3, <5>1
      <4> QED
        BY <4>1, <4>2
    <3> QED
      BY <3>4
  <2> QED
    BY <2>1, <2>2
<1> QED
  BY <1>1, <1>2, <1>4 DEF Known

\* The events behind the head are of the same jobs.
LEMMA KnownTail ==
    ASSUME TypeOK, Known, queue # <<>>
    PROVE  /\ job[Head(queue).job].status # "none" /\ job[Head(queue).job].agent \in Agents
           /\ \A i \in 1 .. Len(Tail(queue)) : job[Tail(queue)[i].job].status # "none"
<1>1. Head(queue) = queue[1] /\ 1 \in 1 .. Len(queue)
  BY DEF TypeOK
<1>2. \A i \in 1 .. Len(Tail(queue)) : Tail(queue)[i] = queue[i + 1] /\ i + 1 \in 1 .. Len(queue)
  BY DEF TypeOK
<1> QED
  BY <1>1, <1>2, HeadTypes DEF Known

LEMMA TypeInit == Init => TypeOK /\ Known
<1> SUFFICES ASSUME Init PROVE TypeOK /\ Known
  OBVIOUS
<1>1. job \in [Jobs -> JobRecords] /\ \A j \in Jobs : job[j].status = "none"
  BY DEF Init, JobRecords
<1>2. obs \in [Agents -> Observations]
  BY DEF Init, NothingKnown, Observations, Responses
<1>3. queue \in Seq(Events) /\ Len(queue) = 0
  BY DEF Init
<1>5. run \in 1 .. MaxRuns
  BY PlaneAssumption DEF Init
<1>6. /\ probe \in [Agents -> {"none", "reading", "read", "stopping"}]
      /\ seen \in [Agents -> Jobs \cup {NoJob, Missing}] /\ newer \in [Agents -> BOOLEAN]
      /\ watched \subseteq Agents
  BY DEF Init
<1>7. /\ pc \in [Callers -> {"idle", "checking", "waiting"}]
      /\ target \in [Callers -> Agents \cup {NoAgent}]
      /\ told \in [Callers -> {"nothing", "fit", "unfit"}]
      /\ held \in [Callers -> Jobs \cup {NoJob}]
  BY DEF Init
<1>8. /\ reserved \subseteq Agents /\ checks \subseteq Jobs
      /\ waiter \in [Jobs -> {"none", "open", "responded", "failed"}]
  BY DEF Init
<1>4. TypeOK
  BY <1>1, <1>2, <1>3, <1>5, <1>6, <1>7, <1>8 DEF TypeOK
<1> QED
  BY <1>1, <1>3, <1>4 DEF Known, Init

\* Every step but a restart keeps jobs as they are, starts one or moves one on.
LEMMA JobsAreKept ==
    ASSUME TypeOK, Known, Next, ~Restart
    PROVE  KeepsJobs
<1>1. ASSUME NEW a \in Agents, ProbeStep(a) PROVE KeepsJobs
  BY <1>1, SameKeeps DEF ProbeStep, ProbeReads, ProbeRecords, ProbeFails, ProbeStops, ProbeEnds
<1>2. ASSUME NEW a \in Agents, UserJobStarts(a) PROVE KeepsJobs
  BY <1>2, NewJobFacts, StartsKeeps DEF UserJobStarts
<1>3. ASSUME NEW S \in SUBSET Agents, Look(S) \/ StopsLooking(S) PROVE KeepsJobs
  BY <1>3, SameKeeps DEF Look, StopsLooking
<1>4. ASSUME NEW c \in Callers, NEW a \in Agents, RequestCheck(c, a) PROVE KeepsJobs
  BY <1>4, SameKeeps DEF RequestCheck
<1>5. ASSUME NEW c \in Callers, CancelCheck(c) \/ StopsWaiting(c) PROVE KeepsJobs
  BY <1>5, SameKeeps DEF CancelCheck, StopsWaiting
<1>6. ASSUME NEW c \in Callers, CheckStarts(c) PROVE KeepsJobs
  <2>1. target[c] \in Agents
    BY <1>6 DEF CheckStarts, Known
  <2>2. PICK j \in Jobs : NewJob(j, target[c], TRUE, "running")
    BY <1>6 DEF CheckStarts
  <2> QED
    BY <2>1, <2>2, NewJobFacts, StartsKeeps
<1>7. ASSUME NEW c \in Callers, CheckNotStarted(c) PROVE KeepsJobs
  <2>1. target[c] \in Agents
    BY <1>7 DEF CheckNotStarted, Known
  <2>2. CASE job' = job
    BY <2>2, SameKeeps
  <2>3. ASSUME NEW j \in Jobs, NewJob(j, target[c], TRUE, "over") PROVE KeepsJobs
    BY <2>1, <2>3, NewJobFacts, StartsKeeps
  <2> QED
    BY <1>7, <2>2, <2>3 DEF CheckNotStarted
<1>8. ASSUME NEW c \in Callers, CheckGivenUp(c) PROVE KeepsJobs
  BY <1>8, SameKeeps DEF CheckGivenUp
<1>9. ASSUME NEW j \in Jobs, JobProgresses(j) \/ JobClaims(j) \/ JobEnds(j) PROVE KeepsJobs
  <2>1. CASE JobProgresses(j)
    BY <2>1, SameKeeps DEF JobProgresses
  <2>2. CASE JobClaims(j)
    BY <2>2, MovesFacts, MovesKeeps DEF JobClaims, Alive
  <2>3. CASE JobEnds(j)
    BY <2>3, MovesFacts, MovesKeeps DEF JobEnds
  <2> QED
    BY <1>9, <2>1, <2>2, <2>3
<1>10. ASSUME Ingest PROVE KeepsJobs
  BY <1>10, SameKeeps DEF Ingest
<1>11. ASSUME NEW a \in Agents, Launches(a) PROVE KeepsJobs
  BY <1>11, LaunchesFacts, SameKeeps, StartsKeeps
<1> QED
  BY <1>1, <1>2, <1>3, <1>4, <1>5, <1>6, <1>7, <1>8, <1>9, <1>10, <1>11 DEF Next, CheckStep

\* What an ingested event does, in the terms of the two kinds of events.
LEMMA IngestKinds ==
    ASSUME TypeOK, Known, Ingest
    PROVE  LET j == Head(queue).job
               says == Head(queue).says
               a == job[j].agent IN
             /\ queue # <<>> /\ queue' = Tail(queue)
             /\ UNCHANGED <<probe, seen, watched, calling, job, run>>
             /\ j \in Jobs /\ says \in {"running"} \cup Ends /\ a \in Agents
             /\ \/ j \in checks /\ says = "running" /\ Records(a, "pending", j) /\ UNCHANGED checking
                \/ /\ j \in checks /\ says # "running"
                   /\ checks' = checks \ {j} /\ reserved' = reserved \ {a}
                   /\ Records(a, Outcome(says), NoJob)
                   /\ waiter' = [waiter EXCEPT ![j] = Resolved(j, Outcome(says))]
                \/ /\ j \notin checks
                   /\ Records(a, Evidence(a, says), IF says = "running" THEN j ELSE NoJob)
                   /\ UNCHANGED checking
<1> DEFINE j == Head(queue).job
           says == Head(queue).says
<1>1. queue # <<>> /\ queue' = Tail(queue) /\ UNCHANGED <<probe, seen, watched, calling, job, run>>
  BY DEF Ingest
<1>2. j \in Jobs /\ says \in {"running"} \cup Ends /\ job[j].agent \in Agents
  BY <1>1, HeadTypes, KnownTail
<1>3. IngestCheckEvent(j, says) \/ IngestJobEvent(j, says)
  BY DEF Ingest
<1> HIDE DEF j, says
<1>4. \/ /\ j \in checks /\ says = "running"
         /\ RecordResponse(job[j].agent, "pending", j) /\ UNCHANGED checking
      \/ /\ j \in checks /\ says # "running"
         /\ checks' = checks \ {j} /\ reserved' = reserved \ {job[j].agent}
         /\ RecordResponse(job[j].agent, Outcome(says), NoJob)
         /\ waiter' = [waiter EXCEPT ![j] = Resolved(j, Outcome(says))]
      \/ /\ j \notin checks
         /\ Observe(job[j].agent, Evidence(job[j].agent, says),
                    IF says = "running" THEN j ELSE NoJob, FALSE)
         /\ UNCHANGED checking
  BY <1>3 DEF IngestCheckEvent, IngestJobEvent, OfCheck
<1>5. Records(job[j].agent, Evidence(job[j].agent, says), IF says = "running" THEN j ELSE NoJob)
        \/ j \in checks
  BY <1>4 DEF Records
<1> QED
  BY <1>1, <1>2, <1>4, <1>5, ResponseRecords DEF j, says

\* Starting a check.
LEMMA CheckStartsFacts ==
    ASSUME TypeOK, Known, NEW c \in Callers, CheckStarts(c)
    PROVE  \E j \in Jobs :
             LET a == target[c] IN
               /\ a \in Agents /\ pc[c] = "checking" /\ Starts(j, a, TRUE, "running")
               /\ job' \in [Jobs -> JobRecords]
               /\ checks' = checks \cup {j} /\ waiter' = [waiter EXCEPT ![j] = "open"]
               /\ Records(a, "pending", j) /\ held' = [held EXCEPT ![c] = j]
               /\ pc' = [pc EXCEPT ![c] = "waiting"] /\ target' = [target EXCEPT ![c] = NoAgent]
               /\ told' = [told EXCEPT ![c] = "nothing"]
               /\ UNCHANGED <<probe, seen, watched, reserved, queue, run>>
<1>1. pc[c] = "checking" /\ target[c] \in Agents
  BY DEF CheckStarts, Known
<1>2. PICK j \in Jobs : /\ NewJob(j, target[c], TRUE, "running")
                        /\ checks' = checks \cup {j} /\ waiter' = [waiter EXCEPT ![j] = "open"]
                        /\ RecordResponse(target[c], "pending", j)
                        /\ held' = [held EXCEPT ![c] = j]
  BY DEF CheckStarts
<1>3. job' \in [Jobs -> JobRecords] /\ Starts(j, target[c], TRUE, "running")
  BY <1>1, <1>2, NewJobFacts
<1> QED
  BY <1>1, <1>2, <1>3, ResponseRecords DEF CheckStarts

\* Leaving without a check.
LEMMA LeaveFacts ==
    ASSUME TypeOK, Known, NEW c \in Callers, CheckNotStarted(c) \/ CheckGivenUp(c)
    PROVE  /\ pc[c] = "checking" /\ target[c] \in Agents
           /\ reserved' = reserved \ {target[c]}
           /\ pc' = [pc EXCEPT ![c] = "idle"] /\ target' = [target EXCEPT ![c] = NoAgent]
           /\ told' = [told EXCEPT ![c] = "nothing"]
           /\ UNCHANGED <<held, checks, waiter, probe, seen, watched, run>>
           /\ \/ UNCHANGED <<job, queue>>
              \/ \E j \in Jobs : /\ Starts(j, target[c], TRUE, "over") /\ job' \in [Jobs -> JobRecords]
                                 /\ queue' = Append(queue, [job |-> j, says |-> "failed"])
           /\ UNCHANGED <<obs, newer>> \/ Records(target[c], "failed", NoJob)
<1>1. pc[c] = "checking" /\ target[c] \in Agents
  BY DEF CheckNotStarted, CheckGivenUp, Known
<1>2. CASE CheckGivenUp(c)
  BY <1>1, <1>2 DEF CheckGivenUp, Leave, GivesBack, probing
<1>3. CASE CheckNotStarted(c)
  <2>1. \/ UNCHANGED <<job, queue>>
        \/ \E j \in Jobs : NewJob(j, target[c], TRUE, "over") /\ Emit(j, "failed")
    BY <1>3 DEF CheckNotStarted
  <2>2. ASSUME NEW j \in Jobs, NewJob(j, target[c], TRUE, "over"), Emit(j, "failed")
        PROVE  /\ Starts(j, target[c], TRUE, "over") /\ job' \in [Jobs -> JobRecords]
               /\ queue' = Append(queue, [job |-> j, says |-> "failed"])
    BY <1>1, <2>2, NewJobFacts DEF Emit
  <2> QED
    BY <1>1, <1>3, <2>1, <2>2, ResponseRecords DEF CheckNotStarted, Leave, GivesBack
<1> QED
  BY <1>2, <1>3

LEMMA TypeStep == TypeOK /\ Known /\ [Next]_vars => TypeOK' /\ Known'
<1> SUFFICES ASSUME TypeOK, Known, [Next]_vars PROVE TypeOK' /\ Known'
  OBVIOUS
<1>1. CASE UNCHANGED vars
  BY <1>1 DEF TypeOK, Known, Alive, vars, probing, calling, checking
<1>2. CASE Restart
  <2>1. job' \in [Jobs -> JobRecords] /\ \A j \in Jobs : job'[j].agent = job[j].agent
                                        /\ (job'[j].status # "none" => job[j].status # "none")
    BY <1>2, JobTypes DEF Restart, JobRecords, TypeOK
  <2>2. obs' \in [Agents -> Observations]
    <3>1. NothingKnown \in [Agents -> Observations]
      BY DEF NothingKnown, Observations, Responses
    <3> QED
      BY <1>2, <3>1 DEF Restart, TypeOK
  <2>3. queue' \in Seq(Events) /\ Len(queue') = 0
    BY <1>2 DEF Restart
  <2>4. run' \in 1 .. MaxRuns
    BY <1>2, PlaneAssumption DEF Restart, TypeOK
  <2>5. TypeOK'
    BY <1>2, <2>1, <2>2, <2>3, <2>4 DEF Restart, TypeOK
  <2> QED
    BY <1>2, <2>1, <2>3, <2>5 DEF Restart, Known
<1>3. ASSUME Next, ~Restart PROVE TypeOK' /\ Known'
  <2>0. KeepsJobs
    BY <1>3, JobsAreKept
  <2>1. ASSUME NEW a \in Agents, ProbeStep(a) PROVE TypeOK' /\ Known'
    <3>1. CASE ProbeReads(a)
      <4>1. seen' \in [Agents -> Jobs \cup {NoJob, Missing}]
        BY <3>1, ProbeFinds DEF Found, TypeOK
      <4>2. TypeOK'
        BY <3>1, <4>1 DEF ProbeReads, TypeOK, calling, checking
      <4> QED
        BY <2>0, <3>1, <4>2, KnownStays DEF ProbeReads, calling
    <3>2. ASSUME NEW what \in {"fit", "unfit"}, ProbeEnds(a, what),
                 obs' \in [Agents -> Observations]
          PROVE  TypeOK' /\ Known'
      <4>1. TypeOK'
        BY <3>2, ProbeEndsFacts DEF TypeOK, checking
      <4> QED
        BY <2>0, <3>2, <4>1, KnownStays DEF ProbeEnds
    <3>3. CASE ProbeRecords(a)
      BY <3>2, <3>3, ProbeRecordsFacts
    <3>4. CASE ProbeFails(a) \/ ProbeStops(a)
      BY <3>2, <3>4, ErrorsFacts DEF ProbeFails, ProbeStops, TypeOK
    <3> QED
      BY <2>1, <3>1, <3>3, <3>4 DEF ProbeStep
  <2>2. ASSUME NEW a \in Agents, UserJobStarts(a) PROVE TypeOK' /\ Known'
    <3>1. job' \in [Jobs -> JobRecords]
      BY <2>2, NewJobFacts DEF UserJobStarts
    <3>2. TypeOK'
      BY <2>2, <3>1 DEF UserJobStarts, TypeOK, probing, calling, checking
    <3> QED
      BY <2>0, <2>2, <3>2, KnownStays DEF UserJobStarts, calling
  <2>3. ASSUME NEW S \in SUBSET Agents, Look(S) \/ StopsLooking(S) PROVE TypeOK' /\ Known'
    <3>1. obs' \in [Agents -> Observations]
      BY <2>3, ErrorsFacts DEF Look, StopsLooking, TypeOK
    <3>2. /\ probe' \in [Agents -> {"none", "reading", "read", "stopping"}]
          /\ seen' \in [Agents -> Jobs \cup {NoJob, Missing}] /\ newer' \in [Agents -> BOOLEAN]
          /\ watched' \subseteq Agents
      <4>1. CASE Look(S)
        BY <4>1 DEF Look, Refresh, TypeOK
      <4>2. CASE StopsLooking(S)
        BY <4>2, StopFacts DEF StopsLooking, TypeOK
      <4> QED
        BY <2>3, <4>1, <4>2
    <3>3. TypeOK'
      BY <2>3, <3>1, <3>2 DEF Look, StopsLooking, TypeOK, calling, checking
    <3> QED
      BY <2>0, <2>3, <3>3, KnownStays DEF Look, StopsLooking, calling
  <2>4. ASSUME NEW c \in Callers, NEW a \in Agents, RequestCheck(c, a) PROVE TypeOK' /\ Known'
    <3>1. TypeOK'
      BY <2>4 DEF RequestCheck, Refresh, TypeOK
    <3> QED
      BY <2>0, <2>4, <3>1, KnownStays DEF RequestCheck, TypeOK
  <2>5. ASSUME NEW c \in Callers, CancelCheck(c) \/ StopsWaiting(c) PROVE TypeOK' /\ Known'
    <3>1. TypeOK'
      <4>1. CASE StopsWaiting(c)
        BY <4>1 DEF StopsWaiting, TypeOK, probing
      <4>2. CASE CancelCheck(c)
        <5>1. UNCHANGED <<watched, pc, target, held, checking, obs, job, queue, run>>
          BY <4>2 DEF CancelCheck
        <5>2. /\ probe' \in [Agents -> {"none", "reading", "read", "stopping"}]
              /\ seen' \in [Agents -> Jobs \cup {NoJob, Missing}]
              /\ newer' \in [Agents -> BOOLEAN]
          BY <4>2, StopFacts DEF CancelCheck, TypeOK
        <5>3. told' \in [Callers -> {"nothing", "fit", "unfit"}]
          BY <4>2 DEF CancelCheck, TypeOK
        <5> QED
          BY <5>1, <5>2, <5>3 DEF TypeOK, checking
      <4> QED
        BY <2>5, <4>1, <4>2
    <3> QED
      BY <2>0, <2>5, <3>1, KnownStays DEF CancelCheck, StopsWaiting, TypeOK
  <2>6. ASSUME NEW c \in Callers, CheckStarts(c) PROVE TypeOK' /\ Known'
    <3>1. PICK j \in Jobs :
             /\ target[c] \in Agents /\ pc[c] = "checking" /\ Starts(j, target[c], TRUE, "running")
             /\ job' \in [Jobs -> JobRecords]
             /\ checks' = checks \cup {j} /\ waiter' = [waiter EXCEPT ![j] = "open"]
             /\ Records(target[c], "pending", j) /\ held' = [held EXCEPT ![c] = j]
             /\ pc' = [pc EXCEPT ![c] = "waiting"] /\ target' = [target EXCEPT ![c] = NoAgent]
             /\ told' = [told EXCEPT ![c] = "nothing"]
             /\ UNCHANGED <<probe, seen, watched, reserved, queue, run>>
      BY <2>6, CheckStartsFacts
    <3>2. obs' \in [Agents -> Observations] /\ newer' \in [Agents -> BOOLEAN]
      BY <3>1, ObserveFacts DEF Responses
    <3>3. TypeOK'
      BY <3>1, <3>2 DEF TypeOK
    <3> QED
      BY <2>0, <3>1, <3>3, KnownStays DEF TypeOK
  <2>7. ASSUME NEW c \in Callers, CheckNotStarted(c) \/ CheckGivenUp(c) PROVE TypeOK' /\ Known'
    <3>1. /\ pc[c] = "checking" /\ target[c] \in Agents
          /\ reserved' = reserved \ {target[c]}
          /\ pc' = [pc EXCEPT ![c] = "idle"] /\ target' = [target EXCEPT ![c] = NoAgent]
          /\ told' = [told EXCEPT ![c] = "nothing"]
          /\ UNCHANGED <<held, checks, waiter, probe, seen, watched, run>>
      BY <2>7, LeaveFacts
    <3>2. obs' \in [Agents -> Observations] /\ newer' \in [Agents -> BOOLEAN]
      <4>1. UNCHANGED <<obs, newer>> \/ Records(target[c], "failed", NoJob)
        BY <2>7, LeaveFacts
      <4> QED
        BY <3>1, <4>1, ObserveFacts DEF Responses, TypeOK
    <3>3. \/ UNCHANGED <<job, queue>>
          \/ \E j \in Jobs : /\ Starts(j, target[c], TRUE, "over") /\ job' \in [Jobs -> JobRecords]
                             /\ queue' = Append(queue, [job |-> j, says |-> "failed"])
      BY <2>7, LeaveFacts
    <3>4. job' \in [Jobs -> JobRecords] /\ queue' \in Seq(Events)
      <4>1. CASE UNCHANGED <<job, queue>>
        BY <4>1 DEF TypeOK
      <4>2. ASSUME NEW j \in Jobs, job' \in [Jobs -> JobRecords], Emit(j, "failed")
            PROVE  job' \in [Jobs -> JobRecords] /\ queue' \in Seq(Events)
        BY <4>2, EmitFacts DEF Ends
      <4> QED
        BY <3>3, <4>1, <4>2 DEF Emit
    <3>5. TypeOK'
      BY <3>1, <3>2, <3>4 DEF TypeOK
    <3>6. \A d \in Callers : pc'[d] = "checking" => pc[d] = "checking" /\ target'[d] = target[d]
      BY <3>1 DEF TypeOK
    <3>7. \/ queue' = queue
          \/ \E j \in Jobs, s \in {"running"} \cup Ends :
               queue' = Append(queue, [job |-> j, says |-> s]) /\ job'[j].status # "none"
      BY <3>3 DEF Starts, Ends
    <3> QED
      BY <2>0, <3>5, <3>6, <3>7, KnownStays
  <2>8. ASSUME NEW j \in Jobs, JobProgresses(j) \/ JobClaims(j) \/ JobEnds(j)
        PROVE  TypeOK' /\ Known'
    <3>1. Alive(j) /\ job[j].status # "none"
      BY <2>8 DEF JobProgresses, JobClaims, JobEnds, Alive
    <3>2. PICK s \in {"running"} \cup Ends : Emit(j, s)
      BY <2>8, EndsOfType DEF JobProgresses, JobClaims, JobEnds
    <3>3. job' \in [Jobs -> JobRecords]
      BY <2>8, <3>1, MovesFacts DEF JobProgresses, JobClaims, JobEnds, TypeOK
    <3>4. job'[j].status # "none"
      BY <2>0, <3>1 DEF KeepsJobs
    <3>5. UNCHANGED <<probing, calling, checking, obs, run>>
      BY <2>8 DEF JobProgresses, JobClaims, JobEnds
    <3>6. TypeOK'
      BY <3>2, <3>3, <3>5, EmitFacts DEF TypeOK, probing, calling, checking
    <3> QED
      BY <2>0, <3>2, <3>4, <3>5, <3>6, EmitFacts, KnownStays DEF calling
  <2>9. ASSUME Ingest PROVE TypeOK' /\ Known'
    <3> DEFINE j == Head(queue).job
               says == Head(queue).says
               a == job[j].agent
    <3>1. /\ queue # <<>> /\ queue' = Tail(queue)
          /\ UNCHANGED <<probe, seen, watched, calling, job, run>>
          /\ j \in Jobs /\ says \in {"running"} \cup Ends /\ a \in Agents
      BY <2>9, IngestKinds
    <3>2. \/ Records(a, "pending", j) /\ UNCHANGED checking
          \/ /\ checks' = checks \ {j} /\ reserved' = reserved \ {a}
             /\ Records(a, Outcome(says), NoJob)
             /\ waiter' = [waiter EXCEPT ![j] = Resolved(j, Outcome(says))]
          \/ /\ Records(a, Evidence(a, says), IF says = "running" THEN j ELSE NoJob)
             /\ UNCHANGED checking
      BY <2>9, IngestKinds
    <3>3. queue' \in Seq(Events)
      BY <3>1, HeadTypes
    <3>4. \A i \in 1 .. Len(queue') : job'[queue'[i].job].status # "none"
      BY <3>1, KnownTail
    <3> HIDE DEF j, says, a
    <3>5. obs' \in [Agents -> Observations] /\ newer' \in [Agents -> BOOLEAN]
      BY <3>1, <3>2, ObserveFacts, OutcomeType, EvidenceType DEF Responses
    <3>6. /\ reserved' \subseteq Agents /\ checks' \subseteq Jobs
          /\ waiter' \in [Jobs -> {"none", "open", "responded", "failed"}]
      <4> DEFINE o == Outcome(says)
      <4>1. o \in {"responded", "failed"}
        BY <3>1, OutcomeType
      <4> HIDE DEF o
      <4>2. /\ reserved \subseteq Agents /\ checks \subseteq Jobs
            /\ waiter \in [Jobs -> {"none", "open", "responded", "failed"}]
        BY DEF TypeOK
      <4>3. \/ UNCHANGED checking
            \/ /\ checks' = checks \ {j} /\ reserved' = reserved \ {a}
               /\ waiter' = [waiter EXCEPT ![j] = Resolved(j, o)]
        BY <3>2, Zenon DEF o
      <4> QED
        BY <4>1, <4>2, <4>3 DEF Resolved, checking
    <3>7. TypeOK'
      BY <3>1, <3>3, <3>5, <3>6 DEF TypeOK, calling
    <3> QED
      BY <3>1, <3>4, <3>7 DEF Known, calling
  <2>10. ASSUME NEW a \in Agents, Launches(a) PROVE TypeOK' /\ Known'
    <3>1. job' \in [Jobs -> JobRecords]
      BY <2>10, LaunchesFacts DEF TypeOK
    <3>2. TypeOK'
      BY <2>10, <3>1, LaunchesFacts DEF TypeOK, calling, checking
    <3> QED
      BY <2>0, <2>10, <3>2, KnownStays, LaunchesFacts DEF calling
  <2> QED
    BY <1>3, <2>1, <2>2, <2>3, <2>4, <2>5, <2>6, <2>7, <2>8, <2>9, <2>10
       DEF Next, CheckStep
<1> QED
  BY <1>1, <1>2, <1>3

LEMMA BaseIsInvariant == Spec => [](TypeOK /\ Known)
<1> USE TypeInit, TypeStep
<1> QED
  BY PTL DEF Spec

\* The variables of ControlPlane keep their types.
THEOREM TypeCorrect == Spec => []TypeOK
BY BaseIsInvariant, PTL

-----------------------------------------------------------------------------
(* Events that wait.                                                        *)

\* The queue tells of an end of job j.
Tells(q, j) == \E i \in 1 .. Len(q) : q[i].job = j /\ q[i].says # "running"

\* Who said more than that it goes on has claimed to be done or is over, and a
\* progress report of a job that is over has its end behind it.
QueueInv ==
    \A i \in 1 .. Len(queue) :
       LET j == queue[i].job IN
         /\ queue[i].says # "running" => job[j].status \in {"claimed", "over"}
         /\ queue[i].says = "running" /\ job[j].status = "over"
              => \E k \in i + 1 .. Len(queue) : queue[k].job = j /\ queue[k].says # "running"

\* Only the job that reports something changes its status.
OthersStay(S) ==
    \A i \in Jobs \ S : job[i].status # "none" => job'[i].status = job[i].status

Reports(j, s) ==
    /\ Emit(j, s) /\ OthersStay({j})
    /\ job[j].status \in {"none", "running", "claimed"}
    /\ job'[j].status # "none"
    /\ IF s = "running" THEN job'[j].status # "over" ELSE job'[j].status \in {"claimed", "over"}

QueueStep ==
    \/ queue' = queue /\ OthersStay({})
    \/ \E j \in Jobs, s \in {"running"} \cup Ends : Reports(j, s)
    \/ Ingest

LEMMA StartsAlone ==
    ASSUME NEW j \in Jobs, NEW a, NEW check, NEW status, Starts(j, a, check, status)
    PROVE  OthersStay({})
BY DEF Starts, OthersStay

LEMMA SameStays == ASSUME job' = job PROVE OthersStay({})
BY DEF OthersStay

LEMMA QueueSteps ==
    ASSUME TypeOK, Known, Next, ~Restart
    PROVE  QueueStep
<1>1. ASSUME NEW a \in Agents, ProbeStep(a) PROVE QueueStep
  BY <1>1, SameStays DEF QueueStep, ProbeStep, ProbeReads, ProbeRecords, ProbeFails, ProbeStops, ProbeEnds
<1>2. ASSUME NEW a \in Agents, UserJobStarts(a) PROVE QueueStep
  <2>1. PICK j \in Jobs : NewJob(j, a, FALSE, "running")
    BY <1>2 DEF UserJobStarts
  <2>2. OthersStay({})
    BY <2>1, NewJobFacts, StartsAlone
  <2> QED
    BY <1>2, <2>2 DEF QueueStep, UserJobStarts
<1>3. ASSUME NEW S \in SUBSET Agents, Look(S) \/ StopsLooking(S) PROVE QueueStep
  BY <1>3, SameStays DEF QueueStep, Look, StopsLooking
<1>4. ASSUME NEW c \in Callers, NEW a \in Agents, RequestCheck(c, a) PROVE QueueStep
  BY <1>4, SameStays DEF QueueStep, RequestCheck
<1>5. ASSUME NEW c \in Callers, CancelCheck(c) \/ StopsWaiting(c) PROVE QueueStep
  BY <1>5, SameStays DEF QueueStep, CancelCheck, StopsWaiting
<1>6. ASSUME NEW c \in Callers, CheckStarts(c) PROVE QueueStep
  <2>1. PICK j \in Jobs : Starts(j, target[c], TRUE, "running")
    BY <1>6, CheckStartsFacts
  <2>2. OthersStay({})
    BY <2>1, StartsAlone
  <2> QED
    BY <1>6, <2>2 DEF QueueStep, CheckStarts
<1>7. ASSUME NEW c \in Callers, CheckNotStarted(c) \/ CheckGivenUp(c) PROVE QueueStep
  <2>1. CASE UNCHANGED <<job, queue>>
    BY <2>1, SameStays DEF QueueStep
  <2>2. ASSUME NEW j \in Jobs, Starts(j, target[c], TRUE, "over"), Emit(j, "failed")
        PROVE  QueueStep
    <3>1. Reports(j, "failed")
      BY <2>2 DEF Reports, Starts, OthersStay
    <3> QED
      BY <3>1 DEF QueueStep, Ends
  <2> QED
    BY <1>7, <2>1, <2>2, LeaveFacts DEF Emit
<1>8. ASSUME NEW j \in Jobs, JobProgresses(j) \/ JobClaims(j) \/ JobEnds(j) PROVE QueueStep
  <2>1. CASE JobProgresses(j)
    <3>1. Reports(j, "running")
      BY <2>1 DEF Reports, JobProgresses, Alive, OthersStay
    <3> QED
      BY <3>1 DEF QueueStep
  <2>2. ASSUME NEW s \in Ends, Emit(j, s), NEW status \in {"claimed", "over"}, Alive(j),
               job' = [job EXCEPT ![j].status = status]
        PROVE  QueueStep
    <3>1. Moves(j, status)
      BY <2>2, MovesFacts
    <3>2. s # "running"
      BY DEF Ends, Done
    <3>3. Reports(j, s)
      BY <2>2, <3>1, <3>2 DEF Reports, Moves, Alive, OthersStay
    <3> QED
      BY <3>3 DEF QueueStep
  <2> QED
    BY <1>8, <2>1, <2>2, EndsOfType DEF JobClaims, JobEnds, Alive
<1>9. ASSUME Ingest PROVE QueueStep
  BY <1>9 DEF QueueStep
<1>10. ASSUME NEW a \in Agents, Launches(a) PROVE QueueStep
  BY <1>10, LaunchesFacts, StartsAlone, SameStays DEF QueueStep
<1> QED
  BY <1>1, <1>2, <1>3, <1>4, <1>5, <1>6, <1>7, <1>8, <1>9, <1>10 DEF Next, CheckStep

\* Queues that grow and shrink.
LEMMA Appended ==
    ASSUME NEW q \in Seq(Events), NEW e \in Events
    PROVE  /\ Len(Append(q, e)) = Len(q) + 1 /\ Append(q, e)[Len(q) + 1] = e
           /\ \A i \in 1 .. Len(q) : Append(q, e)[i] = q[i]
           /\ Len(q) \in Nat
OBVIOUS

LEMMA Taken ==
    ASSUME NEW q \in Seq(Events), q # <<>>
    PROVE  /\ Len(q) \in Nat \ {0} /\ Len(Tail(q)) = Len(q) - 1 /\ Head(q) = q[1]
           /\ \A i \in 1 .. Len(q) - 1 : Tail(q)[i] = q[i + 1]
OBVIOUS

LEMMA TellsMore ==
    ASSUME NEW q \in Seq(Events), NEW e \in Events, NEW j
    PROVE  /\ Tells(q, j) => Tells(Append(q, e), j)
           /\ e.job = j /\ e.says # "running" => Tells(Append(q, e), j)
<1>1. ASSUME Tells(q, j) PROVE Tells(Append(q, e), j)
  <2>1. PICK i \in 1 .. Len(q) : q[i].job = j /\ q[i].says # "running"
    BY <1>1 DEF Tells
  <2>2. i \in 1 .. Len(Append(q, e)) /\ Append(q, e)[i] = q[i]
    BY Appended
  <2> QED
    BY <2>1, <2>2 DEF Tells
<1>2. ASSUME e.job = j, e.says # "running" PROVE Tells(Append(q, e), j)
  <2>1. Len(q) + 1 \in 1 .. Len(Append(q, e)) /\ Append(q, e)[Len(q) + 1] = e
    BY Appended
  <2> QED
    BY <1>2, <2>1 DEF Tells
<1> QED
  BY <1>1, <1>2

LEMMA TellsStill ==
    ASSUME NEW q \in Seq(Events), q # <<>>, NEW j, Tells(q, j),
           Head(q).job # j \/ Head(q).says = "running"
    PROVE  Tells(Tail(q), j)
<1>1. PICK i \in 1 .. Len(q) : q[i].job = j /\ q[i].says # "running"
  BY DEF Tells
<1>2. i # 1
  BY <1>1, Taken
<1>3. i - 1 \in 1 .. Len(Tail(q)) /\ Tail(q)[i - 1] = q[i]
  <2>1. i - 1 \in 1 .. Len(q) - 1
    BY <1>2, Taken
  <2>2. Tail(q)[i - 1] = q[(i - 1) + 1]
    BY <2>1, Taken
  <2> QED
    BY <2>1, <2>2, Taken
<1> QED
  BY <1>1, <1>3 DEF Tells

LEMMA QueueInvInit == Init => QueueInv
BY DEF Init, QueueInv

LEMMA QueueInvStep ==
    ASSUME TypeOK, Known, QueueInv, [Next]_vars, TypeOK'
    PROVE  QueueInv'
<1>0. /\ \A j \in Jobs : job'[j].status \in {"none", "running", "claimed", "over", "lost"}
      /\ queue' \in Seq(Events) /\ queue \in Seq(Events)
  BY DEF TypeOK, JobRecords
<1>q. \A i \in 1 .. Len(queue) : /\ queue[i].job \in Jobs /\ job[queue[i].job].status # "none"
                                 /\ queue[i] \in Events
  <2>1. \A i \in 1 .. Len(queue) : queue[i] \in Events
    BY <1>0
  <2> QED
    BY <2>1 DEF Events, Known
<1>1. CASE UNCHANGED vars
  BY <1>1 DEF QueueInv, vars
<1>2. CASE Restart
  BY <1>2 DEF QueueInv, Restart
<1>3. CASE queue' = queue /\ OthersStay({})
  <2>1. \A i \in 1 .. Len(queue) : job'[queue[i].job].status = job[queue[i].job].status
    BY <1>3, <1>q DEF OthersStay
  <2> QED
    BY <1>3, <2>1 DEF QueueInv
<1>4. ASSUME NEW j \in Jobs, NEW s \in {"running"} \cup Ends, Reports(j, s), KeepsJobs
      PROVE  QueueInv'
  <2> DEFINE e == [job |-> j, says |-> s]
  <2>1. e \in Events /\ e.job = j /\ e.says = s
    BY DEF Events
  <2>2. queue' = Append(queue, e)
    BY <1>4 DEF Reports, Emit
  <2> HIDE DEF e
  <2>3. /\ Len(queue') = Len(queue) + 1 /\ queue'[Len(queue) + 1] = e /\ Len(queue) \in Nat
        /\ \A i \in 1 .. Len(queue) : queue'[i] = queue[i]
    BY <1>0, <2>1, <2>2, Appended
  <2>4. /\ job'[j].status # "none"
        /\ IF s = "running" THEN job'[j].status # "over" ELSE job'[j].status \in {"claimed", "over"}
        /\ job[j].status \in {"none", "running", "claimed"}
        /\ \A k \in Jobs \ {j} : job[k].status # "none" => job'[k].status = job[k].status
    BY <1>4 DEF Reports, OthersStay
  <2>5. ASSUME NEW i \in 1 .. Len(queue'), queue'[i].says # "running"
        PROVE  job'[queue'[i].job].status \in {"claimed", "over"}
    <3>1. CASE i = Len(queue) + 1
      BY <2>1, <2>3, <2>4, <2>5, <3>1
    <3>2. CASE i \in 1 .. Len(queue)
      <4>1. job[queue[i].job].status \in {"claimed", "over"}
        BY <2>3, <2>5, <3>2 DEF QueueInv
      <4>2. queue[i].job \in Jobs
        BY <1>q, <3>2
      <4>3. job'[queue[i].job].status \in {"claimed", "over"}
        BY <1>0, <1>4, <2>4, <4>1, <4>2 DEF KeepsJobs
      <4> QED
        BY <2>3, <3>2, <4>3
    <3> QED
      BY <2>3, <3>1, <3>2
  <2>6. ASSUME NEW i \in 1 .. Len(queue'), queue'[i].says = "running",
               job'[queue'[i].job].status = "over"
        PROVE  \E k \in i + 1 .. Len(queue') : queue'[k].job = queue'[i].job
                                               /\ queue'[k].says # "running"
    <3>1. i \in 1 .. Len(queue)
      BY <2>1, <2>3, <2>4, <2>6
    <3>2. queue'[i] = queue[i] /\ queue[i].job \in Jobs /\ job[queue[i].job].status # "none"
      BY <1>q, <2>3, <3>1
    <3>3. CASE queue[i].job = j
      <4>1. s # "running"
        BY <2>4, <2>6, <3>2, <3>3
      <4>2. Len(queue) + 1 \in i + 1 .. Len(queue')
        BY <2>3, <3>1
      <4> QED
        BY <2>1, <2>3, <3>2, <3>3, <4>1, <4>2
    <3>4. CASE queue[i].job # j
      <4>1. job[queue[i].job].status = "over"
        BY <2>4, <2>6, <3>2, <3>4
      <4>2. PICK k \in i + 1 .. Len(queue) : queue[k].job = queue[i].job
                                             /\ queue[k].says # "running"
        BY <2>6, <3>1, <3>2, <4>1 DEF QueueInv
      <4>3. k \in 1 .. Len(queue) /\ k \in i + 1 .. Len(queue')
        BY <2>3, <3>1
      <4> QED
        BY <2>3, <3>2, <4>2, <4>3
    <3> QED
      BY <3>3, <3>4
  <2> QED
    BY <2>5, <2>6 DEF QueueInv
<1>5. CASE Ingest
  <2>1. queue # <<>> /\ queue' = Tail(queue) /\ job' = job
    BY <1>5 DEF Ingest
  <2>2. /\ Len(queue) \in Nat \ {0} /\ Len(queue') = Len(queue) - 1
        /\ \A i \in 1 .. Len(queue) - 1 : queue'[i] = queue[i + 1]
    BY <1>0, <2>1, Taken
  <2>3. ASSUME NEW i \in 1 .. Len(queue'), queue'[i].says # "running"
        PROVE  job'[queue'[i].job].status \in {"claimed", "over"}
    <3>1. i + 1 \in 1 .. Len(queue) /\ queue'[i] = queue[i + 1]
      BY <2>2
    <3> QED
      BY <2>1, <2>3, <3>1 DEF QueueInv
  <2>4. ASSUME NEW i \in 1 .. Len(queue'), queue'[i].says = "running",
               job'[queue'[i].job].status = "over"
        PROVE  \E k \in i + 1 .. Len(queue') : queue'[k].job = queue'[i].job
                                               /\ queue'[k].says # "running"
    <3>1. i + 1 \in 1 .. Len(queue) /\ queue'[i] = queue[i + 1]
      BY <2>2
    <3>2. PICK k \in (i + 1) + 1 .. Len(queue) : queue[k].job = queue[i + 1].job
                                                 /\ queue[k].says # "running"
      BY <2>1, <2>4, <3>1 DEF QueueInv
    <3>3. k - 1 \in i + 1 .. Len(queue') /\ k - 1 \in 1 .. Len(queue) - 1 /\ (k - 1) + 1 = k
      BY <2>2, <3>1
    <3>4. queue'[k - 1] = queue[k]
      <4>1. queue'[k - 1] = queue[(k - 1) + 1]
        BY <2>2, <3>3
      <4> QED
        BY <3>3, <4>1
    <3> QED
      BY <3>1, <3>2, <3>3, <3>4
  <2> QED
    BY <2>3, <2>4 DEF QueueInv
<1>6. ASSUME Next, ~Restart PROVE QueueInv'
  BY <1>3, <1>4, <1>5, <1>6, QueueSteps, JobsAreKept DEF QueueStep
<1> QED
  BY <1>1, <1>2, <1>6

-----------------------------------------------------------------------------
(* Reservations, checks and those who wait for them.                        *)

Asks(c) == pc[c] = "checking"
Waits(c) == pc[c] = "waiting"

\* A reservation is owned by one request or by one check, never by two.
OwnedOnce ==
    /\ \A c \in Callers : Asks(c) => target[c] \in reserved
    /\ \A c, d \in Callers : Asks(c) /\ Asks(d) /\ target[c] = target[d] => c = d
    /\ \A j \in checks : job[j].agent \in reserved
    /\ \A i, j \in checks : job[i].agent = job[j].agent => i = j
    /\ \A c \in Callers, j \in checks : Asks(c) => target[c] # job[j].agent

Owned ==
    \A a \in reserved : \/ \E c \in Callers : Asks(c) /\ target[c] = a
                        \/ \E j \in checks : job[j].agent = a

\* What is registered is a check that was started, and what runs is registered.
Registered ==
    /\ \A j \in checks : job[j].check /\ job[j].status \notin {"none", "lost"}
    /\ \A j \in Jobs : job[j].check /\ job[j].status = "running" => j \in checks

\* Each caller that waits has a check of its own.
Waiting ==
    /\ \A c \in Callers : Waits(c) => held[c] \in Jobs /\ job[held[c]].status # "none"
    /\ \A c, d \in Callers : Waits(c) /\ Waits(d) /\ held[c] = held[d] => c = d

CheckInv == OwnedOnce /\ Owned /\ Registered /\ Waiting /\ OutcomeIsFound

\* No check starts.
NoNewCheck ==
    \A j \in Jobs : job[j].status = "none" /\ job'[j].check => job'[j].status # "running"

CheckKinds ==
    \/ UNCHANGED <<pc, target, held, checking>> /\ NoNewCheck
    \/ \E c \in Callers : \/ \E a \in Agents : RequestCheck(c, a)
                          \/ CheckStarts(c) \/ CheckNotStarted(c) \/ CheckGivenUp(c)
                          \/ StopsWaiting(c)
    \/ Ingest

LEMMA CheckSteps ==
    ASSUME TypeOK, Known, Next, ~Restart
    PROVE  CheckKinds
<1>1. ASSUME NEW a \in Agents, ProbeStep(a) PROVE CheckKinds
  BY <1>1 DEF CheckKinds, NoNewCheck, ProbeStep, ProbeReads, ProbeRecords, ProbeFails, ProbeStops,
              ProbeEnds, calling
<1>2. ASSUME NEW a \in Agents, UserJobStarts(a) PROVE CheckKinds
  <2>1. PICK j \in Jobs : NewJob(j, a, FALSE, "running")
    BY <1>2 DEF UserJobStarts
  <2>2. NoNewCheck
    BY <2>1, NewJobFacts DEF Starts, NoNewCheck
  <2> QED
    BY <1>2, <2>2 DEF CheckKinds, UserJobStarts, calling
<1>3. ASSUME NEW S \in SUBSET Agents, Look(S) \/ StopsLooking(S) PROVE CheckKinds
  BY <1>3 DEF CheckKinds, NoNewCheck, Look, StopsLooking, calling
<1>4. ASSUME NEW c \in Callers, CancelCheck(c) PROVE CheckKinds
  BY <1>4 DEF CheckKinds, NoNewCheck, CancelCheck
<1>5. ASSUME NEW j \in Jobs, JobProgresses(j) \/ JobClaims(j) \/ JobEnds(j) PROVE CheckKinds
  <2>1. UNCHANGED <<pc, target, held, checking>>
    BY <1>5 DEF JobProgresses, JobClaims, JobEnds, calling
  <2>2. NoNewCheck
    BY <1>5 DEF NoNewCheck, JobProgresses, JobClaims, JobEnds, Alive, TypeOK
  <2> QED
    BY <2>1, <2>2 DEF CheckKinds
<1>6. ASSUME NEW a \in Agents, Launches(a) PROVE CheckKinds
  <2>1. NoNewCheck
    BY <1>6, LaunchesFacts DEF Starts, NoNewCheck
  <2> QED
    BY <1>6, <2>1, LaunchesFacts DEF CheckKinds, calling
<1> QED
  BY <1>1, <1>2, <1>3, <1>4, <1>5, <1>6 DEF Next, CheckStep, CheckKinds

LEMMA CheckInvInit == Init => CheckInv
BY DEF Init, CheckInv, OwnedOnce, Owned, Registered, Waiting, OutcomeIsFound, Asks, Waits

LEMMA KeptFacts ==
    ASSUME TypeOK, Known, KeepsJobs, CheckInv
    PROVE  /\ \A j \in checks : /\ j \in Jobs /\ job'[j].agent = job[j].agent
                                /\ job'[j].check /\ job'[j].status \notin {"none", "lost"}
           /\ \A c \in Callers : Waits(c) => job'[held[c]].status # "none"
           /\ \A j \in Jobs : job[j].status # "none" /\ job'[j].check /\ job'[j].status = "running"
                              => j \in checks
BY DEF TypeOK, KeepsJobs, CheckInv, Registered, Waiting

LEMMA CheckInvQuiet ==
    ASSUME TypeOK, Known, KeepsJobs, CheckInv,
           UNCHANGED <<pc, target, held, checking>>, NoNewCheck
    PROVE  CheckInv'
<1>1. OwnedOnce' /\ Owned'
  BY KeptFacts DEF CheckInv, OwnedOnce, Owned, Asks, checking
<1>2. Registered'
  BY KeptFacts DEF Registered, NoNewCheck, checking
<1>3. Waiting' /\ OutcomeIsFound'
  BY KeptFacts DEF CheckInv, Waiting, OutcomeIsFound, Waits, checking
<1> QED
  BY <1>1, <1>2, <1>3 DEF CheckInv

LEMMA CheckInvRequest ==
    ASSUME TypeOK, Known, CheckInv, NEW c \in Callers, NEW a \in Agents, RequestCheck(c, a)
    PROVE  CheckInv'
<1>1. /\ a \notin reserved /\ reserved' = reserved \cup {a} /\ pc[c] = "idle"
      /\ pc' = [pc EXCEPT ![c] = "checking"] /\ target' = [target EXCEPT ![c] = a]
      /\ UNCHANGED <<held, checks, waiter, job>>
  BY DEF RequestCheck, Unreserved
<1>2. /\ Asks(c)' /\ target'[c] = a
      /\ \A d \in Callers : d # c => Asks(d)' = Asks(d) /\ target'[d] = target[d]
      /\ \A d \in Callers : Waits(d)' = Waits(d)
  BY <1>1 DEF Asks, Waits, TypeOK
<1>3. OwnedOnce'
  BY <1>1, <1>2 DEF CheckInv, OwnedOnce
<1>4. Owned'
  BY <1>1, <1>2 DEF CheckInv, Owned, Asks
<1>5. Registered' /\ Waiting' /\ OutcomeIsFound'
  BY <1>1, <1>2 DEF CheckInv, Registered, Waiting, OutcomeIsFound, Waits
<1> QED
  BY <1>3, <1>4, <1>5 DEF CheckInv

LEMMA CheckInvStart ==
    ASSUME TypeOK, Known, KeepsJobs, CheckInv, NEW c \in Callers, CheckStarts(c)
    PROVE  CheckInv'
<1>1. PICK j \in Jobs :
         /\ target[c] \in Agents /\ pc[c] = "checking" /\ Starts(j, target[c], TRUE, "running")
         /\ checks' = checks \cup {j} /\ waiter' = [waiter EXCEPT ![j] = "open"]
         /\ held' = [held EXCEPT ![c] = j]
         /\ pc' = [pc EXCEPT ![c] = "waiting"] /\ target' = [target EXCEPT ![c] = NoAgent]
         /\ UNCHANGED reserved
  BY CheckStartsFacts
<1>2. /\ job[j].status = "none" /\ job'[j].agent = target[c] /\ job'[j].check
      /\ job'[j].status = "running" /\ j \notin checks
      /\ \A i \in Jobs : i # j => job'[i] = job[i]
  BY <1>1 DEF Starts, CheckInv, Registered
<1>3. /\ Asks(c) /\ ~Asks(c)' /\ Waits(c)' /\ held'[c] = j
      /\ \A d \in Callers : d # c => /\ Asks(d)' = Asks(d) /\ target'[d] = target[d]
                                     /\ Waits(d)' = Waits(d) /\ held'[d] = held[d]
  BY <1>1 DEF Asks, Waits, TypeOK
<1>4. /\ \A i \in checks' : i = j \/ (i \in checks /\ job'[i].agent = job[i].agent)
      /\ j \in checks' /\ checks \subseteq checks'
  BY <1>1, KeptFacts
<1>5. OwnedOnce'
  BY <1>1, <1>2, <1>3, <1>4 DEF CheckInv, OwnedOnce
<1>6. Owned'
  <2> SUFFICES ASSUME NEW a \in reserved
               PROVE  \/ \E d \in Callers : Asks(d)' /\ target'[d] = a
                      \/ \E i \in checks' : job'[i].agent = a
    BY <1>1 DEF Owned
  <2>1. CASE a = target[c]
    BY <1>2, <1>4, <2>1
  <2>2. ASSUME NEW d \in Callers, Asks(d), target[d] = a, d # c
        PROVE  Asks(d)' /\ target'[d] = a
    BY <1>3, <2>2
  <2>3. ASSUME NEW i \in checks, job[i].agent = a PROVE i \in checks' /\ job'[i].agent = a
    BY <1>4, <2>3, KeptFacts
  <2> QED
    BY <2>1, <2>2, <2>3 DEF CheckInv, Owned
<1>7. Registered'
  BY <1>2, <1>4, KeptFacts DEF Registered
<1>8. \A d \in Callers : Waits(d) => held[d] # j /\ held[d] \in Jobs
  BY <1>2 DEF CheckInv, Waiting
<1>9. Waiting'
  BY <1>2, <1>3, <1>8, KeptFacts DEF CheckInv, Waiting
<1>10. OutcomeIsFound'
  <2> SUFFICES ASSUME NEW d \in Callers, Waits(d)'
               PROVE  waiter'[held'[d]] \in IF held'[d] \in checks' THEN {"open"}
                                                                    ELSE {"responded", "failed"}
    BY DEF OutcomeIsFound, Waits
  <2>1. CASE d = c
    BY <1>1, <1>3, <1>4, <2>1 DEF TypeOK
  <2>2. CASE d # c
    <3>1. Waits(d) /\ held'[d] = held[d] /\ held[d] # j /\ waiter'[held[d]] = waiter[held[d]]
      BY <1>1, <1>3, <1>8, <2>2 DEF TypeOK
    <3>2. held[d] \in checks' <=> held[d] \in checks
      BY <1>1, <3>1
    <3> QED
      BY <3>1, <3>2 DEF CheckInv, OutcomeIsFound, Waits
  <2> QED
    BY <2>1, <2>2
<1> QED
  BY <1>5, <1>6, <1>7, <1>9, <1>10 DEF CheckInv

LEMMA CheckInvLeave ==
    ASSUME TypeOK, Known, KeepsJobs, CheckInv, NEW c \in Callers,
           CheckNotStarted(c) \/ CheckGivenUp(c)
    PROVE  CheckInv'
<1>1. /\ pc[c] = "checking" /\ reserved' = reserved \ {target[c]}
      /\ pc' = [pc EXCEPT ![c] = "idle"] /\ target' = [target EXCEPT ![c] = NoAgent]
      /\ UNCHANGED <<held, checks, waiter>>
      /\ \/ UNCHANGED <<job, queue>>
         \/ \E j \in Jobs : Starts(j, target[c], TRUE, "over")
  BY LeaveFacts
<1>2. /\ Asks(c) /\ ~Asks(c)' /\ ~Waits(c)' /\ ~Waits(c)
      /\ \A d \in Callers : d # c => Asks(d)' = Asks(d) /\ target'[d] = target[d]
      /\ \A d \in Callers : Waits(d)' = Waits(d)
  BY <1>1 DEF Asks, Waits, TypeOK
<1>3. OwnedOnce'
  BY <1>1, <1>2, KeptFacts DEF CheckInv, OwnedOnce
<1>4. Owned'
  <2> SUFFICES ASSUME NEW a \in reserved, a # target[c]
               PROVE  \/ \E d \in Callers : Asks(d)' /\ target'[d] = a
                      \/ \E i \in checks : job'[i].agent = a
    BY <1>1 DEF Owned
  <2>1. ASSUME NEW d \in Callers, Asks(d), target[d] = a PROVE Asks(d)' /\ target'[d] = a
    BY <1>2, <2>1
  <2>2. ASSUME NEW i \in checks, job[i].agent = a PROVE job'[i].agent = a
    BY <2>2, KeptFacts
  <2> QED
    BY <2>1, <2>2 DEF CheckInv, Owned
<1>5. NoNewCheck
  BY <1>1 DEF NoNewCheck, Starts
<1>6. Registered'
  BY <1>1, <1>5, KeptFacts DEF Registered, NoNewCheck
<1>7. Waiting' /\ OutcomeIsFound'
  BY <1>1, <1>2, KeptFacts DEF CheckInv, Waiting, OutcomeIsFound, Waits
<1> QED
  BY <1>3, <1>4, <1>6, <1>7 DEF CheckInv

LEMMA CheckInvReturn ==
    ASSUME TypeOK, Known, CheckInv, NEW c \in Callers, StopsWaiting(c)
    PROVE  CheckInv'
<1>1. /\ pc[c] = "waiting" /\ waiter' = [waiter EXCEPT ![held[c]] = "none"]
      /\ pc' = [pc EXCEPT ![c] = "idle"] /\ held' = [held EXCEPT ![c] = NoJob]
      /\ UNCHANGED <<target, reserved, checks, job>>
  BY DEF StopsWaiting
<1>2. /\ Waits(c) /\ ~Waits(c)'
      /\ \A d \in Callers : d # c => Waits(d)' = Waits(d) /\ held'[d] = held[d]
      /\ \A d \in Callers : Asks(d)' = Asks(d)
  BY <1>1 DEF Asks, Waits, TypeOK
<1>3. OwnedOnce' /\ Owned' /\ Registered'
  BY <1>1, <1>2 DEF CheckInv, OwnedOnce, Owned, Registered
<1>4. \A d \in Callers : d # c /\ Waits(d) => held[d] \in Jobs /\ held[d] # held[c]
  BY <1>2 DEF CheckInv, Waiting
<1>5. \A d \in Callers : d # c /\ Waits(d) => waiter'[held[d]] = waiter[held[d]]
  BY <1>1, <1>4 DEF TypeOK
<1>6. Waiting' /\ OutcomeIsFound'
  BY <1>1, <1>2, <1>5 DEF CheckInv, Waiting, OutcomeIsFound, Waits
<1> QED
  BY <1>3, <1>6 DEF CheckInv

\* The event that decides a check comes when it no longer runs.
LEMMA DecidedIsOver ==
    ASSUME TypeOK, QueueInv, queue # <<>>, Head(queue).says # "running"
    PROVE  job[Head(queue).job].status \in {"claimed", "over"}
<1>1. Head(queue) = queue[1] /\ 1 \in 1 .. Len(queue)
  BY Taken DEF TypeOK
<1> QED
  BY <1>1 DEF QueueInv

LEMMA CheckInvIngest ==
    ASSUME TypeOK, Known, QueueInv, CheckInv, Ingest
    PROVE  CheckInv'
<1>1. PICK j \in Jobs, says \in {"running"} \cup Ends :
         /\ says # "running" => job[j].status \in {"claimed", "over"}
         /\ UNCHANGED <<pc, target, told, held, job>>
         /\ \/ UNCHANGED <<reserved, checks, waiter>>
            \/ /\ j \in checks /\ says # "running"
               /\ checks' = checks \ {j} /\ reserved' = reserved \ {job[j].agent}
               /\ waiter' = [waiter EXCEPT ![j] = Resolved(j, Outcome(says))]
  BY IngestKinds, DecidedIsOver DEF calling, checking
<1>2. /\ \A c \in Callers : Asks(c)' = Asks(c) /\ Waits(c)' = Waits(c)
      /\ UNCHANGED <<target, held, job>>
  BY <1>1 DEF Asks, Waits
<1>3. CASE UNCHANGED <<reserved, checks, waiter>>
  BY <1>2, <1>3 DEF CheckInv, OwnedOnce, Owned, Registered, Waiting, OutcomeIsFound, Waits, Asks
<1>4. CASE /\ j \in checks /\ says # "running"
           /\ checks' = checks \ {j} /\ reserved' = reserved \ {job[j].agent}
           /\ waiter' = [waiter EXCEPT ![j] = Resolved(j, Outcome(says))]
  <2>1. OwnedOnce'
    BY <1>2, <1>4 DEF CheckInv, OwnedOnce
  <2>2. Owned'
    <3> SUFFICES ASSUME NEW a \in reserved, a # job[j].agent
                 PROVE  \/ \E c \in Callers : Asks(c)' /\ target'[c] = a
                        \/ \E i \in checks' : job'[i].agent = a
      BY <1>4 DEF Owned
    <3>1. \/ \E c \in Callers : Asks(c) /\ target[c] = a
          \/ \E i \in checks : job[i].agent = a
      BY DEF CheckInv, Owned
    <3> QED
      BY <1>2, <1>4, <3>1
  <2>3. Registered'
    BY <1>1, <1>2, <1>4 DEF CheckInv, Registered
  <2>4. Waiting'
    BY <1>2 DEF CheckInv, Waiting
  <2>5. OutcomeIsFound'
    <3> SUFFICES ASSUME NEW c \in Callers, Waits(c)
                 PROVE  waiter'[held[c]] \in IF held[c] \in checks' THEN {"open"}
                                                                    ELSE {"responded", "failed"}
      BY <1>2 DEF OutcomeIsFound, Waits
    <3>1. waiter[held[c]] \in IF held[c] \in checks THEN {"open"} ELSE {"responded", "failed"}
      BY DEF CheckInv, OutcomeIsFound, Waits
    <3>2. CASE held[c] = j
      <4>1. waiter'[j] = Outcome(says)
        BY <1>4, <3>1, <3>2 DEF Resolved, TypeOK
      <4> QED
        BY <1>4, <3>2, <4>1, OutcomeType
    <3>3. CASE held[c] # j
      <4>1. held[c] \in Jobs
        BY DEF CheckInv, Waiting
      <4>2. waiter'[held[c]] = waiter[held[c]]
        BY <1>4, <3>3, <4>1 DEF TypeOK
      <4> QED
        BY <1>4, <3>1, <3>3, <4>2
    <3> QED
      BY <3>2, <3>3
  <2> QED
    BY <2>1, <2>2, <2>3, <2>4, <2>5 DEF CheckInv
<1> QED
  BY <1>1, <1>3, <1>4

LEMMA CheckInvRestart ==
    ASSUME TypeOK, Restart
    PROVE  CheckInv'
<1>1. reserved' = {} /\ checks' = {} /\ \A c \in Callers : ~Asks(c)' /\ ~Waits(c)'
  BY DEF Restart, Asks, Waits
<1>2. \A j \in Jobs : job'[j].status # "running"
  BY DEF Restart, TypeOK, JobRecords
<1> QED
  BY <1>1, <1>2 DEF CheckInv, OwnedOnce, Owned, Registered, Waiting, OutcomeIsFound, Waits

LEMMA CheckInvStep ==
    ASSUME TypeOK, Known, QueueInv, CheckInv, [Next]_vars
    PROVE  CheckInv'
<1>1. CASE UNCHANGED vars
  <2>1. UNCHANGED <<pc, target, held, checking>> /\ job' = job
    BY <1>1 DEF vars, calling
  <2>2. KeepsJobs /\ NoNewCheck
    BY <2>1, SameKeeps DEF NoNewCheck
  <2> QED
    BY <2>1, <2>2, CheckInvQuiet
<1>2. CASE Restart
  BY <1>2, CheckInvRestart
<1>3. ASSUME Next, ~Restart PROVE CheckInv'
  <2>1. CheckKinds /\ KeepsJobs
    BY <1>3, CheckSteps, JobsAreKept
  <2>2. CASE UNCHANGED <<pc, target, held, checking>> /\ NoNewCheck
    BY <2>1, <2>2, CheckInvQuiet
  <2>3. CASE Ingest
    BY <2>3, CheckInvIngest
  <2>4. ASSUME NEW c \in Callers, NEW a \in Agents, RequestCheck(c, a) PROVE CheckInv'
    BY <2>4, CheckInvRequest
  <2>5. ASSUME NEW c \in Callers, CheckStarts(c) PROVE CheckInv'
    BY <2>1, <2>5, CheckInvStart
  <2>6. ASSUME NEW c \in Callers, CheckNotStarted(c) \/ CheckGivenUp(c) PROVE CheckInv'
    BY <2>1, <2>6, CheckInvLeave
  <2>7. ASSUME NEW c \in Callers, StopsWaiting(c) PROVE CheckInv'
    BY <2>7, CheckInvReturn
  <2> QED
    BY <2>1, <2>2, <2>3, <2>4, <2>5, <2>6, <2>7 DEF CheckKinds
<1> QED
  BY <1>1, <1>2, <1>3

IInv == TypeOK /\ Known /\ QueueInv /\ CheckInv

LEMMA IInvStep == IInv /\ [Next]_vars => IInv'
<1> SUFFICES ASSUME IInv, [Next]_vars PROVE IInv'
  OBVIOUS
<1>1. TypeOK' /\ Known'
  BY TypeStep DEF IInv
<1>2. QueueInv'
  BY <1>1, QueueInvStep DEF IInv
<1>3. CheckInv'
  BY CheckInvStep DEF IInv
<1> QED
  BY <1>1, <1>2, <1>3 DEF IInv

LEMMA IInvIsInvariant == Spec => []IInv
<1>1. Init => IInv
  BY TypeInit, QueueInvInit, CheckInvInit DEF IInv
<1> QED
  BY <1>1, IInvStep, PTL DEF Spec

LEMMA NoneOrOne ==
    ASSUME NEW S, \A x, y \in S : x = y
    PROVE  Cardinality(S) = IF S = {} THEN 0 ELSE 1
<1>1. CASE S = {}
  BY <1>1, FS_EmptySet
<1>2. CASE S # {}
  <2>1. PICK x : x \in S
    BY <1>2
  <2>2. S = {x}
    BY <2>1
  <2> QED
    BY <1>2, <2>2, FS_Singleton
<1> QED
  BY <1>1, <1>2

\* One request or one check per agent.
LEMMA CheckedAlone == IInv => OneCheck /\ ReservationOwned /\ OutcomeIsFound
<1> SUFFICES ASSUME IInv PROVE OneCheck /\ ReservationOwned /\ OutcomeIsFound
  OBVIOUS
<1>1. ASSUME NEW a \in Agents
      PROVE  Cardinality({j \in Jobs : /\ job[j].agent = a /\ job[j].check
                                       /\ job[j].status = "running"}) <= 1
  <2> DEFINE S == {j \in Jobs : job[j].agent = a /\ job[j].check /\ job[j].status = "running"}
  <2>1. \A i, j \in S : i = j
    BY DEF IInv, CheckInv, Registered, OwnedOnce
  <2> HIDE DEF S
  <2>2. Cardinality(S) = IF S = {} THEN 0 ELSE 1
    BY <2>1, NoneOrOne
  <2>3. Cardinality(S) <= 1
    BY <2>2
  <2> QED
    BY <2>3 DEF S
<1>2. ASSUME NEW a \in Agents
      PROVE  LET requests == {c \in Callers : pc[c] = "checking" /\ target[c] = a}
                 registered == {j \in checks : job[j].agent = a} IN
               Cardinality(requests) + Cardinality(registered) = IF a \in reserved THEN 1 ELSE 0
  <2> DEFINE R == {c \in Callers : pc[c] = "checking" /\ target[c] = a}
             C == {j \in checks : job[j].agent = a}
  <2>1. /\ \A x, y \in R : x = y
        /\ \A x, y \in C : x = y
        /\ R = {} \/ C = {}
        /\ a \in reserved <=> R # {} \/ C # {}
    BY DEF IInv, CheckInv, Owned, OwnedOnce, Asks
  <2> HIDE DEF R, C
  <2>2. /\ Cardinality(R) = IF R = {} THEN 0 ELSE 1
        /\ Cardinality(C) = IF C = {} THEN 0 ELSE 1
    BY <2>1, NoneOrOne
  <2>3. Cardinality(R) + Cardinality(C) = IF a \in reserved THEN 1 ELSE 0
    BY <2>1, <2>2
  <2> QED
    BY <2>3 DEF R, C
<1> QED
  BY <1>1, <1>2 DEF OneCheck, ReservationOwned, IInv, CheckInv

\* However many callers ask, an agent is pinged by one self-check at a time.
THEOREM ChecksAreSingle == Spec => []OneCheck
BY IInvIsInvariant, CheckedAlone, PTL

\* No reservation leaks, and none is given back by somebody else.
THEOREM ReservationsAreOwned == Spec => []ReservationOwned
BY IInvIsInvariant, CheckedAlone, PTL

\* A caller finds the outcome of its check, early or late.
THEOREM OutcomesAreFound == Spec => []OutcomeIsFound
BY IInvIsInvariant, CheckedAlone, PTL

-----------------------------------------------------------------------------
(* The response state.                                                      *)

\* What other steps than those of a check, of ingestion and of a dispatch to a
\* missing agent do to it.
ResponsesStay ==
    checks' = checks /\ \A a \in Agents : obs'[a].response = obs[a].response

LEMMA ResponseSteps ==
    ASSUME TypeOK, Known, Next, ~Restart
    PROVE  \/ ResponsesStay \/ Ingest
           \/ \E c \in Callers : CheckStep(c)
           \/ \E a \in Agents : Launches(a)
<1>1. ASSUME NEW a \in Agents, ProbeStep(a) PROVE ResponsesStay
  <2>1. ASSUME NEW what \in {"fit", "unfit"}, ProbeEnds(a, what) PROVE checks' = checks
    BY <2>1 DEF ProbeEnds, checking
  <2>2. CASE ProbeRecords(a)
    BY <2>1, <2>2, ProbeRecordsFacts DEF ResponsesStay
  <2>3. CASE ProbeFails(a)
    BY <2>1, <2>3, ErrorsFacts DEF ProbeFails, ResponsesStay
  <2> QED
    BY <1>1, <2>1, <2>2, <2>3 DEF ResponsesStay, ProbeStep, ProbeReads, ProbeStops, checking
<1>2. ASSUME NEW a \in Agents, UserJobStarts(a) PROVE ResponsesStay
  BY <1>2 DEF ResponsesStay, UserJobStarts, checking
<1>3. ASSUME NEW S \in SUBSET Agents, Look(S) \/ StopsLooking(S) PROVE ResponsesStay
  BY <1>3, ErrorsFacts DEF ResponsesStay, Look, StopsLooking, checking
<1>4. ASSUME NEW c \in Callers, NEW a \in Agents, RequestCheck(c, a) PROVE ResponsesStay
  BY <1>4 DEF ResponsesStay, RequestCheck
<1>5. ASSUME NEW c \in Callers, CancelCheck(c) \/ StopsWaiting(c) PROVE ResponsesStay
  BY <1>5 DEF ResponsesStay, CancelCheck, StopsWaiting, checking
<1>6. ASSUME NEW j \in Jobs, JobProgresses(j) \/ JobClaims(j) \/ JobEnds(j) PROVE ResponsesStay
  BY <1>6 DEF ResponsesStay, JobProgresses, JobClaims, JobEnds, checking
<1> QED
  BY <1>1, <1>2, <1>3, <1>4, <1>5, <1>6 DEF Next

\* What starting a check, or failing to, says of the response.
LEMMA CheckStepSays ==
    ASSUME TypeOK, Known, NEW c \in Callers, CheckStep(c)
    PROVE  \A a \in Agents :
             \/ obs'[a].response = obs[a].response
             \/ obs'[a].response = "failed"
             \/ /\ obs'[a].response = "pending"
                /\ \E j \in checks' : job'[j].agent = a /\ job'[j].check
<1>1. CASE CheckStarts(c)
  <2>1. PICK j \in Jobs : /\ target[c] \in Agents /\ Starts(j, target[c], TRUE, "running")
                          /\ checks' = checks \cup {j} /\ Records(target[c], "pending", j)
    BY <1>1, CheckStartsFacts
  <2>2. /\ obs'[target[c]].response = "pending"
        /\ \A b \in Agents : b # target[c] => obs'[b] = obs[b]
    BY <2>1, ObserveFacts DEF Responses
  <2>3. j \in checks' /\ job'[j].agent = target[c] /\ job'[j].check
    BY <2>1 DEF Starts
  <2> QED
    BY <2>2, <2>3
<1>2. CASE CheckNotStarted(c) \/ CheckGivenUp(c)
  <2>1. /\ target[c] \in Agents
        /\ UNCHANGED <<obs, newer>> \/ Records(target[c], "failed", NoJob)
    BY <1>2, LeaveFacts
  <2> QED
    BY <2>1, ObserveFacts DEF Responses
<1> QED
  BY <1>1, <1>2 DEF CheckStep

\* What an ingested event says of it.
LEMMA IngestSays ==
    ASSUME TypeOK, Known, Ingest
    PROVE  \A a \in Agents :
             \/ obs'[a].response = obs[a].response
             \/ obs'[a].response \in {"responded", "failed"}
             \/ /\ obs'[a].response = "pending"
                /\ \E j \in checks' : job'[j].agent = a /\ j \in checks
<1>1. PICK j \in Jobs, says \in {"running"} \cup Ends, a \in Agents :
         /\ a = job[j].agent /\ job' = job
         /\ \/ j \in checks /\ Records(a, "pending", j) /\ UNCHANGED checking
            \/ Records(a, Outcome(says), NoJob)
            \/ Records(a, Evidence(a, says), IF says = "running" THEN j ELSE NoJob)
  BY IngestKinds
<1>2. ASSUME NEW r \in Responses, NEW w \in Jobs \cup {NoJob}, Records(a, r, w)
      PROVE  obs'[a].response = r /\ \A b \in Agents : b # a => obs'[b] = obs[b]
  BY <1>2, ObserveFacts
<1>3. CASE j \in checks /\ Records(a, "pending", j) /\ UNCHANGED checking
  <2>1. obs'[a].response = "pending" /\ \A b \in Agents : b # a => obs'[b] = obs[b]
    BY <1>2, <1>3 DEF Responses
  <2>2. j \in checks' /\ job'[j].agent = a /\ j \in checks
    BY <1>1, <1>3 DEF checking
  <2> QED
    BY <2>1, <2>2
<1>4. CASE Records(a, Outcome(says), NoJob)
  BY <1>2, <1>4, OutcomeType DEF Responses
<1>5. CASE Records(a, Evidence(a, says), IF says = "running" THEN j ELSE NoJob)
  <2>1. obs'[a].response = Evidence(a, says) /\ \A b \in Agents : b # a => obs'[b] = obs[b]
    BY <1>2, <1>5, EvidenceType
  <2> QED
    BY <2>1, EvidenceType
<1> QED
  BY <1>1, <1>3, <1>4, <1>5

LEMMA PendingInit == Init => PendingIsChecked
BY DEF Init, PendingIsChecked, NothingKnown

LEMMA PendingStep ==
    ASSUME IInv, IInv', PendingIsChecked, [Next]_vars
    PROVE  PendingIsChecked'
<1> USE DEF IInv
<1> DEFINE Why(a, j) == job[j].agent = a /\ job[j].check /\ (j \in checks \/ job[j].status = "lost")
<1>0. \A a \in Agents : obs[a].response = "pending" => \E j \in Jobs : Why(a, j)
  BY DEF PendingIsChecked
<1>k. \A j \in checks : j \in Jobs /\ job[j].check /\ job[j].status \notin {"none", "lost"}
  BY DEF CheckInv, Registered, TypeOK
<1>k2. \A j \in checks' : j \in Jobs /\ job'[j].check
  BY DEF CheckInv, Registered, TypeOK
<1>1. CASE UNCHANGED vars
  BY <1>1 DEF PendingIsChecked, vars, checking
<1>2. CASE Restart
  <2> SUFFICES ASSUME NEW a \in Agents, obs'[a].response = "pending"
               PROVE  \E j \in Jobs : job'[j].agent = a /\ job'[j].check /\ job'[j].status = "lost"
    BY DEF PendingIsChecked
  <2>1. obs' = obs
    BY <1>2 DEF Restart, NothingKnown
  <2>2. PICK j \in Jobs : Why(a, j)
    BY <1>0, <2>1
  <2>3. job[j].status # "none"
    BY <1>k, <2>2
  <2> QED
    BY <1>2, <2>2, <2>3, JobTypes DEF Restart, JobRecords
<1>3. ASSUME Next, ~Restart PROVE PendingIsChecked'
  <2>0. KeepsJobs
    BY <1>3, JobsAreKept
  <2>1. ASSUME NEW a \in Agents, NEW j \in Jobs, Why(a, j), j \in checks => j \in checks'
        PROVE  Why(a, j)'
    BY <1>k, <2>0, <2>1 DEF KeepsJobs
  <2>2. CASE ResponsesStay
    BY <1>0, <2>1, <2>2 DEF ResponsesStay, PendingIsChecked
  <2>3. ASSUME NEW c \in Callers, CheckStep(c) PROVE PendingIsChecked'
    <3>1. checks \subseteq checks'
      BY <2>3 DEF CheckStep, CheckStarts, CheckNotStarted, CheckGivenUp, Leave
    <3> SUFFICES ASSUME NEW a \in Agents, obs'[a].response = "pending"
                 PROVE  \E j \in Jobs : Why(a, j)'
      BY DEF PendingIsChecked
    <3>2. CASE obs'[a].response = obs[a].response
      BY <1>0, <2>1, <3>1, <3>2
    <3>3. CASE \E j \in checks' : job'[j].agent = a /\ job'[j].check
      BY <1>k2, <3>3
    <3> QED
      BY <2>3, <3>2, <3>3, CheckStepSays
  <2>4. CASE Ingest
    <3> SUFFICES ASSUME NEW a \in Agents, obs'[a].response = "pending"
                 PROVE  \E j \in Jobs : Why(a, j)'
      BY DEF PendingIsChecked
    <3>1. CASE \E j \in checks' : job'[j].agent = a /\ j \in checks
      BY <1>k2, <3>1
    <3>2. CASE obs'[a].response = obs[a].response
      <4>1. PICK j \in Jobs : Why(a, j)
        BY <1>0, <3>2
      <4>2. PICK i \in Jobs, says \in {"running"} \cup Ends :
               \/ UNCHANGED checking
               \/ checks' = checks \ {i} /\ Records(job[i].agent, Outcome(says), NoJob)
                  /\ job[i].agent \in Agents
        BY <2>4, IngestKinds
      <4>3. CASE UNCHANGED checking
        BY <2>1, <4>1, <4>3 DEF checking
      <4>4. CASE checks' = checks \ {i} /\ Records(job[i].agent, Outcome(says), NoJob)
                 /\ job[i].agent \in Agents
        <5>1. obs'[job[i].agent].response # "pending"
          BY <4>4, ObserveFacts, OutcomeType DEF Responses
        <5>2. j # i
          BY <4>1, <5>1
        <5> QED
          BY <2>1, <4>1, <4>4, <5>2
      <4> QED
        BY <4>2, <4>3, <4>4
    <3> QED
      BY <2>4, <3>1, <3>2, IngestSays
  <2>5. ASSUME NEW b \in Agents, Launches(b) PROVE PendingIsChecked'
    <3>1. /\ checks' = checks /\ obs'[b].response = "unknown"
          /\ \A a \in Agents : a # b => obs'[a] = obs[a]
      BY <2>5, LaunchesFacts DEF checking
    <3>2. \A a \in Agents : obs'[a].response = "pending" => obs[a].response = "pending"
      BY <3>1
    <3> QED
      BY <1>0, <2>1, <3>1, <3>2 DEF PendingIsChecked
  <2> QED
    BY <1>3, <2>2, <2>3, <2>4, <2>5, ResponseSteps
<1> QED
  BY <1>1, <1>2, <1>3

\* An agent is shown as pending only while a check of it is registered, or
\* because one was lost with its process.
THEOREM PendingHasItsCheck == Spec => []PendingIsChecked
BY IInvIsInvariant, PendingInit, PendingStep, PTL DEF Spec

LEMMA AnswerStep ==
    ASSUME IInv, Next, run' = run, NEW a \in Agents, obs[a].response # "unknown"
    PROVE  obs'[a].response # "unknown" \/ Launches(a)
<1> USE DEF IInv
<1>1. ~Restart
  BY DEF Restart, TypeOK
<1>2. CASE ResponsesStay
  BY <1>2 DEF ResponsesStay
<1>3. ASSUME NEW c \in Callers, CheckStep(c) PROVE obs'[a].response # "unknown"
  BY <1>3, CheckStepSays
<1>4. CASE Ingest
  BY <1>4, IngestSays
<1>5. ASSUME NEW b \in Agents, Launches(b), b # a PROVE obs'[a].response # "unknown"
  BY <1>5, LaunchesFacts
<1> QED
  BY <1>1, <1>2, <1>3, <1>4, <1>5, ResponseSteps

\* What a process knows of an agent's answers only a dispatch to it makes it
\* forget, and only when the agent was missing before.
THEOREM AnswersAreKept == Spec => AnswerKept
<1>1. IInv /\ [Next]_vars
        => [\A a \in Agents : run' = run /\ obs[a].response # "unknown"
                                => obs'[a].response # "unknown" \/ Launches(a)]_vars
  BY AnswerStep
<1> QED
  BY <1>1, IInvIsInvariant, PTL DEF Spec, AnswerKept

-----------------------------------------------------------------------------
(* The current work.                                                        *)

\* Job j may be shown as the work of a: it is a's, and if it is over the queue
\* still tells so.
Shows(a, j) ==
    /\ job[j].status # "none" /\ job[j].agent = a
    /\ job[j].status = "over" => Tells(queue, j)

\* What is shown, or what a probe has seen and would record because nothing
\* newer was observed.
Sees(a, j) == obs[a].work = j \/ (seen[a] = j /\ probe[a] = "read" /\ ~newer[a])

SightInv == \A a \in Agents, j \in Jobs : Sees(a, j) => Shows(a, j)

LEMMA SightInvInit == Init => SightInv
BY DEF Init, SightInv, Sees, NothingKnown, NoJob, Jobs

\* As long as no event is ingested, what may be shown remains so.
LEMMA ShowsStays ==
    ASSUME TypeOK, Known, KeepsJobs, QueueStep, ~Ingest, NEW a \in Agents, NEW j \in Jobs, Shows(a, j)
    PROVE  Shows(a, j)'
<1>1. job'[j].status # "none" /\ job'[j].agent = a
  BY DEF KeepsJobs, Shows
<1>2. ASSUME job'[j].status = "over" PROVE Tells(queue', j)
  <2>1. CASE queue' = queue /\ OthersStay({})
    <3>1. job[j].status = "over"
      BY <1>2, <2>1 DEF OthersStay, Shows
    <3> QED
      BY <2>1, <3>1 DEF Shows
  <2>2. ASSUME NEW i \in Jobs, NEW s \in {"running"} \cup Ends, Reports(i, s)
        PROVE  Tells(queue', j)
    <3> DEFINE e == [job |-> i, says |-> s]
    <3>1. e \in Events /\ e.job = i /\ e.says = s
      BY DEF Events
    <3>2. queue' = Append(queue, e) /\ queue \in Seq(Events)
      BY <2>2 DEF Reports, Emit, TypeOK
    <3> HIDE DEF e
    <3>3. CASE i = j
      <4>1. s # "running"
        BY <1>2, <2>2, <3>3 DEF Reports
      <4> QED
        BY <3>1, <3>2, <3>3, <4>1, TellsMore
    <3>4. CASE i # j
      <4>1. job[j].status = "over"
        BY <1>2, <2>2, <3>4 DEF Reports, OthersStay, Shows
      <4> QED
        BY <3>1, <3>2, <4>1, TellsMore DEF Shows
    <3> QED
      BY <3>3, <3>4
  <2> QED
    BY <2>1, <2>2 DEF QueueStep
<1> QED
  BY <1>1, <1>2 DEF Shows

\* A step that records nothing and at most forgets what probes have seen.
SightsStay ==
    \A a \in Agents :
       /\ obs'[a].work = obs[a].work \/ obs'[a].work = NoJob
       /\ seen'[a] = seen[a] \/ seen'[a] = NoJob
       /\ probe'[a] = "read" => probe[a] = "read" /\ (newer[a] => newer'[a])

SightKinds ==
    \/ SightsStay
    \/ \E a \in Agents : ProbeReads(a) \/ ProbeRecords(a)
    \/ \E c \in Callers : CheckStarts(c)
    \/ Ingest

LEMMA SightSteps ==
    ASSUME TypeOK, Known, Next, ~Restart
    PROVE  SightKinds
<1>1. ASSUME NEW a \in Agents, ProbeFails(a) \/ ProbeStops(a) PROVE SightsStay
  <2>1. ProbeEnds(a, "unfit") /\ \A b \in Agents : obs'[b].work = obs[b].work
    BY <1>1, ErrorsFacts DEF ProbeFails, ProbeStops
  <2> QED
    BY <2>1, ProbeEndsFacts DEF SightsStay
<1>2. ASSUME NEW a \in Agents, UserJobStarts(a) PROVE SightsStay
  BY <1>2 DEF SightsStay, UserJobStarts, probing
<1>3. ASSUME NEW S \in SUBSET Agents, Look(S) \/ StopsLooking(S) PROVE SightsStay
  <2>1. \A a \in Agents : obs'[a].work = obs[a].work
    BY <1>3, ErrorsFacts DEF Look, StopsLooking
  <2> QED
    BY <1>3, <2>1 DEF SightsStay, Look, StopsLooking, Refresh, Stop, TypeOK
<1>4. ASSUME NEW c \in Callers, NEW a \in Agents, RequestCheck(c, a) PROVE SightsStay
  BY <1>4 DEF SightsStay, RequestCheck, Refresh, TypeOK
<1>5. ASSUME NEW c \in Callers, CancelCheck(c) \/ StopsWaiting(c) PROVE SightsStay
  BY <1>5 DEF SightsStay, CancelCheck, StopsWaiting, Stop, probing, TypeOK
<1>6. ASSUME NEW c \in Callers, CheckNotStarted(c) \/ CheckGivenUp(c) PROVE SightsStay
  <2>1. /\ target[c] \in Agents /\ UNCHANGED <<probe, seen>>
        /\ UNCHANGED <<obs, newer>> \/ Records(target[c], "failed", NoJob)
    BY <1>6, LeaveFacts
  <2>2. CASE UNCHANGED <<obs, newer>>
    BY <2>1, <2>2 DEF SightsStay
  <2>3. CASE Records(target[c], "failed", NoJob)
    <3>1. /\ obs'[target[c]].work = NoJob /\ newer'[target[c]] = (probe[target[c]] = "read")
          /\ \A b \in Agents : b # target[c] => obs'[b] = obs[b] /\ newer'[b] = newer[b]
      BY <2>1, <2>3, ObserveFacts DEF Responses
    <3> QED
      BY <2>1, <3>1 DEF SightsStay
  <2> QED
    BY <2>1, <2>2, <2>3
<1>7. ASSUME NEW j \in Jobs, JobProgresses(j) \/ JobClaims(j) \/ JobEnds(j) PROVE SightsStay
  BY <1>7 DEF SightsStay, JobProgresses, JobClaims, JobEnds, probing
<1>8. ASSUME NEW a \in Agents, Launches(a) PROVE SightsStay
  <2>1. /\ UNCHANGED <<probe, seen>> /\ obs'[a].work = NoJob /\ newer'[a] = (probe[a] = "read")
        /\ \A b \in Agents : b # a => obs'[b] = obs[b] /\ newer'[b] = newer[b]
    BY <1>8, LaunchesFacts
  <2> QED
    BY <2>1 DEF SightsStay
<1> QED
  BY <1>1, <1>2, <1>3, <1>4, <1>5, <1>6, <1>7, <1>8 DEF Next, ProbeStep, CheckStep, SightKinds

LEMMA SightStep ==
    ASSUME IInv, SightInv, [Next]_vars, IInv'
    PROVE  SightInv'
<1> USE DEF IInv
<1>0. NoJob \notin Jobs /\ Missing \notin Jobs
  BY DEF NoJob, Missing, Jobs
<1>1. CASE UNCHANGED vars
  BY <1>1 DEF SightInv, Sees, Shows, Tells, vars, probing
<1>2. CASE Restart
  <2>1. \A j \in Jobs : job[j].status # "none" =>
                           job'[j].status = "lost" /\ job'[j].agent = job[j].agent
    BY <1>2, JobTypes DEF Restart, JobRecords, TypeOK
  <2>2. \A a \in Agents : /\ obs'[a].work = obs[a].work \/ obs'[a].work = NoJob
                          /\ seen'[a] = NoJob
    BY <1>2 DEF Restart, NothingKnown
  <2> QED
    BY <1>0, <2>1, <2>2 DEF SightInv, Sees, Shows
<1>3. ASSUME Next, ~Restart, ~Ingest PROVE SightInv'
  <2>1. KeepsJobs /\ QueueStep
    BY <1>3, JobsAreKept, QueueSteps
  <2>2. ASSUME NEW a \in Agents, NEW j \in Jobs, Shows(a, j) PROVE Shows(a, j)'
    BY <1>3, <2>1, <2>2, ShowsStays
  <2>q. SUFFICES ASSUME NEW a \in Agents, NEW j \in Jobs, Sees(a, j)', ~Sees(a, j)
                 PROVE  Shows(a, j)'
    BY <2>2 DEF SightInv
  <2>3. CASE SightsStay
    BY <1>0, <2>q, <2>3 DEF SightsStay, Sees
  <2>4. ASSUME NEW b \in Agents, ProbeReads(b) PROVE Shows(a, j)'
    <3>1. PICK i \in Found(b) \cup {NoJob, Missing} : seen' = [seen EXCEPT ![b] = i]
      BY <2>4, ProbeFinds
    <3>2. obs' = obs /\ job' = job /\ newer' = newer /\ probe' = [probe EXCEPT ![b] = "read"]
      BY <2>4 DEF ProbeReads
    <3>3. a = b /\ i = j
      BY <2>q, <3>1, <3>2 DEF Sees, TypeOK
    <3>4. job'[j].agent = a /\ job'[j].status \in {"running", "claimed"}
      BY <1>0, <3>1, <3>2, <3>3 DEF Found
    <3> QED
      BY <3>4 DEF Shows
  <2>5. ASSUME NEW b \in Agents, ProbeRecords(b) PROVE Shows(a, j)'
    <3>1. PICK what \in {"fit", "unfit"} : ProbeEnds(b, what)
      BY <2>5 DEF ProbeRecords
    <3>2. /\ probe'[b] = "none"
          /\ \A c \in Agents : c # b => /\ probe'[c] = probe[c] /\ seen'[c] = seen[c]
                                        /\ newer'[c] = newer[c]
      BY <3>1, ProbeEndsFacts
    <3>3. /\ \A c \in Agents : c # b => obs'[c] = obs[c]
          /\ \/ obs'[b] = obs[b]
             \/ ~newer[b] /\ obs'[b].work = IF seen[b] \in Jobs THEN seen[b] ELSE NoJob
      BY <2>5, ProbeRecordsFacts
    <3>7. Sees(a, j)
      BY <1>0, <2>q, <2>5, <3>2, <3>3 DEF Sees, ProbeRecords
    <3> QED
      BY <2>q, <3>7
  <2>6. ASSUME NEW c \in Callers, CheckStarts(c) PROVE Shows(a, j)'
    <3>1. PICK i \in Jobs : /\ target[c] \in Agents /\ Starts(i, target[c], TRUE, "running")
                            /\ Records(target[c], "pending", i) /\ UNCHANGED <<probe, seen>>
      BY <2>6, CheckStartsFacts
    <3>2. /\ obs'[target[c]].work = i /\ newer'[target[c]] = (probe[target[c]] = "read")
          /\ \A b \in Agents : b # target[c] => obs'[b] = obs[b] /\ newer'[b] = newer[b]
      BY <3>1, ObserveFacts DEF Responses
    <3>3. a = target[c] /\ j = i
      BY <2>q, <3>1, <3>2 DEF Sees
    <3> QED
      BY <3>1, <3>3 DEF Shows, Starts
  <2> QED
    BY <1>3, <2>3, <2>4, <2>5, <2>6, SightSteps DEF SightKinds
<1>4. CASE Ingest
  <2>1. PICK i \in Jobs, says \in {"running"} \cup Ends, b \in Agents, r \in Responses :
           /\ i = Head(queue).job /\ says = Head(queue).says /\ b = job[i].agent
           /\ queue # <<>> /\ queue' = Tail(queue) /\ UNCHANGED <<probe, seen, job>>
           /\ Records(b, r, IF says = "running" THEN i ELSE NoJob)
    BY <1>4, IngestKinds, OutcomeType, EvidenceType DEF Responses
  <2>2. /\ obs'[b].work = IF says = "running" THEN i ELSE NoJob
        /\ newer'[b] = (probe[b] = "read")
        /\ \A c \in Agents : c # b => obs'[c] = obs[c] /\ newer'[c] = newer[c]
    BY <2>1, ObserveFacts
  <2> SUFFICES ASSUME NEW a \in Agents, NEW j \in Jobs, Sees(a, j)'
               PROVE  Shows(a, j)'
    BY DEF SightInv
  <2>3. CASE a # b
    <3>1. Sees(a, j)
      BY <2>1, <2>2, <2>3 DEF Sees
    <3>2. Shows(a, j) /\ i # j
      BY <2>1, <2>3, <3>1 DEF SightInv, Shows
    <3>3. Tells(queue, j) => Tells(Tail(queue), j)
      BY <2>1, <3>2, TellsStill DEF TypeOK
    <3> QED
      BY <2>1, <3>2, <3>3 DEF Shows
  <2>4. CASE a = b
    <3>1. j = i /\ says = "running"
      BY <1>0, <2>1, <2>2, <2>4 DEF Sees
    <3>2. job[j].status # "none"
      BY <2>1, <3>1, KnownTail
    <3>3. ASSUME job[j].status = "over" PROVE Tells(Tail(queue), j)
      <4>1. Head(queue) = queue[1] /\ 1 \in 1 .. Len(queue) /\ queue \in Seq(Events)
        BY <2>1, Taken DEF TypeOK
      <4>2. PICK k \in 1 + 1 .. Len(queue) : queue[k].job = j /\ queue[k].says # "running"
        BY <2>1, <3>1, <3>3, <4>1 DEF QueueInv
      <4>3. Tells(queue, j)
        <5>1. k \in 1 .. Len(queue)
          BY <4>1
        <5> QED
          BY <4>2, <5>1 DEF Tells
      <4> QED
        BY <2>1, <3>1, <4>1, <4>3, TellsStill
    <3> QED
      BY <2>1, <2>4, <3>1, <3>2, <3>3 DEF Shows
  <2> QED
    BY <2>3, <2>4
<1> QED
  BY <1>1, <1>2, <1>3, <1>4

LEMMA SightIsTrue == IInv /\ SightInv => NoGhostWork
<1> SUFFICES ASSUME IInv, SightInv, NEW a \in Agents,
                    obs[a].work # NoJob, job[obs[a].work].status = "over"
             PROVE  \E i \in DOMAIN queue : /\ queue[i].job = obs[a].work
                                            /\ queue[i].says # "running"
  BY DEF NoGhostWork
<1>1. obs[a].work \in Jobs /\ DOMAIN queue = 1 .. Len(queue)
  BY ObsTypes DEF IInv, TypeOK
<1>2. Tells(queue, obs[a].work)
  BY <1>1 DEF SightInv, Sees, Shows
<1> QED
  BY <1>1, <1>2 DEF Tells

\* A job that is over is not shown as current work once its end was ingested.
THEOREM NoGhosts == Spec => []NoGhostWork
BY IInvIsInvariant, SightInvInit, SightStep, SightIsTrue, PTL DEF Spec

-----------------------------------------------------------------------------
(* The control plane keeps SelfCheckContract.                               *)

Runs(j) == job[j].check /\ job[j].status = "running"

\* What each part of the picture depends on.
LEMMA PingingStays ==
    ASSUME \A j \in Jobs : Runs(j)' <=> Runs(j),
           \A j \in Jobs : Runs(j) => job'[j].agent = job[j].agent
    PROVE  UNCHANGED Pinging
<1>1. {j \in Jobs : job'[j].check /\ job'[j].status = "running"}
        = {j \in Jobs : job[j].check /\ job[j].status = "running"}
  BY DEF Runs
<1>2. \A j \in Jobs : job[j].check /\ job[j].status = "running" => CheckOf(j)' = CheckOf(j)
  BY DEF Runs, CheckOf
<1> HIDE DEF CheckOf
<1> QED
  BY <1>1, <1>2 DEF Pinging

LEMMA UndecidedStays ==
    ASSUME UNCHANGED checks, \A j \in checks : job'[j].agent = job[j].agent
    PROVE  UNCHANGED Undecided
BY DEF Undecided, CheckOf

LEMMA AskingStays ==
    ASSUME \A c \in Callers : Asks(c)' <=> Asks(c),
           \A c \in Callers : Asks(c) => target'[c] = target[c]
    PROVE  UNCHANGED Asking
BY DEF Asking, Asks

LEMMA AwaitingStays ==
    ASSUME \A c \in Callers : Waits(c)' <=> Waits(c),
           \A c \in Callers : Waits(c) => held'[c] = held[c] /\ waiter'[held[c]] = waiter[held[c]]
    PROVE  UNCHANGED Awaiting
BY DEF Awaiting, Waits

LEMMA CallersStay ==
    ASSUME TypeOK, KeepsJobs, CheckInv, UNCHANGED <<pc, target, held, checking>>, Known
    PROVE  UNCHANGED <<Asking, Undecided, Awaiting>>
<1>1. UNCHANGED Asking
  BY AskingStays DEF Asks
<1>2. UNCHANGED Awaiting
  BY AwaitingStays DEF Waits, checking
<1>3. UNCHANGED Undecided
  BY KeptFacts, UndecidedStays DEF checking
<1> QED
  BY <1>1, <1>2, <1>3

\* What goes on without the callers: jobs start, move on and end.
JobKinds ==
    \/ UNCHANGED job
    \/ \E j \in Jobs, a \in Agents : Starts(j, a, FALSE, "running")
    \/ \E j \in Jobs, status \in {"claimed", "over"} : Moves(j, status)

QuietStep == UNCHANGED <<pc, target, held, checking>> /\ JobKinds

CallerStep ==
    \/ \E c \in Callers : \/ \E a \in Agents : RequestCheck(c, a)
                          \/ CheckStarts(c) \/ CheckNotStarted(c) \/ CheckGivenUp(c)
                          \/ StopsWaiting(c)
    \/ Ingest

LEMMA ContractSteps ==
    ASSUME TypeOK, Next, ~Restart
    PROVE  QuietStep \/ CallerStep
<1>1. ASSUME NEW a \in Agents, ProbeStep(a) PROVE QuietStep
  BY <1>1 DEF QuietStep, JobKinds, ProbeStep, ProbeReads, ProbeRecords, ProbeFails, ProbeStops,
              ProbeEnds, calling
<1>2. ASSUME NEW a \in Agents, UserJobStarts(a) PROVE QuietStep
  <2>1. PICK j \in Jobs : NewJob(j, a, FALSE, "running")
    BY <1>2 DEF UserJobStarts
  <2>2. Starts(j, a, FALSE, "running")
    BY <2>1, NewJobFacts
  <2> QED
    BY <1>2, <2>2 DEF QuietStep, JobKinds, UserJobStarts, calling
<1>3. ASSUME NEW S \in SUBSET Agents, Look(S) \/ StopsLooking(S) PROVE QuietStep
  BY <1>3 DEF QuietStep, JobKinds, Look, StopsLooking, calling
<1>4. ASSUME NEW c \in Callers, CancelCheck(c) PROVE QuietStep
  BY <1>4 DEF QuietStep, JobKinds, CancelCheck
<1>5. ASSUME NEW j \in Jobs, JobProgresses(j) \/ JobClaims(j) \/ JobEnds(j) PROVE QuietStep
  <2>1. UNCHANGED <<pc, target, held, checking>>
    BY <1>5 DEF JobProgresses, JobClaims, JobEnds, calling
  <2>2. JobKinds
    BY <1>5, MovesFacts DEF JobKinds, JobProgresses, JobClaims, JobEnds, Alive
  <2> QED
    BY <2>1, <2>2 DEF QuietStep
<1>6. ASSUME NEW a \in Agents, Launches(a) PROVE QuietStep
  BY <1>6, LaunchesFacts DEF QuietStep, JobKinds, calling
<1> QED
  BY <1>1, <1>2, <1>3, <1>4, <1>5, <1>6 DEF Next, CheckStep, CallerStep

\* A step that the callers do not see, or the end of a check's process.
LEMMA QuietKeeps ==
    ASSUME TypeOK, Known, KeepsJobs, CheckInv, QuietStep
    PROVE  SelfCheck!Next \/ UNCHANGED SelfCheck!svars
<1>1. UNCHANGED <<Asking, Undecided, Awaiting>>
  BY CallersStay DEF QuietStep
<1>2. CASE UNCHANGED Pinging
  BY <1>1, <1>2 DEF SelfCheck!svars
<1>3. CASE UNCHANGED job
  BY <1>2, <1>3, PingingStays DEF Runs
<1>4. ASSUME NEW j \in Jobs, NEW a \in Agents, Starts(j, a, FALSE, "running")
      PROVE  UNCHANGED Pinging
  BY <1>4, PingingStays DEF Starts, Runs
<1>5. ASSUME NEW j \in Jobs, NEW status \in {"claimed", "over"}, Moves(j, status)
      PROVE  SelfCheck!Next \/ UNCHANGED SelfCheck!svars
  <2>1. CASE ~Runs(j)
    BY <1>2, <1>5, <2>1, PingingStays DEF Moves, Runs
  <2>2. CASE Runs(j)
    <3>1. \A i \in Jobs : Runs(i)' <=> Runs(i) /\ i # j
      BY <1>5 DEF Moves, Runs
    <3>2. \A i \in Jobs : CheckOf(i)' = CheckOf(i)
      BY <1>5 DEF Moves, CheckOf
    <3>3. \A i \in Jobs : CheckOf(i) = CheckOf(j) => i = j
      BY DEF CheckOf
    <3>4. Pinging = {CheckOf(i) : i \in {i \in Jobs : Runs(i)}}
      BY DEF Pinging, Runs
    <3>5. Pinging' = {CheckOf(i)' : i \in {i \in Jobs : Runs(i)'}}
      BY DEF Pinging, Runs
    <3> HIDE DEF CheckOf
    <3>6. Pinging' = Pinging \ {CheckOf(j)} /\ CheckOf(j) \in Pinging
      BY <2>2, <3>1, <3>2, <3>3, <3>4, <3>5
    <3>7. SelfCheck!Stop(CheckOf(j))
      BY <1>1, <3>6 DEF SelfCheck!Stop
    <3> QED
      BY <3>6, <3>7 DEF SelfCheck!Next
  <2> QED
    BY <2>1, <2>2
<1> QED
  BY <1>2, <1>3, <1>4, <1>5 DEF QuietStep, JobKinds

LEMMA RequestAsks ==
    ASSUME TypeOK, CheckInv, NEW c \in Callers, NEW a \in Agents, RequestCheck(c, a)
    PROVE  SelfCheck!Next
<1>1. /\ a \notin reserved /\ pc[c] = "idle"
      /\ pc' = [pc EXCEPT ![c] = "checking"] /\ target' = [target EXCEPT ![c] = a]
      /\ UNCHANGED <<held, checks, waiter, job>>
  BY DEF RequestCheck, Unreserved
<1>2. /\ Asks(c)' /\ target'[c] = a /\ ~Asks(c) /\ ~Waits(c)
      /\ \A d \in Callers : d # c => Asks(d)' = Asks(d) /\ target'[d] = target[d]
      /\ \A d \in Callers : Waits(d)' = Waits(d)
  BY <1>1 DEF Asks, Waits, TypeOK
<1>3. UNCHANGED Pinging /\ UNCHANGED Undecided
  BY <1>1, PingingStays, UndecidedStays DEF Runs
<1>4. UNCHANGED Awaiting
  BY <1>1, <1>2, AwaitingStays
<1>5. Asking' = Asking \cup {[caller |-> c, agent |-> a]}
  <2>1. {d \in Callers : pc'[d] = "checking"} = {d \in Callers : pc[d] = "checking"} \cup {c}
    BY <1>2 DEF Asks
  <2>2. \A d \in Callers : pc[d] = "checking" => target'[d] = target[d]
    BY <1>2 DEF Asks
  <2> QED
    BY <1>2, <2>1, <2>2 DEF Asking
<1>6. ~SelfCheck!Busy(c)
  BY <1>2 DEF SelfCheck!Busy, Asking, Awaiting, Asks, Waits
<1>7. ~SelfCheck!Reserved(a)
  BY <1>1 DEF SelfCheck!Reserved, Asking, Undecided, CheckOf, CheckInv, OwnedOnce, Asks
<1>8. SelfCheck!Ask(c, a)
  BY <1>3, <1>4, <1>5, <1>6, <1>7 DEF SelfCheck!Ask
<1> QED
  BY <1>8 DEF SelfCheck!Next

LEMMA AskingLeft ==
    ASSUME TypeOK, NEW c \in Callers, Asks(c), ~Asks(c)',
           \A d \in Callers : d # c => Asks(d)' = Asks(d) /\ target'[d] = target[d]
    PROVE  LET r == [caller |-> c, agent |-> target[c]] IN
             r \in Asking /\ Asking' = Asking \ {r}
<1> DEFINE Of(d) == [caller |-> d, agent |-> target[d]]
<1>1. Asking = {Of(d) : d \in {d \in Callers : Asks(d)}}
  BY DEF Asking, Asks
<1>2. Asking' = {Of(d)' : d \in {d \in Callers : Asks(d)'}}
  BY DEF Asking, Asks
<1>3. \A d \in Callers : Asks(d)' <=> Asks(d) /\ d # c
  OBVIOUS
<1>4. \A d \in Callers : d # c => Of(d)' = Of(d) /\ Of(d) # Of(c)
  OBVIOUS
<1> HIDE DEF Of
<1>5. Of(c) \in Asking /\ Asking' = Asking \ {Of(c)}
  BY <1>1, <1>2, <1>3, <1>4
<1> QED
  BY <1>5 DEF Of

LEMMA StartIsOne ==
    ASSUME TypeOK, Known, KeepsJobs, CheckInv, NEW c \in Callers, CheckStarts(c)
    PROVE  SelfCheck!Next
<1>1. PICK j \in Jobs :
         /\ target[c] \in Agents /\ pc[c] = "checking" /\ Starts(j, target[c], TRUE, "running")
         /\ checks' = checks \cup {j} /\ waiter' = [waiter EXCEPT ![j] = "open"]
         /\ held' = [held EXCEPT ![c] = j]
         /\ pc' = [pc EXCEPT ![c] = "waiting"] /\ target' = [target EXCEPT ![c] = NoAgent]
  BY CheckStartsFacts
<1> DEFINE r == [caller |-> c, agent |-> target[c]]
           k == [check |-> j, agent |-> target[c]]
           w == [caller |-> c, check |-> j, answer |-> "open"]
<1>2. /\ job[j].status = "none" /\ Runs(j)' /\ ~Runs(j) /\ CheckOf(j)' = k
      /\ \A i \in Jobs : i # j => Runs(i)' = Runs(i) /\ CheckOf(i)' = CheckOf(i)
  BY <1>1 DEF Starts, Runs, CheckOf
<1>3. /\ Asks(c) /\ ~Asks(c)' /\ Waits(c)' /\ ~Waits(c) /\ held'[c] = j /\ waiter'[j] = "open"
      /\ \A d \in Callers : d # c => /\ Asks(d)' = Asks(d) /\ target'[d] = target[d]
                                     /\ Waits(d)' = Waits(d) /\ held'[d] = held[d]
  BY <1>1 DEF Asks, Waits, TypeOK
<1>4. r \in Asking /\ Asking' = Asking \ {r}
  BY <1>3, AskingLeft
<1>5. j \notin checks /\ checks \subseteq Jobs
  BY <1>2 DEF CheckInv, Registered, TypeOK
<1>6. \A d \in Callers : Waits(d) => held[d] # j /\ held[d] \in Jobs
  BY <1>2 DEF CheckInv, Waiting
<1>7. Pinging' = Pinging \cup {k}
  <2>1. Pinging = {CheckOf(i) : i \in {i \in Jobs : Runs(i)}}
    BY DEF Pinging, Runs
  <2>2. Pinging' = {CheckOf(i)' : i \in {i \in Jobs : Runs(i)'}}
    BY DEF Pinging, Runs
  <2> HIDE DEF CheckOf, k
  <2> QED
    BY <1>2, <2>1, <2>2
<1>8. Undecided' = Undecided \cup {k}
  <2>1. Undecided = {CheckOf(i) : i \in checks} /\ Undecided' = {CheckOf(i)' : i \in checks'}
    BY DEF Undecided
  <2> HIDE DEF CheckOf, k
  <2> QED
    BY <1>1, <1>2, <1>5, <2>1
<1>9. Awaiting' = Awaiting \cup {w}
  <2> DEFINE Of(d) == [caller |-> d, check |-> held[d], answer |-> waiter[held[d]]]
  <2>1. Awaiting = {Of(d) : d \in {d \in Callers : Waits(d)}}
    BY DEF Awaiting, Waits
  <2>2. Awaiting' = {Of(d)' : d \in {d \in Callers : Waits(d)'}}
    BY DEF Awaiting, Waits
  <2>3. Of(c)' = w
    BY <1>3
  <2>4. \A d \in Callers : Waits(d) => d # c /\ held'[d] = held[d] /\ waiter'[held[d]] = waiter[held[d]]
    BY <1>1, <1>3, <1>6 DEF TypeOK
  <2>5. \A d \in Callers : Waits(d) => Of(d)' = Of(d)
    BY <2>4
  <2>6. \A d \in Callers : Waits(d)' <=> Waits(d) \/ d = c
    BY <1>3
  <2> HIDE DEF Of, w
  <2> QED
    BY <2>1, <2>2, <2>3, <2>5, <2>6
<1>10. \A x \in Pinging \cup Undecided \cup Awaiting : x.check # j
  <2>1. \A x \in Pinging : x.check # j
    BY <1>2 DEF Pinging, Runs, CheckOf
  <2>2. \A x \in Undecided : x.check # j
    BY <1>5 DEF Undecided, CheckOf
  <2>3. \A x \in Awaiting : x.check # j
    BY <1>6 DEF Awaiting, Waits
  <2> QED
    BY <2>1, <2>2, <2>3
<1>11. SelfCheck!Start(r, j)
  BY <1>4, <1>7, <1>8, <1>9, <1>10 DEF SelfCheck!Start
<1> HIDE DEF r
<1> QED
  BY <1>4, <1>11 DEF SelfCheck!Next

LEMMA LeaveGivesUp ==
    ASSUME TypeOK, Known, KeepsJobs, CheckInv, NEW c \in Callers,
           CheckNotStarted(c) \/ CheckGivenUp(c)
    PROVE  SelfCheck!Next
<1>1. /\ pc[c] = "checking"
      /\ pc' = [pc EXCEPT ![c] = "idle"] /\ target' = [target EXCEPT ![c] = NoAgent]
      /\ UNCHANGED <<held, checks, waiter>>
      /\ \/ UNCHANGED <<job, queue>>
         \/ \E j \in Jobs : Starts(j, target[c], TRUE, "over")
  BY LeaveFacts
<1>2. /\ Asks(c) /\ ~Asks(c)'
      /\ \A d \in Callers : d # c => Asks(d)' = Asks(d) /\ target'[d] = target[d]
      /\ \A d \in Callers : Waits(d)' = Waits(d)
  BY <1>1 DEF Asks, Waits, TypeOK
<1> DEFINE r == [caller |-> c, agent |-> target[c]]
<1>3. r \in Asking /\ Asking' = Asking \ {r}
  BY <1>2, AskingLeft
<1>4. UNCHANGED Pinging
  BY <1>1, PingingStays DEF Starts, Runs
<1>5. UNCHANGED Undecided /\ UNCHANGED Awaiting
  BY <1>1, <1>2, KeptFacts, UndecidedStays, AwaitingStays
<1> HIDE DEF r
<1>6. SelfCheck!GiveUp(r)
  BY <1>3, <1>4, <1>5 DEF SelfCheck!GiveUp
<1> QED
  BY <1>3, <1>6 DEF SelfCheck!Next

LEMMA ReturnCollects ==
    ASSUME TypeOK, CheckInv, NEW c \in Callers, StopsWaiting(c)
    PROVE  SelfCheck!Next
<1> DEFINE Of(d) == [caller |-> d, check |-> held[d], answer |-> waiter[held[d]]]
<1>1. /\ pc[c] = "waiting" /\ waiter' = [waiter EXCEPT ![held[c]] = "none"]
      /\ pc' = [pc EXCEPT ![c] = "idle"] /\ held' = [held EXCEPT ![c] = NoJob]
      /\ UNCHANGED <<target, reserved, checks, job>>
  BY DEF StopsWaiting
<1>2. /\ Waits(c) /\ ~Waits(c)'
      /\ \A d \in Callers : d # c => Waits(d)' = Waits(d) /\ held'[d] = held[d]
      /\ \A d \in Callers : Asks(d)' = Asks(d)
  BY <1>1 DEF Asks, Waits, TypeOK
<1>3. \A d \in Callers : d # c /\ Waits(d) => held[d] \in Jobs /\ held[d] # held[c]
  BY <1>2 DEF CheckInv, Waiting
<1>4. \A d \in Callers : d # c /\ Waits(d) => held'[d] = held[d] /\ waiter'[held[d]] = waiter[held[d]]
  BY <1>1, <1>2, <1>3 DEF TypeOK
<1>5. UNCHANGED Asking
  BY <1>1, <1>2, AskingStays
<1>6. UNCHANGED Undecided
  BY <1>1, UndecidedStays
<1>7. UNCHANGED Pinging
  BY <1>1, PingingStays DEF Runs
<1>8. Awaiting = {Of(d) : d \in {d \in Callers : Waits(d)}}
  BY DEF Awaiting, Waits
<1>9. Awaiting' = {Of(d)' : d \in {d \in Callers : Waits(d)'}}
  BY DEF Awaiting, Waits
<1>10. \A d \in Callers : d # c /\ Waits(d) => Of(d)' = Of(d)
  BY <1>4
<1>11. \A d \in Callers : d # c => Of(d) # Of(c)
  OBVIOUS
<1>12. \A d \in Callers : Waits(d)' <=> Waits(d) /\ d # c
  BY <1>2
<1> HIDE DEF Of
<1>13. Awaiting' = Awaiting \ {Of(c)} /\ Of(c) \in Awaiting
  BY <1>2, <1>8, <1>9, <1>10, <1>11, <1>12
<1>14. SelfCheck!Collect(Of(c))
  BY <1>5, <1>6, <1>7, <1>13 DEF SelfCheck!Collect
<1> QED
  BY <1>13, <1>14 DEF SelfCheck!Next

LEMMA IngestDecides ==
    ASSUME TypeOK, Known, QueueInv, CheckInv, Ingest
    PROVE  SelfCheck!Next \/ UNCHANGED SelfCheck!svars
<1>1. PICK j \in Jobs, says \in {"running"} \cup Ends :
         /\ says # "running" => job[j].status \in {"claimed", "over"}
         /\ UNCHANGED <<pc, target, told, held, job>>
         /\ \/ UNCHANGED <<reserved, checks, waiter>>
            \/ /\ j \in checks /\ says # "running"
               /\ checks' = checks \ {j} /\ reserved' = reserved \ {job[j].agent}
               /\ waiter' = [waiter EXCEPT ![j] = Resolved(j, Outcome(says))]
  BY IngestKinds, DecidedIsOver DEF calling, checking
<1>2. UNCHANGED Pinging /\ UNCHANGED Asking
  BY <1>1, PingingStays, AskingStays DEF Runs, Asks
<1>3. CASE UNCHANGED <<reserved, checks, waiter>>
  BY <1>1, <1>2, <1>3 DEF SelfCheck!svars, Undecided, Awaiting, CheckOf
<1>4. CASE /\ j \in checks /\ says # "running"
           /\ checks' = checks \ {j}
           /\ waiter' = [waiter EXCEPT ![j] = Resolved(j, Outcome(says))]
  <2> DEFINE k == CheckOf(j)
             o == Outcome(says)
             Of(d) == [caller |-> d, check |-> held[d], answer |-> waiter[held[d]]]
  <2>1. o \in {"responded", "failed"}
    BY OutcomeType
  <2>2. k \in Undecided /\ Undecided' = Undecided \ {k}
    <3>1. \A i : CheckOf(i)' = CheckOf(i) /\ (CheckOf(i) = CheckOf(j) => i = j)
      BY <1>1 DEF CheckOf
    <3>2. Undecided = {CheckOf(i) : i \in checks} /\ Undecided' = {CheckOf(i)' : i \in checks'}
      BY DEF Undecided
    <3> HIDE DEF CheckOf
    <3> QED
      BY <1>4, <3>1, <3>2
  <2>3. k \notin Pinging
    BY <1>1, <1>4 DEF Pinging, CheckOf
  <2>4. \A d \in Callers : Waits(d)' = Waits(d) /\ held'[d] = held[d]
    BY <1>1 DEF Waits
  <2>5. \A d \in Callers : Waits(d) => Of(d)' = SelfCheck!Answered(Of(d), k, o)
    <3> SUFFICES ASSUME NEW d \in Callers, Waits(d)
                 PROVE  Of(d)' = SelfCheck!Answered(Of(d), k, o)
      OBVIOUS
    <3>1. k.check = j /\ held[d] \in Jobs
      BY DEF CheckOf, CheckInv, Waiting
    <3>2. CASE held[d] = j
      <4>1. waiter[j] = "open"
        BY <1>4, <3>2 DEF CheckInv, OutcomeIsFound, Waits
      <4>2. waiter'[j] = o
        BY <1>4, <3>1, <3>2, <4>1 DEF Resolved, TypeOK
      <4> QED
        BY <2>4, <3>1, <3>2, <4>2 DEF SelfCheck!Answered
    <3>3. CASE held[d] # j
      <4>1. waiter'[held[d]] = waiter[held[d]]
        BY <1>4, <3>1, <3>3 DEF TypeOK
      <4> QED
        BY <2>4, <3>1, <3>3, <4>1 DEF SelfCheck!Answered
    <3> QED
      BY <3>2, <3>3
  <2>6. Awaiting = {Of(d) : d \in {d \in Callers : Waits(d)}}
    BY DEF Awaiting, Waits
  <2>7. Awaiting' = {Of(d)' : d \in {d \in Callers : Waits(d)'}}
    BY DEF Awaiting, Waits
  <2> HIDE DEF Of, k, o
  <2>8. Awaiting' = {SelfCheck!Answered(x, k, o) : x \in Awaiting}
    BY <2>4, <2>5, <2>6, <2>7
  <2>9. SelfCheck!Decide(k, o)
    BY <1>2, <2>2, <2>3, <2>8 DEF SelfCheck!Decide
  <2> QED
    BY <2>1, <2>2, <2>9 DEF SelfCheck!Next
<1> QED
  BY <1>1, <1>3, <1>4

LEMMA RestartCrashes ==
    ASSUME TypeOK, Restart
    PROVE  SelfCheck!Next
<1>1. Asking' = {} /\ Undecided' = {} /\ Awaiting' = {}
  BY DEF Restart, Asking, Undecided, Awaiting
<1>2. \A j \in Jobs : job'[j].status # "running"
  BY DEF Restart, TypeOK, JobRecords
<1>3. Pinging' = {}
  BY <1>2 DEF Pinging
<1> QED
  BY <1>1, <1>3 DEF SelfCheck!Next, SelfCheck!Crash

LEMMA SelfCheckInit == Init => SelfCheck!Init
BY DEF Init, SelfCheck!Init, Asking, Pinging, Undecided, Awaiting

LEMMA SelfCheckStep ==
    ASSUME IInv, [Next]_vars
    PROVE  [SelfCheck!Next]_(SelfCheck!svars)
<1> USE DEF IInv
<1>1. CASE UNCHANGED vars
  BY <1>1 DEF vars, calling, checking, SelfCheck!svars, Asking, Pinging, Undecided, Awaiting, CheckOf
<1>2. CASE Restart
  BY <1>2, RestartCrashes
<1>3. ASSUME Next, ~Restart PROVE SelfCheck!Next \/ UNCHANGED SelfCheck!svars
  <2>1. KeepsJobs
    BY <1>3, JobsAreKept
  <2>2. QuietStep \/ CallerStep
    BY <1>3, ContractSteps
  <2> QED
    BY <2>1, <2>2, QuietKeeps, RequestAsks, StartIsOne, LeaveGivesUp, ReturnCollects, IngestDecides
       DEF CallerStep
<1> QED
  BY <1>1, <1>2, <1>3

\* An agent is reserved, pinged and released once, and the caller of a check finds
\* the outcome that it had, whoever asks, is cancelled or gives up meanwhile
\* (service.py:240-351 and 530-616).
THEOREM PlaneKeepsSelfChecks == Spec => KeepsSelfChecks
<1>1. IInv /\ [Next]_vars => [SelfCheck!Next]_(SelfCheck!svars)
  BY SelfCheckStep
<1> QED
  BY <1>1, IInvIsInvariant, SelfCheckInit, PTL DEF Spec, KeepsSelfChecks, SelfCheck!Spec
=============================================================================
