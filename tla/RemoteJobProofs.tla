--------------------------- MODULE RemoteJobProofs ---------------------------
(***************************************************************************)
(* Proofs about RemoteJob, for any sizes of the line buffer, the sockets   *)
(* and the pipe: the end of a job is marked for its reader and costs few   *)
(* lines, an exit code is true, the host reaps what it serves, and a job   *)
(* that was killed goes on only where a cancellation could not reach it.   *)
(***************************************************************************)
EXTENDS RemoteJob, FiniteSetTheorems, TLAPS

-----------------------------------------------------------------------------
(* _finish().                                                               *)

Entries == {"line", "end"}
Ended(b) == \E i \in DOMAIN b : b[i] = "end"

\* The marker takes the place of one entry at most.
LEMMA MarkedFacts ==
    ASSUME NEW b \in Seq(Entries), Len(b) <= MaxBuffered
    PROVE  /\ Marked(b) \in Seq(Entries) /\ Len(Marked(b)) <= MaxBuffered
           /\ Len(b) + 1 - Len(Marked(b)) \in {0, 1}
           /\ Ended(Marked(b))
<1> DEFINE c == IF HasRoom(b) THEN b ELSE Tail(b)
<1>1. c \in Seq(Entries) /\ Len(c) < MaxBuffered /\ Len(b) - Len(c) \in {0, 1}
  BY RemoteAssumption DEF HasRoom
<1>2. Marked(b) = Append(c, "end")
  BY DEF Marked
<1> HIDE DEF c
<1>3. /\ Append(c, "end") \in Seq(Entries) /\ Len(Append(c, "end")) = Len(c) + 1
      /\ Append(c, "end")[Len(c) + 1] = "end"
  BY <1>1 DEF Entries
<1> DEFINE d == Append(c, "end")
<1>4. /\ d \in Seq(Entries) /\ Len(d) = Len(c) + 1 /\ d[Len(c) + 1] = "end"
      /\ Marked(b) = d /\ Len(c) \in Nat
  BY <1>1, <1>2, <1>3
<1> HIDE DEF d
<1>5. Ended(d)
  BY <1>4 DEF Ended
<1> QED
  BY <1>1, <1>4, <1>5, RemoteAssumption

LEMMA FinishFacts ==
    ASSUME TypeOK, NEW c \in Codes, NEW b \in Seq(Entries), Len(b) <= MaxBuffered, Finish(c, b)
    PROVE  /\ code' \in Codes
           /\ lines' \in Seq(Entries) /\ Len(lines') <= MaxBuffered /\ Ended(lines')
           /\ dropped' \in Nat /\ dropped' <= dropped + 1
<1> DEFINE d == Marked(b)
<1>1. /\ d \in Seq(Entries) /\ Len(d) <= MaxBuffered /\ Ended(d)
      /\ Len(b) + 1 - Len(d) \in {0, 1}
  BY MarkedFacts
<1>2. /\ code' = IF code = "none" THEN c ELSE code
      /\ lines' = d
      /\ dropped' = dropped + Len(b) + 1 - Len(d)
  BY Zenon DEF Finish
<1>3. code \in Codes \cup {"none"} /\ dropped \in Nat
  BY DEF TypeOK
<1> HIDE DEF d
<1>4. Len(b) \in Nat /\ Len(d) \in Nat
  BY <1>1
<1>5. dropped' \in Nat /\ dropped' <= dropped + 1
  BY <1>1, <1>2, <1>3, <1>4
<1> QED
  BY <1>1, <1>2, <1>3, <1>5

\* A line for which there is room.
LEMMA FedFacts ==
    ASSUME TypeOK, HasRoom(lines)
    PROVE  /\ Append(lines, "line") \in Seq(Entries)
           /\ Len(Append(lines, "line")) <= MaxBuffered
           /\ Ended(lines) => Ended(Append(lines, "line"))
<1>1. /\ lines \in Seq(Entries) /\ Len(lines) \in Nat /\ Len(lines) < MaxBuffered
  BY DEF TypeOK, HasRoom, Entries
<1>2. /\ Append(lines, "line") \in Seq(Entries) /\ Len(Append(lines, "line")) = Len(lines) + 1
      /\ \A i \in 1 .. Len(lines) : Append(lines, "line")[i] = lines[i]
  BY <1>1 DEF Entries
<1> QED
  BY <1>1, <1>2, RemoteAssumption DEF Ended

\* _finish() with a last line before the marker.
LEMMA FedFinish ==
    ASSUME TypeOK, HasRoom(lines), NEW c \in Codes, Finish(c, Append(lines, "line"))
    PROVE  /\ code' \in Codes
           /\ lines' \in Seq(Entries) /\ Len(lines') <= MaxBuffered /\ Ended(lines')
           /\ dropped' \in Nat /\ dropped' <= dropped + 1
BY FedFacts, FinishFacts

LEMMA PlainFinish ==
    ASSUME TypeOK, NEW c \in Codes, Finish(c, lines)
    PROVE  /\ code' \in Codes
           /\ lines' \in Seq(Entries) /\ Len(lines') <= MaxBuffered /\ Ended(lines')
           /\ dropped' \in Nat /\ dropped' <= dropped + 1
BY FinishFacts DEF TypeOK, Entries

-----------------------------------------------------------------------------
(* Type correctness.                                                        *)

\* Before the host has answered nothing is buffered and nobody stops the job.
Quiet ==
    /\ pump = "connecting" => lines = <<>> /\ reader = "launching"
    /\ reader = "launching" => \A s \in Stoppers : stopper[s] = "none"

LEMMA QuietHasRoom ==
    ASSUME Quiet, pump = "connecting"
    PROVE  HasRoom(lines)
BY RemoteAssumption DEF Quiet, HasRoom

LEMMA TypeInit == Init => TypeOK /\ Quiet
<1> SUFFICES ASSUME Init PROVE TypeOK /\ Quiet
  OBVIOUS
<1>1. /\ lines \in Seq(Entries) /\ Len(lines) <= MaxBuffered
      /\ wire \in Seq({"started", "line", "exit"}) /\ Len(wire) <= MaxWire
      /\ pipe \in 0 .. MaxPipe
  BY RemoteAssumption DEF Init
<1>2. stopper \in [Stoppers -> {"none", "grace", "killed", "done"}]
  BY DEF Init
<1> QED
  BY <1>1, <1>2 DEF Init, TypeOK, Quiet, Entries, Codes

\* What a step of the client does to the buffer: nothing, a line more, a line
\* less, or the end of the job.
Fed == /\ HasRoom(lines) /\ lines' = Append(lines, "line") /\ UNCHANGED <<code, dropped>>
Taken == /\ lines # <<>> /\ lines' = Tail(lines) /\ UNCHANGED <<code, dropped>>
Finished(c) ==
    \/ Finish(c, lines)
    \/ HasRoom(lines) /\ Finish(c, Append(lines, "line"))
Kept == UNCHANGED <<lines, code, dropped>>

ClientTyped ==
    /\ lines \in Seq(Entries) /\ Len(lines) <= MaxBuffered
    /\ code \in Codes \cup {"none"}
    /\ dropped \in Nat

LEMMA FinishedFacts ==
    ASSUME TypeOK, NEW c \in Codes, Finished(c)
    PROVE  /\ code' \in Codes
           /\ lines' \in Seq(Entries) /\ Len(lines') <= MaxBuffered /\ Ended(lines')
           /\ dropped' \in Nat /\ dropped' <= dropped + 1
BY FedFinish, PlainFinish DEF Finished

LEMMA BufferTyped ==
    ASSUME TypeOK, Fed \/ Taken \/ Kept \/ \E c \in Codes : Finished(c)
    PROVE  ClientTyped'
<1>1. CASE Fed
  BY <1>1, FedFacts DEF Fed, ClientTyped, TypeOK
<1>2. CASE Taken
  <2>1. /\ lines \in Seq(Entries) /\ lines # <<>> /\ Len(lines) <= MaxBuffered
        /\ lines' = Tail(lines) /\ MaxBuffered \in Nat
    BY <1>2, RemoteAssumption DEF Taken, TypeOK, Entries
  <2>2. lines' \in Seq(Entries) /\ Len(lines') <= MaxBuffered
    BY <2>1
  <2> QED
    BY <1>2, <2>2 DEF Taken, ClientTyped, TypeOK
<1>3. CASE Kept
  BY <1>3 DEF Kept, ClientTyped, TypeOK, Entries
<1>4. CASE \E c \in Codes : Finished(c)
  BY <1>4, FinishedFacts DEF ClientTyped
<1> QED
  BY <1>1, <1>2, <1>3, <1>4

\* The rest of TypeOK.
RestTyped ==
    /\ pump \in {"connecting", "reading", "feeding", "failing", "closing", "over"}
    /\ known \in BOOLEAN
    /\ reader \in {"launching", "reading", "stopping", "left"}
    /\ stopper \in [Stoppers -> {"none", "grace", "killed", "done"}]
    /\ early \in BOOLEAN /\ posts \in Nat /\ lost \in BOOLEAN
    /\ link \in {"none", "up", "cut"}
    /\ wire \in Seq({"started", "line", "exit"}) /\ Len(wire) <= MaxWire
    /\ server \in {"absent", "launching", "erring", "announcing", "relaying",
                   "reporting", "done", "fled"}
    /\ agent \in {"none", "running", "terminated", "dead"}
    /\ registered \in BOOLEAN
    /\ pipe \in 0 .. MaxPipe

LEMMA TypeSplit == (TypeOK <=> ClientTyped /\ RestTyped) /\ (TypeOK' <=> ClientTyped' /\ RestTyped')
BY DEF TypeOK, ClientTyped, RestTyped, Entries

LEMMA EmitTyped ==
    ASSUME RestTyped, NEW e \in {"started", "line", "exit"}, Emit(e)
    PROVE  wire' \in Seq({"started", "line", "exit"}) /\ Len(wire') <= MaxWire
BY RemoteAssumption DEF RestTyped, Emit

LEMMA TailTyped ==
    ASSUME RestTyped, wire # <<>>, wire' = Tail(wire)
    PROVE  wire' \in Seq({"started", "line", "exit"}) /\ Len(wire') <= MaxWire
BY RemoteAssumption DEF RestTyped

LEMMA PumpType ==
    ASSUME TypeOK, Quiet, Pump
    PROVE  TypeOK' /\ Quiet'
<1> USE DEF bridge, cancels, network, host
<1>0. RestTyped
  BY TypeSplit
<1>1. CASE ConnectFails
  <2>1. Finished("lost")
    BY <1>1, QuietHasRoom DEF ConnectFails, Finished
  <2> QED
    BY <1>0, <1>1, <2>1, BufferTyped, TypeSplit DEF ConnectFails, RestTyped, Quiet, Codes
<1>2. CASE Refused
  <2>1. Finished("refused")
    BY <1>2, QuietHasRoom DEF Refused, Finished
  <2> QED
    BY <1>0, <1>2, <2>1, BufferTyped, TypeSplit DEF Refused, RestTyped, Quiet, Codes
<1>3. CASE Accepted
  BY <1>0, <1>3, BufferTyped, TypeSplit DEF Accepted, RestTyped, Quiet, Kept
<1>4. CASE ReadsEvent
  <2>1. Kept \/ Fed \/ Finished("exited")
    BY <1>4 DEF ReadsEvent, ReadsStarted, ReadsLine, ReadsExit, Kept, Fed, Finished
  <2>2. ClientTyped'
    BY <2>1, BufferTyped DEF Codes
  <2>3. wire' \in Seq({"started", "line", "exit"}) /\ Len(wire') <= MaxWire
    BY <1>0, <1>4, TailTyped DEF ReadsEvent
  <2>4. pump' \in {"reading", "feeding", "closing"} /\ known' \in BOOLEAN
    BY <1>0, <1>4 DEF ReadsEvent, ReadsStarted, ReadsLine, ReadsExit, RestTyped
  <2> QED
    BY <1>0, <1>4, <2>2, <2>3, <2>4, TypeSplit DEF ReadsEvent, RestTyped, Quiet
<1>5. CASE FeedResumes
  BY <1>0, <1>5, BufferTyped, TypeSplit DEF FeedResumes, RestTyped, Quiet, Fed
<1>6. CASE StreamBreaks
  <2>1. Kept \/ Finished("lost")
    BY <1>6 DEF StreamBreaks, Kept, Finished
  <2>2. pump' \in {"over", "failing"}
    BY <1>6 DEF StreamBreaks
  <2> QED
    BY <1>0, <1>6, <2>1, <2>2, BufferTyped, TypeSplit DEF StreamBreaks, RestTyped, Quiet, Codes
<1>7. CASE FailureResumes
  <2>1. Finished("lost")
    BY <1>7 DEF FailureResumes, Finished
  <2> QED
    BY <1>0, <1>7, <2>1, BufferTyped, TypeSplit DEF FailureResumes, RestTyped, Quiet, Codes
<1>8. CASE StreamEnds
  BY <1>0, <1>8, BufferTyped, TypeSplit DEF StreamEnds, RestTyped, Quiet, Kept
<1>9. CASE PumpEnds
  <2>1. Finished("lost")
    BY <1>9 DEF PumpEnds, Finished
  <2> QED
    BY <1>0, <1>9, <2>1, BufferTyped, TypeSplit DEF PumpEnds, RestTyped, Quiet, Codes
<1>10. CASE PumpCollected
  <2>1. Finished("lost")
    BY <1>10 DEF PumpCollected, Finished
  <2> QED
    BY <1>0, <1>10, <2>1, BufferTyped, TypeSplit DEF PumpCollected, RestTyped, Quiet, Codes
<1> QED
  BY <1>1, <1>2, <1>3, <1>4, <1>5, <1>6, <1>7, <1>8, <1>9, <1>10 DEF Pump

LEMMA BridgeType ==
    ASSUME TypeOK, Quiet, Bridge
    PROVE  TypeOK' /\ Quiet'
<1> USE DEF client, cancels, network, host
<1>0. RestTyped
  BY TypeSplit
<1>1. CASE LaunchReturns
  BY <1>0, <1>1, BufferTyped, TypeSplit DEF LaunchReturns, Ready, RestTyped, Quiet, Kept
<1>2. CASE ReadsOutput
  <2>1. Taken /\ reader' \in {"left", "reading", "stopping"}
    BY <1>2 DEF ReadsOutput, Taken
  <2> QED
    BY <1>0, <1>2, <2>1, BufferTyped, TypeSplit DEF ReadsOutput, RestTyped, Quiet
<1>3. CASE FallsSilent
  BY <1>0, <1>3, BufferTyped, TypeSplit DEF FallsSilent, RestTyped, Quiet, Kept
<1>4. ASSUME NEW s \in Stoppers, StopBegins(s) PROVE TypeOK' /\ Quiet'
  <2>1. posts' \in Nat /\ reader # "launching"
    BY <1>0, <1>4 DEF StopBegins, Terminate, MayStop, RestTyped
  <2> QED
    BY <1>0, <1>4, <2>1, BufferTyped, TypeSplit DEF StopBegins, Terminate, RestTyped, Quiet, Kept
<1>5. ASSUME NEW s \in Stoppers, StopReturns(s) PROVE TypeOK' /\ Quiet'
  <2>1. reader # "launching" /\ reader' # "launching"
    BY <1>5 DEF StopReturns, MayStop, Returns, Quiet
  <2>2. reader' \in {"launching", "reading", "stopping", "left"}
    BY <1>0, <1>5 DEF StopReturns, Returns, RestTyped
  <2> QED
    BY <1>0, <1>5, <2>1, <2>2, BufferTyped, TypeSplit
    DEF StopReturns, Returns, RestTyped, Quiet, Kept
<1>6. ASSUME NEW s \in Stoppers, Kill(s) PROVE TypeOK' /\ Quiet'
  <2>1. posts' \in Nat /\ reader # "launching" /\ reader' # "launching"
    BY <1>0, <1>6 DEF Kill, Terminate, Returns, RestTyped, Quiet
  <2>2. reader' \in {"launching", "reading", "stopping", "left"}
    BY <1>0, <1>6 DEF Kill, Returns, RestTyped
  <2>3. ClientTyped'
    BY <1>6, BufferTyped DEF Kill, Finished, Codes
  <2>4. pump' # "connecting"
    BY <1>6, <2>1 DEF Kill, Quiet
  <2> QED
    BY <1>0, <1>6, <2>1, <2>2, <2>3, <2>4, TypeSplit
    DEF Kill, Terminate, Returns, RestTyped, Quiet
<1> QED
  BY <1>1, <1>2, <1>3, <1>4, <1>5, <1>6 DEF Bridge

\* The network, the host and its agent leave the client and the bridge alone.
FarSide == Network \/ Server \/ AgentPrints \/ AgentExits \/ AgentKilled

LEMMA FarSideAlone ==
    ASSUME FarSide
    PROVE  UNCHANGED <<client, bridge, early>>
BY DEF FarSide, Network, Server, RequestArrives, LinkBreaks, PostArrives, PostLost, LaunchFails,
       EmitsError, Launches, Announces, Relays, Reaps, Reports, LosesPeer, Flees, Emit,
       AgentPrints, AgentExits, AgentKilled, cancels

LEMMA FarSideTyped ==
    ASSUME RestTyped, FarSide
    PROVE  /\ posts' \in Nat /\ lost' \in BOOLEAN /\ link' \in {"none", "up", "cut"}
           /\ wire' \in Seq({"started", "line", "exit"}) /\ Len(wire') <= MaxWire
           /\ server' \in {"absent", "launching", "erring", "announcing", "relaying",
                            "reporting", "done", "fled"}
           /\ agent' \in {"none", "running", "terminated", "dead"}
           /\ registered' \in BOOLEAN /\ pipe' \in 0 .. MaxPipe
<1> USE RemoteAssumption DEF RestTyped, cancels, network, host
<1>1. CASE RequestArrives \/ LinkBreaks
  BY <1>1 DEF RequestArrives, LinkBreaks
<1>2. CASE PostArrives \/ PostLost
  <2>1. posts' \in Nat
    BY <1>2 DEF PostArrives, PostLost
  <2>2. lost' \in BOOLEAN
    BY <1>2 DEF PostArrives, PostLost
  <2>3. agent' \in {"none", "running", "terminated", "dead"}
    BY <1>2 DEF PostArrives, PostLost, AskedToEnd
  <2> QED
    BY <1>2, <2>1, <2>2, <2>3 DEF PostArrives, PostLost
<1>3. CASE EmitsError \/ Announces \/ Reports
  <2>1. wire' \in Seq({"started", "line", "exit"}) /\ Len(wire') <= MaxWire
    BY <1>3, EmitTyped DEF EmitsError, Announces, Reports
  <2> QED
    BY <1>3, <2>1 DEF EmitsError, Announces, Reports, Emit
<1>4. CASE Relays
  <2>1. wire' \in Seq({"started", "line", "exit"}) /\ Len(wire') <= MaxWire
    BY <1>4, EmitTyped DEF Relays
  <2> QED
    BY <1>4, <2>1 DEF Relays, Emit
<1>5. CASE LaunchFails \/ Launches \/ Reaps \/ LosesPeer \/ Flees
  BY <1>5 DEF LaunchFails, Launches, Reaps, LosesPeer, Flees
<1>6. CASE AgentPrints \/ AgentExits \/ AgentKilled
  BY <1>6 DEF AgentPrints, AgentExits, AgentKilled
<1> QED
  BY <1>1, <1>2, <1>3, <1>4, <1>5, <1>6 DEF FarSide, Network, Server

LEMMA FarSideType ==
    ASSUME TypeOK, Quiet, FarSide
    PROVE  TypeOK' /\ Quiet'
<1>1. RestTyped /\ Kept
  BY TypeSplit, FarSideAlone DEF Kept, client
<1> QED
  BY <1>1, FarSideAlone, FarSideTyped, BufferTyped, TypeSplit DEF RestTyped, Quiet, client, bridge

LEMMA NextSplit == Next => Pump \/ Bridge \/ FarSide
BY DEF Next, FarSide

LEMMA TypeStep == TypeOK /\ Quiet /\ [Next]_vars => TypeOK' /\ Quiet'
<1> SUFFICES ASSUME TypeOK, Quiet, [Next]_vars PROVE TypeOK' /\ Quiet'
  OBVIOUS
<1>1. CASE UNCHANGED vars
  BY <1>1 DEF TypeOK, Quiet, vars, client, bridge, cancels, network, host
<1> QED
  BY <1>1, NextSplit, PumpType, BridgeType, FarSideType

\* Every reachable state is well typed.
THEOREM TypeCorrect == Spec => []TypeOK
<1> QED
  BY TypeInit, TypeStep, PTL DEF Spec

-----------------------------------------------------------------------------
(* The end of a job and what it costs the reader.                           *)

\* How often the pump has called _finish().
Finishes == IF pump = "over" THEN 2 ELSE IF pump = "closing" THEN 1 ELSE 0

Ends(n) == (\E c \in Codes : Finished(c)) /\ Finishes' >= Finishes + n
GoesOn == (Fed \/ Kept) /\ Finishes' >= Finishes

LEMMA PumpEffect ==
    ASSUME TypeOK, Quiet, Pump
    PROVE  (GoesOn \/ Ends(1)) /\ UNCHANGED bridge
<1> USE DEF Finishes, Codes
<1>1. CASE ConnectFails \/ Refused
  <2>1. HasRoom(lines)
    BY <1>1, QuietHasRoom DEF ConnectFails, Refused
  <2> QED
    BY <1>1, <2>1 DEF ConnectFails, Refused, Finished, Ends
<1>2. CASE Accepted \/ StreamEnds
  BY <1>2 DEF Accepted, StreamEnds, Kept, GoesOn
<1>3. CASE FeedResumes
  BY <1>3 DEF FeedResumes, Fed, GoesOn
<1>4. CASE ReadsEvent
  <2>1. CASE ReadsStarted
    BY <1>4, <2>1 DEF ReadsEvent, ReadsStarted, Kept, GoesOn
  <2>2. CASE ReadsLine
    BY <1>4, <2>2 DEF ReadsEvent, ReadsLine, Kept, Fed, GoesOn
  <2>3. CASE ReadsExit
    BY <1>4, <2>3 DEF ReadsEvent, ReadsExit, Finished, Ends
  <2> QED
    BY <1>4, <2>1, <2>2, <2>3 DEF ReadsEvent
<1>5. CASE StreamBreaks
  BY <1>5 DEF StreamBreaks, Finished, Kept, GoesOn, Ends
<1>6. CASE FailureResumes
  BY <1>6 DEF FailureResumes, Finished, Ends
<1>7. CASE PumpEnds \/ PumpCollected
  BY <1>7 DEF PumpEnds, PumpCollected, Finished, Ends
<1> QED
  BY <1>1, <1>2, <1>3, <1>4, <1>5, <1>6, <1>7 DEF Pump

EndInv == code # "none" /\ reader # "left" => Ended(lines)

LEMMA EndStep ==
    ASSUME TypeOK, Quiet, EndInv, [Next]_vars
    PROVE  EndInv'
<1>1. ASSUME Kept, reader' # "left" => reader # "left" PROVE EndInv'
  BY <1>1 DEF EndInv, Kept
<1>2. ASSUME NEW c \in Codes, Finished(c) PROVE EndInv'
  BY <1>2, FinishedFacts DEF EndInv
<1>3. CASE Pump
  <2>1. CASE Fed
    BY <1>3, <2>1, FedFacts, PumpEffect DEF EndInv, Fed, bridge
  <2> QED
    BY <1>1, <1>2, <1>3, <2>1, PumpEffect DEF GoesOn, Ends, bridge
<1>4. CASE LaunchReturns \/ FallsSilent \/ \E s \in Stoppers : StopBegins(s) \/ StopReturns(s)
  BY <1>1, <1>4 DEF LaunchReturns, FallsSilent, StopBegins, StopReturns, Returns, Kept, client
<1>5. CASE ReadsOutput
  <2>1. lines \in Seq(Entries) /\ lines # <<>> /\ lines' = Tail(lines) /\ code' = code
    BY <1>5 DEF ReadsOutput, TypeOK, Entries
  <2>2. CASE Head(lines) = "end"
    BY <1>5, <2>2 DEF ReadsOutput, EndInv
  <2>3. ASSUME Head(lines) # "end", Ended(lines) PROVE Ended(Tail(lines))
    <3>1. PICK i \in 1 .. Len(lines) : lines[i] = "end"
      BY <2>1, <2>3 DEF Ended
    <3> DEFINE t == Tail(lines)
    <3>2. /\ t \in Seq(Entries) /\ Len(t) = Len(lines) - 1 /\ i - 1 \in 1 .. Len(t)
          /\ t[i - 1] = "end"
      BY <2>1, <2>3, <3>1
    <3> HIDE DEF t
    <3>3. Ended(t)
      BY <3>2 DEF Ended
    <3> QED
      BY <3>3 DEF t
  <2>4. reader # "left"
    BY <1>5 DEF ReadsOutput
  <2> QED
    BY <2>1, <2>2, <2>3, <2>4 DEF EndInv
<1>6. ASSUME NEW s \in Stoppers, Kill(s) PROVE EndInv'
  BY <1>2, <1>6 DEF Kill, Finished, Codes
<1>7. CASE FarSide \/ UNCHANGED vars
  BY <1>1, <1>7, FarSideAlone DEF Kept, client, bridge, vars
<1> QED
  BY <1>3, <1>4, <1>5, <1>6, <1>7, NextSplit DEF Bridge

\* The reader of a job that is over finds its end (remote_client.py:130-131).
THEOREM EndsAreMarked == Spec => []EndIsMarked
<1>1. Init => EndInv
  BY DEF Init, EndInv
<1>2. TypeOK /\ Quiet /\ EndInv /\ [Next]_vars => EndInv'
  BY EndStep
<1>3. EndInv => EndIsMarked
  BY DEF EndInv, EndIsMarked, Ended
<1> QED
  BY <1>1, <1>2, <1>3, TypeInit, TypeStep, PTL DEF Spec

Killers == {s \in Stoppers : stopper[s] = "killed"}

LossInv ==
    /\ code = "none" => dropped = 0
    /\ dropped <= Finishes + Cardinality(Killers)

LEMMA KillersFinite == IsFiniteSet(Killers) /\ Cardinality(Killers) \in Nat
<1>1. IsFiniteSet(Stoppers)
  <2>1. IsFiniteSet({"stream"})
    BY FS_Singleton
  <2>2. IsFiniteSet({"stream"} \cup {"cancel"})
    BY <2>1, FS_AddElement
  <2>3. Stoppers = {"stream"} \cup {"cancel"}
    BY DEF Stoppers
  <2> QED
    BY <2>2, <2>3
<1> QED
  BY <1>1, FS_Subset, FS_CardinalityType DEF Killers

LEMMA LossStep ==
    ASSUME TypeOK, Quiet, LossInv, [Next]_vars
    PROVE  LossInv'
<1>0. /\ Cardinality(Killers) \in Nat /\ dropped \in Nat
      /\ Finishes \in 0 .. 2 /\ Finishes' \in 0 .. 2
  BY KillersFinite DEF TypeOK, Finishes
<1>1. ASSUME Fed \/ Taken \/ Kept, Killers' = Killers, Finishes' >= Finishes PROVE LossInv'
  BY <1>0, <1>1 DEF LossInv, Fed, Taken, Kept
<1>2. CASE Pump
  <2>1. Killers' = Killers
    BY <1>2, PumpEffect DEF bridge, Killers
  <2>2. CASE Ends(1)
    <3>1. PICK c \in Codes : Finished(c)
      BY <2>2 DEF Ends
    <3>2. code' # "none" /\ dropped' \in Nat /\ dropped' <= dropped + 1
      BY <3>1, FinishedFacts DEF Codes
    <3> QED
      BY <1>0, <2>1, <2>2, <3>2 DEF LossInv, Ends
  <2> QED
    BY <1>1, <1>2, <2>1, <2>2, PumpEffect DEF GoesOn
<1>3. CASE LaunchReturns \/ FallsSilent \/ ReadsOutput
  <2>1. Killers' = Killers /\ Finishes' = Finishes /\ (Taken \/ Kept)
    BY <1>3 DEF LaunchReturns, FallsSilent, ReadsOutput, Killers, Finishes, Taken, Kept, client
  <2> QED
    BY <1>0, <1>1, <2>1
<1>4. ASSUME NEW s \in Stoppers, StopBegins(s) \/ StopReturns(s) PROVE LossInv'
  <2>1. Finishes' = Finishes /\ Kept
    BY <1>4 DEF StopBegins, StopReturns, Finishes, Kept, client
  <2>2. /\ stopper[s] # "killed" /\ stopper'[s] # "killed"
        /\ \A r \in Stoppers : r # s => stopper'[r] = stopper[r]
    BY <1>4 DEF StopBegins, StopReturns, Returns, TypeOK
  <2>3. Killers' = Killers
    BY <2>2 DEF Killers
  <2> QED
    BY <1>0, <1>1, <2>1, <2>3
<1>5. ASSUME NEW s \in Stoppers, Kill(s) PROVE LossInv'
  <2>1. /\ stopper[s] # "killed" /\ stopper'[s] = "killed" /\ Finishes' = Finishes
        /\ \A r \in Stoppers : r # s => stopper'[r] = stopper[r]
    BY <1>5 DEF Kill, Returns, Finishes, TypeOK
  <2>2. Killers' = Killers \cup {s} /\ s \notin Killers
    BY <2>1 DEF Killers
  <2>3. Cardinality(Killers') = Cardinality(Killers) + 1
    BY <2>2, KillersFinite, FS_AddElement
  <2>4. code' # "none" /\ dropped' \in Nat /\ dropped' <= dropped + 1
    BY <1>5, FinishedFacts DEF Kill, Finished, Codes
  <2> QED
    BY <1>0, <2>1, <2>3, <2>4 DEF LossInv
<1>6. CASE FarSide \/ UNCHANGED vars
  <2>1. Killers' = Killers /\ Finishes' = Finishes /\ Kept
    BY <1>6, FarSideAlone DEF Killers, Finishes, Kept, client, bridge, vars
  <2> QED
    BY <1>0, <1>1, <2>1
<1> QED
  BY <1>2, <1>3, <1>4, <1>5, <1>6, NextSplit DEF Bridge

\* What the end of a job may cost the reader, in any interleaving of its
\* _finish() calls with a full buffer.
THEOREM LossesAreBounded == Spec => []LossIsBounded
<1>1. Init => LossInv
  <2>1. Init => Finishes = 0
    BY DEF Init, Finishes
  <2> QED
    BY <2>1, KillersFinite DEF Init, LossInv
<1>2. TypeOK /\ Quiet /\ LossInv /\ [Next]_vars => LossInv'
  BY LossStep
<1>3. TypeOK /\ LossInv => LossIsBounded
  <2> SUFFICES ASSUME TypeOK, LossInv PROVE LossIsBounded
    OBVIOUS
  <2>1. Finishes \in 0 .. 2 /\ Cardinality(Killers) \in Nat /\ dropped \in Nat
    BY KillersFinite DEF Finishes, TypeOK
  <2>2. dropped <= 2 + Cardinality(Killers)
    BY <2>1 DEF LossInv
  <2> QED
    BY <2>2 DEF LossInv, LossIsBounded, Killers
<1> QED
  BY <1>1, <1>2, <1>3, TypeInit, TypeStep, PTL DEF Spec

-----------------------------------------------------------------------------
(* What the client knows of the host, and what the host still has.          *)

Idle == {"absent", "launching", "erring", "reporting", "done"}
Announced == {"relaying", "reporting", "done"}

\* What the events in w say of a host in state v.
Says(w, v) ==
    \A i \in DOMAIN w : /\ w[i] = "started" => v \in Announced
                        /\ w[i] = "exit" => v = "done"

HostInv ==
    /\ server \in Idle => ~AgentAlive /\ ~registered
    /\ server \in {"announcing", "relaying"} => registered
    /\ Says(wire, server)
    /\ known => server \in Announced
    /\ code = "exited" => server = "done"

LEMMA SaysTail ==
    ASSUME TypeOK, wire # <<>>, Says(wire, server)
    PROVE  Says(Tail(wire), server)
<1> DEFINE t == Tail(wire)
<1>1. /\ wire \in Seq({"started", "line", "exit"}) /\ t \in Seq({"started", "line", "exit"})
      /\ Len(t) = Len(wire) - 1 /\ Len(wire) \in Nat
      /\ \A i \in 1 .. Len(t) : t[i] = wire[i + 1]
  BY DEF TypeOK
<1> HIDE DEF t
<1>2. Says(t, server)
  BY <1>1 DEF Says
<1> QED
  BY <1>2 DEF t

LEMMA SaysEmitted ==
    ASSUME TypeOK, NEW e \in {"started", "line", "exit"}, Emit(e),
           Says(wire, server), server \in Announced => server' \in Announced, server # "done",
           e = "started" => server' \in Announced, e = "exit" => server' = "done"
    PROVE  Says(wire', server')
<1>1. /\ wire \in Seq({"started", "line", "exit"}) /\ wire' = Append(wire, e)
      /\ Len(wire) \in Nat
  BY DEF Emit, TypeOK
<1>2. /\ wire' \in Seq({"started", "line", "exit"}) /\ Len(wire') = Len(wire) + 1
      /\ wire'[Len(wire) + 1] = e /\ \A i \in 1 .. Len(wire) : wire'[i] = wire[i]
  BY <1>1
<1> QED
  BY <1>1, <1>2 DEF Says

LEMMA SaysStill ==
    ASSUME Says(wire, server), wire' = wire, server \in Announced => server' \in Announced,
           server = "done" => server' = "done"
    PROVE  Says(wire', server')
BY DEF Says

\* A step that leaves the host alone, and of which a new id or code is the host's.
LEMMA ClientHost ==
    ASSUME TypeOK, HostInv, UNCHANGED <<wire, host>>,
           known' = known \/ server \in Announced,
           code' \in {code, "refused", "lost", "killed"} \/ server = "done"
    PROVE  HostInv'
BY SaysStill DEF HostInv, host, AgentAlive

LEMMA HostPump ==
    ASSUME TypeOK, Quiet, HostInv, Pump
    PROVE  HostInv'
<1> USE DEF network, host
<1>1. CASE ReadsEvent
  <2>1. Says(wire', server')
    BY <1>1, SaysTail DEF ReadsEvent, HostInv
  <2>2. Head(wire) = "started" => server \in Announced
    BY <1>1 DEF ReadsEvent, HostInv, Says, TypeOK
  <2>3. Head(wire) = "exit" => server = "done"
    BY <1>1 DEF ReadsEvent, HostInv, Says, TypeOK
  <2>4. known' => server \in Announced
    BY <1>1, <2>2 DEF ReadsEvent, ReadsStarted, ReadsLine, ReadsExit, HostInv
  <2>5. code' = "exited" => server = "done"
    BY <1>1, <2>3 DEF ReadsEvent, ReadsStarted, ReadsLine, ReadsExit, HostInv
  <2> QED
    BY <1>1, <2>1, <2>4, <2>5 DEF ReadsEvent, HostInv, AgentAlive
<1>2. CASE Refused
  <2>1. server = "absent" /\ server' = "done" /\ wire' = wire /\ known' = known
    BY <1>2 DEF Refused
  <2>2. Says(wire', server')
    BY <2>1, SaysStill DEF HostInv, Announced
  <2> QED
    BY <1>2, <2>1, <2>2 DEF Refused, HostInv, AgentAlive, Idle, Announced
<1>3. CASE ConnectFails \/ Accepted \/ FeedResumes \/ StreamBreaks \/ FailureResumes
           \/ StreamEnds \/ PumpEnds \/ PumpCollected
  <2>1. UNCHANGED <<wire, host>> /\ known' = known
    BY <1>3 DEF ConnectFails, Accepted, FeedResumes, StreamBreaks, FailureResumes, StreamEnds,
                PumpEnds, PumpCollected
  <2>2. code' \in {code, "lost"}
    BY <1>3 DEF ConnectFails, Accepted, FeedResumes, StreamBreaks, FailureResumes, StreamEnds,
                PumpEnds, PumpCollected, Finish
  <2> QED
    BY <2>1, <2>2, ClientHost
<1> QED
  BY <1>1, <1>2, <1>3 DEF Pump

LEMMA HostBridge ==
    ASSUME TypeOK, HostInv, Bridge
    PROVE  HostInv'
<1>1. UNCHANGED <<wire, host>> /\ known' = known
  BY DEF Bridge, LaunchReturns, ReadsOutput, FallsSilent, StopBegins, StopReturns, Kill,
         client, network
<1>2. code' \in {code, "killed"}
  BY DEF Bridge, LaunchReturns, ReadsOutput, FallsSilent, StopBegins, StopReturns, Kill,
         Finish, client
<1> QED
  BY <1>1, <1>2, ClientHost

LEMMA HostFarSide ==
    ASSUME TypeOK, HostInv, FarSide
    PROVE  HostInv'
<1>0. UNCHANGED <<known, code>>
  BY FarSideAlone DEF client
<1> USE DEF HostInv, AgentAlive, Idle, Announced
<1>1. CASE RequestArrives \/ LinkBreaks
  <2>1. Says(wire', server')
    BY <1>1, SaysStill DEF RequestArrives, LinkBreaks, host
  <2> QED
    BY <1>0, <1>1, <2>1 DEF RequestArrives, LinkBreaks, host
<1>2. CASE PostArrives \/ PostLost
  <2>1. Says(wire', server')
    BY <1>2, SaysStill DEF PostArrives, PostLost, host, network
  <2> QED
    BY <1>0, <1>2, <2>1 DEF PostArrives, PostLost, AskedToEnd, host
<1>3. CASE EmitsError
  <2>1. Says(wire', server')
    BY <1>3, SaysEmitted DEF EmitsError
  <2> QED
    BY <1>0, <1>3, <2>1 DEF EmitsError
<1>4. CASE Announces
  <2>1. Says(wire', server')
    BY <1>4, SaysEmitted DEF Announces
  <2> QED
    BY <1>0, <1>4, <2>1 DEF Announces
<1>5. CASE Relays
  <2>1. Says(wire', server')
    BY <1>5, SaysEmitted DEF Relays
  <2> QED
    BY <1>0, <1>5, <2>1 DEF Relays
<1>6. CASE Reports
  <2>1. Says(wire', server')
    BY <1>6, SaysEmitted DEF Reports
  <2> QED
    BY <1>0, <1>6, <2>1 DEF Reports
<1>7. CASE LaunchFails \/ Launches \/ Reaps \/ LosesPeer \/ Flees
  <2>1. Says(wire', server')
    BY <1>7, SaysStill DEF LaunchFails, Launches, Reaps, LosesPeer, Flees, network
  <2> QED
    BY <1>0, <1>7, <2>1 DEF LaunchFails, Launches, Reaps, LosesPeer, Flees
<1>8. CASE AgentPrints \/ AgentExits \/ AgentKilled
  <2>1. Says(wire', server')
    BY <1>8, SaysStill DEF AgentPrints, AgentExits, AgentKilled, network
  <2> QED
    BY <1>0, <1>8, <2>1 DEF AgentPrints, AgentExits, AgentKilled
<1> QED
  BY <1>1, <1>2, <1>3, <1>4, <1>5, <1>6, <1>7, <1>8 DEF FarSide, Network, Server

LEMMA HostInit == Init => HostInv
BY DEF Init, HostInv, Says, AgentAlive

LEMMA HostStep ==
    ASSUME TypeOK, Quiet, HostInv, [Next]_vars
    PROVE  HostInv'
<1>1. CASE UNCHANGED vars
  BY <1>1, ClientHost DEF vars, client, network
<1> QED
  BY <1>1, NextSplit, HostPump, HostBridge, HostFarSide

\* An exit code is of an agent that has exited.
THEOREM ExitsAreTrue == Spec => []ExitIsTrue
<1>1. HostInv => ExitIsTrue
  BY DEF HostInv, ExitIsTrue, Idle
<1> QED
  BY <1>1, HostInit, HostStep, TypeInit, TypeStep, PTL DEF Spec

\* What the host has served is neither running nor registered any more.
THEOREM HostsReap == Spec => []HostReaps
<1>1. HostInv => HostReaps
  BY DEF HostInv, HostReaps, Idle
<1> QED
  BY <1>1, HostInit, HostStep, TypeInit, TypeStep, PTL DEF Spec

LEMMA KnownIsRegistered == HostInv => AnnouncedIsRegistered
BY DEF HostInv, AnnouncedIsRegistered, Idle, Announced

\* The host has every running job whose id the client knows.
THEOREM AnnouncedAreRegistered == Spec => []AnnouncedIsRegistered
<1> QED
  BY KnownIsRegistered, HostInit, HostStep, TypeInit, TypeStep, PTL DEF Spec

-----------------------------------------------------------------------------
(* A job that was killed on this side.                                      *)

StopInv ==
    /\ posts > 0 => known
    /\ code = "killed" /\ ~early => known
    /\ StopIsAccounted

\* A step that neither asks the agent to end nor starts it.
LEMMA StopAlone ==
    ASSUME TypeOK, StopInv, UNCHANGED <<early, posts, lost>>, known => known',
           code' = "killed" => code = "killed", agent' = "running" => agent = "running"
    PROVE  StopInv'
BY DEF StopInv, StopIsAccounted

LEMMA StopPump ==
    ASSUME TypeOK, Quiet, StopInv, Pump
    PROVE  StopInv'
<1>1. UNCHANGED <<early, posts, lost, agent>>
  BY DEF Pump, ConnectFails, Refused, Accepted, ReadsEvent, FeedResumes, StreamBreaks,
         FailureResumes, StreamEnds, PumpEnds, PumpCollected, cancels, host
<1>2. known => known'
  BY DEF Pump, ConnectFails, Refused, Accepted, ReadsEvent, ReadsStarted, ReadsLine, ReadsExit,
         FeedResumes, StreamBreaks, FailureResumes, StreamEnds, PumpEnds, PumpCollected
<1>3. code' = "killed" => code = "killed"
  BY DEF Pump, ConnectFails, Refused, Accepted, ReadsEvent, ReadsStarted, ReadsLine, ReadsExit,
         FeedResumes, StreamBreaks, FailureResumes, StreamEnds, PumpEnds, PumpCollected, Finish
<1> QED
  BY <1>1, <1>2, <1>3, StopAlone

LEMMA StopBridge ==
    ASSUME TypeOK, StopInv, Bridge
    PROVE  StopInv'
<1>1. CASE LaunchReturns \/ ReadsOutput \/ FallsSilent \/ \E s \in Stoppers : StopReturns(s)
  BY <1>1, StopAlone DEF LaunchReturns, ReadsOutput, FallsSilent, StopReturns, client, cancels, host
<1>2. ASSUME NEW s \in Stoppers, StopBegins(s) PROVE StopInv'
  <2>1. posts \in Nat /\ posts' = IF known THEN posts + 1 ELSE posts
    BY <1>2 DEF StopBegins, Terminate, TypeOK
  <2> QED
    BY <1>2, <2>1 DEF StopBegins, Terminate, StopInv, StopIsAccounted, client, host
<1>3. ASSUME NEW s \in Stoppers, Kill(s) PROVE StopInv'
  <2>1. /\ posts \in Nat /\ posts' = IF known THEN posts + 1 ELSE posts
        /\ known' = known /\ early' = ~known /\ known \in BOOLEAN
    BY <1>3 DEF Kill, Terminate, TypeOK
  <2>2. CASE known
    <3>1. known' /\ posts' > 0
      BY <2>1, <2>2
    <3> QED
      BY <3>1 DEF StopInv, StopIsAccounted
  <2>3. CASE ~known
    <3>1. early' /\ ~(posts' > 0)
      BY <2>1, <2>3 DEF StopInv
    <3> QED
      BY <3>1 DEF StopInv, StopIsAccounted
  <2> QED
    BY <2>2, <2>3
<1> QED
  BY <1>1, <1>2, <1>3 DEF Bridge

LEMMA StopFarSide ==
    ASSUME TypeOK, HostInv, StopInv, FarSide
    PROVE  StopInv'
<1>0. UNCHANGED <<known, code, early>>
  BY FarSideAlone DEF client
<1>1. CASE PostArrives
  <2>1. posts \in Nat /\ posts > 0 /\ posts' = posts - 1 /\ lost' = lost /\ known
    BY <1>1 DEF PostArrives, StopInv, TypeOK
  <2>2. agent' # "running"
    BY <1>1, <2>1, KnownIsRegistered DEF PostArrives, AskedToEnd, AnnouncedIsRegistered, AgentAlive
  <2> QED
    BY <1>0, <2>1, <2>2 DEF StopInv, StopIsAccounted
<1>2. CASE PostLost
  <2>1. posts \in Nat /\ posts > 0 /\ posts' = posts - 1 /\ lost'
    BY <1>2 DEF PostLost, TypeOK
  <2> QED
    BY <1>0, <2>1 DEF StopInv, StopIsAccounted
<1>3. CASE Launches
  <2>1. ~known /\ UNCHANGED <<posts, lost>>
    BY <1>3 DEF Launches, HostInv, Announced, cancels
  <2> QED
    BY <1>0, <2>1 DEF StopInv, StopIsAccounted
<1>4. CASE RequestArrives \/ LinkBreaks \/ LaunchFails \/ EmitsError \/ Announces \/ Relays
           \/ Reaps \/ Reports \/ LosesPeer \/ Flees \/ AgentPrints \/ AgentExits \/ AgentKilled
  <2>1. UNCHANGED <<posts, lost>>
    BY <1>4 DEF RequestArrives, LinkBreaks, LaunchFails, EmitsError, Announces, Relays, Reaps,
                Reports, LosesPeer, Flees, AgentPrints, AgentExits, AgentKilled, Emit, cancels
  <2>2. agent' = "running" => agent = "running"
    BY <1>4 DEF RequestArrives, LinkBreaks, LaunchFails, EmitsError, Announces, Relays, Reaps,
                Reports, LosesPeer, Flees, AgentPrints, AgentExits, AgentKilled, Emit, host
  <2> QED
    BY <1>0, <2>1, <2>2, StopAlone
<1> QED
  BY <1>1, <1>2, <1>3, <1>4 DEF FarSide, Network, Server

\* An agent outlives the kill() of its job only where no cancellation could
\* reach it.
THEOREM StopsAreAccounted == Spec => []StopIsAccounted
<1>1. Init => StopInv
  BY DEF Init, StopInv, StopIsAccounted
<1>2. TypeOK /\ Quiet /\ HostInv /\ StopInv /\ [Next]_vars => StopInv'
  <2> SUFFICES ASSUME TypeOK, Quiet, HostInv, StopInv, [Next]_vars PROVE StopInv'
    OBVIOUS
  <2>1. CASE UNCHANGED vars
    BY <2>1, StopAlone DEF vars, client, cancels, host
  <2> QED
    BY <2>1, NextSplit, StopPump, StopBridge, StopFarSide
<1>3. StopInv => StopIsAccounted
  BY DEF StopInv
<1> QED
  BY <1>1, <1>2, <1>3, HostInit, HostStep, TypeInit, TypeStep, PTL DEF Spec

-----------------------------------------------------------------------------
(* The handle of the job implements ProcessContract.                        *)

There == CASE agent = "none" -> "none"
           [] agent = "dead" -> "gone"
           [] OTHER -> "running"
Held == reader # "left"
handle == <<There, code, Held>>

\* The end marker and the reader's leaving tell of a code, a refusal is final,
\* and the agent is there once its launch has succeeded, not earlier.
HandleInv ==
    /\ Ended(lines) => code # "none"
    /\ reader = "left" => code # "none"
    /\ code = "refused" => server = "done" /\ agent = "none"
    /\ server \in {"absent", "launching", "erring"} => agent = "none"
    /\ server \in {"announcing", "relaying"} => agent # "none"

LEMMA ThereFacts ==
    ASSUME TypeOK
    PROVE  /\ There = "none" <=> agent = "none"
           /\ There = "gone" <=> agent = "dead"
           /\ There = "running" <=> AgentAlive
           /\ There \in {"none", "running", "gone"} /\ Held \in BOOLEAN
BY DEF There, Held, TypeOK, AgentAlive

LEMMA ThereSame ==
    ASSUME UNCHANGED <<agent, code, reader>>
    PROVE  UNCHANGED handle
BY DEF handle, There, Held

LEMMA Settles ==
    ASSUME TypeOK, NEW c, code = "none", code' = c, agent' = agent,
           c = "exited" => ~AgentAlive, c = "refused" => agent = "none",
           reader' = reader \/ reader' = "left"
    PROVE  Handle!Settle(c)
<1>1. There' = There /\ Held' \in {Held, FALSE}
  BY DEF There, Held
<1>2. (c = "exited" => There # "running") /\ (c = "refused" => There = "none")
  BY ThereFacts
<1> QED
  BY <1>1, <1>2 DEF Handle!Settle, There, Held

\* A line more or an entry less brings no end marker that was not there.
LEMMA NoNewEnd ==
    ASSUME TypeOK, Fed \/ Taken, Ended(lines')
    PROVE  Ended(lines)
<1>0. lines \in Seq(Entries)
  BY DEF TypeOK, Entries
<1>1. CASE Fed
  <2>1. PICK i \in DOMAIN Append(lines, "line") : Append(lines, "line")[i] = "end"
    BY <1>1 DEF Fed, Ended
  <2>2. i \in 1 .. Len(lines) /\ lines[i] = "end"
    BY <1>0, <2>1
  <2> QED
    BY <1>0, <2>2 DEF Ended
<1>2. CASE Taken
  <2>1. PICK i \in DOMAIN Tail(lines) : Tail(lines)[i] = "end"
    BY <1>2 DEF Taken, Ended
  <2>2. i + 1 \in 1 .. Len(lines) /\ lines[i + 1] = "end"
    BY <1>0, <1>2, <2>1 DEF Taken
  <2> QED
    BY <1>0, <2>2 DEF Ended
<1> QED
  BY <1>1, <1>2

\* The first two parts of the invariant, which are the client's own.
ClientSays == (Ended(lines) => code # "none") /\ (reader = "left" => code # "none")

LEMMA ClientSaysStep ==
    ASSUME TypeOK, ClientSays,
           Fed \/ Taken \/ Kept \/ \E c \in Codes : Finished(c),
           reader' = "left" => reader = "left" \/ code' # "none"
    PROVE  ClientSays'
<1>1. CASE Fed \/ Taken
  BY <1>1, NoNewEnd DEF ClientSays, Fed, Taken
<1>2. CASE Kept
  BY <1>2 DEF ClientSays, Kept
<1>3. CASE \E c \in Codes : Finished(c)
  BY <1>3, FinishedFacts DEF ClientSays, Codes
<1> QED
  BY <1>1, <1>2, <1>3

\* What the pump's steps may do to the code.
LEMMA PumpCode ==
    ASSUME TypeOK, HostInv, HandleInv, Pump
    PROVE  /\ UNCHANGED <<agent, reader>>
           /\ server' = server \/ (Refused /\ server = "absent" /\ server' = "done")
           /\ code' = code \/ (code = "none" /\ \E c \in Codes : Handle!Settle(c))
           /\ code' = "refused" => server' = "done" /\ agent' = "none"
<1> USE DEF host, bridge, network
<1>1. CASE ConnectFails \/ Accepted \/ FeedResumes \/ StreamBreaks \/ FailureResumes
           \/ StreamEnds \/ PumpEnds \/ PumpCollected
  <2>1. UNCHANGED <<agent, reader, server>>
    BY <1>1 DEF ConnectFails, Accepted, FeedResumes, StreamBreaks, FailureResumes,
                StreamEnds, PumpEnds, PumpCollected
  <2>2. code' = code \/ (code = "none" /\ code' = "lost")
    BY <1>1 DEF ConnectFails, Accepted, FeedResumes, StreamBreaks, FailureResumes,
                StreamEnds, PumpEnds, PumpCollected, Finish
  <2> QED
    BY <2>1, <2>2, Settles DEF HandleInv, Codes
<1>2. CASE Refused
  <2>1. /\ server = "absent" /\ server' = "done" /\ agent = "none" /\ UNCHANGED <<agent, reader>>
        /\ code' = code \/ (code = "none" /\ code' = "refused")
    BY <1>2 DEF Refused, Finish, HandleInv
  <2> QED
    BY <1>2, <2>1, Settles DEF Codes
<1>3. CASE ReadsEvent
  <2>1. UNCHANGED <<agent, reader, server>>
    BY <1>3 DEF ReadsEvent
  <2>2. code' = code \/ (code = "none" /\ code' = "exited" /\ Head(wire) = "exit" /\ wire # <<>>)
    BY <1>3 DEF ReadsEvent, ReadsStarted, ReadsLine, ReadsExit, Finish
  <2>3. wire # <<>> /\ Head(wire) = "exit" => ~AgentAlive
    BY DEF HostInv, Says, TypeOK, Idle
  <2> QED
    BY <2>1, <2>2, <2>3, Settles DEF HandleInv, Codes
<1> QED
  BY <1>1, <1>2, <1>3 DEF Pump

LEMMA HandleIs ==
    ASSUME TypeOK, NEW c \in Codes, Handle!Settle(c)
    PROVE  [Handle!Next]_handle
BY DEF Handle!Next, Handle!Silent, Handle!Final, Codes

LEMMA LetsGo ==
    ASSUME UNCHANGED <<agent, code>>, code # "none", reader' = reader \/ reader' = "left"
    PROVE  [Handle!Next]_handle
<1>1. CASE reader' = reader
  BY <1>1, ThereSame
<1>2. CASE reader # "left" /\ reader' = "left"
  <2>1. There' = There /\ Held = TRUE /\ Held' = FALSE
    BY <1>2 DEF There, Held
  <2>2. Handle!LetGo
    BY <2>1 DEF Handle!LetGo, There, Held
  <2> QED
    BY <2>2 DEF Handle!Next
<1> QED
  BY <1>1, <1>2

LEMMA PumpHandle ==
    ASSUME TypeOK, Quiet, HostInv, HandleInv, Pump
    PROVE  [Handle!Next]_handle /\ HandleInv'
<1>1. ClientSays'
  <2>1. Fed \/ Kept \/ \E c \in Codes : Finished(c)
    BY PumpEffect DEF GoesOn, Ends
  <2> QED
    BY <2>1, ClientSaysStep, PumpCode DEF HandleInv, ClientSays
<1>2. [Handle!Next]_handle
  BY PumpCode, HandleIs, ThereSame
<1>3. HandleInv'
  BY <1>1, PumpCode DEF HandleInv, ClientSays
<1> QED
  BY <1>2, <1>3

LEMMA BridgeHandle ==
    ASSUME TypeOK, Quiet, HostInv, HandleInv, Bridge
    PROVE  [Handle!Next]_handle /\ HandleInv'
<1> DEFINE Good == [Handle!Next]_handle /\ HandleInv'
<1>0. UNCHANGED <<agent, server>> /\ (code' = "refused" => code = "refused")
  BY DEF Bridge, LaunchReturns, ReadsOutput, FallsSilent, StopBegins, StopReturns, Kill,
         Finish, client, host
<1>1. ASSUME ClientSays', [Handle!Next]_handle PROVE Good
  BY <1>0, <1>1 DEF HandleInv, ClientSays
<1>2. CASE LaunchReturns \/ FallsSilent \/ \E s \in Stoppers : StopBegins(s)
  <2>1. Kept /\ Held' = Held /\ (reader' = "left" => reader = "left")
    BY <1>2 DEF LaunchReturns, FallsSilent, StopBegins, Kept, Held, client
  <2>2. ClientSays'
    BY <2>1, ClientSaysStep DEF HandleInv, ClientSays
  <2>3. UNCHANGED handle
    BY <1>0, <2>1 DEF handle, There, Kept
  <2> QED
    BY <1>1, <2>2, <2>3
<1>3. CASE ReadsOutput
  <2>1. Taken /\ lines # <<>> /\ lines \in Seq(Entries) /\ reader = "reading"
    BY <1>3 DEF ReadsOutput, Taken, TypeOK, Entries
  <2>2. Head(lines) = "end" => code # "none"
    BY <2>1 DEF HandleInv, Ended
  <2>3. reader' = "left" => code # "none"
    BY <1>3, <2>2 DEF ReadsOutput
  <2>4. ClientSays'
    BY <2>1, <2>3, ClientSaysStep DEF HandleInv, ClientSays, Taken
  <2>5. CASE reader' = "left"
    BY <1>0, <1>1, <2>1, <2>3, <2>4, <2>5, LetsGo DEF Taken
  <2>6. CASE reader' # "left"
    BY <1>0, <1>1, <2>1, <2>4, <2>6 DEF Taken, handle, There, Held
  <2> QED
    BY <2>5, <2>6
<1>4. ASSUME NEW s \in Stoppers, StopReturns(s) PROVE Good
  <2>1. Kept /\ code # "none" /\ (reader' = reader \/ reader' = "left")
    BY <1>4 DEF StopReturns, Returns, Kept, client
  <2>2. ClientSays'
    BY <2>1, ClientSaysStep DEF HandleInv, ClientSays, Kept
  <2> QED
    BY <1>0, <1>1, <2>1, <2>2, LetsGo DEF Kept
<1>5. ASSUME NEW s \in Stoppers, Kill(s) PROVE Good
  <2>1. Finished("killed") /\ (reader' = reader \/ reader' = "left")
        /\ code' = IF code = "none" THEN "killed" ELSE code
    BY <1>5 DEF Kill, Returns, Finished, Finish
  <2>2. ClientSays'
    BY <2>1, ClientSaysStep DEF HandleInv, ClientSays, Codes
  <2>3. CASE code = "none"
    BY <1>0, <1>1, <2>1, <2>2, <2>3, Settles, HandleIs DEF Codes
  <2>4. CASE code # "none"
    BY <1>0, <1>1, <2>1, <2>2, <2>4, LetsGo
  <2> QED
    BY <2>3, <2>4
<1> QED
  BY <1>2, <1>3, <1>4, <1>5 DEF Bridge

LEMMA FarSideHandle ==
    ASSUME TypeOK, HostInv, HandleInv, FarSide
    PROVE  [Handle!Next]_handle /\ HandleInv'
<1> DEFINE Good == [Handle!Next]_handle /\ HandleInv'
<1>0. UNCHANGED <<lines, code, reader>>
  BY FarSideAlone DEF client, bridge
<1> DEFINE Moves == \/ server' = server
                    \/ server' \in {"reporting", "done", "fled"} /\ server # "done"
                    \/ server \in {"absent", "launching"} /\ server' \in {"launching", "erring"}
                    \/ server = "announcing" /\ server' = "relaying"
<1>1. ASSUME agent' = agent, Moves PROVE Good
  BY <1>0, <1>1, ThereSame DEF HandleInv
<1>2. CASE RequestArrives \/ LinkBreaks \/ PostLost \/ LaunchFails \/ EmitsError \/ Announces
           \/ Relays \/ Reaps \/ Reports \/ Flees \/ AgentPrints
  <2>1. agent' = agent /\ Moves
    BY <1>2 DEF RequestArrives, LinkBreaks, PostLost, LaunchFails, EmitsError, Announces,
                Relays, Reaps, Reports, Flees, AgentPrints, host
  <2> QED
    BY <1>1, <2>1
<1>3. CASE PostArrives
  <2>1. server' = server /\ (agent' = agent \/ (agent = "running" /\ agent' = "terminated"))
    BY <1>3 DEF PostArrives, AskedToEnd
  <2>2. There' = There
    BY <2>1 DEF There
  <2> QED
    BY <1>0, <2>1, <2>2 DEF HandleInv, handle, Held
<1>4. CASE Launches
  <2>1. server = "launching" /\ server' = "announcing" /\ agent' = "running" /\ agent = "none"
    BY <1>4 DEF Launches, HandleInv
  <2>2. code \notin {"exited", "refused"}
    BY <2>1 DEF HostInv, HandleInv
  <2>3. There = "none" /\ There' = "running" /\ Held' = Held
    BY <1>0, <2>1 DEF There, Held
  <2>4. Handle!Start
    BY <1>0, <2>2, <2>3 DEF Handle!Start, Handle!Final, There, Held
  <2> QED
    BY <1>0, <2>1, <2>2, <2>4 DEF HandleInv, Handle!Next
<1>5. CASE LosesPeer \/ AgentExits \/ AgentKilled
  <2>1. /\ agent # "none" /\ agent' = "dead" /\ (server' = server \/ server' = "done")
    BY <1>5 DEF LosesPeer, AgentExits, AgentKilled, AgentAlive, HandleInv
  <2>2. CASE agent = "dead"
    BY <1>0, <2>1, <2>2, ThereSame DEF HandleInv
  <2>3. CASE agent # "dead"
    <3>1. There = "running" /\ There' = "gone" /\ Held' = Held
      BY <1>0, <2>1, <2>3 DEF There, Held
    <3>2. Handle!End
      BY <1>0, <3>1 DEF Handle!End, There, Held
    <3> QED
      BY <1>0, <2>1, <3>2 DEF HandleInv, Handle!Next
  <2> QED
    BY <2>2, <2>3
<1> QED
  BY <1>2, <1>3, <1>4, <1>5 DEF FarSide, Network, Server

\* A remote job is held like a local process: it starts at most once, its first
\* code stands, an exit code is of an agent that has ended and a refusal of one
\* that never starts, and its reader leaves only when there is a code
\* (remote_client.py:74-215), in any order of the machines' steps.
THEOREM RemoteKeepsHandle == Spec => KeepsHandle
<1>1. Init => HandleInv /\ Handle!Init
  <2> SUFFICES ASSUME Init PROVE HandleInv /\ Handle!Init
    OBVIOUS
  <2>1. There = "none" /\ Held = TRUE /\ code = "none"
    BY DEF Init, There, Held
  <2>2. HandleInv
    BY DEF Init, HandleInv, Ended
  <2> QED
    BY <2>1, <2>2 DEF Handle!Init, There, Held
<1>2. TypeOK /\ Quiet /\ HostInv /\ HandleInv /\ [Next]_vars => [Handle!Next]_handle /\ HandleInv'
  <2> SUFFICES ASSUME TypeOK, Quiet, HostInv, HandleInv, [Next]_vars
               PROVE  [Handle!Next]_handle /\ HandleInv'
    OBVIOUS
  <2>1. CASE UNCHANGED vars
    BY <2>1, ThereSame DEF vars, client, bridge, host, HandleInv
  <2> QED
    BY <2>1, NextSplit, PumpHandle, BridgeHandle, FarSideHandle
<1>3. [Handle!Next]_handle => [Handle!Next]_Handle!pvars
  BY DEF Handle!pvars, handle, There, Held
<1> QED
  BY <1>1, <1>2, <1>3, HostInit, HostStep, TypeInit, TypeStep, PTL DEF Spec, KeepsHandle, Handle!Spec
=============================================================================
