----------------------------- MODULE RemoteJob -----------------------------
(***************************************************************************)
(* One job on another machine: RemoteProcess and its pump in               *)
(* remote_client.py, the thread that serves the job in remote_host.py, the *)
(* stream between them, and the two coroutines of agent_bridge.py that may *)
(* stop the process: the one that reads its output and cancel().           *)
(*                                                                         *)
(* A client step runs from one await to the next.  Output lines are all    *)
(* alike.  The network may lose a cancellation and may break the stream or *)
(* delay it for ever; neither machine fails.                               *)
(***************************************************************************)
EXTENDS Integers, Sequences, FiniteSets

CONSTANTS
    MaxBuffered,  \* _MAX_BUFFERED_LINES
    MaxWire,      \* events that the sockets hold
    MaxPipe       \* lines that the agent's pipe holds

ASSUME RemoteAssumption == /\ MaxBuffered \in Nat \ {0}
                           /\ MaxWire \in Nat \ {0}
                           /\ MaxPipe \in Nat \ {0}

VARIABLES
    pump,        \* _pump()
    known,       \* the started event has given ids a job_id
    lines,       \* _lines
    code,        \* returncode, "none" until _finished is set
    dropped,     \* how many entries _finish() took out of _lines
    reader,      \* _launch_remote() and _stream() of the bridge
    stopper,     \* who calls _terminate() of the bridge
    early,       \* the last kill() had no job_id
    posts,       \* cancellations under way
    lost,        \* a cancellation was lost
    link,        \* the connection of the stream
    wire,        \* what the host emitted and the pump has not read
    server,      \* the thread in _start_job() and run_job()
    agent,       \* the agent's process
    registered,  \* _running has it
    pipe         \* lines in the agent's stdout

client == <<pump, known, lines, code, dropped>>
bridge == <<reader, stopper>>
cancels == <<early, posts, lost>>
network == <<link, wire>>
host == <<server, agent, registered, pipe>>
vars == <<client, bridge, cancels, network, host>>

\* The reader itself, after a marker, a quota or silence; and cancel().
Stoppers == {"stream", "cancel"}

\* killed: the peer ended the wait; lost: the stream ended without an exit
\* event; refused: 126; exited: what the host reported.
Codes == {"exited", "refused", "lost", "killed"}

TypeOK ==
    /\ pump \in {"connecting", "reading", "feeding", "failing", "closing", "over"}
    /\ known \in BOOLEAN
    /\ lines \in Seq({"line", "end"}) /\ Len(lines) <= MaxBuffered
    /\ code \in Codes \cup {"none"}
    /\ dropped \in Nat
    /\ reader \in {"launching", "reading", "stopping", "left"}
    /\ stopper \in [Stoppers -> {"none", "grace", "killed", "done"}]
    /\ early \in BOOLEAN /\ posts \in Nat /\ lost \in BOOLEAN
    /\ link \in {"none", "up", "cut"}
    /\ wire \in Seq({"started", "line", "exit"}) /\ Len(wire) <= MaxWire
    /\ server \in {"absent", "launching", "erring", "announcing", "relaying",
                   "reporting", "done", "fled"}
    /\ agent \in {"none", "running", "terminated", "dead"}
    /\ registered \in BOOLEAN
    /\ pipe \in 0 .. MaxPipe

Init ==
    /\ pump = "connecting" /\ known = FALSE /\ lines = <<>> /\ code = "none" /\ dropped = 0
    /\ reader = "launching" /\ stopper = [s \in Stoppers |-> "none"]
    /\ early = FALSE /\ posts = 0 /\ lost = FALSE
    /\ link = "none" /\ wire = <<>>
    /\ server = "absent" /\ agent = "none" /\ registered = FALSE /\ pipe = 0

AgentAlive == agent \in {"running", "terminated"}

-----------------------------------------------------------------------------
(* The client's pump.                                                       *)

HasRoom(b) == Len(b) < MaxBuffered

\* The end marker goes in whatever it takes: the oldest entry gives way.
SkippedIfFull(b) == IF HasRoom(b) THEN Append(b, "end") ELSE b
Emptied(b) == <<"end">>
Marked(b) == Append(IF HasRoom(b) THEN b ELSE Tail(b), "end")

FinishLast(c, b) ==
    /\ code' = c
    /\ lines' = Marked(b)
    /\ dropped' = dropped + Len(b) + 1 - Len(Marked(b))
\* _finish(): the first code stands.
Finish(c, b) ==
    /\ code' = IF code = "none" THEN c ELSE code
    /\ lines' = Marked(b)
    /\ dropped' = dropped + Len(b) + 1 - Len(Marked(b))

\* Nothing answers: no route, no accept in time, or the connection is reset
\* before the headers of the answer are there.
ConnectFails ==
    /\ pump = "connecting"
    /\ Finish("lost", Append(lines, "line"))
    /\ pump' = "over" /\ link' = "cut"
    /\ UNCHANGED <<known, bridge, cancels, wire, host>>

\* The host answers with a status other than 200: _feed(), ready, _finish(126).
Refused ==
    /\ pump = "connecting" /\ server = "absent" /\ link = "none"
    /\ Finish("refused", Append(lines, "line"))
    /\ pump' = "closing" /\ server' = "done" /\ link' = "up"
    /\ UNCHANGED <<known, bridge, cancels, wire, agent, registered, pipe>>

\* The headers of a 200 arrive, and ready is set.
Accepted ==
    /\ pump = "connecting" /\ link = "up"
    /\ pump' = "reading"
    /\ UNCHANGED <<known, lines, code, dropped, bridge, cancels, network, host>>

\* The next event of the stream.
ReadsStarted ==
    /\ Head(wire) = "started"
    /\ known' = TRUE
    /\ UNCHANGED <<pump, lines, code, dropped>>

ReadsLine ==
    /\ Head(wire) = "line"
    /\ IF HasRoom(lines) THEN lines' = Append(lines, "line") /\ UNCHANGED pump
                         ELSE pump' = "feeding" /\ UNCHANGED lines
    /\ UNCHANGED <<known, code, dropped>>

ReadsExit ==
    /\ Head(wire) = "exit"
    /\ Finish("exited", lines)
    /\ pump' = "closing"
    /\ UNCHANGED known

ReadsEvent ==
    /\ pump = "reading" /\ wire # <<>>
    /\ ReadsStarted \/ ReadsLine \/ ReadsExit
    /\ wire' = Tail(wire)
    /\ UNCHANGED <<bridge, cancels, link, host>>

\* put() of a line that found _lines full.
FeedResumes ==
    /\ pump = "feeding" /\ HasRoom(lines)
    /\ lines' = Append(lines, "line")
    /\ pump' = "reading"
    /\ UNCHANGED <<known, code, dropped, bridge, cancels, network, host>>

\* The connection is reset while the pump reads: that too is told in a line.
StreamBreaks ==
    /\ pump = "reading" /\ link = "cut"
    /\ IF HasRoom(lines)
       THEN pump' = "over" /\ Finish("lost", Append(lines, "line"))
       ELSE pump' = "failing" /\ UNCHANGED <<lines, code, dropped>>
    /\ UNCHANGED <<known, bridge, cancels, network, host>>

FailureResumes ==
    /\ pump = "failing" /\ HasRoom(lines)
    /\ Finish("lost", Append(lines, "line"))
    /\ pump' = "over"
    /\ UNCHANGED <<known, bridge, cancels, network, host>>

\* The stream ends without an exit event, or a line is too long for the parser.
StreamEnds ==
    /\ pump = "reading"
    /\ pump' = "closing"
    /\ UNCHANGED <<known, lines, code, dropped, bridge, cancels, network, host>>

\* The connection is closed, and then comes the finally clause.
PumpEnds ==
    /\ pump = "closing"
    /\ Finish("lost", lines)
    /\ pump' = "over" /\ link' = "cut"
    /\ UNCHANGED <<known, bridge, cancels, wire, host>>

\* A pump that waits for room once the bridge has dropped the process may be
\* collected as garbage, which runs its finally clause; or wait for ever.
PumpCollected ==
    /\ pump \in {"feeding", "failing"}
    /\ reader = "left" /\ \A s \in Stoppers : stopper[s] # "grace"
    /\ Finish("lost", lines)
    /\ pump' = "over" /\ link' = "cut"
    /\ UNCHANGED <<known, bridge, cancels, wire, host>>

Pump == \/ ConnectFails \/ Refused \/ Accepted \/ ReadsEvent \/ FeedResumes
        \/ StreamBreaks \/ FailureResumes \/ StreamEnds \/ PumpEnds \/ PumpCollected

-----------------------------------------------------------------------------
(* The bridge: the reader of the output, and _terminate().                  *)

\* ready is set: start_job() returns, _procs has the process, the launch is done.
Ready == pump # "connecting"

LaunchReturns ==
    /\ reader = "launching" /\ Ready
    /\ reader' = "reading"
    /\ UNCHANGED <<client, stopper, cancels, network, host>>

\* readline(): a line that may tell the reader to stop the job, or the end.
ReadsOutput ==
    /\ reader = "reading" /\ lines # <<>>
    /\ lines' = Tail(lines)
    /\ reader' \in IF Head(lines) = "end" THEN {"left"} ELSE {"reading", "stopping"}
    /\ UNCHANGED <<pump, known, code, dropped, stopper, cancels, network, host>>

\* readline() has waited for the inactivity timeout.
FallsSilent ==
    /\ reader = "reading" /\ lines = <<>>
    /\ reader' = "stopping"
    /\ UNCHANGED <<client, stopper, cancels, network, host>>

\* terminate(): a cancellation is sent if there is a job_id.
Terminate ==
    /\ posts' = IF known THEN posts + 1 ELSE posts
    /\ UNCHANGED lost

\* cancel() finds the process in _procs until the reader has left.
MayStop(s) == IF s = "stream" THEN reader = "stopping" ELSE reader \in {"reading", "stopping"}

\* The stopper returns from _terminate(), and the reader then from wait().
Returns(s, how) ==
    /\ stopper' = [stopper EXCEPT ![s] = how]
    /\ reader' = IF s = "stream" THEN "left" ELSE reader

StopBegins(s) ==
    /\ stopper[s] = "none" /\ MayStop(s) /\ code = "none"
    /\ Terminate
    /\ stopper' = [stopper EXCEPT ![s] = "grace"]
    /\ UNCHANGED <<client, reader, early, network, host>>

\* There is a returncode already, or there is one within the grace period.
StopReturns(s) ==
    /\ stopper[s] = "grace" \/ (stopper[s] = "none" /\ MayStop(s))
    /\ code # "none"
    /\ Returns(s, "done")
    /\ UNCHANGED <<client, cancels, network, host>>

\* The grace period is over (an exit in the same moment does not help): kill().
KillsOnlyHere(s) ==
    /\ stopper[s] = "grace"
    /\ early' = ~known
    /\ Finish("killed", lines)
    /\ Returns(s, "killed")
    /\ UNCHANGED <<pump, known, posts, lost, network, host>>
KillAsksAgain(s) ==
    /\ stopper[s] = "grace" /\ code # "none"
    /\ Terminate /\ early' = ~known
    /\ Finish("killed", lines)
    /\ Returns(s, "killed")
    /\ UNCHANGED <<pump, known, network, host>>
Kill(s) ==
    /\ stopper[s] = "grace"
    /\ Terminate /\ early' = ~known
    /\ Finish("killed", lines)
    /\ Returns(s, "killed")
    /\ UNCHANGED <<pump, known, network, host>>

Bridge == \/ LaunchReturns \/ ReadsOutput \/ FallsSilent
          \/ \E s \in Stoppers : StopBegins(s) \/ StopReturns(s) \/ Kill(s)

-----------------------------------------------------------------------------
(* The network.                                                             *)

RequestArrives ==
    /\ server = "absent" /\ link = "none"
    /\ server' = "launching" /\ link' = "up"
    /\ UNCHANGED <<client, bridge, cancels, wire, agent, registered, pipe>>

LinkBreaks ==
    /\ link = "up"
    /\ link' = "cut"
    /\ UNCHANGED <<client, bridge, cancels, wire, host>>

\* cancel() of the host: an agent it has and that runs is asked to end.
OnlyAnswers == UNCHANGED agent
AskedToEnd == agent' = IF registered /\ agent = "running" THEN "terminated" ELSE agent

PostArrives ==
    /\ posts > 0
    /\ posts' = posts - 1
    /\ AskedToEnd
    /\ UNCHANGED <<client, bridge, early, lost, network, server, registered, pipe>>

PostLost ==
    /\ posts > 0
    /\ posts' = posts - 1 /\ lost' = TRUE
    /\ UNCHANGED <<client, bridge, early, network, host>>

Network == RequestArrives \/ LinkBreaks \/ PostArrives \/ PostLost

-----------------------------------------------------------------------------
(* The host.                                                                *)

\* emit(): it waits while the sockets are full.
Emit(e) ==
    /\ link = "up" /\ Len(wire) < MaxWire
    /\ wire' = Append(wire, e)
    /\ UNCHANGED <<client, bridge, cancels, link>>

\* An unknown backend, or an executable that cannot be launched.
LaunchFails ==
    /\ server = "launching"
    /\ server' = "erring"
    /\ UNCHANGED <<client, bridge, cancels, network, agent, registered, pipe>>

EmitsError ==
    /\ server = "erring" /\ Emit("line")
    /\ server' = "reporting"
    /\ UNCHANGED <<agent, registered, pipe>>

\* Popen() and the entry in _running come before the started event.
Launches ==
    /\ server = "launching"
    /\ server' = "announcing" /\ agent' = "running" /\ registered' = TRUE
    /\ UNCHANGED <<client, bridge, cancels, network, pipe>>

Announces ==
    /\ server = "announcing" /\ Emit("started")
    /\ server' = "relaying"
    /\ UNCHANGED <<agent, registered, pipe>>

Relays ==
    /\ server = "relaying" /\ pipe > 0 /\ Emit("line")
    /\ pipe' = pipe - 1
    /\ UNCHANGED <<server, agent, registered>>

\* End of the output: wait() returns the code and the finally clause pops the job.
Reaps ==
    /\ server = "relaying" /\ pipe = 0 /\ agent = "dead"
    /\ server' = "reporting" /\ registered' = FALSE
    /\ UNCHANGED <<client, bridge, cancels, network, agent, pipe>>

Reports ==
    /\ server = "reporting" /\ Emit("exit")
    /\ server' = "done"
    /\ UNCHANGED <<agent, registered, pipe>>

\* emit() raises while a line is relayed: the agent is killed, reaped, forgotten.
ForgetsAgent ==
    /\ server = "relaying" /\ pipe > 0 /\ link = "cut"
    /\ server' = "done" /\ registered' = FALSE
    /\ UNCHANGED <<client, bridge, cancels, network, agent, pipe>>
LosesPeer ==
    /\ server = "relaying" /\ pipe > 0 /\ link = "cut"
    /\ server' = "done" /\ agent' = "dead" /\ registered' = FALSE
    /\ UNCHANGED <<client, bridge, cancels, network, pipe>>

\* emit() raises elsewhere: run_job() is left as it is, also with the agent that
\* it was about to announce.
Flees ==
    /\ server \in {"erring", "announcing", "reporting"} /\ link = "cut"
    /\ server' = IF server = "announcing" THEN "fled" ELSE "done"
    /\ UNCHANGED <<client, bridge, cancels, network, agent, registered, pipe>>

Server == \/ LaunchFails \/ EmitsError \/ Launches \/ Announces \/ Relays
          \/ Reaps \/ Reports \/ LosesPeer \/ Flees

AgentPrints ==
    /\ AgentAlive /\ pipe < MaxPipe
    /\ pipe' = pipe + 1
    /\ UNCHANGED <<client, bridge, cancels, network, server, agent, registered>>

AgentExits ==
    /\ AgentAlive
    /\ agent' = "dead"
    /\ UNCHANGED <<client, bridge, cancels, network, server, registered, pipe>>

\* cancel() of the host has waited for its grace period: proc.kill().
AgentKilled ==
    /\ agent = "terminated"
    /\ agent' = "dead"
    /\ UNCHANGED <<client, bridge, cancels, network, server, registered, pipe>>

Next == Pump \/ Bridge \/ Network \/ Server \/ AgentPrints \/ AgentExits \/ AgentKilled

Spec == Init /\ [][Next]_vars

\* The event loop runs what is ready and its timers; a cancellation arrives or
\* times out; the host's threads run and a signalled agent dies.  Nothing makes
\* the network deliver, a broken connection show, or an agent print or exit.
Fairness ==
    /\ WF_vars(LaunchReturns) /\ WF_vars(ReadsOutput)
    /\ \A s \in Stoppers : WF_vars(StopReturns(s) \/ Kill(s))
    /\ WF_vars(PostArrives \/ PostLost) /\ WF_vars(AgentKilled)

FairSpec == Spec /\ Fairness

-----------------------------------------------------------------------------
(* Properties.                                                              *)

\* A process that has a returncode has an end marker for the reader that has not
\* left, however full _lines is and however often _finish() ran ("without it
\* the reader waits forever on a finished job").
EndIsMarked ==
    code # "none" /\ reader # "left" => \E i \in DOMAIN lines : lines[i] = "end"

\* No output is dropped before the job is over, and then at most two lines, for
\* the exit event and the finally clause of the pump, and one per kill().
LossIsBounded ==
    /\ code = "none" => dropped = 0
    /\ dropped <= 2 + Cardinality({s \in Stoppers : stopper[s] = "killed"})

\* An exit code that the client hands on is of an agent that has exited: the
\* bridge may start the next job in the same directory.
ExitIsTrue == code = "exited" => ~AgentAlive /\ ~registered

\* A served job leaves neither its agent running nor its entry in _running,
\* whether it ended or the peer hung up while output was relayed (the comment at
\* remote_host.py:238-239).  Only the started event is sent outside that try.
HostReaps == server = "done" => ~AgentAlive /\ ~registered

\* The host has every running job whose id the client may cancel.
AnnouncedIsRegistered == known /\ AgentAlive => registered

\* A job killed here goes on there only if its cancellation is on the way or was
\* lost, or if there was no id yet to cancel.
StopIsAccounted ==
    code = "killed" /\ agent = "running" => early \/ lost \/ posts > 0

\* The bridge may hold this process as it holds a local one, but for the codes
\* that say nothing of the agent ("a remote job wearing the shape of a local
\* subprocess", remote_client.py:75).
Handle == INSTANCE ProcessContract WITH
              there <- CASE agent = "none" -> "none"
                         [] agent = "dead" -> "gone"
                         [] OTHER -> "running",
              held <- reader # "left"
KeepsHandle == Handle!Spec

\* A job that is over or being stopped ends on this side, whatever the network and
\* the host do: the reader leaves and every _terminate() returns ("this also ends
\* the job on this side rather than leaving the caller waiting").
JobEnds ==
    \A s \in Stoppers :
       code # "none" \/ stopper[s] = "grace" ~> reader = "left" /\ stopper[s] # "grace"

\* A kill() that had an id ends the agent unless a cancellation is lost.
KillReachesAgent == code = "killed" /\ ~early ~> ~AgentAlive \/ lost
=============================================================================
