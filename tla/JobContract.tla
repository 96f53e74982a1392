---------------------------- MODULE JobContract ----------------------------
(***************************************************************************)
(* What AgentBridge promises the host about a job, however it is queued,   *)
(* launched, failed over, cancelled or shut down: the job is accepted once *)
(* and reported at most once; the report comes after the job's last        *)
(* process is gone and its outcome never changes; and two jobs that share  *)
(* a lane (the resumed session of one agent) never run at the same time.   *)
(***************************************************************************)
CONSTANTS Jobs, Lanes, NoLane, Outcomes, NoOutcome

VARIABLES phase, outcome, running, lane

cvars == <<phase, outcome, running, lane>>

Init ==
    /\ phase = [j \in Jobs |-> "absent"]
    /\ outcome = [j \in Jobs |-> NoOutcome]
    /\ running = {}
    /\ lane = [j \in Jobs |-> NoLane]

\* A job is accepted; refused work is accepted and reported at once.
Accept(j) ==
    /\ phase[j] = "absent"
    /\ \E l \in Lanes \cup {NoLane} : lane' = [lane EXCEPT ![j] = l]
    /\ \/ /\ phase' = [phase EXCEPT ![j] = "open"]
          /\ UNCHANGED outcome
       \/ /\ phase' = [phase EXCEPT ![j] = "reported"]
          /\ \E o \in Outcomes : outcome' = [outcome EXCEPT ![j] = o]
    /\ UNCHANGED running

\* A process is started for an open job, alone in its lane but for what was
\* abandoned there.
Launch(j) ==
    /\ phase[j] = "open"
    /\ j \notin running
    /\ \A k \in running : lane[k] = lane[j] /\ phase[k] # "abandoned" => lane[j] = NoLane
    /\ running' = running \cup {j}
    /\ UNCHANGED <<phase, outcome, lane>>

Exit(j) ==
    /\ j \in running
    /\ running' = running \ {j}
    /\ UNCHANGED <<phase, outcome, lane>>

Report(j, o) ==
    /\ phase[j] = "open"
    /\ j \notin running
    /\ phase' = [phase EXCEPT ![j] = "reported"]
    /\ outcome' = [outcome EXCEPT ![j] = o]
    /\ UNCHANGED <<running, lane>>

\* The host is shutting down: an open job may be abandoned, unreported.
Abandon(j) ==
    /\ phase[j] = "open"
    /\ phase' = [phase EXCEPT ![j] = "abandoned"]
    /\ UNCHANGED <<outcome, running, lane>>

Next ==
    \/ \E j \in Jobs : Accept(j) \/ Launch(j) \/ Exit(j) \/ Abandon(j)
    \/ \E j \in Jobs, o \in Outcomes : Report(j, o)

Spec == Init /\ [][Next]_cvars

-----------------------------------------------------------------------------
(* What the host may conclude.                                              *)

\* Jobs that share a lane never run at the same time, unless abandoned.
OneInLane ==
    \A j, k \in running :
        /\ lane[j] = lane[k] /\ lane[j] # NoLane
        /\ "abandoned" \notin {phase[j], phase[k]}
        => j = k

\* A report names an outcome, after the job's last process, and is final.
ReportStands ==
    /\ [](\A j \in Jobs : phase[j] = "reported" => outcome[j] \in Outcomes /\ j \notin running)
    /\ [][\A j \in Jobs : phase[j] = "reported" =>
                             phase'[j] = "reported" /\ outcome'[j] = outcome[j]]_cvars
=============================================================================
