-------------------------- MODULE ProcessContract --------------------------
(***************************************************************************)
(* What the bridge may rely on when it holds the handle of an agent's      *)
(* process, wherever that runs: the process starts at most once; the first *)
(* returncode stands; the code of an exit says that the process has ended, *)
(* that of a refusal that it never starts; and nobody lets go of a handle  *)
(* that has no code.  A handle that was killed, or whose stream was lost,  *)
(* says nothing: there the process may go on, or start yet.                *)
(***************************************************************************)
VARIABLES
    there,  \* the process: none yet, running or gone
    code,   \* the returncode, "none" while there is none
    held    \* the reader of its output has not left

pvars == <<there, code, held>>

Silent == {"lost", "killed"}
Final == {"exited", "refused"}

Init == there = "none" /\ code = "none" /\ held = TRUE

Start ==
    /\ there = "none" /\ code \notin Final
    /\ there' = "running"
    /\ UNCHANGED <<code, held>>

End ==
    /\ there = "running"
    /\ there' = "gone"
    /\ UNCHANGED <<code, held>>

\* The handle gets its code; the one who gave it may let go at once.
Settle(c) ==
    /\ code = "none"
    /\ c = "exited" => there # "running"
    /\ c = "refused" => there = "none"
    /\ code' = c
    /\ held' \in {held, FALSE}
    /\ UNCHANGED there

LetGo ==
    /\ code # "none" /\ held
    /\ held' = FALSE
    /\ UNCHANGED <<there, code>>

Next == Start \/ End \/ LetGo \/ \E c \in Silent \cup Final : Settle(c)

Spec == Init /\ [][Next]_pvars

-----------------------------------------------------------------------------
(* What the holder may conclude.                                            *)

\* After an exit nothing runs and nothing will; after a refusal nothing ever did.
FinalIsTrue ==
    /\ [](code = "exited" => there # "running")
    /\ [](code = "refused" => there = "none")

\* A code stands, and a handle is let go with one.
CodeStands ==
    /\ [](~held => code # "none")
    /\ [][code # "none" => code' = code]_pvars
=============================================================================
