-------------------------- MODULE SessionContract --------------------------
(***************************************************************************)
(* What a harness may rely on that keeps the sessions of the channels,     *)
(* whatever fails or is cancelled on this side: a request goes into        *)
(* sessions that the store names for its channel, that no other channel's  *)
(* request is in, and that were never given up; and what was given up is   *)
(* forgotten only if it could not be written down before the process died. *)
(***************************************************************************)
CONSTANTS Channels, Ids

VARIABLES
    inUse,    \* the sessions that the request of each channel is in
    named,    \* the sessions of each channel in the store
    gone,     \* sessions given up, with that written down
    unsure    \* sessions given up in this process only

svars == <<inUse, named, gone, unsure>>

Init ==
    /\ inUse = [c \in Channels |-> {}]
    /\ named = [c \in Channels |-> {}]
    /\ gone = {}
    /\ unsure = {}

\* Whatever is written, the store goes on naming what is in use.
StaysNamed == \A c \in Channels : inUse'[c] # {} => named'[c] = inUse'[c]

Use(c, S) ==
    /\ inUse[c] = {}
    /\ S \cap (gone \cup unsure) = {}
    /\ \A d \in Channels \ {c} : inUse[d] \cap S = {}
    /\ inUse' = [inUse EXCEPT ![c] = S]
    /\ StaysNamed
    /\ UNCHANGED <<gone, unsure>>

Leave(c) ==
    /\ inUse' = [inUse EXCEPT ![c] = {}]
    /\ StaysNamed
    /\ UNCHANGED <<gone, unsure>>

\* Sessions S are given up, and so is a request that is in one of them.
GiveUp(S) ==
    /\ inUse' = [c \in Channels |-> IF inUse[c] \cap S = {} THEN inUse[c] ELSE {}]
    /\ StaysNamed
    /\ \/ gone' = gone \cup S /\ UNCHANGED unsure
       \/ unsure' = unsure \cup S /\ UNCHANGED gone

Write ==
    /\ StaysNamed
    /\ UNCHANGED <<inUse, gone, unsure>>

\* The process dies.
Crash ==
    /\ inUse' = [c \in Channels |-> {}]
    /\ unsure' = {}
    /\ UNCHANGED <<named, gone>>

Next ==
    \/ \E c \in Channels, S \in SUBSET Ids : Use(c, S)
    \/ \E c \in Channels : Leave(c)
    \/ \E S \in SUBSET Ids : GiveUp(S)
    \/ Write
    \/ Crash

Spec == Init /\ [][Next]_svars

-----------------------------------------------------------------------------
(* What the harness may conclude.                                           *)

\* No session is in use by two channels, or without the store naming it.
OneUser ==
    /\ \A c, d \in Channels : c # d => inUse[c] \cap inUse[d] = {}
    /\ \A c \in Channels : inUse[c] # {} => named[c] = inUse[c]

\* No session is in use again once it was given up; what was written stands.
GoneStands ==
    /\ [](\A c \in Channels : inUse[c] \cap (gone \cup unsure) = {})
    /\ [][gone \subseteq gone']_svars
=============================================================================
