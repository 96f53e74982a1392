--------------------------- MODULE SessionBindings ---------------------------
(***************************************************************************)
(* The physical sessions behind the hub's channels: SessionBindingManager  *)
(* of conversation_hub/sessions.py with the durable write the hub gives it *)
(* (_persist_binding of service.py).                                       *)
(*                                                                         *)
(* Calls on one channel are serialized by the channel's asyncio.Lock, so   *)
(* phase[c] is the await at which the one call that holds it is suspended; *)
(* callers that wait for it have read nothing yet.  Between two awaits a   *)
(* call is one step, in which each durable write may fail.  Calls on       *)
(* different channels interleave, which is more than the hub's own lock    *)
(* lets happen.                                                            *)
(***************************************************************************)
EXTENDS Integers

CONSTANTS
    Channels,      \* channels of agents with a session adapter
    NativeAgents,  \* ... whose adapter may support SessionStrategy.NATIVE_RESUME
    MaxIds,        \* bound: bindings ever made by the adapters
    MaxRuns        \* bound: how many processes there are

ASSUME BindingsAssumption == /\ NativeAgents \subseteq Channels
                             /\ MaxIds \in Nat /\ MaxRuns \in Nat \ {0}

VARIABLES
    binding,       \* _bindings of the manager
    stored,        \* the bindings in the store's file
    phase,         \* what the holder of the channel's lock awaits
    call,          \* which call that is
    fresh,         \* a new native binding while it is being validated
    ids,           \* binding and native session ids handed out so far
    run,           \* which process this is
    resumes,       \* channels whose adapter resumes native sessions in it
    \* History.
    proved,        \* native bindings validated in this process
    spent,         \* sessions given up for good, with that written down
    doubtful       \* sessions given up in this process, the write having failed

vars == <<binding, stored, phase, call, fresh, ids, run, resumes, proved, spent, doubtful>>

Strategies == {"native_resume", "rehydrate"}
Ids == 0 .. MaxIds     \* 0 is None

\* A binding has a native session exactly if its strategy is to resume one.
\* pending: validation_evidence has "pending_rotation".  unproved:
\* requires_validation, or validated_at is None.
BindingRecords == [id : Ids, native : Ids, strategy : Strategies,
                   pending : BOOLEAN, unproved : BOOLEAN]
Bindings == {b \in BindingRecords : (b.strategy = "native_resume") = (b.native # 0)}
NoBinding == [id |-> 0, native |-> 0, strategy |-> "rehydrate",
              pending |-> FALSE, unproved |-> FALSE]

\* The names under which a harness may know a session.
Sessions(b) == {b.id, b.native} \ {0}

Phases == {"free", "creating", "proving", "validating", "dispatching"}
Calls == {"ensure", "rotate", "dispatch", "recover"}

TypeOK ==
    /\ binding \in [Channels -> Bindings]
    /\ stored \in [Channels -> Bindings]
    /\ phase \in [Channels -> Phases]
    /\ call \in [Channels -> Calls]
    /\ fresh \in [Channels -> Bindings]
    /\ ids \in Ids
    /\ run \in 1 .. MaxRuns
    /\ resumes \subseteq NativeAgents
    /\ proved \subseteq Ids
    /\ spent \subseteq Ids
    /\ doubtful \subseteq Ids

Init ==
    /\ binding = [c \in Channels |-> NoBinding]
    /\ stored = [c \in Channels |-> NoBinding]
    /\ phase = [c \in Channels |-> "free"]
    /\ call = [c \in Channels |-> "ensure"]
    /\ fresh = [c \in Channels |-> NoBinding]
    /\ ids = 0 /\ run = 1
    /\ resumes \in SUBSET NativeAgents
    /\ proved = {} /\ spent = {} /\ doubtful = {}

-----------------------------------------------------------------------------
(* Steps of a call.                                                         *)

Await(c, p) == phase' = [phase EXCEPT ![c] = p]

\* The call is over, by a result, an exception or a cancellation.
Release(c) == Await(c, "free")

\* The hub's persist writes the manager's bindings as they are, and _save()
\* calls it before it puts the new binding among them.
StoreSnapshot == stored' = binding

\* _save(b) with a write that succeeds.
Save(c, b) == StoreSnapshot /\ binding' = [binding EXCEPT ![c] = b]

\* A binding b that was made or proved just now is saved.  ensure_binding() and
\* rotate() return it; dispatch() saves it once more, with the time of its use,
\* and hands the request over.
ReadyAfterOneSave(c, b) ==
    /\ Save(c, b)
    /\ IF call[c] = "dispatch" THEN Await(c, "dispatching") ELSE Release(c)

ReadyAfterSave(c, b) ==
    \/ Release(c) /\ UNCHANGED <<binding, stored>>
    \/ /\ Save(c, b)
       /\ Release(c)
    \/ /\ call[c] = "dispatch"
       /\ binding' = [binding EXCEPT ![c] = b]
       /\ stored' = binding'
       /\ Await(c, "dispatching")

\* _invalidate(): the process will not use the binding again, whether or not
\* the write after it succeeds.
Invalid(b) == IF b.id = 0 THEN b ELSE [b EXCEPT !.pending = TRUE, !.unproved = TRUE]

InvalidateIfWritten(c, written) ==
    /\ binding' = IF written THEN [binding EXCEPT ![c] = Invalid(@)] ELSE binding
    /\ stored' = IF written /\ binding[c].id # 0 THEN binding' ELSE stored
    /\ spent' = IF written THEN spent \cup Sessions(binding[c]) ELSE spent
    /\ doubtful' = IF written THEN doubtful ELSE doubtful \cup Sessions(binding[c])

Invalidate(c, written) ==
    /\ binding' = [binding EXCEPT ![c] = Invalid(@)]
    /\ stored' = IF written /\ binding[c].id # 0 THEN binding' ELSE stored
    /\ spent' = IF written THEN spent \cup Sessions(binding[c]) ELSE spent
    /\ doubtful' = IF written THEN doubtful ELSE doubtful \cup Sessions(binding[c])

-----------------------------------------------------------------------------
(* The operations.                                                          *)

\* ensure_binding() and dispatch() obtain the lock: what _ensure() does before
\* its first await.
Ensure(c, k) ==
    /\ phase[c] = "free" /\ k \in {"ensure", "dispatch"}
    /\ call' = [call EXCEPT ![c] = k]
    /\ LET b == binding[c]
           resumable == b.strategy = "native_resume" IN
         \/ /\ \/ b.id = 0 \/ b.pending
               \/ resumable /\ (c \notin resumes \/ b.native = 0)
            /\ Await(c, "creating")
            /\ UNCHANGED <<binding, stored>>
         \/ /\ b.id # 0 /\ ~b.pending
            /\ resumable /\ c \in resumes /\ b.native # 0
            /\ b.unproved
            /\ Await(c, "validating")
            /\ UNCHANGED <<binding, stored>>
         \/ /\ b.id # 0 /\ ~b.pending
            /\ resumable => c \in resumes /\ b.native # 0 /\ ~b.unproved
            /\ \/ k = "dispatch" /\ StoreSnapshot /\ Await(c, "dispatching")
               \/ UNCHANGED <<stored, phase>>
            /\ UNCHANGED binding
    /\ UNCHANGED <<fresh, ids, run, resumes, proved, spent, doubtful>>

\* rotate() up to the creation of the next binding.
Rotate(c) ==
    /\ phase[c] = "free"
    /\ call' = [call EXCEPT ![c] = "rotate"]
    /\ \/ Invalidate(c, TRUE) /\ Await(c, "creating")
       \/ Invalidate(c, FALSE) /\ binding[c].id # 0 /\ UNCHANGED phase
    /\ UNCHANGED <<fresh, ids, run, resumes, proved>>

\* What an adapter may return from create_bound_session(): as a rule new ids,
\* if it fails at that the ones it has, with or without a native session.
FreshBindings(c) ==
    [id : {ids + 1, binding[c].id} \ {0}, native : {0, ids + 1, binding[c].native},
     strategy : Strategies, pending : {FALSE}, unproved : {TRUE}]

\* A new binding needs a new id, and a native one an adapter that resumes it.
Refused(c, b) ==
    \/ b.id = binding[c].id
    \/ b.strategy = "native_resume" /\ (c \notin resumes \/ b.native = 0)
    \/ b.strategy = "rehydrate" /\ b.native # 0

\* create_bound_session() returns: refuse the binding, ask the adapter to
\* validate it if it is native, or keep it.
Created(c) ==
    /\ phase[c] = "creating"
    /\ ids < MaxIds /\ ids' = ids + 1
    /\ \E b \in FreshBindings(c) :
         \/ /\ Refused(c, b)
            /\ Release(c)
            /\ UNCHANGED <<binding, stored, fresh>>
         \/ /\ ~Refused(c, b) /\ b.strategy = "native_resume"
            /\ fresh' = [fresh EXCEPT ![c] = b]
            /\ Await(c, "proving")
            /\ UNCHANGED <<binding, stored>>
         \/ /\ ~Refused(c, b) /\ b.strategy = "rehydrate"
            /\ ReadyAfterSave(c, b)
            /\ UNCHANGED fresh
    /\ UNCHANGED <<call, run, resumes, proved, spent, doubtful>>

\* The adapter has validated the new native session; it must be another one
\* than the channel's last.
Proved(c) ==
    /\ phase[c] = "proving"
    /\ proved' = proved \cup {fresh[c].id}
    /\ \/ /\ fresh[c].native = binding[c].native
          /\ Release(c)
          /\ UNCHANGED <<binding, stored>>
       \/ /\ fresh[c].native # binding[c].native
          /\ ReadyAfterSave(c, [fresh[c] EXCEPT !.unproved = FALSE])
    /\ UNCHANGED <<call, fresh, ids, run, resumes, spent, doubtful>>

\* The channel's native session is still there.
Validated(c) ==
    /\ phase[c] = "validating"
    /\ proved' = proved \cup {binding[c].id}
    /\ ReadyAfterSave(c, [binding[c] EXCEPT !.unproved = FALSE])
    /\ UNCHANGED <<call, fresh, ids, run, resumes, spent, doubtful>>

\* It is not, or the adapter raised: rotate to a new one.
NotValidated(c) ==
    /\ phase[c] = "validating"
    /\ Await(c, "creating")
    /\ UNCHANGED <<binding, stored, call, fresh, ids, run, resumes, proved, spent, doubtful>>

\* The creation or validation raises or is cancelled, or the proof of a new
\* native session fails.
GivesUp(c) ==
    /\ phase[c] \in {"creating", "proving", "validating"}
    /\ Release(c)
    /\ UNCHANGED <<binding, stored, call, fresh, ids, run, resumes, proved, spent, doubtful>>

\* The bridge has accepted the request.
DispatchReturns(c) ==
    /\ phase[c] = "dispatching"
    /\ Release(c)
    /\ UNCHANGED <<binding, stored, call, fresh, ids, run, resumes, proved, spent, doubtful>>

\* The dispatch raised or was cancelled after the request may have reached the
\* agent.  A failure goes on to a new binding, for the next request.
DispatchFails(c) ==
    /\ phase[c] = "dispatching"
    /\ \/ \E written \in BOOLEAN : Invalidate(c, written) /\ Release(c) /\ UNCHANGED call
       \/ /\ Invalidate(c, TRUE)
          /\ call' = [call EXCEPT ![c] = "recover"]
          /\ Await(c, "creating")
    /\ UNCHANGED <<fresh, ids, run, resumes, proved>>

\* Any other operation of the hub ends by saving everything.
HubSaves ==
    /\ stored # binding
    /\ StoreSnapshot
    /\ UNCHANGED <<binding, phase, call, fresh, ids, run, resumes, proved, spent, doubtful>>

\* The process dies.  The next one asks for the validation of what was native.
Reloaded(b) == b
Restored(b) == [b EXCEPT !.unproved = @ \/ b.strategy = "native_resume"]

Restart ==
    /\ run < MaxRuns
    /\ run' = run + 1
    /\ resumes' \in SUBSET NativeAgents
    /\ binding' = [c \in Channels |-> Restored(stored[c])]
    /\ phase' = [c \in Channels |-> "free"]
    /\ proved' = {} /\ doubtful' = {}
    /\ UNCHANGED <<stored, call, fresh, ids, spent>>

Next ==
    \/ \E c \in Channels :
         \/ \E k \in {"ensure", "dispatch"} : Ensure(c, k)
         \/ Rotate(c) \/ Created(c) \/ Proved(c) \/ Validated(c) \/ NotValidated(c)
         \/ GivesUp(c) \/ DispatchReturns(c) \/ DispatchFails(c)
    \/ HubSaves \/ Restart

Spec == Init /\ [][Next]_vars

-----------------------------------------------------------------------------
(* Properties.                                                              *)

\* A request goes into a session that the store already names, although each
\* write is one binding behind (sessions.py:155-159 with service.py:913-926).
DurableBeforeUse ==
    \A c \in Channels : phase[c] = "dispatching" => Sessions(stored[c]) = Sessions(binding[c])

\* A session that was rotated away, or whose dispatch failed or was cancelled,
\* takes no further request: in this process even if that could not be
\* written, and after a restart if it was (sessions.py:68-78, 158-166).
NoReplay ==
    \A c \in Channels :
       phase[c] = "dispatching" => Sessions(binding[c]) \cap (spent \cup doubtful) = {}

\* A native session is resumed only after its adapter has validated it in this
\* process (sessions.py:42-47, 121-131).
NativeIsProved ==
    \A c \in Channels :
       phase[c] = "dispatching" /\ binding[c].strategy = "native_resume"
         => c \in resumes /\ binding[c].id \in proved

\* Whatever a call, a failed write or a restart does to the bindings is a step of
\* SessionContract, or none: a request is in its channel's sessions while its
\* dispatch is awaited.
Contract == INSTANCE SessionContract WITH
               inUse <- [c \in Channels |->
                           IF phase[c] = "dispatching" THEN Sessions(binding[c]) ELSE {}],
               named <- [c \in Channels |-> Sessions(stored[c])],
               gone <- spent,
               unsure <- doubtful
KeepsSessionContract == Contract!Spec
=============================================================================
