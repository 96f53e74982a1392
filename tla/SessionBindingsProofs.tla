------------------------ MODULE SessionBindingsProofs ------------------------
(***************************************************************************)
(* Proofs about SessionBindings, for any number of channels, bindings and  *)
(* restarts: type correctness, that requests go into durable sessions      *)
(* which nothing has given up and, if native, the adapter has validated,   *)
(* and that all this implements SessionContract.                           *)
(***************************************************************************)
EXTENDS SessionBindings, TLAPS

-----------------------------------------------------------------------------
(* What the operators do to a binding.                                      *)

LEMMA NoBindingType == NoBinding \in Bindings
BY BindingsAssumption DEF NoBinding, Bindings, BindingRecords, Ids, Strategies

LEMMA InvalidFacts ==
    ASSUME NEW b \in Bindings
    PROVE  /\ Invalid(b) \in Bindings
           /\ Invalid(b).id = b.id /\ Invalid(b).native = b.native
           /\ Invalid(b).strategy = b.strategy
           /\ b.id # 0 => Invalid(b).pending /\ Invalid(b).unproved
           /\ b.id = 0 => Invalid(b) = b
BY DEF Invalid, Bindings, BindingRecords

LEMMA RestoredFacts ==
    ASSUME NEW b \in Bindings
    PROVE  /\ Restored(b) \in Bindings
           /\ Restored(b).id = b.id /\ Restored(b).native = b.native
           /\ Restored(b).pending = b.pending
           /\ Restored(b).strategy = b.strategy
           /\ b.strategy = "native_resume" => Restored(b).unproved
BY DEF Restored, Bindings, BindingRecords

LEMMA ProvedFacts ==
    ASSUME NEW b \in Bindings
    PROVE  /\ [b EXCEPT !.unproved = FALSE] \in Bindings
           /\ [b EXCEPT !.unproved = FALSE].id = b.id
           /\ [b EXCEPT !.unproved = FALSE].native = b.native
           /\ [b EXCEPT !.unproved = FALSE].pending = b.pending
           /\ [b EXCEPT !.unproved = FALSE].strategy = b.strategy
BY DEF Bindings, BindingRecords

LEMMA SessionsType ==
    ASSUME NEW b \in Bindings
    PROVE  Sessions(b) \subseteq Ids
BY DEF Sessions, Bindings, BindingRecords

LEMMA FreshType ==
    ASSUME TypeOK, NEW c \in Channels, ids < MaxIds, NEW b \in FreshBindings(c), ~Refused(c, b)
    PROVE  /\ b \in Bindings
           /\ b.id = ids + 1
           /\ ~b.pending
           /\ b.strategy = "native_resume" => b.native \in {ids + 1, binding[c].native} /\ c \in resumes
           /\ b.strategy # "native_resume" => b.native = 0
<1>1. binding[c] \in Bindings
  BY DEF TypeOK
<1>2. ids \in Nat /\ ids + 1 \in Ids
  BY BindingsAssumption DEF TypeOK, Ids
<1>3. /\ b.id \in {ids + 1, binding[c].id} /\ b.native \in {0, ids + 1, binding[c].native}
      /\ b.strategy \in Strategies /\ b.pending = FALSE /\ b.unproved = TRUE
  BY DEF FreshBindings
<1>4. b.id = ids + 1
  BY <1>3 DEF Refused
<1>5. b.strategy = "native_resume" => c \in resumes /\ b.native # 0
  BY DEF Refused
<1>6. b.strategy # "native_resume" => b.native = 0
  BY <1>3 DEF Refused, Strategies
<1>7. b \in BindingRecords
  <2>1. b = [id |-> b.id, native |-> b.native, strategy |-> b.strategy,
             pending |-> b.pending, unproved |-> b.unproved]
    BY DEF FreshBindings
  <2>2. b.id \in Ids /\ b.native \in Ids
    BY <1>1, <1>2, <1>3, BindingsAssumption DEF Bindings, BindingRecords, Ids
  <2> QED
    BY <1>3, <2>1, <2>2 DEF BindingRecords
<1> QED
  BY <1>3, <1>4, <1>5, <1>6, <1>7 DEF Bindings

-----------------------------------------------------------------------------
(* Type correctness.                                                        *)

\* What a save puts into the two tables.
LEMMA SaveType ==
    ASSUME TypeOK, NEW c \in Channels, NEW b \in Bindings, ReadyAfterSave(c, b)
    PROVE  /\ binding' \in [Channels -> Bindings]
           /\ stored' \in [Channels -> Bindings]
           /\ phase' \in [Channels -> Phases]
BY DEF ReadyAfterSave, Save, StoreSnapshot, Release, Await, TypeOK, Phases

LEMMA InvalidateType ==
    ASSUME TypeOK, NEW c \in Channels, NEW w \in BOOLEAN, Invalidate(c, w)
    PROVE  /\ binding' \in [Channels -> Bindings]
           /\ stored' \in [Channels -> Bindings]
           /\ spent' \subseteq Ids /\ doubtful' \subseteq Ids
<1>1. binding[c] \in Bindings
  BY DEF TypeOK
<1>2. binding' \in [Channels -> Bindings]
  BY <1>1, InvalidFacts DEF Invalidate, TypeOK
<1>3. stored' \in [Channels -> Bindings]
  BY <1>2 DEF Invalidate, TypeOK
<1>4. spent' \subseteq Ids /\ doubtful' \subseteq Ids
  BY <1>1, SessionsType DEF Invalidate, TypeOK
<1> QED
  BY <1>2, <1>3, <1>4

LEMMA TypeInit == Init => TypeOK
BY NoBindingType, BindingsAssumption DEF Init, TypeOK, Phases, Calls, Ids

LEMMA TypeNext == TypeOK /\ [Next]_vars => TypeOK'
<1> SUFFICES ASSUME TypeOK, [Next]_vars PROVE TypeOK'
  OBVIOUS
<1>1. ASSUME NEW c \in Channels, NEW k \in {"ensure", "dispatch"}, Ensure(c, k) PROVE TypeOK'
  BY <1>1 DEF Ensure, StoreSnapshot, Await, TypeOK, Phases, Calls
<1>2. ASSUME NEW c \in Channels, Rotate(c) PROVE TypeOK'
  <2>1. PICK w \in BOOLEAN : Invalidate(c, w)
    BY <1>2 DEF Rotate
  <2> QED
    BY <1>2, <2>1, InvalidateType DEF Rotate, Await, TypeOK, Phases, Calls
<1>3. ASSUME NEW c \in Channels, Created(c) PROVE TypeOK'
  <2>1. ids' \in Ids
    BY <1>3, BindingsAssumption DEF Created, TypeOK, Ids
  <2>2. PICK b \in FreshBindings(c) :
          \/ Refused(c, b) /\ Release(c) /\ UNCHANGED <<binding, stored, fresh>>
          \/ /\ ~Refused(c, b) /\ fresh' = [fresh EXCEPT ![c] = b] /\ Await(c, "proving")
             /\ UNCHANGED <<binding, stored>>
          \/ ~Refused(c, b) /\ ReadyAfterSave(c, b) /\ UNCHANGED fresh
    BY <1>3 DEF Created
  <2>3. ~Refused(c, b) => b \in Bindings
    BY <1>3, FreshType DEF Created
  <2> QED
    BY <1>3, <2>1, <2>2, <2>3, SaveType DEF Created, Release, Await, TypeOK, Phases
<1>4. ASSUME NEW c \in Channels, Proved(c) PROVE TypeOK'
  <2>1. fresh[c] \in Bindings /\ [fresh[c] EXCEPT !.unproved = FALSE] \in Bindings
    BY ProvedFacts DEF TypeOK
  <2>2. proved' \subseteq Ids
    BY <1>4, <2>1 DEF Proved, TypeOK, Bindings, BindingRecords
  <2> QED
    BY <1>4, <2>1, <2>2, SaveType DEF Proved, Release, Await, TypeOK, Phases
<1>5. ASSUME NEW c \in Channels, Validated(c) PROVE TypeOK'
  <2>1. binding[c] \in Bindings /\ [binding[c] EXCEPT !.unproved = FALSE] \in Bindings
    BY ProvedFacts DEF TypeOK
  <2>2. proved' \subseteq Ids
    BY <1>5, <2>1 DEF Validated, TypeOK, Bindings, BindingRecords
  <2> QED
    BY <1>5, <2>1, <2>2, SaveType DEF Validated, TypeOK
<1>6. ASSUME NEW c \in Channels, NotValidated(c) \/ GivesUp(c) \/ DispatchReturns(c) PROVE TypeOK'
  BY <1>6 DEF NotValidated, GivesUp, DispatchReturns, Release, Await, TypeOK, Phases
<1>7. ASSUME NEW c \in Channels, DispatchFails(c) PROVE TypeOK'
  <2>1. PICK w \in BOOLEAN : Invalidate(c, w)
    BY <1>7 DEF DispatchFails
  <2> QED
    BY <1>7, <2>1, InvalidateType DEF DispatchFails, Release, Await, TypeOK, Phases, Calls
<1>8. CASE HubSaves
  BY <1>8 DEF HubSaves, StoreSnapshot, TypeOK
<1>9. CASE Restart
  <2>1. \A c \in Channels : Restored(stored[c]) \in Bindings
    BY RestoredFacts DEF TypeOK
  <2> QED
    BY <1>9, <2>1, BindingsAssumption DEF Restart, TypeOK, Phases
<1>10. CASE UNCHANGED vars
  BY <1>10 DEF vars, TypeOK
<1> QED
  BY <1>1, <1>2, <1>3, <1>4, <1>5, <1>6, <1>7, <1>8, <1>9, <1>10 DEF Next

\* Every reachable state of the manager and its store is well formed: above
\* all, a binding carries a native session exactly if it is to resume one.
THEOREM TypeCorrect == Spec => []TypeOK
<1> QED
  BY TypeInit, TypeNext, PTL DEF Spec

-----------------------------------------------------------------------------
(* Who has which session.                                                   *)

Names(c) == Sessions(binding[c]) \cup Sessions(stored[c]) \cup Sessions(fresh[c])

\* Only ids that were handed out are in use.
Handed ==
    /\ \A c \in Channels : Names(c) \subseteq 1 .. ids
    /\ spent \subseteq 1 .. ids /\ doubtful \subseteq 1 .. ids

\* No two channels have a session in common.
Separate == \A c, d \in Channels : c # d => Names(c) \cap Names(d) = {}

\* A binding without an id is none.
Unnamed ==
    \A c \in Channels :
      /\ binding[c].id = 0 => binding[c].native = 0
      /\ stored[c].id = 0 => stored[c].native = 0

\* What a step of channel c leaves alone, and where its sessions come from.
StepOf(c) ==
    /\ \A d \in Channels \ {c} : /\ binding'[d] = binding[d]
                                 /\ fresh'[d] = fresh[d]
                                 /\ phase'[d] = phase[d]
    /\ stored' \in {stored, binding, binding'}
    /\ \/ /\ ids' = ids
          /\ Sessions(binding'[c]) \cup Sessions(fresh'[c]) \subseteq Names(c)
       \/ /\ ids' = ids + 1
          /\ Sessions(binding'[c]) \cup Sessions(fresh'[c]) \subseteq Names(c) \cup {ids + 1}
    /\ binding'[c].id = 0 => binding'[c].native = 0
    /\ spent' \cup doubtful' \subseteq spent \cup doubtful \cup Names(c)

LEMMA SessionsSame ==
    ASSUME NEW a, NEW b, a.id = b.id, a.native = b.native
    PROVE  Sessions(a) = Sessions(b)
BY DEF Sessions

LEMMA SessionsOf ==
    ASSUME NEW b, NEW S, b.id \in S, b.native \in S \cup {0}
    PROVE  Sessions(b) \subseteq S
BY DEF Sessions

\* Such a step keeps the sessions of the channels apart.
LEMMA StepKeepsApart ==
    ASSUME TypeOK, TypeOK', Handed, Separate, Unnamed, NEW c \in Channels, StepOf(c)
    PROVE  Handed' /\ Separate' /\ Unnamed'
<1>1. ids \in Nat /\ ids' \in Nat /\ ids <= ids'
  BY BindingsAssumption DEF TypeOK, StepOf, Ids
<1>2. \A d \in Channels \ {c} : Names(d)' \subseteq Names(d)
  BY DEF StepOf, Names
<1>3. Names(c)' \subseteq Names(c) \cup (IF ids' = ids THEN {} ELSE {ids + 1})
  <2>1. Sessions(stored'[c]) \subseteq
          Sessions(stored[c]) \cup Sessions(binding[c]) \cup Sessions(binding'[c])
    BY DEF StepOf
  <2>2. Names(c)' = Sessions(binding'[c]) \cup Sessions(stored'[c]) \cup Sessions(fresh'[c])
    BY DEF Names
  <2>3. Sessions(binding[c]) \subseteq Names(c) /\ Sessions(stored[c]) \subseteq Names(c)
    BY DEF Names
  <2> QED
    BY <1>1, <2>1, <2>2, <2>3 DEF StepOf
<1>4. ids + 1 \notin 1 .. ids
  BY <1>1
<1>5. Handed'
  <2>1. \A d \in Channels : Names(d)' \subseteq 1 .. ids'
    BY <1>1, <1>2, <1>3 DEF Handed, StepOf
  <2>2. spent' \cup doubtful' \subseteq 1 .. ids'
    <3>1. spent \cup doubtful \cup Names(c) \subseteq 1 .. ids
      BY DEF Handed
    <3>2. 1 .. ids \subseteq 1 .. ids'
      BY <1>1
    <3> QED
      BY <3>1, <3>2 DEF StepOf
  <2> QED
    BY <2>1, <2>2 DEF Handed
<1>6. Separate'
  <2> SUFFICES ASSUME NEW d \in Channels, NEW e \in Channels, d # e
               PROVE  Names(d)' \cap Names(e)' = {}
    BY DEF Separate
  <2>1. Names(d) \cap Names(e) = {} /\ ids + 1 \notin Names(d) \cup Names(e)
    BY <1>4 DEF Separate, Handed
  <2> QED
    BY <1>2, <1>3, <2>1
<1>7. Unnamed'
  <2>1. \A d \in Channels : binding'[d].id = 0 => binding'[d].native = 0
    BY DEF Unnamed, StepOf
  <2>2. \A d \in Channels : stored'[d].id = 0 => stored'[d].native = 0
    <3>1. CASE stored' = stored
      BY <3>1 DEF Unnamed
    <3>2. CASE stored' = binding
      BY <3>2 DEF Unnamed
    <3>3. CASE stored' = binding'
      BY <2>1, <3>3
    <3> QED
      BY <3>1, <3>2, <3>3 DEF StepOf
  <2> QED
    BY <2>1, <2>2 DEF Unnamed
<1> QED
  BY <1>5, <1>6, <1>7

-----------------------------------------------------------------------------
(* What a channel's call may be awaiting.                                   *)

\* A session that was given up is marked in the binding, and in the store if
\* that was written.
Marked ==
    \A c \in Channels :
      /\ Sessions(binding[c]) \cap (spent \cup doubtful) # {} => binding[c].pending
      /\ Sessions(stored[c]) \cap spent # {} => stored[c].pending

\* A new native binding under validation is the only one of its name.
ProvingNew ==
    \A c \in Channels : phase[c] = "proving" =>
      /\ fresh[c].strategy = "native_resume" /\ c \in resumes
      /\ ~fresh[c].pending /\ fresh[c].id # 0
      /\ fresh[c].id \notin spent \cup doubtful
      /\ fresh[c].native \in {fresh[c].id, binding[c].native}

\* Sessions are validated and used only while not marked.
Unmarked ==
    \A c \in Channels : phase[c] \in {"validating", "dispatching"} =>
      /\ ~binding[c].pending /\ binding[c].id # 0
      /\ binding[c].strategy = "native_resume" => c \in resumes

ValidatedHere ==
    /\ \A c \in Channels : binding[c].strategy = "native_resume" /\ ~binding[c].unproved
                           => binding[c].id \in proved
    /\ \A c \in Channels : phase[c] = "dispatching" /\ binding[c].strategy = "native_resume"
                           => ~binding[c].unproved

IInv == /\ Handed /\ Separate /\ Unnamed
        /\ Marked /\ ProvingNew /\ Unmarked /\ ValidatedHere /\ DurableBeforeUse

LEMMA IInvInit == Init => IInv
BY DEF Init, IInv, Handed, Separate, Unnamed, Marked, ProvingNew, Unmarked, ValidatedHere,
       DurableBeforeUse, Names, Sessions, NoBinding

\* A step of c that leaves its binding and what was given up as they are.
LEMMA WaitingStep ==
    ASSUME TypeOK, TypeOK', IInv, NEW c \in Channels, NEW p \in Phases,
           UNCHANGED <<binding, fresh, ids, run, resumes, spent, doubtful>>,
           proved \subseteq proved',
           phase' = [phase EXCEPT ![c] = p],
           stored' \in {stored, binding},
           p \in {"free", "creating", "validating", "dispatching"},
           p \in {"validating", "dispatching"} =>
             /\ ~binding[c].pending /\ binding[c].id # 0
             /\ binding[c].strategy = "native_resume" => c \in resumes,
           p = "dispatching" => stored' = binding,
           p = "dispatching" /\ binding[c].strategy = "native_resume" => ~binding[c].unproved
    PROVE  IInv'
<1>1. StepOf(c)
  BY DEF StepOf, TypeOK, Names, IInv, Unnamed
<1>2. Handed' /\ Separate' /\ Unnamed'
  BY <1>1, StepKeepsApart DEF IInv
<1>3. phase'[c] = p /\ \A d \in Channels \ {c} : phase'[d] = phase[d]
  BY DEF TypeOK
<1>4. Marked'
  BY DEF IInv, Marked
<1>5. ProvingNew'
  BY <1>3 DEF IInv, ProvingNew
<1>6. Unmarked'
  BY <1>3 DEF IInv, Unmarked
<1>7. ValidatedHere'
  BY <1>3 DEF IInv, ValidatedHere
<1>8. DurableBeforeUse'
  BY <1>3 DEF IInv, DurableBeforeUse
<1> QED
  BY <1>2, <1>4, <1>5, <1>6, <1>7, <1>8 DEF IInv

\* A save of a binding b whose sessions are the channel's own or new.
LEMMA SavingStep ==
    ASSUME TypeOK, TypeOK', IInv, NEW c \in Channels, NEW b \in Bindings,
           phase[c] # "dispatching",
           ReadyAfterSave(c, b),
           UNCHANGED <<fresh, run, resumes, spent, doubtful>>,
           proved \subseteq proved',
           \/ ids' = ids /\ Sessions(b) \subseteq Names(c)
           \/ ids' = ids + 1 /\ Sessions(b) \subseteq Names(c) \cup {ids + 1},
           ~b.pending, b.id # 0,
           Sessions(b) \cap (spent \cup doubtful) = {},
           b.strategy = "native_resume" => c \in resumes /\ ~b.unproved /\ b.id \in proved'
    PROVE  IInv'
<1>1. PICK p \in {"free", "dispatching"} :
        /\ phase' = [phase EXCEPT ![c] = p]
        /\ \/ binding' = binding /\ stored' = stored /\ p = "free"
           \/ binding' = [binding EXCEPT ![c] = b] /\ stored' = binding /\ p = "free"
           \/ binding' = [binding EXCEPT ![c] = b] /\ stored' = binding'
  BY DEF ReadyAfterSave, Save, StoreSnapshot, Release, Await
<1>2. /\ phase'[c] = p /\ binding'[c] \in {binding[c], b}
      /\ \A d \in Channels \ {c} : phase'[d] = phase[d] /\ binding'[d] = binding[d]
  BY <1>1 DEF TypeOK
<1>3. p = "dispatching" => binding'[c] = b /\ stored' = binding'
  BY <1>1 DEF TypeOK
<1>4. StepOf(c)
  <2>1. stored' \in {stored, binding, binding'}
    BY <1>1
  <2>2. Sessions(binding'[c]) \subseteq Names(c) \cup Sessions(b)
    BY <1>2 DEF Names
  <2>3. Sessions(fresh'[c]) \subseteq Names(c)
    BY DEF Names
  <2>4. binding'[c].id = 0 => binding'[c].native = 0
    BY <1>2 DEF IInv, Unnamed
  <2> QED
    BY <1>2, <2>1, <2>2, <2>3, <2>4 DEF StepOf
<1>5. Handed' /\ Separate' /\ Unnamed'
  BY <1>4, StepKeepsApart DEF IInv
<1>6. Marked'
  <2>1. \A d \in Channels :
          Sessions(binding'[d]) \cap (spent \cup doubtful) # {} => binding'[d].pending
    BY <1>2 DEF IInv, Marked
  <2>2. \A d \in Channels : Sessions(stored'[d]) \cap spent # {} => stored'[d].pending
    <3>1. CASE stored' = stored
      BY <3>1 DEF IInv, Marked
    <3>2. CASE stored' = binding
      BY <3>2 DEF IInv, Marked
    <3>3. CASE stored' = binding'
      BY <2>1, <3>3
    <3> QED
      BY <1>1, <3>1, <3>2, <3>3
  <2> QED
    BY <2>1, <2>2 DEF Marked
<1>7. ProvingNew'
  BY <1>2 DEF IInv, ProvingNew
<1>8. Unmarked'
  BY <1>2, <1>3 DEF IInv, Unmarked
<1>9. ValidatedHere'
  BY <1>2, <1>3 DEF IInv, ValidatedHere
<1>10. DurableBeforeUse'
  <2> SUFFICES ASSUME NEW d \in Channels, phase'[d] = "dispatching"
               PROVE  Sessions(stored'[d]) = Sessions(binding'[d])
    BY DEF DurableBeforeUse
  <2>1. CASE d = c
    BY <1>2, <1>3, <2>1
  <2>2. CASE d # c
    BY <1>1, <1>2, <2>2 DEF IInv, DurableBeforeUse
  <2> QED
    BY <2>1, <2>2
<1> QED
  BY <1>5, <1>6, <1>7, <1>8, <1>9, <1>10 DEF IInv

\* A step of c that gives its binding up.
LEMMA InvalidatingStep ==
    ASSUME TypeOK, TypeOK', IInv, NEW c \in Channels, NEW w \in BOOLEAN,
           NEW p \in {"free", "creating"},
           Invalidate(c, w), phase' = [phase EXCEPT ![c] = p],
           UNCHANGED <<fresh, ids, run, resumes, proved>>
    PROVE  IInv'
<1> DEFINE old == binding[c]
<1>1. /\ binding'[c] = Invalid(old)
      /\ phase'[c] = p
      /\ \A d \in Channels \ {c} : phase'[d] = phase[d] /\ binding'[d] = binding[d]
  BY DEF Invalidate, TypeOK
<1>2. /\ binding'[c].id = old.id /\ binding'[c].native = old.native
      /\ binding'[c].strategy = old.strategy
      /\ old.id # 0 => binding'[c].pending /\ binding'[c].unproved
      /\ old.id = 0 => binding'[c] = old
  <2>1. old \in Bindings
    BY DEF TypeOK
  <2> QED
    BY <1>1, <2>1, InvalidFacts
<1>3. Sessions(binding'[c]) = Sessions(old)
  BY <1>2, SessionsSame
<1>4. old.id = 0 => Sessions(old) = {}
  BY DEF IInv, Unnamed, Sessions
<1>5. stored' = binding' \/ stored' = stored
  BY DEF Invalidate
<1>6. StepOf(c)
  <2>1. spent' \cup doubtful' \subseteq spent \cup doubtful \cup Names(c)
    BY DEF Invalidate, Names
  <2>2. Sessions(binding'[c]) \cup Sessions(fresh'[c]) \subseteq Names(c)
    BY <1>3 DEF Names
  <2>3. binding'[c].id = 0 => binding'[c].native = 0
    BY <1>2 DEF IInv, Unnamed
  <2> QED
    BY <1>1, <1>5, <2>1, <2>2, <2>3 DEF StepOf
<1>7. Handed' /\ Separate' /\ Unnamed'
  BY <1>6, StepKeepsApart DEF IInv
<1>8. \A d \in Channels \ {c} : /\ Sessions(binding[d]) \cap Sessions(old) = {}
                               /\ Sessions(stored[d]) \cap Sessions(old) = {}
                               /\ Sessions(fresh[d]) \cap Sessions(old) = {}
  BY DEF IInv, Separate, Names
<1>9. /\ spent' \subseteq spent \cup Sessions(old)
      /\ doubtful' \subseteq doubtful \cup Sessions(old)
      /\ ~w => spent' = spent
  BY DEF Invalidate
<1>10. Marked'
  <2>1. \A d \in Channels :
          Sessions(binding'[d]) \cap (spent' \cup doubtful') # {} => binding'[d].pending
    <3> SUFFICES ASSUME NEW d \in Channels,
                        Sessions(binding'[d]) \cap (spent' \cup doubtful') # {}
                 PROVE  binding'[d].pending
      OBVIOUS
    <3>1. CASE d = c
      BY <1>2, <1>3, <1>4, <3>1
    <3>2. CASE d # c
      BY <1>1, <1>8, <1>9, <3>2 DEF IInv, Marked
    <3> QED
      BY <3>1, <3>2
  <2>2. \A d \in Channels : Sessions(stored'[d]) \cap spent' # {} => stored'[d].pending
    <3>1. CASE w /\ old.id # 0
      <4>1. stored' = binding'
        BY <3>1 DEF Invalidate
      <4> QED
        BY <2>1, <4>1
    <3>2. CASE ~(w /\ old.id # 0)
      <4>1. stored' = stored /\ spent' = spent
        BY <1>4, <3>2 DEF Invalidate
      <4> QED
        BY <4>1 DEF IInv, Marked
    <3> QED
      BY <3>1, <3>2
  <2> QED
    BY <2>1, <2>2 DEF Marked
<1>11. ProvingNew'
  <2> SUFFICES ASSUME NEW d \in Channels, phase'[d] = "proving"
               PROVE  /\ fresh'[d].strategy = "native_resume" /\ d \in resumes'
                      /\ ~fresh'[d].pending /\ fresh'[d].id # 0
                      /\ fresh'[d].id \notin spent' \cup doubtful'
                      /\ fresh'[d].native \in {fresh'[d].id, binding'[d].native}
    BY DEF ProvingNew
  <2>1. d # c
    BY <1>1
  <2>2. phase[d] = "proving" /\ binding'[d] = binding[d]
    BY <1>1, <2>1
  <2>3. fresh[d].id \notin Sessions(old)
    BY <1>8, <2>1, <2>2 DEF IInv, ProvingNew, Sessions
  <2> QED
    BY <1>9, <2>2, <2>3 DEF IInv, ProvingNew
<1>12. Unmarked'
  BY <1>1 DEF IInv, Unmarked
<1>13. ValidatedHere'
  BY <1>1, <1>2 DEF IInv, ValidatedHere
<1>14. DurableBeforeUse'
  BY <1>1, <1>5 DEF IInv, DurableBeforeUse
<1> QED
  BY <1>7, <1>10, <1>11, <1>12, <1>13, <1>14 DEF IInv

LEMMA IInvNext == TypeOK /\ TypeOK' /\ IInv /\ [Next]_vars => IInv'
<1> SUFFICES ASSUME TypeOK, TypeOK', IInv, [Next]_vars PROVE IInv'
  OBVIOUS
<1>1. ASSUME NEW c \in Channels, NEW k \in {"ensure", "dispatch"}, Ensure(c, k) PROVE IInv'
  <2>1. binding[c] \in Bindings
    BY DEF TypeOK
  <2>2. PICK p \in {"free", "creating", "validating", "dispatching"} :
          /\ phase' = [phase EXCEPT ![c] = p]
          /\ p = "dispatching" => stored' = binding
          /\ p \in {"validating", "dispatching"} =>
               /\ ~binding[c].pending /\ binding[c].id # 0
               /\ binding[c].strategy = "native_resume" => c \in resumes
          /\ p = "dispatching" /\ binding[c].strategy = "native_resume" => ~binding[c].unproved
    <3>1. phase = [phase EXCEPT ![c] = "free"]
      BY <1>1 DEF Ensure, TypeOK
    <3> QED
      BY <1>1, <3>1 DEF Ensure, StoreSnapshot, Await
  <2>3. /\ UNCHANGED <<binding, fresh, ids, run, resumes, spent, doubtful>>
        /\ proved \subseteq proved' /\ stored' \in {stored, binding}
    BY <1>1 DEF Ensure, StoreSnapshot
  <2>4. p \in Phases
    BY DEF Phases
  <2> QED
    BY <2>2, <2>3, <2>4, WaitingStep
<1>2. ASSUME NEW c \in Channels, Rotate(c) PROVE IInv'
  <2>1. PICK w \in BOOLEAN, p \in {"free", "creating"} :
          Invalidate(c, w) /\ phase' = [phase EXCEPT ![c] = p]
    <3>1. phase = [phase EXCEPT ![c] = "free"]
      BY <1>2 DEF Rotate, TypeOK
    <3> QED
      BY <1>2, <3>1 DEF Rotate, Await
  <2>2. UNCHANGED <<fresh, ids, run, resumes, proved>>
    BY <1>2 DEF Rotate
  <2> QED
    BY <2>1, <2>2, InvalidatingStep
<1>3. ASSUME NEW c \in Channels, Created(c) PROVE IInv'
  <2>1. /\ phase[c] = "creating" /\ ids < MaxIds /\ ids' = ids + 1
        /\ UNCHANGED <<run, resumes, proved, spent, doubtful>>
    BY <1>3 DEF Created
  <2>2. PICK b \in FreshBindings(c) :
          \/ Refused(c, b) /\ Release(c) /\ UNCHANGED <<binding, stored, fresh>>
          \/ /\ ~Refused(c, b) /\ b.strategy = "native_resume"
             /\ fresh' = [fresh EXCEPT ![c] = b] /\ Await(c, "proving")
             /\ UNCHANGED <<binding, stored>>
          \/ /\ ~Refused(c, b) /\ b.strategy = "rehydrate"
             /\ ReadyAfterSave(c, b) /\ UNCHANGED fresh
    BY <1>3 DEF Created
  <2>3. ids \in Nat /\ ids + 1 \notin 1 .. ids /\ ids + 1 # 0
    BY BindingsAssumption DEF TypeOK, Ids
  <2>4. CASE Refused(c, b) /\ Release(c) /\ UNCHANGED <<binding, stored, fresh>>
    <3>1. StepOf(c)
      BY <2>1, <2>4 DEF Release, Await, StepOf, TypeOK, Names, IInv, Unnamed
    <3>2. Handed' /\ Separate' /\ Unnamed'
      BY <3>1, StepKeepsApart DEF IInv
    <3>3. \A d \in Channels : phase'[d] \in {"free", phase[d]}
      BY <2>4 DEF Release, Await, TypeOK
    <3> QED
      BY <2>1, <2>4, <3>2, <3>3
      DEF IInv, Marked, ProvingNew, Unmarked, ValidatedHere, DurableBeforeUse
  <2>5. CASE /\ ~Refused(c, b) /\ b.strategy = "native_resume"
             /\ fresh' = [fresh EXCEPT ![c] = b] /\ Await(c, "proving")
             /\ UNCHANGED <<binding, stored>>
    <3>1. /\ b.id = ids + 1 /\ ~b.pending /\ c \in resumes
          /\ b.native \in {ids + 1, binding[c].native}
      BY <2>1, <2>5, FreshType
    <3>2. /\ fresh'[c] = b /\ phase'[c] = "proving"
          /\ \A d \in Channels \ {c} : fresh'[d] = fresh[d] /\ phase'[d] = phase[d]
      BY <2>5 DEF Await, TypeOK
    <3>3. StepOf(c)
      <4>1. Sessions(fresh'[c]) \subseteq Names(c) \cup {ids + 1}
        BY <3>1, <3>2 DEF Sessions, Names
      <4>2. Sessions(binding'[c]) \subseteq Names(c)
        BY <2>5 DEF Names
      <4> QED
        BY <2>1, <2>5, <3>2, <4>1, <4>2 DEF StepOf, IInv, Unnamed
    <3>4. Handed' /\ Separate' /\ Unnamed'
      BY <3>3, StepKeepsApart DEF IInv
    <3>5. ids + 1 \notin spent \cup doubtful
      BY <2>3 DEF IInv, Handed
    <3>6. ProvingNew'
      BY <2>1, <2>3, <2>5, <3>1, <3>2, <3>5 DEF IInv, ProvingNew
    <3>7. Marked' /\ ValidatedHere'
      BY <2>1, <2>5, <3>2 DEF IInv, Marked, ValidatedHere
    <3>8. Unmarked' /\ DurableBeforeUse'
      BY <2>1, <2>5, <3>2 DEF IInv, Unmarked, DurableBeforeUse
    <3> QED
      BY <3>4, <3>6, <3>7, <3>8 DEF IInv
  <2>6. CASE /\ ~Refused(c, b) /\ b.strategy = "rehydrate"
             /\ ReadyAfterSave(c, b) /\ UNCHANGED fresh
    <3>1. b \in Bindings /\ b.id = ids + 1 /\ ~b.pending /\ b.native = 0
      BY <2>1, <2>6, FreshType
    <3>2. Sessions(b) \subseteq {ids + 1}
      BY <3>1 DEF Sessions
    <3>3. Sessions(b) \cap (spent \cup doubtful) = {}
      BY <2>3, <3>2 DEF IInv, Handed
    <3> QED
      BY <2>1, <2>3, <2>6, <3>1, <3>2, <3>3, SavingStep
  <2> QED
    BY <2>2, <2>4, <2>5, <2>6
<1>4. ASSUME NEW c \in Channels, Proved(c) PROVE IInv'
  <2> DEFINE b == [fresh[c] EXCEPT !.unproved = FALSE]
  <2>1. /\ phase[c] = "proving" /\ proved' = proved \cup {fresh[c].id}
        /\ UNCHANGED <<fresh, ids, run, resumes, spent, doubtful>>
    BY <1>4 DEF Proved
  <2>2. CASE Release(c) /\ UNCHANGED <<binding, stored>>
    BY <2>1, <2>2, WaitingStep DEF Release, Await, Phases
  <2>3. CASE fresh[c].native # binding[c].native /\ ReadyAfterSave(c, b)
    <3>1. fresh[c] \in Bindings
      BY DEF TypeOK
    <3>2. /\ b \in Bindings /\ b.id = fresh[c].id /\ b.native = fresh[c].native
          /\ b.pending = fresh[c].pending /\ ~b.unproved
      BY <3>1, ProvedFacts DEF Bindings, BindingRecords
    <3>3. /\ ~b.pending /\ b.id # 0 /\ c \in resumes
          /\ b.id \notin spent \cup doubtful /\ b.native = b.id
      BY <2>1, <2>3, <3>2 DEF IInv, ProvingNew
    <3>4. Sessions(b) \subseteq Names(c)
      BY <3>2, SessionsSame DEF Names
    <3>5. Sessions(b) \cap (spent \cup doubtful) = {}
      BY <3>3 DEF Sessions
    <3>6. phase[c] # "dispatching" /\ proved \subseteq proved' /\ b.id \in proved' /\ ids' = ids
      BY <2>1, <3>2
    <3> HIDE DEF b
    <3> QED
      BY <2>1, <2>3, <3>2, <3>3, <3>4, <3>5, <3>6, SavingStep
  <2> QED
    BY <1>4, <2>2, <2>3 DEF Proved
<1>5. ASSUME NEW c \in Channels, Validated(c) PROVE IInv'
  <2> DEFINE b == [binding[c] EXCEPT !.unproved = FALSE]
  <2>1. /\ phase[c] = "validating" /\ proved' = proved \cup {binding[c].id}
        /\ UNCHANGED <<fresh, ids, run, resumes, spent, doubtful>>
        /\ ReadyAfterSave(c, b)
    BY <1>5 DEF Validated
  <2>2. binding[c] \in Bindings
    BY DEF TypeOK
  <2>3. /\ b \in Bindings /\ b.id = binding[c].id /\ b.native = binding[c].native
        /\ b.pending = binding[c].pending /\ b.strategy = binding[c].strategy /\ ~b.unproved
    BY <2>2, ProvedFacts DEF Bindings, BindingRecords
  <2>4. ~b.pending /\ b.id # 0 /\ (b.strategy = "native_resume" => c \in resumes)
    BY <2>1, <2>3 DEF IInv, Unmarked
  <2>5. Sessions(b) = Sessions(binding[c])
    BY <2>3, SessionsSame
  <2>6. Sessions(b) \subseteq Names(c) /\ Sessions(b) \cap (spent \cup doubtful) = {}
    BY <2>3, <2>4, <2>5 DEF Names, IInv, Marked
  <2>7. phase[c] # "dispatching" /\ proved \subseteq proved' /\ b.id \in proved' /\ ids' = ids
    BY <2>1, <2>3
  <2> HIDE DEF b
  <2> QED
    BY <2>1, <2>3, <2>4, <2>6, <2>7, SavingStep
<1>6. ASSUME NEW c \in Channels, NotValidated(c) \/ GivesUp(c) \/ DispatchReturns(c) PROVE IInv'
  <2>1. PICK p \in {"free", "creating"} : phase' = [phase EXCEPT ![c] = p]
    BY <1>6 DEF NotValidated, GivesUp, DispatchReturns, Release, Await
  <2>2. UNCHANGED <<binding, stored, fresh, ids, run, resumes, proved, spent, doubtful>>
    BY <1>6 DEF NotValidated, GivesUp, DispatchReturns
  <2> QED
    BY <2>1, <2>2, WaitingStep DEF Phases
<1>7. ASSUME NEW c \in Channels, DispatchFails(c) PROVE IInv'
  <2>1. PICK w \in BOOLEAN, p \in {"free", "creating"} :
          Invalidate(c, w) /\ phase' = [phase EXCEPT ![c] = p]
    BY <1>7 DEF DispatchFails, Release, Await
  <2>2. UNCHANGED <<fresh, ids, run, resumes, proved>>
    BY <1>7 DEF DispatchFails
  <2> QED
    BY <2>1, <2>2, InvalidatingStep
<1>8. CASE HubSaves
  <2>1. stored' = binding /\ UNCHANGED <<binding, phase, fresh, ids, resumes, proved, spent, doubtful>>
    BY <1>8 DEF HubSaves, StoreSnapshot
  <2>2. \A c \in Channels : Names(c)' \subseteq Names(c)
    BY <2>1 DEF Names
  <2>3. Handed' /\ Separate' /\ Unnamed'
    BY <2>1, <2>2 DEF IInv, Handed, Separate, Unnamed
  <2>4. Marked' /\ ProvingNew' /\ Unmarked'
    BY <2>1 DEF IInv, Marked, ProvingNew, Unmarked
  <2>5. ValidatedHere' /\ DurableBeforeUse'
    BY <2>1 DEF IInv, ValidatedHere, DurableBeforeUse
  <2> QED
    BY <2>3, <2>4, <2>5 DEF IInv
<1>9. CASE Restart
  <2>1. /\ stored' = stored /\ UNCHANGED <<fresh, ids, spent>> /\ doubtful' = {}
        /\ \A c \in Channels : phase'[c] = "free" /\ binding'[c] = Restored(stored[c])
    BY <1>9 DEF Restart
  <2>2. \A c \in Channels :
          /\ binding'[c].id = stored[c].id /\ binding'[c].native = stored[c].native
          /\ binding'[c].pending = stored[c].pending
          /\ binding'[c].strategy = "native_resume" => binding'[c].unproved
    BY <2>1, RestoredFacts DEF TypeOK
  <2>3. \A c \in Channels : Sessions(binding'[c]) = Sessions(stored[c])
    BY <2>2, SessionsSame
  <2>4. \A c \in Channels : Names(c)' \subseteq Names(c)
    BY <2>1, <2>3 DEF Names
  <2>5. Handed' /\ Separate'
    BY <2>1, <2>4 DEF IInv, Handed, Separate
  <2>6. Unnamed'
    BY <2>1, <2>2 DEF IInv, Unnamed
  <2>7. Marked'
    BY <2>1, <2>2, <2>3 DEF IInv, Marked
  <2>8. ProvingNew' /\ Unmarked' /\ DurableBeforeUse'
    BY <2>1 DEF ProvingNew, Unmarked, DurableBeforeUse
  <2>9. ValidatedHere'
    BY <2>1, <2>2 DEF ValidatedHere
  <2> QED
    BY <2>5, <2>6, <2>7, <2>8, <2>9 DEF IInv
<1>10. CASE UNCHANGED vars
  BY <1>10 DEF vars, IInv, Handed, Separate, Unnamed, Marked, ProvingNew, Unmarked,
              ValidatedHere, DurableBeforeUse, Names
<1> QED
  BY <1>1, <1>2, <1>3, <1>4, <1>5, <1>6, <1>7, <1>8, <1>9, <1>10 DEF Next

\* The properties that IInv implies.
LEMMA IInvImplies == IInv => DurableBeforeUse /\ NoReplay /\ NativeIsProved
<1> SUFFICES ASSUME IInv PROVE DurableBeforeUse /\ NoReplay /\ NativeIsProved
  OBVIOUS
<1>1. DurableBeforeUse
  BY DEF IInv
<1>2. NoReplay
  BY DEF IInv, NoReplay, Marked, Unmarked
<1>3. NativeIsProved
  BY DEF IInv, NativeIsProved, Unmarked, ValidatedHere
<1> QED
  BY <1>1, <1>2, <1>3

LEMMA Invariance == Spec => [](TypeOK /\ IInv)
<1>1. Init => TypeOK /\ IInv
  BY TypeInit, IInvInit
<1>2. (TypeOK /\ IInv) /\ [Next]_vars => (TypeOK /\ IInv)'
  BY TypeNext, IInvNext
<1> QED
  BY <1>1, <1>2, PTL DEF Spec

\* A request goes only into a session that the store names already.
THEOREM UsedIsDurable == Spec => []DurableBeforeUse
<1> QED
  BY Invariance, IInvImplies, PTL

\* A session that was given up takes no request again.
THEOREM GivenUpIsNotUsed == Spec => []NoReplay
<1> QED
  BY Invariance, IInvImplies, PTL

\* A native session is resumed only once its adapter has validated it in the
\* same process.
THEOREM NativeIsValidated == Spec => []NativeIsProved
<1> QED
  BY Invariance, IInvImplies, PTL

-----------------------------------------------------------------------------
(* The manager and its store implement SessionContract.                     *)

InUse == [c \in Channels |-> IF phase[c] = "dispatching" THEN Sessions(binding[c]) ELSE {}]
Named == [c \in Channels |-> Sessions(stored[c])]
Keeps == [Contract!Next]_<<InUse, Named, spent, doubtful>>

LEMMA NamedStays ==
    ASSUME DurableBeforeUse'
    PROVE  Contract!StaysNamed
BY DEF DurableBeforeUse, Contract!StaysNamed

\* Steps that begin or end no dispatch and give nothing up.
LEMMA WritesOnly ==
    ASSUME DurableBeforeUse', UNCHANGED <<spent, doubtful>>,
           \A c \in Channels :
              /\ phase'[c] = "dispatching" <=> phase[c] = "dispatching"
              /\ phase[c] = "dispatching" => binding'[c] = binding[c]
    PROVE  Keeps
<1>1. InUse' = InUse
  BY DEF InUse
<1>2. Contract!Write
  BY <1>1, NamedStays DEF Contract!Write, InUse
<1> QED
  BY <1>2 DEF Keeps, Contract!Next

\* What the new state of a channel that begins a dispatch says of its sessions.
LEMMA BeginsUse ==
    ASSUME TypeOK, TypeOK', IInv, IInv', UNCHANGED <<spent, doubtful>>, NEW c \in Channels,
           phase[c] # "dispatching", phase'[c] = "dispatching",
           \A d \in Channels \ {c} : phase'[d] = phase[d] /\ binding'[d] = binding[d]
    PROVE  Keeps
<1>1. PICK S \in SUBSET Ids : S = Sessions(binding'[c])
  <2>1. binding'[c] \in Bindings
    BY DEF TypeOK
  <2> QED
    BY <2>1, SessionsType
<1>2. InUse[c] = {} /\ InUse' = [InUse EXCEPT ![c] = S]
  BY <1>1 DEF InUse
<1>3. S \cap (spent \cup doubtful) = {}
  BY <1>1 DEF IInv, Marked, Unmarked
<1>4. \A d \in Channels \ {c} : InUse[d] \cap S = {}
  <2>1. \A d \in Channels \ {c} : Sessions(binding'[d]) \cap S = {}
    BY <1>1 DEF IInv, Separate, Names
  <2> QED
    BY <2>1 DEF InUse
<1>5. DurableBeforeUse'
  BY DEF IInv
<1>6. Contract!Use(c, S)
  BY <1>2, <1>3, <1>4, <1>5, NamedStays DEF Contract!Use, InUse
<1> QED
  BY <1>1, <1>6 DEF Keeps, Contract!Next

LEMMA EndsUse ==
    ASSUME IInv', UNCHANGED <<binding, spent, doubtful>>, NEW c \in Channels,
           phase' = [phase EXCEPT ![c] = "free"], TypeOK
    PROVE  Keeps
<1>1. InUse' = [InUse EXCEPT ![c] = {}]
  BY DEF InUse, TypeOK
<1>2. DurableBeforeUse'
  BY DEF IInv
<1>3. Contract!Leave(c)
  BY <1>1, <1>2, NamedStays DEF Contract!Leave, InUse
<1> QED
  BY <1>3 DEF Keeps, Contract!Next

\* The sessions of a channel's binding are given up: no other channel uses them.
LEMMA GivesSessionsUp ==
    ASSUME TypeOK, IInv, IInv', NEW c \in Channels, NEW w \in BOOLEAN,
           NEW p \in {"free", "creating"},
           Invalidate(c, w), phase' = [phase EXCEPT ![c] = p]
    PROVE  Keeps
<1>1. PICK S \in SUBSET Ids : S = Sessions(binding[c])
  BY SessionsType DEF TypeOK
<1>2. \A d \in Channels \ {c} : phase'[d] = phase[d] /\ binding'[d] = binding[d]
  BY DEF Invalidate, TypeOK
<1>3. phase'[c] # "dispatching"
  BY DEF TypeOK
<1>4. InUse' = [d \in Channels |-> IF InUse[d] \cap S = {} THEN InUse[d] ELSE {}]
  <2>1. ASSUME NEW d \in Channels
        PROVE  InUse'[d] = IF InUse[d] \cap S = {} THEN InUse[d] ELSE {}
    <3>1. CASE d = c
      BY <1>1, <1>3, <3>1 DEF InUse
    <3>2. CASE d # c
      <4>1. Sessions(binding[d]) \cap S = {}
        BY <1>1, <3>2 DEF IInv, Separate, Names
      <4> QED
        BY <1>2, <3>2, <4>1 DEF InUse
    <3> QED
      BY <3>1, <3>2
  <2> QED
    BY <2>1 DEF InUse
<1>5. DurableBeforeUse'
  BY DEF IInv
<1>6. \/ spent' = spent \cup S /\ UNCHANGED doubtful
      \/ doubtful' = doubtful \cup S /\ UNCHANGED spent
  BY <1>1 DEF Invalidate
<1>7. Contract!GiveUp(S)
  BY <1>4, <1>5, <1>6, NamedStays DEF Contract!GiveUp, InUse
<1> QED
  BY <1>1, <1>7 DEF Keeps, Contract!Next

\* A binding is saved, for a dispatch or not.
LEMMA SavesForUse ==
    ASSUME TypeOK, TypeOK', IInv, IInv', UNCHANGED <<spent, doubtful>>, NEW c \in Channels,
           phase[c] # "dispatching", NEW b, ReadyAfterSave(c, b)
    PROVE  Keeps
<1>1. \A d \in Channels \ {c} : phase'[d] = phase[d] /\ binding'[d] = binding[d]
  BY DEF ReadyAfterSave, Save, Release, Await, TypeOK
<1>2. CASE phase'[c] = "dispatching"
  BY <1>1, <1>2, BeginsUse
<1>3. CASE phase'[c] # "dispatching"
  BY <1>1, <1>3, WritesOnly DEF IInv
<1> QED
  BY <1>2, <1>3

LEMMA StepKeeps ==
    ASSUME TypeOK, TypeOK', IInv, IInv', [Next]_vars
    PROVE  Keeps
<1>1. ASSUME NEW c \in Channels, NEW k \in {"ensure", "dispatch"}, Ensure(c, k) PROVE Keeps
  <2>1. /\ phase[c] = "free" /\ UNCHANGED <<binding, spent, doubtful>>
        /\ \A d \in Channels \ {c} : phase'[d] = phase[d]
    BY <1>1 DEF Ensure, Await, TypeOK
  <2>2. CASE phase'[c] = "dispatching"
    BY <2>1, <2>2, BeginsUse
  <2>3. CASE phase'[c] # "dispatching"
    BY <2>1, <2>3, WritesOnly DEF IInv
  <2> QED
    BY <2>2, <2>3
<1>2. ASSUME NEW c \in Channels, Rotate(c) PROVE Keeps
  <2>1. PICK w \in BOOLEAN, p \in {"free", "creating"} :
          Invalidate(c, w) /\ phase' = [phase EXCEPT ![c] = p]
    <3>1. phase = [phase EXCEPT ![c] = "free"]
      BY <1>2 DEF Rotate, TypeOK
    <3> QED
      BY <1>2, <3>1 DEF Rotate, Await
  <2> QED
    BY <2>1, GivesSessionsUp
<1>3. ASSUME NEW c \in Channels, Created(c) PROVE Keeps
  <2>1. phase[c] = "creating" /\ UNCHANGED <<spent, doubtful>>
    BY <1>3 DEF Created
  <2>2. PICK b : \/ Release(c) /\ UNCHANGED binding
                 \/ Await(c, "proving") /\ UNCHANGED binding
                 \/ ReadyAfterSave(c, b)
    BY <1>3 DEF Created
  <2>3. CASE (Release(c) \/ Await(c, "proving")) /\ UNCHANGED binding
    <3>1. \A d \in Channels : phase'[d] = "dispatching" <=> phase[d] = "dispatching"
      BY <2>1, <2>3 DEF Release, Await, TypeOK
    <3> QED
      BY <2>1, <2>3, <3>1, WritesOnly DEF IInv
  <2> QED
    BY <2>1, <2>2, <2>3, SavesForUse
<1>4. ASSUME NEW c \in Channels, Proved(c) \/ Validated(c) PROVE Keeps
  <2>1. phase[c] \in {"proving", "validating"} /\ UNCHANGED <<spent, doubtful>>
    BY <1>4 DEF Proved, Validated
  <2>2. PICK b : \/ Release(c) /\ UNCHANGED binding
                 \/ ReadyAfterSave(c, b)
    BY <1>4 DEF Proved, Validated
  <2>3. CASE Release(c) /\ UNCHANGED binding
    <3>1. \A d \in Channels : phase'[d] = "dispatching" <=> phase[d] = "dispatching"
      BY <2>1, <2>3 DEF Release, Await, TypeOK
    <3> QED
      BY <2>1, <2>3, <3>1, WritesOnly DEF IInv
  <2> QED
    BY <2>1, <2>2, <2>3, SavesForUse
<1>5. ASSUME NEW c \in Channels, NotValidated(c) PROVE Keeps
  <2>1. \A d \in Channels : phase'[d] = "dispatching" <=> phase[d] = "dispatching"
    BY <1>5 DEF NotValidated, Await, TypeOK
  <2> QED
    BY <1>5, <2>1, WritesOnly DEF NotValidated, IInv
<1>6. ASSUME NEW c \in Channels, GivesUp(c) \/ DispatchReturns(c) PROVE Keeps
  BY <1>6, EndsUse DEF GivesUp, DispatchReturns, Release, Await
<1>7. ASSUME NEW c \in Channels, DispatchFails(c) PROVE Keeps
  <2>1. PICK w \in BOOLEAN, p \in {"free", "creating"} :
          Invalidate(c, w) /\ phase' = [phase EXCEPT ![c] = p]
    BY <1>7 DEF DispatchFails, Release, Await
  <2> QED
    BY <2>1, GivesSessionsUp
<1>8. CASE HubSaves
  BY <1>8, WritesOnly DEF HubSaves, IInv
<1>9. CASE Restart
  <2>1. InUse' = [c \in Channels |-> {}]
    BY <1>9 DEF Restart, InUse
  <2>2. Named' = Named /\ spent' = spent /\ doubtful' = {}
    BY <1>9 DEF Restart, Named
  <2>3. Contract!Crash
    BY <2>1, <2>2 DEF Contract!Crash, InUse, Named
  <2> QED
    BY <2>3 DEF Keeps, Contract!Next
<1>10. CASE UNCHANGED vars
  BY <1>10 DEF vars, Keeps, InUse, Named
<1> QED
  BY <1>1, <1>2, <1>3, <1>4, <1>5, <1>6, <1>7, <1>8, <1>9, <1>10 DEF Next

\* Whatever is rotated, fails, is cancelled or restarted, requests go into sessions
\* as SessionContract says: named in the store, of one channel alone, and none that
\* was given up (sessions.py:54-166).
THEOREM BindingsKeepContract == Spec => KeepsSessionContract
<1>1. Init => Contract!Init
  <2>1. ASSUME Init PROVE Contract!Init
    <3>1. InUse = [c \in Channels |-> {}] /\ Named = [c \in Channels |-> {}]
      BY <2>1 DEF Init, InUse, Named, Sessions, NoBinding
    <3> QED
      BY <2>1, <3>1 DEF Init, Contract!Init, InUse, Named
  <2> QED
    BY <2>1
<1>2. (TypeOK /\ IInv) /\ [Next]_vars => Keeps
  BY TypeNext, IInvNext, StepKeeps
<1>3. Keeps => [Contract!Next]_Contract!svars
  BY DEF Keeps, Contract!svars, InUse, Named
<1> QED
  BY <1>1, <1>2, <1>3, Invariance, PTL DEF Spec, KeepsSessionContract, Contract!Spec
=============================================================================
