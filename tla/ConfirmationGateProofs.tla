----------------------- MODULE ConfirmationGateProofs -----------------------
(***************************************************************************)
(* Proofs about ConfirmationGate, for any agents, tasks, limits and        *)
(* numbers of confirmations and dispatches: what runs was approved and     *)
(* runs once, verdicts stand, loops are cut, and what was admitted alone   *)
(* keeps the limits.                                                       *)
(***************************************************************************)
EXTENDS ConfirmationGate, FiniteSetTheorems, TLAPS

-----------------------------------------------------------------------------
(* Type correctness.                                                        *)

LEMMA PoppedFacts ==
    ASSUME TypeOK, NEW i \in 1 .. Len(held)
    PROVE  /\ Popped(i) \in Seq(Entries)
           /\ Len(Popped(i)) = Len(held) - 1
           /\ \A n \in 1 .. Len(held) - 1 : Popped(i)[n] = held[IF n < i THEN n ELSE n + 1]
BY DEF TypeOK, Popped

\* A text without a note; texts with the same ones.
Bare(text) == text.notes = 0 /\ text.since = {}
SameNotes(s, t) == s.notes = t.notes /\ s.since = t.since

LEMMA FreshFacts ==
    ASSUME NEW t \in Tasks
    PROVE  Fresh(t) \in Texts /\ Bare(Fresh(t))
BY DEF Fresh, Texts, Bare

LEMMA NowhereFacts ==
    /\ Nowhere.status = "none" /\ Nowhere.token = NoToken
    /\ Nowhere.text \in Texts /\ Bare(Nowhere.text)
    /\ ~Nowhere.named /\ ~Nowhere.alone
BY FreshFacts, GateAssumption DEF Nowhere

\* A dispatch that has been made is one.
LEMMA MadeIsDispatch ==
    ASSUME TypeOK, NEW w \in Work, work[w].status # "none"
    PROVE  work[w] \in Dispatches
BY NowhereFacts DEF TypeOK

\* A text with words around it.
LEMMA WrappedFacts ==
    ASSUME NEW text \in Texts, NEW plain \in BOOLEAN
    PROVE  LET t == [text EXCEPT !.plain = plain] IN
             t \in Texts /\ t.task = text.task /\ SameNotes(t, text)
BY DEF Texts, SameNotes

\* An admitted dispatch.
LEMMA AdmittedFacts ==
    ASSUME NEW a \in Agents, NEW text \in Texts, NEW named \in BOOLEAN,
           NEW token \in Tokens \cup {NoToken}
    PROVE  LET d == Admitted(a, text, named, token) IN
             /\ d \in Dispatches /\ d.status = "admitted" /\ d.agent = a /\ d.named = named
             /\ d.alone = (OnTheWay = {}) /\ d.token = token /\ d.text = text
BY DEF Admitted, Dispatches, Statuses

\* What a step does to dispatch w.
LEMMA EndedFacts ==
    ASSUME NEW d \in Dispatches, NEW status \in Statuses
    PROVE  LET e == [d EXCEPT !.status = status, !.named = FALSE, !.alone = FALSE] IN
             /\ e \in Dispatches /\ e.status = status /\ e.agent = d.agent /\ e.token = d.token
             /\ e.text = d.text /\ ~e.named /\ ~e.alone
BY DEF Dispatches

LEMMA ReplacementFacts ==
    ASSUME NEW d \in Dispatches
    PROVE  LET e == [d EXCEPT !.status = "restarting", !.named = TRUE, !.alone = FALSE,
                              !.token = NoToken, !.text.plain = FALSE] IN
             /\ e \in Dispatches /\ e.status = "restarting" /\ e.agent = d.agent
             /\ e.token = NoToken /\ SameNotes(e.text, d.text) /\ e.named /\ ~e.alone
BY DEF Dispatches, Texts, Statuses, SameNotes

LEMMA NotedFacts ==
    ASSUME NEW a \in Agents, NEW text \in Texts
    PROVE  /\ Noted(a, text) \in Texts /\ Noted(a, text).since = EndsOf(a)
           /\ Noted(a, text).notes = IF text.since = EndsOf(a) THEN text.notes + 1 ELSE 1
<1>1. EndsOf(a) \in SUBSET Work
  BY DEF EndsOf
<1> QED
  BY <1>1 DEF Texts, Noted

LEMMA RevisedFacts ==
    ASSUME TypeOK, held # <<>>
    PROVE  LET h == [held EXCEPT ![Len(held)] = Revised(held[Len(held)])] IN
             /\ h \in Seq(Entries) /\ Len(h) = Len(held)
             /\ \A i \in 1 .. Len(held) : /\ h[i].token = held[i].token
                                          /\ h[i].agent = held[i].agent
                                          /\ h[i].text.task = held[i].text.task
                                          /\ SameNotes(h[i].text, held[i].text)
<1>1. held \in Seq(Entries) /\ Len(held) \in 1 .. Len(held) /\ held[Len(held)] \in Entries
  BY DEF TypeOK
<1>2. LET e == Revised(held[Len(held)]) IN
        /\ e \in Entries /\ e.token = held[Len(held)].token
        /\ e.agent = held[Len(held)].agent /\ e.text.task = held[Len(held)].text.task
        /\ SameNotes(e.text, held[Len(held)].text)
  BY <1>1 DEF Entries, Texts, Revised, SameNotes
<1> QED
  BY <1>1, <1>2 DEF SameNotes

-----------------------------------------------------------------------------
(* What the steps do to the dispatches: most change one of them.            *)

InFlight == {"admitted", "restarting", "active"}

Only(w) ==
    /\ work' \in [Work -> Dispatches \cup {Nowhere}]
    /\ \A v \in Work : v # w => work'[v] = work[v]

\* w is a new dispatch, for which there was room.
Admits(w) ==
    /\ work[w].status = "none" /\ Only(w)
    /\ work'[w].status \in {"admitted", "active", "ending"} /\ work'[w].agent \in Agents
    /\ work'[w].alone => OnTheWay = {}
    /\ Cardinality(Active) < GlobalCap /\ Cardinality(JobsOf(work'[w].agent)) < HarnessCap

\* w is a new job that nobody admitted.
Joins(w) ==
    /\ work[w].status = "none" /\ Only(w)
    /\ work'[w].status = "active" /\ work'[w].agent \in Agents
    /\ ~work'[w].alone /\ work'[w].token = NoToken

\* w goes on, in the agent that was named if one was.
Moves(w) ==
    /\ Only(w)
    /\ work[w].status \notin {"none", "done"}
    /\ work'[w].status \notin {"none", "admitted"}
    /\ work'[w].status \in InFlight => work[w].status \in InFlight
    /\ work'[w].token = work[w].token
    /\ work'[w].text.task = work[w].text.task /\ SameNotes(work'[w].text, work[w].text)
    /\ \/ work'[w].agent = work[w].agent
       \/ work[w].status = "admitted" /\ ~work[w].named /\ work'[w].agent \in Agents
    /\ work'[w].named => work[w].named
    /\ work'[w].alone => work[w].alone

LEMMA OnlyOne ==
    ASSUME TypeOK, NEW w \in Work, NEW d \in Dispatches, work' = [work EXCEPT ![w] = d]
    PROVE  Only(w) /\ work'[w] = d
BY DEF TypeOK, Only

LEMMA DelegateMoves ==
    ASSUME TypeOK, NEW a \in Agents, NEW t \in Tasks, NEW named \in BOOLEAN, Delegate(a, t, named)
    PROVE  \E w \in Work : Admits(w) /\ work'[w].token = NoToken /\ Bare(work'[w].text)
<1> DEFINE text == Fresh(t)
           d == Admitted(a, text, named, NoToken)
<1>1. text \in Texts /\ Bare(text)
  BY FreshFacts
<1> HIDE DEF text
<1>2. d \in Dispatches /\ d.status = "admitted" /\ d.agent = a /\ d.token = NoToken /\ d.text = text
      /\ d.alone = (OnTheWay = {})
  BY <1>1, AdmittedFacts
<1>3. PICK w \in Work : NewWork(w, d)
  BY DEF Delegate, text
<1>4. HasRoom(a, text)
  BY DEF Delegate, text
<1> HIDE DEF d
<1>5. work[w].status = "none" /\ Only(w) /\ work'[w] = d
  BY <1>2, <1>3, OnlyOne DEF NewWork
<1> QED
  BY <1>1, <1>2, <1>4, <1>5 DEF Admits, HasRoom

LEMMA DirectMoves ==
    ASSUME TypeOK, NEW a \in Agents, NEW t \in Tasks, NEW status \in {"active", "ending"},
           NEW plain \in BOOLEAN, DelegateDirectly(a, t, status, plain)
    PROVE  \E w \in Work : Admits(w) /\ work'[w].token = NoToken /\ Bare(work'[w].text)
<1> DEFINE text == Fresh(t)
           d == [Admitted(a, text, TRUE, NoToken) EXCEPT !.status = status, !.text.plain = plain]
<1>1. d \in Dispatches /\ d.status = status /\ d.agent = a /\ d.token = NoToken /\ Bare(d.text)
      /\ d.alone = (OnTheWay = {})
  BY DEF text, Fresh, Bare, Admitted, Dispatches, Statuses, Texts
<1>2. PICK w \in Work : NewWork(w, d)
  BY DEF DelegateDirectly
<1>3. HasRoom(a, text)
  BY DEF DelegateDirectly
<1> HIDE DEF d, text
<1>4. work[w].status = "none" /\ Only(w) /\ work'[w] = d
  BY <1>1, <1>2, OnlyOne DEF NewWork
<1> QED
  BY <1>1, <1>3, <1>4 DEF Admits, HasRoom

LEMMA ResolveMoves ==
    ASSUME TypeOK, NEW i \in 1 .. Len(held), NEW decision \in Decisions, Resolve(i, decision)
    PROVE  \/ UNCHANGED work
           \/ /\ decision = "approve"
              /\ \E w \in Work : /\ Admits(w) /\ work'[w].named
                                 /\ work'[w].token = held[i].token
                                 /\ work'[w].agent = held[i].agent
                                 /\ work'[w].text = held[i].text
<1> DEFINE e == held[i]
           d == Admitted(e.agent, e.text, TRUE, e.token)
<1>1. e \in Entries /\ e.agent \in Agents /\ e.text \in Texts /\ e.token \in Tokens
  <2>1. held[i] \in Entries
    BY DEF TypeOK
  <2> QED
    BY <2>1 DEF Entries
<1>2. \/ UNCHANGED work
      \/ decision = "approve" /\ HasRoom(e.agent, e.text) /\ \E w \in Work : NewWork(w, d)
  BY DEF Resolve
<1> HIDE DEF e
<1>3. d \in Dispatches /\ d.status = "admitted" /\ d.agent = e.agent /\ d.token = e.token
      /\ d.text = e.text /\ d.named /\ d.alone = (OnTheWay = {})
  BY <1>1 DEF Admitted, Dispatches, Statuses
<1> HIDE DEF d
<1>4. CASE decision = "approve" /\ HasRoom(e.agent, e.text) /\ \E w \in Work : NewWork(w, d)
  <2>1. PICK w \in Work : NewWork(w, d)
    BY <1>4
  <2>2. work[w].status = "none" /\ Only(w) /\ work'[w] = d
    BY <1>3, <2>1, OnlyOne DEF NewWork
  <2>3. Admits(w)
    BY <1>1, <1>3, <1>4, <2>2 DEF Admits, HasRoom
  <2> QED
    BY <1>3, <1>4, <2>2, <2>3 DEF e
<1> QED
  BY <1>2, <1>4

\* A consult or a presentation.
LEMMA UnaskedJoins ==
    ASSUME TypeOK, NEW a \in Agents, NEW text \in Texts, Unasked(a, text)
    PROVE  \E w \in Work : Joins(w) /\ work'[w].agent = a /\ work'[w].text = text
<1> DEFINE d == [status |-> "active", agent |-> a, named |-> TRUE, alone |-> FALSE,
                 token |-> NoToken, text |-> text]
<1>1. d \in Dispatches /\ d.status = "active" /\ d.agent = a /\ ~d.alone /\ d.token = NoToken
      /\ d.text = text
  BY DEF Dispatches, Statuses
<1>2. PICK w \in Work : NewWork(w, d)
  BY DEF Unasked
<1> HIDE DEF d
<1>3. work[w].status = "none" /\ Only(w) /\ work'[w] = d
  BY <1>1, <1>2, OnlyOne DEF NewWork
<1> QED
  BY <1>1, <1>3 DEF Joins

LEMMA ConsultsJoins ==
    ASSUME TypeOK, NEW w \in Work, NEW a \in Agents, Consults(w, a)
    PROVE  \E v \in Work : Joins(v) /\ Bare(work'[v].text)
<1> DEFINE text == [Fresh(work[w].text.task) EXCEPT !.plain = FALSE]
<1>1. work[w] \in Dispatches
  BY MadeIsDispatch DEF Consults, Active
<1>2. text \in Texts /\ Bare(text)
  BY <1>1 DEF Dispatches, Texts, Fresh, Bare
<1>3. Unasked(a, text)
  BY DEF Consults
<1> HIDE DEF text
<1> QED
  BY <1>2, <1>3, UnaskedJoins

LEMMA PresentsJoins ==
    ASSUME TypeOK, NEW w \in Work, Presents(w)
    PROVE  \E v \in Work : /\ Joins(v) /\ work'[v].agent = work[w].agent
                            /\ SameNotes(work'[v].text, work[w].text)
<1> DEFINE text == [work[w].text EXCEPT !.plain = FALSE]
<1>1. work[w] \in Dispatches
  BY MadeIsDispatch DEF Presents
<1>2. work[w].agent \in Agents /\ text \in Texts /\ SameNotes(text, work[w].text)
  BY <1>1, WrappedFacts DEF Dispatches
<1>3. Unasked(work[w].agent, text)
  BY DEF Presents
<1> HIDE DEF text
<1> QED
  BY <1>2, <1>3, UnaskedJoins

LEMMA EndsMoves ==
    ASSUME TypeOK, NEW w \in Work, NEW status \in Statuses, Ends(w, status),
           status \notin InFlight, status # "none", work[w].status \notin {"none", "done"}
    PROVE  Moves(w) /\ work'[w].agent = work[w].agent /\ work'[w].status = status
<1> DEFINE d == [work[w] EXCEPT !.status = status, !.named = FALSE, !.alone = FALSE]
<1>1. work[w] \in Dispatches
  BY MadeIsDispatch
<1>2. d \in Dispatches /\ d.status = status /\ d.agent = work[w].agent /\ d.token = work[w].token
      /\ d.text = work[w].text /\ ~d.named /\ ~d.alone
  BY <1>1, EndedFacts
<1>3. work' = [work EXCEPT ![w] = d]
  BY DEF Ends
<1> HIDE DEF d
<1>4. Only(w) /\ work'[w] = d
  BY <1>2, <1>3, OnlyOne
<1> QED
  BY <1>2, <1>4 DEF Moves, InFlight, SameNotes

LEMMA ArrivesMoves ==
    ASSUME TypeOK, NEW w \in Work, Arrives(w)
    PROVE  Moves(w) /\ work'[w].status # "done"
<1>1. work[w] \in Dispatches /\ work[w].status = "admitted"
  BY MadeIsDispatch DEF Arrives
<1>2. CASE Ends(w, "refused")
  BY <1>1, <1>2, EndsMoves DEF Statuses, InFlight
<1>3. ASSUME NEW a \in Agents, NEW status \in {"active", "ending"},
             work[w].named => a = work[w].agent,
             work' = [work EXCEPT ![w].status = status, ![w].agent = a, ![w].text.plain = FALSE]
      PROVE  Moves(w) /\ work'[w].status # "done"
  <2> DEFINE d == [work[w] EXCEPT !.status = status, !.agent = a, !.text.plain = FALSE]
  <2>1. d \in Dispatches /\ d.status = status /\ d.agent = a /\ d.token = work[w].token
        /\ d.text.task = work[w].text.task /\ SameNotes(d.text, work[w].text)
        /\ d.named = work[w].named /\ d.alone = work[w].alone
    BY <1>1, <1>3 DEF Statuses, Dispatches, Texts, SameNotes
  <2>2. work' = [work EXCEPT ![w] = d]
    BY <1>3
  <2> HIDE DEF d
  <2>3. Only(w) /\ work'[w] = d
    BY <2>1, <2>2, OnlyOne
  <2> QED
    BY <1>1, <1>3, <2>1, <2>3 DEF Moves, InFlight
<1> QED
  BY <1>2, <1>3 DEF Arrives

LEMMA RestartsMoves ==
    ASSUME TypeOK, NEW w \in Work, NEW status \in {"active", "ending"}, Restarts(w, status)
    PROVE  Moves(w) /\ work'[w].agent = work[w].agent /\ work'[w].status # "done"
<1> DEFINE d == [work[w] EXCEPT !.status = status]
<1>1. work[w] \in Dispatches /\ work[w].status = "restarting"
  BY MadeIsDispatch DEF Restarts
<1>2. d \in Dispatches /\ d.status = status /\ d.agent = work[w].agent /\ d.token = work[w].token
      /\ d.text = work[w].text /\ d.named = work[w].named /\ d.alone = work[w].alone
  BY <1>1 DEF Statuses, Dispatches
<1>3. work' = [work EXCEPT ![w] = d]
  BY DEF Restarts
<1> HIDE DEF d
<1>4. Only(w) /\ work'[w] = d
  BY <1>2, <1>3, OnlyOne
<1> QED
  BY <1>1, <1>2, <1>4 DEF Moves, InFlight, SameNotes

LEMMA JobEndsMoves ==
    ASSUME TypeOK, NEW w \in Work, NEW how \in {"asking", "ending"}, JobEnds(w, how)
    PROVE  Moves(w) /\ work'[w].agent = work[w].agent
<1>1. work[w].status = "active" /\ Ends(w, how)
  BY DEF JobEnds, Active
<1> QED
  BY <1>1, EndsMoves DEF Statuses, InFlight

LEMMA AnnounceEndMoves ==
    ASSUME TypeOK, NEW w \in Work, AnnounceEnd(w)
    PROVE  Moves(w) /\ work'[w].agent = work[w].agent /\ work'[w].status = "done"
<1>1. work[w].status = "ending" /\ Ends(w, "done")
  BY DEF AnnounceEnd
<1> QED
  BY <1>1, EndsMoves DEF Statuses, InFlight

LEMMA AnnounceRequestMoves ==
    ASSUME TypeOK, NEW w \in Work, AnnounceRequest(w)
    PROVE  Moves(w) /\ work'[w].agent = work[w].agent
<1>1. work[w].status = "asking" /\ Ends(w, "asked")
  BY DEF AnnounceRequest
<1> QED
  BY <1>1, EndsMoves DEF Statuses, InFlight

LEMMA ReplaceMoves ==
    ASSUME TypeOK, NEW w \in Work, Replace(w)
    PROVE  /\ work' \in [Work -> Dispatches \cup {Nowhere}] /\ work[w].status = "active"
           /\ \E v \in Work :
                /\ v # w /\ work[v].status = "none"
                /\ \A u \in Work : u # v /\ u # w => work'[u] = work[u]
                /\ work'[w].status = "ending" /\ work'[w].agent = work[w].agent
                /\ work'[w].token = work[w].token /\ work'[w].text = work[w].text
                /\ work'[v].status = "restarting" /\ work'[v].agent = work[w].agent
                /\ work'[v].token = NoToken /\ SameNotes(work'[v].text, work[w].text)
                /\ ~work'[v].alone /\ work'[v].named
<1> DEFINE d == [work[w] EXCEPT !.status = "ending", !.named = FALSE, !.alone = FALSE]
           e == [work[w] EXCEPT !.status = "restarting", !.named = TRUE, !.alone = FALSE,
                                !.token = NoToken, !.text.plain = FALSE]
<1>1. /\ work \in [Work -> Dispatches \cup {Nowhere}]
      /\ work[w].status = "active" /\ work[w] \in Dispatches
  BY MadeIsDispatch DEF TypeOK, Replace, Active
<1>2. PICK v \in Work : /\ work[v].status = "none"
                        /\ work' = [work EXCEPT ![w].status = "ending", ![w].named = FALSE,
                                                ![w].alone = FALSE,
                                 ![v] = [work[w] EXCEPT !.status = "restarting", !.named = TRUE,
                                                        !.alone = FALSE, !.token = NoToken,
                                                        !.text.plain = FALSE]]
  BY Zenon DEF Replace
<1>3. v # w
  BY <1>1, <1>2
<1>4. work' = [work EXCEPT ![w] = d, ![v] = e]
  BY <1>2, <1>3, Zenon
<1>5. d \in Dispatches /\ d.status = "ending" /\ d.agent = work[w].agent /\ d.token = work[w].token
      /\ d.text = work[w].text
  BY <1>1, EndedFacts DEF Statuses
<1>6. e \in Dispatches /\ e.status = "restarting" /\ e.agent = work[w].agent /\ e.token = NoToken
      /\ SameNotes(e.text, work[w].text) /\ e.named /\ ~e.alone
  BY <1>1, ReplacementFacts
<1> HIDE DEF d, e
<1>7. /\ work' \in [Work -> Dispatches \cup {Nowhere}]
      /\ work'[w] = d /\ work'[v] = e /\ \A u \in Work : u # v /\ u # w => work'[u] = work[u]
  BY <1>1, <1>3, <1>4, <1>5, <1>6
<1> QED
  BY <1>1, <1>2, <1>3, <1>5, <1>6, <1>7 DEF SameNotes

-----------------------------------------------------------------------------
(* Type correctness.                                                        *)

LEMMA HoldsType ==
    ASSUME TypeOK, NEW a \in Agents, NEW text \in Texts, Holds(a, text)
    PROVE  /\ held' \in Seq(Entries) /\ tokens' \in 0 .. MaxTokens
           /\ told' \in [Tokens -> {"nothing", "held"} \cup Decisions]
<1>1. tokens \in Nat /\ tokens + 1 \in Tokens /\ tokens + 1 \in 0 .. MaxTokens
  BY GateAssumption DEF TypeOK, Holds, Tokens
<1>2. [token |-> tokens + 1, agent |-> a, text |-> text] \in Entries
  BY <1>1 DEF Entries
<1> QED
  BY <1>1, <1>2 DEF TypeOK, Holds

LEMMA ResolveType ==
    ASSUME TypeOK, NEW i \in 1 .. Len(held), NEW decision \in Decisions, Resolve(i, decision)
    PROVE  /\ held' \in Seq(Entries) /\ UNCHANGED <<tokens, streak>>
           /\ told' \in [Tokens -> {"nothing", "held"} \cup Decisions]
           /\ work' \in [Work -> Dispatches \cup {Nowhere}]
<1>1. held' \in Seq(Entries)
  BY PoppedFacts DEF Resolve
<1>2. work' \in [Work -> Dispatches \cup {Nowhere}]
  BY ResolveMoves DEF Admits, Only, TypeOK
<1> QED
  BY <1>1, <1>2 DEF TypeOK, Resolve

LEMMA TypeInit == Init => TypeOK
<1> SUFFICES ASSUME Init PROVE TypeOK
  OBVIOUS
<1>1. /\ held \in Seq(Entries) /\ tokens \in 0 .. MaxTokens
      /\ told \in [Tokens -> {"nothing", "held"} \cup Decisions]
      /\ clicks \subseteq Tokens \X Decisions
      /\ streak \in [Agents -> Nat]
  BY GateAssumption DEF Init
<1>2. work \in [Work -> Dispatches \cup {Nowhere}]
  BY DEF Init
<1> QED
  BY <1>1, <1>2 DEF TypeOK

\* A click, spoken answer or correction is about an entry that is there.
LEMMA AnswersCases ==
    ASSUME TypeOK, NEW k \in Tokens, NEW decision \in Decisions, Answers(k, decision)
    PROVE  \/ \E i \in 1 .. Len(held) : held[i].token = k /\ Resolve(i, decision)
           \/ UNCHANGED <<held, tokens, told, work, streak>>
BY DEF Answers, TypeOK

LEMMA NewestIsThere ==
    ASSUME TypeOK, held # <<>>
    PROVE  Len(held) \in 1 .. Len(held)
BY DEF TypeOK

LEMMA TypeStep ==
    ASSUME TypeOK, [Next]_vars
    PROVE  TypeOK'
<1>1. ASSUME NEW a \in Agents, NEW t \in Tasks, Hold(a, t) PROVE TypeOK'
  BY <1>1, HoldsType, FreshFacts DEF Hold, TypeOK
<1>2. ASSUME NEW a \in Agents, NEW t \in Tasks, NEW b \in BOOLEAN, Delegate(a, t, b) PROVE TypeOK'
  <2>1. work' \in [Work -> Dispatches \cup {Nowhere}]
    BY <1>2, DelegateMoves DEF Admits, Only
  <2> QED
    BY <1>2, <2>1 DEF Delegate, TypeOK
<1>3. ASSUME NEW a \in Agents, NEW t \in Tasks, NEW b \in BOOLEAN,
             NEW status \in {"active", "ending"}, DelegateDirectly(a, t, status, b)
      PROVE  TypeOK'
  <2>1. work' \in [Work -> Dispatches \cup {Nowhere}]
    BY <1>3, DirectMoves DEF Admits, Only
  <2> QED
    BY <1>3, <2>1 DEF DelegateDirectly, TypeOK
<1>4. ASSUME NEW d \in Decisions, SpokenAnswer(d) PROVE TypeOK'
  <2>1. Len(held) \in 1 .. Len(held) /\ Resolve(Len(held), d)
    BY <1>4, NewestIsThere DEF SpokenAnswer
  <2> QED
    BY <1>4, <2>1, ResolveType DEF SpokenAnswer, TypeOK
<1>5. ASSUME NEW d \in Decisions, NEW k \in Tokens, Click(k, d) PROVE TypeOK'
  BY <1>5 DEF Click, TypeOK
<1>6. ASSUME NEW d \in Decisions, NEW k \in Tokens, ClickRuns(k, d) PROVE TypeOK'
  <2>1. CASE UNCHANGED <<held, tokens, told, work, streak>>
    BY <1>6, <2>1 DEF ClickRuns, TypeOK
  <2>2. CASE \E i \in 1 .. Len(held) : held[i].token = k /\ Resolve(i, d)
    <3>1. PICK i \in 1 .. Len(held) : Resolve(i, d)
      BY <2>2
    <3>2. /\ held' \in Seq(Entries) /\ told' \in [Tokens -> {"nothing", "held"} \cup Decisions]
          /\ work' \in [Work -> Dispatches \cup {Nowhere}] /\ UNCHANGED <<tokens, streak>>
      BY <3>1, ResolveType
    <3> QED
      BY <1>6, <3>2 DEF ClickRuns, TypeOK
  <2> QED
    BY <1>6, <2>1, <2>2, AnswersCases DEF ClickRuns
<1>7. CASE Revise
  <2>1. held' \in Seq(Entries)
    BY <1>7, RevisedFacts DEF Revise
  <2>2. UNCHANGED <<tokens, told, clicks, work, streak>>
    BY <1>7 DEF Revise
  <2> QED
    BY <2>1, <2>2, Zenon DEF TypeOK
<1>8. ASSUME NEW w \in Work, Arrives(w) PROVE TypeOK'
  <2>1. work' \in [Work -> Dispatches \cup {Nowhere}]
    BY <1>8, ArrivesMoves DEF Moves, Only
  <2> QED
    BY <1>8, <2>1 DEF Arrives, TypeOK
<1>9. ASSUME NEW w \in Work, Replace(w) PROVE TypeOK'
  BY <1>9, ReplaceMoves DEF Replace, TypeOK
<1>10. ASSUME NEW w \in Work, NEW status \in {"active", "ending"}, Restarts(w, status) PROVE TypeOK'
  <2>1. work' \in [Work -> Dispatches \cup {Nowhere}]
    BY <1>10, RestartsMoves DEF Moves, Only
  <2> QED
    BY <1>10, <2>1 DEF Restarts, TypeOK
<1>11. ASSUME NEW w \in Work, NEW how \in {"asking", "ending"}, JobEnds(w, how) PROVE TypeOK'
  <2>1. work' \in [Work -> Dispatches \cup {Nowhere}]
    BY <1>11, JobEndsMoves DEF Moves, Only
  <2> QED
    BY <1>11, <2>1 DEF JobEnds, TypeOK
<1>12. ASSUME NEW w \in Work, AnnounceEnd(w) PROVE TypeOK'
  <2>1. work' \in [Work -> Dispatches \cup {Nowhere}]
    BY <1>12, AnnounceEndMoves DEF Moves, Only
  <2> QED
    BY <1>12, <2>1 DEF AnnounceEnd, TypeOK
<1>13. ASSUME NEW w \in Work, AnnounceRequest(w) PROVE TypeOK'
  <2>1. work' \in [Work -> Dispatches \cup {Nowhere}]
    BY <1>13, AnnounceRequestMoves DEF Moves, Only
  <2>2. work[w] \in Dispatches
    BY <1>13, MadeIsDispatch DEF AnnounceRequest
  <2>3. streak' \in [Agents -> Nat]
    BY <1>13, <2>2 DEF AnnounceRequest, Counted, TypeOK, Dispatches
  <2>4. /\ held' \in Seq(Entries) /\ tokens' \in 0 .. MaxTokens
        /\ told' \in [Tokens -> {"nothing", "held"} \cup Decisions]
    <3>1. CASE UNCHANGED <<held, tokens, told>>
      BY <3>1 DEF TypeOK
    <3>2. CASE Holds(work[w].agent, Noted(work[w].agent, work[w].text))
      <4>1. work[w].agent \in Agents /\ Noted(work[w].agent, work[w].text) \in Texts
        BY <2>2, NotedFacts DEF Dispatches
      <4> QED
        BY <2>2, <3>2, <4>1, HoldsType
    <3> QED
      BY <1>13, <3>1, <3>2 DEF AnnounceRequest
  <2> QED
    BY <1>13, <2>1, <2>3, <2>4 DEF AnnounceRequest, TypeOK
<1>14. ASSUME NEW w \in Work, NEW a \in Agents, Consults(w, a) PROVE TypeOK'
  <2>1. work' \in [Work -> Dispatches \cup {Nowhere}]
    BY <1>14, ConsultsJoins DEF Joins, Only
  <2> QED
    BY <1>14, <2>1 DEF Consults, Unasked, TypeOK
<1>15. ASSUME NEW w \in Work, Presents(w) PROVE TypeOK'
  <2>1. work' \in [Work -> Dispatches \cup {Nowhere}]
    BY <1>15, PresentsJoins DEF Joins, Only
  <2> QED
    BY <1>15, <2>1 DEF Presents, Unasked, TypeOK
<1>16. CASE UNCHANGED vars
  BY <1>16 DEF vars, TypeOK
<1> QED
  BY <1>1, <1>2, <1>3, <1>4, <1>5, <1>6, <1>7, <1>8, <1>9, <1>10, <1>11, <1>12, <1>13, <1>14,
     <1>15, <1>16 DEF Next

\* The gate's state is always well formed (the tables at session.py:248-253).
THEOREM TypeCorrect == Spec => []TypeOK
<1>1. Init => TypeOK
  BY TypeInit
<1>2. TypeOK /\ [Next]_vars => TypeOK'
  BY TypeStep
<1> QED
  BY <1>1, <1>2, PTL DEF Spec

-----------------------------------------------------------------------------
(* What runs was approved.                                                  *)

\* Tokens are given out in order and held once; what was approved runs once.
TokenInv ==
    /\ \A k \in Tokens : told[k] = "nothing" <=> k > tokens
    /\ \A i, j \in 1 .. Len(held) : held[i].token = held[j].token => i = j
    /\ \A k \in Tokens : told[k] = "held" <=> \E i \in 1 .. Len(held) : held[i].token = k
    /\ \A w \in Work : work[w].token # NoToken => told[work[w].token] = "approve"
    /\ \A v, w \in Work : work[v].token = work[w].token /\ work[w].token # NoToken => v = w

\* No dispatch gets a token that it had not.
KeepsTokens == \A w \in Work : work'[w].token \in {work[w].token, NoToken}

LEMMA TokenTypes ==
    ASSUME TypeOK
    PROVE  /\ \A w \in Work : work[w].token \in Tokens \cup {NoToken}
           /\ \A i \in 1 .. Len(held) : held[i].token \in Tokens
           /\ tokens \in Nat /\ Tokens \subseteq Nat /\ NoToken \notin Tokens
           /\ Len(held) \in Nat
<1>1. \A w \in Work : work[w].token \in Tokens \cup {NoToken}
  BY NowhereFacts DEF TypeOK, Dispatches
<1>2. \A i \in 1 .. Len(held) : held[i] \in Entries
  BY DEF TypeOK
<1> QED
  BY <1>1, <1>2 DEF TypeOK, Entries, Tokens, NoToken

LEMMA MovesTokens ==
    ASSUME TypeOK, NEW w \in Work, Moves(w)
    PROVE  KeepsTokens
BY DEF Moves, Only, KeepsTokens

LEMMA AdmitsTokens ==
    ASSUME TypeOK, NEW w \in Work, Admits(w), work'[w].token = NoToken
    PROVE  KeepsTokens
BY DEF Admits, Only, KeepsTokens

LEMMA JoinsTokens ==
    ASSUME TypeOK, NEW w \in Work, Joins(w)
    PROVE  KeepsTokens
BY DEF Joins, Only, KeepsTokens

LEMMA TokenQuiet ==
    ASSUME TypeOK, TokenInv, KeepsTokens, UNCHANGED <<tokens, told>>, Len(held') = Len(held),
           \A i \in 1 .. Len(held) : held'[i].token = held[i].token
    PROVE  TokenInv'
<1>1. /\ \A k \in Tokens : told'[k] = "nothing" <=> k > tokens'
      /\ \A i, j \in 1 .. Len(held') : held'[i].token = held'[j].token => i = j
      /\ \A k \in Tokens : told'[k] = "held" <=> \E i \in 1 .. Len(held') : held'[i].token = k
  BY DEF TokenInv
<1>2. \A w \in Work : work'[w].token # NoToken => work'[w].token = work[w].token
  BY DEF KeepsTokens
<1>3. \A w \in Work : work'[w].token # NoToken => told'[work'[w].token] = "approve"
  BY <1>2 DEF TokenInv
<1>4. \A v, w \in Work : work'[v].token = work'[w].token /\ work'[w].token # NoToken => v = w
  BY <1>2 DEF TokenInv
<1> QED
  BY <1>1, <1>3, <1>4 DEF TokenInv

LEMMA TokenHolds ==
    ASSUME TypeOK, TokenInv, KeepsTokens, NEW a \in Agents, NEW text \in Texts, Holds(a, text)
    PROVE  TokenInv' /\ \A k \in Tokens : told[k] \in Decisions => told'[k] = told[k]
<1> DEFINE n == tokens + 1
<1>1. /\ n \in Tokens /\ tokens' = n /\ told' = [told EXCEPT ![n] = "held"]
      /\ Len(held') = Len(held) + 1 /\ held'[Len(held) + 1].token = n
      /\ \A i \in 1 .. Len(held) : held'[i] = held[i]
  <2>1. n \in Tokens
    BY GateAssumption DEF TypeOK, Holds, Tokens
  <2> QED
    BY <2>1 DEF Holds, TypeOK
<1>2. told[n] = "nothing" /\ \A k \in Tokens : told'[k] = IF k = n THEN "held" ELSE told[k]
  BY <1>1, TokenTypes DEF TokenInv, TypeOK
<1>3. \A i \in 1 .. Len(held) : held[i].token # n
  <2>1. \A i \in 1 .. Len(held) : held[i].token \in Tokens /\ told[held[i].token] = "held"
    BY TokenTypes DEF TokenInv
  <2> QED
    BY <1>2, <2>1
<1>4. \A k \in Tokens : told'[k] = "nothing" <=> k > tokens'
  BY <1>1, <1>2, TokenTypes DEF TokenInv
<1>5. \A i, j \in 1 .. Len(held') : held'[i].token = held'[j].token => i = j
  <2>1. \A i \in 1 .. Len(held') : i # Len(held) + 1 => i \in 1 .. Len(held)
    BY <1>1, TokenTypes
  <2> HIDE DEF n
  <2>2. \A i, j \in 1 .. Len(held) : held[i].token = held[j].token => i = j
    BY DEF TokenInv
  <2> QED
    BY <1>1, <1>3, <2>1, <2>2
<1>6. \A k \in Tokens : told'[k] = "held" <=> \E i \in 1 .. Len(held') : held'[i].token = k
  <2> TAKE k \in Tokens
  <2>1. CASE k = n
    BY <1>1, <1>2, <2>1, TokenTypes
  <2>2. CASE k # n
    <3>1. told'[k] = "held" <=> \E i \in 1 .. Len(held) : held[i].token = k
      BY <1>2, <2>2 DEF TokenInv
    <3>2. 1 .. Len(held') = (1 .. Len(held)) \cup {Len(held) + 1}
      BY <1>1, TokenTypes
    <3> HIDE DEF n
    <3> QED
      BY <1>1, <2>2, <3>1, <3>2
  <2> QED
    BY <2>1, <2>2
<1>7. \A w \in Work : work'[w].token # NoToken => told'[work'[w].token] = "approve"
  BY <1>2, TokenTypes DEF TokenInv, KeepsTokens
<1>8. \A v, w \in Work : work'[v].token = work'[w].token /\ work'[w].token # NoToken => v = w
  BY DEF TokenInv, KeepsTokens
<1> QED
  BY <1>2, <1>4, <1>5, <1>6, <1>7, <1>8 DEF TokenInv, Decisions

LEMMA TokenResolve ==
    ASSUME TypeOK, TokenInv, NEW i \in 1 .. Len(held), NEW decision \in Decisions,
           Resolve(i, decision)
    PROVE  TokenInv' /\ \A k \in Tokens : told[k] \in Decisions => told'[k] = told[k]
<1> DEFINE n == held[i].token
           at(m) == IF m < i THEN m ELSE m + 1
<1>1. /\ n \in Tokens /\ tokens' = tokens /\ told' = [told EXCEPT ![n] = decision]
      /\ Len(held') = Len(held) - 1
      /\ \A m \in 1 .. Len(held) - 1 : held'[m] = held[at(m)] /\ at(m) \in 1 .. Len(held)
  <2>1. n \in Tokens /\ tokens' = tokens /\ told' = [told EXCEPT ![n] = decision]
    BY TokenTypes DEF Resolve
  <2>2. /\ held' = Popped(i) /\ Len(held) \in Nat
        /\ \A m \in 1 .. Len(held) - 1 : at(m) \in 1 .. Len(held)
    BY TokenTypes DEF Resolve
  <2>3. /\ Len(held') = Len(held) - 1
        /\ \A m \in 1 .. Len(held) - 1 : held'[m] = held[at(m)]
    BY <2>2, PoppedFacts
  <2> QED
    BY <2>1, <2>2, <2>3
<1>2. told[n] = "held" /\ \A k \in Tokens : told'[k] = IF k = n THEN decision ELSE told[k]
  BY <1>1 DEF TokenInv, TypeOK
<1>3. \A m \in 1 .. Len(held) : held[m].token = n => m = i
  BY DEF TokenInv
<1>4. \A k \in Tokens : told'[k] = "nothing" <=> k > tokens'
  BY <1>1, <1>2 DEF TokenInv, Decisions
<1>5. \A l, m \in 1 .. Len(held') : held'[l].token = held'[m].token => l = m
  <2> TAKE l, m \in 1 .. Len(held')
  <2>1. Len(held) \in Nat /\ l \in Nat /\ m \in Nat
    BY <1>1, TokenTypes
  <2>2. held'[l] = held[at(l)] /\ held'[m] = held[at(m)]
    BY <1>1
  <2>3. at(l) \in 1 .. Len(held) /\ at(m) \in 1 .. Len(held)
    BY <1>1
  <2>4. held'[l].token = held'[m].token => at(l) = at(m)
    BY <2>2, <2>3 DEF TokenInv
  <2>5. at(l) = at(m) => l = m
    BY <2>1
  <2> QED
    BY <2>4, <2>5
<1>6. \A k \in Tokens : told'[k] = "held" <=> \E m \in 1 .. Len(held') : held'[m].token = k
  <2> TAKE k \in Tokens
  <2>1. CASE k = n
    <3>1. \A m \in 1 .. Len(held') : held'[m].token # n
      <4> TAKE m \in 1 .. Len(held')
      <4>1. Len(held) \in Nat /\ m \in Nat /\ held'[m] = held[at(m)] /\ at(m) \in 1 .. Len(held)
        BY <1>1, TokenTypes
      <4>2. at(m) # i
        BY <4>1
      <4> QED
        BY <1>3, <4>1, <4>2
    <3> QED
      BY <1>2, <2>1, <3>1 DEF Decisions
  <2>2. CASE k # n /\ told[k] = "held"
    <3>1. PICK m \in 1 .. Len(held) : held[m].token = k
      BY <2>2 DEF TokenInv
    <3>2. m # i
      BY <2>2, <3>1
    <3>3. CASE m < i
      <4>1. Len(held) \in Nat /\ i \in 1 .. Len(held)
        BY <1>1, TokenTypes DEF Resolve
      <4>2. m \in 1 .. Len(held) - 1 /\ at(m) = m
        BY <3>1, <3>3, <4>1
      <4>3. m \in 1 .. Len(held') /\ held'[m].token = k
        BY <1>1, <3>1, <4>2
      <4> QED
        BY <1>2, <2>2, <4>3
    <3>4. CASE m > i
      <4>1. Len(held) \in Nat /\ i \in 1 .. Len(held)
        BY <1>1, TokenTypes DEF Resolve
      <4>2. m - 1 \in 1 .. Len(held) - 1 /\ at(m - 1) = m
        BY <3>1, <3>4, <4>1
      <4>3. m - 1 \in 1 .. Len(held') /\ held'[m - 1].token = k
        BY <1>1, <3>1, <4>2
      <4> QED
        BY <1>2, <2>2, <4>3
    <3> QED
      BY <3>2, <3>3, <3>4, TokenTypes
  <2>3. CASE k # n /\ told[k] # "held"
    <3>1. \A m \in 1 .. Len(held) : held[m].token # k
      BY <2>3 DEF TokenInv
    <3> QED
      BY <1>1, <1>2, <2>3, <3>1
  <2> QED
    BY <2>1, <2>2, <2>3
<1>7. \/ KeepsTokens
      \/ decision = "approve" /\ \E w \in Work : Admits(w) /\ work'[w].token = n
  <2>1. \/ UNCHANGED work
        \/ decision = "approve" /\ \E w \in Work : Admits(w) /\ work'[w].token = held[i].token
    BY ResolveMoves, Zenon
  <2>2. UNCHANGED work => KeepsTokens
    BY DEF KeepsTokens
  <2> QED
    BY <2>1, <2>2, Zenon
<1>8. /\ \A w \in Work : work'[w].token # NoToken => told'[work'[w].token] = "approve"
      /\ \A v, w \in Work : work'[v].token = work'[w].token /\ work'[w].token # NoToken => v = w
  <2>1. CASE KeepsTokens
    <3>1. \A w \in Work : work'[w].token # NoToken => work'[w].token = work[w].token
      BY <2>1 DEF KeepsTokens
    <3>2. \A w \in Work : work[w].token # NoToken => told'[work[w].token] = "approve"
      BY <1>2, TokenTypes DEF TokenInv
    <3> QED
      BY <3>1, <3>2 DEF TokenInv
  <2>2. ASSUME decision = "approve", NEW u \in Work, Admits(u), work'[u].token = n
        PROVE  /\ \A w \in Work : work'[w].token # NoToken => told'[work'[w].token] = "approve"
               /\ \A v, w \in Work : work'[v].token = work'[w].token /\ work'[w].token # NoToken
                                       => v = w
    <3>1. \A w \in Work : w # u => work'[w].token = work[w].token
      BY <2>2 DEF Admits, Only
    <3>2. \A w \in Work : work[w].token # n
      BY <1>1, <1>2, TokenTypes DEF TokenInv
    <3>3. n \in Tokens /\ n # NoToken /\ told'[n] = "approve"
      BY <1>1, <1>2, <2>2, TokenTypes
    <3> HIDE DEF n
    <3>4. \A w \in Work : w # u /\ work'[w].token # NoToken => told'[work'[w].token] = "approve"
      BY <1>2, <3>1, <3>2, TokenTypes DEF TokenInv
    <3>5. \A v, w \in Work : v # u /\ w # u /\ work'[v].token = work'[w].token
                                /\ work'[w].token # NoToken => v = w
      BY <3>1 DEF TokenInv
    <3> QED
      BY <2>2, <3>1, <3>2, <3>3, <3>4, <3>5
  <2> QED
    BY <1>7, <2>1, <2>2
<1> QED
  BY <1>2, <1>4, <1>5, <1>6, <1>8 DEF TokenInv, Decisions

LEMMA TokenInit == Init => TokenInv
BY NowhereFacts DEF Init, TokenInv, Tokens, NoToken

LEMMA TokenStep ==
    ASSUME TypeOK, TokenInv, [Next]_vars
    PROVE  TokenInv' /\ \A k \in Tokens : told[k] \in Decisions => told'[k] = told[k]
<1> DEFINE Stands == \A k \in Tokens : told[k] \in Decisions => told'[k] = told[k]
<1>1. ASSUME NEW a \in Agents, NEW t \in Tasks, Hold(a, t) PROVE TokenInv' /\ Stands
  <2>1. KeepsTokens
    BY <1>1 DEF Hold, KeepsTokens
  <2> QED
    BY <1>1, <2>1, TokenHolds, FreshFacts DEF Hold
<1>2. ASSUME NEW a \in Agents, NEW t \in Tasks, NEW b \in BOOLEAN, Delegate(a, t, b)
      PROVE  TokenInv' /\ Stands
  BY <1>2, DelegateMoves, AdmitsTokens, TokenQuiet DEF Delegate
<1>3. ASSUME NEW a \in Agents, NEW t \in Tasks, NEW b \in BOOLEAN,
             NEW status \in {"active", "ending"}, DelegateDirectly(a, t, status, b)
      PROVE  TokenInv' /\ Stands
  BY <1>3, DirectMoves, AdmitsTokens, TokenQuiet DEF DelegateDirectly
<1>4. ASSUME NEW d \in Decisions, SpokenAnswer(d) PROVE TokenInv' /\ Stands
  BY <1>4, NewestIsThere, TokenResolve DEF SpokenAnswer
<1>5. ASSUME NEW d \in Decisions, NEW k \in Tokens, Click(k, d) PROVE TokenInv' /\ Stands
  BY <1>5, TokenQuiet DEF Click, KeepsTokens
<1>6. ASSUME NEW d \in Decisions, NEW k \in Tokens, ClickRuns(k, d) PROVE TokenInv' /\ Stands
  <2>1. Answers(k, d)
    BY <1>6 DEF ClickRuns
  <2>2. CASE UNCHANGED <<held, tokens, told, work, streak>>
    <3>1. KeepsTokens
      BY <2>2, Zenon DEF KeepsTokens
    <3> QED
      BY <2>2, <3>1, TokenQuiet
  <2> QED
    BY <2>1, <2>2, AnswersCases, TokenResolve
<1>7. CASE Revise
  BY <1>7, RevisedFacts, TokenQuiet DEF Revise, KeepsTokens
<1>8. ASSUME NEW w \in Work, Arrives(w) PROVE TokenInv' /\ Stands
  BY <1>8, ArrivesMoves, MovesTokens, TokenQuiet DEF Arrives
<1>9. ASSUME NEW w \in Work, Replace(w) PROVE TokenInv' /\ Stands
  <2>1. KeepsTokens
    BY <1>9, ReplaceMoves DEF KeepsTokens
  <2> QED
    BY <1>9, <2>1, TokenQuiet DEF Replace
<1>10. ASSUME NEW w \in Work, NEW status \in {"active", "ending"}, Restarts(w, status)
       PROVE  TokenInv' /\ Stands
  BY <1>10, RestartsMoves, MovesTokens, TokenQuiet DEF Restarts
<1>11. ASSUME NEW w \in Work, NEW how \in {"asking", "ending"}, JobEnds(w, how)
       PROVE  TokenInv' /\ Stands
  BY <1>11, JobEndsMoves, MovesTokens, TokenQuiet DEF JobEnds
<1>12. ASSUME NEW w \in Work, AnnounceEnd(w) PROVE TokenInv' /\ Stands
  BY <1>12, AnnounceEndMoves, MovesTokens, TokenQuiet DEF AnnounceEnd
<1>13. ASSUME NEW w \in Work, AnnounceRequest(w) PROVE TokenInv' /\ Stands
  <2>1. KeepsTokens
    BY <1>13, AnnounceRequestMoves, MovesTokens
  <2>2. work[w].agent \in Agents /\ Noted(work[w].agent, work[w].text) \in Texts
    <3>1. work[w] \in Dispatches
      BY <1>13, MadeIsDispatch DEF AnnounceRequest
    <3> QED
      BY <3>1, NotedFacts DEF Dispatches
  <2> QED
    BY <1>13, <2>1, <2>2, TokenHolds, TokenQuiet DEF AnnounceRequest
<1>14. ASSUME NEW w \in Work, NEW a \in Agents, Consults(w, a) PROVE TokenInv' /\ Stands
  <2>1. KeepsTokens
    BY <1>14, ConsultsJoins, JoinsTokens
  <2> QED
    BY <1>14, <2>1, TokenQuiet DEF Consults, Unasked
<1>15. ASSUME NEW w \in Work, Presents(w) PROVE TokenInv' /\ Stands
  <2>1. KeepsTokens
    BY <1>15, PresentsJoins, JoinsTokens
  <2> QED
    BY <1>15, <2>1, TokenQuiet DEF Presents, Unasked
<1>16. CASE UNCHANGED vars
  BY <1>16, TokenQuiet DEF vars, KeepsTokens
<1> QED
  BY <1>1, <1>2, <1>3, <1>4, <1>5, <1>6, <1>7, <1>8, <1>9, <1>10, <1>11, <1>12, <1>13, <1>14,
     <1>15, <1>16 DEF Next

LEMMA AtMostOne ==
    ASSUME NEW S, \A x, y \in S : x = y
    PROVE  Cardinality(S) <= 1
<1>1. CASE S = {}
  BY <1>1, FS_EmptySet
<1>2. CASE S # {}
  <2>1. PICK x : x \in S
    BY <1>2
  <2>2. S = {x}
    BY <2>1
  <2> QED
    BY <2>2, FS_Singleton
<1> QED
  BY <1>1, <1>2

LEMMA TokenImplies ==
    ASSUME TypeOK, TokenInv
    PROVE  ApprovedOnce
<1> SUFFICES ASSUME NEW k \in Tokens
             PROVE  LET runs == {w \in Work : work[w].token = k} IN
                      /\ Cardinality(runs) <= 1
                      /\ runs # {} => told[k] = "approve"
                      /\ told[k] = "held" <=> \E i \in DOMAIN held : held[i].token = k
  BY DEF ApprovedOnce
<1> DEFINE runs == {w \in Work : work[w].token = k}
<1>1. \A x, y \in runs : x = y
  BY TokenTypes DEF TokenInv
<1>2. Cardinality(runs) <= 1
  BY <1>1, AtMostOne
<1>3. DOMAIN held = 1 .. Len(held)
  BY DEF TypeOK
<1>4. runs # {} => told[k] = "approve"
  BY TokenTypes DEF TokenInv
<1> HIDE DEF runs
<1>5. told[k] = "held" <=> \E i \in DOMAIN held : held[i].token = k
  BY <1>3 DEF TokenInv
<1> QED
  BY <1>2, <1>4, <1>5 DEF runs

\* A held task runs only if its token was approved, and once
\* (session.py:1450-1487 and 1721-1754).
THEOREM OnlyApprovedRuns == Spec => []ApprovedOnce
<1>1. Init => TypeOK /\ TokenInv
  BY TypeInit, TokenInit
<1>2. TypeOK /\ TokenInv /\ [Next]_vars => TypeOK' /\ TokenInv'
  BY TypeStep, TokenStep
<1>3. TypeOK /\ TokenInv => ApprovedOnce
  BY TokenImplies
<1> QED
  BY <1>1, <1>2, <1>3, PTL DEF Spec

\* A late click neither revives nor reverses a verdict (session.py:1722-1724).
THEOREM VerdictsStand == Spec => VerdictStands
<1>1. Init => TypeOK /\ TokenInv
  BY TypeInit, TokenInit
<1>2. TypeOK /\ TokenInv /\ [Next]_vars => TypeOK' /\ TokenInv'
  BY TypeStep, TokenStep
<1>3. TypeOK /\ TokenInv /\ [Next]_vars
        => [\A k \in Tokens : told[k] \in Decisions => told'[k] = told[k]]_vars
  BY TokenStep
<1> QED
  BY <1>1, <1>2, <1>3, PTL DEF Spec, VerdictStands

-----------------------------------------------------------------------------
(* Loops are cut.                                                           *)

\* The notes that came in a row are within the limit; unless the agent ended
\* otherwise since the last of them, all of them are in its streak.
Fair(a, text) ==
    /\ text.notes <= LoopLimit
    /\ text.since \subseteq EndsOf(a)
    /\ text.since = EndsOf(a) => text.notes <= streak[a]

EndsNext(a) == {w \in Work : work'[w].status = "done" /\ work'[w].agent = a}
FairNext(a, text) ==
    /\ text.notes <= LoopLimit
    /\ text.since \subseteq EndsNext(a)
    /\ text.since = EndsNext(a) => text.notes <= streak'[a]

\* So are the notes in every text.  One that the hub may give to any agent has none.
LoopInv ==
    /\ \A i \in 1 .. Len(held) : Fair(held[i].agent, held[i].text)
    /\ \A w \in Work : \/ Bare(work[w].text)
                       \/ work[w].agent \in Agents /\ Fair(work[w].agent, work[w].text)
    /\ \A w \in Work : work[w].status = "admitted" /\ ~work[w].named => Bare(work[w].text)

\* What a step has to do.
KeepsDone ==
    \A w \in Work : work[w].status = "done" => /\ work'[w].status = "done"
                                               /\ work'[w].agent = work[w].agent

KeepsFair == \A a \in Agents, text \in Texts : Fair(a, text) => FairNext(a, text)

HeldFollows ==
    \A i \in 1 .. Len(held') :
       \/ FairNext(held'[i].agent, held'[i].text)
       \/ \E j \in 1 .. Len(held) : /\ held'[i].agent = held[j].agent
                                    /\ SameNotes(held'[i].text, held[j].text)

WorkFollows ==
    /\ \A w \in Work :
         \/ Bare(work'[w].text)
         \/ \E v \in Work : /\ work'[w].agent = work[v].agent
                            /\ SameNotes(work'[w].text, work[v].text)
         \/ \E j \in 1 .. Len(held) : /\ work'[w].agent = held[j].agent
                                      /\ SameNotes(work'[w].text, held[j].text)
    /\ \A w \in Work : work'[w].status = "admitted" /\ ~work'[w].named => Bare(work'[w].text)

LEMMA HeldTypes ==
    ASSUME TypeOK
    PROVE  /\ Len(held) \in Nat
           /\ \A i \in 1 .. Len(held) : held[i].agent \in Agents /\ held[i].text \in Texts
<1>1. Len(held) \in Nat /\ \A i \in 1 .. Len(held) : held[i] \in Entries
  BY DEF TypeOK
<1> QED
  BY <1>1 DEF Entries

LEMMA WorkTypes ==
    ASSUME TypeOK, NEW w \in Work
    PROVE  work[w].text \in Texts
<1>1. work[w] \in Dispatches \/ work[w] = Nowhere
  BY DEF TypeOK
<1> QED
  BY <1>1, NowhereFacts DEF Dispatches

LEMMA LoopCarries ==
    ASSUME TypeOK, LoopInv, KeepsFair, HeldFollows, WorkFollows
    PROVE  LoopInv'
<1>1. ASSUME NEW i \in 1 .. Len(held')
      PROVE  FairNext(held'[i].agent, held'[i].text)
  <2>1. ASSUME NEW j \in 1 .. Len(held), held'[i].agent = held[j].agent,
               SameNotes(held'[i].text, held[j].text)
        PROVE  FairNext(held'[i].agent, held'[i].text)
    <3>1. FairNext(held[j].agent, held[j].text)
      BY HeldTypes DEF LoopInv, KeepsFair
    <3> QED
      BY <2>1, <3>1 DEF FairNext, SameNotes
  <2> QED
    BY <2>1 DEF HeldFollows
<1>2. ASSUME NEW w \in Work, ~Bare(work'[w].text)
      PROVE  work'[w].agent \in Agents /\ FairNext(work'[w].agent, work'[w].text)
  <2>1. ASSUME NEW v \in Work, work'[w].agent = work[v].agent,
               SameNotes(work'[w].text, work[v].text)
        PROVE  work'[w].agent \in Agents /\ FairNext(work'[w].agent, work'[w].text)
    <3>1. ~Bare(work[v].text)
      BY <1>2, <2>1 DEF Bare, SameNotes
    <3>2. work[v].agent \in Agents /\ FairNext(work[v].agent, work[v].text)
      BY <3>1, WorkTypes DEF LoopInv, KeepsFair
    <3> QED
      BY <2>1, <3>2 DEF FairNext, SameNotes
  <2>2. ASSUME NEW j \in 1 .. Len(held), work'[w].agent = held[j].agent,
               SameNotes(work'[w].text, held[j].text)
        PROVE  work'[w].agent \in Agents /\ FairNext(work'[w].agent, work'[w].text)
    <3>1. held[j].agent \in Agents /\ FairNext(held[j].agent, held[j].text)
      BY HeldTypes DEF LoopInv, KeepsFair
    <3> QED
      BY <2>2, <3>1 DEF FairNext, SameNotes
  <2> QED
    BY <1>2, <2>1, <2>2 DEF WorkFollows
<1>3. \A w \in Work : work'[w].status = "admitted" /\ ~work'[w].named => Bare(work'[w].text)
  BY DEF WorkFollows
<1> QED
  BY <1>1, <1>2, <1>3 DEF LoopInv, Fair, FairNext, EndsOf, EndsNext, Bare

LEMMA SameStreak ==
    ASSUME KeepsDone, UNCHANGED streak
    PROVE  KeepsFair
<1> SUFFICES ASSUME NEW a \in Agents, NEW text \in Texts, Fair(a, text) PROVE FairNext(a, text)
  BY DEF KeepsFair
<1>1. EndsOf(a) \subseteq EndsNext(a)
  BY DEF KeepsDone, EndsOf, EndsNext
<1> QED
  BY <1>1 DEF Fair, FairNext

LEMMA SameHeld ==
    ASSUME UNCHANGED held
    PROVE  HeldFollows
BY DEF HeldFollows, SameNotes

LEMMA SameWork ==
    ASSUME LoopInv, UNCHANGED work
    PROVE  WorkFollows /\ KeepsDone
BY DEF WorkFollows, LoopInv, KeepsDone, SameNotes

LEMMA MovesFollow ==
    ASSUME LoopInv, NEW w \in Work, Moves(w)
    PROVE  WorkFollows /\ KeepsDone
<1>1. \A u \in Work : u # w => work'[u] = work[u]
  BY DEF Moves, Only
<1>2. \/ work'[w].agent = work[w].agent /\ SameNotes(work'[w].text, work[w].text)
      \/ Bare(work'[w].text)
  BY DEF Moves, LoopInv, Bare, SameNotes
<1>3. work'[w].status # "admitted" /\ work[w].status # "done"
  BY DEF Moves
<1> QED
  BY <1>1, <1>2, <1>3 DEF WorkFollows, LoopInv, KeepsDone, SameNotes

LEMMA AdmitsFollow ==
    ASSUME LoopInv, NEW w \in Work, Admits(w), Bare(work'[w].text)
    PROVE  WorkFollows /\ KeepsDone
BY DEF Admits, Only, WorkFollows, LoopInv, KeepsDone, SameNotes

LEMMA JoinsFollow ==
    ASSUME LoopInv, NEW w \in Work, Joins(w),
           \/ Bare(work'[w].text)
           \/ \E v \in Work : /\ work'[w].agent = work[v].agent
                              /\ SameNotes(work'[w].text, work[v].text)
    PROVE  WorkFollows /\ KeepsDone
BY DEF Joins, Only, WorkFollows, LoopInv, KeepsDone, SameNotes

LEMMA LoopQuiet ==
    ASSUME TypeOK, LoopInv, UNCHANGED <<held, streak>>, WorkFollows /\ KeepsDone
    PROVE  LoopInv'
BY LoopCarries, SameStreak, SameHeld

LEMMA ResolveLoop ==
    ASSUME TypeOK, LoopInv, NEW i \in 1 .. Len(held), NEW decision \in Decisions,
           Resolve(i, decision)
    PROVE  LoopInv'
<1> DEFINE at(m) == IF m < i THEN m ELSE m + 1
<1>1. HeldFollows
  <2>1. Len(held) \in Nat /\ held' = Popped(i)
    BY HeldTypes DEF Resolve
  <2>2. Len(held') = Len(held) - 1 /\ \A m \in 1 .. Len(held) - 1 : held'[m] = held[at(m)]
    BY <2>1, PoppedFacts
  <2>3. \A m \in 1 .. Len(held) - 1 : at(m) \in 1 .. Len(held)
    BY <2>1
  <2> QED
    BY <2>2, <2>3 DEF HeldFollows, SameNotes
<1>2. WorkFollows /\ KeepsDone
  <2>1. CASE UNCHANGED work
    BY <2>1, SameWork
  <2>2. ASSUME NEW w \in Work, Admits(w), work'[w].named, work'[w].agent = held[i].agent,
               SameNotes(work'[w].text, held[i].text)
        PROVE  WorkFollows /\ KeepsDone
    <3>1. \A u \in Work : u # w => work'[u] = work[u]
      BY <2>2 DEF Admits, Only
    <3>2. work[w].status # "done"
      BY <2>2 DEF Admits
    <3> QED
      BY <2>2, <3>1, <3>2 DEF WorkFollows, LoopInv, KeepsDone, SameNotes
  <2> QED
    BY <2>1, <2>2, ResolveMoves DEF SameNotes
<1>3. UNCHANGED streak
  BY DEF Resolve
<1> QED
  BY <1>1, <1>2, <1>3, LoopCarries, SameStreak

\* A new entry.
LEMMA HoldsFollow ==
    ASSUME TypeOK, NEW a \in Agents, NEW text \in Texts, Holds(a, text), FairNext(a, text)
    PROVE  HeldFollows
<1>1. /\ Len(held) \in Nat /\ Len(held') = Len(held) + 1
      /\ held'[Len(held) + 1].agent = a /\ held'[Len(held) + 1].text = text
      /\ \A i \in 1 .. Len(held) : held'[i] = held[i]
  BY DEF TypeOK, Holds
<1>2. ASSUME NEW i \in 1 .. Len(held'), i # Len(held) + 1
      PROVE  i \in 1 .. Len(held) /\ held'[i] = held[i]
  BY <1>1, <1>2
<1> QED
  BY <1>1, <1>2 DEF HeldFollows, SameNotes

LEMMA HoldLoop ==
    ASSUME TypeOK, LoopInv, NEW a \in Agents, NEW t \in Tasks, Hold(a, t)
    PROVE  LoopInv'
<1>1. WorkFollows /\ KeepsDone /\ KeepsFair
  BY SameWork, SameStreak DEF Hold
<1>2. FairNext(a, Fresh(t))
  BY GateAssumption, FreshFacts DEF FairNext, Bare, TypeOK, Hold
<1>3. HeldFollows
  BY <1>2, HoldsFollow, FreshFacts DEF Hold
<1> QED
  BY <1>1, <1>3, LoopCarries

LEMMA EndLoop ==
    ASSUME TypeOK, LoopInv, NEW w \in Work, AnnounceEnd(w)
    PROVE  LoopInv'
<1> DEFINE b == work[w].agent
<1>1. Moves(w) /\ work'[w].agent = b /\ work'[w].status = "done"
  BY AnnounceEndMoves
<1>2. WorkFollows /\ KeepsDone
  BY <1>1, MovesFollow
<1>3. \A a \in Agents : a # b => streak'[a] = streak[a]
  BY DEF AnnounceEnd, TypeOK
<1>4. KeepsFair
  <2> SUFFICES ASSUME NEW a \in Agents, NEW text \in Texts, Fair(a, text) PROVE FairNext(a, text)
    BY DEF KeepsFair
  <2>1. EndsOf(a) \subseteq EndsNext(a)
    BY <1>2 DEF KeepsDone, EndsOf, EndsNext
  <2>2. a = b => w \in EndsNext(a) /\ w \notin EndsOf(a)
    BY <1>1 DEF EndsOf, EndsNext, Moves
  <2> QED
    BY <1>3, <2>1, <2>2 DEF Fair, FairNext
<1>5. HeldFollows
  BY SameHeld DEF AnnounceEnd
<1> QED
  BY <1>2, <1>4, <1>5, LoopCarries

LEMMA RequestLoop ==
    ASSUME TypeOK, LoopInv, NEW w \in Work, AnnounceRequest(w)
    PROVE  LoopInv'
<1> DEFINE b == work[w].agent
           text == work[w].text
<1>1. Moves(w)
  BY AnnounceRequestMoves
<1>2. WorkFollows /\ KeepsDone
  BY <1>1, MovesFollow
<1>3. b \in Agents /\ text \in Texts /\ text.notes \in Nat
  <2>1. work[w] \in Dispatches
    BY MadeIsDispatch DEF AnnounceRequest
  <2> QED
    BY <2>1 DEF Dispatches, Texts
<1>4. /\ streak[b] \in Nat /\ streak'[b] = streak[b] + 1
      /\ \A a \in Agents : a # b => streak'[a] = streak[a]
  BY <1>3 DEF AnnounceRequest, Counted, TypeOK
<1>5. KeepsFair
  <2> SUFFICES ASSUME NEW a \in Agents, NEW t \in Texts, Fair(a, t) PROVE FairNext(a, t)
    BY DEF KeepsFair
  <2>1. t.notes <= streak[a] => t.notes <= streak'[a]
    <3>1. t.notes \in Nat
      BY DEF Texts
    <3>2. streak[a] \in Nat /\ (streak'[a] = streak[a] \/ streak'[a] = streak[a] + 1)
      BY <1>4 DEF TypeOK
    <3> QED
      BY <3>1, <3>2
  <2>2. EndsOf(a) \subseteq EndsNext(a)
    BY <1>2 DEF KeepsDone, EndsOf, EndsNext
  <2>3. t.since \subseteq EndsNext(a) /\ (t.since = EndsNext(a) => t.since = EndsOf(a))
    BY <2>2 DEF Fair
  <2> QED
    BY <2>1, <2>3 DEF Fair, FairNext
<1>6. HeldFollows
  <2>1. CASE UNCHANGED held
    BY <2>1, SameHeld
  <2>2. CASE Holds(b, Noted(b, text)) /\ ~(streak[b] + 1 > LoopLimit)
    <3>1. /\ Noted(b, text) \in Texts /\ Noted(b, text).since = EndsOf(b)
          /\ Noted(b, text).notes = IF text.since = EndsOf(b) THEN text.notes + 1 ELSE 1
      BY <1>3, NotedFacts
    <3>2. text.since = EndsOf(b) => text.notes <= streak[b]
      BY <1>4, GateAssumption DEF LoopInv, Fair, Bare
    <3>3. EndsOf(b) \subseteq EndsNext(b)
      BY <1>2 DEF KeepsDone, EndsOf, EndsNext
    <3>4. FairNext(b, Noted(b, text))
      <4> HIDE DEF b, text
      <4>1. Noted(b, text).notes <= streak[b] + 1
        BY <1>3, <1>4, <3>1, <3>2
      <4>2. Noted(b, text).notes \in Nat
        BY <3>1 DEF Texts
      <4> QED
        BY <1>4, <2>2, <3>1, <3>3, <4>1, <4>2, GateAssumption DEF FairNext
    <3> QED
      BY <1>3, <2>2, <3>1, <3>4, HoldsFollow
  <2> QED
    BY <2>1, <2>2 DEF AnnounceRequest, Counted
<1> QED
  BY <1>2, <1>5, <1>6, LoopCarries

LEMMA ReplaceLoop ==
    ASSUME TypeOK, LoopInv, NEW w \in Work, Replace(w)
    PROVE  LoopInv'
<1>1. PICK v \in Work :
        /\ work[w].status = "active" /\ work[v].status = "none"
        /\ \A u \in Work : u # v /\ u # w => work'[u] = work[u]
        /\ work'[w].status = "ending" /\ work'[w].agent = work[w].agent
        /\ work'[w].text = work[w].text
        /\ work'[v].status = "restarting" /\ work'[v].agent = work[w].agent
        /\ SameNotes(work'[v].text, work[w].text)
  BY ReplaceMoves
<1>2. KeepsDone
  BY <1>1 DEF KeepsDone
<1>3. WorkFollows
  <2>1. ASSUME NEW u \in Work
        PROVE  \E x \in Work : /\ work'[u].agent = work[x].agent
                              /\ SameNotes(work'[u].text, work[x].text)
    BY <1>1 DEF SameNotes
  <2>2. \A u \in Work : work'[u].status = "admitted" => u # v /\ u # w
    BY <1>1
  <2>3. \A u \in Work : work'[u].status = "admitted" => work'[u] = work[u]
    BY <1>1, <2>2
  <2> QED
    BY <2>1, <2>3 DEF WorkFollows, LoopInv
<1> QED
  BY <1>2, <1>3, LoopQuiet DEF Replace

LEMMA ReviseLoop ==
    ASSUME TypeOK, LoopInv, Revise
    PROVE  LoopInv'
<1> DEFINE h == [held EXCEPT ![Len(held)] = Revised(held[Len(held)])]
<1>1. held # <<>> /\ held' = h /\ UNCHANGED work /\ UNCHANGED streak
  BY Zenon DEF Revise
<1>2. /\ Len(h) = Len(held)
      /\ \A i \in 1 .. Len(held) : h[i].agent = held[i].agent /\ SameNotes(h[i].text, held[i].text)
  BY <1>1, RevisedFacts
<1> HIDE DEF h
<1>3. HeldFollows
  BY <1>1, <1>2 DEF HeldFollows
<1> QED
  BY <1>1, <1>3, SameWork, SameStreak, LoopCarries

LEMMA LoopInit == Init => LoopInv
<1> SUFFICES ASSUME Init PROVE LoopInv
  OBVIOUS
<1>1. Len(held) = 0 /\ \A w \in Work : work[w] = Nowhere
  BY DEF Init
<1> QED
  BY <1>1, NowhereFacts DEF LoopInv

LEMMA LoopStep ==
    ASSUME TypeOK, LoopInv, [Next]_vars
    PROVE  LoopInv'
<1>1. ASSUME NEW a \in Agents, NEW t \in Tasks, Hold(a, t) PROVE LoopInv'
  BY <1>1, HoldLoop
<1>2. ASSUME NEW a \in Agents, NEW t \in Tasks, NEW b \in BOOLEAN, Delegate(a, t, b)
      PROVE  LoopInv'
  BY <1>2, DelegateMoves, AdmitsFollow, LoopQuiet DEF Delegate
<1>3. ASSUME NEW a \in Agents, NEW t \in Tasks, NEW b \in BOOLEAN,
             NEW status \in {"active", "ending"}, DelegateDirectly(a, t, status, b)
      PROVE  LoopInv'
  <2>1. WorkFollows /\ KeepsDone
    BY <1>3, DirectMoves, AdmitsFollow
  <2>2. UNCHANGED <<held, streak>>
    BY <1>3 DEF DelegateDirectly
  <2> QED
    BY <2>1, <2>2, LoopQuiet
<1>4. ASSUME NEW d \in Decisions, SpokenAnswer(d) PROVE LoopInv'
  BY <1>4, NewestIsThere, ResolveLoop DEF SpokenAnswer
<1>5. ASSUME NEW d \in Decisions, NEW k \in Tokens, Click(k, d) PROVE LoopInv'
  BY <1>5, SameWork, LoopQuiet DEF Click
<1>6. ASSUME NEW d \in Decisions, NEW k \in Tokens, ClickRuns(k, d) PROVE LoopInv'
  <2>1. CASE UNCHANGED <<held, tokens, told, work, streak>>
    BY <2>1, SameWork, LoopQuiet
  <2> QED
    BY <1>6, <2>1, AnswersCases, ResolveLoop DEF ClickRuns
<1>7. CASE Revise
  BY <1>7, ReviseLoop
<1>8. ASSUME NEW w \in Work, Arrives(w) PROVE LoopInv'
  <2>1. WorkFollows /\ KeepsDone
    BY <1>8, ArrivesMoves, MovesFollow
  <2>2. UNCHANGED held /\ UNCHANGED streak
    BY <1>8 DEF Arrives
  <2> QED
    BY <2>1, <2>2, LoopQuiet
<1>9. ASSUME NEW w \in Work, Replace(w) PROVE LoopInv'
  BY <1>9, ReplaceLoop
<1>10. ASSUME NEW w \in Work, NEW status \in {"active", "ending"}, Restarts(w, status)
       PROVE  LoopInv'
  BY <1>10, RestartsMoves, MovesFollow, LoopQuiet DEF Restarts
<1>11. ASSUME NEW w \in Work, NEW how \in {"asking", "ending"}, JobEnds(w, how)
       PROVE  LoopInv'
  BY <1>11, JobEndsMoves, MovesFollow, LoopQuiet DEF JobEnds
<1>12. ASSUME NEW w \in Work, AnnounceEnd(w) PROVE LoopInv'
  BY <1>12, EndLoop
<1>13. ASSUME NEW w \in Work, AnnounceRequest(w) PROVE LoopInv'
  BY <1>13, RequestLoop
<1>14. ASSUME NEW w \in Work, NEW a \in Agents, Consults(w, a) PROVE LoopInv'
  <2>1. WorkFollows /\ KeepsDone
    BY <1>14, ConsultsJoins, JoinsFollow
  <2> QED
    BY <1>14, <2>1, LoopQuiet DEF Consults, Unasked
<1>15. ASSUME NEW w \in Work, Presents(w) PROVE LoopInv'
  <2>1. WorkFollows /\ KeepsDone
    BY <1>15, PresentsJoins, JoinsFollow
  <2> QED
    BY <1>15, <2>1, LoopQuiet DEF Presents, Unasked
<1>16. CASE UNCHANGED vars
  BY <1>16, SameWork, LoopQuiet DEF vars
<1> QED
  BY <1>1, <1>2, <1>3, <1>4, <1>5, <1>6, <1>7, <1>8, <1>9, <1>10, <1>11, <1>12, <1>13, <1>14,
     <1>15, <1>16 DEF Next

LEMMA LoopImplies ==
    ASSUME TypeOK, LoopInv
    PROVE  LoopIsCut
<1>1. DOMAIN held = 1 .. Len(held)
  BY DEF TypeOK
<1>2. \A i \in 1 .. Len(held) : held[i].text.notes <= LoopLimit
  BY DEF LoopInv, Fair
<1>3. \A v \in Work : work[v].text.notes <= LoopLimit
  BY GateAssumption DEF LoopInv, Fair, Bare
<1> QED
  BY <1>1, <1>2, <1>3 DEF LoopIsCut

\* No text gets more notes in a row than the limit, an ordinary end of its agent
\* apart (session.py:2079-2081).
THEOREM LoopsAreCut == Spec => []LoopIsCut
<1>1. Init => TypeOK /\ LoopInv
  BY TypeInit, LoopInit
<1>2. TypeOK /\ LoopInv /\ [Next]_vars => TypeOK' /\ LoopInv'
  BY TypeStep, LoopStep
<1>3. TypeOK /\ LoopInv => LoopIsCut
  BY LoopImplies
<1> QED
  BY <1>1, <1>2, <1>3, PTL DEF Spec

-----------------------------------------------------------------------------
(* The limits.                                                              *)

Current == Active \cup OnTheWay
Alone == {w \in Current : work[w].alone}
AloneIn(a) == {w \in Current : work[w].agent = a /\ work[w].alone /\ work[w].named}

\* Those which were alone on the way when they were admitted keep the limits.
CapInv ==
    /\ Cardinality(Alone) <= GlobalCap
    /\ \A a \in Agents : Cardinality(AloneIn(a)) <= HarnessCap

LEMMA CurrentFinite ==
    /\ IsFiniteSet(Work)
    /\ Current \subseteq Work /\ Active \subseteq Current /\ Alone \subseteq Current
    /\ \A a : AloneIn(a) \subseteq Current /\ JobsOf(a) \subseteq Active
    /\ \A w \in Work : w \in Current <=> work[w].status \in InFlight
BY GateAssumption DEF Current, Active, OnTheWay, Alone, AloneIn, JobsOf, InFlight

\* What bounds a set bounds its parts; one element more takes room for one.
LEMMA Shrinks ==
    ASSUME NEW S, NEW T, S \subseteq T, T \subseteq Work, NEW cap \in Nat, Cardinality(T) <= cap
    PROVE  Cardinality(S) <= cap
<1>1. IsFiniteSet(T) /\ Cardinality(T) \in Nat
  BY GateAssumption, FS_Subset, FS_CardinalityType
<1>2. Cardinality(S) \in Nat /\ Cardinality(S) <= Cardinality(T)
  BY <1>1, FS_Subset, FS_CardinalityType
<1> QED
  BY <1>1, <1>2

LEMMA GainsOne ==
    ASSUME NEW S, NEW T, NEW w, S \subseteq T \cup {w}, T \subseteq Work,
           NEW cap \in Nat, Cardinality(T) < cap
    PROVE  Cardinality(S) <= cap
<1>1. IsFiniteSet(T) /\ Cardinality(T) \in Nat
  BY GateAssumption, FS_Subset, FS_CardinalityType
<1>2. IsFiniteSet(T \cup {w}) /\ Cardinality(T \cup {w}) <= Cardinality(T) + 1
  BY <1>1, FS_AddElement
<1>3. Cardinality(S) \in Nat /\ Cardinality(S) <= Cardinality(T \cup {w})
  BY <1>2, FS_Subset, FS_CardinalityType
<1>4. Cardinality(T \cup {w}) \in Nat
  BY <1>2, FS_CardinalityType
<1> QED
  BY <1>1, <1>2, <1>3, <1>4

\* What is on the way or active after a step: nothing new, with nothing gained.
NoneNew ==
    \A w \in Work : work'[w].status \in InFlight /\ work'[w].alone =>
       /\ work[w].status \in InFlight /\ work[w].alone
       /\ work'[w].named => work[w].named /\ work'[w].agent = work[w].agent

LEMMA CapQuiet ==
    ASSUME CapInv, NoneNew
    PROVE  CapInv'
<1>1. Alone' \subseteq Alone /\ \A a \in Agents : AloneIn(a)' \subseteq AloneIn(a)
  BY CurrentFinite DEF NoneNew, Alone, AloneIn, Current, Active, OnTheWay, InFlight
<1>2. Alone \subseteq Work /\ \A a \in Agents : AloneIn(a) \subseteq Work
  BY CurrentFinite
<1>3. Cardinality(Alone') <= GlobalCap
  BY <1>1, <1>2, Shrinks, GateAssumption DEF CapInv
<1>4. ASSUME NEW a \in Agents PROVE Cardinality(AloneIn(a)') <= HarnessCap
  BY <1>1, <1>2, Shrinks, GateAssumption DEF CapInv
<1> QED
  BY <1>3, <1>4 DEF CapInv

LEMMA CapAdmits ==
    ASSUME TypeOK, CapInv, NEW w \in Work, Admits(w)
    PROVE  CapInv'
<1>1. \A v \in Work : v # w => work'[v] = work[v]
  BY DEF Admits, Only
<1>2. CASE ~work'[w].alone
  <2>1. NoneNew
    BY <1>1, <1>2 DEF NoneNew
  <2> QED
    BY <2>1, CapQuiet
<1>3. CASE work'[w].alone
  <2>1. OnTheWay = {}
    BY <1>3 DEF Admits
  <2>2. Alone' \subseteq Active \cup {w}
    BY <1>1, <2>1 DEF Alone, Current, Active, OnTheWay
  <2>3. Cardinality(Alone') <= GlobalCap
    <3>1. Active \subseteq Work /\ Cardinality(Active) < GlobalCap
      BY DEF Active, Admits
    <3> QED
      BY <2>2, <3>1, GainsOne, GateAssumption
  <2>4. ASSUME NEW a \in Agents PROVE Cardinality(AloneIn(a)') <= HarnessCap
    <3>1. CASE a = work'[w].agent
      <4>1. AloneIn(a)' \subseteq JobsOf(a) \cup {w}
        BY <1>1, <2>1 DEF AloneIn, Current, Active, OnTheWay, JobsOf
      <4>2. JobsOf(a) \subseteq Work /\ Cardinality(JobsOf(a)) < HarnessCap
        BY <3>1 DEF JobsOf, Active, Admits
      <4> QED
        BY <4>1, <4>2, GainsOne, GateAssumption
    <3>2. CASE a # work'[w].agent
      <4>1. AloneIn(a)' \subseteq AloneIn(a)
        BY <1>1, <3>2 DEF AloneIn, Current, Active, OnTheWay
      <4>2. AloneIn(a) \subseteq Work /\ Cardinality(AloneIn(a)) <= HarnessCap
        BY CurrentFinite DEF CapInv
      <4> QED
        BY <4>1, <4>2, Shrinks, GateAssumption
    <3> QED
      BY <3>1, <3>2
  <2> QED
    BY <2>3, <2>4 DEF CapInv
<1> QED
  BY <1>2, <1>3

LEMMA MovesNoneNew ==
    ASSUME NEW w \in Work, Moves(w)
    PROVE  NoneNew
BY DEF Moves, Only, NoneNew

LEMMA SameNoneNew ==
    ASSUME UNCHANGED work
    PROVE  NoneNew
BY DEF NoneNew

LEMMA ReplaceNoneNew ==
    ASSUME TypeOK, NEW w \in Work, Replace(w)
    PROVE  NoneNew
BY ReplaceMoves DEF NoneNew, InFlight

LEMMA JoinsNoneNew ==
    ASSUME NEW w \in Work, Joins(w)
    PROVE  NoneNew
BY DEF Joins, Only, NoneNew

LEMMA CapResolve ==
    ASSUME TypeOK, CapInv, NEW i \in 1 .. Len(held), NEW decision \in Decisions,
           Resolve(i, decision)
    PROVE  CapInv'
BY ResolveMoves, CapAdmits, SameNoneNew, CapQuiet

LEMMA CapInit == Init => CapInv
<1> SUFFICES ASSUME Init PROVE CapInv
  OBVIOUS
<1>1. Alone = {} /\ \A a \in Agents : AloneIn(a) = {}
  BY NowhereFacts DEF Init, Alone, AloneIn, Current, Active, OnTheWay
<1> QED
  BY <1>1, FS_EmptySet, GateAssumption DEF CapInv

LEMMA CapStep ==
    ASSUME TypeOK, CapInv, [Next]_vars
    PROVE  CapInv'
<1>1. ASSUME NEW a \in Agents, NEW t \in Tasks, Hold(a, t) PROVE CapInv'
  BY <1>1, SameNoneNew, CapQuiet DEF Hold
<1>2. ASSUME NEW a \in Agents, NEW t \in Tasks, NEW b \in BOOLEAN, Delegate(a, t, b)
      PROVE  CapInv'
  BY <1>2, DelegateMoves, CapAdmits
<1>3. ASSUME NEW a \in Agents, NEW t \in Tasks, NEW b \in BOOLEAN,
             NEW status \in {"active", "ending"}, DelegateDirectly(a, t, status, b)
      PROVE  CapInv'
  BY <1>3, DirectMoves, CapAdmits
<1>4. ASSUME NEW d \in Decisions, SpokenAnswer(d) PROVE CapInv'
  BY <1>4, NewestIsThere, CapResolve DEF SpokenAnswer
<1>5. ASSUME NEW d \in Decisions, NEW k \in Tokens, Click(k, d) PROVE CapInv'
  BY <1>5, SameNoneNew, CapQuiet DEF Click
<1>6. ASSUME NEW d \in Decisions, NEW k \in Tokens, ClickRuns(k, d) PROVE CapInv'
  <2>1. CASE UNCHANGED <<held, tokens, told, work, streak>>
    BY <2>1, SameNoneNew, CapQuiet
  <2> QED
    BY <1>6, <2>1, AnswersCases, CapResolve DEF ClickRuns
<1>7. CASE Revise
  BY <1>7, SameNoneNew, CapQuiet DEF Revise
<1>8. ASSUME NEW w \in Work, Arrives(w) PROVE CapInv'
  BY <1>8, ArrivesMoves, MovesNoneNew, CapQuiet
<1>9. ASSUME NEW w \in Work, Replace(w) PROVE CapInv'
  BY <1>9, ReplaceNoneNew, CapQuiet
<1>10. ASSUME NEW w \in Work, NEW status \in {"active", "ending"}, Restarts(w, status)
       PROVE  CapInv'
  BY <1>10, RestartsMoves, MovesNoneNew, CapQuiet
<1>11. ASSUME NEW w \in Work, NEW how \in {"asking", "ending"}, JobEnds(w, how)
       PROVE  CapInv'
  BY <1>11, JobEndsMoves, MovesNoneNew, CapQuiet
<1>12. ASSUME NEW w \in Work, AnnounceEnd(w) PROVE CapInv'
  BY <1>12, AnnounceEndMoves, MovesNoneNew, CapQuiet
<1>13. ASSUME NEW w \in Work, AnnounceRequest(w) PROVE CapInv'
  BY <1>13, AnnounceRequestMoves, MovesNoneNew, CapQuiet
<1>14. ASSUME NEW w \in Work, NEW a \in Agents, Consults(w, a) PROVE CapInv'
  BY <1>14, ConsultsJoins, JoinsNoneNew, CapQuiet
<1>15. ASSUME NEW w \in Work, Presents(w) PROVE CapInv'
  BY <1>15, PresentsJoins, JoinsNoneNew, CapQuiet
<1>16. CASE UNCHANGED vars
  BY <1>16, SameNoneNew, CapQuiet DEF vars
<1> QED
  BY <1>1, <1>2, <1>3, <1>4, <1>5, <1>6, <1>7, <1>8, <1>9, <1>10, <1>11, <1>12, <1>13, <1>14,
     <1>15, <1>16 DEF Next

LEMMA CapImplies ==
    ASSUME CapInv
    PROVE  AdmittedKeepLimits
<1>1. {w \in Active \cup OnTheWay : work[w].alone} = Alone
  BY DEF Alone, Current
<1>2. \A a \in Agents : {w \in Alone : work[w].agent = a /\ work[w].named} = AloneIn(a)
  BY DEF Alone, AloneIn
<1> QED
  BY <1>1, <1>2 DEF AdmittedKeepLimits, CapInv

\* What was admitted while no other dispatch was on the way keeps the limits: more
\* jobs come only of dispatches that overlap, of a replacement, for one agent of a
\* choice of the hub, or of jobs that nobody admits (concurrency.py:54-72).
THEOREM AdmittedKeepTheLimits == Spec => []AdmittedKeepLimits
<1>1. Init => TypeOK /\ CapInv
  BY TypeInit, CapInit
<1>2. TypeOK /\ CapInv /\ [Next]_vars => TypeOK' /\ CapInv'
  BY TypeStep, CapStep
<1>3. CapInv => AdmittedKeepLimits
  BY CapImplies
<1> QED
  BY <1>1, <1>2, <1>3, PTL DEF Spec

-----------------------------------------------------------------------------
(* The gate keeps ApprovalContract.                                         *)

\* On the way to the hub, what was held goes to the agent that was named.
NamedInv == \A w \in Work : work[w].status = "admitted" /\ work[w].token # NoToken => work[w].named

\* What runs in the name of a prompt after a step: what did before, and the same.
KeepsRuns ==
    \A w \in Work : /\ work'[w].token = work[w].token
                    /\ work[w].token # NoToken => /\ work'[w].agent = work[w].agent
                                                  /\ work'[w].text.task = work[w].text.task

LEMMA RunsQuiet ==
    ASSUME KeepsRuns
    PROVE  UNCHANGED Runs
<1> DEFINE Of(w) == [token |-> work[w].token, work |-> w, wish |-> WishOf(work[w])]
<1>1. \A w \in Work : work[w].token # NoToken => Of(w)' = Of(w)
  BY DEF KeepsRuns, WishOf
<1>2. {w \in Work : work'[w].token # NoToken} = {w \in Work : work[w].token # NoToken}
  BY DEF KeepsRuns
<1> QED
  BY <1>1, <1>2 DEF Runs

LEMMA MovesRuns ==
    ASSUME TypeOK, NamedInv, NEW w \in Work, Moves(w)
    PROVE  UNCHANGED Runs /\ NamedInv'
<1>1. KeepsRuns
  BY DEF NamedInv, Moves, Only, KeepsRuns
<1>2. NamedInv'
  BY DEF NamedInv, Moves, Only
<1> QED
  BY <1>1, <1>2, RunsQuiet

LEMMA SameWorkRuns ==
    ASSUME NamedInv, UNCHANGED work
    PROVE  UNCHANGED Runs /\ NamedInv'
BY RunsQuiet DEF NamedInv, KeepsRuns

LEMMA NewHasNoToken ==
    ASSUME TypeOK, NEW w \in Work, work[w].status = "none"
    PROVE  work[w].token = NoToken
BY NowhereFacts DEF TypeOK, Dispatches, Statuses

LEMMA AdmitsRuns ==
    ASSUME TypeOK, NamedInv, NEW w \in Work, Admits(w), work'[w].token = NoToken
    PROVE  UNCHANGED Runs /\ NamedInv'
<1>1. KeepsRuns
  BY NewHasNoToken DEF Admits, Only, KeepsRuns
<1>2. NamedInv'
  BY DEF NamedInv, Admits, Only
<1> QED
  BY <1>1, <1>2, RunsQuiet

LEMMA JoinsRuns ==
    ASSUME TypeOK, NamedInv, NEW w \in Work, Joins(w)
    PROVE  UNCHANGED Runs /\ NamedInv'
<1>1. KeepsRuns
  BY NewHasNoToken DEF Joins, Only, KeepsRuns
<1>2. NamedInv'
  BY DEF NamedInv, Joins, Only
<1> QED
  BY <1>1, <1>2, RunsQuiet

LEMMA ReplaceRuns ==
    ASSUME TypeOK, NamedInv, NEW w \in Work, Replace(w)
    PROVE  UNCHANGED Runs /\ NamedInv'
<1>1. KeepsRuns
  BY ReplaceMoves, NewHasNoToken DEF KeepsRuns
<1>2. NamedInv'
  BY ReplaceMoves DEF NamedInv
<1> QED
  BY <1>1, <1>2, RunsQuiet

\* A dispatch made for an approved entry.
LEMMA ApprovedRuns ==
    ASSUME TypeOK, NamedInv, NEW w \in Work, Admits(w), NEW e \in Entries,
           work'[w].named, work'[w].token = e.token, work'[w].agent = e.agent,
           work'[w].text = e.text
    PROVE  /\ Runs' = Runs \cup {[token |-> e.token, work |-> w, wish |-> WishOf(e)]}
           /\ \A r \in Runs : r.work # w
           /\ NamedInv'
<1> DEFINE Of(v) == [token |-> work[v].token, work |-> v, wish |-> WishOf(work[v])]
<1>1. \A v \in Work : v # w => work'[v] = work[v]
  BY DEF Admits, Only
<1>2. work[w].token = NoToken /\ e.token # NoToken
  BY NewHasNoToken DEF Admits, Entries, Tokens, NoToken
<1>3. Of(w)' = [token |-> e.token, work |-> w, wish |-> WishOf(e)]
  BY DEF WishOf
<1>4. \A v \in Work : v # w => Of(v)' = Of(v)
  BY <1>1
<1>5. {v \in Work : work'[v].token # NoToken} = {v \in Work : work[v].token # NoToken} \cup {w}
  BY <1>1, <1>2
<1>6. w \notin {v \in Work : work[v].token # NoToken}
  BY <1>2
<1>7. Runs = {Of(v) : v \in {v \in Work : work[v].token # NoToken}}
  BY DEF Runs
<1>8. Runs' = {Of(v)' : v \in {v \in Work : work'[v].token # NoToken}}
  BY DEF Runs
<1>9. \A v : Of(v).work = v
  OBVIOUS
<1>10. NamedInv'
  BY <1>1 DEF NamedInv
<1> HIDE DEF Of
<1>11. Runs' = Runs \cup {Of(w)'}
  BY <1>4, <1>5, <1>6, <1>7, <1>8
<1>12. \A r \in Runs : r.work # w
  BY <1>6, <1>7, <1>9
<1> QED
  BY <1>3, <1>10, <1>11, <1>12

PromptOf(e) == [token |-> e.token, wish |-> WishOf(e)]

LEMMA PromptsAre ==
    ASSUME TypeOK
    PROVE  Prompts = {PromptOf(held[i]) : i \in 1 .. Len(held)}
<1>1. DOMAIN held = 1 .. Len(held)
  BY DEF TypeOK
<1> QED
  BY <1>1, Zenon DEF Prompts, PromptOf

LEMMA PromptsWillBe ==
    ASSUME TypeOK'
    PROVE  Prompts' = {PromptOf(held'[i]) : i \in 1 .. Len(held')}
<1>1. DOMAIN held' = 1 .. Len(held')
  BY DEF TypeOK
<1> QED
  BY <1>1, Zenon DEF Prompts, PromptOf

LEMMA PromptsQuiet ==
    ASSUME TypeOK, TypeOK', Len(held') = Len(held),
           \A i \in 1 .. Len(held) : PromptOf(held'[i]) = PromptOf(held[i])
    PROVE  UNCHANGED Prompts
<1>1. Prompts = {PromptOf(held[i]) : i \in 1 .. Len(held)}
  BY PromptsAre
<1>2. Prompts' = {PromptOf(held'[i]) : i \in 1 .. Len(held')}
  BY PromptsWillBe
<1> HIDE DEF PromptOf
<1> QED
  BY <1>1, <1>2

\* A step that asks for nothing, answers nothing and starts nothing that was held.
LEMMA Unheard ==
    ASSUME UNCHANGED told, UNCHANGED Prompts, UNCHANGED Runs
    PROVE  UNCHANGED Approval!avars
BY DEF Approval!avars

\* A new prompt.
LEMMA HoldsAsks ==
    ASSUME TypeOK, TypeOK', TokenInv, NEW a \in Agents, NEW text \in Texts, Holds(a, text),
           UNCHANGED Runs
    PROVE  Approval!Next
<1> DEFINE n == tokens + 1
           e == [token |-> n, agent |-> a, text |-> text]
           wish == [agent |-> a, task |-> text.task]
<1>1. n \in Tokens /\ told[n] = "nothing"
  <2>1. n \in Tokens /\ tokens \in Nat
    BY GateAssumption DEF TypeOK, Holds, Tokens
  <2> QED
    BY <2>1 DEF TokenInv
<1>2. wish \in Approval!Wishes
  BY DEF Approval!Wishes, Texts
<1>3. /\ Len(held') = Len(held) + 1 /\ held'[Len(held) + 1] = e /\ Len(held) \in Nat
      /\ \A i \in 1 .. Len(held) : held'[i] = held[i]
  BY DEF Holds, TypeOK
<1>4. Prompts' = {PromptOf(held'[i]) : i \in 1 .. Len(held')}
  BY PromptsWillBe
<1>5. PromptOf(e) = [token |-> n, wish |-> wish]
  BY DEF PromptOf, WishOf
<1>6. Prompts' = Prompts \cup {[token |-> n, wish |-> wish]}
  <2> HIDE DEF PromptOf, e, wish, n
  <2>1. 1 .. Len(held') = (1 .. Len(held)) \cup {Len(held) + 1}
    BY <1>3
  <2> QED
    BY <1>3, <1>4, <1>5, <2>1, PromptsAre
<1>7. told' = [told EXCEPT ![n] = "held"]
  BY DEF Holds
<1> QED
  BY <1>1, <1>2, <1>6, <1>7 DEF Approval!Next, Approval!Ask

\* An answer.
LEMMA ResolveHeard ==
    ASSUME TypeOK, TypeOK', TokenInv, NamedInv, NEW i \in 1 .. Len(held),
           NEW decision \in Decisions, Resolve(i, decision)
    PROVE  Approval!Next /\ NamedInv'
<1> DEFINE e == held[i]
           p == PromptOf(e)
           at(m) == IF m < i THEN m ELSE m + 1
<1>1. e \in Entries /\ e.token \in Tokens /\ p.token = e.token /\ p.wish = WishOf(e)
  <2>1. held[i] \in Entries
    BY DEF TypeOK
  <2> QED
    BY <2>1 DEF Entries, PromptOf
<1>2. told[p.token] = "held" /\ told' = [told EXCEPT ![p.token] = decision]
  BY <1>1 DEF TokenInv, Resolve
<1>3. p \in Prompts
  BY PromptsAre
<1>4. Prompts' = Prompts \ {p}
  <2>1. Len(held) \in Nat /\ i \in Nat /\ i >= 1 /\ i <= Len(held)
    BY TokenTypes
  <2>2. /\ Len(held') = Len(held) - 1
        /\ \A m \in 1 .. Len(held) - 1 : held'[m] = held[at(m)]
    BY PoppedFacts DEF Resolve
  <2>3. \A m \in 1 .. Len(held) - 1 : at(m) \in 1 .. Len(held) /\ at(m) # i
    BY <2>1
  <2>4. \A m \in 1 .. Len(held) : m # i => \E l \in 1 .. Len(held) - 1 : at(l) = m
    <3> SUFFICES ASSUME NEW m \in 1 .. Len(held), m # i
                 PROVE  \E l \in 1 .. Len(held) - 1 : at(l) = m
      OBVIOUS
    <3>1. CASE m < i
      BY <2>1, <3>1
    <3>2. CASE m > i
      <4>1. m - 1 \in 1 .. Len(held) - 1 /\ at(m - 1) = m
        BY <2>1, <3>2
      <4> QED
        BY <4>1
    <3> QED
      BY <2>1, <3>1, <3>2
  <2>5. \A m \in 1 .. Len(held) : m # i => PromptOf(held[m]) # p
    BY <1>1 DEF TokenInv, PromptOf
  <2>6. Prompts' = {PromptOf(held'[m]) : m \in 1 .. Len(held')}
    BY PromptsWillBe
  <2>7. Prompts = {PromptOf(held[m]) : m \in 1 .. Len(held)}
    BY PromptsAre
  <2> HIDE DEF PromptOf, at
  <2>8. Prompts' = {PromptOf(held[at(m)]) : m \in 1 .. Len(held) - 1}
    BY <2>2, <2>6
  <2> QED
    BY <2>3, <2>4, <2>5, <2>7, <2>8
<1>5. CASE UNCHANGED work
  <2>1. UNCHANGED Runs /\ NamedInv'
    BY <1>5, SameWorkRuns
  <2> HIDE DEF p
  <2>2. Approval!Approve(p) \/ Approval!Deny(p)
    BY <1>2, <1>4, <2>1 DEF Approval!Approve, Approval!Deny, Approval!Resolve, Decisions
  <2> QED
    BY <1>3, <2>1, <2>2 DEF Approval!Next
<1>6. ASSUME decision = "approve", NEW w \in Work, Admits(w), work'[w].named,
             work'[w].token = e.token, work'[w].agent = e.agent, work'[w].text = e.text
      PROVE  Approval!Next /\ NamedInv'
  <2> HIDE DEF e
  <2>1. /\ Runs' = Runs \cup {[token |-> e.token, work |-> w, wish |-> WishOf(e)]}
        /\ \A r \in Runs : r.work # w
        /\ NamedInv'
    BY <1>1, <1>6, ApprovedRuns
  <2>2. Runs' = Runs \cup {[token |-> p.token, work |-> w, wish |-> p.wish]}
    BY <1>1, <2>1
  <2> HIDE DEF p
  <2>3. Approval!Approve(p)
    BY <1>2, <1>4, <1>6, <2>1, <2>2 DEF Approval!Approve, Approval!Resolve
  <2> QED
    BY <1>3, <2>1, <2>3 DEF Approval!Next
<1> QED
  BY <1>5, <1>6, ResolveMoves

LEMMA ApprovalInit == Init => NamedInv /\ Approval!Init
<1> SUFFICES ASSUME Init PROVE NamedInv /\ Approval!Init
  OBVIOUS
<1>1. NamedInv /\ Runs = {}
  BY NowhereFacts DEF Init, NamedInv, Runs
<1>2. Prompts = {}
  BY DEF Init, Prompts
<1> QED
  BY <1>1, <1>2 DEF Init, Approval!Init

LEMMA ApprovalStep ==
    ASSUME TypeOK, TypeOK', TokenInv, NamedInv, [Next]_vars
    PROVE  NamedInv' /\ [Approval!Next]_(Approval!avars)
<1> DEFINE Kept == NamedInv' /\ [Approval!Next]_(Approval!avars)
<1>1. ASSUME NEW a \in Agents, NEW t \in Tasks, Hold(a, t) PROVE Kept
  BY <1>1, SameWorkRuns, HoldsAsks, FreshFacts DEF Hold
<1>2. ASSUME UNCHANGED <<told, held>>, UNCHANGED Runs, NamedInv' PROVE Kept
  <2>1. UNCHANGED Prompts
    BY <1>2 DEF Prompts
  <2> QED
    BY <1>2, <2>1, Unheard
<1>3. ASSUME NEW a \in Agents, NEW t \in Tasks, NEW b \in BOOLEAN, Delegate(a, t, b)
      PROVE  Kept
  BY <1>2, <1>3, DelegateMoves, AdmitsRuns DEF Delegate
<1>4. ASSUME NEW a \in Agents, NEW t \in Tasks, NEW b \in BOOLEAN,
             NEW status \in {"active", "ending"}, DelegateDirectly(a, t, status, b)
      PROVE  Kept
  BY <1>2, <1>4, DirectMoves, AdmitsRuns DEF DelegateDirectly
<1>5. ASSUME NEW d \in Decisions, SpokenAnswer(d) PROVE Kept
  BY <1>5, NewestIsThere, ResolveHeard DEF SpokenAnswer
<1>6. ASSUME NEW d \in Decisions, NEW k \in Tokens, Click(k, d) PROVE Kept
  BY <1>2, <1>6, SameWorkRuns DEF Click
<1>7. ASSUME NEW d \in Decisions, NEW k \in Tokens, ClickRuns(k, d) PROVE Kept
  <2>1. CASE UNCHANGED <<held, tokens, told, work, streak>>
    <3>1. UNCHANGED Runs /\ NamedInv'
      BY <2>1, SameWorkRuns
    <3> QED
      BY <1>2, <2>1, <3>1
  <2>2. ASSUME NEW i \in 1 .. Len(held), Resolve(i, d) PROVE Kept
    BY <2>2, ResolveHeard
  <2>3. Answers(k, d)
    BY <1>7 DEF ClickRuns
  <2> QED
    BY <2>1, <2>2, <2>3, AnswersCases
<1>8. CASE Revise
  <2> DEFINE h == [held EXCEPT ![Len(held)] = Revised(held[Len(held)])]
  <2>1. held # <<>> /\ held' = h
    BY <1>8, Zenon DEF Revise
  <2>2. /\ Len(h) = Len(held)
        /\ \A i \in 1 .. Len(held) : /\ h[i].token = held[i].token
                                     /\ h[i].agent = held[i].agent
                                     /\ h[i].text.task = held[i].text.task
    BY <2>1, RevisedFacts, Zenon
  <2> HIDE DEF h
  <2>3. Len(held') = Len(held) /\ \A i \in 1 .. Len(held) : PromptOf(held'[i]) = PromptOf(held[i])
    BY <2>1, <2>2 DEF PromptOf, WishOf
  <2>4. UNCHANGED Prompts
    BY <2>3, PromptsQuiet
  <2>5. UNCHANGED told /\ UNCHANGED work
    BY <1>8, Zenon DEF Revise
  <2>6. UNCHANGED Runs /\ NamedInv'
    BY <2>5, SameWorkRuns, Zenon
  <2> QED
    BY <2>4, <2>5, <2>6, Unheard
<1>9. ASSUME NEW w \in Work, Arrives(w) PROVE Kept
  BY <1>2, <1>9, ArrivesMoves, MovesRuns DEF Arrives
<1>10. ASSUME NEW w \in Work, Replace(w) PROVE Kept
  BY <1>2, <1>10, ReplaceRuns DEF Replace
<1>11. ASSUME NEW w \in Work, NEW status \in {"active", "ending"}, Restarts(w, status)
       PROVE  Kept
  BY <1>2, <1>11, RestartsMoves, MovesRuns DEF Restarts
<1>12. ASSUME NEW w \in Work, NEW how \in {"asking", "ending"}, JobEnds(w, how) PROVE Kept
  BY <1>2, <1>12, JobEndsMoves, MovesRuns DEF JobEnds
<1>13. ASSUME NEW w \in Work, AnnounceEnd(w) PROVE Kept
  BY <1>2, <1>13, AnnounceEndMoves, MovesRuns DEF AnnounceEnd
<1>14. ASSUME NEW w \in Work, AnnounceRequest(w) PROVE Kept
  <2>1. UNCHANGED Runs /\ NamedInv'
    BY <1>14, AnnounceRequestMoves, MovesRuns
  <2>2. CASE UNCHANGED <<held, tokens, told>>
    BY <1>2, <2>1, <2>2
  <2>3. CASE Holds(work[w].agent, Noted(work[w].agent, work[w].text))
    <3>1. work[w] \in Dispatches
      BY <1>14, MadeIsDispatch DEF AnnounceRequest
    <3>2. work[w].agent \in Agents /\ Noted(work[w].agent, work[w].text) \in Texts
      BY <3>1, NotedFacts DEF Dispatches
    <3> QED
      BY <2>1, <2>3, <3>2, HoldsAsks
  <2> QED
    BY <1>14, <2>2, <2>3 DEF AnnounceRequest
<1>15. ASSUME NEW w \in Work, NEW a \in Agents, Consults(w, a) PROVE Kept
  BY <1>2, <1>15, ConsultsJoins, JoinsRuns DEF Consults, Unasked
<1>16. ASSUME NEW w \in Work, Presents(w) PROVE Kept
  BY <1>2, <1>16, PresentsJoins, JoinsRuns DEF Presents, Unasked
<1>17. CASE UNCHANGED vars
  BY <1>2, <1>17, SameWorkRuns DEF vars
<1> QED
  BY <1>1, <1>3, <1>4, <1>5, <1>6, <1>7, <1>8, <1>9, <1>10, <1>11, <1>12, <1>13, <1>14, <1>15,
     <1>16, <1>17 DEF Next

\* Each prompt is decided once; what starts in its name starts with the approval,
\* once, and is what the prompt asked for (session.py:1450-1487 and 1721-1754).
THEOREM GateKeepsApproval == Spec => KeepsApproval
<1>1. Init => TypeOK /\ TokenInv /\ NamedInv /\ Approval!Init
  BY TypeInit, TokenInit, ApprovalInit
<1>2. TypeOK /\ [Next]_vars => TypeOK'
  BY TypeStep
<1>3. TypeOK /\ TokenInv /\ [Next]_vars => TokenInv'
  BY TokenStep
<1>4. TypeOK /\ TypeOK' /\ TokenInv /\ NamedInv /\ [Next]_vars
        => NamedInv' /\ [Approval!Next]_(Approval!avars)
  BY ApprovalStep
<1> QED
  BY <1>1, <1>2, <1>3, <1>4, PTL DEF Spec, KeepsApproval, Approval!Spec
=============================================================================
