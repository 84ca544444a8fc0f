--------------------------- MODULE RecommendProofs ---------------------------
(***************************************************************************)
(* Proofs about Recommend for any number of requests and connections.      *)
(***************************************************************************)
EXTENDS Recommend, FiniteSetTheorems, TLAPS

-----------------------------------------------------------------------------
(* The invariant *)

\* A request has been asked and is answered in its time ...
Asked(r) ==
    /\ wanted[r] = None <=> pc[r] = "idle"
    /\ answer[r] = None <=> pc[r] # "done"

\* ... has results that the engine chosen for it can give ...
Provenance(r) ==
    /\ pc[r] \in {"idle", "token", "translate", "match"} => from[r] = "nothing"
    /\ pc[r] = "prompt" => Engine(r) = "hybrid"
    /\ pc[r] = "ask" => Engine(r) \in {"llm", "hybrid"}
    /\ from[r] = "classical" => Engine(r) # "llm"
    /\ from[r] \in {"llm", "hybrid"} => Engine(r) = from[r]

\* ... and uses connections only where the handler does.
Connected(r) ==
    /\ r \in own => pc[r] \notin {"idle", "done"}
    /\ r \in extra => pc[r] \in Calls

Flow == \A r \in Requests : Asked(r) /\ Provenance(r) /\ Connected(r)

IInv == TypeOK /\ Flow

LEMMA NoneIsNoMode == None \notin Modes
  BY ModesAssumption

LEMMA EngineType == ASSUME TypeOK, NEW r \in Requests, wanted[r] # None
                    PROVE  Engine(r) \in {"classical", "llm", "hybrid"}
  BY ModesAssumption DEF TypeOK, Engine

LEMMA InitInv == Init => IInv
  <1> SUFFICES ASSUME Init PROVE IInv
    OBVIOUS
  <1>1. TypeOK
    BY FlipsAssumption DEF Init, TypeOK, Steps, Calls, Service!Sources
  <1>2. Flow
    BY DEF Init, Flow, Asked, Provenance, Connected
  <1> QED BY <1>1, <1>2 DEF IInv

-----------------------------------------------------------------------------
(* Steps *)

\* What a step of r does not touch of another request.
Keeps(q) ==
    /\ pc'[q] = pc[q] /\ wanted'[q] = wanted[q] /\ live'[q] = live[q] /\ from'[q] = from[q]
    /\ answer'[q] = answer[q]
    /\ (q \in own' <=> q \in own) /\ (q \in extra' <=> q \in extra)

Only(r) == \A q \in Requests \ {r} : Keeps(q)

\* It is enough to look at the request that takes a step.
LEMMA OneStep ==
    ASSUME IInv, TypeOK', NEW r \in Requests, Only(r), Asked(r)', Provenance(r)', Connected(r)'
    PROVE  IInv'
  <1>1. ASSUME NEW q \in Requests \ {r} PROVE Asked(q)' /\ Provenance(q)' /\ Connected(q)'
    <2>1. Asked(q) /\ Provenance(q) /\ Connected(q) /\ Keeps(q)
      BY DEF IInv, Flow, Only
    <2>2. Asked(q)' /\ Connected(q)'
      BY <2>1 DEF Asked, Connected, Keeps
    <2>3. Engine(q)' = Engine(q)
      BY <2>1 DEF Engine, Keeps
    <2>4. Provenance(q)'
      BY <2>1, <2>3 DEF Provenance, Keeps
    <2> QED BY <2>2, <2>4
  <1>2. Flow'
    BY <1>1 DEF Flow
  <1> QED BY <1>2 DEF IInv

LEMMA FailInv ==
    ASSUME IInv, NEW r \in Requests, pc[r] # "idle", NEW c \in Service!Codes, Fail(r, c),
           refused' = refused
    PROVE  IInv'
  <1> USE DEF IInv, TypeOK
  <1>1. [code |-> c] \in Service!Answers
    BY DEF Service!Answers, Service!Refusals
  <1>2. TypeOK'
    BY <1>1 DEF Fail, Steps, job, session
  <1>3. Only(r)
    BY DEF Fail, Only, Keeps, job
  <1>4. pc'[r] = "done" /\ answer'[r] = [code |-> c] /\ r \notin own' /\ r \notin extra'
        /\ UNCHANGED <<wanted, live, from>>
    BY DEF Fail, job
  <1>5. Asked(r) /\ Provenance(r)
    BY DEF Flow
  <1>6. Asked(r)' /\ Connected(r)'
    BY <1>1, <1>4, <1>5, AnswerAssumption DEF Asked, Connected
  <1>7. Provenance(r)'
    BY <1>4, <1>5 DEF Provenance, Engine
  <1> QED BY <1>2, <1>3, <1>6, <1>7, OneStep

LEMMA CodeType == ASSUME NEW r \in Requests PROVE CodeOf(r) \in Service!Codes
  BY DEF CodeOf, Service!Codes

\* A step that ends a call of the catalogue and changes nothing else but the place.
LEMMA CallInv ==
    ASSUME IInv, NEW r \in Requests, NEW s \in Steps, pc[r] \notin {"idle", "done"},
           CheckIn(r), pc' = [pc EXCEPT ![r] = s],
           UNCHANGED <<ollama, flips, job, session, answer, stored, refused>>,
           s \notin {"idle", "done"}, s \in {"token", "translate", "match"} => from[r] = "nothing",
           s = "prompt" => Engine(r) = "hybrid", s = "ask" => Engine(r) \in {"llm", "hybrid"}
    PROVE  IInv'
  <1> USE DEF IInv, TypeOK
  <1>1. TypeOK'
    BY DEF CheckIn, job, session
  <1>2. Only(r)
    BY DEF CheckIn, Only, Keeps, job
  <1>3. pc'[r] = s /\ r \notin extra' /\ UNCHANGED <<wanted, live, from, answer>>
    BY DEF CheckIn, job
  <1>4. Asked(r) /\ Provenance(r) /\ Connected(r)
    BY DEF Flow
  <1>5. Asked(r)' /\ Connected(r)'
    BY <1>3, <1>4 DEF Asked, Connected
  <1>6. Engine(r)' = Engine(r)
    BY <1>3 DEF Engine
  <1>7. Provenance(r)'
    BY <1>3, <1>4, <1>6 DEF Provenance
  <1> QED BY <1>1, <1>2, <1>5, <1>7, OneStep

\* A step outside of the catalogue that goes on to a statement after the engine's.
LEMMA OnwardInv ==
    ASSUME IInv, NEW r \in Requests, NEW s \in {"persist", "explain", "items", "commit"},
           pc[r] \notin {"idle", "done"}, r \notin extra,
           pc' = [pc EXCEPT ![r] = s],
           UNCHANGED <<ollama, flips, caller, wanted, live, own, extra, answer, stored>>,
           written' \in SUBSET Requests, spoilt' \in [Requests -> {"no", "aborted", "broken"}],
           refused' \in SUBSET Requests,
           from' = from \/ (from' = [from EXCEPT ![r] = Engine(r)]
                            /\ Engine(r) \in {"llm", "hybrid"})
    PROVE  IInv'
  <1> USE DEF IInv, TypeOK
  <1>0. from' \in [Requests -> Service!Sources]
    BY DEF Service!Sources
  <1>1. TypeOK'
    BY <1>0 DEF Steps, Calls
  <1>2. Only(r)
    BY DEF Only, Keeps
  <1>3. pc'[r] = s /\ UNCHANGED <<wanted, live, answer, own, extra>>
    OBVIOUS
  <1>4. Asked(r) /\ Provenance(r) /\ Connected(r)
    BY DEF Flow
  <1>5. Asked(r)' /\ Connected(r)'
    BY <1>3, <1>4 DEF Asked, Connected
  <1>6. Engine(r)' = Engine(r)
    BY <1>3 DEF Engine
  <1>7. Provenance(r)'
    BY <1>3, <1>4, <1>6 DEF Provenance
  <1> QED BY <1>1, <1>2, <1>5, <1>7, OneStep

LEMMA BeginInv == ASSUME IInv, NEW r \in Requests, Begin(r) PROVE IInv'
  <1> USE DEF IInv, TypeOK
  <1>1. PICK c \in Callers, m \in Modes :
          /\ caller' = [caller EXCEPT ![r] = c]
          /\ wanted' = [wanted EXCEPT ![r] = m]
          /\ IF c = "guest"
             THEN pc' = [pc EXCEPT ![r] = "translate"] /\ live' = [live EXCEPT ![r] = ollama]
             ELSE pc' = [pc EXCEPT ![r] = "token"] /\ UNCHANGED live
    BY DEF Begin
  <1>2. /\ pc[r] = "idle" /\ UNCHANGED <<ollama, flips, from, answer, stored, refused>>
        /\ UNCHANGED <<written, spoilt, own, extra>>
    BY DEF Begin, session, pool
  <1>3. TypeOK'
    BY <1>1, <1>2 DEF Steps, Calls
  <1>4. Only(r)
    BY <1>1, <1>2 DEF Only, Keeps
  <1>5. pc'[r] \in {"token", "translate"} /\ wanted'[r] # None
    BY <1>1, NoneIsNoMode
  <1>6. Asked(r) /\ Provenance(r) /\ Connected(r)
    BY DEF Flow
  <1>7. Asked(r)' /\ Connected(r)'
    BY <1>2, <1>5, <1>6 DEF Asked, Connected, Calls
  <1>8. Provenance(r)'
    BY <1>2, <1>5, <1>6 DEF Provenance
  <1> QED BY <1>3, <1>4, <1>7, <1>8, OneStep

LEMMA CheckOutInv == ASSUME IInv, NEW r \in Requests, CheckOut(r) PROVE IInv'
  <1> USE DEF IInv, TypeOK
  <1>1. UNCHANGED <<ollama, flips, pc, caller, wanted, live, from, written, spoilt,
                    answer, stored, refused>>
    BY DEF CheckOut, job, session
  <1>2. \/ pc[r] \in Calls /\ extra' = extra \cup {r} /\ own' = own
        \/ pc[r] \in {"token", "persist"} /\ own' = own \cup {r} /\ extra' = extra
    BY DEF CheckOut, NeedsExtra, NeedsOwn
  <1>3. TypeOK' /\ Only(r)
    BY <1>1, <1>2 DEF Only, Keeps
  <1>4. Asked(r) /\ Provenance(r) /\ Connected(r)
    BY DEF Flow
  <1>5. Asked(r)' /\ Connected(r)'
    BY <1>1, <1>2, <1>4 DEF Asked, Connected, Calls
  <1>6. Provenance(r)'
    BY <1>1, <1>4 DEF Provenance, Engine
  <1> QED BY <1>3, <1>5, <1>6, OneStep

LEMMA CheckTokenInv == ASSUME IInv, NEW r \in Requests, CheckToken(r) PROVE IInv'
  <1> USE DEF IInv, TypeOK
  <1>1. /\ pc[r] = "token" /\ pc' = [pc EXCEPT ![r] = "translate"]
        /\ live' = [live EXCEPT ![r] = ollama]
        /\ UNCHANGED <<ollama, flips, caller, wanted, from, written, spoilt, own, extra,
                       answer, stored, refused>>
    BY DEF CheckToken, session, pool
  <1>2. TypeOK' /\ Only(r)
    BY <1>1 DEF Steps, Calls, Only, Keeps
  <1>3. Asked(r) /\ Provenance(r) /\ Connected(r)
    BY DEF Flow
  <1>4. Asked(r)' /\ Connected(r)'
    BY <1>1, <1>3 DEF Asked, Connected, Calls
  <1>5. Provenance(r)'
    BY <1>1, <1>3 DEF Provenance
  <1> QED BY <1>2, <1>4, <1>5, OneStep

LEMMA MatchInv == ASSUME IInv, NEW r \in Requests, Match(r) PROVE IInv'
  <1> USE DEF IInv, TypeOK
  <1>1. /\ pc[r] = "match" /\ extra' = extra \ {r}
        /\ UNCHANGED <<ollama, flips, caller, wanted, live, written, spoilt, own,
                       answer, stored, refused>>
    BY DEF Match, CheckIn, session
  <1>2. Asked(r) /\ Provenance(r) /\ Connected(r)
    BY DEF Flow
  <1>3. Engine(r) \in {"classical", "llm", "hybrid"}
    BY <1>1, <1>2, EngineType DEF Asked
  <1>4. \/ pc' = [pc EXCEPT ![r] = "persist"] /\ from' = from
        \/ /\ Engine(r) # "llm" /\ from' = [from EXCEPT ![r] = "classical"]
           /\ \/ Engine(r) = "hybrid" /\ pc' = [pc EXCEPT ![r] = "prompt"]
              \/ pc' = [pc EXCEPT ![r] = "persist"]
        \/ Engine(r) = "llm" /\ pc' = [pc EXCEPT ![r] = "ask"] /\ from' = from
    BY DEF Match
  <1>5. TypeOK'
    BY <1>1, <1>4 DEF Steps, Calls, Service!Sources
  <1>6. Only(r)
    BY <1>1, <1>4 DEF Only, Keeps
  <1>7. Asked(r)' /\ Connected(r)'
    BY <1>1, <1>2, <1>4 DEF Asked, Connected
  <1>8. Engine(r)' = Engine(r)
    BY <1>1 DEF Engine
  <1>9. Provenance(r)'
    BY <1>1, <1>2, <1>4, <1>8 DEF Provenance
  <1> QED BY <1>5, <1>6, <1>7, <1>9, OneStep

LEMMA CommitInv == ASSUME IInv, NEW r \in Requests, Commit(r) PROVE IInv'
  <1> USE DEF IInv, TypeOK
  <1>1. /\ pc[r] = "commit" /\ pc' = [pc EXCEPT ![r] = "done"]
        /\ answer' = [answer EXCEPT ![r] = Response(r)]
        /\ own' = own \ {r} /\ stored' = stored \cup (written \cap {r})
        /\ UNCHANGED <<ollama, flips, caller, wanted, live, from, written, spoilt, extra, refused>>
    BY DEF Commit, job, session
  <1>2. Asked(r) /\ Provenance(r) /\ Connected(r)
    BY DEF Flow
  <1>3. Response(r) \in Service!Answers
    <2>1. wanted[r] \in {"classical", "llm", "hybrid"}
      BY <1>1, <1>2, ModesAssumption DEF Asked
    <2>2. Label(r) \in Service!Labels
      BY <2>1 DEF Label, Service!Labels
    <2>3. (r \in written) \in BOOLEAN /\ from[r] \in Service!Sources /\ live[r] \in BOOLEAN
      OBVIOUS
    <2> QED BY <2>2, <2>3 DEF Response, Service!Answers, Service!Recommendations
  <1>4. TypeOK' /\ Only(r)
    BY <1>1, <1>3 DEF Steps, Only, Keeps
  <1>5. r \notin own' /\ r \notin extra'
    BY <1>1, <1>2 DEF Connected, Calls
  <1>6. Asked(r)' /\ Connected(r)'
    BY <1>1, <1>2, <1>3, <1>5, AnswerAssumption DEF Asked, Connected
  <1>7. Provenance(r)'
    BY <1>1, <1>2 DEF Provenance, Engine
  <1> QED BY <1>4, <1>6, <1>7, OneStep

LEMMA StepInv == ASSUME IInv, NEW r \in Requests, Step(r) PROVE IInv'
  <1>a. Asked(r) /\ Provenance(r) /\ Connected(r) /\ TypeOK
    BY DEF IInv, Flow
  <1>1. CASE CheckOut(r) \/ CheckToken(r) \/ Match(r) \/ Commit(r)
    BY <1>1, CheckOutInv, CheckTokenInv, MatchInv, CommitInv
  <1>2. CASE GiveUp(r) \/ Raise(r) \/ AskFails(r)
    <2>1. pc[r] # "idle"
      BY <1>a, <1>2 DEF GiveUp, Raise, AskFails, NeedsExtra, NeedsOwn, Connected, Calls
    <2>2. Fail(r, CodeOf(r)) /\ refused' = refused
      BY <1>2 DEF GiveUp, Raise, AskFails
    <2> QED BY <2>1, <2>2, CodeType, FailInv
  <1>3. CASE CommitFails(r)
    BY <1>3, FailInv DEF CommitFails, Service!Codes
  <1>4. CASE Translate(r)
    <2>1. /\ pc[r] = "translate" /\ CheckIn(r) /\ pc' = [pc EXCEPT ![r] = "match"]
          /\ UNCHANGED <<ollama, flips, job, session, answer, stored, refused>>
      BY <1>4 DEF Translate
    <2>2. "match" \in Steps
      BY DEF Steps, Calls
    <2> QED BY <1>a, <2>1, <2>2, CallInv DEF Provenance
  <1>5. CASE Prompt(r)
    <2>1. /\ pc[r] = "prompt" /\ CheckIn(r) /\ pc' = [pc EXCEPT ![r] = "ask"]
          /\ UNCHANGED <<ollama, flips, job, session, answer, stored, refused>>
      BY <1>5 DEF Prompt
    <2>2. "ask" \in Steps
      BY DEF Steps, Calls
    <2> QED BY <1>a, <2>1, <2>2, CallInv DEF Provenance
  <1>6. CASE Explain(r)
    <2>1. /\ pc[r] = "explain" /\ CheckIn(r) /\ pc' = [pc EXCEPT ![r] = "items"]
          /\ UNCHANGED <<ollama, flips, job, session, answer, stored, refused>>
      BY <1>6 DEF Explain
    <2>2. "items" \in Steps
      BY DEF Steps, Calls
    <2> QED BY <1>a, <2>1, <2>2, CallInv
  <1>7. CASE ListProducts(r)
    <2>1. /\ pc[r] = "items" /\ CheckIn(r) /\ pc' = [pc EXCEPT ![r] = "commit"]
          /\ UNCHANGED <<ollama, flips, job, session, answer, stored, refused>>
      BY <1>7 DEF ListProducts
    <2>2. "commit" \in Steps
      BY DEF Steps, Calls
    <2> QED BY <1>a, <2>1, <2>2, CallInv
  <1>8. CASE AskNobody(r) \/ AskInVain(r) \/ Ask(r)
    <2>1. /\ pc[r] = "ask" /\ pc' = [pc EXCEPT ![r] = "persist"]
          /\ UNCHANGED <<ollama, flips, caller, wanted, live, written, spoilt, own, extra>>
          /\ UNCHANGED <<answer, stored>>
          /\ refused' \in SUBSET Requests
          /\ from' = from \/ from' = [from EXCEPT ![r] = Engine(r)]
      BY <1>8, <1>a DEF AskNobody, AskInVain, Ask, job, session, pool, TypeOK
    <2>2. r \notin extra /\ Engine(r) \in {"llm", "hybrid"}
      BY <1>a, <2>1 DEF Connected, Calls, Provenance
    <2> QED BY <1>a, <2>1, <2>2, OnwardInv DEF TypeOK
  <1>9. CASE Persist(r) \/ FindCompanyFails(r) \/ (PersistFails(r) /\ caller[r] # "user")
    <2>1. /\ pc[r] = "persist" /\ pc' = [pc EXCEPT ![r] = AfterPersist(r)]
          /\ UNCHANGED <<ollama, flips, caller, wanted, live, from, own, extra>>
          /\ UNCHANGED <<answer, stored, refused>>
          /\ written' \in SUBSET Requests
          /\ spoilt' \in [Requests -> {"no", "aborted", "broken"}]
      BY <1>9, <1>a DEF Persist, FindCompanyFails, PersistFails, job, pool, TypeOK
    <2>2. AfterPersist(r) \in {"explain", "items", "commit"} /\ r \notin extra
      BY <1>a, <2>1 DEF AfterPersist, Connected, Calls
    <2> QED BY <1>a, <2>1, <2>2, OnwardInv DEF TypeOK
  <1>10. CASE PersistFails(r) /\ caller[r] = "user"
    BY <1>10, FailInv DEF PersistFails, Service!Codes
  <1> QED BY <1>1, <1>2, <1>3, <1>4, <1>5, <1>6, <1>7, <1>8, <1>9, <1>10 DEF Step

LEMMA NextInv == ASSUME IInv, [Next]_vars PROVE IInv'
  <1>1. CASE Flip
    <2>1. TypeOK'
      BY <1>1, FlipsAssumption DEF Flip, IInv, TypeOK, job, session, pool
    <2>2. Flow'
      BY <1>1 DEF Flip, IInv, Flow, Asked, Provenance, Connected, Engine, job, pool
    <2> QED BY <2>1, <2>2 DEF IInv
  <1>2. CASE UNCHANGED vars
    BY <1>2 DEF vars, IInv, TypeOK, Flow, Asked, Provenance, Connected, Engine, job, session, pool
  <1> QED BY <1>1, <1>2, BeginInv, StepInv DEF Next

LEMMA Invariance == Spec => []IInv
  BY InitInv, NextInv, PTL DEF Spec

-----------------------------------------------------------------------------
(* Theorems *)

\* Requests, sessions and the pool stay well formed under every failure.
THEOREM Typing == Spec => []TypeOK
  <1>1. IInv => TypeOK
    BY DEF IInv
  <1> QED BY Invariance, <1>1, PTL

\* Fewer requests than connections never bring each other to a standstill: if all
\* of them wait, none has a second connection, and each connection is the first
\* one of a request.
THEOREM CrowdsStarve == Spec => []OnlyCrowdsStarve
  <1>1. IInv => OnlyCrowdsStarve
    <2> SUFFICES ASSUME IInv, InUse >= PoolSize, \A r \in InFlight : Waiting(r)
                 PROVE  Cardinality(InFlight) >= PoolSize
      BY DEF OnlyCrowdsStarve
    <2> USE DEF IInv, TypeOK
    <2>1. own \subseteq InFlight /\ extra \subseteq InFlight
      BY DEF Flow, Connected, InFlight, Calls
    <2>2. extra = {}
      <3> SUFFICES ASSUME NEW r \in extra PROVE FALSE
        OBVIOUS
      <3>1. pc[r] \in Calls
        BY DEF Flow, Connected
      <3> QED BY <2>1, <3>1 DEF Waiting, NeedsExtra, NeedsOwn, Calls
    <2>3. IsFiniteSet(InFlight)
      BY RequestsAssumption, FS_Subset DEF InFlight
    <2>4. Cardinality(own) <= Cardinality(InFlight) /\ Cardinality(own) \in Nat
          /\ Cardinality(InFlight) \in Nat
      BY <2>1, <2>3, FS_Subset, FS_CardinalityType
    <2>5. InUse = Cardinality(own)
      BY <2>2, <2>4, FS_EmptySet DEF InUse
    <2> QED BY <2>4, <2>5, PoolAssumption
  <1> QED BY Invariance, <1>1, PTL

\* A 200 answer fits its request: the service allows it.
LEMMA CoherentResponse ==
    ASSUME IInv, NEW r \in Requests, pc[r] = "commit"
    PROVE  /\ Response(r) \in Service!Recommendations
           /\ Service!Coherent(wanted[r], Response(r))
  <1>1. Asked(r) /\ Provenance(r) /\ TypeOK
    BY DEF IInv, Flow
  <1>2. wanted[r] \in {"classical", "llm", "hybrid"} /\ live[r] \in BOOLEAN
        /\ from[r] \in Service!Sources
    BY <1>1, ModesAssumption DEF Asked, TypeOK
  <1>3. (r \in written) \in BOOLEAN
    OBVIOUS
  <1>4. Label(r) \in Service!Labels
    BY <1>2 DEF Label, Service!Labels
  <1>5. Response(r) \in Service!Recommendations
    BY <1>2, <1>3, <1>4 DEF Response, Service!Recommendations
  <1>a. /\ Response(r).label = Label(r) /\ Response(r).from = from[r]
        /\ Response(r).live <=> live[r]
    BY <1>2 DEF Response
  <1>6. CASE Engine(r) = "classical"
    <2>1. Label(r) = "classical_fallback" /\ (wanted[r] = "classical" \/ ~live[r])
      BY <1>6 DEF Label, Engine
    <2>2. from[r] \in {"classical", "nothing"}
      BY <1>1, <1>2, <1>6 DEF Provenance, Service!Sources
    <2> QED BY <1>5, <1>a, <2>1, <2>2 DEF Service!Coherent
  <1>7. CASE Engine(r) = "llm"
    <2>1. Label(r) = "llm" /\ wanted[r] = "llm" /\ live[r]
      BY <1>7 DEF Label, Engine
    <2>2. from[r] \in {"llm", "nothing"}
      BY <1>1, <1>2, <1>7 DEF Provenance, Service!Sources
    <2> QED BY <1>5, <1>a, <2>1, <2>2 DEF Service!Coherent
  <1>8. CASE Engine(r) = "hybrid"
    <2>1. Label(r) = "i3_llm_semantic" /\ wanted[r] = "hybrid" /\ live[r]
      BY <1>8 DEF Label, Engine
    <2>2. from[r] \in {"hybrid", "classical", "nothing"}
      BY <1>1, <1>2, <1>8 DEF Provenance, Service!Sources
    <2> QED BY <1>5, <1>a, <2>1, <2>2 DEF Service!Coherent
  <1>9. Engine(r) \in {"classical", "llm", "hybrid"}
    BY <1>2 DEF Engine
  <1> QED BY <1>5, <1>6, <1>7, <1>8, <1>9

\* However requests share the pool, fail and find or lose the LLM, the handler
\* implements the service: its answers are coherent, an answer and the row its id
\* names appear together, and a request that is refused leaves no row behind.
THEOREM ServiceKept == Spec => KeepsPromise
  <1>1. Init => Service!Init
    BY DEF Init, Service!Init
  <1>2. IInv /\ [Next]_vars => [Service!Next]_Service!vars
    <2> SUFFICES ASSUME IInv, [Next]_vars PROVE [Service!Next]_Service!vars
      OBVIOUS
    <2>1. ASSUME NEW r \in Requests, NEW c \in Service!Codes, Fail(r, c), pc[r] \notin {"idle", "done"}
          PROVE  Service!Refuse(r)
      <3>1. Asked(r)
        BY DEF IInv, Flow
      <3>2. wanted[r] # None /\ answer[r] = None
        BY <2>1, <3>1 DEF Asked
      <3>3. [code |-> c] \in Service!Refusals
        BY DEF Service!Refusals
      <3> QED BY <2>1, <3>2, <3>3 DEF Fail, job, Service!Refuse
    <2>2. ASSUME NEW r \in Requests, Begin(r) PROVE Service!Ask(r)
      <3>1. wanted[r] = None
        BY <2>2 DEF IInv, Flow, Asked, Begin
      <3> QED BY <2>2, <3>1 DEF Begin, Service!Ask
    <2>3. ASSUME NEW r \in Requests, Commit(r) PROVE Service!Recommend(r)
      <3>1. pc[r] = "commit"
        BY <2>3 DEF Commit
      <3>2. wanted[r] # None /\ answer[r] = None
        BY <3>1 DEF IInv, Flow, Asked
      <3>3. Response(r).id <=> r \in written
        BY DEF Response
      <3>4. /\ answer' = [answer EXCEPT ![r] = Response(r)] /\ wanted' = wanted
            /\ stored' = IF Response(r).id THEN stored \cup {r} ELSE stored
        BY <2>3, <3>3 DEF Commit, job
      <3> QED BY <3>1, <3>2, <3>4, CoherentResponse DEF Service!Recommend
    <2>4. ASSUME NEW r \in Requests, Step(r) PROVE [Service!Next]_Service!vars
      <3>a. Connected(r)
        BY DEF IInv, Flow
      <3>1. CASE Commit(r)
        BY <2>3, <3>1 DEF Service!Next
      <3>2. CASE GiveUp(r) \/ Raise(r) \/ AskFails(r)
        <4>1. Fail(r, CodeOf(r))
          BY <3>2 DEF GiveUp, Raise, AskFails
        <4>2. pc[r] \notin {"idle", "done"}
          BY <3>2, <3>a DEF GiveUp, Raise, AskFails, NeedsExtra, NeedsOwn, Connected, Calls
        <4> QED BY <4>1, <4>2, <2>1, CodeType DEF Service!Next
      <3>3. CASE CommitFails(r) \/ (PersistFails(r) /\ caller[r] = "user")
        <4>1. Fail(r, 500) /\ pc[r] \notin {"idle", "done"} /\ 500 \in Service!Codes
          BY <3>3 DEF CommitFails, PersistFails, Service!Codes
        <4> QED BY <4>1, <2>1 DEF Service!Next
      <3>4. CASE PersistFails(r) /\ caller[r] # "user"
        BY <3>4 DEF PersistFails, job, Service!vars
      <3>5. CASE \/ CheckOut(r) \/ CheckToken(r) \/ Translate(r) \/ Match(r) \/ Prompt(r)
                 \/ AskNobody(r) \/ AskInVain(r) \/ Ask(r) \/ Persist(r) \/ FindCompanyFails(r)
                 \/ Explain(r) \/ ListProducts(r)
        BY <3>5 DEF CheckOut, CheckToken, Translate, Match, Prompt, AskNobody, AskInVain, Ask,
           Persist, FindCompanyFails, Explain, ListProducts, job, Service!vars
      <3> QED BY <2>4, <3>1, <3>2, <3>3, <3>4, <3>5 DEF Step
    <2>5. CASE Flip \/ UNCHANGED vars
      BY <2>5 DEF Flip, vars, job, Service!vars
    <2> QED BY <2>2, <2>4, <2>5 DEF Next, Service!Next
  <1> QED BY Invariance, <1>1, <1>2, PTL DEF Spec, KeepsPromise, Service!Spec
=============================================================================
