------------------------------ MODULE Recommend ------------------------------
(***************************************************************************)
(* POST /api/recommend (api/routes/recommend.py), the engines it calls     *)
(* (src/matching) and the pool of database connections they share          *)
(* (api/database/connection.py).                                           *)
(*                                                                         *)
(* A request of a signed-in caller keeps one connection from the check of  *)
(* its token until its session is closed.  Meanwhile every call of the     *)
(* catalogue (PostgreSQLCatalogRepository) opens a session of its own,     *)
(* which takes a second connection of the same pool for the time of the    *)
(* call.  Who finds the pool empty waits, and gives up after 30 seconds.   *)
(* Ollama, the LLM server, comes and goes.                                 *)
(***************************************************************************)
EXTENDS Integers, FiniteSets

CONSTANTS
    Requests,
    PoolSize,  \* DB_POOL_SIZE + DB_MAX_OVERFLOW
    Callers,   \* among "guest", "user", "deleted" (a valid token, no such user)
    Modes,     \* among "classical", "llm", "hybrid"
    Faults,    \* {"error"}: a call of the database or of an engine may raise
    MaxFlips,  \* bound: how often Ollama comes or goes
    None

ASSUME RequestsAssumption == IsFiniteSet(Requests)
ASSUME PoolAssumption == PoolSize \in Nat \ {0}
ASSUME CallersAssumption == Callers \subseteq {"guest", "user", "deleted"}
ASSUME ModesAssumption == Modes \subseteq {"classical", "llm", "hybrid"} /\ None \notin Modes
ASSUME FlipsAssumption == MaxFlips \in Nat

VARIABLES
    ollama,   \* Ollama answers
    flips,
    pc,       \* pc[r]: the step of request r
    caller, wanted,  \* who asks, and for which pipeline
    live,     \* live[r]: what the probe at the start of r saw (ollama_live)
    from,     \* from[r]: the engine whose order the results of r have
    written,  \* requests that have added their recommendation to their session
    spoilt,   \* spoilt[r]: "aborted" by PostgreSQL, or "broken": deactivated by a failed flush
    own,      \* requests whose session has a connection
    extra,    \* requests in a call of the catalogue
    answer, stored,
    refused   \* history: requests whose LLM call found nobody listening

session == <<written, spoilt>>
job     == <<caller, wanted, live, from>>
pool    == <<own, extra>>
vars    == <<ollama, flips, pc, job, session, pool, answer, stored, refused>>

-----------------------------------------------------------------------------
Service == INSTANCE RecommendationService
    WITH Requests <- Requests, Modes <- Modes, None <- None,
         wanted <- wanted, answer <- answer, stored <- stored

ASSUME AnswerAssumption == None \notin Service!Answers

\* The steps that call the catalogue, and the others.
Calls == {"translate", "match", "prompt", "explain", "items"}
Steps == Calls \cup {"idle", "token", "ask", "persist", "commit", "done"}

TypeOK ==
    /\ ollama \in BOOLEAN /\ flips \in 0..MaxFlips
    /\ pc \in [Requests -> Steps]
    /\ caller \in [Requests -> Callers \cup {None}]
    /\ wanted \in [Requests -> Modes \cup {None}]
    /\ live \in [Requests -> BOOLEAN]
    /\ from \in [Requests -> Service!Sources]
    /\ written \in SUBSET Requests /\ spoilt \in [Requests -> {"no", "aborted", "broken"}]
    /\ own \in SUBSET Requests /\ extra \in SUBSET Requests
    /\ answer \in [Requests -> {None} \cup Service!Answers]
    /\ stored \in SUBSET Requests /\ refused \in SUBSET Requests

Init ==
    /\ ollama \in BOOLEAN /\ flips = 0
    /\ pc = [r \in Requests |-> "idle"]
    /\ caller = [r \in Requests |-> None] /\ wanted = [r \in Requests |-> None]
    /\ live = [r \in Requests |-> FALSE]
    /\ from = [r \in Requests |-> "nothing"]
    /\ written = {} /\ spoilt = [r \in Requests |-> "no"]
    /\ own = {} /\ extra = {}
    /\ answer = [r \in Requests |-> None] /\ stored = {} /\ refused = {}

-----------------------------------------------------------------------------
(* The pool *)

InUse == Cardinality(own) + Cardinality(extra)
InFlight == {r \in Requests : pc[r] \notin {"idle", "done"}}

\* A step that cannot be taken without a connection that r does not have.
NeedsExtra(r) == pc[r] \in Calls /\ r \notin extra
NeedsOwn(r) == pc[r] \in {"token", "persist"} /\ r \notin own

CheckOut(r) ==
    /\ InUse < PoolSize
    /\ \/ NeedsExtra(r) /\ extra' = extra \cup {r} /\ UNCHANGED own
       \/ NeedsOwn(r) /\ own' = own \cup {r} /\ UNCHANGED extra
    /\ UNCHANGED <<ollama, flips, pc, job, session, answer, stored, refused>>

\* Mutant of CheckIn: the session of the catalogue is not closed.
Forget(r) == UNCHANGED pool

\* The end of a call of the catalogue: "with self._session_factory() as db".
CheckIn(r) == extra' = extra \ {r} /\ UNCHANGED own

-----------------------------------------------------------------------------
(* How a request ends *)

\* Mutant of Fail: what was written before the exception is committed.
FailCommitted(r, code) ==
    /\ pc' = [pc EXCEPT ![r] = "done"]
    /\ answer' = [answer EXCEPT ![r] = [code |-> code]]
    /\ own' = own \ {r} /\ extra' = extra \ {r}
    /\ stored' = stored \cup (written \cap {r})
    /\ UNCHANGED <<ollama, flips, job, session>>

\* An exception leaves the handler: get_db rolls back and closes the session.
Fail(r, code) ==
    /\ pc' = [pc EXCEPT ![r] = "done"]
    /\ answer' = [answer EXCEPT ![r] = [code |-> code]]
    /\ own' = own \ {r} /\ extra' = extra \ {r}
    /\ UNCHANGED <<ollama, flips, job, session, stored>>

\* What the handler makes of an exception: the form is blamed for one in the
\* translation, the LLM for one in an engine, the fallback engine included.
CodeOf(r) ==
    CASE pc[r] = "translate" -> 422
      [] pc[r] \in {"match", "prompt", "ask"} /\ wanted[r] # "classical" -> 502
      [] OTHER -> 500

\* Mutant of GiveUp: pool_timeout is None.
WaitForEver(r) == FALSE

\* QueuePool's TimeoutError.  Only the one at "persist" is caught.
GiveUp(r) ==
    /\ InUse >= PoolSize
    /\ NeedsExtra(r) \/ (NeedsOwn(r) /\ pc[r] = "token")
    /\ Fail(r, CodeOf(r))
    /\ UNCHANGED refused

\* A query fails, the embeddings are missing, the form cannot be translated.
Raise(r) ==
    /\ "error" \in Faults
    /\ (pc[r] \in Calls /\ r \in extra) \/ (pc[r] = "token" /\ r \in own)
    /\ Fail(r, CodeOf(r))
    /\ UNCHANGED refused

-----------------------------------------------------------------------------
(* The handler *)

Begin(r) ==
    /\ pc[r] = "idle"
    /\ \E c \in Callers, m \in Modes :
        /\ caller' = [caller EXCEPT ![r] = c]
        /\ wanted' = [wanted EXCEPT ![r] = m]
        /\ IF c = "guest"
           THEN pc' = [pc EXCEPT ![r] = "translate"] /\ live' = [live EXCEPT ![r] = ollama]
           ELSE pc' = [pc EXCEPT ![r] = "token"] /\ UNCHANGED live
    /\ UNCHANGED <<ollama, flips, from, session, pool, answer, stored, refused>>

\* get_current_user_optional, then _ping_ollama.  The user's row is read in the
\* session's transaction, which stays open.
CheckToken(r) ==
    /\ pc[r] = "token" /\ r \in own
    /\ pc' = [pc EXCEPT ![r] = "translate"]
    /\ live' = [live EXCEPT ![r] = ollama]
    /\ UNCHANGED <<ollama, flips, caller, wanted, from, session, pool, answer, stored, refused>>

Translate(r) ==
    /\ pc[r] = "translate" /\ r \in extra
    /\ CheckIn(r)
    /\ pc' = [pc EXCEPT ![r] = "match"]
    /\ UNCHANGED <<ollama, flips, job, session, answer, stored, refused>>

Engine(r) == IF live[r] THEN wanted[r] ELSE "classical"

\* Mutant of Label: the name of the pipeline asked for.
PlainLabel(r) == wanted[r]

Label(r) == [classical |-> "classical_fallback", llm |-> "llm",
             hybrid |-> "i3_llm_semantic"][IF live[r] THEN wanted[r] ELSE "classical"]

\* The filters and, unless the engine is the LLM's, the classical ranking.
Match(r) ==
    /\ pc[r] = "match" /\ r \in extra
    /\ CheckIn(r)
    /\ \/ pc' = [pc EXCEPT ![r] = "persist"] /\ UNCHANGED from
       \/ /\ Engine(r) # "llm"
          /\ from' = [from EXCEPT ![r] = "classical"]
          /\ pc' = [pc EXCEPT ![r] = IF Engine(r) = "hybrid" THEN "prompt" ELSE "persist"]
       \/ /\ Engine(r) = "llm"
          /\ pc' = [pc EXCEPT ![r] = "ask"] /\ UNCHANGED from
    /\ UNCHANGED <<ollama, flips, caller, wanted, live, session, answer, stored, refused>>

\* The hybrid engine reads the catalogue again for its prompt.
Prompt(r) ==
    /\ pc[r] = "prompt" /\ r \in extra
    /\ CheckIn(r)
    /\ pc' = [pc EXCEPT ![r] = "ask"]
    /\ UNCHANGED <<ollama, flips, job, session, answer, stored, refused>>

\* Nobody listens: the hybrid engine keeps the classical order, the LLM engine
\* returns an empty list.
AskNobody(r) ==
    /\ pc[r] = "ask" /\ ~ollama
    /\ pc' = [pc EXCEPT ![r] = "persist"]
    /\ refused' = refused \cup {r}
    /\ UNCHANGED <<ollama, flips, job, session, pool, answer, stored>>

\* The answer cannot be used: the LLM engine makes an empty list of that, too.
AskInVain(r) ==
    /\ pc[r] = "ask" /\ ollama /\ Engine(r) = "llm"
    /\ pc' = [pc EXCEPT ![r] = "persist"]
    /\ UNCHANGED <<ollama, flips, job, session, pool, answer, stored, refused>>

\* A timeout, an HTTP error, for the hybrid engine also an unusable answer.
AskFails(r) ==
    /\ pc[r] = "ask" /\ ollama
    /\ Fail(r, CodeOf(r))
    /\ UNCHANGED refused

Ask(r) ==
    /\ pc[r] = "ask" /\ ollama
    /\ from' = [from EXCEPT ![r] = Engine(r)]
    /\ pc' = [pc EXCEPT ![r] = "persist"]
    /\ UNCHANGED <<ollama, flips, caller, wanted, live, session, pool, answer, stored, refused>>

\* Explanations are asked for if Ollama was there at the start; products are
\* looked up for every result.
AfterPersist(r) == IF from[r] = "nothing" THEN "commit" ELSE IF live[r] THEN "explain" ELSE "items"

Persist(r) ==
    /\ pc[r] = "persist" /\ r \in own
    /\ written' = written \cup {r}
    /\ pc' = [pc EXCEPT ![r] = AfterPersist(r)]
    /\ UNCHANGED <<ollama, flips, job, spoilt, pool, answer, stored, refused>>

\* The exception is caught, but a failed flush deactivates the session.  It has
\* expired the user's row with everything else, so reading the user's language
\* raises once more, outside of the try.
PersistFails(r) ==
    /\ pc[r] = "persist"
    /\ IF r \in own THEN "error" \in Faults ELSE InUse >= PoolSize
    /\ \/ /\ caller[r] # "user"
          /\ spoilt' = [spoilt EXCEPT ![r] = "broken"]
          /\ pc' = [pc EXCEPT ![r] = AfterPersist(r)]
          /\ UNCHANGED <<own, extra, answer>>
       \/ /\ caller[r] = "user"
          /\ Fail(r, 500)
    /\ UNCHANGED <<ollama, flips, job, written, stored, refused>>

\* get_or_create_company's query fails: no flush did, so the session stays active
\* on a transaction that PostgreSQL has aborted.
FindCompanyFails(r) ==
    /\ pc[r] = "persist" /\ r \in own /\ caller[r] = "user" /\ "error" \in Faults
    /\ spoilt' = [spoilt EXCEPT ![r] = "aborted"]
    /\ pc' = [pc EXCEPT ![r] = AfterPersist(r)]
    /\ UNCHANGED <<ollama, flips, job, written, pool, answer, stored, refused>>

\* The LLM's part of _generate_explanations may fail without consequence.
Explain(r) ==
    /\ pc[r] = "explain" /\ r \in extra
    /\ CheckIn(r)
    /\ pc' = [pc EXCEPT ![r] = "items"]
    /\ UNCHANGED <<ollama, flips, job, session, answer, stored, refused>>

ListProducts(r) ==
    /\ pc[r] = "items" /\ r \in extra
    /\ CheckIn(r)
    /\ pc' = [pc EXCEPT ![r] = "commit"]
    /\ UNCHANGED <<ollama, flips, job, session, answer, stored, refused>>

Response(r) == [code |-> 200, label |-> Label(r), from |-> from[r], live |-> live[r],
                id |-> r \in written]

\* get_db commits before the response is sent.  PostgreSQL makes a rollback of the
\* commit of an aborted transaction, without an error.
Commit(r) ==
    /\ pc[r] = "commit" /\ spoilt[r] # "broken"
    /\ pc' = [pc EXCEPT ![r] = "done"]
    /\ answer' = [answer EXCEPT ![r] = Response(r)]
    /\ stored' = stored \cup (written \cap {r})
    /\ own' = own \ {r}
    /\ UNCHANGED <<ollama, flips, job, session, extra, refused>>

\* PendingRollbackError, or the database fails.
CommitFails(r) ==
    /\ pc[r] = "commit"
    /\ spoilt[r] = "broken" \/ "error" \in Faults
    /\ Fail(r, 500)
    /\ UNCHANGED refused

Flip ==
    /\ flips < MaxFlips
    /\ flips' = flips + 1
    /\ ollama' = ~ollama
    /\ UNCHANGED <<pc, job, session, pool, answer, stored, refused>>

-----------------------------------------------------------------------------
Step(r) ==
    \/ CheckOut(r) \/ GiveUp(r) \/ Raise(r)
    \/ CheckToken(r) \/ Translate(r) \/ Match(r) \/ Prompt(r)
    \/ AskNobody(r) \/ AskInVain(r) \/ AskFails(r) \/ Ask(r)
    \/ Persist(r) \/ PersistFails(r) \/ FindCompanyFails(r)
    \/ Explain(r) \/ ListProducts(r) \/ Commit(r) \/ CommitFails(r)

Next == Flip \/ \E r \in Requests : Begin(r) \/ Step(r)

Spec == Init /\ [][Next]_vars

\* The thread that runs a handler goes on; who waits for a connection gets one or
\* gives up.
FairSpec == Spec /\ \A r \in Requests : WF_vars(Step(r))

-----------------------------------------------------------------------------
(* Properties *)

\* The handler, its engines, sessions and failures implement the service: the answer
\* is coherent, and what it names is stored, in one step.
KeepsPromise == Service!Spec

Waiting(r) == NeedsExtra(r) \/ NeedsOwn(r)

\* Requests that hold a connection wait for a second one of the same pool.  All
\* of them can wait for each other only if there are as many as connections.
OnlyCrowdsStarve ==
    (InUse >= PoolSize /\ \A r \in InFlight : Waiting(r)) => Cardinality(InFlight) >= PoolSize

\* Every request is answered: nobody waits for ever for a connection.
EveryRequestAnswered == \A r \in Requests : pc[r] # "idle" ~> answer[r] # None

\* README.md: "If Ollama is offline, hybrid and LLM fall back to classical automatically."
OfflineFallsBack == \A r \in refused :
    answer[r] # None => /\ answer[r].code = 200
                        /\ answer[r].from = "classical"
                        /\ answer[r].label = "classical_fallback"

=============================================================================
