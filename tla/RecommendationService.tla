------------------------ MODULE RecommendationService ------------------------
(***************************************************************************)
(* What POST /api/recommend promises its callers, whatever happens inside: *)
(* a request gets one answer; a recommendation names the pipeline it comes *)
(* from, and its id is stored at the very moment the answer is decided; a  *)
(* request that is refused leaves nothing behind.                          *)
(***************************************************************************)
CONSTANTS
    Requests,
    Modes,   \* the pipelines a caller can ask for
    None     \* not asked yet, not answered yet

VARIABLES
    wanted,  \* wanted[r]: the pipeline request r asks for
    answer,  \* answer[r]: what the caller has been told
    stored   \* requests whose recommendation is in the database

vars == <<wanted, answer, stored>>

Codes == {422, 500, 502}
Labels == {"classical_fallback", "llm", "i3_llm_semantic"}
Sources == {"nothing", "classical", "llm", "hybrid"}
Recommendations == [code : {200}, label : Labels, from : Sources, live : BOOLEAN, id : BOOLEAN]
Refusals == [code : Codes]
Answers == Recommendations \cup Refusals

\* The pipeline named is the one asked for or the fallback, and the fallback names itself.
\* The hybrid pipeline may lose the LLM half-way and keep the order of its classical half.
Coherent(mode, a) ==
    \/ a.label = "classical_fallback" /\ a.from \in {"classical", "nothing"}
                                      /\ (mode = "classical" \/ ~a.live)
    \/ a.label = "llm" /\ a.from \in {"llm", "nothing"} /\ mode = "llm" /\ a.live
    \/ a.label = "i3_llm_semantic" /\ a.from \in {"hybrid", "classical", "nothing"}
                                   /\ mode = "hybrid" /\ a.live

Init ==
    /\ wanted = [r \in Requests |-> None]
    /\ answer = [r \in Requests |-> None]
    /\ stored = {}

Ask(r) ==
    /\ wanted[r] = None
    /\ \E m \in Modes : wanted' = [wanted EXCEPT ![r] = m]
    /\ UNCHANGED <<answer, stored>>

Recommend(r) ==
    /\ wanted[r] # None /\ answer[r] = None
    /\ \E a \in Recommendations :
        /\ Coherent(wanted[r], a)
        /\ answer' = [answer EXCEPT ![r] = a]
        /\ stored' = IF a.id THEN stored \cup {r} ELSE stored
    /\ UNCHANGED wanted

Refuse(r) ==
    /\ wanted[r] # None /\ answer[r] = None
    /\ \E a \in Refusals : answer' = [answer EXCEPT ![r] = a]
    /\ UNCHANGED <<wanted, stored>>

Next == \E r \in Requests : Ask(r) \/ Recommend(r) \/ Refuse(r)

Spec == Init /\ [][Next]_vars

=============================================================================
