------------------------------- MODULE Advice -------------------------------
(***************************************************************************)
(* One company's way to its recommendation: it may upload an export        *)
(* (api/routes/export.py, src/export_analyser), confirm the pain flags     *)
(* found in it, submit the questionnaire (api/translator), and gets ranked *)
(* capabilities with products (src/matching, api/routes/recommend.py).     *)
(* Ollama comes and goes between the steps, and may write anything.        *)
(***************************************************************************)
EXTENDS Matching, Questionnaire, ExportAnalysis

CONSTANTS
    Files,      \* what may be uploaded
    Guesses(_), \* Guesses(n): what the LLM may make of n columns
    Sees,       \* whether the configured model sees images: TRUE, FALSE or both
    Signals,    \* the confidences the LLM may write for pain flags
    Forms,      \* [country, domains, answers, confirmed, text, team]
    Modes,      \* among "classical", "hybrid", "llm"
    Encodings,  \* the bi-encoder's similarities, in per cent
    Crosses,    \* the cross-encoder's orders
    Replies,    \* the hybrid engine's LLM: ids, invented ones too, with scores
    Lists,      \* the LLM engine's LLM: sequences of ids
    Texts,      \* sets of ids the LLM may explain
    MaxFlips    \* bound: how often Ollama comes or goes

\* A similarity is a cosine, an order knows no ties, a score is a number and a list ends.
ASSUME AnswersAssumption ==
    /\ \A e \in Encodings : \A c \in DOMAIN e : e[c] \in -100..100
    /\ \A x \in Crosses : /\ x \in [DOMAIN Catalogue -> Int]
                          /\ \A c, d \in DOMAIN Catalogue : c # d => x[c] # x[d]
    /\ \A r \in Replies : \A c \in DOMAIN r : r[c] \in Int
    /\ \A list \in Lists : DOMAIN list \subseteq Nat
ASSUME FilesAssumption ==
    \A f \in Files : /\ Read(f).rows \in Nat /\ f.months \in Nat
                     /\ DOMAIN Read(f).columns \subseteq Nat
ASSUME FlipsAssumption == MaxFlips \in Nat

VARIABLES
    ollama, flips,
    stage,
    file,        \* while it is analysed: the upload,
    classical,   \* what analyse_classical made of its columns,
    map,         \* and what they are taken for
    tries,       \* answers of the LLM that could not be parsed, in this call
    insight,     \* the analysis, and what /api/export/validate says of the file; and, only
                 \* to speak of them: what made the analysis fail, whether the file has UTC
                 \* offsets, what is suggested without the LLM, and the fields it named
    promised,    \* the flags /api/export/apply says it will add
    carried,     \* export_pain_flags and export_enrichment of the next submission
    profile,
    asked,       \* the engine, the size of the team, whether Ollama was there
    ranking,
    answer       \* answer[c]: the products shown for c, and who explains it

analysis == <<file, classical, map, tries, insight>>
request  == <<profile, asked, ranking, answer>>
vars     == <<ollama, flips, stage, analysis, promised, carried, request>>

-----------------------------------------------------------------------------
NoFile == [format |-> "unknown", content |-> "empty", sheets |-> <<>>, months |-> 0,
           seasonal |-> FALSE]
NoMap == [type |-> "unknown", confidence |-> 0, mapping |-> <<>>, named |-> 0]
NoMetrics == [records |-> 0, channels |-> 0, social |-> FALSE, months |-> 0, seasonal |-> FALSE,
              response |-> Unknown, open |-> 0, closed |-> 0, counted |-> FALSE]
NoInsight == [accepted |-> FALSE, kind |-> "none", analyzable |-> FALSE, type |-> "unknown",
              metrics |-> NoMetrics, facts |-> {}, flags |-> <<>>, readiness |-> Unknown,
              raised |-> "nothing", offsets |-> FALSE, alone |-> <<>>, guessed |-> {}]
Nothing == [flags |-> <<>>, facts |-> {}]
NoProfile == [country |-> "", domains |-> {}, text |-> FALSE, flags |-> {}, level |-> 2,
              tools |-> {}, exports |-> {}, history |-> 0, structured |-> FALSE, orders |-> 0,
              support |-> FALSE]
NotAsked == [engine |-> "classical", team |-> "", live |-> FALSE]

Retries == 2

Init ==
    /\ ollama \in BOOLEAN /\ flips = 0
    /\ stage = "start"
    /\ file = NoFile /\ classical = NoMap /\ map = NoMap /\ tries = 0 /\ insight = NoInsight
    /\ promised = {} /\ carried = Nothing
    /\ profile = NoProfile /\ asked = NotAsked
    /\ ranking = <<>> /\ answer = <<>>

-----------------------------------------------------------------------------
(* The analysis of an upload *)

\* What is said of a file that is no table; the type is a guess.
Verdict(f, analyzable, type) ==
    [NoInsight EXCEPT !.accepted = CanAnalyse(f), !.kind = Read(f).kind,
                      !.analyzable = analyzable, !.type = type]

\* Status 500: nothing catches what the analysis raises.
Fail(f, why) ==
    /\ insight' = [Verdict(f, FALSE, "unknown") EXCEPT !.raised = why,
                                                       !.offsets = HasOffsets(Read(f))]
    /\ file' = NoFile /\ classical' = NoMap /\ map' = NoMap /\ tries' = 0 /\ stage' = "insight"

\* read and, of a table, analyse_classical.  A text has nothing to measure; phi4, the
\* model of config.py, sees no images.  Another file may follow the first.
Upload(f) ==
    LET read == Read(f) IN
    /\ stage \in {"start", "insight"}
    /\ \/ /\ read.kind = "tabular"
          /\ file' = f /\ classical' = Classical(read) /\ map' = classical' /\ stage' = "columns"
          /\ insight' = NoInsight
       \/ /\ read.kind = "text"
          /\ insight' = Verdict(f, TRUE, "analytics") /\ stage' = "insight"
          /\ UNCHANGED <<file, classical, map>>
       \/ /\ read.kind = "none" \/ (read.kind = "image" /\ FALSE \in Sees)
          /\ insight' = Verdict(f, FALSE, "unknown") /\ stage' = "insight"
          /\ UNCHANGED <<file, classical, map>>
       \/ /\ read.kind = "image" /\ TRUE \in Sees
          /\ file' = f /\ stage' = "image"
          /\ insight' = NoInsight /\ UNCHANGED <<classical, map>>
    /\ UNCHANGED <<ollama, flips, tries, promised, carried, request>>

\* call_json asks again after an answer that cannot be parsed, but not for ever.
GivesUp == tries + 1 >= Retries

Measure == stage' = "numbers" /\ tries' = 0

\* Mutant of Unreachable: a refused connection is tried again, too.
StillTrying == FALSE

\* A connection that is refused is not tried again.
Unreachable == ~ollama

\* The map is good enough, or nobody can be asked, or was when it came to it.
KeepMap ==
    /\ stage = "columns" /\ (~Weak(map) \/ Unreachable)
    /\ Measure
    /\ UNCHANGED <<ollama, flips, file, classical, map, insight, promised, carried, request>>

GuessColumns ==
    /\ stage = "columns" /\ Weak(map) /\ ollama /\ Read(file).columns # <<>>
    /\ \E guess \in Guesses(Len(Read(file).columns)) : map' = Merged(map, Sound(guess, Read(file)))
    /\ Measure
    /\ UNCHANGED <<ollama, flips, file, classical, insight, promised, carried, request>>

\* The LLM's answer is no JSON object, or there are no columns to ask about.
GuessInVain ==
    /\ stage = "columns" /\ Weak(map) /\ ollama
    /\ IF GivesUp \/ Read(file).columns = <<>> THEN Measure
       ELSE tries' = tries + 1 /\ UNCHANGED stage
    /\ UNCHANGED <<ollama, flips, file, classical, map, insight, promised, carried, request>>

\* extract_metrics succeeds, so the enrichment and the flags can be read off its numbers.
TakeNumbers ==
    /\ stage = "numbers" /\ ~MustRaise(Read(file), map)
    /\ stage' = "signals"
    /\ UNCHANGED <<ollama, flips, analysis, promised, carried, request>>

NumbersRaise ==
    /\ stage = "numbers" /\ MayRaise(Read(file), map)
    /\ Fail(file, "numbers")
    /\ UNCHANGED <<ollama, flips, promised, carried, request>>

\* What would be suggested if the LLM were not asked.
SuggestedAlone ==
    LET m == Metrics(file, Read(file), classical) IN Suggest(classical.type, m)

Insight(flags, facts) ==
    LET m == Metrics(file, Read(file), map) IN
    [accepted |-> CanAnalyse(file), kind |-> "tabular", analyzable |-> TRUE, type |-> map.type,
     metrics |-> m, facts |-> facts, flags |-> flags, readiness |-> Readiness(m, map.confidence),
     raised |-> "nothing", offsets |-> HasOffsets(Read(file)), alone |-> SuggestedAlone,
     guessed |-> DOMAIN map.mapping \ DOMAIN classical.mapping]

Conclude(flags, facts) ==
    /\ insight' = Insight(flags, facts)
    /\ file' = NoFile /\ classical' = NoMap /\ map' = NoMap /\ tries' = 0 /\ stage' = "insight"

\* What can be told without the LLM.
ConcludeAlone ==
    LET m == Metrics(file, Read(file), map) IN
    /\ stage = "signals"
    /\ Conclude(Suggest(map.type, m), Facts(m))
    /\ UNCHANGED <<ollama, flips, promised, carried, request>>

\* The LLM cannot be reached, is not understood, or says nothing usable.
NoSignals ==
    /\ Unreachable \/ GivesUp
    /\ ConcludeAlone

AskAgain ==
    /\ stage \in {"signals", "image"} /\ ollama /\ ~GivesUp
    /\ tries' = tries + 1
    /\ UNCHANGED <<ollama, flips, stage, file, classical, map, insight, promised, carried, request>>

\* The LLM's summary, if it wrote one, takes the place of the facts.
TakeSignals ==
    LET m == Metrics(file, Read(file), map) IN
    /\ stage = "signals" /\ ollama
    /\ \E signals \in Signals, summary \in {{}, {"summary"}} :
         Conclude(MaxMerge(Suggest(map.type, m), ValidSignals(signals, map.type, m)),
                  IF summary = {} THEN Facts(m) ELSE summary)
    /\ UNCHANGED <<ollama, flips, promised, carried, request>>

\* The model reads numbers off the image, or none: it is asked in vain, or for nothing.
ReadImage ==
    /\ stage = "image"
    /\ \E found \in (IF ollama THEN BOOLEAN ELSE {FALSE}) :
           insight' = Verdict(file, found, "analytics")
    /\ file' = NoFile /\ tries' = 0 /\ stage' = "insight"
    /\ UNCHANGED <<ollama, flips, classical, map, promised, carried, request>>

\* "column_map" or "pain_signals" is a list, "metrics_found" a number.
AnswerRaises ==
    /\ ollama
    /\ \/ stage = "columns" /\ Weak(map) /\ Read(file).columns # <<>>
       \/ stage \in {"signals", "image"}
    /\ Fail(file, "answer")
    /\ UNCHANGED <<ollama, flips, promised, carried, request>>

-----------------------------------------------------------------------------
(* What the client makes of it *)

ApplyThreshold == 70

\* Mutant of Confident: recommend.py has a threshold of its own.
Surer(flags) == {f \in DOMAIN flags \cap PainFlags : flags[f] >= 80}

\* The condition of recommend.py on export_pain_flags.
Confident(flags) == {f \in DOMAIN flags \cap PainFlags : flags[f] >= 70}

\* What is confirmed of an export replaces what an earlier one left, so one is enough.
ToForm == stage' = "form" /\ insight' = NoInsight

\* POST /api/export/apply, "use detected pain points" confirmed or not; the answer is
\* sent on with the questionnaire.
Apply(override) ==
    LET to_apply == IF override
                    THEN {f \in DOMAIN insight.flags \cap PainFlags :
                             insight.flags[f] >= ApplyThreshold}
                    ELSE {}
    IN  /\ stage = "insight" /\ insight.analyzable
        /\ promised' = to_apply
        /\ carried' = [flags |-> [f \in to_apply |-> insight.flags[f]], facts |-> insight.facts]
        /\ ToForm
        /\ UNCHANGED <<ollama, flips, file, classical, map, tries, request>>

\* The demo page sends what was suggested, without asking; another page drops it.
Carry ==
    /\ stage = "insight"
    /\ carried' \in {Nothing, [flags |-> insight.flags, facts |-> insight.facts]}
    /\ promised' = {}
    /\ ToForm
    /\ UNCHANGED <<ollama, flips, file, classical, map, tries, request>>

-----------------------------------------------------------------------------
(* The recommendation *)

\* Ollama is probed, the form translated, the export added, the engine chosen.
Submit(form, mode) ==
    LET translated == Translate(form) IN
    /\ stage \in {"start", "form"}
    /\ profile' = [translated EXCEPT !.flags = @ \cup Confident(carried.flags),
                                     !.text = @ \/ carried.facts # {}]
    /\ asked' = [engine |-> IF ollama THEN mode ELSE "classical", team |-> form.team,
                 live |-> ollama]
    /\ carried' = Nothing
    /\ stage' = "match"
    /\ UNCHANGED <<ollama, flips, analysis, promised, ranking, answer>>

MatchClassical ==
    /\ stage = "match" /\ asked.engine # "llm"
    /\ \E e \in Encodings, x \in Crosses : ranking' = ClassicalRanking(profile, e, x)
    /\ stage' = IF asked.engine = "hybrid" /\ ranking' # <<>> THEN "rate" ELSE "ranked"
    /\ UNCHANGED <<ollama, flips, analysis, promised, carried, profile, asked, answer>>

\* The LLM engine only filters before it asks.
MatchLlm ==
    /\ stage = "match" /\ asked.engine = "llm"
    /\ stage' = IF Scoped(profile) = {} THEN "ranked" ELSE "rate"
    /\ UNCHANGED <<ollama, flips, analysis, promised, carried, request>>

\* A ConnectionError: the classical order, or an empty list.
RateByNobody ==
    /\ stage = "rate" /\ ~ollama
    /\ ranking' = Top(ranking, TopN)
    /\ stage' = "ranked"
    /\ UNCHANGED <<ollama, flips, analysis, promised, carried, profile, asked, answer>>

RateHybrid ==
    /\ stage = "rate" /\ ollama /\ asked.engine = "hybrid"
    /\ \E reply \in Replies :
         LET scores == Usable(reply, DOMAIN Top(ranking, PrefilterK)) IN
         \/ /\ DOMAIN scores # {}
            /\ ranking' = Rerank(ranking, scores)
            /\ stage' = "ranked"
         \/ /\ DOMAIN scores = {}
            /\ stage' = "failed"
            /\ UNCHANGED ranking
    /\ UNCHANGED <<ollama, flips, analysis, promised, carried, profile, asked, answer>>

RateLlm ==
    /\ stage = "rate" /\ ollama /\ asked.engine = "llm"
    /\ \E list \in Lists : ranking' = LlmRanking(list, Scoped(profile))
    /\ stage' = "ranked"
    /\ UNCHANGED <<ollama, flips, analysis, promised, carried, profile, asked, answer>>

\* A timeout or an HTTP error: status 502.
RateFails ==
    /\ stage = "rate" /\ ollama
    /\ stage' = "failed"
    /\ UNCHANGED <<ollama, flips, analysis, promised, carried, request>>

MaxResults == 5
ExplainTopN == 3

\* The LLM is asked to explain the first three; what it says of others is dropped, and
\* when it fails the engine's explanations stay.
Explained(told) == told \cap DOMAIN Top(ranking, ExplainTopN)

Respond ==
    /\ stage = "ranked"
    /\ ranking' = Top(ranking, MaxResults)
    /\ \E told \in (IF asked.live /\ ollama THEN Texts ELSE {{}}) :
         answer' = [c \in DOMAIN Top(ranking, MaxResults) |->
                      [products |-> ProductList(c, profile, asked.team),
                       words |-> IF c \in Explained(told) THEN "llm" ELSE "engine"]]
    /\ stage' = "answered"
    /\ UNCHANGED <<ollama, flips, analysis, promised, carried, profile, asked>>

Flip ==
    /\ flips < MaxFlips
    /\ stage \in {"columns", "signals", "image", "match", "rate"}
    /\ ollama' = ~ollama /\ flips' = flips + 1
    /\ UNCHANGED <<stage, analysis, promised, carried, request>>

-----------------------------------------------------------------------------
Analyse == KeepMap \/ GuessColumns \/ GuessInVain \/ NoSignals \/ AskAgain \/ TakeSignals
           \/ ReadImage \/ AnswerRaises \/ TakeNumbers \/ NumbersRaise
Recommend == MatchClassical \/ MatchLlm \/ RateByNobody \/ RateHybrid \/ RateLlm \/ RateFails
             \/ Respond

Next ==
    \/ \E f \in Files : Upload(f)
    \/ Analyse
    \/ \E override \in BOOLEAN : Apply(override)
    \/ Carry
    \/ \E form \in Forms, mode \in Modes : Submit(form, mode)
    \/ Recommend
    \/ Flip

Spec == Init /\ [][Next]_vars

\* An analysis that runs goes on.
FairSpec == Spec /\ WF_vars(Analyse)

-----------------------------------------------------------------------------
(* Properties *)

InHandler == stage \in {"columns", "numbers", "signals", "image", "match", "rate", "ranked"}

\* Types, and: a ranking's places are 1, 2, ... without gap, its dimensions per cents
\* whatever score the LLM wrote, and no flag outside the catalogue of pain flags gets
\* into a profile (Clamp, AllowedFlags, the filter of recommend.py).
TypeOK ==
    /\ ollama \in BOOLEAN /\ flips \in 0..MaxFlips /\ tries \in 0..Retries - 1
    /\ InHandler \/ stage \in {"start", "insight", "form", "answered", "failed"}
    /\ map.type \in DataTypes /\ map.confidence \in 0..100
    /\ insight.readiness \in 0..100 \cup {Unknown}
    /\ \A f \in DOMAIN insight.flags : insight.flags[f] \in 0..100
    /\ profile.flags \subseteq PainFlags
    /\ {ranking[c].place : c \in DOMAIN ranking} = 1..Cardinality(DOMAIN ranking)
    /\ \A c \in DOMAIN ranking : \A k \in Dimensions : ranking[c].dims[k] \in 0..100

\* What /api/export/validate accepts /api/export/analyse can make something of, and a
\* table has rows enough; unless the LLM's answer has another shape than was asked for, or
\* the file has times with UTC offsets, which raise in extract_metrics.  Pictures apart,
\* which may show nothing, and which a model like phi4 cannot read although validate says
\* that a vision model will.
AcceptedIsAnalysed ==
    insight.accepted /\ insight.kind # "image" =>
        \/ /\ insight.analyzable
           /\ insight.kind = "tabular" => insight.metrics.records >= MinRows
        \/ insight.raised = "answer"
        \/ insight.raised = "numbers" /\ insight.offsets

\* A pain flag about support is only ever suggested by an export of support tickets,
\* whoever names the columns, the type and the flags: file, LLM or both (FlagGrounded,
\* asked by suggest_pain_flags and again by extract_signals).
GroundedFlags == DOMAIN insight.flags \cap SupportFlags # {} => insight.type = "support_tickets"

\* What would be suggested of a file without the LLM is suggested at least as surely when
\* the LLM has named columns, a type and flags (_analyse_tabular: twice it is asked, twice
\* its answer is merged).  With one exception: of "created_at" and "date" a file that has
\* one may be given the other, and extract_metrics then counts hours or months from a
\* column the LLM chose.
LLMOnlyAdds ==
    \A f \in DOMAIN insight.alone :
        \/ f \in DOMAIN insight.flags /\ insight.flags[f] >= insight.alone[f]
        \/ f = "SLOW_RESPONSE" /\ "created_at" \in insight.guessed
        \/ f = "STOCKOUTS_UNIVERSAL" /\ "date" \in insight.guessed

\* Every flag that /api/export/apply told the user it would add is confirmed in the
\* profile that is matched; two modules hold two thresholds and two lists of names.
AppliedFlagsConfirmed ==
    stage \in {"match", "rate", "ranked", "answered"} => promised \subseteq profile.flags

\* Wherever the company is, a capability that has products is recommended with one: the
\* feasibility filter has asked before the ranking what _build_product_list asks after it,
\* each with a list of countries of its own.  The lists differ in Norway, Iceland and
\* Liechtenstein, where a capability without a compliant product is recommended with none.
NeverWithoutProducts ==
    \A c \in DOMAIN answer :
        c \in WithProducts /\ DOMAIN answer[c].products = {} =>
            profile.country \in EuropeanCountries \ EuCountries /\ c \notin GdprCapable

\* Whatever the LLM lists or rates, nothing gets into a ranking, or stays in it, that the
\* filters turned down, or that it invented (_parse_scores, _parse_response).
NothingInvented == DOMAIN ranking \subseteq Scoped(profile)

\* A capability that is at least as good as another in every dimension and better in
\* one stands before it, in the classical order and after the LLM's scores (TOPSIS).
DominanceRespected ==
    asked.engine # "llm" =>
        \A c, d \in DOMAIN ranking :
            /\ \A k \in Dimensions : ranking[c].dims[k] >= ranking[d].dims[k]
            /\ ranking[c].dims # ranking[d].dims
            => ranking[c].place < ranking[d].place

\* Of the products a company may be shown, none that is left out fits better than one
\* that is shown, and the one called the best fit is one of the best.
BestShown ==
    \A c \in DOMAIN answer :
        LET shown == answer[c].products IN
        \A p \in DOMAIN shown : \A q \in Eligible(c, profile.country) :
            q \notin DOMAIN shown \/ shown[p].best =>
                Fit(p, profile, asked.team) >= Fit(q, profile, asked.team)

Analysing == stage \in {"columns", "numbers", "signals", "image"}

\* The analysis of an upload comes to an end, Ollama up, down or writing what cannot be
\* parsed: call_json tries again a bounded number of times, and not without Ollama.
AnalysisEnds == Analysing ~> ~Analysing

=============================================================================
