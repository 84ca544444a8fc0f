------------------------------ MODULE Matching ------------------------------
(***************************************************************************)
(* From a company's profile to ranked capabilities and their products: the *)
(* catalogue's reads (src/catalog), the filters, the classical ranking, the *)
(* hybrid and the LLM engine (src/matching), and the product list of       *)
(* api/routes/recommend.py with its scorer (api/tools/product_scorer.py).  *)
(*                                                                         *)
(* Scores are whole per cents.  A ranking is a function of the ids that are *)
(* ranked; each entry knows its place.                                     *)
(***************************************************************************)
EXTENDS SeedCatalogue, FiniteSets, FiniteSetsExt

CONSTANTS
    Catalogue,  \* Catalogue[c]: what the repository returns for capability c
    Products    \* records; .no is the position in "ORDER BY product_id"

ASSUME ProductsAssumption ==
    /\ IsFiniteSet(Products)
    /\ \A p \in Products : /\ p.gdpr \in BOOLEAN /\ p.no \in Nat
                            /\ IsFiniteSet(p.integrations)

ASSUME CatalogueAssumption ==
    /\ IsFiniteSet(DOMAIN Catalogue)
    /\ \A c \in DOMAIN Catalogue : /\ Catalogue[c].gate \in Int
                                   /\ IsFiniteSet(Catalogue[c].types)
                                   /\ IsFiniteSet(Catalogue[c].points)

-----------------------------------------------------------------------------
(* The repository *)

ProductsOf == [c \in DOMAIN Catalogue |-> {p \in Products : p.capability = c}]

\* The tools that some product of c works with, by their base names.
AvailableIntegrations == [c \in DOMAIN Catalogue |->
    {BaseName(i) : i \in UNION {p.integrations : p \in ProductsOf[c]}}]

WithProducts == {p.capability : p \in Products}

GdprCapable == {p.capability : p \in {q \in Products : q.gdpr}}

-----------------------------------------------------------------------------
(* Filters *)

\* Two lists: the profile's, and the one of recommend.py with Norway, Iceland and
\* Liechtenstein.
EuCountries == {"AT", "BE", "BG", "CY", "CZ", "DE", "DK", "EE", "ES", "FI", "FR", "GR", "HR", "HU",
                "IE", "IT", "LT", "LU", "LV", "MT", "NL", "PL", "PT", "RO", "SE", "SI", "SK"}
EuropeanCountries == EuCountries \cup {"NO", "IS", "LI"}

\* Mutant of Feasible: any product will do.
FeasibleWithAny(profile) == {c \in DOMAIN Catalogue :
    Catalogue[c].tech <= profile.level \/ profile.support}

\* apply_feasibility_filter: the ids that pass.
Feasible(profile) == {c \in DOMAIN Catalogue :
    /\ ~(profile.country \in EuCountries /\ c \in WithProducts /\ c \notin GdprCapable)
    /\ Catalogue[c].tech <= profile.level \/ profile.support}

\* Its second result, the effort an offer of support leaves.
Complexity(c, profile) ==
    LET gap == Catalogue[c].tech - profile.level IN
    CASE ~profile.support -> "unknown" [] gap <= 0 -> "low" [] gap = 1 -> "medium" [] OTHER -> "high"

InDomains(S, profile) == {c \in S : Catalogue[c].domain \in profile.domains}

Scoped(profile) == InDomains(Feasible(profile), profile)

-----------------------------------------------------------------------------
(* The five dimensions, as per cents *)

Share(S, T) == (100 * Cardinality(S)) \div Cardinality(T)

IntegrationCompat(c, profile) ==
    LET own == {BaseName(t) : t \in profile.tools}
        theirs == AvailableIntegrations[c]
    IN  IF theirs = {} THEN 50 ELSE Share(own \cap theirs, theirs)

DataReadiness(c, profile) ==
    LET cap == Catalogue[c]
        export == IF ~cap.works /\ profile.orders = 0 /\ ~profile.structured THEN 30 ELSE 100
        types == IF cap.types = {} THEN 100 ELSE Share(cap.types \cap profile.exports, cap.types)
        history == IF profile.history >= cap.gate THEN 100
                   ELSE Max({40, (100 * profile.history) \div cap.gate})
    IN  (export * types * history) \div 10000

TechFit(c, profile) ==
    LET gap == profile.level - Catalogue[c].tech IN
    IF gap >= 0 THEN 100 ELSE IF gap = -1 THEN 50 ELSE 20

PainMatch(c, profile) ==
    LET points == Catalogue[c].points IN
    IF points = {} \/ profile.flags = {} THEN 50 ELSE Share(points \cap profile.flags, points)

Dims(c, profile, semantic) ==
    [semantic |-> semantic, integration |-> IntegrationCompat(c, profile),
     data |-> DataReadiness(c, profile), tech |-> TechFit(c, profile),
     pain |-> PainMatch(c, profile)]

-----------------------------------------------------------------------------
(* TOPSIS against a fixed best and worst *)

Dimensions == {"semantic", "integration", "data", "tech", "pain"}

\* In steps of 5%.
Weight == [semantic |-> 7, integration |-> 1, data |-> 4, tech |-> 2, pain |-> 6]

Square(x) == x * x
Weighted(dims, k) == Square(Weight[k] * dims[k])
FromWorst(dims) == Weighted(dims, "semantic") + Weighted(dims, "integration")
    + Weighted(dims, "data") + Weighted(dims, "tech") + Weighted(dims, "pain")
FromBest(dims) == FromWorst([k \in Dimensions |-> 100 - dims[k]])

\* The first nine decimal digits of a / b, for 0 <= a <= b, b > 0.
Digits(a, b) ==
    LET r1 == (1000 * a) % b
        r2 == (1000 * r1) % b
    IN  1000000 * ((1000 * a) \div b) + 1000 * ((1000 * r1) \div b) + ((1000 * r2) \div b)

\* The code compares the quotient of the roots, which has the same order.
Closeness(dims) == Digits(FromWorst(dims), FromWorst(dims) + FromBest(dims))

\* Mutant of Before: the score is not negated before it is sorted by.
Rising(c, d, score, order) ==
    score[c] < score[d] \/ (score[c] = score[d] /\ order[c] < order[d])

\* The places 1, 2, ... of S by falling score; equal scores keep the given order.
Before(c, d, score, order) ==
    score[c] > score[d] \/ (score[c] = score[d] /\ order[c] < order[d])
Place(S, score, order) ==
    [d \in S |-> 1 + Cardinality({c \in S : Before(c, d, score, order)})]

\* A ranking's entries at the first n places.
Top(ranking, n) ==
    LET S == {c \in DOMAIN ranking : ranking[c].place <= n} IN [c \in S |-> ranking[c]]

-----------------------------------------------------------------------------
(* Explanations *)

\* What _build_explanation says: the reason, the tools, the data that are missing.
Explanation(c, profile, dims) ==
    LET cap == Catalogue[c] IN
    [reason |->
       CASE cap.points \cap profile.flags # {} /\ dims.pain >= 50 -> "pains"
         [] dims.semantic >= 70 -> "strong"
         [] dims.semantic >= 50 -> "several"
         [] OTHER               -> "domain",
     tools |->
       CASE {t \in profile.tools : BaseName(t) \in AvailableIntegrations[c]} = {} -> "none"
         [] dims.integration >= 60 -> "native"
         [] OTHER                  -> "compatible",
     asks |->
       CASE dims.data >= 60 -> "nothing"
         [] ~cap.works /\ profile.orders = 0  -> "orders"
         [] profile.history < cap.gate        -> "history"
         [] ~(cap.types \subseteq profile.exports) -> "types"
         [] OTHER -> "nothing",
     effort |-> Complexity(c, profile)]

-----------------------------------------------------------------------------
(* Engines *)

\* The candidates: without a text all, with one those that have an embedding.
\* encoding[c] is the best similarity of c's text with a part of the company's.
Candidates(profile, encoding) ==
    IF profile.text THEN Scoped(profile) \cap DOMAIN encoding ELSE Scoped(profile)

Similarity(c, profile, encoding) == IF profile.text THEN Max({0, encoding[c]}) ELSE 50

\* ClassicalEngine.match.  The cross-encoder's order only breaks ties.
ClassicalRanking(profile, encoding, cross) ==
    LET S == Candidates(profile, encoding)
        dims == [c \in S |-> Dims(c, profile, Similarity(c, profile, encoding))]
        place == Place(S, [c \in S |-> Closeness(dims[c])], cross)
    IN  [c \in S |-> [place |-> place[c], dims |-> dims[c],
                      explanation |-> Explanation(c, profile, dims[c])]]

PrefilterK == 15
TopN == 5

\* Stands for what the LLM may write for a score that is no number at all.
NoNumber == -99

\* _parse_scores: ids that were not asked for and scores that are no numbers go.
Usable(reply, ids) ==
    LET S == {c \in DOMAIN reply \cap ids : reply[c] # NoNumber} IN [c \in S |-> reply[c]]

\* Mutant of Clamp.
Unclamped(score) == 10 * score

\* A score of 0 to 10 as a per cent.
Clamp(score) == Max({0, Min({100, 10 * score})})

\* _rerank_with_llm_semantic: who was not rated keeps the classical similarity;
\* the explanation stays the classical one.
Rerank(ranking, scores) ==
    LET short == Top(ranking, PrefilterK)
        S == DOMAIN short
        dims == [c \in S |-> IF c \in DOMAIN scores
                             THEN [short[c].dims EXCEPT !.semantic = Clamp(scores[c])]
                             ELSE short[c].dims]
        place == Place(S, [c \in S |-> Closeness(dims[c])], [c \in S |-> short[c].place])
    IN  Top([c \in S |-> [place |-> place[c], dims |-> dims[c],
                          explanation |-> short[c].explanation]], TopN)

\* The LLM's own list: what it invents and what it repeats is dropped.
First(c, list) == Min({i \in DOMAIN list : list[i] = c})
NoDims == [k \in Dimensions |-> 0]

\* Mutant of LlmRanking: what the LLM invents is kept.
Believed(list, ids) ==
    LET S == {list[i] : i \in DOMAIN list}
    IN  [c \in S |->
           [place |-> 1 + Cardinality({d \in S : First(d, list) < First(c, list)}),
            dims |-> NoDims]]

LlmRanking(list, ids) ==
    LET S == {list[i] : i \in DOMAIN list} \cap ids
    IN  [c \in S |->
           [place |-> 1 + Cardinality({d \in S : First(d, list) < First(c, list)}),
            dims |-> NoDims]]

-----------------------------------------------------------------------------
(* Products *)

Eligible(c, country) == {p \in ProductsOf[c] : country \in EuropeanCountries => p.gdpr}

PlatformScore(p, profile) ==
    IF p.platforms = {} \/ profile.tools = {} THEN 50
    ELSE IF p.platforms \cap profile.tools # {} THEN 100 ELSE 20

Gap(x, y) == IF x > y THEN x - y ELSE y - x

ComplexityScore(p, profile) ==
    IF p.setup = "" THEN 50
    ELSE LET required == [no_code |-> 1, low_code |-> 2, developer |-> 3][p.setup]
         IN  IF profile.level >= required THEN 100
             ELSE IF required - profile.level = 1 THEN 50 ELSE 20

\* _TEAM_SIZE_BUCKET
Bucket(team) ==
    CASE team = "1-5" -> "micro" [] team = "6-25" -> "small"
      [] team \in {"26-100", "100+"} -> "medium" [] OTHER -> "unknown"

SizeScore(p, bucket) ==
    LET order == [micro |-> 0, small |-> 1, medium |-> 2]
    IN  CASE bucket = "unknown" -> 50
          [] p.size \in {"", "any"} -> 75
          [] p.size = bucket -> 100
          [] Gap(order[p.size], order[bucket]) = 1 -> 50
          [] OTHER -> 25

PriceScore(p, bucket) ==
    IF p.price = "" \/ bucket = "unknown" THEN 50
    ELSE LET tier == [free |-> 0, starter |-> 1, growth |-> 2, enterprise |-> 3][p.price]
             affordable == [micro |-> 1, small |-> 2, medium |-> 3][bucket]
         IN  IF tier <= affordable THEN 100 ELSE IF tier - affordable = 1 THEN 50 ELSE 20

\* The composite, times 100.
Fit(p, profile, team) ==
    35 * PlatformScore(p, profile) + 25 * ComplexityScore(p, profile)
    + 20 * SizeScore(p, Bucket(team)) + 20 * PriceScore(p, Bucket(team))

MaxProducts == 2

\* Mutant of ProductList: cut, then scored.
FirstProducts(c, profile, team) ==
    LET E == Eligible(c, profile.country)
        shown == {p \in E : Cardinality({q \in E : q.no < p.no}) < MaxProducts}
        fit == [p \in shown |-> Fit(p, profile, team)]
        place == Place(shown, fit, [p \in shown |-> p.no])
    IN  [p \in shown |-> [place |-> place[p], fit |-> fit[p], best |-> place[p] = 1]]

\* _build_product_list: filter, score, cut.  The best fit is the head of the scored.
ProductList(c, profile, team) ==
    LET E == Eligible(c, profile.country)
        fit == [p \in E |-> Fit(p, profile, team)]
        place == Place(E, fit, [p \in E |-> p.no])
    IN  [p \in {q \in E : place[q] <= MaxProducts} |->
            [place |-> place[p], fit |-> fit[p], best |-> place[p] = 1]]

=============================================================================
