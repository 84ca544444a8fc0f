------------------------ MODULE AdviceRankingProofs ------------------------
(***************************************************************************)
(* More proofs about Advice: what an upload that is accepted comes to, and *)
(* the numbers of a ranking: places without gap, dimensions that are per   *)
(* cents, and an order that respects them.                                 *)
(***************************************************************************)
EXTENDS AdviceProofs

-----------------------------------------------------------------------------
(* What a handler holds *)

\* What a handler holds is an upload of the kind it handles.
HeldInv ==
    /\ stage \in {"columns", "numbers", "signals"} =>
          file \in Files /\ Read(file).kind = "tabular"
    /\ stage = "image" => Read(file).kind = "image"

LEMMA HeldStep == HeldInv /\ [Next]_vars => HeldInv'
  <1> SUFFICES ASSUME HeldInv, [Next]_vars PROVE HeldInv'
    OBVIOUS
  <1>1. ASSUME NEW f \in Files, Upload(f) PROVE HeldInv'
    BY <1>1 DEF Upload, HeldInv
  <1>2. CASE Analyse
    BY <1>2 DEF Analyse, KeepMap, GuessColumns, GuessInVain, NoSignals, ConcludeAlone, AskAgain,
       TakeSignals, ReadImage, TakeNumbers, NumbersRaise, AnswerRaises, Fail, Conclude, Measure,
       analysis, HeldInv
  <1>3. ASSUME NEW override \in BOOLEAN, Apply(override) PROVE HeldInv'
    BY <1>3 DEF Apply, ToForm, HeldInv
  <1>4. CASE Carry
    BY <1>4 DEF Carry, ToForm, HeldInv
  <1>5. ASSUME NEW form \in Forms, NEW mode \in Modes, Submit(form, mode) PROVE HeldInv'
    BY <1>5 DEF Submit, HeldInv
  <1>6. CASE Recommend
    BY <1>6 DEF Recommend, MatchClassical, MatchLlm, RateByNobody, RateHybrid, RateLlm, RateFails,
       Respond, HeldInv
  <1>7. CASE Flip \/ UNCHANGED vars
    BY <1>7 DEF Flip, vars, analysis, HeldInv
  <1> QED BY <1>1, <1>2, <1>3, <1>4, <1>5, <1>6, <1>7 DEF Next

LEMMA Held == Spec => []HeldInv
  <1>1. Init => HeldInv
    BY DEF Init, HeldInv
  <1> QED BY <1>1, HeldStep, PTL DEF Spec

\* The steps that leave the insight alone, and those that take it away.
LEMMA InsightSteps ==
    ASSUME [Next]_vars
    PROVE  \/ insight' \in {insight, NoInsight}
           \/ \E f \in Files, b \in BOOLEAN, type \in DataTypes :
                 /\ insight' = Verdict(f, b, type)
                 /\ \/ Read(f).kind = "text" /\ b
                    \/ Read(f).kind \in {"none", "image"}
           \/ \E b \in BOOLEAN : stage = "image" /\ insight' = Verdict(file, b, "analytics")
           \/ NumbersRaise \/ AnswerRaises
           \/ ConcludeAlone \/ TakeSignals
  <1>1. ASSUME NEW f \in Files, Upload(f)
        PROVE  \/ insight' = NoInsight
               \/ \E b \in BOOLEAN, type \in DataTypes :
                     /\ insight' = Verdict(f, b, type)
                     /\ \/ Read(f).kind = "text" /\ b
                        \/ Read(f).kind \in {"none", "image"}
    BY <1>1 DEF Upload, DataTypes, CoreFields
  <1>2. CASE ReadImage
    BY <1>2 DEF ReadImage
  <1>3. CASE KeepMap \/ GuessColumns \/ GuessInVain \/ AskAgain \/ TakeNumbers
    BY <1>3 DEF KeepMap, GuessColumns, GuessInVain, AskAgain, TakeNumbers, analysis
  <1>4. ASSUME NEW override \in BOOLEAN, Apply(override) PROVE insight' = NoInsight
    BY <1>4 DEF Apply, ToForm
  <1>5. CASE Carry
    BY <1>5 DEF Carry, ToForm
  <1>6. ASSUME NEW form \in Forms, NEW mode \in Modes, Submit(form, mode) PROVE insight' = insight
    BY <1>6 DEF Submit, analysis
  <1>7. CASE Recommend \/ Flip \/ UNCHANGED vars
    BY <1>7 DEF Recommend, MatchClassical, MatchLlm, RateByNobody, RateHybrid, RateLlm, RateFails,
       Respond, Flip, vars, analysis
  <1> QED BY <1>1, <1>2, <1>3, <1>4, <1>5, <1>6, <1>7 DEF Next, Analyse, NoSignals

-----------------------------------------------------------------------------
(* Closeness respects dominance *)

\* The long division gives the quotient's first nine digits.
LEMMA DigitsOfQuotient ==
    ASSUME NEW a \in Nat, NEW b \in Nat \ {0}
    PROVE  /\ Digits(a, b) \in Nat
           /\ b * Digits(a, b) <= 1000000000 * a
           /\ 1000000000 * a < b * (Digits(a, b) + 1)
  <1> DEFINE x1 == 1000 * a
             q1 == x1 \div b
             r1 == x1 % b
             x2 == 1000 * r1
             q2 == x2 \div b
             r2 == x2 % b
             x3 == 1000 * r2
             q3 == x3 \div b
             r3 == x3 % b
  <1>1. q1 \in Nat /\ r1 \in 0..b-1 /\ x1 = b * q1 + r1
    <2>1. x1 \in Nat
      OBVIOUS
    <2> HIDE DEF x1
    <2> QED BY <2>1
  <1>2. q2 \in Nat /\ r2 \in 0..b-1 /\ x2 = b * q2 + r2
    <2>1. x2 \in Nat
      <3> HIDE DEF r1
      <3> QED BY <1>1
    <2> HIDE DEF x2
    <2> QED BY <2>1
  <1>3. q3 \in Nat /\ r3 \in 0..b-1 /\ x3 = b * q3 + r3
    <2>1. x3 \in Nat
      <3> HIDE DEF r2
      <3> QED BY <1>2
    <2> HIDE DEF x3
    <2> QED BY <2>1
  <1>4. Digits(a, b) = 1000000 * q1 + 1000 * q2 + q3
    BY DEF Digits
  <1> HIDE DEF x1, x2, x3, q1, q2, q3, r1, r2, r3
  <1>5. b * (1000000 * q1 + 1000 * q2 + q3) = 1000000 * (b * q1) + 1000 * (b * q2) + b * q3
    BY <1>1, <1>2, <1>3
  <1>6. 1000000000 * a = b * Digits(a, b) + r3
    <2> DEFINE x == b * q1
               y == b * q2
               z == b * q3
    <2>1. x \in Int /\ y \in Int /\ z \in Int
      BY <1>1, <1>2, <1>3
    <2>2. 1000 * a = x + r1 /\ 1000 * r1 = y + r2 /\ 1000 * r2 = z + r3
      BY <1>1, <1>2, <1>3 DEF x1, x2, x3
    <2>3. b * Digits(a, b) = 1000000 * x + 1000 * y + z
      BY <1>4, <1>5
    <2> HIDE DEF x, y, z
    <2> QED BY <1>1, <1>2, <1>3, <2>1, <2>2, <2>3
  <1>7. /\ b * (Digits(a, b) + 1) = b * Digits(a, b) + b
        /\ Digits(a, b) \in Nat /\ b * Digits(a, b) \in Int
    BY <1>1, <1>2, <1>3, <1>4
  <1> QED BY <1>3, <1>6, <1>7

\* Quotients that lie far enough apart differ in these digits.
LEMMA DigitsApart ==
    ASSUME NEW a \in Nat, NEW b \in Nat \ {0}, NEW c \in Nat, NEW d \in Nat \ {0},
           1000000000 * (a * d - c * b) >= b * d
    PROVE  Digits(a, b) > Digits(c, d)
  <1> DEFINE m == Digits(a, b)
             n == Digits(c, d)
  <1>1. m \in Nat /\ 1000000000 * a < b * (m + 1)
    BY DigitsOfQuotient
  <1>2. n \in Nat /\ d * n <= 1000000000 * c
    BY DigitsOfQuotient
  <1> HIDE DEF m, n
  <1>3. SUFFICES ASSUME m + 1 <= n PROVE FALSE
    BY <1>1, <1>2 DEF m, n
  <1>4. (1000000000 * a) * d < (b * (m + 1)) * d
    BY <1>1
  <1>5. (d * n) * b <= (1000000000 * c) * b
    BY <1>2
  <1>6. (b * d) * (m + 1) <= (b * d) * n
    BY <1>1, <1>2, <1>3
  <1> DEFINE bd == b * d
             ad == a * d
             cb == c * b
             x == bd * (m + 1)
             y == bd * n
  <1>7. bd \in Nat \ {0} /\ ad \in Int /\ cb \in Int /\ x \in Int /\ y \in Int
    BY <1>1, <1>2
  <1>8. (1000000000 * a) * d = 1000000000 * ad /\ (b * (m + 1)) * d = x
    BY <1>1
  <1>9. (d * n) * b = y /\ (1000000000 * c) * b = 1000000000 * cb
    BY <1>2
  <1>10. x <= y /\ 1000000000 * ad < x /\ y <= 1000000000 * cb
    BY <1>4, <1>5, <1>6, <1>8, <1>9
  <1>11. 1000000000 * (ad - cb) >= bd
    OBVIOUS
  <1> HIDE DEF bd, ad, cb, x, y
  <1> QED BY <1>7, <1>10, <1>11

PerCents == [Dimensions -> 0..100]
Rest(dims) == [k \in Dimensions |-> 100 - dims[k]]

LEMMA SquareRises ==
    ASSUME NEW x \in 0..100, NEW y \in 0..100, NEW w \in 1..7, x > y
    PROVE  Square(w * x) >= Square(w * y) + 1
  <1> DEFINE u == w * x
             v == w * y
  <1>1. u \in Nat /\ v \in Nat /\ u >= v + 1
    OBVIOUS
  <1> HIDE DEF u, v
  <1>2. u * u >= v * v + 1
    BY <1>1
  <1> QED BY <1>2 DEF Square, u, v

LEMMA SquareSum ==
    ASSUME NEW x \in 0..100
    PROVE  LET s == x * x + (100 - x) * (100 - x) IN s \in Nat /\ 5000 <= s /\ s <= 10000
  <1>1. (x - 50) * (x - 50) >= 0 /\ x * (100 - x) >= 0
    OBVIOUS
  <1> QED BY <1>1

LEMMA RestType == ASSUME NEW dims \in PerCents PROVE Rest(dims) \in PerCents
  BY DEF PerCents, Rest

LEMMA WeightType == \A k \in Dimensions : Weight[k] \in 1..7
  BY DEF Dimensions, Weight

\* More in a dimension weighs more.
LEMMA WeightedRises ==
    ASSUME NEW c \in PerCents, NEW d \in PerCents, NEW k \in Dimensions
    PROVE  /\ Weighted(c, k) \in Nat
           /\ c[k] > d[k] => Weighted(c, k) >= Weighted(d, k) + 1
           /\ c[k] = d[k] => Weighted(c, k) = Weighted(d, k)
  <1>1. c[k] \in 0..100 /\ d[k] \in 0..100 /\ Weight[k] \in 1..7
    BY WeightType DEF PerCents
  <1>2. Weight[k] * c[k] \in Nat
    BY <1>1
  <1>3. Weighted(c, k) \in Nat
    BY <1>2 DEF Weighted, Square
  <1>4. ASSUME c[k] > d[k] PROVE Weighted(c, k) >= Weighted(d, k) + 1
    <2>1. Square(Weight[k] * c[k]) >= Square(Weight[k] * d[k]) + 1
      BY <1>1, <1>4, SquareRises
    <2> QED BY <2>1 DEF Weighted
  <1>5. ASSUME c[k] = d[k] PROVE Weighted(c, k) = Weighted(d, k)
    BY <1>5 DEF Weighted
  <1> QED BY <1>3, <1>4, <1>5

\* The two distances together stay within bounds, whatever the dimensions.
LEMMA WeightedSum ==
    ASSUME NEW dims \in PerCents, NEW k \in Dimensions
    PROVE  LET s == Weighted(dims, k) + Weighted(Rest(dims), k)
           IN  5000 * Square(Weight[k]) <= s /\ s <= 10000 * Square(Weight[k])
  <1> DEFINE x == dims[k]
             w == Weight[k]
             s == x * x + (100 - x) * (100 - x)
             v == w * w
  <1>1. x \in 0..100 /\ w \in 1..7 /\ Rest(dims)[k] = 100 - x
    BY WeightType DEF PerCents, Rest
  <1>2. s \in Nat /\ 5000 <= s /\ s <= 10000
    BY <1>1, SquareSum
  <1>3. /\ Weighted(dims, k) = (w * x) * (w * x)
        /\ Weighted(Rest(dims), k) = (w * (100 - x)) * (w * (100 - x))
    BY <1>1 DEF Weighted, Square
  <1> HIDE DEF x, w
  <1>4. (w * x) * (w * x) + (w * (100 - x)) * (w * (100 - x)) = v * s
    BY <1>1
  <1>5. v \in Nat
    BY <1>1
  <1> HIDE DEF v, s
  <1>6. 5000 * v <= v * s /\ v * s <= 10000 * v
    BY <1>2, <1>5
  <1> QED BY <1>3, <1>4, <1>6 DEF Square, v, w

LEMMA Distances ==
    ASSUME NEW dims \in PerCents
    PROVE  /\ FromWorst(dims) \in Nat /\ FromBest(dims) \in Nat
           /\ 530000 <= FromWorst(dims) + FromBest(dims)
           /\ FromWorst(dims) + FromBest(dims) <= 1060000
  <1> DEFINE near(k) == Weighted(dims, k)
             far(k) == Weighted(Rest(dims), k)
  <1>1. /\ near("semantic") \in Nat /\ far("semantic") \in Nat
        /\ near("integration") \in Nat /\ far("integration") \in Nat
        /\ near("data") \in Nat /\ far("data") \in Nat
        /\ near("tech") \in Nat /\ far("tech") \in Nat
        /\ near("pain") \in Nat /\ far("pain") \in Nat
    BY RestType, WeightedRises DEF Dimensions
  <1>2. /\ 245000 <= near("semantic") + far("semantic")
        /\ near("semantic") + far("semantic") <= 490000
        /\ 5000 <= near("integration") + far("integration")
        /\ near("integration") + far("integration") <= 10000
        /\ 80000 <= near("data") + far("data") /\ near("data") + far("data") <= 160000
        /\ 20000 <= near("tech") + far("tech") /\ near("tech") + far("tech") <= 40000
        /\ 180000 <= near("pain") + far("pain") /\ near("pain") + far("pain") <= 360000
    <2>1. /\ Square(Weight["semantic"]) = 49 /\ Square(Weight["integration"]) = 1
          /\ Square(Weight["data"]) = 16 /\ Square(Weight["tech"]) = 4
          /\ Square(Weight["pain"]) = 36
      BY DEF Weight, Square
    <2> QED BY <2>1, WeightedSum, SMT DEF Dimensions
  <1>3. /\ FromWorst(dims) = near("semantic") + near("integration") + near("data") + near("tech")
                             + near("pain")
        /\ FromBest(dims) = far("semantic") + far("integration") + far("data") + far("tech")
                            + far("pain")
    BY DEF FromWorst, FromBest, Rest
  <1> HIDE DEF near, far
  <1> QED BY <1>1, <1>2, <1>3, SMT

LEMMA ClosenessType == ASSUME NEW dims \in PerCents PROVE Closeness(dims) \in Nat
  <1>1. FromWorst(dims) \in Nat /\ FromWorst(dims) + FromBest(dims) \in Nat \ {0}
    BY Distances, SMT
  <1> QED BY <1>1, DigitsOfQuotient DEF Closeness

\* Who dominates lies further from the worst and nearer to the best.
LEMMA FurtherFromWorst ==
    ASSUME NEW c \in PerCents, NEW d \in PerCents, c # d, \A k \in Dimensions : c[k] >= d[k]
    PROVE  FromWorst(c) >= FromWorst(d) + 1
  <1> DEFINE wc(k) == Weighted(c, k)
             wd(k) == Weighted(d, k)
  <1>1. \A k \in Dimensions : wc(k) \in Nat /\ wd(k) \in Nat /\ wc(k) >= wd(k)
    <2> SUFFICES ASSUME NEW k \in Dimensions
                 PROVE  wc(k) \in Nat /\ wd(k) \in Nat /\ wc(k) >= wd(k)
      OBVIOUS
    <2>1. c[k] \in 0..100 /\ d[k] \in 0..100 /\ c[k] >= d[k]
      BY DEF PerCents
    <2>2. c[k] > d[k] \/ c[k] = d[k]
      BY <2>1
    <2>3. wc(k) \in Nat /\ wd(k) \in Nat
      BY WeightedRises
    <2>4. c[k] > d[k] => wc(k) >= wd(k) + 1
      BY WeightedRises
    <2>5. c[k] = d[k] => wc(k) = wd(k)
      BY WeightedRises
    <2> HIDE DEF wc, wd
    <2> QED BY <2>2, <2>3, <2>4, <2>5
  <1>2. PICK k \in Dimensions : c[k] # d[k]
    BY DEF PerCents
  <1>3. c[k] > d[k]
    BY <1>2 DEF PerCents
  <1>4. wc(k) >= wd(k) + 1
    BY <1>3, WeightedRises
  <1>5. /\ FromWorst(c) = wc("semantic") + wc("integration") + wc("data") + wc("tech") + wc("pain")
        /\ FromWorst(d) = wd("semantic") + wd("integration") + wd("data") + wd("tech") + wd("pain")
    BY DEF FromWorst
  <1> HIDE DEF wc, wd
  <1> QED BY <1>1, <1>2, <1>4, <1>5 DEF Dimensions

LEMMA NearerBest ==
    ASSUME NEW c \in PerCents, NEW d \in PerCents, c # d, \A k \in Dimensions : c[k] >= d[k]
    PROVE  FromBest(d) >= FromBest(c) + 1
  <1>1. \A k \in Dimensions : Rest(d)[k] >= Rest(c)[k]
    BY DEF PerCents, Rest
  <1>2. Rest(c) # Rest(d)
    <2>1. PICK k \in Dimensions : c[k] # d[k]
      BY DEF PerCents
    <2>2. Rest(c)[k] # Rest(d)[k]
      BY <2>1 DEF PerCents, Rest
    <2> QED BY <2>2
  <1>3. FromWorst(Rest(d)) >= FromWorst(Rest(c)) + 1
    BY <1>1, <1>2, RestType, FurtherFromWorst
  <1> QED BY <1>3 DEF FromBest, Rest

\* A capability that dominates another has a strictly higher closeness: nine digits
\* are enough to tell them apart.
LEMMA DominanceShows ==
    ASSUME NEW c \in PerCents, NEW d \in PerCents, c # d, \A k \in Dimensions : c[k] >= d[k]
    PROVE  Closeness(c) > Closeness(d)
  <1> DEFINE a1 == FromWorst(c)
             b1 == FromBest(c)
             a2 == FromWorst(d)
             b2 == FromBest(d)
  <1>1. /\ a1 \in Nat /\ b1 \in Nat /\ 530000 <= a1 + b1 /\ a1 + b1 <= 1060000
        /\ a2 \in Nat /\ b2 \in Nat /\ 530000 <= a2 + b2 /\ a2 + b2 <= 1060000
    BY Distances, SMT
  <1>2. a1 >= a2 + 1 /\ b2 >= b1 + 1
    BY FurtherFromWorst, NearerBest
  <1> HIDE DEF a1, a2, b1, b2
  <1> DEFINE p == a1 - a2
             q == b2 - b1
  <1>3. p \in Nat \ {0} /\ q \in Nat \ {0} /\ a1 = a2 + p /\ b2 = b1 + q
    BY <1>1, <1>2
  <1> HIDE DEF p, q
  <1>4. a1 * b2 - a2 * b1 = a2 * q + p * b1 + p * q
    BY <1>1, <1>3
  <1>5. a2 * q >= a2 /\ p * b1 >= b1 /\ p * q >= q
    BY <1>1, <1>3
  <1>6. a2 * q \in Nat /\ p * b1 \in Nat /\ p * q \in Nat /\ a1 * b2 \in Int /\ a2 * b1 \in Int
    BY <1>1, <1>3
  <1>7. a1 * b2 - a2 * b1 >= 530000
    BY <1>1, <1>3, <1>4, <1>5, <1>6, SMT
  <1>8. a1 * (a2 + b2) - a2 * (a1 + b1) = a1 * b2 - a2 * b1
    BY <1>1
  <1>9. (a1 + b1) * (a2 + b2) <= 1060000 * 1060000
    BY <1>1, SMT
  <1>10. 1000000000 * (a1 * (a2 + b2) - a2 * (a1 + b1)) >= (a1 + b1) * (a2 + b2)
    <2> DEFINE s == (a1 + b1) * (a2 + b2)
               t == a1 * b2 - a2 * b1
    <2>1. s \in Int /\ t \in Int /\ s <= 1060000 * 1060000 /\ t >= 530000
      BY <1>1, <1>6, <1>7, <1>9, SMT
    <2> HIDE DEF s, t
    <2>2. 1000000000 * t >= s
      BY <2>1, SMT
    <2> QED BY <1>8, <2>2, SMT DEF s, t
  <1>11. Digits(a1, a1 + b1) > Digits(a2, a2 + b2)
    BY <1>1, <1>10, DigitsApart
  <1> QED BY <1>11 DEF Closeness, a1, a2, b1, b2

-----------------------------------------------------------------------------
(* Places *)

LEMMA LeastOf ==
    ASSUME NEW S, S \subseteq Nat, S # {}
    PROVE  Min(S) \in S /\ \A n \in S : Min(S) <= n
  <1>1. PICK least \in S : \A n \in S : <<n, least>> \notin OpToRel(<, Nat)
    BY NatLessThanWellFounded, WFMin
  <1>2. \A n \in S : ~(n < least)
    BY <1>1 DEF OpToRel
  <1>3. \A n \in S : least <= n
    BY <1>2
  <1> QED BY <1>3 DEF Min

\* A numbering without repetition by no more numbers than needed uses them all.
LEMMA NoGap ==
    ASSUME NEW S, IsFiniteSet(S), NEW f \in [S -> 1..Cardinality(S)],
           \A c, d \in S : f[c] = f[d] => c = d
    PROVE  {f[c] : c \in S} = 1..Cardinality(S)
  <1>1. Cardinality(S) \in Nat
    BY FS_CardinalityType
  <1>2. IsFiniteSet(1..Cardinality(S)) /\ Cardinality(1..Cardinality(S)) = Cardinality(S)
    <2> DEFINE n == Cardinality(S)
    <2>1. n \in Nat
      BY <1>1
    <2> HIDE DEF n
    <2>2. IsFiniteSet(1..n) /\ Cardinality(1..n) = n
      BY <2>1, FS_Interval
    <2> QED BY <2>2 DEF n
  <1>3. f \in Injection(S, 1..Cardinality(S))
    BY DEF Injection, IsInjective
  <1>4. f \in Surjection(S, 1..Cardinality(S))
    BY <1>2, <1>3, FS_Injection
  <1> QED BY <1>4 DEF Surjection

LEMMA AsMany ==
    ASSUME NEW S, IsFiniteSet(S), NEW f, DOMAIN f = S, f = [c \in S |-> f[c]], NEW n \in Nat,
           {f[c] : c \in S} = 1..n, \A c, d \in S : f[c] = f[d] => c = d
    PROVE  Cardinality(S) = n
  <1>1. f \in [S -> 1..n]
    OBVIOUS
  <1>2. f \in Injection(S, 1..n) /\ f \in Surjection(S, 1..n)
    BY <1>1 DEF Injection, IsInjective, Surjection
  <1>3. Cardinality(1..n) = Cardinality(S)
    BY <1>2, FS_Surjection
  <1>4. Cardinality(1..n) = n
    BY FS_Interval
  <1> QED BY <1>3, <1>4

\* Only the order of the members counts.
LEMMA PlaceOfMembers ==
    ASSUME NEW S, NEW score, NEW order
    PROVE  Place(S, score, order) = Place(S, score, [c \in S |-> order[c]])
  <1> DEFINE here == [c \in S |-> order[c]]
  <1>1. ASSUME NEW d \in S
        PROVE  {c \in S : Before(c, d, score, order)} = {c \in S : Before(c, d, score, here)}
    BY DEF Before
  <1> HIDE DEF here
  <1>2. Place(S, score, order) = Place(S, score, here)
    BY <1>1 DEF Place
  <1> QED BY <1>2 DEF here

LEMMA PlacesDiffer ==
    ASSUME NEW S, IsFiniteSet(S), NEW score \in [S -> Int], NEW order \in [S -> Int],
           \A c, d \in S : order[c] = order[d] => c = d
    PROVE  \A c, d \in S : Place(S, score, order)[c] = Place(S, score, order)[d] => c = d
  <1> SUFFICES ASSUME NEW c \in S, NEW d \in S, c # d
               PROVE  Place(S, score, order)[c] # Place(S, score, order)[d]
    OBVIOUS
  <1>1. Place(S, score, order)[c] \in Nat /\ Place(S, score, order)[d] \in Nat
    BY PlaceType
  <1>2. Before(c, d, score, order) \/ Before(d, c, score, order)
    BY DEF Before
  <1>3. \/ Place(S, score, order)[c] < Place(S, score, order)[d]
        \/ Place(S, score, order)[d] < Place(S, score, order)[c]
    BY <1>2, PlacesFollow
  <1> QED BY <1>1, <1>3

\* With an order that knows no ties the places are 1, 2, ... without gap.
LEMMA PlacesNumber ==
    ASSUME NEW S, IsFiniteSet(S), NEW score \in [S -> Int], NEW order \in [S -> Int],
           \A c, d \in S : order[c] = order[d] => c = d
    PROVE  {Place(S, score, order)[c] : c \in S} = 1..Cardinality(S)
  <1> DEFINE place == Place(S, score, order)
  <1>1. ASSUME NEW c \in S PROVE place[c] \in 1..Cardinality(S)
    <2> DEFINE Ahead == {b \in S : Before(b, c, score, order)}
    <2>1. Ahead \subseteq S \ {c}
      BY DEF Before
    <2>2. IsFiniteSet(S \ {c}) /\ Cardinality(S \ {c}) = Cardinality(S) - 1
      BY FS_RemoveElement
    <2>3. IsFiniteSet(Ahead) /\ Cardinality(Ahead) <= Cardinality(S \ {c})
      BY <2>1, <2>2, FS_Subset
    <2>4. Cardinality(Ahead) \in Nat /\ Cardinality(S) \in Nat
      BY <2>3, FS_CardinalityType
    <2>5. place[c] = 1 + Cardinality(Ahead)
      BY DEF Place
    <2> HIDE DEF Ahead, place
    <2> QED BY <2>2, <2>3, <2>4, <2>5
  <1>2. place \in [S -> 1..Cardinality(S)]
    <2>1. place = [c \in S |-> place[c]]
      BY DEF Place
    <2> HIDE DEF place
    <2> QED BY <1>1, <2>1
  <1>3. \A c, d \in S : place[c] = place[d] => c = d
    BY PlacesDiffer
  <1> HIDE DEF place
  <1>4. {place[c] : c \in S} = 1..Cardinality(S)
    BY <1>2, <1>3, NoGap
  <1> QED BY <1>4 DEF place

-----------------------------------------------------------------------------
(* Rankings *)

\* A ranking: places 1, 2, ... without gap, and dimensions that are per cents.
Ranked(r) ==
    /\ IsFiniteSet(DOMAIN r)
    /\ {r[c].place : c \in DOMAIN r} = 1..Cardinality(DOMAIN r)
    /\ \A c, d \in DOMAIN r : r[c].place = r[d].place => c = d
    /\ \A c \in DOMAIN r : r[c].place \in Nat /\ r[c].dims \in PerCents

\* The closer stand before the less close.
Sorted(r) == \A c, d \in DOMAIN r :
    Closeness(r[c].dims) > Closeness(r[d].dims) => r[c].place < r[d].place

Scores(S, dims) == [c \in S |-> Closeness(dims[c])]

\* How a ranking is made by closeness, ties decided by an order.
LEMMA PlacedIsRanked ==
    ASSUME NEW S, IsFiniteSet(S), NEW dims, \A c \in S : dims[c] \in PerCents,
           NEW order, \A c \in S : order[c] \in Int,
           \A c, d \in S : order[c] = order[d] => c = d,
           NEW r, DOMAIN r = S,
           \A c \in S : /\ r[c].place = Place(S, Scores(S, dims), order)[c]
                        /\ r[c].dims = dims[c]
    PROVE  Ranked(r) /\ Sorted(r)
  <1> DEFINE score == Scores(S, dims)
             tie == [c \in S |-> order[c]]
             place == Place(S, score, tie)
  <1>1. score \in [S -> Int]
    BY ClosenessType DEF Scores
  <1>2. tie \in [S -> Int] /\ \A c, d \in S : tie[c] = tie[d] => c = d
    OBVIOUS
  <1>3. \A c \in S : r[c].place = place[c] /\ r[c].dims = dims[c]
    BY PlaceOfMembers
  <1>4. \A c, d \in S : score[c] > score[d] => Before(c, d, score, tie)
    BY DEF Before
  <1>5. \A c \in S : score[c] = Closeness(dims[c])
    BY DEF Scores
  <1> HIDE DEF score, tie
  <1>6. {place[c] : c \in S} = 1..Cardinality(S)
    BY <1>1, <1>2, PlacesNumber
  <1>7. \A c, d \in S : place[c] = place[d] => c = d
    BY <1>1, <1>2, PlacesDiffer
  <1>8. \A c \in S : place[c] \in Nat
    BY PlaceType
  <1>9. \A c, d \in S : score[c] > score[d] => place[c] < place[d]
    BY <1>1, <1>2, <1>4, PlacesFollow
  <1> HIDE DEF place
  <1>10. Ranked(r)
    <2>1. {r[c].place : c \in S} = {place[c] : c \in S}
      BY <1>3
    <2> QED BY <1>3, <1>6, <1>7, <1>8, <2>1 DEF Ranked
  <1>11. Sorted(r)
    BY <1>3, <1>5, <1>9 DEF Sorted
  <1> QED BY <1>10, <1>11

\* The head of a ranking is a ranking.
LEMMA TopIsRanked ==
    ASSUME NEW r, Ranked(r), NEW n \in Nat
    PROVE  Ranked(Top(r, n)) /\ (Sorted(r) => Sorted(Top(r, n)))
  <1> DEFINE S == DOMAIN r
             T == {c \in S : r[c].place <= n}
             k == Cardinality(S)
             j == IF k <= n THEN k ELSE n
             top == Top(r, n)
             place == [c \in T |-> r[c].place]
  <1>1. DOMAIN top = T /\ \A c \in T : top[c] = r[c]
    BY DEF Top
  <1>2. IsFiniteSet(S) /\ IsFiniteSet(T) /\ k \in Nat
    BY FS_Subset, FS_CardinalityType DEF Ranked
  <1>3. /\ {r[c].place : c \in S} = 1..k
        /\ \A c \in S : r[c].place \in Nat /\ r[c].dims \in PerCents
        /\ \A c, d \in S : r[c].place = r[d].place => c = d
    BY DEF Ranked
  <1>4. T \subseteq S
    OBVIOUS
  <1>5. j \in Nat /\ \A m : m \in 1..j <=> m \in 1..k /\ m <= n
    <2> HIDE DEF k
    <2> QED BY <1>2
  <1>6. \A c \in T : r[c].place \in 1..j
    <2> HIDE DEF k, j
    <2> QED BY <1>3, <1>5
  <1>7. \A m \in 1..j : \E c \in T : r[c].place = m
    <2> SUFFICES ASSUME NEW m \in 1..j PROVE \E c \in T : r[c].place = m
      OBVIOUS
    <2>1. m \in 1..k /\ m <= n
      BY <1>5
    <2>2. PICK c \in S : r[c].place = m
      BY <1>3, <2>1
    <2> QED BY <2>1, <2>2
  <1>8. Cardinality(T) = j
    <2>1. DOMAIN place = T /\ \A c \in T : place[c] = r[c].place
      OBVIOUS
    <2>2. {place[c] : c \in T} = 1..j
      BY <1>6, <1>7, <2>1
    <2>3. \A c, d \in T : place[c] = place[d] => c = d
      BY <1>3, <1>4
    <2>4. place = [c \in T |-> place[c]]
      OBVIOUS
    <2> HIDE DEF T, place, j
    <2> QED BY <1>2, <1>5, <2>1, <2>2, <2>3, <2>4, AsMany
  <1> HIDE DEF S, T, k, j, top, place
  <1>9. {top[c].place : c \in T} = 1..j
    BY <1>1, <1>6, <1>7
  <1>10. Ranked(top)
    BY <1>1, <1>2, <1>3, <1>4, <1>8, <1>9 DEF Ranked
  <1>11. Sorted(r) => Sorted(top)
    BY <1>1, <1>4 DEF Sorted, S
  <1> QED BY <1>10, <1>11 DEF top

-----------------------------------------------------------------------------
(* The dimensions are per cents. *)

LEMMA QuotientType ==
    ASSUME NEW x \in Nat, NEW t \in Nat \ {0}, x <= 100 * t
    PROVE  x \div t \in 0..100
  <1> DEFINE q == x \div t
             r == x % t
  <1>1. q \in Nat /\ r \in Nat /\ x = t * q + r
    OBVIOUS
  <1> HIDE DEF q, r
  <1>2. ASSUME q >= 101 PROVE FALSE
    <2>1. t * q >= t * 101
      BY <1>1, <1>2
    <2> QED BY <1>1, <2>1
  <1>3. q \in 0..100
    BY <1>1, <1>2
  <1> QED BY <1>3 DEF q

LEMMA ShareType ==
    ASSUME NEW T, IsFiniteSet(T), T # {}, NEW S, S \subseteq T
    PROVE  Share(S, T) \in 0..100
  <1> DEFINE s == Cardinality(S)
             t == Cardinality(T)
  <1>1. s \in Nat /\ t \in Nat /\ s <= t
    BY FS_Subset, FS_CardinalityType
  <1>2. t # 0
    BY FS_EmptySet
  <1> HIDE DEF s, t
  <1>3. 100 * s \in Nat /\ t \in Nat \ {0} /\ 100 * s <= 100 * t
    BY <1>1, <1>2
  <1>4. (100 * s) \div t \in 0..100
    BY <1>3, QuotientType
  <1> QED BY <1>4 DEF Share, s, t

LEMMA MaxInt == ASSUME NEW x \in Int, NEW y \in Int
                PROVE  Max({x, y}) = IF x >= y THEN x ELSE y
  BY DEF Max

LEMMA MinInt == ASSUME NEW x \in Int, NEW y \in Int
                PROVE  Min({x, y}) = IF x <= y THEN x ELSE y
  BY DEF Min

\* The tools that the products of a capability work with are finitely many.
LEMMA ToolsFinite == \A c \in DOMAIN Catalogue : IsFiniteSet(AvailableIntegrations[c])
  <1> TAKE c \in DOMAIN Catalogue
  <1> DEFINE P == ProductsOf[c]
             tools == [p \in P |-> p.integrations]
             U == UNION {p.integrations : p \in P}
             base == [i \in U |-> BaseName(i)]
  <1>1. P \subseteq Products /\ IsFiniteSet(P)
    BY ProductsAssumption, FS_Subset DEF ProductsOf
  <1>2. IsFiniteSet({p.integrations : p \in P})
    <2>1. tools \in Surjection(P, {p.integrations : p \in P})
      BY DEF Surjection
    <2> QED BY <1>1, <2>1, FS_Surjection
  <1>3. IsFiniteSet(U)
    <2>1. \A T \in {p.integrations : p \in P} : IsFiniteSet(T)
      BY <1>1, ProductsAssumption
    <2> QED BY <1>2, <2>1, FS_UNION
  <1>4. AvailableIntegrations[c] = {BaseName(i) : i \in U}
    BY DEF AvailableIntegrations
  <1>5. base \in Surjection(U, {BaseName(i) : i \in U})
    BY DEF Surjection
  <1> QED BY <1>3, <1>4, <1>5, FS_Surjection

LEMMA IntegrationType ==
    ASSUME NEW company, NEW c \in DOMAIN Catalogue
    PROVE  IntegrationCompat(c, company) \in 0..100
  <1> DEFINE own == {BaseName(t) : t \in company.tools}
             theirs == AvailableIntegrations[c]
  <1>1. theirs # {} => Share(own \cap theirs, theirs) \in 0..100
    <2>1. IsFiniteSet(theirs)
      BY ToolsFinite
    <2> HIDE DEF own, theirs
    <2> QED BY <2>1, ShareType
  <1>2. IntegrationCompat(c, company) = IF theirs = {} THEN 50 ELSE Share(own \cap theirs, theirs)
    BY DEF IntegrationCompat
  <1> HIDE DEF own, theirs
  <1> QED BY <1>1, <1>2

LEMMA DataType ==
    ASSUME NEW company, company.history \in Nat, NEW c \in DOMAIN Catalogue
    PROVE  DataReadiness(c, company) \in 0..100
  <1> DEFINE cap == Catalogue[c]
             export == IF ~cap.works /\ company.orders = 0 /\ ~company.structured THEN 30 ELSE 100
             types == IF cap.types = {} THEN 100
                      ELSE Share(cap.types \cap company.exports, cap.types)
             part == (100 * company.history) \div cap.gate
             history == IF company.history >= cap.gate THEN 100 ELSE Max({40, part})
  <1>1. DataReadiness(c, company) = (export * types * history) \div 10000
    BY DEF DataReadiness
  <1>2. export \in 0..100
    OBVIOUS
  <1>3. types \in 0..100
    <2>1. IsFiniteSet(cap.types)
      BY CatalogueAssumption
    <2>2. cap.types # {} => Share(cap.types \cap company.exports, cap.types) \in 0..100
      BY <2>1, ShareType
    <2> HIDE DEF cap
    <2> QED BY <2>2
  <1>4. history \in 0..100
    <2>1. cap.gate \in Int
      BY CatalogueAssumption
    <2> HIDE DEF cap
    <2>2. CASE company.history >= cap.gate
      BY <2>2
    <2>3. CASE ~(company.history >= cap.gate)
      <3>1. /\ 100 * company.history \in Nat /\ cap.gate \in Nat \ {0}
            /\ 100 * company.history <= 100 * cap.gate
        BY <2>1, <2>3
      <3>2. part \in 0..100
        BY <3>1, QuotientType
      <3> HIDE DEF part
      <3>3. Max({40, part}) \in 0..100
        BY <3>2, MaxInt
      <3> QED BY <2>3, <3>3
    <2> QED BY <2>2, <2>3
  <1> HIDE DEF export, types, history
  <1> DEFINE product == export * types * history
  <1>5. product \in Nat /\ product <= 100 * 10000
    <2>1. export * types \in Nat /\ export * types <= 10000
      BY <1>2, <1>3
    <2> QED BY <1>4, <2>1
  <1> HIDE DEF product
  <1>6. product \div 10000 \in 0..100
    BY <1>5, QuotientType
  <1> QED BY <1>1, <1>6 DEF product

LEMMA PainType ==
    ASSUME NEW company, NEW c \in DOMAIN Catalogue
    PROVE  PainMatch(c, company) \in 0..100
  <1> DEFINE points == Catalogue[c].points
  <1>1. IsFiniteSet(points)
    BY CatalogueAssumption
  <1>2. PainMatch(c, company) = IF points = {} \/ company.flags = {} THEN 50
                                ELSE Share(points \cap company.flags, points)
    BY DEF PainMatch
  <1> HIDE DEF points
  <1>3. points # {} => Share(points \cap company.flags, points) \in 0..100
    BY <1>1, ShareType
  <1> QED BY <1>2, <1>3

LEMMA DimsType ==
    ASSUME NEW company, company.history \in Nat, NEW c \in DOMAIN Catalogue,
           NEW semantic \in 0..100
    PROVE  Dims(c, company, semantic) \in PerCents
  <1>1. TechFit(c, company) \in 0..100
    BY DEF TechFit
  <1>2. /\ IntegrationCompat(c, company) \in 0..100 /\ DataReadiness(c, company) \in 0..100
        /\ PainMatch(c, company) \in 0..100
    BY IntegrationType, DataType, PainType
  <1> QED BY <1>1, <1>2 DEF Dims, PerCents, Dimensions

-----------------------------------------------------------------------------
(* The engines *)

LEMMA ScopedFinite ==
    ASSUME NEW company
    PROVE  Scoped(company) \subseteq DOMAIN Catalogue /\ IsFiniteSet(Scoped(company))
  <1>1. Scoped(company) \subseteq DOMAIN Catalogue
    BY ScopedType
  <1> QED BY <1>1, CatalogueAssumption, FS_Subset

LEMMA ClassicalRanked ==
    ASSUME NEW company, company.history \in Nat, NEW e \in Encodings, NEW x \in Crosses
    PROVE  Ranked(ClassicalRanking(company, e, x)) /\ Sorted(ClassicalRanking(company, e, x))
  <1> DEFINE S == Candidates(company, e)
             dims == [c \in S |-> Dims(c, company, Similarity(c, company, e))]
             r == ClassicalRanking(company, e, x)
  <1>1. S \subseteq DOMAIN Catalogue /\ IsFiniteSet(S)
    BY ScopedFinite, FS_Subset DEF Candidates
  <1>2. ASSUME NEW c \in S PROVE Similarity(c, company, e) \in 0..100
    <2>1. CASE ~company.text
      BY <2>1 DEF Similarity
    <2>2. CASE company.text
      <3>1. c \in DOMAIN e
        BY <2>2 DEF Candidates
      <3>2. PICK v \in -100..100 : e[c] = v
        BY <3>1, AnswersAssumption
      <3>3. Max({0, v}) \in 0..100
        BY MaxInt
      <3> QED BY <2>2, <3>2, <3>3 DEF Similarity
    <2> QED BY <2>1, <2>2
  <1>3. \A c \in S : dims[c] \in PerCents
    BY <1>1, <1>2, DimsType
  <1>4. /\ \A c \in S : x[c] \in Int
        /\ \A c, d \in S : x[c] = x[d] => c = d
    BY <1>1, AnswersAssumption
  <1>5. /\ DOMAIN r = S
        /\ \A c \in S : /\ r[c].place = Place(S, Scores(S, dims), x)[c]
                        /\ r[c].dims = dims[c]
    BY DEF ClassicalRanking, Scores
  <1> HIDE DEF S, dims, r
  <1>6. Ranked(r) /\ Sorted(r)
    BY <1>1, <1>3, <1>4, <1>5, PlacedIsRanked
  <1> QED BY <1>6 DEF r

LEMMA Floored == ASSUME NEW h \in Int, h <= 100 PROVE Max({0, h}) \in 0..100
  <1>1. PICK m : m = Max({0, h})
    OBVIOUS
  <1>2. m = IF 0 >= h THEN 0 ELSE h
    BY <1>1, MaxInt
  <1>3. m \in 0..100
    BY <1>2
  <1> QED BY <1>1, <1>3

LEMMA ClampType == ASSUME NEW v \in Int PROVE Clamp(v) \in 0..100
  <1>1. PICK h \in Int : h = Min({100, 10 * v}) /\ h <= 100
    <2>1. PICK w \in Int : w = 10 * v
      OBVIOUS
    <2>2. Min({100, w}) = IF 100 <= w THEN 100 ELSE w
      BY MinInt
    <2>3. PICK h : h = Min({100, 10 * v})
      OBVIOUS
    <2>4. h = IF 100 <= w THEN 100 ELSE w
      BY <2>1, <2>2, <2>3
    <2>5. h \in Int /\ h <= 100
      BY <2>4
    <2> QED BY <2>3, <2>5
  <1>2. Max({0, h}) \in 0..100
    BY <1>1, Floored
  <1> QED BY <1>1, <1>2 DEF Clamp

LEMMA RerankRanked ==
    ASSUME NEW list, Ranked(list), NEW scores, \A c \in DOMAIN scores : scores[c] \in Int
    PROVE  Ranked(Rerank(list, scores)) /\ Sorted(Rerank(list, scores))
  <1> DEFINE short == Top(list, PrefilterK)
             S == DOMAIN short
             dims == [c \in S |-> IF c \in DOMAIN scores
                                  THEN [short[c].dims EXCEPT !.semantic = Clamp(scores[c])]
                                  ELSE short[c].dims]
             order == [c \in S |-> short[c].place]
             place == Place(S, [c \in S |-> Closeness(dims[c])], order)
             r == [c \in S |-> [place |-> place[c], dims |-> dims[c],
                                explanation |-> short[c].explanation]]
  <1>1. Ranked(short)
    BY TopIsRanked DEF PrefilterK
  <1>2. IsFiniteSet(S)
    BY <1>1 DEF Ranked
  <1>3. \A c \in S : dims[c] \in PerCents
    <2> SUFFICES ASSUME NEW c \in S PROVE dims[c] \in PerCents
      OBVIOUS
    <2>1. short[c].dims \in PerCents
      BY <1>1 DEF Ranked
    <2>2. CASE c \notin DOMAIN scores
      BY <2>1, <2>2
    <2>3. CASE c \in DOMAIN scores
      <3>1. Clamp(scores[c]) \in 0..100
        <4>1. PICK v \in Int : scores[c] = v
          BY <2>3
        <4> QED BY <4>1, ClampType
      <3>2. dims[c] = [short[c].dims EXCEPT !.semantic = Clamp(scores[c])]
        BY <2>3
      <3> HIDE DEF short, dims
      <3> QED BY <2>1, <3>1, <3>2 DEF PerCents
    <2> QED BY <2>2, <2>3
  <1>4. /\ \A c \in S : order[c] \in Int
        /\ \A c, d \in S : order[c] = order[d] => c = d
    BY <1>1 DEF Ranked
  <1>5. /\ DOMAIN r = S
        /\ \A c \in S : /\ r[c].place = Place(S, Scores(S, dims), order)[c]
                        /\ r[c].dims = dims[c]
    BY DEF Scores
  <1>6. Rerank(list, scores) = Top(r, TopN)
    BY DEF Rerank
  <1> HIDE DEF S, dims, order, place, r
  <1>7. Ranked(r) /\ Sorted(r)
    BY <1>2, <1>3, <1>4, <1>5, PlacedIsRanked
  <1> QED BY <1>6, <1>7, TopIsRanked DEF TopN

\* The LLM's own list: its places are those of the first mentions.
LEMMA LlmRanked ==
    ASSUME NEW list, DOMAIN list \subseteq Nat, NEW ids, IsFiniteSet(ids)
    PROVE  Ranked(LlmRanking(list, ids)) /\ Sorted(LlmRanking(list, ids))
  <1> DEFINE S == {list[i] : i \in DOMAIN list} \cap ids
             dims == [c \in S |-> NoDims]
             order == [c \in S |-> First(c, list)]
             even == Closeness(NoDims)
             score == Scores(S, dims)
             r == LlmRanking(list, ids)
  <1>1. IsFiniteSet(S)
    BY FS_Subset
  <1>2. NoDims \in PerCents
    BY DEF NoDims, PerCents
  <1>3. ASSUME NEW c \in S PROVE First(c, list) \in DOMAIN list /\ list[First(c, list)] = c
    <2> DEFINE I == {i \in DOMAIN list : list[i] = c}
    <2>1. I \subseteq Nat /\ I # {}
      OBVIOUS
    <2>2. Min(I) \in I
      BY <2>1, LeastOf
    <2> QED BY <2>2 DEF First
  <1>4. /\ \A c \in S : order[c] \in Int
        /\ \A c, d \in S : order[c] = order[d] => c = d
    BY <1>3
  <1>5. \A c \in S : dims[c] \in PerCents
    BY <1>2
  <1>6. ASSUME NEW c \in S
        PROVE  {d \in S : Before(d, c, score, order)} = {d \in S : First(d, list) < First(c, list)}
    <2>1. \A d \in S : score[d] = even /\ score[c] = even
      BY DEF Scores
    <2>2. even \in Nat
      BY <1>2, ClosenessType
    <2> HIDE DEF score, even
    <2> QED BY <2>1, <2>2 DEF Before
  <1>7. ASSUME NEW c \in S
        PROVE  r[c].place = Place(S, score, order)[c] /\ r[c].dims = dims[c]
    <2>1. r[c].place = 1 + Cardinality({d \in S : First(d, list) < First(c, list)})
      BY DEF LlmRanking
    <2>2. Place(S, score, order)[c] = 1 + Cardinality({d \in S : Before(d, c, score, order)})
      BY DEF Place
    <2>3. r[c].dims = dims[c]
      BY DEF LlmRanking
    <2> QED BY <1>6, <2>1, <2>2, <2>3
  <1>8. DOMAIN r = S
    BY DEF LlmRanking
  <1>9. score = Scores(S, dims)
    OBVIOUS
  <1> HIDE DEF S, dims, order, score, r
  <1>10. Ranked(r) /\ Sorted(r)
    BY <1>1, <1>4, <1>5, <1>7, <1>8, <1>9, PlacedIsRanked
  <1> QED BY <1>10 DEF r

LEMMA EmptyRanked == Ranked(<<>>) /\ Sorted(<<>>)
  <1>1. DOMAIN <<>> = {}
    OBVIOUS
  <1>2. IsFiniteSet({}) /\ Cardinality({}) = 0 /\ 1..0 = {}
    BY FS_EmptySet
  <1> QED BY <1>1, <1>2 DEF Ranked, Sorted

-----------------------------------------------------------------------------
(* Dominance *)

\* The inductive invariant: what is ranked is ranked by closeness, on per cents, and the
\* history the data are judged by is a number.
RankInv == profile.history \in Nat /\ Ranked(ranking) /\ Sorted(ranking)

LEMMA HistoryType == ASSUME NEW form PROVE Translate(form).history \in Nat
  <1>1. Translate(form).history = Field(form.answers, "data_history_months", HistoryMonths, 0)
    BY DEF Translate
  <1>2. \A m \in DOMAIN HistoryMonths : HistoryMonths[m] \in Nat
    BY TablesAssumption
  <1> HIDE DEF HistoryMonths
  <1> QED BY <1>1, <1>2 DEF Field

LEMMA RankStep == RankInv /\ [Next]_vars => RankInv'
  <1> SUFFICES ASSUME RankInv, [Next]_vars PROVE RankInv'
    OBVIOUS
  <1> USE DEF RankInv
  <1>1. ASSUME UNCHANGED <<profile, ranking>> PROVE RankInv'
    BY <1>1 DEF Ranked, Sorted
  <1>2. ASSUME UNCHANGED profile, NEW r, ranking' = r, Ranked(r), Sorted(r) PROVE RankInv'
    BY <1>2 DEF Ranked, Sorted
  <1>3. ASSUME NEW f \in Files, Upload(f) PROVE RankInv'
    BY <1>1, <1>3 DEF Upload, request
  <1>4. CASE Analyse
    BY <1>1, <1>4 DEF Analyse, KeepMap, GuessColumns, GuessInVain, NoSignals, ConcludeAlone,
       AskAgain, TakeSignals, ReadImage, TakeNumbers, NumbersRaise, AnswerRaises, Fail, Conclude,
       Measure, request
  <1>5. ASSUME NEW override \in BOOLEAN, Apply(override) PROVE RankInv'
    BY <1>1, <1>5 DEF Apply, request
  <1>6. CASE Carry
    BY <1>1, <1>6 DEF Carry, request
  <1>7. ASSUME NEW form \in Forms, NEW mode \in Modes, Submit(form, mode) PROVE RankInv'
    <2>1. profile' = [Translate(form) EXCEPT !.flags = @ \cup Confident(carried.flags),
                                             !.text = @ \/ carried.facts # {}]
      BY <1>7 DEF Submit
    <2>2. Translate(form).history \in Nat
      BY HistoryType
    <2>3. profile'.history \in Nat
      BY <2>1, <2>2 DEF Translate
    <2>4. UNCHANGED ranking
      BY <1>7 DEF Submit
    <2> QED BY <2>3, <2>4 DEF Ranked, Sorted
  <1>8. CASE MatchClassical
    <2>1. PICK e \in Encodings, x \in Crosses : ranking' = ClassicalRanking(profile, e, x)
      BY <1>8 DEF MatchClassical
    <2>2. UNCHANGED profile
      BY <1>8 DEF MatchClassical
    <2> QED BY <1>2, <2>1, <2>2, ClassicalRanked
  <1>9. CASE MatchLlm
    BY <1>1, <1>9 DEF MatchLlm, request
  <1>10. CASE RateByNobody
    BY <1>2, <1>10, TopIsRanked DEF RateByNobody, TopN
  <1>11. CASE RateHybrid
    <2>1. CASE UNCHANGED ranking
      BY <1>1, <1>11, <2>1 DEF RateHybrid
    <2>2. ASSUME NEW reply \in Replies,
                 ranking' = Rerank(ranking, Usable(reply, DOMAIN Top(ranking, PrefilterK)))
          PROVE  RankInv'
      <3> DEFINE scores == Usable(reply, DOMAIN Top(ranking, PrefilterK))
      <3>1. \A c \in DOMAIN scores : scores[c] \in Int
        BY AnswersAssumption DEF Usable
      <3> HIDE DEF scores
      <3>2. Ranked(Rerank(ranking, scores)) /\ Sorted(Rerank(ranking, scores))
        BY <3>1, RerankRanked
      <3> QED BY <1>2, <1>11, <2>2, <3>2 DEF RateHybrid, scores
    <2> QED BY <1>11, <2>1, <2>2 DEF RateHybrid
  <1>12. CASE RateLlm
    <2>1. PICK list \in Lists : ranking' = LlmRanking(list, Scoped(profile))
      BY <1>12 DEF RateLlm
    <2>2. Ranked(LlmRanking(list, Scoped(profile))) /\ Sorted(LlmRanking(list, Scoped(profile)))
      BY ScopedFinite, LlmRanked, AnswersAssumption
    <2> QED BY <1>2, <1>12, <2>1, <2>2 DEF RateLlm
  <1>13. CASE RateFails
    BY <1>1, <1>13 DEF RateFails, request
  <1>14. CASE Respond
    BY <1>2, <1>14, TopIsRanked DEF Respond, MaxResults
  <1>15. CASE Flip \/ UNCHANGED vars
    BY <1>1, <1>15 DEF Flip, vars, request
  <1> QED BY <1>3, <1>4, <1>5, <1>6, <1>7, <1>8, <1>9, <1>10, <1>11, <1>12, <1>13, <1>14, <1>15
          DEF Next, Recommend

LEMMA RankedByCloseness == Spec => []RankInv
  <1>1. ASSUME Init PROVE RankInv
    <2>1. ranking = <<>> /\ profile.history \in Nat
      BY <1>1 DEF Init, NoProfile
    <2>2. Ranked(<<>>) /\ Sorted(<<>>)
      BY EmptyRanked
    <2>3. Ranked(ranking) /\ Sorted(ranking)
      BY <2>1, <2>2, Zenon
    <2> QED BY <2>1, <2>3 DEF RankInv
  <1> QED BY <1>1, RankStep, PTL DEF Spec

\* What is at least as good in every dimension and better in one is never placed behind,
\* whatever the encoders and the LLM answer: nine decimals of the closeness are enough
\* to tell two such offers apart, so no tie and no cross-encoder decides between them.
THEOREM Dominates == Spec => []DominanceRespected
  <1>1. RankInv => DominanceRespected
    <2> SUFFICES ASSUME RankInv, asked.engine # "llm",
                        NEW c \in DOMAIN ranking, NEW d \in DOMAIN ranking,
                        \A k \in Dimensions : ranking[c].dims[k] >= ranking[d].dims[k],
                        ranking[c].dims # ranking[d].dims
                 PROVE  ranking[c].place < ranking[d].place
      BY DEF DominanceRespected
    <2>1. ranking[c].dims \in PerCents /\ ranking[d].dims \in PerCents
      BY DEF RankInv, Ranked
    <2>2. Closeness(ranking[c].dims) > Closeness(ranking[d].dims)
      BY <2>1, DominanceShows
    <2> QED BY <2>2 DEF RankInv, Sorted
  <1> QED BY <1>1, RankedByCloseness, PTL

-----------------------------------------------------------------------------
(* Types: what a map, an insight and a profile may hold *)

LEMMA GreatestOf ==
    ASSUME NEW S, S \subseteq 0..100, S # {}
    PROVE  Max(S) \in S
  <1> DEFINE T == {100 - n : n \in S}
  <1>1. T \subseteq Nat /\ T # {}
    <2>1. \A n \in S : 100 - n \in Nat
      OBVIOUS
    <2>2. PICK n : n \in S
      OBVIOUS
    <2>3. 100 - n \in T
      BY <2>2
    <2> QED BY <2>1, <2>3
  <1>2. PICK least \in T : \A n \in T : least <= n
    BY <1>1, LeastOf
  <1>3. PICK great \in S : least = 100 - great
    BY <1>2
  <1>4. \A n \in S : great >= n
    <2> TAKE n \in S
    <2>1. 100 - n \in T
      OBVIOUS
    <2>2. least <= 100 - n
      BY <1>2, <2>1
    <2> HIDE DEF T
    <2> QED BY <1>3, <2>2
  <1> HIDE DEF T
  <1> QED BY <1>4 DEF Max

LEMMA CountType ==
    ASSUME NEW a, NEW b, NEW c, NEW d
    PROVE  25 * Count(<<a, b, c, d>>) \in 0..100
  <1> DEFINE I == {i \in 1..4 : <<a, b, c, d>>[i]}
  <1>1. IsFiniteSet(1..4) /\ Cardinality(1..4) = 4
    <2>1. PICK first \in Int, last \in Int : first = 1 /\ last = 4
      OBVIOUS
    <2>2. /\ IsFiniteSet(first..last)
          /\ Cardinality(first..last) = IF first > last THEN 0 ELSE last - first + 1
      BY FS_Interval
    <2> QED BY <2>1, <2>2
  <1>2. IsFiniteSet(I) /\ Cardinality(I) <= 4
    BY <1>1, FS_Subset
  <1>3. Cardinality(I) \in Nat
    BY <1>2, FS_CardinalityType
  <1>4. Count(<<a, b, c, d>>) = Cardinality(I)
    BY DEF Count
  <1> HIDE DEF I
  <1> QED BY <1>2, <1>3, <1>4

\* A type's score.
Scored(s) == s.type \in DataTypes /\ s.score \in 0..100

LEMMA ScoresType ==
    ASSUME NEW fields, NEW roles, NEW rows
    PROVE  /\ DOMAIN TypeScores(fields, roles, rows) = 1..5
           /\ \A i \in 1..5 : Scored(TypeScores(fields, roles, rows)[i])
  <1> DEFINE scores == TypeScores(fields, roles, rows)
  <1>1. DOMAIN scores = 1..5
    BY DEF TypeScores
  <1>2. Scored(scores[1])
    BY CountType DEF TypeScores, Scored, DataTypes, CoreFields
  <1>3. Scored(scores[2])
    BY CountType DEF TypeScores, Scored, DataTypes, CoreFields
  <1>4. Scored(scores[3])
    BY CountType DEF TypeScores, Scored, DataTypes, CoreFields
  <1>5. Scored(scores[4])
    BY DEF TypeScores, Scored, DataTypes, CoreFields
  <1>6. Scored(scores[5])
    BY DEF TypeScores, Scored, DataTypes, CoreFields
  <1> HIDE DEF scores
  <1>7. \A i \in 1..5 : Scored(scores[i])
    BY <1>2, <1>3, <1>4, <1>5, <1>6
  <1> QED BY <1>1, <1>7 DEF scores

LEMMA ClassifyType ==
    ASSUME NEW fields, NEW roles, NEW rows
    PROVE  Scored(Classify(fields, roles, rows))
  <1> DEFINE scores == TypeScores(fields, roles, rows)
             all == {scores[i].score : i \in DOMAIN scores}
             best == Max(all)
             where == {i \in DOMAIN scores : scores[i].score = best}
  <1>1. DOMAIN scores = 1..5 /\ \A i \in DOMAIN scores : Scored(scores[i])
    BY ScoresType
  <1>2. Classify(fields, roles, rows) = IF best = 0 THEN [type |-> "unknown", score |-> 0]
                                        ELSE scores[Min(where)]
    BY DEF Classify
  <1> HIDE DEF scores
  <1>3. all \subseteq 0..100 /\ all # {}
    BY <1>1 DEF Scored
  <1>4. best \in all
    BY <1>3, GreatestOf
  <1> HIDE DEF best
  <1>5. where \subseteq Nat /\ where # {}
    BY <1>1, <1>4
  <1>6. Min(where) \in where
    BY <1>5, LeastOf
  <1>7. Scored(scores[Min(where)])
    BY <1>1, <1>6
  <1>8. Scored([type |-> "unknown", score |-> 0])
    BY DEF Scored, DataTypes
  <1> QED BY <1>2, <1>7, <1>8

LEMMA Six ==
    ASSUME NEW a, NEW b, NEW c, NEW d, NEW e, NEW f
    PROVE  IsFiniteSet({a, b, c, d, e, f})
  <1>1. IsFiniteSet({a}) /\ IsFiniteSet({b}) /\ IsFiniteSet({c})
    BY FS_Singleton
  <1>2. IsFiniteSet({d}) /\ IsFiniteSet({e}) /\ IsFiniteSet({f})
    BY FS_Singleton
  <1>3. IsFiniteSet({a} \cup {b})
    BY <1>1, FS_Union
  <1>4. IsFiniteSet({c} \cup {d})
    BY <1>1, <1>2, FS_Union
  <1>5. IsFiniteSet({e} \cup {f})
    BY <1>2, FS_Union
  <1>6. IsFiniteSet(({a} \cup {b}) \cup ({c} \cup {d}))
    BY <1>3, <1>4, FS_Union
  <1>7. IsFiniteSet((({a} \cup {b}) \cup ({c} \cup {d})) \cup ({e} \cup {f}))
    BY <1>5, <1>6, FS_Union
  <1>8. {a, b, c, d, e, f} = (({a} \cup {b}) \cup ({c} \cup {d})) \cup ({e} \cup {f})
    OBVIOUS
  <1> QED BY <1>7, <1>8, Zenon

LEMMA FieldsFinite == IsFiniteSet(StandardFields)
  <1> DEFINE A == {"order_number", "name", "created_at", "order_date", "data", "status"}
             B == {"state", "total", "price", "total_stock", "source", "product"}
             C == {"description", "quantity", "customer", "city", "country", "carrier"}
             D == {"shipped_at", "owner", "email", "phone", "case_id", "subject"}
             E == {"opened_at", "first_reply", "response_time_h", "contact", "deal_stage", "on_hand"}
             F == {"c1", "c2", "c3", "c1", "c2", "c3"}
             fields == {FieldOf[h] : h \in DOMAIN FieldOf}
  <1>1. IsFiniteSet(A) /\ IsFiniteSet(B) /\ IsFiniteSet(C) /\ IsFiniteSet(D) /\ IsFiniteSet(E)
        /\ IsFiniteSet(F)
    BY Six
  <1>2. DOMAIN FieldOf = (A \cup B \cup C) \cup (D \cup E \cup F)
    BY DEF FieldOf
  <1> HIDE DEF A, B, C, D, E, F
  <1>3. IsFiniteSet(A \cup B) /\ IsFiniteSet(D \cup E)
    BY <1>1, FS_Union
  <1>4. IsFiniteSet(A \cup B \cup C) /\ IsFiniteSet(D \cup E \cup F)
    BY <1>1, <1>3, FS_Union
  <1>5. IsFiniteSet(DOMAIN FieldOf)
    BY <1>2, <1>4, FS_Union
  <1>6. [h \in DOMAIN FieldOf |-> FieldOf[h]] \in Surjection(DOMAIN FieldOf, fields)
    BY DEF Surjection
  <1>7. IsFiniteSet(fields)
    BY <1>5, <1>6, FS_Surjection
  <1> QED BY <1>7, FS_Subset DEF StandardFields

MapOK(m) == m.type \in DataTypes /\ m.confidence \in 0..100

LEMMA ClassicalMap == ASSUME NEW read PROVE MapOK(Classical(read))
  <1> DEFINE mapping == Fingerprint(read.columns)
             roles == {Role(read.columns[i], read.rows) : i \in DOMAIN read.columns}
             best == Classify(DOMAIN mapping, roles, read.rows)
  <1>1. Classical(read).type = best.type /\ Classical(read).confidence = best.score
    BY DEF Classical
  <1>2. Scored(best)
    BY ClassifyType
  <1> HIDE DEF best
  <1> QED BY <1>1, <1>2 DEF Scored, MapOK

\* At most 100 and at least what there was.
LEMMA Raised ==
    ASSUME NEW x \in 0..100, NEW y \in Nat
    PROVE  Max({x, Min({100, 25 * y})}) \in 0..100
  <1>1. PICK w \in Int : w = 25 * y /\ w >= 0
    OBVIOUS
  <1>2. PICK h : h = Min({100, 25 * y})
    OBVIOUS
  <1>3. Min({100, w}) = IF 100 <= w THEN 100 ELSE w
    BY MinInt
  <1>4. h = IF 100 <= w THEN 100 ELSE w
    BY <1>1, <1>2, <1>3
  <1>5. h \in 0..100
    BY <1>1, <1>4
  <1>6. Max({x, h}) = IF x >= h THEN x ELSE h
    BY <1>5, MaxInt
  <1>7. Max({x, h}) \in 0..100
    BY <1>5, <1>6
  <1> QED BY <1>2, <1>7

LEMMA MergedMap ==
    ASSUME NEW m, MapOK(m), NEW guess, NEW read
    PROVE  MapOK(Merged(m, Sound(guess, read)))
  <1> DEFINE sound == Sound(guess, read)
             D == DOMAIN sound.mapping
  <1>1. sound.type \in DataTypes
    BY DEF Sound, DataTypes
  <1>2. D \subseteq StandardFields
    BY DEF Sound
  <1>3. Cardinality(D) \in Nat
    BY <1>2, FieldsFinite, FS_Subset, FS_CardinalityType
  <1>4. PICK y \in Nat : y = Cardinality(D)
    BY <1>3
  <1>5. PICK x \in 0..100 : x = m.confidence
    BY DEF MapOK
  <1> HIDE DEF sound, D
  <1>6. Max({x, Min({100, 25 * y})}) \in 0..100
    BY Raised
  <1>7. Max({m.confidence, Min({100, 25 * Cardinality(D)})}) \in 0..100
    BY <1>4, <1>5, <1>6
  <1>8. ASSUME D = {} PROVE MapOK(Merged(m, sound))
    BY <1>8 DEF Merged, D
  <1>9. ASSUME D # {} PROVE MapOK(Merged(m, sound))
    <2>1. Merged(m, sound).type = IF m.type = "unknown" THEN sound.type ELSE m.type
      BY <1>9 DEF Merged, D
    <2>2. Merged(m, sound).confidence = Max({m.confidence, Min({100, 25 * Cardinality(D)})})
      BY <1>9 DEF Merged, D
    <2> QED BY <1>1, <1>7, <2>1, <2>2 DEF MapOK
  <1> QED BY <1>8, <1>9 DEF sound

\* What is cut at 100 before it is weighted.
LEMMA Capped ==
    ASSUME NEW v \in Nat
    PROVE  Min({100, v}) \in 0..100
  <1>1. PICK t \in Int : t = 100
    OBVIOUS
  <1>2. Min({t, v}) = IF t <= v THEN t ELSE v
    BY MinInt
  <1> QED BY <1>1, <1>2

LEMMA ReadinessType ==
    ASSUME NEW m, m.months \in Nat, m.records \in Nat, NEW confidence \in 0..100
    PROVE  Readiness(m, confidence) \in 0..100 \cup {Unknown}
  <1> DEFINE a == Min({100, (100 * m.months) \div 12})
             b == Min({100, m.records \div 5})
             sum == 50 * a + 30 * b + 20 * confidence
  <1>1. a \in 0..100
    <2>1. PICK v \in Nat : v = (100 * m.months) \div 12
      OBVIOUS
    <2>2. Min({100, v}) \in 0..100
      BY Capped
    <2> QED BY <2>1, <2>2
  <1>2. b \in 0..100
    <2>1. PICK v \in Nat : v = m.records \div 5
      OBVIOUS
    <2>2. Min({100, v}) \in 0..100
      BY Capped
    <2> QED BY <2>1, <2>2
  <1>3. Readiness(m, confidence) = IF confidence < 30 THEN Unknown ELSE sum \div 100
    BY DEF Readiness
  <1> HIDE DEF a, b
  <1>4. sum \in Nat /\ sum <= 100 * 100
    BY <1>1, <1>2
  <1> HIDE DEF sum
  <1>5. sum \div 100 \in 0..100
    BY <1>4, QuotientType
  <1> QED BY <1>3, <1>5

LEMMA MonthsType ==
    ASSUME NEW f \in Files, NEW m
    PROVE  LET x == Metrics(f, Read(f), m) IN x.months \in Nat /\ x.records \in Nat
  <1> DEFINE x == Metrics(f, Read(f), m)
  <1>1. Read(f).rows \in Nat /\ f.months \in Nat
    BY FilesAssumption
  <1>2. Max({1, f.months}) \in Nat
    <2>1. PICK h : h = Max({1, f.months})
      OBVIOUS
    <2>2. PICK v \in Nat : v = f.months
      BY <1>1
    <2>3. h = IF 1 >= v THEN 1 ELSE v
      BY <2>1, <2>2, MaxInt
    <2> QED BY <2>1, <2>3
  <1>3. x.months \in {0, Max({1, f.months})} /\ x.records = Read(f).rows
    BY DEF Metrics
  <1> HIDE DEF x
  <1>4. x.months \in Nat /\ x.records \in Nat
    BY <1>1, <1>2, <1>3
  <1> QED BY <1>4 DEF x

\* Flags with their confidences.
Sure(flags) == \A f \in DOMAIN flags : flags[f] \in 0..100

LEMMA SuggestedSurely == ASSUME NEW type, NEW m PROVE Sure(Suggest(type, m))
  BY DEF Suggest, Suggested, Sureness, Sure

LEMMA MergedSurely ==
    ASSUME NEW type, NEW m, NEW signals
    PROVE  Sure(MaxMerge(Suggest(type, m), ValidSignals(signals, type, m)))
  <1> DEFINE alone == Suggest(type, m)
             valid == ValidSignals(signals, type, m)
             all == MaxMerge(alone, valid)
  <1>1. Sure(alone)
    BY SuggestedSurely
  <1>2. Sure(valid)
    BY DEF ValidSignals, Sure
  <1> HIDE DEF alone, valid
  <1>3. DOMAIN all = DOMAIN alone \cup DOMAIN valid
    BY DEF MaxMerge
  <1>4. ASSUME NEW f \in DOMAIN all PROVE all[f] \in 0..100
    <2>1. all[f] = IF f \notin DOMAIN alone THEN valid[f]
                   ELSE IF f \notin DOMAIN valid THEN alone[f]
                   ELSE Max({alone[f], valid[f]})
      BY <1>3 DEF MaxMerge
    <2>2. CASE f \notin DOMAIN alone \/ f \notin DOMAIN valid
      BY <1>1, <1>2, <1>3, <2>1, <2>2 DEF Sure
    <2>3. CASE f \in DOMAIN alone /\ f \in DOMAIN valid
      <3>1. PICK x \in 0..100 : x = alone[f]
        BY <1>1, <2>3 DEF Sure
      <3>2. PICK y \in 0..100 : y = valid[f]
        BY <1>2, <2>3 DEF Sure
      <3>3. Max({x, y}) = IF x >= y THEN x ELSE y
        BY MaxInt
      <3>4. Max({x, y}) \in 0..100
        BY <3>3
      <3> QED BY <2>1, <2>3, <3>1, <3>2, <3>4
    <2> QED BY <2>2, <2>3
  <1> HIDE DEF all
  <1>5. Sure(all)
    BY <1>4 DEF Sure
  <1> QED BY <1>5 DEF all, alone, valid

-----------------------------------------------------------------------------
(* An upload that is accepted *)

\* Where the columns are that a map names.
Located(m, read) == \A field \in DOMAIN m.mapping : m.mapping[field] \in DOMAIN read.columns
LocatedInv == stage \in {"columns", "numbers", "signals"} => Located(map, Read(file))

LEMMA ClassicalLocated == ASSUME NEW f \in Files PROVE Located(Classical(Read(f)), Read(f))
  <1> DEFINE columns == Read(f).columns
             named(field) == {i \in DOMAIN columns : FieldOf[columns[i].header] = field}
             found == Fingerprint(columns)
  <1>1. DOMAIN columns \subseteq Nat
    BY FilesAssumption
  <1>2. ASSUME NEW field \in DOMAIN found PROVE found[field] \in DOMAIN columns
    <2>1. found[field] = Min(named(field)) /\ named(field) # {}
      BY <1>2 DEF Fingerprint
    <2>2. named(field) \subseteq Nat
      BY <1>1
    <2> HIDE DEF named
    <2>3. PICK least \in named(field) : \A i \in named(field) : least <= i
      BY <2>1, <2>2, LeastOf
    <2>4. Min(named(field)) \in named(field)
      BY <2>3 DEF Min
    <2> QED BY <2>1, <2>4 DEF named
  <1>3. Classical(Read(f)).mapping = found
    BY DEF Classical
  <1> HIDE DEF found
  <1> QED BY <1>2, <1>3 DEF Located

LEMMA MergedLocated ==
    ASSUME NEW m, NEW read, Located(m, read), NEW guess
    PROVE  Located(Merged(m, Sound(guess, read)), read)
  <1> DEFINE sound == Sound(guess, read)
  <1>1. \A field \in DOMAIN sound.mapping : sound.mapping[field] \in DOMAIN read.columns
    BY DEF Sound
  <1> HIDE DEF sound
  <1>2. Located(Merged(m, sound), read)
    BY <1>1 DEF Merged, Located
  <1> QED BY <1>2 DEF sound

\* Only a file with UTC offsets makes extract_metrics raise.
LEMMA OffsetsRaise ==
    ASSUME Located(map, Read(file)), MayRaise(Read(file), map)
    PROVE  HasOffsets(Read(file))
  <1>1. ASSUME NEW field, Offsets(ValuesOf(Read(file), map.mapping, field)) # "none"
        PROVE  HasOffsets(Read(file))
    <2>1. Offsets("nothing") = "none"
      BY DEF Offsets
    <2>2. field \in DOMAIN map.mapping
      BY <1>1, <2>1 DEF ValuesOf
    <2> QED BY <1>1, <2>2 DEF ValuesOf, HasOffsets, Located
  <1>2. \/ Offsets(DateValues(Read(file), map)) # "none"
        \/ Offsets(CreatedValues(Read(file), map)) # "none"
        \/ Offsets(FirstValues(Read(file), map)) # "none"
    <2>1. \/ Offsets(DateValues(Read(file), map)) = "several"
          \/ Subtracted(Read(file), map) \notin {{}, {"none"}}
      BY DEF MayRaise, MustRaise
    <2> QED BY <2>1 DEF Subtracted
  <1> QED BY <1>1, <1>2 DEF DateValues, CreatedValues, FirstValues

LEMMA LocatedStep == HeldInv /\ LocatedInv /\ [Next]_vars => LocatedInv'
  <1> SUFFICES ASSUME HeldInv, LocatedInv, [Next]_vars PROVE LocatedInv'
    OBVIOUS
  <1> USE DEF LocatedInv
  <1>1. ASSUME stage' \notin {"columns", "numbers", "signals"} PROVE LocatedInv'
    BY <1>1
  <1>2. ASSUME UNCHANGED <<file, map>>,
               stage' = stage \/ stage \in {"columns", "numbers", "signals"}
                 \/ stage' \notin {"columns", "numbers", "signals"}
        PROVE  LocatedInv'
    BY <1>2
  <1>3. ASSUME NEW f \in Files, Upload(f) PROVE LocatedInv'
    <2>1. CASE stage' # "columns"
      BY <1>1, <1>3, <2>1 DEF Upload
    <2>2. CASE stage' = "columns"
      <3>1. file' = f /\ map' = Classical(Read(f))
        BY <1>3, <2>2 DEF Upload
      <3> QED BY <3>1, ClassicalLocated
    <2> QED BY <2>1, <2>2
  <1>4. CASE GuessColumns
    <2>1. PICK guess : map' = Merged(map, Sound(guess, Read(file)))
      BY <1>4 DEF GuessColumns
    <2>2. UNCHANGED file /\ stage = "columns"
      BY <1>4 DEF GuessColumns
    <2> QED BY <2>1, <2>2, MergedLocated
  <1>5. CASE KeepMap \/ GuessInVain \/ AskAgain \/ TakeNumbers
    <2>1. UNCHANGED <<file, map>>
      BY <1>5 DEF KeepMap, GuessInVain, AskAgain, TakeNumbers, analysis
    <2>2. stage' = stage \/ stage \in {"columns", "numbers", "signals"}
      BY <1>5 DEF KeepMap, GuessInVain, AskAgain, TakeNumbers
    <2> QED BY <1>2, <2>1, <2>2
  <1>6. CASE NoSignals \/ TakeSignals \/ ReadImage \/ NumbersRaise \/ AnswerRaises
    BY <1>1, <1>6 DEF NoSignals, ConcludeAlone, TakeSignals, ReadImage, NumbersRaise, AnswerRaises,
       Fail, Conclude
  <1>7. CASE (\E override \in BOOLEAN : Apply(override)) \/ Carry
    BY <1>1, <1>7 DEF Apply, Carry, ToForm
  <1>8. ASSUME NEW form \in Forms, NEW mode \in Modes, Submit(form, mode) PROVE LocatedInv'
    BY <1>1, <1>8 DEF Submit
  <1>9. CASE Recommend
    BY <1>1, <1>9 DEF Recommend, MatchClassical, MatchLlm, RateByNobody, RateHybrid, RateLlm,
       RateFails, Respond
  <1>10. CASE Flip \/ UNCHANGED vars
    BY <1>2, <1>10 DEF Flip, vars, analysis
  <1> QED BY <1>3, <1>4, <1>5, <1>6, <1>7, <1>8, <1>9, <1>10 DEF Next, Analyse

\* Whatever file, map and answers of the LLM, and however often Ollama comes and goes: an
\* upload that validate accepts is analysed, and a table has rows enough, unless the LLM's
\* answer has a shape that raises or a file with UTC offsets does.
THEOREM Accepted == Spec => []AcceptedIsAnalysed
  <1>1. Init => LocatedInv /\ AcceptedIsAnalysed
    BY DEF Init, NoInsight, AcceptedIsAnalysed, LocatedInv
  <1>2. AcceptedIsAnalysed /\ HeldInv /\ LocatedInv /\ [Next]_vars => AcceptedIsAnalysed'
    <2> SUFFICES ASSUME AcceptedIsAnalysed, HeldInv, LocatedInv, [Next]_vars
                 PROVE  AcceptedIsAnalysed'
      OBVIOUS
    <2>1. CASE insight' \in {insight, NoInsight}
      BY <2>1 DEF AcceptedIsAnalysed, NoInsight
    <2>2. ASSUME NEW f, NEW b, NEW type, insight' = Verdict(f, b, type),
                 \/ Read(f).kind = "text" /\ b
                 \/ Read(f).kind \in {"none", "image"}
          PROVE  AcceptedIsAnalysed'
      <3>1. /\ insight'.accepted = CanAnalyse(f) /\ insight'.kind = Read(f).kind
            /\ insight'.analyzable = b
        BY <2>2 DEF Verdict, NoInsight
      <3>2. Read(f).kind = "none" => ~CanAnalyse(f)
        BY DEF CanAnalyse
      <3> QED BY <2>2, <3>1, <3>2 DEF AcceptedIsAnalysed
    <2>3. ASSUME NEW flags, NEW facts, stage = "signals", Conclude(flags, facts)
          PROVE  AcceptedIsAnalysed'
      <3>1. /\ insight'.accepted = CanAnalyse(file) /\ insight'.kind = "tabular"
            /\ insight'.analyzable /\ insight'.metrics.records = Read(file).rows
        BY <2>3 DEF Conclude, Insight, Metrics
      <3>2. CanAnalyse(file) => Read(file).rows >= MinRows
        BY <2>3 DEF HeldInv, CanAnalyse
      <3> QED BY <3>1, <3>2 DEF AcceptedIsAnalysed
    <2>4. ASSUME NEW b, stage = "image", insight' = Verdict(file, b, "analytics")
          PROVE  AcceptedIsAnalysed'
      BY <2>2, <2>4 DEF HeldInv
    <2>5. CASE ConcludeAlone
      BY <2>3, <2>5 DEF ConcludeAlone
    <2>6. CASE TakeSignals
      BY <2>3, <2>6 DEF TakeSignals
    <2>7. CASE AnswerRaises
      <3>1. insight'.raised = "answer"
        BY <2>7 DEF AnswerRaises, Fail, Verdict, NoInsight
      <3> QED BY <3>1 DEF AcceptedIsAnalysed
    <2>8. CASE NumbersRaise
      <3>1. insight'.raised = "numbers" /\ insight'.offsets = HasOffsets(Read(file))
        BY <2>8 DEF NumbersRaise, Fail, Verdict, NoInsight
      <3>2. HasOffsets(Read(file))
        BY <2>8, OffsetsRaise DEF NumbersRaise, LocatedInv
      <3> QED BY <3>1, <3>2 DEF AcceptedIsAnalysed
    <2> QED BY <2>1, <2>2, <2>4, <2>5, <2>6, <2>7, <2>8, InsightSteps
  <1> QED BY <1>1, <1>2, LocatedStep, Held, PTL DEF Spec

-----------------------------------------------------------------------------
(* The type invariant, part by part *)

ProgressOK ==
    /\ ollama \in BOOLEAN /\ flips \in 0..MaxFlips /\ tries \in 0..Retries - 1
    /\ InHandler \/ stage \in {"start", "insight", "form", "answered", "failed"}

InsightOK == insight.readiness \in 0..100 \cup {Unknown} /\ Sure(insight.flags)

\* With MapOK, HeldInv and RankInv, inductive.
PartsOK == ProgressOK /\ MapOK(map) /\ InsightOK /\ profile.flags \subseteq PainFlags

LEMMA ProgressStep == ProgressOK /\ [Next]_vars => ProgressOK'
  <1> SUFFICES ASSUME ProgressOK, [Next]_vars PROVE ProgressOK'
    OBVIOUS
  <1> USE FlipsAssumption DEF ProgressOK, InHandler, Retries
  <1>1. ASSUME NEW f \in Files, Upload(f) PROVE ProgressOK'
    BY <1>1 DEF Upload
  <1>2. CASE KeepMap \/ GuessColumns \/ GuessInVain
    BY <1>2 DEF KeepMap, GuessColumns, GuessInVain, Measure, GivesUp
  <1>3. CASE NoSignals \/ TakeSignals
    BY <1>3 DEF NoSignals, ConcludeAlone, TakeSignals, Conclude
  <1>4. CASE AskAgain \/ ReadImage \/ TakeNumbers \/ NumbersRaise \/ AnswerRaises
    <2>1. CASE AskAgain
      BY <2>1 DEF AskAgain, GivesUp
    <2>2. CASE ReadImage
      BY <2>2 DEF ReadImage
    <2>3. CASE NumbersRaise \/ AnswerRaises
      <3>1. UNCHANGED <<ollama, flips>> /\ stage' = "insight" /\ tries' = 0
        BY <2>3 DEF NumbersRaise, AnswerRaises, Fail
      <3> QED BY <3>1
    <2>4. CASE TakeNumbers
      BY <2>4 DEF TakeNumbers, analysis
    <2> QED BY <1>4, <2>1, <2>2, <2>3, <2>4
  <1>5. ASSUME NEW override \in BOOLEAN, Apply(override) PROVE ProgressOK'
    BY <1>5 DEF Apply, ToForm
  <1>6. CASE Carry
    BY <1>6 DEF Carry, ToForm
  <1>7. ASSUME NEW form \in Forms, NEW mode \in Modes, Submit(form, mode) PROVE ProgressOK'
    BY <1>7 DEF Submit, analysis
  <1>8. CASE MatchClassical \/ MatchLlm
    BY <1>8 DEF MatchClassical, MatchLlm, analysis
  <1>9. CASE RateByNobody \/ RateHybrid \/ RateLlm \/ RateFails
    BY <1>9 DEF RateByNobody, RateHybrid, RateLlm, RateFails, analysis
  <1>10. CASE Respond
    BY <1>10 DEF Respond, analysis
  <1>11. CASE Flip
    BY <1>11 DEF Flip, analysis
  <1>12. CASE UNCHANGED vars
    BY <1>12 DEF vars, analysis
  <1> QED BY <1>1, <1>2, <1>3, <1>4, <1>5, <1>6, <1>7, <1>8, <1>9, <1>10, <1>11, <1>12
          DEF Next, Analyse, Recommend

LEMMA NoMapOK == MapOK(NoMap)
  BY DEF MapOK, NoMap, DataTypes

LEMMA MapStep == MapOK(map) /\ [Next]_vars => MapOK(map')
  <1> SUFFICES ASSUME MapOK(map), [Next]_vars PROVE MapOK(map')
    OBVIOUS
  <1>1. ASSUME NEW f \in Files, Upload(f) PROVE MapOK(map')
    BY <1>1, ClassicalMap DEF Upload
  <1>2. CASE GuessColumns
    BY <1>2, MergedMap DEF GuessColumns
  <1>3. CASE KeepMap \/ GuessInVain \/ AskAgain \/ ReadImage \/ TakeNumbers
    BY <1>3 DEF KeepMap, GuessInVain, AskAgain, ReadImage, TakeNumbers, analysis
  <1>4. CASE NoSignals \/ TakeSignals \/ NumbersRaise \/ AnswerRaises
    BY <1>4, NoMapOK DEF NoSignals, ConcludeAlone, TakeSignals, Conclude, NumbersRaise,
       AnswerRaises, Fail
  <1>5. ASSUME NEW override \in BOOLEAN, Apply(override) PROVE MapOK(map')
    BY <1>5 DEF Apply
  <1>6. CASE Carry
    BY <1>6 DEF Carry
  <1>7. ASSUME NEW form \in Forms, NEW mode \in Modes, Submit(form, mode) PROVE MapOK(map')
    BY <1>7 DEF Submit, analysis
  <1>8. CASE Recommend \/ Flip \/ UNCHANGED vars
    BY <1>8 DEF Recommend, MatchClassical, MatchLlm, RateByNobody, RateHybrid, RateLlm, RateFails,
       Respond, Flip, vars, analysis
  <1> QED BY <1>1, <1>2, <1>3, <1>4, <1>5, <1>6, <1>7, <1>8 DEF Next, Analyse

LEMMA InsightStep == InsightOK /\ MapOK(map) /\ HeldInv /\ [Next]_vars => InsightOK'
  <1> SUFFICES ASSUME InsightOK, MapOK(map), HeldInv, [Next]_vars PROVE InsightOK'
    OBVIOUS
  <1>1. NoInsight.readiness = Unknown /\ Sure(NoInsight.flags)
    BY DEF NoInsight, Sure
  <1>2. CASE insight' \in {insight, NoInsight}
    BY <1>1, <1>2 DEF InsightOK
  <1>3. ASSUME NEW f, NEW b, NEW type, insight' = Verdict(f, b, type) PROVE InsightOK'
    <2>1. insight'.readiness = NoInsight.readiness /\ insight'.flags = NoInsight.flags
      BY <1>3 DEF Verdict, NoInsight
    <2> QED BY <1>1, <2>1 DEF InsightOK
  <1>7. CASE NumbersRaise \/ AnswerRaises
    <2>1. PICK why : Fail(file, why)
      BY <1>7 DEF NumbersRaise, AnswerRaises
    <2>2. insight'.readiness = NoInsight.readiness /\ insight'.flags = NoInsight.flags
      BY <2>1 DEF Fail, Verdict, NoInsight
    <2> QED BY <1>1, <2>2 DEF InsightOK
  <1>4. ASSUME NEW flags, NEW facts, Sure(flags), stage = "signals", Conclude(flags, facts)
        PROVE  InsightOK'
    <2> DEFINE m == Metrics(file, Read(file), map)
    <2>1. file \in Files
      BY <1>4 DEF HeldInv
    <2>2. m.months \in Nat /\ m.records \in Nat
      BY <2>1, MonthsType
    <2>3. insight'.flags = flags /\ insight'.readiness = Readiness(m, map.confidence)
      BY <1>4 DEF Conclude, Insight
    <2> HIDE DEF m
    <2>4. Readiness(m, map.confidence) \in 0..100 \cup {Unknown}
      BY <2>2, ReadinessType DEF MapOK
    <2> QED BY <1>4, <2>3, <2>4 DEF InsightOK
  <1>5. CASE ConcludeAlone
    BY <1>4, <1>5, SuggestedSurely DEF ConcludeAlone
  <1>6. CASE TakeSignals
    BY <1>4, <1>6, MergedSurely DEF TakeSignals
  <1> QED BY <1>2, <1>3, <1>5, <1>6, <1>7, InsightSteps

LEMMA FlagsType == ASSUME NEW form PROVE Translate(form).flags \subseteq PainFlags
  <1>1. Translate(form).flags = AnsweredFlags(form.answers) \cup (form.confirmed \cap PainFlags)
    BY DEF Translate
  <1>2. \A q \in DOMAIN Questions : \A o \in DOMAIN Questions[q] : Questions[q][o] \subseteq PainFlags
    BY TablesAssumption
  <1> HIDE DEF Questions, PainFlags
  <1>3. AnsweredFlags(form.answers) \subseteq PainFlags
    BY <1>2 DEF AnsweredFlags
  <1> QED BY <1>1, <1>3

LEMMA ProfileStep ==
    profile.flags \subseteq PainFlags /\ [Next]_vars => profile'.flags \subseteq PainFlags
  <1> SUFFICES ASSUME profile.flags \subseteq PainFlags, [Next]_vars
               PROVE  profile'.flags \subseteq PainFlags
    OBVIOUS
  <1>1. ASSUME NEW form \in Forms, NEW mode \in Modes, Submit(form, mode)
        PROVE  profile'.flags \subseteq PainFlags
    <2>1. profile' = [Translate(form) EXCEPT !.flags = @ \cup Confident(carried.flags),
                                             !.text = @ \/ carried.facts # {}]
      BY <1>1 DEF Submit
    <2>2. profile'.flags = Translate(form).flags \cup Confident(carried.flags)
      BY <2>1, TranslateHasFlags DEF Translate
    <2>3. Confident(carried.flags) \subseteq PainFlags
      BY DEF Confident
    <2> QED BY <2>2, <2>3, FlagsType
  <1>2. ASSUME NEW f \in Files, Upload(f) PROVE UNCHANGED profile
    BY <1>2 DEF Upload, request
  <1>3. CASE Analyse
    BY <1>3 DEF Analyse, KeepMap, GuessColumns, GuessInVain, NoSignals, ConcludeAlone, AskAgain,
       TakeSignals, ReadImage, TakeNumbers, NumbersRaise, AnswerRaises, request
  <1>4. ASSUME NEW override \in BOOLEAN, Apply(override) PROVE UNCHANGED profile
    BY <1>4 DEF Apply, request
  <1>5. CASE Carry
    BY <1>5 DEF Carry, request
  <1>6. CASE Recommend \/ Flip \/ UNCHANGED vars
    BY <1>6 DEF Recommend, MatchClassical, MatchLlm, RateByNobody, RateHybrid, RateLlm, RateFails,
       Respond, Flip, vars, request
  <1> QED BY <1>1, <1>2, <1>3, <1>4, <1>5, <1>6 DEF Next

\* Every value is of its type, whatever is uploaded, guessed, answered and written by the
\* LLM: confidences and readiness are per cents, a profile's flags are in the catalogue of
\* pain flags, a ranking's places run from 1 without gap and its dimensions are per cents.
THEOREM Typed == Spec => []TypeOK
  <1>1. Init => PartsOK
    <2> SUFFICES ASSUME Init PROVE PartsOK
      OBVIOUS
    <2>1. ProgressOK
      BY FlipsAssumption DEF Init, ProgressOK, Retries
    <2>2. InsightOK
      BY DEF Init, NoInsight, InsightOK, Sure
    <2>3. MapOK(map)
      BY NoMapOK DEF Init
    <2>4. profile.flags \subseteq PainFlags
      BY DEF Init, NoProfile
    <2> QED BY <2>1, <2>2, <2>3, <2>4 DEF PartsOK
  <1>2. PartsOK /\ HeldInv /\ [Next]_vars => PartsOK'
    <2> SUFFICES ASSUME PartsOK, HeldInv, [Next]_vars PROVE PartsOK'
      OBVIOUS
    <2>1. ProgressOK'
      BY ProgressStep DEF PartsOK
    <2>2. MapOK(map)'
      BY MapStep DEF PartsOK, MapOK
    <2>3. InsightOK'
      BY InsightStep DEF PartsOK
    <2>4. profile'.flags \subseteq PainFlags
      BY ProfileStep DEF PartsOK
    <2> QED BY <2>1, <2>2, <2>3, <2>4 DEF PartsOK
  <1>3. PartsOK /\ RankInv => TypeOK
    <2> SUFFICES ASSUME PartsOK, RankInv PROVE TypeOK
      OBVIOUS
    <2>1. /\ ollama \in BOOLEAN /\ flips \in 0..MaxFlips /\ tries \in 0..Retries - 1
          /\ InHandler \/ stage \in {"start", "insight", "form", "answered", "failed"}
      BY DEF PartsOK, ProgressOK
    <2>2. /\ map.type \in DataTypes /\ map.confidence \in 0..100
          /\ insight.readiness \in 0..100 \cup {Unknown}
          /\ \A f \in DOMAIN insight.flags : insight.flags[f] \in 0..100
          /\ profile.flags \subseteq PainFlags
      BY DEF PartsOK, MapOK, InsightOK, Sure
    <2>3. /\ {ranking[c].place : c \in DOMAIN ranking} = 1..Cardinality(DOMAIN ranking)
          /\ \A c \in DOMAIN ranking : \A k \in Dimensions : ranking[c].dims[k] \in 0..100
      BY DEF RankInv, Ranked, PerCents
    <2> QED BY <2>1, <2>2, <2>3 DEF TypeOK
  <1> QED BY <1>1, <1>2, <1>3, Held, RankedByCloseness, PTL DEF Spec

=============================================================================
