---------------------------- MODULE AdviceProofs ----------------------------
(***************************************************************************)
(* Proofs about Advice: for any catalogue, any files and forms, and        *)
(* whatever the LLM may write.                                             *)
(***************************************************************************)
EXTENDS Advice, FiniteSetTheorems, WellFoundedInduction, TLAPS

-----------------------------------------------------------------------------
(* Flags about support are found in tickets only. *)

LEMMA SupportNeedsTickets ==
    ASSUME NEW f, NEW read, NEW columns, NEW flag \in SupportFlags,
           FlagGrounded(flag, columns.type, Metrics(f, read, columns))
    PROVE  columns.type = "support_tickets"
  <1> DEFINE m == Metrics(f, read, columns)
  <1>1. CASE flag # "SLOW_RESPONSE"
    BY <1>1 DEF FlagGrounded
  <1>2. CASE flag = "SLOW_RESPONSE"
    <2>1. m.response # Unknown
      BY <1>2 DEF FlagGrounded
    <2>2. m.response = ResponseHours(read, columns)
      BY DEF Metrics
    <2> QED BY <2>1, <2>2 DEF ResponseHours
  <1> QED BY <1>1, <1>2

\* What either way to an insight suggests has been checked.
LEMMA SuggestedIsGrounded ==
    ASSUME NEW type, NEW m
    PROVE  \A flag \in DOMAIN Suggest(type, m) : FlagGrounded(flag, type, m)
  BY DEF Suggest

LEMMA MergedIsGrounded ==
    ASSUME NEW type, NEW m, NEW signals
    PROVE  \A flag \in DOMAIN MaxMerge(Suggest(type, m), ValidSignals(signals, type, m)) :
               FlagGrounded(flag, type, m)
  BY SuggestedIsGrounded DEF MaxMerge, ValidSignals

LEMMA ConcludeGrounded ==
    ASSUME NEW flags, NEW facts, Conclude(flags, facts),
           \A flag \in DOMAIN flags :
               FlagGrounded(flag, map.type, Metrics(file, Read(file), map))
    PROVE  GroundedFlags'
  <1>1. insight'.flags = flags /\ insight'.type = map.type
    BY DEF Conclude, Insight
  <1> QED BY <1>1, SupportNeedsTickets DEF GroundedFlags

LEMMA NothingGrounded == ASSUME NoInsight.flags = insight'.flags PROVE GroundedFlags'
  BY DEF NoInsight, GroundedFlags

\* A failure says as little.
LEMMA FailSaysNothing ==
    ASSUME NEW f, NEW why, Fail(f, why)
    PROVE  /\ insight'.flags = NoInsight.flags /\ insight'.alone = NoInsight.alone
           /\ insight'.metrics = NoMetrics /\ stage' = "insight"
  BY DEF Fail, Verdict, NoInsight

LEMMA VerdictSaysNothing ==
    ASSUME NEW f, NEW b, NEW t
    PROVE  /\ Verdict(f, b, t).flags = NoInsight.flags /\ Verdict(f, b, t).alone = NoInsight.alone
           /\ Verdict(f, b, t).metrics = NoMetrics
  BY DEF Verdict, NoInsight

\* A flag about support says that the file held tickets.
THEOREM Grounded == Spec => []GroundedFlags
  <1>1. Init => GroundedFlags
    BY DEF Init, NoInsight, GroundedFlags
  <1>2. GroundedFlags /\ [Next]_vars => GroundedFlags'
    <2> SUFFICES ASSUME GroundedFlags, [Next]_vars PROVE GroundedFlags'
      OBVIOUS
    <2>1. ASSUME insight' = insight PROVE GroundedFlags'
      BY <2>1 DEF GroundedFlags
    <2>2. ASSUME NEW f \in Files, Upload(f) PROVE GroundedFlags'
      <3>1. insight'.flags = NoInsight.flags
        BY <2>2, VerdictSaysNothing DEF Upload
      <3> QED BY <3>1, NothingGrounded
    <2>3. CASE ConcludeAlone
      BY <2>3, SuggestedIsGrounded, ConcludeGrounded DEF ConcludeAlone
    <2>4. CASE TakeSignals
      BY <2>4, MergedIsGrounded, ConcludeGrounded DEF TakeSignals
    <2>5. CASE ReadImage
      <3>1. insight'.flags = NoInsight.flags
        BY <2>5, VerdictSaysNothing DEF ReadImage
      <3> QED BY <3>1, NothingGrounded
    <2>6. CASE KeepMap \/ GuessColumns \/ GuessInVain \/ AskAgain \/ TakeNumbers
      BY <2>1, <2>6 DEF KeepMap, GuessColumns, GuessInVain, AskAgain, TakeNumbers, analysis
    <2>12. CASE NumbersRaise \/ AnswerRaises
      BY <2>12, FailSaysNothing, NothingGrounded DEF NumbersRaise, AnswerRaises
    <2>7. ASSUME NEW override \in BOOLEAN, Apply(override) PROVE GroundedFlags'
      BY <2>7, NothingGrounded DEF Apply, ToForm
    <2>8. CASE Carry
      BY <2>8, NothingGrounded DEF Carry, ToForm
    <2>9. ASSUME NEW form \in Forms, NEW mode \in Modes, Submit(form, mode) PROVE GroundedFlags'
      BY <2>1, <2>9 DEF Submit, analysis
    <2>10. CASE Recommend \/ Flip
      BY <2>1, <2>10 DEF Recommend, MatchClassical, MatchLlm, RateByNobody, RateHybrid, RateLlm,
         RateFails, Respond, Flip, analysis
    <2>11. CASE UNCHANGED vars
      BY <2>1, <2>11 DEF vars, analysis
    <2> QED BY <2>2, <2>3, <2>4, <2>5, <2>6, <2>7, <2>8, <2>9, <2>10, <2>11, <2>12
            DEF Next, Analyse, NoSignals
  <1> QED BY <1>1, <1>2, PTL DEF Spec

-----------------------------------------------------------------------------
(* The LLM takes nothing away. *)

LEMMA SuggestedSure ==
    ASSUME NEW type, NEW m
    PROVE  \A flag \in DOMAIN Suggest(type, m) : Suggest(type, m)[flag] \in Int
  BY DEF Suggest, Suggested, Sureness

LEMMA MaxIsNoLess ==
    ASSUME NEW x \in Int, NEW y \in Int
    PROVE  Max({x, y}) \in Int /\ Max({x, y}) >= x
  <1>1. \E z \in {x, y} : \A w \in {x, y} : z >= w
    OBVIOUS
  <1> QED BY <1>1 DEF Max

\* The merge keeps what it is given.
LEMMA MergedIsNoLess ==
    ASSUME NEW type, NEW m, NEW signals,
           NEW flag \in DOMAIN Suggest(type, m)
    PROVE  LET all == MaxMerge(Suggest(type, m), ValidSignals(signals, type, m))
           IN  flag \in DOMAIN all /\ all[flag] >= Suggest(type, m)[flag]
  <1> DEFINE alone == Suggest(type, m)
             valid == ValidSignals(signals, type, m)
  <1>1. alone[flag] \in Int
    BY SuggestedSure
  <1>2. ASSUME flag \in DOMAIN valid PROVE valid[flag] \in Int
    BY <1>2 DEF ValidSignals
  <1>3. flag \in DOMAIN MaxMerge(alone, valid)
    BY DEF MaxMerge
  <1>4. MaxMerge(alone, valid)[flag] = IF flag \notin DOMAIN valid THEN alone[flag]
                                       ELSE Max({alone[flag], valid[flag]})
    BY DEF MaxMerge
  <1> HIDE DEF alone, valid
  <1>5. MaxMerge(alone, valid)[flag] >= alone[flag]
    BY <1>1, <1>2, <1>4, MaxIsNoLess
  <1> QED BY <1>3, <1>5 DEF alone, valid

\* The columns the file names stay where they are, and so does a type that is known.
Extends(columns, own) ==
    /\ DOMAIN own.mapping \subseteq DOMAIN columns.mapping
    /\ \A f \in DOMAIN own.mapping : columns.mapping[f] = own.mapping[f]
    /\ own.type # "unknown" => columns.type = own.type

LEMMA MergedExtends == ASSUME NEW own, NEW guess PROVE Extends(Merged(own, guess), own)
  <1>1. CASE DOMAIN guess.mapping = {}
    BY <1>1 DEF Merged, Extends
  <1>2. CASE DOMAIN guess.mapping # {}
    <2> DEFINE all == Merged(own, guess)
    <2>1. /\ all.type = (IF own.type = "unknown" THEN guess.type ELSE own.type)
          /\ all.mapping = [f \in DOMAIN own.mapping \cup DOMAIN guess.mapping |->
                              IF f \in DOMAIN own.mapping THEN own.mapping[f] ELSE guess.mapping[f]]
      BY <1>2 DEF Merged
    <2> HIDE DEF all
    <2>2. Extends(all, own)
      BY <2>1 DEF Extends
    <2> QED BY <2>2 DEF all
  <1> QED BY <1>1, <1>2

\* A field the file has is read in the same column, whatever else the LLM adds.
LEMMA SameValues ==
    ASSUME Extends(map, classical), NEW field \in DOMAIN classical.mapping
    PROVE  ValuesOf(Read(file), map.mapping, field)
             = ValuesOf(Read(file), classical.mapping, field)
  BY DEF ValuesOf, Extends

\* Of two fields the first is taken; it is the same one, unless the LLM has added it.
LEMMA SameCreated ==
    ASSUME Extends(map, classical), IsDate(CreatedValues(Read(file), classical)),
           "created_at" \notin DOMAIN map.mapping \ DOMAIN classical.mapping
    PROVE  CreatedValues(Read(file), map) = CreatedValues(Read(file), classical)
  <1>1. CASE "created_at" \in DOMAIN classical.mapping
    BY <1>1, SameValues DEF CreatedValues, Either, Extends
  <1>2. CASE "created_at" \notin DOMAIN classical.mapping
    <2>1. "date" \in DOMAIN classical.mapping
      BY <1>2 DEF CreatedValues, Either, ValuesOf, IsDate, Dates
    <2> QED BY <1>2, <2>1, SameValues DEF CreatedValues, Either
  <1> QED BY <1>1, <1>2

LEMMA SameDate ==
    ASSUME Extends(map, classical), IsDate(DateValues(Read(file), classical)),
           "date" \notin DOMAIN map.mapping \ DOMAIN classical.mapping
    PROVE  DateValues(Read(file), map) = DateValues(Read(file), classical)
  <1>1. CASE "date" \in DOMAIN classical.mapping
    BY <1>1, SameValues DEF DateValues, Either, Extends
  <1>2. CASE "date" \notin DOMAIN classical.mapping
    <2>1. "created_at" \in DOMAIN classical.mapping
      BY <1>2 DEF DateValues, Either, ValuesOf, IsDate, Dates
    <2> QED BY <1>2, <2>1, SameValues DEF DateValues, Either
  <1> QED BY <1>1, <1>2

\* What the file's own columns suggest its columns with those of the LLM suggest as well.
LEMMA SuggestedAnyway ==
    ASSUME Extends(map, classical),
           NEW flag \in DOMAIN SuggestedAlone,
           flag = "SLOW_RESPONSE" =>
               "created_at" \notin DOMAIN map.mapping \ DOMAIN classical.mapping,
           flag = "STOCKOUTS_UNIVERSAL" =>
               "date" \notin DOMAIN map.mapping \ DOMAIN classical.mapping
    PROVE  LET with == Suggest(map.type, Metrics(file, Read(file), map))
           IN  flag \in DOMAIN with /\ with[flag] = SuggestedAlone[flag]
  <1> DEFINE m == Metrics(file, Read(file), classical)
             n == Metrics(file, Read(file), map)
  <1>1. flag \in Suggested(m) /\ FlagGrounded(flag, classical.type, m)
    BY DEF Suggest, SuggestedAlone
  <1>2. SUFFICES /\ flag \in Suggested(n) /\ FlagGrounded(flag, map.type, n)
                 /\ Sureness(n)[flag] = Sureness(m)[flag]
    BY <1>1 DEF Suggest, SuggestedAlone
  <1>3. CASE flag = "SLOW_RESPONSE"
    <2>1. m.response >= 24 /\ m.response # Unknown
      BY <1>1, <1>3 DEF Suggested, FlagGrounded
    <2>2. /\ m.response = ResponseHours(Read(file), classical)
          /\ n.response = ResponseHours(Read(file), map)
      BY DEF Metrics
    <2>3. /\ classical.type = "support_tickets"
          /\ IsDate(CreatedValues(Read(file), classical))
          /\ IsDate(FirstValues(Read(file), classical))
      BY <2>1, <2>2 DEF ResponseHours
    <2>4. CreatedValues(Read(file), map) = CreatedValues(Read(file), classical)
      BY <1>3, <2>3, SameCreated
    <2>5. "first_response_at" \in DOMAIN classical.mapping
      BY <2>3 DEF FirstValues, ValuesOf, IsDate, Dates
    <2>6. FirstValues(Read(file), map) = FirstValues(Read(file), classical)
      BY <2>5, SameValues DEF FirstValues
    <2>7. map.type = classical.type
      BY <2>3 DEF Extends
    <2>8. n.response = m.response
      BY <2>2, <2>4, <2>6, <2>7 DEF ResponseHours
    <2> HIDE DEF m, n
    <2>9. "SLOW_RESPONSE" \in Suggested(n) /\ FlagGrounded("SLOW_RESPONSE", map.type, n)
      BY <2>1, <2>8 DEF Suggested, FlagGrounded
    <2> QED BY <1>3, <2>8, <2>9 DEF Sureness
  <1>4. CASE flag = "HIGH_VOLUME_SUPPORT"
    <2> DEFINE status == ValuesOf(Read(file), classical.mapping, "status")
    <2>1. m.open + m.closed >= 50 /\ m.open > 3 * Max({1, m.closed})
      BY <1>1, <1>4 DEF Suggested
    <2>2. classical.type = "support_tickets"
      BY <1>1, <1>4 DEF FlagGrounded, SupportFlags
    <2>3. /\ m.open = OpenItems(status, Read(file).rows)
          /\ m.closed = ClosedItems(status, Read(file).rows)
          /\ n.open = OpenItems(ValuesOf(Read(file), map.mapping, "status"), Read(file).rows)
          /\ n.closed = ClosedItems(ValuesOf(Read(file), map.mapping, "status"), Read(file).rows)
      BY DEF Metrics
    <2>4. status # "nothing"
      <3> SUFFICES ASSUME status = "nothing" PROVE FALSE
        OBVIOUS
      <3>1. OpenItems("nothing", Read(file).rows) = 0 /\ ClosedItems("nothing", Read(file).rows) = 0
        BY DEF OpenItems, ClosedItems
      <3> QED BY <2>1, <2>3, <3>1
    <2>5. "status" \in DOMAIN classical.mapping
      BY <2>4 DEF ValuesOf
    <2>6. n.open = m.open /\ n.closed = m.closed
      BY <2>3, <2>5, SameValues
    <2>7. map.type = classical.type
      BY <2>2 DEF Extends
    <2> HIDE DEF m, n
    <2>8. "HIGH_VOLUME_SUPPORT" \in Suggested(n)
      BY <2>1, <2>6 DEF Suggested
    <2>9. FlagGrounded("HIGH_VOLUME_SUPPORT", map.type, n)
      BY <2>2, <2>7 DEF FlagGrounded
    <2> QED BY <1>4, <2>8, <2>9 DEF Sureness
  <1>5. CASE flag = "MULTICHANNEL"
    <2> DEFINE channel == ValuesOf(Read(file), classical.mapping, "channel")
    <2>1. m.channels >= 2
      BY <1>1, <1>5 DEF Suggested
    <2>2. m.channels = IF channel = "nothing" THEN 0 ELSE Min({Read(file).rows, Distinct(channel)})
      BY DEF Metrics
    <2>3. "channel" \in DOMAIN classical.mapping
      BY <2>1, <2>2 DEF ValuesOf
    <2>4. ValuesOf(Read(file), map.mapping, "channel") = channel
      BY <2>3, SameValues
    <2>5. n.channels = m.channels /\ n.social = m.social
      BY <2>4 DEF Metrics
    <2> HIDE DEF m, n
    <2>6. "MULTICHANNEL" \in Suggested(n)
      BY <2>1, <2>5 DEF Suggested
    <2>7. FlagGrounded("MULTICHANNEL", map.type, n)
      BY DEF FlagGrounded, SupportFlags
    <2> QED BY <1>5, <2>5, <2>6, <2>7 DEF Sureness
  <1>6. CASE flag = "STOCKOUTS_UNIVERSAL"
    <2>1. m.seasonal
      BY <1>1, <1>6 DEF Suggested
    <2>2. IsDate(DateValues(Read(file), classical)) /\ Read(file).rows >= 2 /\ file.seasonal
      BY <2>1 DEF Metrics
    <2>3. DateValues(Read(file), map) = DateValues(Read(file), classical)
      BY <1>6, <2>2, SameDate
    <2>4. n.seasonal
      BY <2>2, <2>3 DEF Metrics
    <2> HIDE DEF m, n
    <2>5. "STOCKOUTS_UNIVERSAL" \in Suggested(n)
      BY <2>4 DEF Suggested
    <2>6. FlagGrounded("STOCKOUTS_UNIVERSAL", map.type, n)
      BY DEF FlagGrounded, SupportFlags
    <2> QED BY <1>6, <2>5, <2>6 DEF Sureness
  <1> QED BY <1>1, <1>3, <1>4, <1>5, <1>6 DEF Suggested

\* While a table is analysed, its columns are those of analyse_classical and more.
MapInv ==
    /\ stage = "columns" => map = classical
    /\ stage \in {"numbers", "signals"} => Extends(map, classical)
    /\ LLMOnlyAdds

\* Either way to an insight keeps what the columns suggest.
LEMMA ConcludeAdds ==
    ASSUME MapInv, stage = "signals", NEW flags, NEW facts, Conclude(flags, facts),
           LET all == Suggest(map.type, Metrics(file, Read(file), map)) IN
           \A flag \in DOMAIN all : flag \in DOMAIN flags /\ flags[flag] >= all[flag]
    PROVE  MapInv'
  <1>1. /\ insight'.flags = flags /\ insight'.alone = SuggestedAlone
        /\ insight'.guessed = DOMAIN map.mapping \ DOMAIN classical.mapping
        /\ stage' = "insight"
    BY DEF Conclude, Insight
  <1>2. Extends(map, classical)
    BY DEF MapInv
  <1>4. LLMOnlyAdds'
    <2> SUFFICES ASSUME NEW f \in DOMAIN insight'.alone,
                        f = "SLOW_RESPONSE" => "created_at" \notin insight'.guessed,
                        f = "STOCKOUTS_UNIVERSAL" => "date" \notin insight'.guessed
                 PROVE  f \in DOMAIN insight'.flags /\ insight'.flags[f] >= insight'.alone[f]
      BY DEF LLMOnlyAdds
    <2> DEFINE all == Suggest(map.type, Metrics(file, Read(file), map))
    <2>1. f \in DOMAIN all /\ all[f] = insight'.alone[f]
      BY <1>1, <1>2, SuggestedAnyway
    <2> HIDE DEF all
    <2>2. f \in DOMAIN flags /\ flags[f] >= all[f]
      BY <2>1 DEF all
    <2> QED BY <1>1, <2>1, <2>2
  <1> QED BY <1>1, <1>4 DEF MapInv

\* With the LLM the analysis suggests whatever it would suggest without, as surely, unless
\* the LLM gave the file a second column of dates.
THEOREM OnlyAdded == Spec => []LLMOnlyAdds
  <1>1. Init => MapInv
    BY DEF Init, NoInsight, MapInv, LLMOnlyAdds
  <1>2. MapInv /\ [Next]_vars => MapInv'
    <2> SUFFICES ASSUME MapInv, [Next]_vars PROVE MapInv'
      OBVIOUS
    <2>1. ASSUME insight' = insight PROVE LLMOnlyAdds'
      BY <2>1 DEF MapInv, LLMOnlyAdds
    <2>2. ASSUME insight'.alone = NoInsight.alone PROVE LLMOnlyAdds'
      BY <2>2 DEF NoInsight, LLMOnlyAdds
    <2>3. ASSUME UNCHANGED <<map, classical, insight>>,
                 stage' = stage \/ (stage = "numbers" /\ stage' = "signals")
                   \/ stage' \notin {"columns", "numbers", "signals"}
          PROVE  MapInv'
      BY <2>1, <2>3 DEF MapInv, Extends
    <2>4. ASSUME NEW f \in Files, Upload(f) PROVE MapInv'
      <3>1. insight'.alone = NoInsight.alone
        BY <2>4, VerdictSaysNothing DEF Upload
      <3>2. stage' \in {"insight", "image"} \/ (stage' = "columns" /\ map' = classical')
        BY <2>4 DEF Upload
      <3> QED BY <2>2, <3>1, <3>2 DEF MapInv
    <2>5. CASE ConcludeAlone
      <3>1. \A flag \in DOMAIN Suggest(map.type, Metrics(file, Read(file), map)) :
              Suggest(map.type, Metrics(file, Read(file), map))[flag] \in Int
        BY SuggestedSure
      <3>2. \A flag \in DOMAIN Suggest(map.type, Metrics(file, Read(file), map)) :
              Suggest(map.type, Metrics(file, Read(file), map))[flag]
                >= Suggest(map.type, Metrics(file, Read(file), map))[flag]
        BY <3>1
      <3> QED BY <2>5, <3>2, ConcludeAdds DEF ConcludeAlone
    <2>6. CASE TakeSignals
      BY <2>6, MergedIsNoLess, ConcludeAdds DEF TakeSignals
    <2>7. CASE ReadImage
      <3>1. insight'.alone = NoInsight.alone /\ stage' = "insight"
        BY <2>7, VerdictSaysNothing DEF ReadImage
      <3> QED BY <2>2, <3>1 DEF MapInv
    <2>8. CASE KeepMap \/ GuessInVain
      <3>1. UNCHANGED <<map, classical, insight>> /\ stage = "columns"
            /\ stage' \in {"columns", "numbers"}
        BY <2>8 DEF KeepMap, GuessInVain, Measure
      <3>2. Extends(map, map)
        BY DEF Extends
      <3> QED BY <2>1, <3>1, <3>2 DEF MapInv
    <2>9. CASE GuessColumns
      <3>1. PICK guess : map' = Merged(map, guess)
        BY <2>9 DEF GuessColumns
      <3>2. UNCHANGED <<classical, insight>> /\ stage = "columns" /\ stage' = "numbers"
        BY <2>9 DEF GuessColumns, Measure
      <3>3. Extends(map', classical)
        BY <3>1, <3>2, MergedExtends DEF MapInv
      <3> QED BY <2>1, <3>2, <3>3 DEF MapInv
    <2>10. CASE AskAgain \/ TakeNumbers
      BY <2>3, <2>10 DEF AskAgain, TakeNumbers, analysis
    <2>11. CASE NumbersRaise \/ AnswerRaises
      <3>1. insight'.alone = NoInsight.alone /\ stage' = "insight"
        BY <2>11, FailSaysNothing DEF NumbersRaise, AnswerRaises
      <3> QED BY <2>2, <3>1 DEF MapInv
    <2>12. CASE (\E override \in BOOLEAN : Apply(override)) \/ Carry
      BY <2>2, <2>12 DEF Apply, Carry, ToForm, MapInv
    <2>13. ASSUME NEW form \in Forms, NEW mode \in Modes, Submit(form, mode) PROVE MapInv'
      BY <2>3, <2>13 DEF Submit, analysis
    <2>14. CASE Recommend
      BY <2>3, <2>14 DEF Recommend, MatchClassical, MatchLlm, RateByNobody, RateHybrid, RateLlm,
         RateFails, Respond, analysis
    <2>15. CASE Flip \/ UNCHANGED vars
      BY <2>3, <2>15 DEF Flip, vars, analysis
    <2> QED BY <2>4, <2>5, <2>6, <2>7, <2>8, <2>9, <2>10, <2>11, <2>12, <2>13, <2>14, <2>15
            DEF Next, Analyse, NoSignals
  <1>3. MapInv => LLMOnlyAdds
    BY DEF MapInv
  <1> QED BY <1>1, <1>2, <1>3, PTL DEF Spec

-----------------------------------------------------------------------------
(* What was promised is kept. *)

Early == {"start", "columns", "numbers", "signals", "image", "insight"}
Late  == {"match", "rate", "ranked", "answered"}

\* Nothing is promised before the analysis is confirmed; then the promise is in the
\* client's hands, and after the submission in the profile.
PromiseInv ==
    /\ stage \in Early => promised = {}
    /\ stage = "form" => promised \subseteq Confident(carried.flags)
    /\ AppliedFlagsConfirmed

LEMMA TranslateHasFlags == ASSUME NEW form PROVE "flags" \in DOMAIN Translate(form)
  BY DEF Translate

LEMMA EarlyStays ==
    ASSUME PromiseInv, stage \in Early, stage' \in Early, promised' = promised
    PROVE  PromiseInv'
  BY DEF PromiseInv, AppliedFlagsConfirmed, Early

LEMMA LateStays ==
    ASSUME PromiseInv, stage \in Late, stage' \in Late \cup {"failed"},
           UNCHANGED <<promised, profile>>
    PROVE  PromiseInv'
  BY DEF PromiseInv, AppliedFlagsConfirmed, Early, Late

\* Each flag an applied export promised is among the confirmed pains of the company.
THEOREM PromiseKept == Spec => []AppliedFlagsConfirmed
  <1>1. Init => PromiseInv
    BY DEF Init, PromiseInv, AppliedFlagsConfirmed, Early
  <1>2. PromiseInv /\ [Next]_vars => PromiseInv'
    <2> SUFFICES ASSUME PromiseInv, [Next]_vars PROVE PromiseInv'
      OBVIOUS
    <2>1. ASSUME NEW f \in Files, Upload(f) PROVE PromiseInv'
      BY <2>1, EarlyStays DEF Upload, Early
    <2>2. CASE Analyse
      BY <2>2, EarlyStays DEF Analyse, KeepMap, GuessColumns, GuessInVain, NoSignals,
         ConcludeAlone, AskAgain, TakeSignals, ReadImage, TakeNumbers, NumbersRaise, AnswerRaises, Fail,
         Conclude, Measure, Early
    <2>3. ASSUME NEW override \in BOOLEAN, Apply(override) PROVE PromiseInv'
      BY <2>3 DEF Apply, ToForm, PromiseInv, AppliedFlagsConfirmed, Confident, ApplyThreshold, Early
    <2>4. CASE Carry
      BY <2>4 DEF Carry, ToForm, PromiseInv, AppliedFlagsConfirmed, Early
    <2>5. ASSUME NEW form \in Forms, NEW mode \in Modes, Submit(form, mode) PROVE PromiseInv'
      <3>1. promised \subseteq Confident(carried.flags)
        BY <2>5 DEF Submit, PromiseInv, Early
      <3>2. Confident(carried.flags) \subseteq profile'.flags
        BY <2>5, TranslateHasFlags DEF Submit
      <3>3. stage' = "match" /\ promised' = promised
        BY <2>5 DEF Submit
      <3> QED BY <3>1, <3>2, <3>3 DEF PromiseInv, AppliedFlagsConfirmed, Early
    <2>6. CASE Recommend
      BY <2>6, LateStays DEF Recommend, MatchClassical, MatchLlm, RateByNobody, RateHybrid,
         RateLlm, RateFails, Respond, request, Late
    <2>7. CASE Flip \/ UNCHANGED vars
      BY <2>7 DEF Flip, vars, request, PromiseInv, AppliedFlagsConfirmed, Confident
    <2> QED BY <2>1, <2>2, <2>3, <2>4, <2>5, <2>6, <2>7 DEF Next
  <1>3. PromiseInv => AppliedFlagsConfirmed
    BY DEF PromiseInv
  <1> QED BY <1>1, <1>2, <1>3, PTL DEF Spec

-----------------------------------------------------------------------------
(* No LLM recommends what the filters turned down. *)

LEMMA ClassicalInScope ==
    ASSUME NEW company, NEW encoding, NEW cross
    PROVE  DOMAIN ClassicalRanking(company, encoding, cross) \subseteq Scoped(company)
  BY DEF ClassicalRanking, Candidates

LEMMA TopShortens == ASSUME NEW list, NEW n PROVE DOMAIN Top(list, n) \subseteq DOMAIN list
  BY DEF Top

LEMMA RerankShortens ==
    ASSUME NEW list, NEW scores PROVE DOMAIN Rerank(list, scores) \subseteq DOMAIN list
  BY TopShortens DEF Rerank

LEMMA LlmInScope == ASSUME NEW list, NEW ids PROVE DOMAIN LlmRanking(list, ids) \subseteq ids
  BY DEF LlmRanking

\* Before it is matched a request has neither a ranking nor an answer.
Unmatched == Early \cup {"form", "match"}
RankingInv ==
    /\ stage \in Unmatched => ranking = <<>> /\ answer = <<>>
    /\ stage \in {"rate", "ranked", "failed"} => answer = <<>>
    /\ NothingInvented

LEMMA RankingStep ==
    /\ Init => RankingInv
    /\ RankingInv /\ [Next]_vars => RankingInv'
  <1> USE DEF RankingInv, NothingInvented, Unmatched, Early
  <1>1. Init => RankingInv
    BY DEF Init
  <1>2. RankingInv /\ [Next]_vars => RankingInv'
    <2> SUFFICES ASSUME RankingInv, [Next]_vars PROVE RankingInv'
      OBVIOUS
    <2>1. ASSUME stage \in Unmatched, stage' \in Unmatched, UNCHANGED <<ranking, answer>>
          PROVE  RankingInv'
      BY <2>1
    <2>2. ASSUME NEW f \in Files, Upload(f) PROVE RankingInv'
      BY <2>1, <2>2 DEF Upload, request
    <2>3. CASE Analyse
      BY <2>1, <2>3 DEF Analyse, KeepMap, GuessColumns, GuessInVain, NoSignals, ConcludeAlone,
         AskAgain, TakeSignals, ReadImage, TakeNumbers, NumbersRaise, AnswerRaises, Fail, Conclude,
         Measure, request
    <2>4. ASSUME NEW override \in BOOLEAN, Apply(override) PROVE RankingInv'
      BY <2>1, <2>4 DEF Apply, ToForm, request
    <2>5. CASE Carry
      BY <2>1, <2>5 DEF Carry, ToForm, request
    <2>6. ASSUME NEW form \in Forms, NEW mode \in Modes, Submit(form, mode) PROVE RankingInv'
      BY <2>1, <2>6 DEF Submit
    <2>7. CASE MatchClassical
      BY <2>7, ClassicalInScope DEF MatchClassical
    <2>8. CASE MatchLlm
      BY <2>8 DEF MatchLlm, request
    <2>9. CASE RateByNobody
      BY <2>9, TopShortens DEF RateByNobody
    <2>10. CASE RateHybrid
      <3>1. /\ stage = "rate" /\ stage' \in {"ranked", "failed"} /\ UNCHANGED <<profile, answer>>
            /\ ranking' = ranking \/ \E scores : ranking' = Rerank(ranking, scores)
        BY <2>10 DEF RateHybrid
      <3>2. DOMAIN ranking' \subseteq DOMAIN ranking
        BY <3>1, RerankShortens
      <3> QED BY <3>1, <3>2
    <2>11. CASE RateLlm
      BY <2>11, LlmInScope DEF RateLlm
    <2>12. CASE RateFails
      BY <2>12 DEF RateFails, request
    <2>13. CASE Respond
      BY <2>13, TopShortens DEF Respond
    <2>14. CASE Flip \/ UNCHANGED vars
      BY <2>14 DEF Flip, vars, request
    <2> QED BY <2>2, <2>3, <2>4, <2>5, <2>6, <2>7, <2>8, <2>9, <2>10, <2>11, <2>12, <2>13, <2>14
            DEF Next, Recommend
  <1> QED BY <1>1, <1>2

\* Whatever the LLM writes, what is ranked has passed the filters.
THEOREM Filtered == Spec => []NothingInvented
  <1>1. RankingInv => NothingInvented
    BY DEF RankingInv
  <1> QED BY <1>1, RankingStep, PTL DEF Spec

-----------------------------------------------------------------------------
(* The product list *)

\* Who stands before whom is an order, so places follow it.
LEMMA PlacesFollow ==
    ASSUME NEW S, IsFiniteSet(S), NEW score \in [S -> Int], NEW order \in [S -> Int],
           NEW c \in S, NEW d \in S, Before(c, d, score, order)
    PROVE  Place(S, score, order)[c] < Place(S, score, order)[d]
  <1> DEFINE Ahead(e) == {b \in S : Before(b, e, score, order)}
  <1>1. IsFiniteSet(Ahead(c)) /\ IsFiniteSet(Ahead(d))
    BY FS_Subset
  <1>2. Ahead(c) \subseteq Ahead(d)
    BY DEF Before
  <1>3. c \in Ahead(d) /\ c \notin Ahead(c)
    BY DEF Before
  <1>4. Cardinality(Ahead(c)) < Cardinality(Ahead(d))
    <2>1. Ahead(c) \subseteq Ahead(d) \ {c}
      BY <1>2, <1>3
    <2>2. IsFiniteSet(Ahead(d) \ {c}) /\ Cardinality(Ahead(d) \ {c}) = Cardinality(Ahead(d)) - 1
      BY <1>1, <1>3, FS_RemoveElement
    <2>3. Cardinality(Ahead(c)) <= Cardinality(Ahead(d) \ {c})
      BY <2>1, <2>2, FS_Subset
    <2>4. Cardinality(Ahead(c)) \in Nat /\ Cardinality(Ahead(d)) \in Nat
      BY <1>1, FS_CardinalityType
    <2> HIDE DEF Ahead
    <2> QED BY <2>2, <2>3, <2>4
  <1>5. Cardinality(Ahead(c)) \in Nat /\ Cardinality(Ahead(d)) \in Nat
    BY <1>1, FS_CardinalityType
  <1>6. /\ Place(S, score, order)[c] = 1 + Cardinality(Ahead(c))
        /\ Place(S, score, order)[d] = 1 + Cardinality(Ahead(d))
    BY DEF Place
  <1> HIDE DEF Ahead
  <1> QED BY <1>4, <1>5, <1>6

LEMMA PlaceType ==
    ASSUME NEW S, IsFiniteSet(S), NEW score, NEW order, NEW c \in S
    PROVE  Place(S, score, order)[c] \in Nat \ {0}
  <1> DEFINE Ahead == {b \in S : Before(b, c, score, order)}
  <1>1. Cardinality(Ahead) \in Nat
    BY FS_Subset, FS_CardinalityType
  <1>2. Place(S, score, order)[c] = 1 + Cardinality(Ahead)
    BY DEF Place
  <1> HIDE DEF Ahead
  <1> QED BY <1>1, <1>2

LEMMA FirstPlace ==
    ASSUME NEW S, IsFiniteSet(S), NEW score, NEW order, NEW c \in S,
           Place(S, score, order)[c] = 1, NEW d \in S
    PROVE  ~Before(d, c, score, order)
  <1> DEFINE Ahead == {b \in S : Before(b, c, score, order)}
  <1>1. IsFiniteSet(Ahead) /\ Cardinality(Ahead) \in Nat
    BY FS_Subset, FS_CardinalityType
  <1>2. Place(S, score, order)[c] = 1 + Cardinality(Ahead)
    BY DEF Place
  <1>3. Cardinality(Ahead) = 0
    <2> HIDE DEF Ahead
    <2> QED BY <1>1, <1>2
  <1>4. Ahead = {}
    BY <1>1, <1>3, FS_EmptySet
  <1> QED BY <1>4

\* Someone is first.
LEMMA SomeoneFirst ==
    ASSUME NEW S, S # {}, IsFiniteSet(S), NEW score \in [S -> Int], NEW order \in [S -> Int]
    PROVE  \E c \in S : Place(S, score, order)[c] = 1
  <1> DEFINE place == Place(S, score, order)
             Used == {place[c] : c \in S}
  <1>1. \A c \in S : place[c] \in Nat \ {0}
    BY PlaceType
  <1>2. Used \subseteq Nat /\ Used # {}
    BY <1>1
  <1>3. PICK least \in Used : \A n \in Used : <<n, least>> \notin OpToRel(<, Nat)
    BY <1>2, NatLessThanWellFounded, WFMin
  <1>4. PICK c \in S : least = place[c]
    BY <1>3
  <1>5. \A d \in S : ~(place[d] < place[c])
    BY <1>1, <1>3, <1>4 DEF OpToRel
  <1> DEFINE Ahead == {b \in S : Before(b, c, score, order)}
  <1>6. Ahead = {}
    <2> SUFFICES ASSUME NEW b \in S, Before(b, c, score, order) PROVE FALSE
      OBVIOUS
    <2>1. place[b] < place[c]
      BY PlacesFollow
    <2> QED BY <1>5, <2>1
  <1>7. Cardinality(Ahead) = 0
    BY <1>6, FS_EmptySet
  <1>8. place[c] = 1 + Cardinality(Ahead)
    BY DEF Place
  <1> HIDE DEF Ahead, place
  <1>9. place[c] = 1
    BY <1>7, <1>8
  <1> QED BY <1>9 DEF place

LEMMA FitType ==
    ASSUME NEW p, NEW company, NEW team PROVE Fit(p, company, team) \in Int
  <1>1. PlatformScore(p, company) \in Int
    BY DEF PlatformScore
  <1>2. ComplexityScore(p, company) \in Int
    BY DEF ComplexityScore
  <1>3. SizeScore(p, Bucket(team)) \in Int
    BY DEF SizeScore
  <1>4. PriceScore(p, Bucket(team)) \in Int
    BY DEF PriceScore
  <1> QED BY <1>1, <1>2, <1>3, <1>4 DEF Fit

LEMMA EligibleType ==
    ASSUME NEW c \in DOMAIN Catalogue, NEW country
    PROVE  Eligible(c, country) \subseteq Products /\ IsFiniteSet(Eligible(c, country))
  <1>1. Eligible(c, country) \subseteq Products
    BY DEF Eligible, ProductsOf
  <1> QED BY <1>1, FS_Subset, ProductsAssumption

\* By what the list is ordered.
Offered(c, company) == Eligible(c, company.country)
Fits(c, company, team) == [p \in Offered(c, company) |-> Fit(p, company, team)]
Numbers(c, company) == [p \in Offered(c, company) |-> p.no]
PlaceOf(c, company, team) ==
    Place(Offered(c, company), Fits(c, company, team), Numbers(c, company))

LEMMA OfferedType ==
    ASSUME NEW c \in DOMAIN Catalogue, NEW company, NEW team
    PROVE  /\ IsFiniteSet(Offered(c, company))
           /\ Fits(c, company, team) \in [Offered(c, company) -> Int]
           /\ Numbers(c, company) \in [Offered(c, company) -> Int]
  <1>1. IsFiniteSet(Offered(c, company)) /\ \A p \in Offered(c, company) : p.no \in Int
    BY EligibleType, ProductsAssumption DEF Offered
  <1> QED BY <1>1, FitType DEF Fits, Numbers

LEMMA ListShows ==
    ASSUME NEW c, NEW company, NEW team
    PROVE  /\ DOMAIN ProductList(c, company, team) \subseteq Offered(c, company)
           /\ \A p \in Offered(c, company) :
                p \in DOMAIN ProductList(c, company, team) <=> PlaceOf(c, company, team)[p] <= 2
           /\ \A p \in DOMAIN ProductList(c, company, team) :
                ProductList(c, company, team)[p].best <=> PlaceOf(c, company, team)[p] = 1
  BY DEF ProductList, Offered, Fits, Numbers, PlaceOf, MaxProducts

LEMMA ListNotEmpty ==
    ASSUME NEW c \in DOMAIN Catalogue, NEW company, NEW team, Offered(c, company) # {}
    PROVE  DOMAIN ProductList(c, company, team) # {}
  <1>1. PICK p \in Offered(c, company) : PlaceOf(c, company, team)[p] = 1
    BY OfferedType, SomeoneFirst DEF PlaceOf
  <1> QED BY <1>1, ListShows

LEMMA ListShowsBest ==
    ASSUME NEW c \in DOMAIN Catalogue, NEW company, NEW team,
           NEW p \in DOMAIN ProductList(c, company, team), NEW q \in Offered(c, company),
           q \notin DOMAIN ProductList(c, company, team)
             \/ ProductList(c, company, team)[p].best
    PROVE  Fit(p, company, team) >= Fit(q, company, team)
  <1> DEFINE place == PlaceOf(c, company, team)
             fit == Fits(c, company, team)
  <1>1. /\ p \in Offered(c, company) /\ place[p] <= 2
        /\ ~(place[q] <= 2) \/ place[p] = 1
    BY ListShows
  <1>2. place[p] \in Nat \ {0} /\ place[q] \in Nat \ {0}
    BY <1>1, OfferedType, PlaceType DEF PlaceOf
  <1>3. fit[q] \in Int /\ fit[p] \in Int
    BY <1>1, OfferedType
  <1>4. ASSUME fit[q] > fit[p] PROVE FALSE
    <2>1. Before(q, p, fit, Numbers(c, company))
      BY <1>4 DEF Before
    <2>2. place[q] < place[p]
      BY <1>1, <2>1, OfferedType, PlacesFollow DEF PlaceOf
    <2> HIDE DEF place
    <2> QED BY <1>1, <1>2, <2>2
  <1>5. fit[p] = Fit(p, company, team) /\ fit[q] = Fit(q, company, team)
    BY <1>1 DEF Fits
  <1> HIDE DEF fit
  <1> QED BY <1>3, <1>4, <1>5

\* The answer lists products for what is in the scope of the company it was made for.
AnswerInv ==
    \A c \in DOMAIN answer :
        c \in Scoped(profile) /\ answer[c].products = ProductList(c, profile, asked.team)

LEMMA AnswerStep == RankingInv /\ AnswerInv /\ [Next]_vars => AnswerInv'
  <1> SUFFICES ASSUME RankingInv, AnswerInv, [Next]_vars PROVE AnswerInv'
    OBVIOUS
  <1>1. ASSUME UNCHANGED <<profile, asked, answer>> PROVE AnswerInv'
    BY <1>1 DEF AnswerInv
  <1>2. ASSUME NEW f \in Files, Upload(f) PROVE AnswerInv'
    BY <1>1, <1>2 DEF Upload, request
  <1>3. CASE Analyse
    BY <1>1, <1>3 DEF Analyse, KeepMap, GuessColumns, GuessInVain, NoSignals, ConcludeAlone,
       AskAgain, TakeSignals, ReadImage, TakeNumbers, NumbersRaise, AnswerRaises, request
  <1>4. ASSUME NEW override \in BOOLEAN, Apply(override) PROVE AnswerInv'
    BY <1>1, <1>4 DEF Apply, request
  <1>5. CASE Carry
    BY <1>1, <1>5 DEF Carry, request
  <1>6. ASSUME NEW form \in Forms, NEW mode \in Modes, Submit(form, mode) PROVE AnswerInv'
    BY <1>6 DEF Submit, RankingInv, Unmatched, Early, AnswerInv
  <1>7. CASE Recommend /\ ~Respond
    BY <1>1, <1>7 DEF Recommend, MatchClassical, MatchLlm, RateByNobody, RateHybrid, RateLlm,
       RateFails, request
  <1>8. CASE Respond
    <2>1. PICK told :
            answer' = [c \in DOMAIN Top(ranking, MaxResults) |->
                         [products |-> ProductList(c, profile, asked.team),
                          words |-> IF c \in Explained(told) THEN "llm" ELSE "engine"]]
      BY <1>8 DEF Respond
    <2>2. DOMAIN Top(ranking, MaxResults) \subseteq Scoped(profile)
      BY TopShortens DEF RankingInv, NothingInvented
    <2>3. profile' = profile /\ asked' = asked
      BY <1>8 DEF Respond
    <2> QED BY <2>1, <2>2, <2>3 DEF AnswerInv
  <1>9. CASE Flip \/ UNCHANGED vars
    BY <1>1, <1>9 DEF Flip, vars, request
  <1> QED BY <1>2, <1>3, <1>4, <1>5, <1>6, <1>7, <1>8, <1>9 DEF Next

LEMMA Answers == Spec => [](RankingInv /\ AnswerInv)
  <1>1. Init => AnswerInv
    BY DEF Init, AnswerInv
  <1> QED BY <1>1, RankingStep, AnswerStep, PTL DEF Spec

LEMMA ScopedType ==
    ASSUME NEW company, NEW c \in Scoped(company)
    PROVE  /\ c \in DOMAIN Catalogue
           /\ company.country \in EuCountries /\ c \in WithProducts => c \in GdprCapable
  BY DEF Scoped, InDomains, Feasible

\* The list that is shown is empty only where nothing may be shown, and of that the filter
\* before the ranking has made sure in every country of its own list.
THEOREM Served == Spec => []NeverWithoutProducts
  <1>1. ASSUME AnswerInv PROVE NeverWithoutProducts
    <2> SUFFICES ASSUME NEW c \in DOMAIN answer, c \in WithProducts,
                        DOMAIN answer[c].products = {}
                 PROVE  profile.country \in EuropeanCountries \ EuCountries /\ c \notin GdprCapable
      BY DEF NeverWithoutProducts
    <2>1. /\ c \in DOMAIN Catalogue /\ answer[c].products = ProductList(c, profile, asked.team)
          /\ profile.country \in EuCountries => c \in GdprCapable
      BY <1>1, ScopedType DEF AnswerInv
    <2>2. Offered(c, profile) = {}
      BY <2>1, ListNotEmpty
    <2>3. c \notin GdprCapable
      BY <2>1, <2>2 DEF GdprCapable, Offered, Eligible, ProductsOf
    <2>4. profile.country \in EuropeanCountries
      BY <2>1, <2>2 DEF WithProducts, Offered, Eligible, ProductsOf
    <2> QED BY <2>1, <2>3, <2>4
  <1> QED BY <1>1, Answers, PTL

\* No product left out fits better than one that is shown, nor than the best fit.
THEOREM BestFits == Spec => []BestShown
  <1>1. ASSUME AnswerInv PROVE BestShown
    <2> SUFFICES ASSUME NEW c \in DOMAIN answer, NEW p \in DOMAIN answer[c].products,
                        NEW q \in Offered(c, profile),
                        q \notin DOMAIN answer[c].products \/ answer[c].products[p].best
                 PROVE  Fit(p, profile, asked.team) >= Fit(q, profile, asked.team)
      BY DEF BestShown, Offered
    <2>1. c \in DOMAIN Catalogue /\ answer[c].products = ProductList(c, profile, asked.team)
      BY <1>1, ScopedType DEF AnswerInv
    <2> QED BY <2>1, ListShowsBest
  <1> QED BY <1>1, Answers, PTL

=============================================================================
