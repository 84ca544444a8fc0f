CONSTANTS
    Catalogue <- MCCatalogue
    Products <- MCProducts
    Files <- MCFiles
    Guesses <- MCGuesses
    Sees = {TRUE, FALSE}
    Signals <- MCSignals
    Forms <- MCForms
    Modes = {"classical", "hybrid", "llm"}
    Encodings <- MCEncodings
    Crosses <- MCCrosses
    Replies <- MCReplies
    Lists <- MCLists
    Texts <- MCTexts
    MaxFlips = 1
SPECIFICATION FairSpec
INVARIANTS
    TypeOK
    AcceptedIsAnalysed
    GroundedFlags
    LLMOnlyAdds
    AppliedFlagsConfirmed
    NeverWithoutProducts
    NothingInvented
    DominanceRespected
    BestShown
PROPERTIES
    AnalysisEnds
\* A request that is answered or has failed is the end of this company's way.
CHECK_DEADLOCK FALSE
