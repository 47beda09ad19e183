SPECIFICATION PipelineSpec
CONSTANTS
    n1 = n1
    n2 = n2
    Null = Null
    Files <- AllFiles
    MaxEntries = 3
    MaxTotal = 5
    MaxEntry = 4
    MaxRatio = 2
    MaxDepth = 3
    ChunkSize = 2
    Probe = 3
    MaxPixels = 4
    MaxSide = 2
    MaxTiffPages = 2
    Documents <- OcrDocuments
    Images <- PipelineImages
    ImageOf <- PipelineImage
    MinSide = 2
    MinPixels = 4
    MaxPagePixels = 15
    MaxTotalPixels = 11
    MaxPages = 1
    MaxDerivedBytes = 5
    MemoryHardLimit = 64
    Artifacts <- PlanArtifacts
    Graphs <- PlanGraphs
    MaxBlocks = 2
    MaxBatchBytes = 3
    MaxUInt = 7
    Texts <- SentenceTexts
    Languages <- SentenceLanguages
    Profiles <- LanguageProfiles
    SplitInputs <- SplitterDocuments
    MinChars = 2
    TargetChars = 3
    SoftChars = 4
    HardChars = 7
    TargetWords = 2
    SoftWords = 3
    HardWords = 3
    TargetSentences = 2
    HardSentences = 2
INVARIANTS
    AdmittedFilesAreSound
    RecognitionIsCredited
    EnrichedDocumentIsTold
    NormalizationKeepsMeaning
    SentencesAreFaithful
    FragmentsAreFaithful
    PlanIsTheGreedyPartition
PROPERTIES
    LoopsEnd
