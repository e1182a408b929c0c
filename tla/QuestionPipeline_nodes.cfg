SPECIFICATION PipelineSpec
CHECK_DEADLOCK FALSE
CONSTANTS
    s1 = s1
    s2 = s2
    s3 = s3
    s4 = s4
    Corpus <- MCCorpus
    Topic <- MCTopic
    Fake = Fake
    Preselect = 2
    ShortMax = 3
    ShortMin = 2
    ResearchMax = 3
    DeepMax = 3
    Ask = 3
    Cap = 3
    MaxRaw = 2
INVARIANTS
    AskedIsAllowed
    TopicsApart
