SPECIFICATION FairSpec
CONSTANTS
    r1 = r1
    r2 = r2
    r3 = r3
    w1 = w1
    w2 = w2
    w3 = w3
    w4 = w4
    d1 = d1
    Calls <- MCCalls
    Signature <- MCSignature
    Tool <- MCTool
    WriteTools <- MCWriteTools
    AlwaysConfirm <- MCAlwaysConfirm
    ConfirmThreshold = 3
    MaxSameToolCalls = 2
    MaxSteps = 8
    Batches <- MCBatches
    Plans <- MCPlans
    Intents <- SomeRequests
    NativeToolCalling = TRUE
    StructuredFallback = FALSE
    CloudCompose = TRUE
    MaxAttempts = 3
    RecursionLimit = 25
INVARIANTS TypeOK WithinRecursionLimit OneVoice HaltedTurnReplies NoApologyAfterWork NoUnapprovedBatch UnapprovedWritesBounded
PROPERTIES ComposesOnce ProposedNotRun NoRepeatAcrossRounds Terminates
