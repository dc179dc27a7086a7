CONSTANTS
    Width = 16
    Precision = 10
    FloatMax = 1000000
    RepeatMax = 20
    RenderMax = 5
    MaxErrors = 3
    MaxExprDepth = 12
    MaxExprChain = 20
    MaxBlockDepth = 8
    ImmMax = 99
    MaxFrames = 5
    StackLimit = 60
    NumFnThreshold = 2
    Junk = {7}
    Programs <- HotConditionals
SPECIFICATION LanguageSpec
INVARIANT
    RunsAsItMeans
