\* Everything around the jobs: one part in each behaviour.
SPECIFICATION Spec
CONSTANTS
    Parts = {"stream", "watch", "calls", "cache", "artifacts", "runners", "matrix", "expression", "text"}
    Pipes = {"p1", "p2", "p3"}
    PipeJob <- MCPipeJob
    Bytes = {"::error::", "::debug::", "::group::", "::endgroup::", "::add-mask::", "::add-matcher::",
             "::remove-matcher::", "n", "x", "y", "f", "g"}
    Input <- MCInput
    NewLine = "n"
    GivenSecrets <- MCGivenSecrets
    MatcherFile <- MCMatcherFile
    Verbose = TRUE
    JobColors = 2
    Mask = "***"
    Dirs = {"src", "pkg", "dist"}
    NewDirs = {"pkg", "dist"}
    IgnoredDirs = {"dist"}
    MaxChanges = 3
    Workflows = {"main", "mid", "leaf"}
    Main = "main"
    CallGroups <- MCCallGroups
    CallNeeds <- MCCallNeeds
    CallIf <- MCCallIf
    Uses <- MCUses
    OutputForms = {"wrapped", "bare"}
    MainSecrets <- MCMainSecrets
    Passed <- MCPassed
    With <- MCWith
    Defaults <- MCDefaults
    NoWorkflow = NoWorkflow
    NoJobCall = NoJobCall
    s1 = s1
    s2 = s2
    s3 = s3
    r1 = r1
    Saves = {s1, s2, s3}
    Api <- MCApi
    KeyOf <- MCKey
    VersionOf <- MCVersion
    SizeOf <- MCSize
    Chunks = {1, 2}
    MaxSize = 2
    Restores = {r1}
    RestoreKeys <- MCKeys
    RestoreVersion <- MCKeyVersion
    MaxRestarts = 1
    NoSave = NoSave
    u1 = u1
    u2 = u2
    u3 = u3
    f1 = f1
    Uploads = {u1, u2, u3}
    UploadSets <- MCUploadSets
    Protocol <- MCProtocol
    ArtifactName <- MCName
    FilesOf <- MCFilesOf
    ZipFile = "zip"
    Blocks = {1, 2}
    Leftover = {1}
    Fetches = {f1}
    FetchNames = {"x", "y"}
    MaxResends = 1
    NoUpload = NoUpload
    Old = Old
    Versions = {1, 2}
    MaxRepublish = 1
    MaxFailures = 1
    Matrices <- MCMatrices
    KeyOrder <- MCKeyOrder
    TextOf <- MCTextOf
    LeafTokens <- MCLeafTokens
    NameTokens = {"success", "min", "contains"}
    Keywords = {"null", "true"}
    LeafValue <- MCLeafValue
    TextNumber <- MCTextNumber
    NumberText <- MCNumberText
    Fold <- MCFold
    Within <- MCWithin
    Operands <- MCOperands
    Growths <- MCGrowths
    MaxHeight = 1
    Purposes = {"format", "interpolate", "glob"}
    Alphabet <- MCAlphabet
    MaxText <- MCMaxText
    Arguments <- MCArguments
    Paths <- MCPaths
    PathOrder <- MCPathOrder
INVARIANTS
    StreamInv
    WatchInv
    CallInv
    CacheInv
    ArtifactInv
    InstallInv
    MatrixInv
    ParseInvertsWriting
    EvaluationAgrees
    TextInv
PROPERTIES
    ChangeIsRun
    CallsReturnInTheirPart
\* Processes, watches, runs and jobs end.
CHECK_DEADLOCK FALSE
