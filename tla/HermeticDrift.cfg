SPECIFICATION Spec
CONSTANTS
    js = js
    py = py
    rs = rs
    v3 = v3
    v4 = v4
    linux = linux
    macos = macos
    Unknown = Unknown
    NoEpoch = NoEpoch
    NoEco = NoEco
    Tree <- ThreeTrees
    Files <- Manifests
    Version <- TwoVersions
    Platform <- TwoPlatforms
    FormatOf <- Formats
    Host <- FewHosts
    Written <- LeftBehind
    Named <- ByName
    Args <- SomeArgs
    MaxPublished = 2
    MaxEpochs = 1
    MaxJobs = 2
INVARIANT GreenAgree
INVARIANT ExitSound
CHECK_DEADLOCK FALSE
