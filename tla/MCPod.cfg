SPECIFICATION Spec
CONSTANTS
    Letter = {"a", "b"}
    NL = "n"
    MaxText = 3
    Call = {h1, h2}
    Name = {"A", "a"}
    Lower <- MCLower
    Contents <- MCContents
    Edits <- MCEdits
    MaxInode = 2
    MaxRequests = 3
    Names = {"a", "b"}
    Up = ".."
    WorkDir <- MCWorkDir
    SymlinkLimit = 3
    Universe <- MCUniverse
    Queries <- MCQueries
    Pages = {1, 2}
    Offsets = {0, 15}
    Word = 16
    MaxEdits = 1
    MatchesPerFile = 3
    SniffedBytes = 2
    SearchedBytes = 2
    Spaces <- MCSpaces
    Globs <- MCGlobs
    Patterns <- MCPatterns
    Samples <- MCSamples
    Alphabet <- MCAlphabet
    Maxima = {1, 2, 4}
    LinksFollowed = 2
    SkillRoots = 2
    SkillDirs <- MCSkillDirs
    Manuals <- MCManuals
    Kit <- MCKit
    MaxResourceDepth = 2
    MaxResourceFiles = 2
    MaxRewrites = 1
    Originals <- MCOriginals
    Revisions <- MCRevisions
    Unreadable = Unreadable
    Space = " "
    Wide = {"u"}
    Context = 1
    MaxPid = 4
    Socket <- MCSocket
    OwnPort = 8
    Chat = {k1, k2}
    Asker = {r1, r2}
    File = {f1, f2}
    Second = {1, 2}
    Modes = {"pvc", "s3-record"}
    MaxAsks = 2
    MaxFiles = 2
    Nobody = Nobody
INVARIANTS
    EditsInRange
    AloneIsExact
    ResolvedAsKernelDoes
    PagesComplete
    
    AnswersComplete
    ReadAsListed
    HunksPatch
    QuietScanComplete
    FirstListingComplete
PROPERTY
    UploadsKept
SYMMETRY MCSymmetry
CHECK_DEADLOCK FALSE
