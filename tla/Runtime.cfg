SPECIFICATION Spec
CONSTANTS
    None = None
    NoProfile = NoProfile
    Malformed = Malformed
    profile = profile
    list = list
    login = login
    upload = upload
    v1 = v1
    v2 = v2
    v3 = v3
    p1 = p1
    p2 = p2
    Procs = {p1, p2}
    Names = {login}
    Profiles = {profile, list}
    Objects = {profile}
    Paths <- MCPaths
    DeterministicPaths <- MCDeterministic
    ConsolePaths <- MCConsole
    LighthousePaths <- MCLighthouse
    Texts <- MCTexts
    NoText = "binary"
    Empty = "empty"
    TokenErrors = {"unexpected token"}
    LowSeo = {"low seo"}
    ReportOf <- MCReports
    Archives <- MCArchives
    ArtifactNames = {upload}
    WorkflowRuns <- MCWorkflowRuns
    MaxArtifacts = 2
    Tags = {v1, v2, v3}
    Commits = {1, 2, 3, 4, 5}
    Reach <- MCReach
    FirstReleases <- MCReleases
    FirstTagged <- MCTagged
    FirstHead = 3
    ListedReleases = 2
    CompareLimit = 1
    MaxReleases = 2
    Requests <- MCRequests
    Profiled <- MCProfiled
    Others <- MCOthers
    Receipts <- MCReceipts
    UrlAllowlist = {"home"}
    UrlDenylist = {"internal"}
    EntriesIn <- MCEntriesIn
    MaxCalls = 2
    MaxEvents = 2
SYMMETRY Symmetric
INVARIANTS TypeOK AnswersAreLogged SecretsReadBack ScansCarryTheirProfile
    EvidenceIsOneArtifact FindingsAreComplete NotesAddUp
CHECK_DEADLOCK FALSE
