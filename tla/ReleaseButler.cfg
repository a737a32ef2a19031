SPECIFICATION Spec
CONSTANTS
    p1 = p1
    p2 = p2
    p3 = p3
    a = a
    b = b
    v1 = v1
    None = None
    Paths = {p1, p2, p3}
    Contents = {c1, c2}
    NameOf <- MCNameOf
    Requests <- MCRequests
    MaxCalls = 2
    MaxFaults = 3
    MaxEdits = 1
INVARIANTS
    TypeOK
    EveryAssetReported
    UploadsAreThere
    ManifestIsOfUpload
    OwnReleaseOnly
    ReleasesAreReported
CHECK_DEADLOCK FALSE
