CONSTANTS
    base = base
    mid = mid
    top = top
    side = side
    twin = twin
    mBase = mBase
    mMid = mMid
    mTop = mTop
    mSide = mSide
    aBase = aBase
    aMid = aMid
    aTop = aTop
    aSide = aSide
    shared = shared
    image = image
    Releases <- MCReleases
    Objects <- MCObjects
    Deps <- MCDeps
    Manifest <- MCManifest
    Fragments <- MCFragments
    Assets <- MCAssets
    Artifact <- MCArtifact
    IsPublic <- MCIsPublic
    Subjects <- MCSubjects
    Actions = {t1}
    Builders = {w1}
    Yankers = {}
    None = None
    Unkeyed = Unkeyed
    RetryLimit = 1
    MaxFaults = 0
CHECK_DEADLOCK FALSE
SPECIFICATION Spec
INVARIANTS
    LocksAreTheClosure
    PublishedObjectsAreServed
PROPERTIES
    TakedownReachesDownstream
    SharedObjectsAreKept
