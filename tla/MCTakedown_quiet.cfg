CONSTANTS
    base = base
    mid = mid
    top = top
    side = side
    twin = twin
    mBase = mBase
    mMid = mMid
    mTop = mTop
    mSide = mSide
    aBase = aBase
    aMid = aMid
    aTop = aTop
    aSide = aSide
    shared = shared
    image = image
    Releases <- TwinReleases
    Objects <- TwinObjects
    Deps <- TwinDeps
    Manifest <- TwinManifest
    Fragments <- TwinFragments
    Assets <- TwinAssets
    Artifact <- TwinArtifact
    IsPublic <- TwinIsPublic
    Subjects <- TwinSubjects
    Actions = {t1}
    Builders = {w1, w2}
    Yankers = {y1}
    None = None
    Unkeyed = Unkeyed
    RetryLimit = 1
    MaxFaults = 2
CHECK_DEADLOCK FALSE
SPECIFICATION QuietSpec
INVARIANTS
    NothingLiveIsMadeOfBlocked
    LiveReleasesAreWhole
    RemovedCopiesStayGone
