CONSTANTS
    base = base
    mid = mid
    top = top
    side = side
    twin = twin
    mBase = mBase
    mMid = mMid
    mTop = mTop
    mSide = mSide
    aBase = aBase
    aMid = aMid
    aTop = aTop
    aSide = aSide
    shared = shared
    image = image
    Releases <- OneReleases
    Objects <- OneObjects
    Deps <- OneDeps
    Manifest <- OneManifest
    Fragments <- OneFragments
    Assets <- OneAssets
    Artifact <- OneArtifact
    IsPublic <- OneIsPublic
    Subjects <- OneSubjects
    Actions = {t1}
    Builders = {w1}
    Yankers = {y1}
    None = None
    Unkeyed = Unkeyed
    RetryLimit = 1
    MaxFaults = 0
CHECK_DEADLOCK FALSE
SPECIFICATION LiveSpec
PROPERTY TombstonedIsNotYanked
