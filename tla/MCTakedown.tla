----------------------------- MODULE MCTakedown -----------------------------
(***************************************************************************)
(* Instances of Takedown for TLC: a chain of public releases, base <- mid  *)
(* <- top, and a release beside it that shares a fragment with base.       *)
(***************************************************************************)
EXTENDS Takedown, TLC

CONSTANTS base, mid, top, side, twin,
          mBase, mMid, mTop, mSide, aBase, aMid, aTop, aSide, shared, image

MCReleases == {base, mid, top, side}
MCDeps == (base :> {}) @@ (mid :> {base}) @@ (top :> {mid}) @@ (side :> {})
MCManifest == (base :> mBase) @@ (mid :> mMid) @@ (top :> mTop) @@ (side :> mSide)
MCArtifact == (base :> aBase) @@ (mid :> aMid) @@ (top :> aTop) @@ (side :> aSide)
MCFragments == (base :> {shared}) @@ (mid :> {}) @@ (top :> {}) @@ (side :> {shared})
MCAssets == (base :> {}) @@ (mid :> {image}) @@ (top :> {}) @@ (side :> {})
MCIsPublic == (base :> TRUE) @@ (mid :> TRUE) @@ (top :> TRUE) @@ (side :> TRUE)
MCObjects == {mBase, mMid, mTop, mSide, aBase, aMid, aTop, aSide, shared, image}

OneDigest(o) == [digest |-> o, whole |-> {}]
Whole(R) == [digest |-> None, whole |-> R]
MCSubjects == {OneDigest(shared), OneDigest(image), Whole({base}), Whole({mid, side})}

\* base <- mid, and twin: the revision of mid published under a second label.
TwinReleases == {base, mid, twin}
TwinDeps == (base :> {}) @@ (mid :> {base}) @@ (twin :> {base})
TwinManifest == (base :> mBase) @@ (mid :> mMid) @@ (twin :> mMid)
TwinArtifact == (base :> aBase) @@ (mid :> aMid) @@ (twin :> aMid)
TwinFragments == (base :> {}) @@ (mid :> {}) @@ (twin :> {})
TwinAssets == (base :> {}) @@ (mid :> {image}) @@ (twin :> {image})
TwinIsPublic == (base :> TRUE) @@ (mid :> TRUE) @@ (twin :> FALSE)
TwinObjects == {mBase, mMid, aBase, aMid, image}
TwinSubjects == {OneDigest(image), Whole({base}), Whole({mid})}

\* One release with one asset.
OneReleases == {mid}
OneDeps == mid :> {}
OneManifest == mid :> mMid
OneArtifact == mid :> aMid
OneFragments == mid :> {}
OneAssets == mid :> {image}
OneIsPublic == mid :> TRUE
OneObjects == {mMid, aMid, image}
OneSubjects == {OneDigest(image), Whole({mid})}
=============================================================================
