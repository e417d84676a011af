-------------------------- MODULE RecommendedVersion --------------------------
(***************************************************************************)
(* Which newer version of the CLI is recommended                           *)
(* (pkg/recommendedversion, pkg/utils/semver.go).  The central             *)
(* configuration lists versions; the newest one of the same minor and of   *)
(* the same major version as this CLI are recommended, when they are newer *)
(* than it.  A list without the spaces and duplicates that the code drops  *)
(* is a set, and walking the sorted list to the first match is taking the  *)
(* newest one that matches.                                                *)
(***************************************************************************)
EXTENDS Integers

CONSTANT NoVersion  \* the empty string

\* A semantic version; pre is 0 for a release and numbers the pre-releases before it.
Version == [major : Nat, minor : Nat, patch : Nat, pre : Nat]

ASSUME NoVersionAssumption == NoVersion \notin Version

IsPreRelease(v) == v.pre # 0
IsSameMajor(v, w) == v.major = w.major
IsSameMinor(v, w) == v.major = w.major /\ v.minor = w.minor

\* Precedence: a release comes after its pre-releases.
NewerPre(v, w) == (v.pre = 0 /\ w.pre # 0) \/ (v.pre # 0 /\ w.pre # 0 /\ v.pre > w.pre)
IsNewVersion(v, w) ==
  \/ v.major > w.major
  \/ IsSameMajor(v, w) /\ v.minor > w.minor
  \/ IsSameMinor(v, w) /\ v.patch > w.patch
  \/ IsSameMinor(v, w) /\ v.patch = w.patch /\ NewerPre(v, w)

\* sortRecommendedVersionsDescending, up to the first version of the list.
First(versions) ==
  IF versions = {} THEN NoVersion
  ELSE CHOOSE v \in versions : \A w \in versions : ~ IsNewVersion(w, v)

\* Pre-releases are for those who run one.
Considered(listed, current) == {v \in listed : IsPreRelease(current) \/ ~ IsPreRelease(v)}

\* A version that is not newer than the current one is no recommendation.
IfNewer(v, current) == IF v # NoVersion /\ IsNewVersion(v, current) THEN v ELSE NoVersion

findRecommendedMajorVersion(listed, current) ==
  LET v == First(Considered(listed, current)) IN
  IF v # NoVersion /\ IsSameMajor(v, current) THEN NoVersion ELSE IfNewer(v, current)

findRecommendedMinorVersion(listed, current) ==
  LET v == First({w \in Considered(listed, current) : IsSameMajor(w, current)}) IN
  IF v # NoVersion /\ IsSameMinor(v, current) THEN NoVersion ELSE IfNewer(v, current)

findRecommendedPatchVersion(listed, current) ==
  IfNewer(First({w \in Considered(listed, current) : IsSameMinor(w, current)}), current)

\* What the notice names; a new major version is not worth one.
Recommendations(listed, current) ==
  {findRecommendedMinorVersion(listed, current), findRecommendedPatchVersion(listed, current)}
    \ {NoVersion}

===============================================================================
