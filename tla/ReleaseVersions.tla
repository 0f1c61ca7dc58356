--------------------------- MODULE ReleaseVersions ---------------------------
(***************************************************************************)
(* internal/selfupdate/version.go: how release versions are parsed, compared *)
(* and decided on.                                                           *)
(*                                                                           *)
(* A version as it is written is a record: its dotted parts (numbers, or     *)
(* Malformed for a part that is empty, signed or no number), what follows    *)
(* the first "-" (Missing if there is none), and what follows a "+".  A      *)
(* prerelease is its rank in the order of Go's strings, the empty one is 0.  *)
(***************************************************************************)
EXTENDS Integers, Sequences

CONSTANTS
    MaxParts,       \* BOUND: the versions whose order is compared with the reference:
    MaxPart,        \*        how many parts they have, how large these are,
    MaxPrerelease   \*        and the rank of the last prerelease

ASSUME VersionAssumption == MaxParts \in Nat /\ MaxPart \in Nat /\ MaxPrerelease \in Nat

Malformed == -1
Missing == -1

Written(parts, pre, build) == [parts |-> parts, pre |-> pre, build |-> build]

Version == [parts : Seq(Nat \cup {Malformed}), pre : Nat \cup {Missing}, build : Nat \cup {Missing}]

\* parseReleaseVersion fails on an empty string and on a part that is no number.
Parses(v) == v.parts # <<>> /\ \A i \in DOMAIN v.parts : v.parts[i] # Malformed

\* parseReleaseVersion: the build is cut off, no prerelease is an empty one.
Parsed(v) == [numbers |-> v.parts, prerelease |-> IF v.pre = Missing THEN 0 ELSE v.pre]

Part(numbers, i) == IF i <= Len(numbers) THEN numbers[i] ELSE 0

Sign(a, b) == IF a < b THEN -1 ELSE IF a > b THEN 1 ELSE 0

\* The final switch: a release is above its prereleases.
ComparePrereleases(a, b) ==
    IF a = b THEN 0
    ELSE IF a = 0 THEN 1
    ELSE IF b = 0 THEN -1
    ELSE Sign(a, b)

\* Mutant of CompareReleaseVersions: the loop ends with the shorter version.
CompareCommonParts(current, latest) ==
    LET a == Parsed(current)
        b == Parsed(latest)
        minLen == IF Len(b.numbers) < Len(a.numbers) THEN Len(b.numbers) ELSE Len(a.numbers)
        from[i \in 1..(minLen + 1)] ==
            IF i > minLen THEN ComparePrereleases(a.prerelease, b.prerelease)
            ELSE IF a.numbers[i] # b.numbers[i] THEN Sign(a.numbers[i], b.numbers[i])
            ELSE from[i + 1]
    IN  from[1]

\* compareReleaseVersions: missing parts count as zero, the first difference decides.
CompareReleaseVersions(current, latest) ==
    LET a == Parsed(current)
        b == Parsed(latest)
        maxLen == IF Len(b.numbers) > Len(a.numbers) THEN Len(b.numbers) ELSE Len(a.numbers)
        from[i \in 1..(maxLen + 1)] ==
            IF i > maxLen THEN ComparePrereleases(a.prerelease, b.prerelease)
            ELSE IF Part(a.numbers, i) # Part(b.numbers, i)
                 THEN Sign(Part(a.numbers, i), Part(b.numbers, i))
                 ELSE from[i + 1]
    IN  from[1]

Comparable(current, latest) == Parses(current) /\ Parses(latest)

\* Mutant of ShouldInstallLatestRelease: any other release is installed.
ShouldInstallOther(current, latest, allowUnknownCurrent) ==
    IF Comparable(current, latest)
    THEN CompareReleaseVersions(current, latest) # 0
    ELSE allowUnknownCurrent /\ current # latest

ShouldInstallLatestRelease(current, latest, allowUnknownCurrent) ==
    IF Comparable(current, latest)
    THEN CompareReleaseVersions(current, latest) < 0
    ELSE allowUnknownCurrent /\ current # latest

-----------------------------------------------------------------------------
\* Reference: the place of a version on a line.  `base` exceeds every part, `top`
\* every prerelease, `width` is the longest version.
Rank(v, base, top, width) ==
    LET value[i \in 0..width] ==
            IF i = 0 THEN 0 ELSE value[i - 1] * base + Part(v.parts, i)
    IN  value[width] * (top + 1) + (IF v.pre \in {Missing, 0} THEN top ELSE v.pre)

\* CompareReleaseVersions orders the versions vs as the line does, so it is a total
\* order on what they mean: no chain of comparisons leads back to where it began.
OrderedAsRanked(vs, base, top, width) ==
    \A a, b \in vs : Comparable(a, b) =>
        CompareReleaseVersions(a, b) = Sign(Rank(a, base, top, width), Rank(b, base, top, width))

\* The versions on which TLC evaluates that.
BoundedVersion ==
    {Written(parts, pre, Missing) :
        parts \in UNION {[1..n -> {Malformed} \cup 0..MaxPart] : n \in 0..MaxParts},
        pre \in {Missing} \cup 0..MaxPrerelease}
=============================================================================
