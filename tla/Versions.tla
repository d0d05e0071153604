------------------------------ MODULE Versions ------------------------------
(***************************************************************************)
(* The order of an asset's versions in the market (pkg/market/sqlstore.go): *)
(* semverLess, the scan that finds latest_version after a push and the      *)
(* insertion sort behind the version list.  The version is whatever text    *)
(* the recipe's header gives, so a part may be no number.  pkg/recipe has a *)
(* comparison of its own, CompareSemver (parser.go).                        *)
(***************************************************************************)
EXTENDS Integers, Sequences, SequencesExt

CONSTANTS
    Part,         \* the parts versions are made of
    EmptyPart,    \* the empty text, Part or not
    TextOrder,    \* the parts in the order of Go's string comparison
    NumberOf,     \* strconv.Atoi: the parts that are numbers -> their value
    MaxParts,     \* bound on the parts of a version
    MaxVersions   \* bound on the versions of the asset

ASSUME VersionsAssumption ==
    /\ TextOrder \in Seq(Part) /\ Range(TextOrder) = Part
    /\ DOMAIN NumberOf \subseteq Part \ {EmptyPart} /\ \A p \in DOMAIN NumberOf : NumberOf[p] \in Int
    /\ MaxParts \in Nat /\ MaxVersions \in Nat

\* The version of a push is not empty, but a part of it may be, as in "1.".
AnyVersion == UNION {[1..n -> Part] : n \in 1..MaxParts} \ {<<EmptyPart>>}

VARIABLES
    pushed,   \* the rows of asset_versions, in the order they were inserted
    latest    \* assets.latest_version, <<>> before the first push

versionsVars == <<pushed, latest>>

VersionsInit == pushed = <<>> /\ latest = <<>>

\* A part that is missing or empty is the empty text, which is no number and
\* before all others.
HasPart(v, i) == i <= Len(v)
IsNumber(v, i) == HasPart(v, i) /\ v[i] \in DOMAIN NumberOf
TextRank(v, i) == IF HasPart(v, i) /\ v[i] # EmptyPart
                  THEN CHOOSE k \in DOMAIN TextOrder : TextOrder[k] = v[i]
                  ELSE 0

\* The two parts do not decide, and the part of a is the smaller one.
PartTies(a, b, i) ==
    IF IsNumber(a, i) /\ IsNumber(b, i) THEN NumberOf[a[i]] = NumberOf[b[i]]
    ELSE TextRank(a, i) = TextRank(b, i)

\* Mutant: parts are always compared as text.
MutPartLess(a, b, i) == TextRank(a, i) < TextRank(b, i)

PartLess(a, b, i) ==
    IF IsNumber(a, i) /\ IsNumber(b, i) THEN NumberOf[a[i]] < NumberOf[b[i]]
    ELSE TextRank(a, i) < TextRank(b, i)

\* semverLess: the first part that does not tie decides.
SemverLess(a, b) ==
    \E i \in 1..MaxParts : /\ PartLess(a, b, i)
                           /\ \A j \in 1..(i - 1) : PartTies(a, b, j)

\* The scan of refreshLatest over the rows in the order the database gives.
Scanned(rows) ==
    FoldLeft(LAMBDA best, v : IF best = <<>> \/ SemverLess(best, v) THEN v ELSE best,
             <<>>, rows)

\* PutAsset of a version that is new, with refreshLatest; SELECT without an
\* ORDER BY may give the rows in any order.
PushNew(v) ==
    /\ Len(pushed) < MaxVersions /\ v \notin Range(pushed)
    /\ pushed' = Append(pushed, v)
    /\ \E rows \in SetToSeqs(Range(pushed')) : latest' = Scanned(rows)

\* Mutant: the sort stops short of the first place.
MutPlace(s, x) ==
    CHOOSE k \in 1..(Len(s) + 1) :
        /\ \A i \in k..Len(s) : SemverLess(s[i], x)
        /\ k > 2 => ~SemverLess(s[k - 1], x)
        /\ k = 1 => s = <<>>

\* sortVersionsDesc moves x to the left while its neighbour is less.
Place(s, x) ==
    CHOOSE k \in 1..(Len(s) + 1) :
        /\ \A i \in k..Len(s) : SemverLess(s[i], x)
        /\ k > 1 => ~SemverLess(s[k - 1], x)

\* ListVersions.
SortVersionsDesc(rows) == FoldLeft(LAMBDA s, x : InsertAt(s, Place(s, x), x), <<>>, rows)

VersionsNext == \E v \in AnyVersion : PushNew(v)

VersionsSpec == VersionsInit /\ [][VersionsNext]_versionsVars

-----------------------------------------------------------------------------
(* CompareSemver of pkg/recipe, for versions made of numerals (which have   *)
(* no sign): missing parts are zero.                                        *)

Numeric(v) == \A i \in DOMAIN v : IsNumber(v, i) /\ NumberOf[v[i]] >= 0
Number(v, i) == IF HasPart(v, i) THEN NumberOf[v[i]] ELSE 0

CompareSemver(a, b) ==
    LET diff == {i \in 1..MaxParts : Number(a, i) # Number(b, i)} IN
    IF diff = {} THEN 0
    ELSE LET i == Min(diff) IN IF Number(a, i) < Number(b, i) THEN -1 ELSE 1

-----------------------------------------------------------------------------
(* Properties.                                                             *)

\* For versions made of numbers the market and the recipe package agree: by
\* CompareSemver nothing is newer than latest_version (refreshLatest) and the
\* version list (ListVersions) goes from newer to older, whatever order they
\* were pushed in and the database reads them in.
LatestIsNewest ==
    (\A v \in Range(pushed) : Numeric(v)) =>
        /\ \A v \in Range(pushed) : CompareSemver(latest, v) >= 0
        /\ LET list == SortVersionsDesc(pushed) IN
           \A i, j \in DOMAIN list : i < j => CompareSemver(list[i], list[j]) >= 0

\* semverLess orders the versions of the asset, up to ties: every version is
\* on one side of any two others that differ.  It need not: 2 < 10 < 1a < 2.
Ordered(V) ==
    \A a, b, c \in V : /\ SemverLess(a, b) /\ SemverLess(b, c) => SemverLess(a, c)
                       /\ SemverLess(a, c) => SemverLess(a, b) \/ SemverLess(b, c)

\* Neither is less, as for 1 and 01.
Tied(a, b) == ~SemverLess(a, b) /\ ~SemverLess(b, a)

\* As long as semverLess does order them, text parts included, the version
\* list (ListVersions) holds every version once and starts with latest_version
\* (refreshLatest), or, where several versions tie for the first place, with
\* one that ties with it.
ListStartsWithLatest ==
    LET list == SortVersionsDesc(pushed)
        V == Range(pushed)
        OneNewest == \A v \in V : Tied(list[1], v) => v = list[1]
    IN  Ordered(V) =>
            /\ Range(list) = V /\ Len(list) = Len(pushed)
            /\ pushed # <<>> => Tied(list[1], latest) /\ (OneNewest => list[1] = latest)
=============================================================================
