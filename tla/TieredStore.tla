---------------------------- MODULE TieredStore ----------------------------
(***************************************************************************)
(* How the levels of spec.tieredstore become cache paths with quotas, the  *)
(* storage a worker takes from a node, and the order of the levels.        *)
(***************************************************************************)
EXTENDS Integers, Sequences, SequencesExt

MediumType == {"MEM", "SSD", "HDD"}

\* No quota, a quota that is no quantity, and the errors.
Unset == -1
Bad == -2

\* level.Path and level.QuotaList are split at commas: paths is the number of
\* paths, quotaList the quotas one by one (none if the list is empty).
LevelSpec(mediums, quotas, maxPaths) ==
    [medium : mediums, paths : 1..maxPaths, quota : quotas \cup {Unset},
     quotaList : BoundedSeq(quotas \cup {Bad}, maxPaths)]

\* The same without bounds.
LevelType == [medium : MediumType, paths : Nat \ {0}, quota : Nat \cup {Unset},
              quotaList : Seq(Nat \cup {Bad})]

Level(medium, quotas) == [medium |-> medium, quotas |-> quotas]

\* What is wrong with a level, if anything.
LevelError(level) ==
    CASE level.quotaList = << >> -> IF level.quota = Unset THEN "neither" ELSE "nil"
      [] level.quotaList # << >> /\ Len(level.quotaList) # level.paths -> "length"
      [] OTHER -> IF Contains(level.quotaList, Bad) THEN "parse" ELSE "nil"

\* quotaList overrides quota, which is divided equally among the paths.
CachePaths(level) ==
    IF level.quotaList = << >>
    THEN [i \in 1..level.paths |-> level.quota \div level.paths]
    ELSE level.quotaList

\* The first level that is wrong decides.
ConvertToTieredstoreInfo(levels) ==
    LET wrong == SelectInSeq(levels, LAMBDA l : LevelError(l) # "nil") IN
    IF wrong # 0
    THEN [err |-> LevelError(levels[wrong]), levels |-> << >>]
    ELSE [err |-> "nil",
          levels |-> [i \in 1..Len(levels) |-> Level(levels[i].medium, CachePaths(levels[i]))]]

-----------------------------------------------------------------------------
Total(quotas) == FoldLeft(+, 0, quotas)

StorageType(medium) == IF medium \in {"SSD", "HDD"} THEN "disk" ELSE "memory"

\* storage has an entry for the types that some level is of.
AddLevel(storage, level) ==
    LET type == StorageType(level.medium) IN
    [t \in DOMAIN storage \cup {type} |->
        (IF t \in DOMAIN storage THEN storage[t] ELSE 0)
            + (IF t = type THEN Total(level.quotas) ELSE 0)]

GetLevelStorageMap(levels) == FoldLeft(AddLevel, [t \in {} |-> 0], levels)

-----------------------------------------------------------------------------
GetDefaultTieredStoreOrder(medium) ==
    CASE medium = "MEM" -> 0 [] medium = "SSD" -> 1 [] medium = "HDD" -> 2

\* Variant: media named twice stay in twice.
MakeMediumTypeSortedRepeating(mediums) ==
    SortSeq(mediums, LAMBDA a, b :
        GetDefaultTieredStoreOrder(a) < GetDefaultTieredStoreOrder(b))

\* The loop drops repetitions and leaves the set of the media, and sort.Sort puts
\* that into the order in which each medium is faster than the next.
MakeMediumTypeSorted(mediums) ==
    CHOOSE s \in SetToSeqs(ToSet(mediums)) : \A i \in 1..(Len(s) - 1) :
        GetDefaultTieredStoreOrder(s[i]) < GetDefaultTieredStoreOrder(s[i + 1])

\* An index from 0, or -1.
GetTieredLevel(levels, medium) ==
    SelectInSeq(MakeMediumTypeSorted([i \in 1..Len(levels) |-> levels[i].medium]),
                LAMBDA m : m = medium) - 1

=============================================================================
