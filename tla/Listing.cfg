CONSTANTS Lists <- AllLists
          Sizes = {0, 1, 2}
          MaxPage = 6
          MaxId = 3
          MaxTime = 1
          MaxInt = 20
SPECIFICATION Spec
INVARIANTS TypeOK PageHoldsItsRows NothingSkippedById QuietWalkIsExact
