SPECIFICATION Spec
CONSTANTS
    Objs = {"a", "b", "c"}
    Top = "top"
    ListRows <- MCRows
    Trees <- MCTrees
    PageSizes = {0, 2, 5}
    MaxPageSize = 2
    Queries <- MCQueries
    MaxOthers = 2
INVARIANTS PagesExact WalkReaches TrashEmptied ChildrenGone
PROPERTIES LoopsEnd
CHECK_DEADLOCK FALSE
