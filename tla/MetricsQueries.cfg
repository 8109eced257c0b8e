SPECIFICATION Spec
CONSTANTS
    Shapes <- FiveShapes
    Project = "pay"
    Limits = {1, 2}
    Ranges = {1, 2}
    Day = 2
    Batches <- Different
    Bounds <- Few
INVARIANT TypeOK
INVARIANT CardsAddUp
INVARIANT RoutesAddUp
INVARIANT PagingFollowsControls
INVARIANT BreakdownOfSelection
INVARIANT EventIsTheOneOpened
CHECK_DEADLOCK FALSE
