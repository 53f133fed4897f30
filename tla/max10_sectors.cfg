SPECIFICATION Spec
CONSTANTS
    Page = 2
    Sub = 4
    Block = 8
    NrBlocks = 2
    Regions <- AllRegions
    Boards <- MCBoards
    BoardSet = {"altera"}
    Chips <- MCChips
    Requests <- MCRequests
    Drive <- MCDrive
    Offsets = {0, 4, 8}
    Sizes = {3, 9}
    Waits = {0}
    MaxRuns = 1
INVARIANT SectorsAsAsked
CHECK_DEADLOCK FALSE
