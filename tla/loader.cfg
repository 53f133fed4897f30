SPECIFICATION Spec
CONSTANTS
    Page = 2
    Sub = 4
    Block = 8
    NrBlocks = 2
    Regions <- AllRegions
    Boards <- MCBoards
    BoardSet = {}
    Chips <- MCChips
    Requests <- MCRequests
    Drive <- MCDrive
    Offsets = {0, 4, 8}
    Sizes = {3, 9}
    Waits = {0, 1, 2, 3, 5, 8}
    MaxRuns = 2
INVARIANTS ReportedIsWritten CleanRunDoesIt NothingElseChanged LocksAsAsked
CHECK_DEADLOCK FALSE
