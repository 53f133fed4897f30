SPECIFICATION Spec
CONSTANTS
    Cables <- AllCables
    Send <- MCSend
    Chains <- OneOrTwoDevices
    Lens = {2, 4, 34}
    Clks = {3, 34}
    Goals = {"RUN_TEST_IDLE", "PAUSE_DR"}
    Pauses = {"TEST_LOGIC_RESET", "EXIT2_DR"}
    MaxScan = 10
    Careful = TRUE
    Faults = {99}
    Octet = 4
    BlasterSize = 8
    MpsseSize = 9
    DirtyBits = 8
    DirtySize = 22
    DirtyClk = 8
    DapTms = 8
    DapSeq = 2
    DapSize = 21
    JlinkSize = 2
    EspSize = 4
    Ch347Size = 24
    GwuSize = 3
    GwuClk = 16
    AnlogicSize = 16
    BangSize = 24
    BangRead = 12
    RemoteSize = 68
    XvcSize = 2
INVARIANTS WireCarriesTheCalls StateIsTracked BufferFits ReadsWhatItShifted SelectedDeviceLoaded
CHECK_DEADLOCK FALSE
