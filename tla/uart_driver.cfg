SPECIFICATION Spec
CONSTANTS
    RxDepth = 2
    TxDepth = 1
    BufSize = 3
    XmitSize = 2
    LdiscSize = 2
    MaxIn = 3
    MaxOut = 3
    MaxLines = 1
    LineLen = 2
    MaxOpens = 2
INVARIANTS RxAccounted TtyAlive TxAccounted ConsoleLineWhole
PROPERTIES FifosServed OpenAndCloseEnd
