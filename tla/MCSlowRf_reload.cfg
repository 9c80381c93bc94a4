SPECIFICATION RfSpec
CONSTANTS
    MaxProtocols = 1
    SeqLen = 3
    Databases <- TwoDatabases
    Pulses <- TwoPulses
    SyncMin = 4000
    QueueLen = 1
    MuSize = 1
    UsbLen = 1
    Commands = {"X00", "X25", "GR", "e"}
INVARIANTS
    RfTypeOK
    IndicesInRange
    GenericNotRaw
    WithheldForReason
    SettingsDurable
PROPERTIES
    ReceiverReturns
