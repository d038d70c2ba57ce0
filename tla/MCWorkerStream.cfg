SPECIFICATION FairSpec
CONSTANTS
    Calls = {1, 2}
    MaxStreams = 2
    MaxNotices = 1
    None = None
INVARIANTS
    ChannelReady
    CallAccounted
PROPERTIES
    ConnectionRecovers
CHECK_DEADLOCK FALSE
