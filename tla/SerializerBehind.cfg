\* As Serializer.cfg, but every packet, also the one behind, has a value.
CONSTANTS
    Base = 256
    WideBytes = 3
    Collections <- MCFilled
    Others <- MCOthers
    Ids = {1000, 1001}
SPECIFICATION Spec
INVARIANT OnlyThePacket
CHECK_DEADLOCK FALSE
