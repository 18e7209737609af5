\* Wide words of 3 bytes, which fit TLC's integers; the ids are the server's
\* PKT_CREATE_ROOM and PKT_ENTER_ROOM.  A decoded packet is the end.
CONSTANTS
    Base = 256
    WideBytes = 3
    Collections <- MCCollections
    Others <- MCOthers
    Ids = {1000, 1001}
SPECIFICATION Spec
INVARIANTS SizesAgree RoundTrip
CHECK_DEADLOCK FALSE
