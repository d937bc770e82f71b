CONSTANTS
    Conn = {c1, c2}
    Device = {phone, laptop}
    NoConn = NoConn
    NoDevice = NoDevice
    MaxNotif = 1
SPECIFICATION Spec
CHECK_DEADLOCK FALSE
PROPERTY UnsubscribedOnlyOffline
