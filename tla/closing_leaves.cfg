SPECIFICATION Spec
CONSTANTS
    b1 = b1 b2 = b2 d1 = d1 Nobody = Nobody
    Bookings = {b1}
    AutoConfirmed = {}
    Devices = {d1}
    Closings = {k1}
    Requests = {r1}
CHECK_DEADLOCK FALSE
PROPERTIES ClosedIsClear
