SPECIFICATION PairSpec
CONSTANTS
    b1 = b1 b2 = b2 d1 = d1 Nobody = Nobody
    Bookings = {b1, b2}
    AutoConfirmed = {b2}
    Devices = {d1}
    Closings = {k1, k2}
    Requests = {r1}
SYMMETRY Symmetry
\* Nothing more need happen to an account that is closed or gone.
CHECK_DEADLOCK FALSE
INVARIANTS TypeOK  OnlyLeftoversAreLive VenuesHearWho OnlyLateDevicesStay
