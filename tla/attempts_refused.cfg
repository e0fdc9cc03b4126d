SPECIFICATION Spec
CONSTANTS
    g1 = g1 None = None
    Tabs = {t1}
    Guests = {g1}
    GuestOf <- OneGuest
    Attempts = {a1, a2}
    Calls = {k1, k2}
    Closers = {c1}
    Days = {d1}
    MaxBookings = 2
    Capacity = 1
    Limit = 1
    Mixes <- Quiet
PROPERTIES NeverRefusedBySelf
