SPECIFICATION MoveSpec
CONSTANTS
    b1 = b1 b2 = b2 v1 = v1 c1 = c1
    NoSave = NoSave NoRequest = NoRequest
    Bookings = {b1, b2}
    Venues = {v1}
    Customers = {c1}
    VenueOf <- OneVenue
    CustomerOf <- OneCustomer
    AutoConfirm = {}
    Slots <- ShortAndLong
    Requests = {"r1"}
    Saves = {s1, s2}
    MaxTime = 3
    ClockEnd = 0
    Capacities = {1, 2}
    Limit = 2
    Writers = {"staff", "customer"}
    Entered = {}
SYMMETRY Symmetry
INVARIANTS NeverOverbooked OneBookingPerRequest NoDeadlock
PROPERTIES NoRequestOnClosedAccount ImplementsLedger
