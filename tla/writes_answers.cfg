SPECIFICATION FairSpec
CONSTANTS
    b1 = b1 b2 = b2 v1 = v1 c1 = c1
    NoSave = NoSave NoRequest = NoRequest
    Bookings = {b1}
    Venues = {v1}
    Customers = {c1}
    VenueOf <- OneVenue
    CustomerOf <- OneCustomer
    AutoConfirm = {}
    Slots <- OneSlot
    Requests = {}
    Saves = {s1, s2}
    MaxTime = 2
    ClockEnd = 1
    Capacities = {1}
    Limit = 2
    Writers = {"staff", "owner", "customer"}
    Entered = {"confirmed"}
INVARIANTS TypeOK
PROPERTIES NoAnswerUndone  SavesEnd
