SPECIFICATION FairSpec
CONSTANTS
    g1 = g1 None = None
    Tabs = {t1}
    Guests = {g1}
    GuestOf <- OneGuest
    Attempts = {a1, a2}
    Calls = {k1, k2}
    Closers = {c1}
    Days = {d1}
    MaxBookings = 2
    Capacity = 2
    Limit = 2
    Mixes <- Events
INVARIANTS LettersGoOut ClosedDaysAreEmpty
PROPERTIES KeepsPromise RetriesAreAnswered FormsComeBack
