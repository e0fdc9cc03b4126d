SPECIFICATION Spec
CONSTANTS
    v1 = v1 x1 = x1 x2 = x2 Nobody = Nobody
    Venues = {v1}
    Visits = {x1, x2}
    VenueOf <- OneVenue
    Periods = {1, 2}
    PeriodOf <- TwoMonths
    ReadyOn <- Ready
    Bills = {1, 2}
    Draws = {d1, d2}
    Saves = {}
    Kinds = {}
    Reports = {}
    Rulings = {}
    Decisions = {"upheld"}
    LinesEditable = FALSE
    DisputeTime = 1
    ClockEnd = 1
SYMMETRY Symmetry
INVARIANTS VisitsBilledOnce
