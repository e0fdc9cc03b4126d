SPECIFICATION PairSpec
CONSTANTS
    v1 = v1 x1 = x1 x2 = x2 Nobody = Nobody
    Venues = {v1}
    Visits = {x1}
    VenueOf <- OneVenue
    Periods = {1, 2}
    PeriodOf <- OneMonth
    ReadyOn <- InTurn
    Bills = {1, 2}
    Draws = {d1, d2}
    Saves = {s1}
    Kinds = {"form"}
    Reports = {"no-show", "priced"}
    Rulings = {"did-not-come"}
    Decisions = {"upheld"}
    LinesEditable = TRUE
    DisputeTime = 1
    ClockEnd = 2
SYMMETRY Symmetry
INVARIANTS TypeOK VisitsBilledOnce OneBillPerMonth NumbersAreDistinct
PROPERTIES IssuedIsFixed
