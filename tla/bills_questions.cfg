SPECIFICATION DrawnSpec
CONSTANTS
    v1 = v1 x1 = x1 x2 = x2 Nobody = Nobody
    Venues = {v1}
    Visits = {x1, x2}
    VenueOf <- OneVenue
    Periods = {1}
    PeriodOf <- OneMonth
    ReadyOn <- Ready
    Bills = {1}
    Draws = {}
    Saves = {s1, s2}
    Kinds = {"form", "send", "question"}
    Reports = {}
    Rulings = {}
    Decisions = {"upheld"}
    LinesEditable = FALSE
    DisputeTime = 1
    ClockEnd = 1
SYMMETRY Symmetry
\* Every statement may come to be deleted.
CHECK_DEADLOCK FALSE
INVARIANTS TotalIsCurrent
PROPERTIES ImplementsBook QuestionsAreKept 
