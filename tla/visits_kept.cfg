SPECIFICATION Spec
CONSTANTS
    f1 = f1
    Visits = {v1}
    Receipts = {r1, r2}
    NumberOf <- OneNumber
    NoReceipt = NoReceipt
    Flows = {f1, f2}
    Mixes <- Together
    Amounts = {50, 60}
    End = 1
    AskAfter = 0
    AskWithin = 1
    AnswerWithin = 1
    ClockEnd = 2
SYMMETRY Symmetry
\* A visit marked and past its window may have nothing left to happen.
CHECK_DEADLOCK FALSE
INVARIANTS FlagMatchesFacts  
PROPERTIES   ImplementsRecord
