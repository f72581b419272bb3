\* Bounds: MCFinanceEntry names the scenarios; the requests, events and faults
\* of each are counted, so a behaviour ends: no deadlock check.
SPECIFICATION EntrySpec
CONSTANTS
    Income = {i1}
    Expense = {e1, e2}
    Template = {i1, e1}
    NoCategory = NoCategory
    WholeMonth = WholeMonth
    Requests = {r1, r2}
    MonthLength = 2
    Amounts = {1, 2}
    Plans = {1}
    RateValues = {1, 2}
    Holidays = {3}
    Scale = 2
    Scenarios <- MCScenarios
    WeekLength = 2
    YearLength = 2
    LastDays = 2
    Handlers = {h1, h2}
    NoHandler = NoHandler
    DraftTtl = 1
INVARIANTS
    TypeOK
    BooksAgree
    OverrunTold
    FormOutcomes
PROPERTIES
    EditsSerial
    ClosedBooks
    EntryOnce
CHECK_DEADLOCK FALSE
