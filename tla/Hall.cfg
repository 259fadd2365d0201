SPECIFICATION Spec
CONSTANTS
    thu = thu
    fri = fri
    sat = sat
    NoOne = NoOne
    NoGroup = NoGroup
    NoDate = NoDate
    NoBooking = NoBooking
    WeekdayOf <- MCWeekdayOf
    DayOf <- MCDayOf
    ForbiddenDates <- MCNoWeddings
    Dates = {thu, fri, sat}
    Bookings = {b1, b2, b3}
    Groups = {g1, g2}
    Employees = {e1, e2}
    Requests = {r1, r2}
    LastDay = 3
    RetentionDays = 2
    MaxOptionDates = 3
    Traffics <- HallMixes
SYMMETRY Symmetry
CHECK_DEADLOCK FALSE
INVARIANTS
    NoDoubleBooking
    IndInv
    CalendarAgrees
PROPERTIES
    ConversionSparesEvents
    IsRegister
    RulesKept
    CheckingIsExclusive
    JobDeletesOnlyExpired
