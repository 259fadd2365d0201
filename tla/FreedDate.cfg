SPECIFICATION Spec
CONSTANTS
    thu = thu
    fri = fri
    sat = sat
    NoOne = NoOne
    NoGroup = NoGroup
    NoDate = NoDate
    NoBooking = NoBooking
    WeekdayOf <- MCWeekdayOf
    DayOf <- MCDayOf
    ForbiddenDates <- MCOpen
    Dates = {thu, fri}
    Bookings = {b1, b2, b3}
    Groups = {g1}
    Employees = {e1}
    Requests = {r1, r2}
    LastDay = 0
    RetentionDays = 2
    MaxOptionDates = 3
    Traffics <- Freed
SYMMETRY Symmetry
CHECK_DEADLOCK FALSE
PROPERTIES
    FreedDateIsEmpty
