SPECIFICATION FairSpec
CONSTANTS
    thu = thu
    fri = fri
    sat = sat
    NoOne = NoOne
    NoGroup = NoGroup
    NoDate = NoDate
    NoBooking = NoBooking
    WeekdayOf <- MCWeekdayOf
    DayOf <- MCTwoDaysApart
    ForbiddenDates <- MCOpen
    Dates = {thu, fri}
    Bookings = {b1, b2}
    Groups = {g1}
    Employees = {e1}
    Requests = {r1, r2}
    LastDay = 3
    RetentionDays = 2
    MaxOptionDates = 3
    Traffics <- Progressing
CHECK_DEADLOCK FALSE
PROPERTIES
    EveryRequestAnswered
    BookedPastIsArchived
    RetentionEnforced
