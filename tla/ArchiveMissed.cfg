SPECIFICATION FairSpec
CONSTANTS
    thu = thu
    fri = fri
    sat = sat
    NoOne = NoOne
    NoGroup = NoGroup
    NoDate = NoDate
    NoBooking = NoBooking
    WeekdayOf <- MCWeekdayOf
    DayOf <- MCDayOf
    ForbiddenDates <- MCOpen
    Dates = {thu}
    Bookings = {b1, b2}
    Groups = {g1, g2}
    Employees = {e1}
    Requests = {r1}
    LastDay = 2
    RetentionDays = 9
    MaxOptionDates = 3
    Traffics <- Archived
CHECK_DEADLOCK FALSE
PROPERTIES
    ConfirmedPastIsArchived
