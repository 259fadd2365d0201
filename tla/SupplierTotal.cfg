SPECIFICATION Spec
CONSTANTS
    Callers = {p1, p2}
    Invoices = {x1, x2}
    Amounts = {1, 2}
    Hall = 3
    NoDoc = NoDoc
    Sides = {x1, x2}
    Senders = {p1, p2}
    Guests = {p1, p2}
    MaxAttempts = 2
    Backoff = 1
    Ratings = {2, 3, 5}
    Critical = 3
    Gap = 2
    Cards = {x1, x2}
    Clerks = {p1, p2}
    Managers = {p1, p2}
    Events = {x1, x2}
    Syncs = {p1, p2}
    Registrars = {p1, p2}
    Days = {x1, x2}
    Settings = Settings
    Free = Free
    Hands = {p1, p2}
    HallKeys = {k1}
    SupplierKeys = {k2}
    Bases = {1, 2}
    NoHand = NoHand
    Screens = {p1, p2}
    Night = Night
    Absent = Absent
    Occasions = {x1, x2}
    Blank = Blank
    Servers = {p1, p2}
    Officers = {p1, p2}
    NoCopy = NoCopy
    Signers = {p1, p2}
    Curators = {p1, p2}
    Designs = {x1, x2}
    NoDesign = NoDesign
    Agents = {p1, p2}
    Threads = {x1, x2}
    PageLimit = 1
    NoThread = NoThread
    EventDay = 1
    LastDay = 3
    Ledgers <- NoLedgers
    Surveys <- NoSurveys
    Seasons <- NoSeasons
    Evenings <- NoEvenings
    Numberings <- NoNumberings
    Desks <- UpgradeDesk
    Traffics <- NoTraffics
    Shifts <- NoShifts
    Weeks <- NoWeeks
    Quotes <- NoQuotes
    Signings <- NoSignings
    Galleries <- NoGalleries
    Inboxes <- NoInboxes
CHECK_DEADLOCK FALSE
INVARIANTS
    TotalIsHalls
