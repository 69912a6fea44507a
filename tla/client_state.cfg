\* What is used stops when its bounds are used up.
SPECIFICATION BrowserSpec
CONSTANTS
    Tabs = {p1, p2}
    p1 = p1
    p2 = p2
    IDLE_TIMEOUT = 2
    ABSOLUTE_SESSION = 3
    SESSION_TTL = 3
    WRITE_THROTTLE = 1
    MaxClock = 3
    MaxTokens = 2
    LastSignIn = 1
    MaxAsks = 2
    Windows = {p1, p2}
    FREE_ATTEMPTS = 1
    LOCKOUT_THRESHOLD = 3
    LOCKOUT = 3
    WINDOW = 6
    BACKOFF_CAP = 1
    MaxInstant = 12
    i1 = i1
    i2 = i2
    i3 = i3
    Programs = {i1, i2}
    Levels = {i1, i2, i3}
    Contents = {i1, i2}
    Pupils = {i1}
    Nothing = Nothing
    MaxLadderWrites = 3
    Pieces = {i1, i2}
    Assignments = {i1, i2}
    Learners = {i1}
    Days = {0, 10, 41}
    Masteries = {85, 88, 90}
    Ranges = {1}
    Untold = Untold
    plateauMinEvents = 3
    plateauMinDays = 10
    plateauMasteryDelta = 2
    improvingMasteryDelta = 5
    regressionMasteryDelta = 3
    minEventsForTrend = 2
    recentWindowDays = 30
    STALE_EVENT_DAYS = 21
    COMPLETION_MASTERY = 90
    MaxRepertoireWrites = 4
    Students = {"s1", "s2"}
    Teachers = {"t1", "t2"}
    Rooms = {"r1", "r2"}
    Classes = {"c1", "c2"}
    Seats = {"e1", "e2"}
    Users = {"u1", "u2"}
    Instruments = {"i1", "i2"}
    Dated = {"d1", "d2", "d3"}
    Recurring = {"d3"}
    Dues = {"o1"}
    Scores = {"q1"}
    Practices = {"a1"}
    Names = {"n1", "n2"}
    Phones = {"p1", "p2"}
    Codes = {"k1", "k2"}
    Emails = {"m1"}
    Blank = Blank
    Capacities = {1, 2}
    MaxChanges = 3
    Members = {"u1", "u2"}
    Chief = "u1"
    EditedRoles = {"administrator", "manager"}
    Toggles = {"finance.write", "roles.write"}
    Unset = {none_stored}
    Nobody = Nobody
    MaxAccess = 2
    v1 = v1
    v2 = v2
    Ann = Ann
    Sum = Sum
    Builds <- MCBuilds
    LibraryDocument = i1
    Photos = {i2}
    PhotoVersions = {v1, v2}
    Absent = Absent
    Malformed = Malformed
    MaxDamages = 1
    Files <- MCFiles
    Columns = {"nationalId", "name", "teacher"}
    NationalIds = {i1, i2}
    Personal = {Ann}
    Formulas = {Sum}
    Empty = Empty
    Staff = {Ann}
    PageCap = 1
    MAX_ROWS = 2
    Null = Null
    MaxSteps = 3
    Targets <- MCTargets
    Plain = Plain
    UnsafeRests = {v2}
    Phrases = {i2, i3}
    Finds <- MCFinds
    Offers <- MCOffers
    Untyped = Untyped
    GrantedViews = {{"dashboard", "schedule", "students", "messages", "finance"}, {"messages"}}
    Landing <- MCLanding
    RECENT_MAX = 2
    None = None
    MaxEntries = 3
    MaxShellActs = 4
    MaxIds = 10
    MaxJobs = 2
    MaxUpload = 2
    Originals = {"x1", "x2", "g1"}
    Bookable = {"m1", "m2", "m3"}
    GroupLessons = {"g1"}
    NoLink = NoLink
    Followed = {"attention", "cancelled", "original", "effective"}
    MaxVerbs = 2
    MaxMisses = 1
    MaxViews = 2
SYMMETRY Symmetric
INVARIANTS StateTypeOK CeilingHolds LockedMeansProduction GuessesAreBounded AccessHolds 
PROPERTIES SignOutsHaveACause CustomerRecordsSurvive ExportsCanBeRestored
CHECK_DEADLOCK FALSE
