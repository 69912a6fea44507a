\* The screens stop when their bounds are used up.
SPECIFICATION ScreensSpec
CONSTANTS
    Keys = {k1, k2}
    k1 = k1
    k2 = k2
    NoKey = NoKey
    Hooks = {"useResourceList", "useDerivedRead", "useDomainSearch", "useStudentList", "useStudent",
             "useSessionAttendance", "useStudentProgress", "useMediaObjectUrl", "useLibraryFile"}
    MaxTickets = 3
    MaxStored = 2
    Records = {r1, r2}
    r1 = r1
    r2 = r2
    NoRecord = NoRecord
    Dialogs = {"RoomFormDialog", "StudentFormDialog", "ActionSheet", "AssignPieceDialog", "RegisterCompensationDialog"}
    MaxOpenings = 2
    MaxPhotos = 2
    Threads = {th1, th2}
    th1 = th1
    th2 = th2
    NoThread = NoThread
    MaxTexts = 2
    MaxFiles = 2
    MaxMessages = 3
    MaxVisits = 1
    Courses = {"c1", "c2"}
    NoLesson = NoLesson
    Drawn = {m1, m2, m3}
    m1 = m1
    m2 = m2
    m3 = m3
    Asked <- MCAsked
    Weekly <- MCWeekly
    Owed = {m1}
    Today = 1
    Tasks = {w1, w2}
    w1 = w1
    w2 = w2
    MaxMethods = 4
    MAX_MOVES = 2
    MakeupCap = 1
    Stores <- MCStores
    Ranges <- MCRanges
    Noons = {1, 3}
    NO_DATA = NO_DATA
    Unread = Unread
    FlowRows = 3
    Viewer = "t1"
    Unlinked = Unlinked
    Subject <- MCSubject
    Onlooker = "t1"
    Week <- MCWeek
    Permitted = {"attendance.write"}
    PerPage <- MCPerPage
    MaxTurns = 1
    MaxFaults = 1
INVARIANTS ScreensTypeOK ListsShowTheirAnswers FormsKeepTheirWord MessagesReachTheirThread TimetableHolds DashboardHolds DeskHolds FiguresHold
PROPERTIES ListsSettle ListKeepsPromise
CHECK_DEADLOCK FALSE
