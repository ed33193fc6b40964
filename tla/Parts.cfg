SPECIFICATION Spec
CONSTANTS
    Running = {"textbelt", "weather", "discover", "classic", "xd", "frame", "magnum", "tui",
               "jk", "assembler", "phantom", "threads", "marks"}
    Keys = {k1}
    NoKey = NoKey
    TB_QUEUE = 2
    TB_TO_MAX = 2
    TB_RATE_MAX = 2
    TB_GAP = 1
    TB_RETRY = 1
    TB_HOUR = 2
    Quotas = {0}
    Periods = {1}
    MaxRecent = 3
    Places = {p1, p2}
    Nowhere = Nowhere
    Zips = {z1}
    NoZip = NoZip
    WX_NST = 1
    WX_POINTS_S = 1
    WX_RETRY_S = 1
    WX_FORECAST_S = 1
    WX_ZCTA_RETRY = 1
    ObsPeriods = {1}
    Days = {0, 1}
    Hosts = {h1, h2}
    NoHost = NoHost
    NTry = 2
    PROBE_INFLIGHT = 2
    PROBE_CAP_S = 2
    IO_TIMEOUT_S = 1
    RECONNECT_S = 2
    Intervals = {1, 3}
    Adapters = {a1, a2}
    Twins = {}
    Blank = {a2}
    Paths = {d1, d2}
    FirstPaths = {d1}
    Nothing = Nothing
    XD_TIMEOUT = 1
    XD_INTERVAL = 1
    Models = {m1, m2}
    MAG_RELEARN_BYTES = 7
    MAG_HELD_MAX = 4
    Roles = {r1, r2}
    NoRole = NoRole
    STALE_S = 2
    REOPEN_S = 1
    OWNED_RETRY_S = 2
    PUBLISH_S = 1
    CONNECT_TMO_S = 1
    INFLIGHT_TMO_S = 1
    BACKOFF_MIN = 1
    BACKOFF_MAX = 1
    DEVSET_PUT_TMO_S = 1
    DEVSET_ACT_TMO_S = 1
    REFRESH_S = 1
    OVP_TRIES = 1
    MaxKeys = 3
    WQ_LEN = 3
    OUT_LEN = 1
    OVP_MIN = 2
    OVP_MAX = 3
    WRITE_GAP = 1
    SETTINGS_RETRY = 1
    JK_CELL_RETRY = 1
    MaxPuts = 2
    ASM_BUF = 5
    NOTIFY_MAX = 3
    Real = {b1, b2}
    Foreign = {f1}
    MAX_SHADOWS = 2
    PH_POLL = 1
    Threads = {t1, t2, t3}
    Events = {e1, e2}
    NULL = NULL
    Crowd = {e1, e2, t1}
    WM_WINDOW = 3
    WM_EVERY = 2
    WM_LAG = 1
    Values = {1, 2, 3}
INVARIANTS TypeOK StationInList RightSerial FramingExact SentOnce MarksTrue
PROPERTIES HourlyCap ListsAreQueues AcceptedEnds ReadsAgain
