SPECIFICATION TuiSpec
CONSTANTS
    CONNECT_TMO_S = 1
    INFLIGHT_TMO_S = 1
    BACKOFF_MIN = 1
    BACKOFF_MAX = 2
    DEVSET_PUT_TMO_S = 1
    DEVSET_ACT_TMO_S = 1
    REFRESH_S = 1
    OVP_TRIES = 1
    MaxKeys = 3
PROPERTIES TellsTheAnswer
