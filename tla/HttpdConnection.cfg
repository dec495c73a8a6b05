SPECIFICATION FairSpec
CONSTANTS
    PageLen = 5
    TCP_MSS = 2
    TCP_SND_BUF = 4
    TCP_MAXRTX = 2
    U8 = 5
    HTTPD_MAX_RETRIES = 2
    HTTPD_POLL_INTERVAL = 2
    Timeout = 2
    Windows = {0, 1, 4}
    MaxData = 2
    MaxMemErrs = 1
INVARIANTS PageWhole QueuesSound FreedOnce
PROPERTY Freed
