\* A RestartIce for a session that has gone reaches the worker after shutdown.
CONSTANTS
    s1 = s1
    s2 = s2
    l1 = l1
    r1 = r1
    Slots <- MC_Slots
    LocalAddrs <- MC_LocalAddrs
    RemoteAddrs <- MC_RemoteAddrs
    MaxSpawns = 3
    MaxQueue = 1
    RestartAfterShutdown = TRUE

SPECIFICATION Spec


\* A shut-down worker with no endpoints and no clients left has nothing to do.
CHECK_DEADLOCK FALSE
PROPERTY ShutdownReleasesEndpoints
