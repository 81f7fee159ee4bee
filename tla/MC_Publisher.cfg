\* The endpoint honours its contract: Started once per track until Ended.
CONSTANTS
    e1 = e1
    e2 = e2
    t1 = t1
    p1 = p1
    n1 = n1
    n2 = n2
    Endpoints <- MC_Endpoints
    TrackIds <- MC_TrackIds
    Peers <- MC_Peers
    Names <- MC_Names
    MaxQueue = 3
    RepublishAllowed = FALSE

SPECIFICATION Spec

INVARIANT SourcesMatchTracks
PROPERTY EventuallyStopped
