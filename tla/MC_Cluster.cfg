\* Four (app, room id) pairs, two slots, two endpoints, enough joins for a
\* room to be reaped and its slot reused by another room.
CONSTANTS
    s1 = s1
    s2 = s2
    e1 = e1
    e2 = e2
    Slots <- MC_Slots
    Apps <- MC_Apps
    RoomIds <- MC_RoomIds
    Endpoints <- MC_Endpoints
    MaxJoins = 4
    MaxRoomQueue = 2
    NoSlot = NoSlot
    NoRoom = NoRoom

SPECIFICATION Spec

INVARIANT TypeOK
INVARIANT RegistryConsistent
INVARIANT MembersInLiveRoom
INVARIANT TenantIsolation
PROPERTY RoomsReaped
PROPERTY DirectoryRefined

\* Once the endpoints have used up their joins and left, a shut-down engine
\* with no rooms has nothing more to do.
CHECK_DEADLOCK FALSE
