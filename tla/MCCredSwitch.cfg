CONSTANTS
    ROOT_UID = 0
    ROOT_GID = 0
    NobodyUid = 65534
    NobodyGid = 65534
    Uids <- MCUids
    Gids <- MCGids
    GidLists <- MCGidLists
    NGRPS = 2
    Mounts = {m1, m2}
    RootSquash = {m1}
    AllSquash = {m2}
    InitGroups <- MCInitGroups
    Builds = {"setfsids", "seteids"}
    NoGroups = NoGroups
    NoRequest = NoRequest
SPECIFICATION Spec
INVARIANT TypeOK
INVARIANT GroupsAtSyscall
INVARIANT UidAtSyscall
