SPECIFICATION Spec
CONSTANTS
    Turns = {t1, t2, t3}
    Notes = {n1}
    Contents = {a}
    Own = Own
    Absent = Absent
    None = None
    Profile = Profile
    SyncFaults = {}
    FaultsAfterRestart = FALSE
    UploadFails = FALSE
    Cancels = {"syncing"}
    Restarts = {}
    MayEmpty = FALSE
    MaxEdits = 0
    MaxRestarts = 1
PROPERTIES ProfileNotClobbered
