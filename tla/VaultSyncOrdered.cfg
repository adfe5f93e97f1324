SPECIFICATION Spec
CONSTANTS
    Turns = {t1, t2, t3}
    Notes = {n1, n2}
    Contents = {a, b}
    Own = Own
    Absent = Absent
    None = None
    Profile = Profile
    SyncFaults = {"list", "download"}
    FaultsAfterRestart = FALSE
    UploadFails = TRUE
    Cancels = {"running"}
    Restarts = {"process", "container"}
    MayEmpty = FALSE
    MaxEdits = 1
    MaxRestarts = 1
INVARIANTS SnapshotAfterSync SyncedProfile
PROPERTIES UploadedInsightsStay ProfileNotClobbered InsightsWrittenBack
SYMMETRY Symmetric
