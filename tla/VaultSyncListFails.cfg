SPECIFICATION Spec
CONSTANTS
    Turns = {t1, t2, t3}
    Notes = {n1, n2}
    Contents = {a, b}
    Own = Own
    Absent = Absent
    None = None
    Profile = Profile
    SyncFaults = {"list"}
    FaultsAfterRestart = TRUE
    UploadFails = FALSE
    Cancels = {"running"}
    Restarts = {"process", "container"}
    MayEmpty = FALSE
    MaxEdits = 2
    MaxRestarts = 1
PROPERTIES UploadedInsightsStay
