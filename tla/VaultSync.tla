----------------------------- MODULE VaultSync -----------------------------
(***************************************************************************)
(* services/storage_sync.py and the memory extraction of orchestrator.py:  *)
(* one user's Markdown vault in the bucket and its local copy.             *)
(*                                                                         *)
(* A turn begins by syncing the vault: a worker thread lists the bucket,   *)
(* skips when nothing changed since the listing it has cached, and         *)
(* otherwise empties the local folder (all but the profile) and downloads  *)
(* it again.  When the turn has answered, a detached task may record one   *)
(* insight in the profile and upload the profile.  Both hold the user's    *)
(* lock; the note tool, which runs inside a turn, does not, and neither    *)
(* does a thread whose turn was cancelled.                                 *)
(*                                                                         *)
(* An ETag is a digest of an object's content, so contents stand for their *)
(* ETags and a listing is the content of the bucket when it was taken.     *)
(* The profile is the set of insights in it, empty when there is no file;  *)
(* a turn's insight goes by the name of the turn.                          *)
(***************************************************************************)
EXTENDS Naturals, FiniteSets

CONSTANTS
    Turns,         \* turns of the user, each runs once
    Notes,         \* the other .md files
    Contents,      \* what a note in the bucket may say
    Own,           \* what the note tool writes, never in the bucket
    Absent,        \* no such file
    None,
    Profile,       \* PREFERENCES_FILE
    SyncFaults,    \* which requests of a sync may raise: "list", "download"
    FaultsAfterRestart,  \* they may also raise once the gateway has restarted
    UploadFails,   \* an upload may raise
    Cancels,       \* in which stage a client may disconnect: "syncing", "running"
    Restarts,      \* "process": memory is lost; "container": /tmp too
    MayEmpty,      \* other programs may delete the last file of the bucket
    MaxEdits,      \* bound on edits of the bucket by other programs
    MaxRestarts    \* bound on restarts

ASSUME SyncFaultsAssumption == SyncFaults \subseteq {"list", "download"}
ASSUME FaultsAfterRestartAssumption == FaultsAfterRestart \in BOOLEAN
ASSUME UploadFailsAssumption == UploadFails \in BOOLEAN
ASSUME MayEmptyAssumption == MayEmpty \in BOOLEAN
ASSUME CancelsAssumption == Cancels \subseteq {"syncing", "running"}
ASSUME RestartsAssumption == Restarts \subseteq {"process", "container"}
ASSUME EditsAssumption == MaxEdits \in Nat /\ MaxRestarts \in Nat
ASSUME FilesAssumption == Profile \notin Notes
ASSUME ContentsAssumption == Absent \notin Contents /\ Own \notin Contents /\ Own # Absent

VARIABLES
    remote,   \* the bucket under the user's prefix
    local,    \* the folder of the user below the sync root
    exists,   \* that folder exists
    cache,    \* _vault_etags[user], or None
    lock,     \* who holds _vault_locks[user], or None
    turn,     \* turn[t]: where the turn is
    sync,     \* sync[t]: the thread that syncs for t
    task,     \* task[t]: the extraction scheduled by t
    edits,    \* edits of the bucket by other programs so far
    restarts  \* restarts so far

vars == <<remote, local, exists, cache, lock, turn, sync, task, edits, restarts>>

Vault == [notes : [Notes -> Contents \union {Own, Absent}], profile : SUBSET Turns]
NoVault == [notes |-> [n \in Notes |-> Absent], profile |-> {}]

ASSUME NoneAssumption == None \notin Turns /\ None \notin Vault

TurnStages == {"new", "syncing", "running", "over"}
SyncStages == {"idle", "started", "listed", "kept", "wiped", "filling", "done", "failed"}
TaskStages == {"none", "scheduled", "locked", "read", "recorded", "retrying", "ended"}

Sync == [stage : SyncStages, listing : Vault, kept : SUBSET Turns, todo : SUBSET (Notes \union {Profile})]
Idle == [stage |-> "idle", listing |-> NoVault, kept |-> {}, todo |-> {}]
Task == [stage : TaskStages, seen : SUBSET Turns]
NoTask == [stage |-> "none", seen |-> {}]

Init ==
    /\ remote \in {v \in Vault : v.profile = {} /\ \A n \in Notes : v.notes[n] # Own}
    /\ local = NoVault
    /\ exists = FALSE
    /\ cache = None
    /\ lock = None
    /\ turn = [t \in Turns |-> "new"]
    /\ sync = [t \in Turns |-> Idle]
    /\ task = [t \in Turns |-> NoTask]
    /\ edits = 0
    /\ restarts = 0

\* The .md keys of a listing.
Keys(v) == {n \in Notes : v.notes[n] # Absent} \union
           (IF v.profile = {} THEN {} ELSE {Profile})

-----------------------------------------------------------------------------
(* The turn: _prepare_vault, then the graph, then the extraction.          *)
TurnBegins(t) ==
    /\ turn[t] = "new" /\ lock = None
    /\ lock' = t
    /\ turn' = [turn EXCEPT ![t] = "syncing"]
    /\ sync' = [sync EXCEPT ![t] = [Idle EXCEPT !.stage = "started"]]
    /\ UNCHANGED <<remote, local, exists, cache, task, edits, restarts>>

(* A failed sync is logged and the turn goes on with what is there.        *)
TurnPrepared(t) ==
    /\ turn[t] = "syncing" /\ sync[t].stage \in {"done", "failed"}
    /\ lock' = None
    /\ turn' = [turn EXCEPT ![t] = "running"]
    /\ sync' = [sync EXCEPT ![t] = Idle]
    /\ UNCHANGED <<remote, local, exists, cache, task, edits, restarts>>

(* The client goes away: the await raises CancelledError, which releases   *)
(* the lock but does not stop the thread.                                  *)
TurnCancelled(t) ==
    /\ turn[t] \in Cancels
    /\ lock' = IF turn[t] = "syncing" THEN None ELSE lock
    /\ turn' = [turn EXCEPT ![t] = "over"]
    /\ UNCHANGED <<remote, local, exists, cache, sync, task, edits, restarts>>

TurnEnds(t, learnt) ==
    /\ turn[t] = "running"
    /\ turn' = [turn EXCEPT ![t] = "over"]
    /\ task' = [task EXCEPT ![t].stage = IF learnt THEN "scheduled" ELSE "ended"]
    /\ UNCHANGED <<remote, local, exists, cache, lock, sync, edits, restarts>>

\* write_user_note: the local file only, without the lock.
WriteNote(t, n) ==
    /\ turn[t] = "running"
    /\ local' = [local EXCEPT !.notes[n] = Own]
    /\ exists' = TRUE
    /\ UNCHANGED <<remote, cache, lock, turn, sync, task, edits, restarts>>

-----------------------------------------------------------------------------
(* _sync_from_s3, in the thread.                                           *)
SyncLists(t) ==
    /\ sync[t].stage = "started"
    /\ sync' = [sync EXCEPT ![t].stage = "listed", ![t].listing = remote]
    /\ UNCHANGED <<remote, local, exists, cache, lock, turn, task, edits, restarts>>

\* mutant of Unchanged: a bucket as large as the cached one counts as unchanged
SameSize(v) == Keys(v) # {} /\ cache # None /\ Keys(v) = Keys(cache) /\ exists

Unchanged(v) == Keys(v) # {} /\ cache = v /\ exists

SyncSkips(t) ==
    /\ sync[t].stage = "listed"
    /\ Unchanged(sync[t].listing)
    /\ sync' = [sync EXCEPT ![t].stage = "done"]
    /\ UNCHANGED <<remote, local, exists, cache, lock, turn, task, edits, restarts>>

(* _reset_dest: read the preserved file, remove the folder, write it back. *)
SyncKeeps(t) ==
    /\ sync[t].stage = "listed"
    /\ ~Unchanged(sync[t].listing)
    /\ sync' = [sync EXCEPT ![t].stage = "kept", ![t].kept = local.profile]
    /\ UNCHANGED <<remote, local, exists, cache, lock, turn, task, edits, restarts>>

SyncWipes(t) ==
    /\ sync[t].stage = "kept"
    /\ local' = NoVault
    /\ exists' = TRUE
    /\ sync' = [sync EXCEPT ![t].stage = "wiped"]
    /\ UNCHANGED <<remote, cache, lock, turn, task, edits, restarts>>

SyncRestores(t) ==
    /\ sync[t].stage = "wiped"
    /\ local' = IF sync[t].kept = {} THEN local ELSE [local EXCEPT !.profile = sync[t].kept]
    /\ sync' = [sync EXCEPT ![t].stage = "filling", ![t].todo = Keys(sync[t].listing)]
    /\ UNCHANGED <<remote, exists, cache, lock, turn, task, edits, restarts>>

\* mutant of SyncDownloads: a preserved file is never downloaded
SyncDownloadsNotes(t, f) ==
    /\ sync[t].stage = "filling" /\ f \in sync[t].todo
    /\ local' = IF f = Profile THEN local ELSE [local EXCEPT !.notes[f] = remote.notes[f]]
    /\ sync' = [sync EXCEPT ![t].todo = @ \ {f}]
    /\ UNCHANGED <<remote, exists, cache, lock, turn, task, edits, restarts>>

SyncDownloads(t, f) ==
    /\ sync[t].stage = "filling" /\ f \in sync[t].todo
    /\ local' = IF f = Profile THEN [local EXCEPT !.profile = remote.profile]
                               ELSE [local EXCEPT !.notes[f] = remote.notes[f]]
    /\ sync' = [sync EXCEPT ![t].todo = @ \ {f}]
    /\ UNCHANGED <<remote, exists, cache, lock, turn, task, edits, restarts>>

\* A request raises.
SyncRaises(t) ==
    /\ restarts = 0 \/ FaultsAfterRestart
    /\ \/ sync[t].stage = "started" /\ "list" \in SyncFaults
       \/ sync[t].stage = "filling" /\ sync[t].todo # {} /\ "download" \in SyncFaults
    /\ sync' = [sync EXCEPT ![t].stage = "failed"]
    /\ UNCHANGED <<remote, local, exists, cache, lock, turn, task, edits, restarts>>

SyncFinishes(t) ==
    /\ sync[t].stage = "filling" /\ sync[t].todo = {}
    /\ cache' = IF Keys(sync[t].listing) = {} THEN cache ELSE sync[t].listing
    /\ sync' = [sync EXCEPT ![t].stage = "done"]
    /\ UNCHANGED <<remote, local, exists, lock, turn, task, edits, restarts>>

-----------------------------------------------------------------------------
(* extract_and_record_preference, once the model has named an insight: a   *)
(* read-modify-write of the local profile and an upload, tried twice.      *)
\* mutant of TaskLocks: the lock is not taken
TaskBarges(t) ==
    /\ task[t].stage = "scheduled"
    /\ task' = [task EXCEPT ![t].stage = "locked"]
    /\ UNCHANGED <<remote, local, exists, cache, lock, turn, sync, edits, restarts>>

TaskLocks(t) ==
    /\ task[t].stage = "scheduled" /\ lock = None
    /\ lock' = t
    /\ task' = [task EXCEPT ![t].stage = "locked"]
    /\ UNCHANGED <<remote, local, exists, cache, turn, sync, edits, restarts>>

TaskReads(t) ==
    /\ task[t].stage = "locked"
    /\ task' = [task EXCEPT ![t].stage = "read", ![t].seen = local.profile]
    /\ UNCHANGED <<remote, local, exists, cache, lock, turn, sync, edits, restarts>>

TaskRecords(t) ==
    /\ task[t].stage = "read"
    /\ local' = [local EXCEPT !.profile = task[t].seen \union {t}]
    /\ exists' = TRUE
    /\ task' = [task EXCEPT ![t].stage = "recorded"]
    /\ UNCHANGED <<remote, cache, lock, turn, sync, edits, restarts>>

TaskEnds(t) ==
    /\ task' = [task EXCEPT ![t] = [stage |-> "ended", seen |-> {}]]
    /\ lock' = None

\* upload_user_file: nothing is sent when there is no local file.
Uploaded == IF local.profile = {} THEN remote ELSE [remote EXCEPT !.profile = local.profile]

TaskUploads(t) ==
    /\ task[t].stage \in {"recorded", "retrying"}
    /\ remote' = Uploaded
    /\ TaskEnds(t)
    /\ UNCHANGED <<local, exists, cache, turn, sync, edits, restarts>>

\* The request raises, before or after the bucket has applied it.
TaskUploadRaises(t) ==
    /\ UploadFails
    /\ remote' \in {remote, Uploaded}
    /\ \/ /\ task[t].stage = "recorded"
          /\ task' = [task EXCEPT ![t].stage = "retrying"]
          /\ UNCHANGED lock
       \/ /\ task[t].stage = "retrying"
          /\ TaskEnds(t)
    /\ UNCHANGED <<local, exists, cache, turn, sync, edits, restarts>>

-----------------------------------------------------------------------------
(* Another program changes a note in the bucket (not while a sync reads it:*)
(* the listing and the downloads are one look at the bucket).              *)
Edit(n, c) ==
    /\ edits < MaxEdits
    /\ \A t \in Turns : sync[t].stage \in {"idle", "done", "failed"}
    /\ c # remote.notes[n]
    /\ remote' = [remote EXCEPT !.notes[n] = c]
    /\ MayEmpty \/ Keys(remote') # {}
    /\ edits' = edits + 1
    /\ UNCHANGED <<local, exists, cache, lock, turn, sync, task, restarts>>

Restart(kind) ==
    /\ kind \in Restarts /\ restarts < MaxRestarts
    /\ restarts' = restarts + 1
    /\ cache' = None
    /\ lock' = None
    /\ turn' = [t \in Turns |-> IF turn[t] = "new" THEN "new" ELSE "over"]
    /\ sync' = [t \in Turns |-> Idle]
    /\ task' = [t \in Turns |-> NoTask]
    /\ local' = IF kind = "container" THEN NoVault ELSE local
    /\ exists' = (kind = "process" /\ exists)
    /\ UNCHANGED <<remote, edits>>

Done ==
    /\ \A t \in Turns : turn[t] = "over" /\ task[t].stage \in {"none", "ended"}
    /\ UNCHANGED vars

Step(t) ==
    \/ TurnBegins(t) \/ TurnPrepared(t) \/ TurnCancelled(t)
    \/ \E learnt \in BOOLEAN : TurnEnds(t, learnt)
    \/ \E n \in Notes : WriteNote(t, n)
    \/ SyncLists(t) \/ SyncSkips(t) \/ SyncKeeps(t) \/ SyncWipes(t) \/ SyncRestores(t)
    \/ \E f \in Notes \union {Profile} : SyncDownloads(t, f)
    \/ SyncRaises(t) \/ SyncFinishes(t)
    \/ TaskLocks(t) \/ TaskReads(t) \/ TaskRecords(t) \/ TaskUploads(t) \/ TaskUploadRaises(t)

Next ==
    \/ \E t \in Turns : Step(t)
    \/ \E n \in Notes, c \in Contents \union {Absent} : Edit(n, c)
    \/ \E kind \in Restarts : Restart(kind)
    \/ Done

Spec == Init /\ [][Next]_vars

-----------------------------------------------------------------------------
(* Properties.                                                             *)

\* Every variable has its type.
TypeOK ==
    /\ remote \in Vault /\ local \in Vault
    /\ exists \in BOOLEAN
    /\ cache \in Vault \union {None}
    /\ lock \in Turns \union {None}
    /\ turn \in [Turns -> TurnStages]
    /\ sync \in [Turns -> Sync]
    /\ task \in [Turns -> Task]
    /\ edits \in 0 .. MaxEdits /\ restarts \in 0 .. MaxRestarts

\* _sync_from_s3: a sync that succeeds, by downloading or by finding nothing
\* changed, leaves every note of the bucket in the local folder as the bucket
\* has it, unless the note tool has written over it, and none that the bucket
\* has lost ("a deleted remote note does not linger locally").
SnapshotAfterSync ==
    \A t \in Turns : (turn[t] = "syncing" /\ sync[t].stage = "done") =>
        \A n \in Notes : local.notes[n] \in {sync[t].listing.notes[n], Own}

\* upload_user_file, _record_preference: an insight that has reached the
\* bucket stays there: "a preference profile survives a container restart (a
\* fresh container's sync_user_vault then downloads it back)".
UploadedInsightsStay == [][remote.profile \subseteq remote'.profile]_vars

\* _vault_locks: "a background profile write is never clobbered by another
\* turn's vault reset": putting the preserved profile back, and recording an
\* insight, never drop an insight that is in the file.
ProfileNotClobbered ==
    [][\A t \in Turns : (SyncRestores(t) \/ TaskRecords(t)) => local.profile \subseteq local'.profile]_vars

\* upload_user_file: "wrote profile back to S3" is logged when the request went
\* through, and then the bucket has the insight that was recorded: no sync has
\* emptied the folder in between, after which there is no file to send or the
\* bucket's own older profile.
InsightsWrittenBack == [][\A t \in Turns : TaskUploads(t) => t \in remote'.profile]_vars

\* sync_user_vault: a turn that was synced answers with every insight the
\* bucket has, as long as no other sync is emptying the folder.
SyncedProfile ==
    \A t \in Turns : (turn[t] = "syncing" /\ sync[t].stage = "done") =>
        remote.profile \subseteq local.profile
=============================================================================
