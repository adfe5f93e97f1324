------------------------------ MODULE Uploads ------------------------------
(***************************************************************************)
(* services/uploads.py: the upload folder and the requests that use it.    *)
(*                                                                         *)
(* store_stream picks a free name, streams the body into <name>.part and   *)
(* renames that over the name.  Everything up to the opening of the part   *)
(* file runs without an await; from there on other requests, the owner of  *)
(* the Windows folder and Defender come between any two steps.             *)
(*                                                                         *)
(* A path is a requested name, its place in the "name (2).ext" series and  *)
(* how many times .part is appended to it.  The folder maps paths to files *)
(* (inodes, for a handle outlives its name); a file is named after the     *)
(* upload that created it, or after what the owner dropped there.  A file  *)
(* is a row of blocks, each written by some upload; a block stands for the *)
(* chunk size, Cap and Budget count blocks.                                *)
(***************************************************************************)
EXTENDS Naturals, FiniteSets, FiniteSetsExt

CONSTANTS
    Uploads,        \* requests, each made once
    Drops,          \* files the owner may put into the folder
    Names,          \* requested names
    PartNames,      \* a requested name may itself end in .part
    Collisions,     \* others may use the name of an upload in flight
    Faults,         \* which calls may raise: "stream" (open, write), "replace", "unlink"
    MaxVariants,    \* length of the "name (2).ext" series, 999
    Cap,            \* max_upload_bytes
    Budget,         \* total_budget_bytes
    MaxBlocks,      \* bound on what a client sends
    MaxConcurrent,  \* bound on uploads in flight
    MaxCrashes,     \* bound on restarts
    None

ASSUME DropsAssumption == Uploads \intersect Drops = {} /\ None \notin Uploads \union Drops
ASSUME PartNamesAssumption == PartNames \in BOOLEAN
ASSUME CollisionsAssumption == Collisions \in BOOLEAN
ASSUME FaultsAssumption == Faults \subseteq {"stream", "replace", "unlink"}
ASSUME VariantsAssumption == MaxVariants \in Nat \ {0}
ASSUME SizesAssumption == Cap \in Nat /\ Budget \in Nat /\ MaxBlocks \in Nat
ASSUME BoundsAssumption == MaxConcurrent \in Nat /\ MaxCrashes \in Nat

VARIABLES
    dir,      \* the folder
    file,     \* file[i]: what the blocks of i hold
    up,       \* up[u]: the request
    crashes   \* restarts so far

vars == <<dir, file, up, crashes>>

Inodes == Uploads \union Drops
Paths == [name : Names, nth : 1 .. MaxVariants, parts : 0 .. (IF PartNames THEN 2 ELSE 1)]
Stages == {"new", "opening", "streaming", "refusing", "replacing", "checking", "over"}

(* The answer: 200, 502 (Defender has it), or any of the refusals (400,    *)
(* 409, 413, 500, 503, 507).                                               *)
Results == {"none", "stored", "removed", "refused"}

Request == [stage : Stages, target : Paths \union {None}, handle : Inodes \union {None},
            written : 0 .. Cap, result : Results]
NewRequest == [stage |-> "new", target |-> None, handle |-> None, written |-> 0, result |-> "none"]

Empty == [j \in 1 .. Cap |-> None]

Init ==
    /\ dir = [p \in Paths |-> None]
    /\ file = [i \in Inodes |-> Empty]
    /\ up = [u \in Uploads |-> NewRequest]
    /\ crashes = 0

InFlight == {u \in Uploads : up[u].stage \notin {"new", "over"}}

\* mutant of PartOf: the body is streamed into the final name
PartIsTarget(p) == p

PartOf(p) == [p EXCEPT !.parts = @ + 1]

-----------------------------------------------------------------------------
(* Choosing a name.                                                        *)

\* st_size, in blocks: a write past the end leaves a hole that counts.
Size(i) == Max({j \in 1 .. Cap : file[i][j] # None} \union {0})
DirSize == MapThenSumSet(LAMBDA p : Size(dir[p]), {p \in Paths : dir[p] # None})

Series(name, parts) == {[name |-> name, nth |-> n, parts |-> parts] : n \in 1 .. MaxVariants}
Free(S) == {p \in S : dir[p] = None}
Busy(p) == \E u \in InFlight : up[u].target = p

\* mutant of UniqueTarget: the name is taken as it is
AsRequested(S) == {p \in S : p.nth = 1}

(* unique_target: the first free name of the series, or none.              *)
UniqueTarget(S) == {p \in Free(S) : \A q \in Free(S) : p.nth <= q.nth}

\* A request that is over is forgotten, but for what it put under a name.
Forgotten == [NewRequest EXCEPT !.stage = "over"]
Refuses(u) == up' = [up EXCEPT ![u] = [Forgotten EXCEPT !.result = "refused"]]

\* mutant of GuardCapacity: a full folder is not refused
NoBudget == TRUE

GuardCapacity == DirSize < Budget

(* ensure_root and the free-space floor refuse whatever the folder holds,  *)
(* so the budget's own refusal is no further outcome.                      *)
Begins(u) ==
    /\ up[u].stage = "new"
    /\ Cardinality(InFlight) < MaxConcurrent
    /\ \/ Refuses(u)
       \/ /\ GuardCapacity
          /\ \E name \in Names, parts \in (IF PartNames THEN {0, 1} ELSE {0}) :
             LET S == UniqueTarget(Series(name, parts)) IN
             \/ S = {} /\ Refuses(u)
             \/ \E p \in S : /\ Collisions \/ ~Busy(p)
                             /\ up' = [up EXCEPT ![u].stage = "opening", ![u].target = p]
    /\ UNCHANGED <<dir, file, crashes>>

-----------------------------------------------------------------------------
(* Streaming.  open(part, "wb") truncates a part file that is there.       *)
Opens(u) ==
    /\ up[u].stage = "opening"
    /\ LET part == PartOf(up[u].target)
           i == IF dir[part] = None THEN u ELSE dir[part] IN
       /\ dir' = [dir EXCEPT ![part] = i]
       /\ file' = [file EXCEPT ![i] = Empty]
       /\ up' = [up EXCEPT ![u].stage = "streaming", ![u].handle = i]
    /\ UNCHANGED crashes

\* Every handle writes at an offset of its own.
Receives(u) ==
    /\ up[u].stage = "streaming"
    /\ up[u].written < MaxBlocks
    /\ \/ /\ up[u].written + 1 > Cap
          /\ up' = [up EXCEPT ![u].stage = "refusing", ![u].result = "refused"]
          /\ UNCHANGED file
       \/ /\ up[u].written + 1 <= Cap
          /\ file' = [file EXCEPT ![up[u].handle] = [@ EXCEPT ![up[u].written + 1] = u]]
          /\ up' = [up EXCEPT ![u].written = @ + 1]
    /\ UNCHANGED <<dir, crashes>>

(* open or write raises, or the client disconnects.                        *)
Raises(u) ==
    /\ up[u].stage \in {"opening", "streaming"} /\ "stream" \in Faults
    /\ up' = [up EXCEPT ![u].stage = "refusing", ![u].result = "refused"]
    /\ UNCHANGED <<dir, file, crashes>>

StreamEnds(u) ==
    /\ up[u].stage = "streaming"
    /\ up' = IF up[u].written = 0
             THEN [up EXCEPT ![u].stage = "refusing", ![u].result = "refused"]
             ELSE [up EXCEPT ![u].stage = "replacing"]
    /\ UNCHANGED <<dir, file, crashes>>

\* _unlink_quietly: whoever's part file it is by now.
Unlinks(u) ==
    /\ up[u].stage = "refusing"
    /\ \/ dir' = [dir EXCEPT ![PartOf(up[u].target)] = None]
       \/ "unlink" \in Faults /\ UNCHANGED dir
    /\ Refuses(u)
    /\ UNCHANGED <<file, crashes>>

Replaces(u) ==
    /\ up[u].stage = "replacing"
    /\ LET part == PartOf(up[u].target) IN
       \/ /\ dir[part] # None
          /\ dir' = [dir EXCEPT ![up[u].target] = dir[part], ![part] = None]
          /\ up' = [up EXCEPT ![u].stage = "checking"]
       \/ /\ dir[part] = None \/ "replace" \in Faults
          /\ Refuses(u)
          /\ UNCHANGED dir
    /\ UNCHANGED <<file, crashes>>

Checks(u) ==
    /\ up[u].stage = "checking"
    /\ up' = [up EXCEPT ![u].stage = "over",
                        ![u].result = IF dir[up[u].target] = None THEN "removed" ELSE "stored"]
    /\ UNCHANGED <<dir, file, crashes>>

-----------------------------------------------------------------------------
(* Everyone else: delete_upload and Defender remove any file, a part file  *)
(* too; the owner drops one in; the gateway restarts.                      *)
Listed(p) == dir[p] # None /\ p.parts = 0

Removed(p) ==
    /\ dir[p] # None
    /\ dir' = [dir EXCEPT ![p] = None]
    /\ UNCHANGED <<file, up, crashes>>

DroppedIn(p, i) ==
    /\ p.parts = 0 /\ dir[p] = None /\ \A q \in Paths : dir[q] # i
    /\ Collisions \/ ~Busy(p)
    /\ dir' = [dir EXCEPT ![p] = i]
    /\ UNCHANGED <<file, up, crashes>>

Crash ==
    /\ crashes < MaxCrashes
    /\ InFlight # {}
    /\ crashes' = crashes + 1
    /\ up' = [u \in Uploads |-> IF u \notin InFlight THEN up[u]
                               ELSE IF up[u].stage = "checking" THEN [up[u] EXCEPT !.stage = "over"]
                               ELSE Forgotten]
    /\ UNCHANGED <<dir, file>>

UploadStep(u) ==
    \/ Begins(u) \/ Opens(u) \/ Receives(u) \/ Raises(u) \/ StreamEnds(u)
    \/ Unlinks(u) \/ Replaces(u) \/ Checks(u)

Done == (\A u \in Uploads : up[u].stage = "over") /\ UNCHANGED vars

Next ==
    \/ \E u \in Uploads : UploadStep(u)
    \/ \E p \in Paths : Removed(p)
    \/ \E p \in Paths, i \in Drops : DroppedIn(p, i)
    \/ Crash
    \/ Done

Spec == Init /\ [][Next]_vars

-----------------------------------------------------------------------------
(* Properties.                                                             *)

\* Every variable has its type.
TypeOK ==
    /\ dir \in [Paths -> Inodes \union {None}]
    /\ file \in [Inodes -> [1 .. Cap -> Uploads \union {None}]]
    /\ up \in [Uploads -> Request]
    /\ crashes \in 0 .. MaxCrashes

\* os.replace: "readers see either nothing or the finished file, never a
\* partial one under its real name", and nothing of another upload in it.
BlocksOf(u) == [j \in 1 .. Cap |-> IF j <= up[u].written THEN u ELSE None]

WholeFiles ==
    \A p \in Paths : (Listed(p) /\ dir[p] \notin Drops) =>
        \E u \in Uploads : /\ up[u].target = p
                           /\ up[u].stage \in {"checking", "over"}
                           /\ file[dir[p]] = BlocksOf(u)

\* unique_target: "Never overwrites."  No step of an upload touches a file
\* that was there complete, stored by an upload or put there by the owner.
Complete == {p \in Paths : \/ dir[p] \in Drops
                           \/ \E u \in Uploads : up[u].target = p /\ up[u].result = "stored" /\ dir[p] # None}

NeverOverwrites ==
    [][\A u \in Uploads : UploadStep(u) =>
          \A p \in Complete : dir'[p] = dir[p] /\ file'[dir[p]] = file[dir[p]]]_vars

\* guard_capacity checks the budget before an upload, not during it: the
\* folder outgrows it by at most what the uploads in flight may add.
OvershootBounded == DirSize <= Budget - 1 + MaxConcurrent * Cap
=============================================================================
