--------------------------- MODULE VaultSyncProofs ---------------------------
(***************************************************************************)
(* A user's insights survive syncs, uploads that fail and restarts, and a  *)
(* sync leaves the bucket's notes in the local folder, for any number of   *)
(* turns, notes and restarts, under the orderings named below.             *)
(***************************************************************************)
EXTENDS VaultSync, TLAPS

\* Requests of a sync fail only before the gateway's first restart, and no
\* client disconnects while its turn syncs.
Ordered == "syncing" \notin Cancels /\ ~FaultsAfterRestart

\* What the lock guards: one sync or one task at a time, and a sync only while
\* its turn waits for it.
Locked == {"locked", "read", "recorded", "retrying"}

OneAtATime ==
    \A t \in Turns :
        /\ sync[t].stage # "idle" <=> turn[t] = "syncing"
        /\ turn[t] = "syncing" => lock = t
        /\ task[t].stage \in Locked => lock = t
        /\ task[t].stage # "none" => turn[t] = "over"

\* What a sync and a task have read is still so.
Current ==
    \A t \in Turns :
        /\ sync[t].stage \in {"listed", "kept", "wiped", "filling"} => sync[t].listing = remote
        /\ sync[t].stage = "kept" => sync[t].kept = local.profile
        /\ sync[t].stage = "wiped" => local.profile = {}
        /\ task[t].stage = "read" => task[t].seen = local.profile

\* Some sync has ended since the gateway started, or it started with what it has.
Warm ==
    \/ cache # None
    \/ restarts = 0
    \/ \E t \in Turns : \/ turn[t] = "running"
                        \/ sync[t].stage \in {"done", "failed"}
                        \/ task[t].stage \in Locked \union {"scheduled"}

Wiped == \E t \in Turns : sync[t].stage = "wiped"

\* The insights of the bucket are in the local profile, or in the copy of it
\* that a sync holds while it empties the folder.
Held ==
    /\ Warm /\ ~Wiped => remote.profile \subseteq local.profile
    /\ \A t \in Turns :
        /\ Warm /\ sync[t].stage = "wiped" => remote.profile \subseteq sync[t].kept
        /\ sync[t].stage = "filling" => Profile \in sync[t].todo \/ remote.profile \subseteq local.profile

IInv == TypeOK /\ OneAtATime /\ Current /\ Held


-----------------------------------------------------------------------------
(* Changing one sync or one task.                                          *)

LEMMA OneSync ==
  ASSUME TypeOK, NEW t \in Turns, NEW s \in Sync, sync' = [sync EXCEPT ![t] = s]
  PROVE  /\ sync' \in [Turns -> Sync] /\ sync'[t] = s
         /\ \A u \in Turns : u # t => sync'[u] = sync[u]
  BY DEF TypeOK

LEMMA OneTask ==
  ASSUME TypeOK, NEW t \in Turns, NEW s \in Task, task' = [task EXCEPT ![t] = s]
  PROVE  /\ task' \in [Turns -> Task] /\ task'[t] = s
         /\ \A u \in Turns : u # t => task'[u] = task[u]
  BY DEF TypeOK

LEMMA OneTurn ==
  ASSUME TypeOK, NEW t \in Turns, NEW s \in TurnStages, turn' = [turn EXCEPT ![t] = s]
  PROVE  /\ turn' \in [Turns -> TurnStages] /\ turn'[t] = s
         /\ \A u \in Turns : u # t => turn'[u] = turn[u]
  BY DEF TypeOK

\* Nobody else syncs or records while t has the lock, or nobody has it.
LEMMA Alone ==
  ASSUME OneAtATime, NEW t, lock \in {t, None}
  PROVE  \A u \in Turns : u # t => sync[u].stage = "idle" /\ task[u].stage \notin Locked
  <1> SUFFICES ASSUME NEW u \in Turns, u # t
               PROVE  sync[u].stage = "idle" /\ task[u].stage \notin Locked
    OBVIOUS
  <1>1. lock # u
    BY NoneAssumption
  <1> QED
    BY <1>1 DEF OneAtATime

LEMMA Syncing ==
  ASSUME OneAtATime, NEW t \in Turns, sync[t].stage # "idle"
  PROVE  /\ lock = t /\ turn[t] = "syncing" /\ task[t].stage = "none"
         /\ \A u \in Turns : u # t => sync[u].stage = "idle" /\ task[u].stage \notin Locked
  <1>1. lock = t /\ turn[t] = "syncing" /\ task[t].stage = "none"
    BY DEF OneAtATime
  <1> QED
    BY <1>1, Alone

LEMMA Recording ==
  ASSUME OneAtATime, NEW t \in Turns, task[t].stage \in Locked
  PROVE  /\ lock = t /\ turn[t] = "over" /\ sync[t].stage = "idle"
         /\ \A u \in Turns : u # t => sync[u].stage = "idle" /\ task[u].stage \notin Locked
  <1>1. lock = t /\ turn[t] = "over" /\ sync[t].stage = "idle"
    BY DEF OneAtATime, Locked
  <1> QED
    BY <1>1, Alone

-----------------------------------------------------------------------------
(* The turns.                                                              *)

LEMMA InitHolds == Init => IInv
  <1> SUFFICES ASSUME Init
               PROVE  IInv
    OBVIOUS
  <1>1. NoVault \in Vault /\ Idle \in Sync /\ NoTask \in Task
    BY DEF NoVault, Vault, Idle, Sync, SyncStages, NoTask, Task, TaskStages
  <1>2. Idle.stage = "idle" /\ NoTask.stage = "none"
    BY DEF Idle, NoTask
  <1>3. TypeOK
    <2>1. remote \in Vault
      BY DEF Init
    <2>2. 0 \in 0 .. MaxEdits /\ 0 \in 0 .. MaxRestarts
      BY EditsAssumption
    <2>3. turn \in [Turns -> TurnStages] /\ sync \in [Turns -> Sync] /\ task \in [Turns -> Task]
      BY <1>1 DEF Init, TurnStages
    <2> QED
      BY <1>1, <2>1, <2>2, <2>3 DEF Init, TypeOK
  <1>4. OneAtATime /\ Current /\ Held
    BY <1>2 DEF Init, OneAtATime, Current, Held, Locked
  <1> QED
    BY <1>3, <1>4 DEF IInv

LEMMA TurnBeginsKeepsIt ==
  ASSUME IInv, NEW t \in Turns, TurnBegins(t)
  PROVE  IInv'
  <1> DEFINE s == [Idle EXCEPT !.stage = "started"]
  <1>1. s \in Sync /\ s.stage = "started"
    BY DEF Idle, Sync, SyncStages, NoVault, Vault
  <1>2. sync' = [sync EXCEPT ![t] = s]
    BY DEF TurnBegins
  <1> HIDE DEF s
  <1>3. /\ sync' \in [Turns -> Sync] /\ sync'[t] = s
        /\ \A u \in Turns : u # t => sync'[u] = sync[u]
    BY <1>1, <1>2, OneSync DEF IInv
  <1>4. /\ turn' \in [Turns -> TurnStages] /\ turn'[t] = "syncing"
        /\ \A u \in Turns : u # t => turn'[u] = turn[u]
    BY OneTurn DEF TurnBegins, IInv, TurnStages
  <1>5. \A u \in Turns : u # t => sync[u].stage = "idle" /\ task[u].stage \notin Locked
    <2>1. OneAtATime /\ lock \in {t, None}
      BY DEF TurnBegins, IInv
    <2> QED
      BY <2>1, Alone
  <1>6. turn[t] = "new" /\ task[t].stage = "none" /\ sync[t].stage = "idle"
    BY DEF TurnBegins, IInv, OneAtATime
  <1>7. TypeOK'
    BY <1>3, <1>4 DEF TurnBegins, IInv, TypeOK
  <1>8. OneAtATime'
    BY <1>1, <1>3, <1>4, <1>5, <1>6 DEF TurnBegins, IInv, OneAtATime, Locked
  <1>9. Current'
    BY <1>1, <1>3 DEF TurnBegins, IInv, Current
  <1>10. Warm' => Warm
    BY <1>1, <1>3, <1>4 DEF TurnBegins, Warm
  <1>11. Wiped' <=> Wiped
    BY <1>1, <1>3, <1>6 DEF Wiped
  <1>12. Held'
    BY <1>1, <1>3, <1>10, <1>11 DEF TurnBegins, IInv, Held
  <1> QED
    BY <1>7, <1>8, <1>9, <1>12 DEF IInv

LEMMA TurnPreparedKeepsIt ==
  ASSUME IInv, NEW t \in Turns, TurnPrepared(t)
  PROVE  IInv'
  <1>1. Idle \in Sync /\ Idle.stage = "idle"
    BY DEF Idle, Sync, SyncStages, NoVault, Vault
  <1>3. /\ sync' \in [Turns -> Sync] /\ sync'[t] = Idle
        /\ \A u \in Turns : u # t => sync'[u] = sync[u]
    BY <1>1, OneSync DEF TurnPrepared, IInv
  <1>4. /\ turn' \in [Turns -> TurnStages] /\ turn'[t] = "running"
        /\ \A u \in Turns : u # t => turn'[u] = turn[u]
    BY OneTurn DEF TurnPrepared, IInv, TurnStages
  <1>5. /\ sync[t].stage \in {"done", "failed"} /\ task[t].stage = "none"
        /\ \A u \in Turns : u # t => sync[u].stage = "idle" /\ task[u].stage \notin Locked
    BY Syncing DEF TurnPrepared, IInv
  <1>7. TypeOK'
    BY <1>3, <1>4 DEF TurnPrepared, IInv, TypeOK
  <1>8. OneAtATime'
    BY <1>1, <1>3, <1>4, <1>5 DEF TurnPrepared, IInv, OneAtATime, Locked
  <1>9. Current'
    BY <1>1, <1>3 DEF TurnPrepared, IInv, Current
  <1>10. Warm
    BY <1>5 DEF Warm
  <1>11. Wiped' <=> Wiped
    BY <1>1, <1>3, <1>5 DEF Wiped
  <1>12. Held'
    BY <1>1, <1>3, <1>10, <1>11 DEF TurnPrepared, IInv, Held
  <1> QED
    BY <1>7, <1>8, <1>9, <1>12 DEF IInv

LEMMA TurnStopsKeepsIt ==
  ASSUME Ordered, IInv, NEW t \in Turns,
         TurnCancelled(t) \/ \E learnt \in BOOLEAN : TurnEnds(t, learnt)
  PROVE  IInv'
  <1>1. turn[t] = "running" /\ lock' = lock
    BY CancelsAssumption DEF Ordered, TurnCancelled, TurnEnds
  <1>2. /\ turn' \in [Turns -> TurnStages] /\ turn'[t] = "over"
        /\ \A u \in Turns : u # t => turn'[u] = turn[u]
    BY OneTurn DEF TurnCancelled, TurnEnds, IInv, TurnStages
  <1>3. /\ task' \in [Turns -> Task] /\ \A u \in Turns : u # t => task'[u] = task[u]
        /\ task'[t].stage \in {"none", "scheduled", "ended"} /\ task[t].stage = "none"
    <2>1. task[t].stage = "none"
      BY <1>1 DEF IInv, OneAtATime
    <2>2. CASE UNCHANGED task
      BY <2>1, <2>2 DEF IInv, TypeOK
    <2>3. ASSUME NEW learnt \in BOOLEAN, TurnEnds(t, learnt)
          PROVE  /\ task' \in [Turns -> Task] /\ \A u \in Turns : u # t => task'[u] = task[u]
                 /\ task'[t].stage \in {"scheduled", "ended"}
      <3> DEFINE s == [task[t] EXCEPT !.stage = IF learnt THEN "scheduled" ELSE "ended"]
      <3>1. s \in Task /\ s.stage \in {"scheduled", "ended"}
        BY DEF IInv, TypeOK, Task, TaskStages
      <3>2. task' = [task EXCEPT ![t] = s]
        BY <2>3 DEF TurnEnds
      <3> HIDE DEF s
      <3> QED
        BY <3>1, <3>2, OneTask DEF IInv
    <2> QED
      BY <2>1, <2>2, <2>3 DEF TurnCancelled
  <1>4. UNCHANGED <<remote, local, exists, cache, lock, sync, edits, restarts>>
    BY <1>1 DEF TurnCancelled, TurnEnds
  <1>5. TypeOK'
    BY <1>2, <1>3, <1>4 DEF IInv, TypeOK
  <1>6. OneAtATime'
    BY <1>1, <1>2, <1>3, <1>4 DEF IInv, OneAtATime, Locked
  <1>7. Current'
    BY <1>3, <1>4 DEF IInv, Current
  <1>8. Warm /\ (Wiped' <=> Wiped)
    BY <1>1, <1>4 DEF Warm, Wiped
  <1>9. Held'
    BY <1>4, <1>8 DEF IInv, Held
  <1> QED
    BY <1>5, <1>6, <1>7, <1>9 DEF IInv

LEMMA WriteNoteKeepsIt ==
  ASSUME IInv, NEW t \in Turns, NEW n \in Notes, WriteNote(t, n)
  PROVE  IInv'
  <1>1. local' \in Vault /\ local'.profile = local.profile
    BY DEF WriteNote, IInv, TypeOK, Vault
  <1>2. UNCHANGED <<remote, cache, lock, turn, sync, task, edits, restarts>> /\ exists' \in BOOLEAN
    BY DEF WriteNote
  <1>3. TypeOK' /\ OneAtATime' /\ Current'
    BY <1>1, <1>2 DEF IInv, TypeOK, OneAtATime, Current
  <1>4. (Warm' <=> Warm) /\ (Wiped' <=> Wiped)
    BY <1>2 DEF Warm, Wiped
  <1>5. Held'
    BY <1>1, <1>2, <1>4 DEF IInv, Held
  <1> QED
    BY <1>3, <1>5 DEF IInv

-----------------------------------------------------------------------------
(* The steps of a sync.                                                    *)

\* A sync goes on under its lock.
LEMMA SyncGoesOn ==
  ASSUME IInv, NEW t \in Turns, sync[t].stage # "idle",
         NEW s \in Sync, s.stage # "idle", sync' = [sync EXCEPT ![t] = s],
         local' \in Vault, exists' \in BOOLEAN, cache' \in Vault \union {None},
         UNCHANGED <<remote, lock, turn, task, edits, restarts>>,
         s.stage \in {"listed", "kept", "wiped", "filling"} => s.listing = remote,
         s.stage = "kept" => s.kept = local'.profile,
         s.stage = "wiped" => local'.profile = {} /\ (Warm => remote.profile \subseteq s.kept),
         s.stage = "filling" => Profile \in s.todo \/ remote.profile \subseteq local'.profile,
         s.stage # "wiped" /\ (Warm \/ cache' # None \/ s.stage \in {"done", "failed"}) =>
           remote.profile \subseteq local'.profile,
         cache' # None => Warm \/ s.stage \in {"done", "failed"}
  PROVE  IInv'
  <1>1. /\ sync' \in [Turns -> Sync] /\ sync'[t] = s
        /\ \A u \in Turns : u # t => sync'[u] = sync[u]
    BY OneSync DEF IInv
  <1>2. /\ lock = t /\ turn[t] = "syncing" /\ task[t].stage = "none"
        /\ \A u \in Turns : u # t => sync[u].stage = "idle" /\ task[u].stage \notin Locked
    BY Syncing DEF IInv
  <1>3. TypeOK'
    BY <1>1 DEF IInv, TypeOK
  <1>4. OneAtATime'
    BY <1>1, <1>2 DEF IInv, OneAtATime
  <1>5. Current'
    BY <1>1, <1>2 DEF IInv, Current, Locked
  <1>6. Warm' => Warm \/ cache' # None \/ s.stage \in {"done", "failed"}
    BY <1>1 DEF Warm
  <1>7. Wiped' <=> s.stage = "wiped"
    BY <1>1, <1>2 DEF Wiped
  <1>8. Held'
    BY <1>1, <1>2, <1>6, <1>7 DEF IInv, Held
  <1> QED
    BY <1>3, <1>4, <1>5, <1>8 DEF IInv

LEMMA SyncKeepsIt ==
  ASSUME Ordered, IInv, NEW t \in Turns,
         \/ SyncLists(t) \/ SyncSkips(t) \/ SyncKeeps(t) \/ SyncWipes(t) \/ SyncRestores(t)
         \/ \E f \in Notes \union {Profile} : SyncDownloads(t, f)
         \/ SyncRaises(t) \/ SyncFinishes(t)
  PROVE  IInv'
  <1> USE DEF SyncStages
  <1>1. /\ sync[t].stage # "idle" /\ sync[t] \in Sync
        /\ remote \in Vault /\ local \in Vault /\ exists \in BOOLEAN /\ cache \in Vault \union {None}
    BY DEF SyncLists, SyncSkips, SyncKeeps, SyncWipes, SyncRestores, SyncDownloads, SyncRaises,
           SyncFinishes, IInv, TypeOK
  <1>2. \A u \in Turns : u # t => sync[u].stage = "idle"
    BY <1>1, Syncing DEF IInv
  <1>3. Warm /\ sync[t].stage # "wiped" => remote.profile \subseteq local.profile
    BY <1>2 DEF IInv, Held, Wiped
  <1>4. CASE SyncLists(t)
    <2> DEFINE s == [sync[t] EXCEPT !.stage = "listed", !.listing = remote]
    <2>1. s \in Sync /\ s.stage = "listed" /\ s.listing = remote
      BY <1>1 DEF Sync
    <2>2. sync' = [sync EXCEPT ![t] = s]
      BY <1>4 DEF SyncLists
    <2> HIDE DEF s
    <2> QED
      BY <1>1, <1>3, <1>4, <2>1, <2>2, SyncGoesOn DEF SyncLists, Warm
  <1>5. CASE SyncSkips(t)
    <2> DEFINE s == [sync[t] EXCEPT !.stage = "done"]
    <2>1. s \in Sync /\ s.stage = "done"
      BY <1>1 DEF Sync
    <2>2. sync' = [sync EXCEPT ![t] = s]
      BY <1>5 DEF SyncSkips
    <2>3. Warm
      <3>1. sync[t].listing \in Vault /\ cache = sync[t].listing
        BY <1>1, <1>5 DEF SyncSkips, Unchanged, Sync
      <3> QED
        BY <3>1, NoneAssumption DEF Warm
    <2> HIDE DEF s
    <2> QED
      BY <1>1, <1>3, <1>5, <2>1, <2>2, <2>3, SyncGoesOn DEF SyncSkips
  <1>6. CASE SyncKeeps(t)
    <2> DEFINE s == [sync[t] EXCEPT !.stage = "kept", !.kept = local.profile]
    <2>1. s \in Sync /\ s.stage = "kept" /\ s.kept = local.profile /\ s.listing = sync[t].listing
      BY <1>1 DEF Sync, Vault
    <2>2. sync' = [sync EXCEPT ![t] = s]
      BY <1>6 DEF SyncKeeps
    <2>3. sync[t].listing = remote
      BY <1>6 DEF SyncKeeps, IInv, Current
    <2> HIDE DEF s
    <2> QED
      BY <1>1, <1>3, <1>6, <2>1, <2>2, <2>3, SyncGoesOn DEF SyncKeeps, Warm
  <1>7. CASE SyncWipes(t)
    <2> DEFINE s == [sync[t] EXCEPT !.stage = "wiped"]
    <2>1. s \in Sync /\ s.stage = "wiped" /\ s.kept = sync[t].kept /\ s.listing = sync[t].listing
      BY <1>1 DEF Sync
    <2>2. sync' = [sync EXCEPT ![t] = s]
      BY <1>7 DEF SyncWipes
    <2>3. sync[t].listing = remote /\ sync[t].kept = local.profile
      BY <1>7 DEF SyncWipes, IInv, Current
    <2>4. local' \in Vault /\ local'.profile = {} /\ exists' \in BOOLEAN
      BY <1>7 DEF SyncWipes, NoVault, Vault
    <2>5. Warm => remote.profile \subseteq s.kept
      BY <1>3, <1>7, <2>1, <2>3 DEF SyncWipes
    <2> HIDE DEF s
    <2> QED
      BY <1>1, <1>7, <2>1, <2>2, <2>3, <2>4, <2>5, SyncGoesOn DEF SyncWipes, Warm
  <1>8. CASE SyncRestores(t)
    <2> DEFINE s == [sync[t] EXCEPT !.stage = "filling", !.todo = Keys(sync[t].listing)]
    <2>1. s \in Sync /\ s.stage = "filling" /\ s.listing = sync[t].listing /\ s.todo = Keys(sync[t].listing)
      BY <1>1 DEF Sync, Keys
    <2>2. sync' = [sync EXCEPT ![t] = s]
      BY <1>8 DEF SyncRestores
    <2>3. sync[t].listing = remote /\ local.profile = {} /\ (Warm => remote.profile \subseteq sync[t].kept)
      BY <1>8 DEF SyncRestores, IInv, Current, Held
    <2>4. local' \in Vault /\ local'.profile = sync[t].kept
      BY <1>1, <1>8, <2>3 DEF SyncRestores, Vault, Sync
    <2>5. Profile \in s.todo \/ remote.profile \subseteq local'.profile
      BY <2>1, <2>3 DEF Keys
    <2> HIDE DEF s
    <2> QED
      BY <1>1, <1>8, <2>1, <2>2, <2>3, <2>4, <2>5, SyncGoesOn DEF SyncRestores, Warm
  <1>9. ASSUME NEW f \in Notes \union {Profile}, SyncDownloads(t, f)
        PROVE  IInv'
    <2> DEFINE s == [sync[t] EXCEPT !.todo = @ \ {f}]
    <2>1. s \in Sync /\ s.stage = "filling" /\ s.listing = sync[t].listing /\ s.todo = sync[t].todo \ {f}
      BY <1>1, <1>9 DEF Sync, SyncDownloads
    <2>2. sync' = [sync EXCEPT ![t] = s]
      BY <1>9 DEF SyncDownloads
    <2>3. sync[t].listing = remote /\ sync[t].stage = "filling"
          /\ (Profile \in sync[t].todo \/ remote.profile \subseteq local.profile)
      BY <1>9 DEF SyncDownloads, IInv, Current, Held
    <2>4. local' \in Vault /\ local'.profile = IF f = Profile THEN remote.profile ELSE local.profile
      BY <1>1, <1>9 DEF SyncDownloads, Vault
    <2> HIDE DEF s
    <2> QED
      BY <1>1, <1>3, <1>9, <2>1, <2>2, <2>3, <2>4, SyncGoesOn DEF SyncDownloads, Warm
  <1>10. CASE SyncRaises(t)
    <2> DEFINE s == [sync[t] EXCEPT !.stage = "failed"]
    <2>1. s \in Sync /\ s.stage = "failed"
      BY <1>1 DEF Sync
    <2>2. sync' = [sync EXCEPT ![t] = s]
      BY <1>10 DEF SyncRaises
    <2>3. Warm /\ sync[t].stage # "wiped"
      BY <1>10 DEF SyncRaises, Warm, Ordered
    <2> HIDE DEF s
    <2> QED
      BY <1>1, <1>3, <1>10, <2>1, <2>2, <2>3, SyncGoesOn DEF SyncRaises
  <1>11. CASE SyncFinishes(t)
    <2> DEFINE s == [sync[t] EXCEPT !.stage = "done"]
    <2>1. s \in Sync /\ s.stage = "done"
      BY <1>1 DEF Sync
    <2>2. sync' = [sync EXCEPT ![t] = s]
      BY <1>11 DEF SyncFinishes
    <2>3. remote.profile \subseteq local.profile
      BY <1>11 DEF SyncFinishes, IInv, Held
    <2>4. cache' \in Vault \union {None}
      BY <1>1, <1>11 DEF SyncFinishes, Sync
    <2> HIDE DEF s
    <2> QED
      BY <1>1, <1>11, <2>1, <2>2, <2>3, <2>4, SyncGoesOn DEF SyncFinishes
  <1> QED
    BY <1>4, <1>5, <1>6, <1>7, <1>8, <1>9, <1>10, <1>11


-----------------------------------------------------------------------------
(* The steps of a task.                                                    *)

\* A task takes the lock, goes on, or gives the lock back.
LEMMA TaskGoesOn ==
  ASSUME IInv, NEW t \in Turns, task[t].stage \in Locked \union {"scheduled"}, lock \in {t, None},
         NEW s \in Task, s.stage \in Locked \union {"ended"}, task' = [task EXCEPT ![t] = s],
         lock' = IF s.stage \in Locked THEN t ELSE None,
         local' \in Vault, exists' \in BOOLEAN, remote' \in Vault,
         UNCHANGED <<cache, turn, sync, edits, restarts>>,
         s.stage = "read" => s.seen = local'.profile,
         remote.profile \subseteq local.profile => remote'.profile \subseteq local'.profile
  PROVE  IInv'
  <1> USE DEF Locked
  <1>1. /\ task' \in [Turns -> Task] /\ task'[t] = s
        /\ \A u \in Turns : u # t => task'[u] = task[u]
    BY OneTask DEF IInv
  <1>2. turn[t] = "over"
    BY DEF IInv, OneAtATime
  <1>3. \A u \in Turns : sync[u].stage = "idle" /\ (u # t => task[u].stage \notin Locked)
    <2>1. \A u \in Turns : u # t => sync[u].stage = "idle" /\ task[u].stage \notin Locked
      BY Alone DEF IInv
    <2>2. sync[t].stage = "idle"
      BY <1>2 DEF IInv, OneAtATime
    <2> QED
      BY <2>1, <2>2
  <1>4. TypeOK'
    BY <1>1 DEF IInv, TypeOK
  <1>5. OneAtATime'
    BY <1>1, <1>2, <1>3 DEF IInv, OneAtATime
  <1>6. Current'
    BY <1>1, <1>3 DEF Current
  <1>7. Warm /\ ~Wiped
    BY <1>3 DEF Warm, Wiped
  <1>8. Held'
    BY <1>3, <1>7 DEF IInv, Held
  <1> QED
    BY <1>4, <1>5, <1>6, <1>8 DEF IInv

\* What a task holds is in the local profile, and the bucket's is too.
LEMMA HeldByTask ==
  ASSUME IInv, NEW t \in Turns, task[t].stage \in Locked
  PROVE  /\ lock = t /\ remote.profile \subseteq local.profile
         /\ task[t].stage = "read" => task[t].seen = local.profile
  <1>1. lock = t /\ \A u \in Turns : sync[u].stage = "idle"
    BY Recording DEF IInv
  <1>2. Warm /\ ~Wiped
    BY <1>1 DEF Warm, Wiped
  <1> QED
    BY <1>1, <1>2 DEF IInv, Held, Current

LEMMA UploadedIsLocal ==
  ASSUME TypeOK
  PROVE  /\ Uploaded \in Vault
         /\ remote.profile \subseteq local.profile =>
              Uploaded.profile \subseteq local.profile /\ remote.profile \subseteq Uploaded.profile
         /\ Uploaded.notes = remote.notes
  BY DEF TypeOK, Uploaded, Vault

LEMMA TaskKeepsIt ==
  ASSUME IInv, NEW t \in Turns,
         TaskLocks(t) \/ TaskReads(t) \/ TaskRecords(t) \/ TaskUploads(t) \/ TaskUploadRaises(t)
  PROVE  IInv'
  <1> USE DEF TaskStages, Locked
  <1>1. task[t] \in Task /\ remote \in Vault /\ local \in Vault /\ exists \in BOOLEAN /\ TypeOK
    BY DEF IInv, TypeOK
  <1>2. CASE TaskLocks(t)
    <2> DEFINE s == [task[t] EXCEPT !.stage = "locked"]
    <2>1. s \in Task /\ s.stage = "locked"
      BY <1>1 DEF Task
    <2>2. task' = [task EXCEPT ![t] = s]
      BY <1>2 DEF TaskLocks
    <2> HIDE DEF s
    <2> QED
      BY <1>1, <1>2, <2>1, <2>2, TaskGoesOn DEF TaskLocks
  <1>3. CASE TaskReads(t)
    <2> DEFINE s == [task[t] EXCEPT !.stage = "read", !.seen = local.profile]
    <2>1. s \in Task /\ s.stage = "read" /\ s.seen = local.profile
      BY <1>1 DEF Task, Vault
    <2>2. task' = [task EXCEPT ![t] = s]
      BY <1>3 DEF TaskReads
    <2>3. lock = t
      BY <1>3, HeldByTask DEF TaskReads
    <2> HIDE DEF s
    <2> QED
      BY <1>1, <1>3, <2>1, <2>2, <2>3, TaskGoesOn DEF TaskReads
  <1>4. CASE TaskRecords(t)
    <2> DEFINE s == [task[t] EXCEPT !.stage = "recorded"]
    <2>1. s \in Task /\ s.stage = "recorded"
      BY <1>1 DEF Task
    <2>2. task' = [task EXCEPT ![t] = s]
      BY <1>4 DEF TaskRecords
    <2>3. lock = t /\ task[t].seen = local.profile
      BY <1>4, HeldByTask DEF TaskRecords
    <2>4. local' \in Vault /\ local'.profile = local.profile \union {t}
      BY <1>1, <1>4, <2>3 DEF TaskRecords, Vault
    <2> HIDE DEF s
    <2> QED
      BY <1>1, <1>4, <2>1, <2>2, <2>3, <2>4, TaskGoesOn DEF TaskRecords
  <1>5. ASSUME task[t].stage \in {"recorded", "retrying"}, TaskEnds(t),
               remote' \in {remote, Uploaded}, UNCHANGED <<local, exists, cache, turn, sync, edits, restarts>>
        PROVE  IInv'
    <2> DEFINE s == [stage |-> "ended", seen |-> {}]
    <2>1. s \in Task /\ s.stage = "ended"
      BY DEF Task
    <2>2. task' = [task EXCEPT ![t] = s] /\ lock' = None
      BY <1>5 DEF TaskEnds
    <2>3. lock = t
      BY <1>5, HeldByTask
    <2> HIDE DEF s
    <2> QED
      BY <1>1, <1>5, <2>1, <2>2, <2>3, UploadedIsLocal, TaskGoesOn
  <1>6. ASSUME task[t].stage = "recorded", task' = [task EXCEPT ![t].stage = "retrying"],
               remote' \in {remote, Uploaded}, UNCHANGED <<local, exists, cache, lock, turn, sync, edits, restarts>>
        PROVE  IInv'
    <2> DEFINE s == [task[t] EXCEPT !.stage = "retrying"]
    <2>1. s \in Task /\ s.stage = "retrying"
      BY <1>1 DEF Task
    <2>2. task' = [task EXCEPT ![t] = s]
      BY <1>6
    <2>3. lock = t
      BY <1>6, HeldByTask
    <2> HIDE DEF s
    <2> QED
      BY <1>1, <1>6, <2>1, <2>2, <2>3, UploadedIsLocal, TaskGoesOn
  <1> QED
    BY <1>2, <1>3, <1>4, <1>5, <1>6 DEF TaskUploads, TaskUploadRaises

-----------------------------------------------------------------------------
(* Other programs and restarts.                                            *)

LEMMA EditKeepsIt ==
  ASSUME IInv, NEW n \in Notes, NEW c \in Contents \union {Absent}, Edit(n, c)
  PROVE  IInv'
  <1>1. remote' \in Vault /\ remote'.profile = remote.profile
    BY DEF Edit, IInv, TypeOK, Vault
  <1>2. edits' \in 0 .. MaxEdits
    BY EditsAssumption DEF Edit, IInv, TypeOK
  <1>3. \A t \in Turns : sync[t].stage \in {"idle", "done", "failed"}
    BY DEF Edit
  <1>4. UNCHANGED <<local, exists, cache, lock, turn, sync, task, restarts>>
    BY DEF Edit
  <1>5. TypeOK' /\ OneAtATime' /\ Current'
    BY <1>1, <1>2, <1>3, <1>4 DEF IInv, TypeOK, OneAtATime, Current
  <1>6. (Warm' <=> Warm) /\ (Wiped' <=> Wiped)
    BY <1>4 DEF Warm, Wiped
  <1>7. Held'
    BY <1>1, <1>3, <1>4, <1>6 DEF IInv, Held
  <1> QED
    BY <1>5, <1>7 DEF IInv

LEMMA RestartKeepsIt ==
  ASSUME IInv, NEW kind \in Restarts, Restart(kind)
  PROVE  IInv'
  <1>1. NoVault \in Vault /\ Idle \in Sync /\ NoTask \in Task
    BY DEF NoVault, Vault, Idle, Sync, SyncStages, NoTask, Task, TaskStages
  <1>2. Idle.stage = "idle" /\ NoTask.stage = "none"
    BY DEF Idle, NoTask
  <1>3. /\ sync' = [t \in Turns |-> Idle] /\ task' = [t \in Turns |-> NoTask]
        /\ turn' = [t \in Turns |-> IF turn[t] = "new" THEN "new" ELSE "over"]
        /\ cache' = None /\ lock' = None /\ remote' = remote /\ edits' = edits
        /\ restarts' = restarts + 1 /\ restarts < MaxRestarts
        /\ local' \in {NoVault, local} /\ exists' \in BOOLEAN
    BY DEF Restart, IInv, TypeOK
  <1>4. TypeOK'
    <2>1. turn' \in [Turns -> TurnStages] /\ sync' \in [Turns -> Sync] /\ task' \in [Turns -> Task]
      BY <1>1, <1>3 DEF TurnStages
    <2>2. restarts' \in 0 .. MaxRestarts /\ restarts' # 0
      BY <1>3, EditsAssumption DEF IInv, TypeOK
    <2> QED
      BY <1>1, <1>3, <2>1, <2>2 DEF IInv, TypeOK
  <1>5. \A t \in Turns : /\ sync'[t].stage = "idle" /\ task'[t].stage = "none" /\ turn'[t] \in {"new", "over"}
    BY <1>2, <1>3
  <1>6. OneAtATime' /\ Current'
    BY <1>5 DEF OneAtATime, Current, Locked
  <1>7. ~Warm'
    <2>1. restarts' # 0
      BY <1>3, EditsAssumption DEF IInv, TypeOK
    <2> QED
      BY <1>3, <1>5, <2>1 DEF Warm, Locked
  <1>8. Held'
    BY <1>5, <1>7 DEF Held
  <1> QED
    BY <1>4, <1>6, <1>8 DEF IInv

LEMMA StepKeepsIt ==
  ASSUME Ordered, IInv, [Next]_vars
  PROVE  IInv'
  <1>1. ASSUME NEW t \in Turns, Step(t)
        PROVE  IInv'
    BY <1>1, TurnBeginsKeepsIt, TurnPreparedKeepsIt, TurnStopsKeepsIt, WriteNoteKeepsIt,
       SyncKeepsIt, TaskKeepsIt DEF Step
  <1>2. CASE UNCHANGED vars
    BY <1>2 DEF vars, IInv, TypeOK, OneAtATime, Current, Held, Warm, Wiped
  <1> QED
    BY <1>1, <1>2, EditKeepsIt, RestartKeepsIt DEF Next, Done

-----------------------------------------------------------------------------
(* What it is for.                                                         *)

(* A turn that was synced has every insight of the bucket.                 *)
THEOREM SyncedTurnsHaveTheProfile ==
  ASSUME Ordered
  PROVE  Spec => []SyncedProfile
  <1>1. IInv => SyncedProfile
    <2> SUFFICES ASSUME IInv, NEW t \in Turns, turn[t] = "syncing", sync[t].stage = "done"
                 PROVE  remote.profile \subseteq local.profile
      BY DEF SyncedProfile
    <2>1. Warm
      BY DEF Warm
    <2>2. ~Wiped
      BY Syncing DEF Wiped, IInv
    <2> QED
      BY <2>1, <2>2 DEF IInv, Held
  <1>2. IInv /\ [Next]_vars => IInv'
    BY StepKeepsIt
  <1> QED
    BY InitHolds, <1>1, <1>2, PTL DEF Spec

\* No step takes an insight from the bucket.
LEMMA StepKeepsInsights ==
  ASSUME Ordered, IInv, Next
  PROVE  remote.profile \subseteq remote'.profile
  <1>1. ASSUME NEW t \in Turns, TaskUploads(t) \/ TaskUploadRaises(t)
        PROVE  remote.profile \subseteq remote'.profile
    <2>1. task[t].stage \in Locked /\ remote' \in {remote, Uploaded}
      BY <1>1 DEF TaskUploads, TaskUploadRaises, Locked
    <2> QED
      BY <2>1, HeldByTask, UploadedIsLocal DEF IInv
  <1>2. ASSUME NEW n \in Notes, NEW c \in Contents \union {Absent}, Edit(n, c)
        PROVE  remote.profile \subseteq remote'.profile
    BY <1>2 DEF Edit, IInv, TypeOK, Vault
  <1>3. CASE UNCHANGED remote
    BY <1>3
  <1> QED
    BY <1>1, <1>2, <1>3
       DEF Next, Step, TurnBegins, TurnPrepared, TurnCancelled, TurnEnds, WriteNote, SyncLists, SyncSkips,
           SyncKeeps, SyncWipes, SyncRestores, SyncDownloads, SyncRaises, SyncFinishes, TaskLocks,
           TaskReads, TaskRecords, Restart, Done, vars

(* An insight that has reached the bucket stays there, whatever fails or   *)
(* restarts: an upload never replaces the profile by one that lacks it.    *)
THEOREM InsightsStay ==
  ASSUME Ordered
  PROVE  Spec => UploadedInsightsStay
  <1>1. IInv /\ [Next]_vars => IInv'
    BY StepKeepsIt
  <1>2. IInv /\ [Next]_vars => [remote.profile \subseteq remote'.profile]_vars
    BY StepKeepsInsights
  <1> QED
    BY InitHolds, <1>1, <1>2, PTL DEF Spec, UploadedInsightsStay

(* Putting the preserved profile back and recording an insight drop none   *)
(* that is in the file: the lock keeps a background write and a vault      *)
(* reset apart.                                                            *)
THEOREM ProfileIsNotClobbered ==
  ASSUME Ordered
  PROVE  Spec => ProfileNotClobbered
  <1>1. IInv /\ [Next]_vars => IInv'
    BY StepKeepsIt
  <1>2. IInv /\ [Next]_vars =>
          [\A t \in Turns : (SyncRestores(t) \/ TaskRecords(t)) => local.profile \subseteq local'.profile]_vars
    <2> SUFFICES ASSUME IInv, NEW t \in Turns, SyncRestores(t) \/ TaskRecords(t)
                 PROVE  local.profile \subseteq local'.profile
      OBVIOUS
    <2>1. CASE SyncRestores(t)
      BY <2>1 DEF SyncRestores, IInv, Current
    <2>2. CASE TaskRecords(t)
      <3>1. task[t].seen = local.profile
        BY <2>2, HeldByTask DEF TaskRecords, Locked
      <3> QED
        BY <2>2, <3>1 DEF TaskRecords, IInv, TypeOK, Vault
    <2> QED
      BY <2>1, <2>2
  <1> QED
    BY InitHolds, <1>1, <1>2, PTL DEF Spec, ProfileNotClobbered

\* What was recorded is in the file until it is uploaded.
Recorded == \A t \in Turns : task[t].stage \in {"recorded", "retrying"} => t \in local.profile

\* A step that is no task's, while a task has recorded, leaves the file alone.
LEMMA StepKeepsRecorded ==
  ASSUME Ordered, IInv, Recorded, [Next]_vars
  PROVE  Recorded'
  <1> SUFFICES ASSUME NEW t \in Turns, task'[t].stage \in {"recorded", "retrying"}
               PROVE  t \in local'.profile
    BY DEF Recorded
  <1> DEFINE Tasks(u) == TaskLocks(u) \/ TaskReads(u) \/ TaskRecords(u) \/ TaskUploads(u) \/ TaskUploadRaises(u)
             Syncs(u) == \/ SyncLists(u) \/ SyncSkips(u) \/ SyncKeeps(u) \/ SyncWipes(u) \/ SyncRestores(u)
                         \/ \E f \in Notes \union {Profile} : SyncDownloads(u, f)
                         \/ SyncRaises(u) \/ SyncFinishes(u)
             Turning(u) == \/ TurnBegins(u) \/ TurnPrepared(u) \/ TurnCancelled(u)
                           \/ \E learnt \in BOOLEAN : TurnEnds(u, learnt)
                           \/ \E n \in Notes : WriteNote(u, n)
  <1>1. local \in Vault /\ task \in [Turns -> Task]
    BY DEF IInv, TypeOK
  <1>2. ASSUME local'.profile = local.profile, task[t].stage \in {"recorded", "retrying"}
        PROVE  t \in local'.profile
    BY <1>2 DEF Recorded
  <1>3. ASSUME NEW u \in Turns, Tasks(u)
        PROVE  t \in local'.profile
    <2>1. /\ \A v \in Turns : v # u => task'[v] = task[v]
          /\ task[u].stage \in Locked \/ (task[u].stage = "scheduled" /\ lock = None)
      BY <1>1, <1>3 DEF TaskLocks, TaskReads, TaskRecords, TaskUploads, TaskUploadRaises, TaskEnds, Locked
    <2>2. CASE u # t
      <3>1. task[t].stage \in Locked /\ lock = t
        BY <2>1, <2>2 DEF Locked, IInv, OneAtATime
      <3> QED
        BY <2>1, <2>2, <3>1, NoneAssumption DEF IInv, OneAtATime
    <2>3. CASE u = t /\ TaskRecords(t)
      BY <1>1, <2>3 DEF TaskRecords, Vault
    <2>4. CASE u = t /\ ~TaskRecords(t)
      <3>1. /\ local' = local
            /\ task[t].stage \in {"recorded", "retrying"}
        BY <1>1, <1>3, <2>4 DEF TaskLocks, TaskReads, TaskUploads, TaskUploadRaises, TaskEnds, Task
      <3> QED
        BY <1>2, <3>1
    <2> QED
      BY <2>2, <2>3, <2>4
  <1>4. ASSUME NEW u \in Turns, Syncs(u)
        PROVE  t \in local'.profile
    <2>1. sync[u].stage # "idle" /\ task' = task
      BY <1>4 DEF SyncLists, SyncSkips, SyncKeeps, SyncWipes, SyncRestores, SyncDownloads, SyncRaises, SyncFinishes
    <2>2. task[t].stage \in Locked
      BY <2>1 DEF Locked
    <2> QED
      BY <2>1, <2>2, Recording DEF IInv
  <1>5. ASSUME NEW u \in Turns, Turning(u)
        PROVE  t \in local'.profile
    <2>1. local'.profile = local.profile
      BY <1>1, <1>5 DEF TurnBegins, TurnPrepared, TurnCancelled, TurnEnds, WriteNote, Vault
    <2>2. task[t].stage \in {"recorded", "retrying"}
      BY <1>1, <1>5 DEF TurnBegins, TurnPrepared, TurnCancelled, TurnEnds, WriteNote, Task
    <2> QED
      BY <1>2, <2>1, <2>2
  <1>6. ASSUME NEW n \in Notes, NEW c \in Contents \union {Absent}, Edit(n, c)
        PROVE  t \in local'.profile
    BY <1>2, <1>6 DEF Edit
  <1>7. ASSUME NEW kind \in Restarts, Restart(kind)
        PROVE  t \in local'.profile
    BY <1>7 DEF Restart, NoTask
  <1>8. CASE UNCHANGED vars
    BY <1>2, <1>8 DEF vars
  <1> QED
    BY <1>3, <1>4, <1>5, <1>6, <1>7, <1>8 DEF Next, Step, Done

(* A write-back that is reported as done has put the turn's insight in the *)
(* bucket, whatever syncs, note writes and restarts surround it.           *)
THEOREM InsightsAreWrittenBack ==
  ASSUME Ordered
  PROVE  Spec => InsightsWrittenBack
  <1>1. Init => IInv /\ Recorded
    BY InitHolds DEF Init, NoTask, Recorded
  <1>2. IInv /\ Recorded /\ [Next]_vars => (IInv /\ Recorded)'
    BY StepKeepsIt, StepKeepsRecorded
  <1>3. IInv /\ Recorded /\ [Next]_vars =>
          [\A t \in Turns : TaskUploads(t) => t \in remote'.profile]_vars
    <2> SUFFICES ASSUME IInv, Recorded, NEW t \in Turns, TaskUploads(t)
                 PROVE  t \in remote'.profile
      OBVIOUS
    <2>1. t \in local.profile /\ remote \in Vault /\ remote' = Uploaded
      BY DEF Recorded, TaskUploads, IInv, TypeOK
    <2> QED
      BY <2>1 DEF Uploaded, Vault
  <1> QED
    BY <1>1, <1>2, <1>3, PTL DEF Spec, InsightsWrittenBack

-----------------------------------------------------------------------------
(* The notes of the bucket.                                                *)

\* Where the cached listing stands.
CacheKnown ==
    cache # None => /\ exists /\ Keys(remote) # {}
                    /\ cache.profile \subseteq remote.profile
                    /\ cache.notes # remote.notes => edits > 0
                    /\ \A t \in Turns : sync[t].stage \in {"kept", "wiped", "filling"} => cache # remote

\* The cached listing cannot come to match the bucket again.
Gone ==
    \/ cache.profile # remote.profile
    \/ cache.notes # remote.notes /\ edits = MaxEdits

Same(v) == \A n \in Notes : local.notes[n] \in {v.notes[n], Own}

Refilling == \E t \in Turns : sync[t].stage \in {"wiped", "filling"}

NotesKnown ==
    /\ cache # None /\ ~Refilling => Same(cache) \/ Gone
    /\ \A t \in Turns :
        /\ sync[t].stage \in {"wiped", "filling"} => exists
        /\ sync[t].stage = "wiped" => \A n \in Notes : local.notes[n] \in {Absent, Own}
        /\ sync[t].stage = "filling" =>
             \A n \in Notes \ sync[t].todo : local.notes[n] \in {sync[t].listing.notes[n], Own}
        /\ sync[t].stage = "done" => Same(sync[t].listing)

SInv == CacheKnown /\ NotesKnown

\* The bucket never becomes empty, and either no download fails or other
\* programs change one note at most: an edit that is taken back after a
\* download has failed would find the cached listing current.
Recoverable == ~MayEmpty /\ ("download" \in SyncFaults => MaxEdits <= 1)

LEMMA SameVault ==
  ASSUME NEW v \in Vault, NEW w \in Vault, v.notes = w.notes, v.profile = w.profile
  PROVE  v = w
  BY DEF Vault

\* What any step may do that is no edit and no step of a sync.
LEMMA QuietKeepsNotes ==
  ASSUME IInv, IInv', SInv, cache' = cache, edits' = edits, exists => exists',
         \A n \in Notes : local'.notes[n] \in {local.notes[n], Own},
         remote'.notes = remote.notes, remote.profile \subseteq remote'.profile,
         remote' = remote \/ \A t \in Turns : sync[t].stage = "idle",
         \A t \in Turns : \/ sync'[t] = sync[t]
                          \/ /\ sync[t].stage \notin {"wiped", "filling"}
                             /\ sync'[t].stage \in {"idle", "started"}
  PROVE  SInv'
  <1>1. Keys(remote) # {} => Keys(remote)' # {}
    BY DEF Keys
  <1>2. CacheKnown'
    <2> SUFFICES ASSUME cache # None
                 PROVE  /\ exists' /\ Keys(remote)' # {}
                        /\ cache.profile \subseteq remote'.profile
                        /\ cache.notes # remote'.notes => edits' > 0
                        /\ \A t \in Turns : sync'[t].stage \in {"kept", "wiped", "filling"} => cache # remote'
      BY DEF CacheKnown
    <2>1. /\ exists /\ Keys(remote) # {} /\ cache.profile \subseteq remote.profile
          /\ cache.notes # remote.notes => edits > 0
          /\ \A t \in Turns : sync[t].stage \in {"kept", "wiped", "filling"} => cache # remote
      BY DEF SInv, CacheKnown
    <2> QED
      BY <1>1, <2>1
  <1>3. Refilling <=> Refilling'
    BY DEF Refilling
  <1>4. cache # None /\ Gone => Gone'
    BY DEF SInv, CacheKnown, Gone
  <1>5. Same(cache) => Same(cache)'
    BY DEF Same
  <1>6. NotesKnown'
    BY <1>3, <1>4, <1>5 DEF SInv, NotesKnown, Same
  <1> QED
    BY <1>2, <1>6 DEF SInv

LEMMA EditKeepsNotes ==
  ASSUME Recoverable, IInv, SInv, NEW n \in Notes, NEW c \in Contents \union {Absent}, Edit(n, c)
  PROVE  SInv'
  <1>1. remote' \in Vault /\ remote'.profile = remote.profile /\ Keys(remote)' # {}
    BY MayEmptyAssumption DEF Edit, IInv, TypeOK, Vault, Recoverable, Keys
  <1>2. edits' = edits + 1 /\ edits \in 0 .. MaxEdits /\ edits < MaxEdits
    BY DEF Edit, IInv, TypeOK
  <1>3. \A t \in Turns : sync[t].stage \in {"idle", "done", "failed"}
    BY DEF Edit
  <1>4. UNCHANGED <<local, exists, cache, lock, turn, sync, task, restarts>>
    BY DEF Edit
  <1>5. CacheKnown'
    BY <1>1, <1>2, <1>3, <1>4, EditsAssumption DEF SInv, CacheKnown
  <1>6. cache # None /\ Gone => Gone'
    BY <1>1, <1>2, <1>4, EditsAssumption DEF Gone
  <1>7. NotesKnown'
    BY <1>3, <1>4, <1>6 DEF SInv, NotesKnown, Refilling, Same
  <1> QED
    BY <1>5, <1>7 DEF SInv

LEMMA RestartKeepsNotes ==
  ASSUME SInv, NEW kind \in Restarts, Restart(kind)
  PROVE  SInv'
  <1>1. cache' = None /\ \A t \in Turns : sync'[t].stage = "idle"
    BY DEF Restart, Idle
  <1> QED
    BY <1>1 DEF SInv, CacheKnown, NotesKnown

\* A sync of t goes on; what it must show for the listing and for the folder.
LEMMA SyncGoesOnNotes ==
  ASSUME IInv, IInv', SInv, NEW t \in Turns, sync[t].stage # "idle",
         UNCHANGED <<remote, edits>>, exists => exists',
         \A u \in Turns : u # t => sync'[u] = sync[u],
         cache' # None =>
           /\ cache' \in {cache, remote} /\ exists' /\ Keys(remote) # {}
           /\ sync'[t].stage \in {"kept", "wiped", "filling"} => cache' # remote
           /\ sync'[t].stage \notin {"wiped", "filling"} => Same(cache)' \/ Gone',
         sync'[t].stage \in {"wiped", "filling"} => exists',
         sync'[t].stage = "wiped" => \A n \in Notes : local'.notes[n] \in {Absent, Own},
         sync'[t].stage = "filling" =>
           \A n \in Notes \ sync'[t].todo : local'.notes[n] \in {sync'[t].listing.notes[n], Own},
         sync'[t].stage = "done" => Same(sync[t].listing)'
  PROVE  SInv'
  <1>1. \A u \in Turns : u # t => sync[u].stage = "idle"
    BY Syncing DEF IInv
  <1>2. CacheKnown'
    <2> SUFFICES ASSUME cache' # None
                 PROVE  /\ exists' /\ Keys(remote)' # {}
                        /\ cache'.profile \subseteq remote'.profile
                        /\ cache'.notes # remote'.notes => edits' > 0
                        /\ \A u \in Turns : sync'[u].stage \in {"kept", "wiped", "filling"} => cache' # remote'
      BY DEF CacheKnown
    <2>1. Keys(remote)' = Keys(remote)
      BY DEF Keys
    <2>2. cache' = cache => cache.profile \subseteq remote.profile /\ (cache.notes # remote.notes => edits > 0)
      BY DEF SInv, CacheKnown
    <2> QED
      BY <1>1, <2>1, <2>2
  <1>3. Refilling' <=> sync'[t].stage \in {"wiped", "filling"}
    BY <1>1 DEF Refilling
  <1>4. NotesKnown'
    BY <1>1, <1>3 DEF NotesKnown
  <1> QED
    BY <1>2, <1>4 DEF SInv

LEMMA SyncKeepsNotes ==
  ASSUME Recoverable, Ordered, IInv, IInv', SInv, NEW t \in Turns,
         \/ SyncLists(t) \/ SyncSkips(t) \/ SyncKeeps(t) \/ SyncWipes(t) \/ SyncRestores(t)
         \/ \E f \in Notes \union {Profile} : SyncDownloads(t, f)
         \/ SyncRaises(t) \/ SyncFinishes(t)
  PROVE  SInv'
  <1>1. /\ sync[t].stage # "idle" /\ sync[t] \in Sync
        /\ remote \in Vault /\ local \in Vault /\ exists \in BOOLEAN /\ cache \in Vault \union {None}
        /\ edits \in 0 .. MaxEdits
    BY DEF SyncLists, SyncSkips, SyncKeeps, SyncWipes, SyncRestores, SyncDownloads, SyncRaises,
           SyncFinishes, IInv, TypeOK
  <1>2. \A u \in Turns : u # t => sync[u].stage = "idle"
    BY <1>1, Syncing DEF IInv
  <1>3. sync[t].stage \in {"listed", "kept", "wiped", "filling"} => sync[t].listing = remote
    BY DEF IInv, Current
  <1>4. cache # None => exists /\ Keys(remote) # {}
    BY DEF SInv, CacheKnown
  <1>5. cache # None /\ sync[t].stage \in {"kept", "wiped", "filling"} => cache # remote
    BY DEF SInv, CacheKnown
  <1>6. cache # None /\ sync[t].stage \notin {"wiped", "filling"} => Same(cache) \/ Gone
    BY <1>2 DEF SInv, NotesKnown, Refilling
  <1>7. ASSUME UNCHANGED <<local, cache, remote, edits>>
        PROVE  Same(cache) \/ Gone => Same(cache)' \/ Gone'
    BY <1>7 DEF Same, Gone
  <1>8. CASE SyncLists(t)
    <2>1. sync'[t].stage = "listed" /\ \A u \in Turns : u # t => sync'[u] = sync[u]
      BY <1>1, <1>8 DEF SyncLists, IInv, TypeOK, Sync
    <2>2. UNCHANGED <<remote, local, exists, cache, edits>> /\ sync[t].stage = "started"
      BY <1>8 DEF SyncLists
    <2> QED
      BY <1>1, <1>4, <1>6, <1>7, <2>1, <2>2, SyncGoesOnNotes
  <1>9. CASE SyncSkips(t)
    <2>1. /\ sync'[t].stage = "done" /\ sync'[t].listing = sync[t].listing
          /\ \A u \in Turns : u # t => sync'[u] = sync[u]
      BY <1>1, <1>9 DEF SyncSkips, IInv, TypeOK, Sync
    <2>2. UNCHANGED <<remote, local, exists, cache, edits>> /\ sync[t].stage = "listed"
      BY <1>9 DEF SyncSkips
    <2>3. cache = remote /\ cache # None
      BY <1>1, <1>3, <1>9, <2>2, NoneAssumption DEF SyncSkips, Unchanged
    <2>4. Same(cache)
      BY <1>6, <2>2, <2>3 DEF Gone
    <2>5. Same(sync[t].listing)'
      BY <1>3, <2>1, <2>2, <2>3, <2>4 DEF Same
    <2> QED
      BY <1>1, <1>4, <1>6, <1>7, <2>1, <2>2, <2>5, SyncGoesOnNotes
  <1>10. CASE SyncKeeps(t)
    <2>1. sync'[t].stage = "kept" /\ \A u \in Turns : u # t => sync'[u] = sync[u]
      BY <1>1, <1>10 DEF SyncKeeps, IInv, TypeOK, Sync
    <2>2. UNCHANGED <<remote, local, exists, cache, edits>> /\ sync[t].stage = "listed"
      BY <1>10 DEF SyncKeeps
    <2>3. cache # None => cache # remote
      BY <1>3, <1>4, <1>10, <2>2 DEF SyncKeeps, Unchanged
    <2> QED
      BY <1>1, <1>4, <1>6, <1>7, <2>1, <2>2, <2>3, SyncGoesOnNotes
  <1>11. CASE SyncWipes(t)
    <2>1. sync'[t].stage = "wiped" /\ \A u \in Turns : u # t => sync'[u] = sync[u]
      BY <1>1, <1>11 DEF SyncWipes, IInv, TypeOK, Sync
    <2>2. UNCHANGED <<remote, cache, edits>> /\ sync[t].stage = "kept" /\ exists'
      BY <1>11 DEF SyncWipes
    <2>3. \A n \in Notes : local'.notes[n] \in {Absent, Own}
      BY <1>11 DEF SyncWipes, NoVault
    <2> QED
      BY <1>1, <1>4, <1>5, <2>1, <2>2, <2>3, SyncGoesOnNotes
  <1>12. CASE SyncRestores(t)
    <2>1. /\ sync'[t].stage = "filling" /\ sync'[t].listing = remote /\ sync'[t].todo = Keys(remote)
          /\ \A u \in Turns : u # t => sync'[u] = sync[u]
      BY <1>1, <1>3, <1>12 DEF SyncRestores, IInv, TypeOK, Sync
    <2>2. UNCHANGED <<remote, exists, cache, edits>> /\ sync[t].stage = "wiped"
      BY <1>12 DEF SyncRestores
    <2>3. local'.notes = local.notes
      BY <1>1, <1>12 DEF SyncRestores, Vault
    <2>4. \A n \in Notes \ Keys(remote) : local'.notes[n] \in {remote.notes[n], Own}
      BY <2>2, <2>3 DEF SInv, NotesKnown, Keys
    <2>5. exists
      BY <2>2 DEF SInv, NotesKnown
    <2> QED
      BY <1>1, <1>4, <1>5, <2>1, <2>2, <2>4, <2>5, SyncGoesOnNotes
  <1>13. ASSUME NEW f \in Notes \union {Profile}, SyncDownloads(t, f)
         PROVE  SInv'
    <2>1. /\ sync'[t].stage = "filling" /\ sync'[t].listing = remote /\ sync'[t].todo = sync[t].todo \ {f}
          /\ \A u \in Turns : u # t => sync'[u] = sync[u]
      BY <1>1, <1>3, <1>13 DEF SyncDownloads, IInv, TypeOK, Sync
    <2>2. UNCHANGED <<remote, exists, cache, edits>> /\ sync[t].stage = "filling"
      BY <1>13 DEF SyncDownloads
    <2>3. \A n \in Notes : local'.notes[n] = IF n = f THEN remote.notes[n] ELSE local.notes[n]
      BY <1>1, <1>13, FilesAssumption DEF SyncDownloads, Vault
    <2>4. \A n \in Notes \ sync'[t].todo : local'.notes[n] \in {remote.notes[n], Own}
      BY <1>3, <2>1, <2>2, <2>3 DEF SInv, NotesKnown
    <2>5. exists
      BY <2>2 DEF SInv, NotesKnown
    <2> QED
      BY <1>1, <1>4, <1>5, <2>1, <2>2, <2>4, <2>5, SyncGoesOnNotes
  <1>14. CASE SyncRaises(t)
    <2>1. sync'[t].stage = "failed" /\ \A u \in Turns : u # t => sync'[u] = sync[u]
      BY <1>1, <1>14 DEF SyncRaises, IInv, TypeOK, Sync
    <2>2. UNCHANGED <<remote, local, exists, cache, edits>>
      BY <1>14 DEF SyncRaises
    <2>3. cache # None => Same(cache) \/ Gone
      <3>1. CASE sync[t].stage = "started"
        BY <1>6, <3>1
      <3>2. CASE sync[t].stage = "filling" /\ "download" \in SyncFaults /\ cache # None
        <4>1. cache # remote
          BY <1>5, <3>2
        <4>2. cache.profile # remote.profile \/ cache.notes # remote.notes
          BY <1>1, <3>2, <4>1, SameVault
        <4>3. cache.notes # remote.notes => edits > 0
          BY <3>2 DEF SInv, CacheKnown
        <4> QED
          BY <1>1, <3>2, <4>2, <4>3, EditsAssumption DEF Gone, Recoverable
      <3> QED
        BY <1>14, <3>1, <3>2 DEF SyncRaises
    <2> QED
      BY <1>1, <1>4, <1>7, <2>1, <2>2, <2>3, SyncGoesOnNotes
  <1>15. CASE SyncFinishes(t)
    <2>1. /\ sync'[t].stage = "done" /\ sync'[t].listing = remote
          /\ \A u \in Turns : u # t => sync'[u] = sync[u]
      BY <1>1, <1>3, <1>15 DEF SyncFinishes, IInv, TypeOK, Sync
    <2>2. UNCHANGED <<remote, local, exists, edits>> /\ sync[t].stage = "filling" /\ sync[t].todo = {}
      BY <1>15 DEF SyncFinishes
    <2>3. Same(sync[t].listing)'
      BY <1>3, <2>1, <2>2 DEF SInv, NotesKnown, Same
    <2>4. cache' # None => cache' = remote /\ Keys(remote) # {}
      BY <1>3, <1>4, <1>15, <2>2 DEF SyncFinishes
    <2>5. cache' # None => Same(cache)'
      BY <2>1, <2>3, <2>4 DEF Same
    <2>6. exists
      BY <2>2 DEF SInv, NotesKnown
    <2> QED
      BY <1>1, <2>1, <2>2, <2>3, <2>4, <2>5, <2>6, SyncGoesOnNotes
  <1> QED
    BY <1>8, <1>9, <1>10, <1>11, <1>12, <1>13, <1>14, <1>15

LEMMA StepKeepsNotes ==
  ASSUME Recoverable, Ordered, IInv, SInv, [Next]_vars
  PROVE  SInv'
  <1>1. IInv'
    BY StepKeepsIt
  <1>2. ASSUME NEW t \in Turns, Step(t)
        PROVE  SInv'
    <2>1. CASE TurnBegins(t) \/ TurnPrepared(t)
      <3>1. /\ \A u \in Turns : u # t => sync'[u] = sync[u]
            /\ sync'[t].stage \in {"idle", "started"} /\ sync[t].stage \notin {"wiped", "filling"}
        BY <2>1 DEF TurnBegins, TurnPrepared, Idle, IInv, TypeOK, OneAtATime
      <3>2. UNCHANGED <<remote, local, exists, cache, edits>>
        BY <2>1 DEF TurnBegins, TurnPrepared
      <3> QED
        BY <1>1, <3>1, <3>2, QuietKeepsNotes
    <2>2. CASE TurnCancelled(t) \/ (\E learnt \in BOOLEAN : TurnEnds(t, learnt))
      <3>1. UNCHANGED <<remote, local, exists, cache, sync, edits>>
        BY <2>2 DEF TurnCancelled, TurnEnds
      <3> QED
        BY <1>1, <3>1, QuietKeepsNotes
    <2>3. ASSUME NEW n \in Notes, WriteNote(t, n)
          PROVE  SInv'
      <3>1. UNCHANGED <<remote, cache, sync, edits>> /\ exists'
        BY <2>3 DEF WriteNote
      <3>2. \A m \in Notes : local'.notes[m] \in {local.notes[m], Own}
        BY <2>3 DEF WriteNote, IInv, TypeOK, Vault
      <3> QED
        BY <1>1, <3>1, <3>2, QuietKeepsNotes
    <2>4. CASE TaskLocks(t) \/ TaskReads(t) \/ TaskRecords(t)
      <3>1. UNCHANGED <<remote, cache, sync, edits>> /\ (exists => exists')
        BY <2>4 DEF TaskLocks, TaskReads, TaskRecords
      <3>2. local'.notes = local.notes
        BY <2>4 DEF TaskLocks, TaskReads, TaskRecords, IInv, TypeOK, Vault
      <3> QED
        BY <1>1, <3>1, <3>2, QuietKeepsNotes
    <2>5. CASE TaskUploads(t) \/ TaskUploadRaises(t)
      <3>1. UNCHANGED <<local, exists, cache, sync, edits>> /\ remote' \in {remote, Uploaded}
        BY <2>5 DEF TaskUploads, TaskUploadRaises
      <3>2. task[t].stage \in Locked
        BY <2>5 DEF TaskUploads, TaskUploadRaises, Locked
      <3>3. \A u \in Turns : sync[u].stage = "idle"
        BY <3>2, Recording DEF IInv
      <3>4. remote'.notes = remote.notes /\ remote.profile \subseteq remote'.profile
        BY <3>1, <3>2, HeldByTask, UploadedIsLocal DEF IInv
      <3> QED
        BY <1>1, <3>1, <3>3, <3>4, QuietKeepsNotes
    <2> QED
      BY <1>1, <1>2, <2>1, <2>2, <2>3, <2>4, <2>5, SyncKeepsNotes DEF Step
  <1>3. CASE UNCHANGED vars
    <2>1. UNCHANGED <<remote, local, exists, cache, sync, edits>>
      BY <1>3 DEF vars
    <2> QED
      BY <1>1, <2>1, QuietKeepsNotes
  <1> QED
    BY <1>2, <1>3, EditKeepsNotes, RestartKeepsNotes DEF Next, Done

(* A sync that succeeds leaves every note of the bucket in the local       *)
(* folder as the bucket has it, or as the note tool has written it, and    *)
(* none that the bucket has lost.                                          *)
THEOREM SyncsAreSnapshots ==
  ASSUME Recoverable, Ordered
  PROVE  Spec => []SnapshotAfterSync
  <1>1. Init => SInv
    BY DEF Init, Idle, SInv, CacheKnown, NotesKnown
  <1>2. (IInv /\ SInv) /\ [Next]_vars => (IInv /\ SInv)'
    BY StepKeepsIt, StepKeepsNotes
  <1>3. SInv => SnapshotAfterSync
    BY DEF SInv, NotesKnown, Same, SnapshotAfterSync
  <1> QED
    BY InitHolds, <1>1, <1>2, <1>3, PTL DEF Spec
=============================================================================
