--------------------------- MODULE UploadsProofs ---------------------------
(***************************************************************************)
(* Files of the upload folder are whole and stay, for any number of        *)
(* requests, names and dropped files, any limits, any failing calls and    *)
(* any restarts, as long as the names of uploads in flight are their own   *)
(* and none ends in .part.                                                 *)
(***************************************************************************)
EXTENDS Uploads, SetLemmas

OwnNames == ~PartNames /\ ~Collisions

Part(u) == PartOf(up[u].target)

\* An upload in flight has chosen a path, which is no part file, and no other
\* upload in flight has the same.
OwnTargets ==
    /\ \A u \in InFlight : up[u].target \in Paths /\ up[u].target.parts = 0
    /\ \A u, v \in InFlight : up[u].target = up[v].target => u = v

\* Nothing is at that path until the upload has put its file there.
TargetsFree ==
    \A u \in InFlight : up[u].stage # "checking" => dir[up[u].target] = None

\* A file lies in one place, one that was never made lies nowhere, and what
\* the owner dropped in lies at no part file's path.
Placed ==
    /\ \A p, q \in Paths : dir[p] = dir[q] /\ dir[p] # None => p = q
    /\ \A p \in Paths, u \in Uploads : dir[p] = u => up[u].stage \notin {"new", "opening"}
    /\ \A p \in Paths : p.parts # 0 => dir[p] \notin Drops

Writing == {u \in Uploads : up[u].stage \in {"streaming", "replacing"}}

\* The file an upload has open has what the upload has written and nothing
\* else.  It lies at the part file's path, where no other file lies, unless
\* somebody has removed it.
PartIsOpen(u) ==
    /\ up[u].handle \in Uploads
    /\ up[up[u].handle].stage \notin {"new", "opening"}
    /\ dir[Part(u)] \in {None, up[u].handle}
    /\ \A p \in Paths : dir[p] = up[u].handle => p = Part(u)
    /\ file[up[u].handle] = BlocksOf(u)

OwnPart == \A u \in Writing : PartIsOpen(u)

\* Nobody else has it open.
OwnHandle == \A u, v \in Writing : up[u].handle = up[v].handle => u = v

\* An upload that has no part file has written nothing.
NothingWritten ==
    \A u \in Uploads : up[u].stage \in {"new", "opening"} => up[u].written = 0

\* A file that was stored has the path of a finished upload.
StoredIsOver ==
    \A u \in Uploads : up[u].result = "stored" => up[u].stage = "over" /\ up[u].target.parts = 0

\* The inductive invariant.
IInv == /\ TypeOK /\ OwnTargets /\ TargetsFree /\ Placed /\ OwnPart /\ OwnHandle
        /\ NothingWritten /\ StoredIsOver /\ WholeFiles

-----------------------------------------------------------------------------
(* Paths.                                                                  *)

LEMMA PartPath ==
  ASSUME ~PartNames, NEW p \in Paths, p.parts = 0
  PROVE  /\ PartOf(p) \in Paths /\ PartOf(p).parts = 1
         /\ PartOf(p).name = p.name /\ PartOf(p).nth = p.nth
  BY DEF Paths, PartOf

LEMMA PartsDiffer ==
  ASSUME ~PartNames, NEW p \in Paths, NEW q \in Paths, p.parts = 0, q.parts = 0,
         PartOf(p) = PartOf(q)
  PROVE  p = q
  <1>1. p.name = q.name /\ p.nth = q.nth
    BY PartPath
  <1> QED
    BY <1>1 DEF Paths

-----------------------------------------------------------------------------
(* Uploads.                                                                *)

Flying == Stages \ {"new", "over"}

LEMMA Flight ==
  ASSUME OwnNames, IInv, NEW u \in Uploads, up[u].stage \in Flying
  PROVE  /\ u \in InFlight /\ up[u].target \in Paths /\ up[u].target.parts = 0
         /\ Part(u) \in Paths /\ Part(u).parts = 1
  <1>1. u \in InFlight
    BY DEF InFlight, Flying
  <1>2. up[u].target \in Paths /\ up[u].target.parts = 0
    BY <1>1 DEF IInv, OwnTargets
  <1> QED
    BY <1>1, <1>2, PartPath DEF Part, OwnNames

LEMMA RefusedRequest ==
  /\ Forgotten \in Request /\ Forgotten.stage = "over" /\ Forgotten.result = "none"
  /\ [Forgotten EXCEPT !.result = "refused"] \in Request
  /\ [Forgotten EXCEPT !.result = "refused"].stage = "over"
  /\ [Forgotten EXCEPT !.result = "refused"].result = "refused"
  /\ [Forgotten EXCEPT !.result = "refused"].written = 0
  <1>1. NewRequest \in Request /\ NewRequest.result = "none" /\ NewRequest.written = 0
    BY SizesAssumption DEF NewRequest, Request, Stages, Results
  <1>2. /\ Forgotten \in Request /\ Forgotten.stage = "over" /\ Forgotten.result = "none"
        /\ Forgotten.written = 0
    BY <1>1 DEF Forgotten, Request, Stages
  <1> QED
    BY <1>2 DEF Request, Results

LEMMA OneRequest ==
  ASSUME TypeOK, NEW u \in Uploads, NEW r \in Request, up' = [up EXCEPT ![u] = r]
  PROVE  /\ up' \in [Uploads -> Request] /\ up'[u] = r
         /\ \A v \in Uploads : v # u => up'[v] = up[v]
  BY DEF TypeOK

LEMMA SameBlocks ==
  ASSUME NEW v \in Uploads, up'[v].written = up[v].written
  PROVE  BlocksOf(v)' = BlocksOf(v)
  BY DEF BlocksOf

LEMMA PartFile ==
  ASSUME IInv, NEW u \in Uploads, up[u].stage \in {"streaming", "replacing"}
  PROVE  /\ up[u].handle \in Uploads /\ dir[Part(u)] \in {None, up[u].handle}
         /\ up[up[u].handle].stage \notin {"new", "opening"}
         /\ file[up[u].handle] = BlocksOf(u)
         /\ \A p \in Paths : dir[p] = up[u].handle => p = Part(u)
         /\ \A v \in Uploads : /\ up[v].stage \in {"streaming", "replacing"}
                              /\ up[v].handle = up[u].handle
                              => v = u
  BY DEF IInv, OwnPart, OwnHandle, PartIsOpen, Writing

(* What keeps the file an upload has open as it is.                        *)
LEMMA PartStays ==
  ASSUME IInv, NEW u \in Uploads, up[u].stage \in {"streaming", "replacing"},
         up'[u].handle = up[u].handle, up'[u].target = up[u].target,
         up'[u].written = up[u].written,
         up'[up[u].handle].stage \notin {"new", "opening"},
         dir'[Part(u)] \in {None, up[u].handle},
         \A p \in Paths : dir'[p] = up[u].handle => p = Part(u),
         file'[up[u].handle] = file[up[u].handle]
  PROVE  PartIsOpen(u)'
  <1>1. Part(u)' = Part(u) /\ BlocksOf(u)' = BlocksOf(u)
    BY SameBlocks DEF Part
  <1> QED
    BY <1>1, PartFile DEF PartIsOpen

\* Uploads in flight have different part files.
LEMMA PartsApart ==
  ASSUME OwnNames, IInv, NEW u \in Uploads, NEW v \in Uploads, u # v,
         up[u].stage \in Flying, up[v].stage \in Flying
  PROVE  Part(u) # Part(v)
  <1>1. up[u].target # up[v].target
    BY Flight DEF IInv, OwnTargets
  <1> QED
    BY <1>1, Flight, PartsDiffer DEF Part, OwnNames

-----------------------------------------------------------------------------
(* What the steps of an upload do to the invariant.                        *)

(* An upload in flight goes on with the folder as it is, or ends and takes *)
(* its part file away.                                                     *)
LEMMA MovesKeepsIt ==
  ASSUME OwnNames, IInv, NEW u \in Uploads, up[u].stage \in Flying,
         NEW r \in Request, up' = [up EXCEPT ![u] = r],
         \/ r.target = up[u].target /\ r.handle = up[u].handle /\ r.written = up[u].written
         \/ r.stage = "over" /\ r.result = "refused" /\ up[u].stage # "checking",
         r.stage \in {"refusing", "replacing", "over"},
         up[u].stage = "checking" => r.stage = "over",
         r.stage = "replacing" => up[u].stage = "streaming",
         r.result = "stored" => r.stage = "over",
         \/ dir' = dir
         \/ dir' = [dir EXCEPT ![Part(u)] = None] /\ r.stage = "over",
         UNCHANGED <<file, crashes>>
  PROVE  IInv'
  <1> USE DEF Flying, Stages
  <1>1. /\ up' \in [Uploads -> Request] /\ up'[u] = r
        /\ \A v \in Uploads : v # u => up'[v] = up[v]
    BY OneRequest DEF IInv
  <1>2. Part(u) \in Paths /\ Part(u).parts = 1
    BY Flight
  <1>3. \A p \in Paths : dir'[p] = dir[p] \/ (p = Part(u) /\ dir'[p] = None /\ r.stage = "over")
    BY <1>2 DEF IInv, TypeOK
  <1>4. TypeOK'
    BY <1>1, <1>2 DEF IInv, TypeOK
  <1>5. InFlight' \subseteq InFlight /\ \A v \in InFlight' : up'[v].target = up[v].target
    BY <1>1 DEF InFlight
  <1>6. OwnTargets'
    BY <1>5 DEF IInv, OwnTargets
  <1>7. TargetsFree'
    <2> SUFFICES ASSUME NEW v \in InFlight', up'[v].stage # "checking"
                 PROVE  dir'[up'[v].target] = None
      BY DEF TargetsFree
    <2>1. v \in InFlight /\ up'[v].target = up[v].target /\ up[v].stage # "checking"
      BY <1>1, <1>5 DEF InFlight
    <2>2. up[v].target \in Paths /\ dir[up[v].target] = None
      BY <2>1 DEF IInv, OwnTargets, TargetsFree
    <2> QED
      BY <1>3, <2>1, <2>2
  <1>8. Placed'
    <2>1. \A v \in Uploads : up'[v].stage \in {"new", "opening"} => up[v].stage \in {"new", "opening"}
      BY <1>1
    <2>2. ASSUME NEW p \in Paths, NEW v \in Uploads, dir'[p] = v, up'[v].stage \in {"new", "opening"}
          PROVE  FALSE
      BY <1>3, <2>1, <2>2, DropsAssumption DEF IInv, Placed
    <2>3. \A p \in Paths : p.parts # 0 => dir'[p] \notin Drops
      BY <1>3, DropsAssumption DEF IInv, Placed
    <2>4. \A p, q \in Paths : dir'[p] = dir'[q] /\ dir'[p] # None => p = q
      BY <1>3 DEF IInv, Placed
    <2> QED
      BY <2>2, <2>3, <2>4 DEF Placed
  <1>11. NothingWritten' /\ StoredIsOver'
    BY <1>1, Flight DEF IInv, NothingWritten, StoredIsOver
  <1>9. OwnPart' /\ OwnHandle'
    <2>1. \A v \in Uploads : up[v].stage \notin {"new", "opening"} =>
                                 up'[v].stage \notin {"new", "opening"}
      BY <1>1
    <2>2. /\ Writing' \subseteq Writing
          /\ \A v \in Writing' : /\ up'[v].handle = up[v].handle /\ up'[v].target = up[v].target
                                 /\ up'[v].written = up[v].written
      BY <1>1 DEF Writing
    <2>3. ASSUME NEW v \in Writing'
          PROVE  PartIsOpen(v)'
      <3>1. v \in Uploads /\ up[v].stage \in {"streaming", "replacing"}
        BY <2>2 DEF Writing
      <3>2. Part(v) \in Paths /\ up[v].handle \in Uploads /\ up[v].handle # None
        BY <3>1, Flight, PartFile, DropsAssumption
      <3>3. /\ dir'[Part(v)] \in {None, up[v].handle}
            /\ \A p \in Paths : dir'[p] = up[v].handle => p = Part(v)
        BY <1>3, <3>1, <3>2, PartFile
      <3> QED
        BY <2>1, <2>2, <3>1, <3>2, <3>3, PartFile, PartStays
    <2> QED
      BY <2>2, <2>3 DEF IInv, OwnPart, OwnHandle
  <1>10. WholeFiles'
    <2> SUFFICES ASSUME NEW p \in Paths, Listed(p)', dir'[p] \notin Drops
                 PROVE  \E v \in Uploads : /\ up'[v].target = p
                                           /\ up'[v].stage \in {"checking", "over"}
                                           /\ file'[dir'[p]] = BlocksOf(v)'
      BY DEF WholeFiles
    <2>1. Listed(p) /\ dir'[p] = dir[p]
      BY <1>3 DEF Listed
    <2>2. PICK v \in Uploads : /\ up[v].target = p /\ up[v].stage \in {"checking", "over"}
                               /\ file[dir[p]] = BlocksOf(v)
      BY <2>1 DEF IInv, WholeFiles
    <2>3. up'[v].written = up[v].written /\ up'[v].target = p /\ up'[v].stage \in {"checking", "over"}
      BY <1>1, <2>2
    <2>4. BlocksOf(v)' = BlocksOf(v)
      BY <2>3, SameBlocks
    <2> QED
      BY <2>1, <2>2, <2>3, <2>4
  <1> QED
    BY <1>4, <1>6, <1>7, <1>8, <1>9, <1>10, <1>11 DEF IInv

\* A request is refused, or chooses a free path nobody else has chosen.
LEMMA BeginsKeepsIt ==
  ASSUME OwnNames, IInv, NEW u \in Uploads, Begins(u)
  PROVE  IInv'
  <1> USE DEF Stages
  <1>1. PICK r \in Request :
          /\ up' = [up EXCEPT ![u] = r]
          /\ r.written = up[u].written /\ r.result # "stored"
          /\ \/ r.stage = "over"
             \/ /\ r.stage = "opening" /\ r.target \in Paths /\ r.target.parts = 0
                /\ dir[r.target] = None /\ ~Busy(r.target)
    <2>1. CASE Refuses(u)
      <3> DEFINE x == [Forgotten EXCEPT !.result = "refused"]
      <3>1. /\ x \in Request /\ x.stage = "over" /\ x.written = 0 /\ x.result # "stored"
        BY RefusedRequest
      <3>2. up' = [up EXCEPT ![u] = x]
        BY <2>1 DEF Refuses
      <3>3. up[u].written = 0
        BY DEF Begins, IInv, NothingWritten
      <3> QED
        BY <3>1, <3>2, <3>3
    <2>2. ASSUME NEW name \in Names, NEW parts \in {0},
                 NEW p \in UniqueTarget(Series(name, parts)), ~Busy(p),
                 up' = [up EXCEPT ![u].stage = "opening", ![u].target = p]
          PROVE  \E r \in Request :
                   /\ up' = [up EXCEPT ![u] = r]
                   /\ r.written = up[u].written /\ r.result # "stored"
                   /\ r.stage = "opening" /\ r.target \in Paths /\ r.target.parts = 0
                   /\ dir[r.target] = None /\ ~Busy(r.target)
      <3> DEFINE x == [up[u] EXCEPT !.stage = "opening", !.target = p]
      <3>1. p \in Paths /\ p.parts = 0 /\ dir[p] = None
        BY <2>2 DEF UniqueTarget, Free, Series, Paths, OwnNames
      <3>2. /\ x \in Request /\ x.stage = "opening" /\ x.written = up[u].written
            /\ x.target = p /\ x.result = up[u].result
        BY <3>1 DEF IInv, TypeOK, Request
      <3>3. up' = [up EXCEPT ![u] = x]
        BY <2>2
      <3>4. up[u].result # "stored"
        BY DEF Begins, IInv, StoredIsOver
      <3> QED
        BY <2>2, <3>1, <3>2, <3>3, <3>4
    <2> QED
      BY <2>1, <2>2 DEF Begins, OwnNames
  <1>2. /\ up' \in [Uploads -> Request] /\ up'[u] = r
        /\ \A v \in Uploads : v # u => up'[v] = up[v]
    BY <1>1, OneRequest DEF IInv
  <1>3. up[u].stage = "new" /\ UNCHANGED <<dir, file, crashes>>
    BY DEF Begins
  <1>4. TypeOK'
    BY <1>2, <1>3 DEF IInv, TypeOK
  <1>5. InFlight' \subseteq InFlight \union {u} /\ (r.stage = "over" => InFlight' \subseteq InFlight)
    BY <1>2 DEF InFlight
  <1>6. u \notin InFlight
    BY <1>3 DEF InFlight
  <1>7. OwnTargets' /\ TargetsFree'
    BY <1>1, <1>2, <1>3, <1>5, <1>6 DEF IInv, OwnTargets, TargetsFree, Busy, InFlight
  <1>8. Placed' /\ OwnPart' /\ OwnHandle'
    <2>1. Writing' = Writing /\ u \notin Writing
      BY <1>1, <1>2, <1>3 DEF Writing
    <2>2. ASSUME NEW v \in Writing
          PROVE  PartIsOpen(v)'
      <3>1. v \in Uploads /\ up[v].stage \in {"streaming", "replacing"} /\ v # u
        BY <2>1 DEF Writing
      <3>2. up[v].handle \in Uploads /\ up[v].handle # u
        BY <1>3, <3>1, PartFile
      <3> QED
        BY <1>2, <1>3, <3>1, <3>2, PartFile, PartStays
    <2>3. Placed'
      BY <1>2, <1>3 DEF IInv, Placed
    <2>4. OwnHandle'
      BY <1>2, <2>1 DEF IInv, OwnHandle, Writing
    <2> QED
      BY <2>1, <2>2, <2>3, <2>4 DEF OwnPart
  <1>9. WholeFiles'
    <2>1. \A v \in Uploads : up[v].stage \in {"checking", "over"} => v # u
      BY <1>3
    <2>2. \A v \in Uploads : v # u => BlocksOf(v)' = BlocksOf(v)
      BY <1>2, SameBlocks
    <2> QED
      BY <1>2, <1>3, <2>1, <2>2 DEF IInv, WholeFiles, Listed
  <1>10. NothingWritten' /\ StoredIsOver'
    BY <1>1, <1>2, <1>3 DEF IInv, NothingWritten, StoredIsOver
  <1> QED
    BY <1>4, <1>7, <1>8, <1>9, <1>10 DEF IInv

\* The part file is made, or one that was left behind is emptied.
LEMMA OpensKeepsIt ==
  ASSUME OwnNames, IInv, NEW u \in Uploads, Opens(u)
  PROVE  IInv'
  <1> USE DEF Stages
  <1> DEFINE i == IF dir[Part(u)] = None THEN u ELSE dir[Part(u)]
             r == [up[u] EXCEPT !.stage = "streaming", !.handle = i]
  <1>1. /\ up[u].stage = "opening" /\ Part(u) \in Paths /\ Part(u).parts = 1
        /\ u \in InFlight /\ up[u].target \in Paths /\ up[u].target.parts = 0
    BY Flight DEF Opens, Flying
  <1>2. i \in Uploads /\ (dir[Part(u)] = None \/ dir[Part(u)] = i)
    BY <1>1 DEF IInv, TypeOK, Placed, Inodes
  <1>3. /\ dir' = [dir EXCEPT ![Part(u)] = i] /\ file' = [file EXCEPT ![i] = Empty]
        /\ up' = [up EXCEPT ![u] = r] /\ crashes' = crashes
    BY DEF Opens, Part
  <1>4. /\ r \in Request /\ r.stage = "streaming" /\ r.handle = i
        /\ r.target = up[u].target /\ r.written = up[u].written /\ r.result = up[u].result
    BY <1>2 DEF IInv, TypeOK, Request, Inodes
  <1>5. i # None
    BY <1>2, DropsAssumption
  <1> HIDE DEF r, i
  <1>6. /\ up' \in [Uploads -> Request] /\ up'[u] = r
        /\ \A v \in Uploads : v # u => up'[v] = up[v]
    BY <1>3, <1>4, OneRequest DEF IInv
  <1>7. \A p \in Paths : dir'[p] = IF p = Part(u) THEN i ELSE dir[p]
    BY <1>1, <1>3 DEF IInv, TypeOK
  <1>8. \A j \in Inodes : file'[j] = IF j = i THEN Empty ELSE file[j]
    BY <1>2, <1>3 DEF IInv, TypeOK, Inodes
  (* Nothing else was made of this file.                                   *)
  <1>9. \A p \in Paths : dir[p] = i => p = Part(u)
    <2>1. CASE dir[Part(u)] = None
      BY <1>1, <2>1 DEF IInv, Placed, i
    <2>2. CASE dir[Part(u)] # None
      BY <1>1, <1>2, <2>2 DEF IInv, Placed
    <2> QED
      BY <2>1, <2>2
  <1>10. TypeOK'
    <2>1. Empty \in [1 .. Cap -> Uploads \union {None}]
      BY DEF Empty
    <2>2. dir' \in [Paths -> Inodes \union {None}]
      BY <1>2, <1>3 DEF IInv, TypeOK, Inodes
    <2>3. file' \in [Inodes -> [1 .. Cap -> Uploads \union {None}]]
      BY <1>3, <2>1 DEF IInv, TypeOK
    <2> QED
      BY <1>3, <1>6, <2>2, <2>3 DEF IInv, TypeOK
  <1>11. InFlight' = InFlight /\ \A v \in Uploads : up'[v].target = up[v].target
    BY <1>1, <1>4, <1>6 DEF InFlight
  <1>12. OwnTargets'
    BY <1>11 DEF IInv, OwnTargets, InFlight
  <1>13. TargetsFree'
    <2>1. \A v \in InFlight : up[v].target \in Paths /\ up[v].target # Part(u)
      BY <1>1 DEF IInv, OwnTargets
    <2>2. \A v \in InFlight : up'[v].stage # "checking" => up[v].stage # "checking"
      BY <1>1, <1>6 DEF InFlight
    <2> QED
      BY <1>7, <1>11, <2>1, <2>2 DEF IInv, TargetsFree, InFlight
  <1>14. Placed'
    <2>1. \A p, q \in Paths : dir'[p] = dir'[q] /\ dir'[p] # None => p = q
      BY <1>7, <1>9 DEF IInv, Placed
    <2>2. ASSUME NEW p \in Paths, NEW v \in Uploads, dir'[p] = v
          PROVE  up'[v].stage \notin {"new", "opening"}
      <3>1. CASE v = u
        BY <1>4, <1>6, <3>1
      <3>2. CASE v # u /\ p = Part(u)
        <4>1. dir[Part(u)] = v
          BY <1>1, <1>7, <2>2, <3>2 DEF i
        <4> QED
          BY <1>1, <1>6, <3>2, <4>1 DEF IInv, Placed
      <3>3. CASE v # u /\ p # Part(u)
        BY <1>6, <1>7, <2>2, <3>3 DEF IInv, Placed
      <3> QED
        BY <3>1, <3>2, <3>3
    <2>3. \A p \in Paths : p.parts # 0 => dir'[p] \notin Drops
      BY <1>2, <1>7, DropsAssumption DEF IInv, Placed
    <2> QED
      BY <2>1, <2>2, <2>3 DEF Placed
  <1>15. OwnPart' /\ OwnHandle'
    <2>1. Writing' = Writing \union {u}
      BY <1>1, <1>4, <1>6 DEF Writing
    <2>2. PartIsOpen(u)'
      <3>1. up[u].written = 0
        BY <1>1 DEF IInv, NothingWritten
      <3>2. BlocksOf(u)' = Empty
        BY <1>4, <1>6, <3>1, SizesAssumption DEF BlocksOf, Empty
      <3>3. up'[i].stage \notin {"new", "opening"}
        <4>1. CASE i = u
          BY <1>4, <1>6, <4>1
        <4>2. CASE i # u
          <5>1. dir[Part(u)] = i
            BY <1>2, <4>2 DEF i
          <5> QED
            BY <1>1, <1>2, <1>6, <4>2, <5>1 DEF IInv, Placed
        <4> QED
          BY <4>1, <4>2
      <3>4. Part(u)' = Part(u) /\ up'[u].handle = i
        BY <1>4, <1>6 DEF Part
      <3>5. dir'[Part(u)] = i /\ \A p \in Paths : dir'[p] = i => p = Part(u)
        BY <1>1, <1>7, <1>9
      <3>6. file'[i] = Empty
        BY <1>2, <1>8 DEF Inodes
      <3> QED
        BY <1>2, <3>2, <3>3, <3>4, <3>5, <3>6 DEF PartIsOpen
    <2>3. ASSUME NEW v \in Writing
          PROVE  v # u /\ up[v].handle # i /\ PartIsOpen(v)'
      <3>1. v \in Uploads /\ up[v].stage \in {"streaming", "replacing"} /\ v # u /\ up'[v] = up[v]
        BY <1>1, <1>6 DEF Writing
      <3>2. /\ up[v].handle \in Uploads /\ up[v].handle # u
            /\ up[up[v].handle].stage \notin {"new", "opening"}
        BY <1>1, <3>1, PartFile
      <3>3. Part(v) \in Paths /\ Part(v) # Part(u)
        BY <1>1, <3>1, Flight, PartsApart DEF Flying
      <3>4. up[v].handle # i
        BY <1>1, <3>1, <3>2, <3>3, PartFile DEF i
      <3>5. /\ dir'[Part(v)] \in {None, up[v].handle}
            /\ \A p \in Paths : dir'[p] = up[v].handle => p = Part(v)
        BY <1>7, <3>1, <3>3, <3>4, PartFile
      <3>6. file'[up[v].handle] = file[up[v].handle]
        BY <1>8, <3>2, <3>4 DEF Inodes
      <3>7. up'[up[v].handle].stage \notin {"new", "opening"}
        BY <1>6, <3>2
      <3>8. PartIsOpen(v)'
        BY <3>1, <3>5, <3>6, <3>7, PartStays
      <3> QED
        BY <3>1, <3>4, <3>8
    <2>4. ASSUME NEW v \in Writing', NEW w \in Writing', up'[v].handle = up'[w].handle
          PROVE  v = w
      <3>1. \A x \in Writing : x \in Uploads /\ up'[x].handle = up[x].handle
        BY <1>6, <2>3 DEF Writing
      <3> QED
        BY <1>4, <1>6, <2>1, <2>3, <2>4, <3>1 DEF IInv, OwnHandle
    <2> QED
      BY <2>1, <2>2, <2>3, <2>4 DEF OwnPart, OwnHandle
  <1>16. WholeFiles'
    <2> SUFFICES ASSUME NEW p \in Paths, Listed(p)', dir'[p] \notin Drops
                 PROVE  \E v \in Uploads : /\ up'[v].target = p
                                           /\ up'[v].stage \in {"checking", "over"}
                                           /\ file'[dir'[p]] = BlocksOf(v)'
      BY DEF WholeFiles
    <2>1. p # Part(u) /\ Listed(p) /\ dir'[p] = dir[p]
      BY <1>1, <1>7 DEF Listed
    <2>2. PICK v \in Uploads : /\ up[v].target = p /\ up[v].stage \in {"checking", "over"}
                               /\ file[dir[p]] = BlocksOf(v)
      BY <2>1 DEF IInv, WholeFiles
    <2>3. v # u /\ BlocksOf(v)' = BlocksOf(v)
      BY <1>1, <1>6, <2>2, SameBlocks
    <2>4. dir[p] # i /\ dir[p] \in Inodes
      BY <1>9, <2>1 DEF IInv, TypeOK, Listed
    <2> QED
      BY <1>6, <1>8, <2>1, <2>2, <2>3, <2>4
  <1>17. NothingWritten' /\ StoredIsOver'
    BY <1>1, <1>4, <1>6 DEF IInv, NothingWritten, StoredIsOver
  <1> QED
    BY <1>10, <1>12, <1>13, <1>14, <1>15, <1>16, <1>17 DEF IInv

\* A block is written to the part file, or one too many is refused.
LEMMA ReceivesKeepsIt ==
  ASSUME OwnNames, IInv, NEW u \in Uploads, Receives(u)
  PROVE  IInv'
  <1> USE DEF Stages
  <1>1. CASE /\ up' = [up EXCEPT ![u].stage = "refusing", ![u].result = "refused"]
             /\ UNCHANGED <<dir, file, crashes>>
    <2> DEFINE r == [up[u] EXCEPT !.stage = "refusing", !.result = "refused"]
    <2>1. /\ r \in Request /\ r.stage = "refusing" /\ r.target = up[u].target
          /\ r.handle = up[u].handle /\ r.written = up[u].written /\ r.result = "refused"
      BY DEF IInv, TypeOK, Request, Results
    <2>2. up' = [up EXCEPT ![u] = r]
      BY <1>1
    <2>3. up[u].stage = "streaming"
      BY DEF Receives
    <2> HIDE DEF r
    <2> QED
      BY <1>1, <2>1, <2>2, <2>3, MovesKeepsIt DEF Flying
  <1>2. CASE /\ up[u].written + 1 <= Cap
             /\ file' = [file EXCEPT ![up[u].handle] = [@ EXCEPT ![up[u].written + 1] = u]]
             /\ up' = [up EXCEPT ![u].written = @ + 1]
             /\ UNCHANGED <<dir, crashes>>
    <2> DEFINE h == up[u].handle
               n == up[u].written + 1
               r == [up[u] EXCEPT !.written = n]
    <2>1. /\ h \in Uploads /\ dir[Part(u)] \in {None, h} /\ file[h] = BlocksOf(u)
          /\ \A p \in Paths : dir[p] = h => p = Part(u)
      BY PartFile DEF Receives
    <2>2. up[u].stage = "streaming" /\ Part(u) \in Paths /\ Part(u).parts = 1
      BY Flight DEF Receives, Flying
    <2>3. up[u] \in Request /\ up[u].written \in 0 .. Cap /\ n \in 1 .. Cap /\ n \in 0 .. Cap
      BY <1>2, SizesAssumption DEF IInv, TypeOK, Request
    <2>4. up' = [up EXCEPT ![u] = r] /\ file' = [file EXCEPT ![h] = [file[h] EXCEPT ![n] = u]]
      BY <1>2
    <2> HIDE DEF n
    <2>5. /\ r \in Request /\ r.stage = "streaming" /\ r.target = up[u].target
          /\ r.handle = h /\ r.written = n /\ r.result = up[u].result
      BY <2>2, <2>3 DEF Request
    <2> HIDE DEF r, h
    <2>6. /\ up' \in [Uploads -> Request] /\ up'[u] = r
          /\ \A v \in Uploads : v # u => up'[v] = up[v]
      BY <2>4, <2>5, OneRequest DEF IInv
    <2>7. /\ [file[h] EXCEPT ![n] = u] \in [1 .. Cap -> Uploads \union {None}]
          /\ file' \in [Inodes -> [1 .. Cap -> Uploads \union {None}]]
          /\ file'[h] = [file[h] EXCEPT ![n] = u]
          /\ \A j \in Inodes : j # h => file'[j] = file[j]
      BY <2>1, <2>3, <2>4 DEF IInv, TypeOK, Inodes
    <2>8. TypeOK'
      BY <1>2, <2>6, <2>7 DEF IInv, TypeOK
    <2>9. /\ InFlight' = InFlight
          /\ \A v \in Uploads : /\ up'[v].target = up[v].target /\ up'[v].stage = up[v].stage
                                /\ up'[v].handle = up[v].handle
      BY <2>2, <2>5, <2>6 DEF InFlight, h
    <2>10. OwnTargets' /\ TargetsFree' /\ Placed'
      BY <1>2, <2>9 DEF IInv, OwnTargets, TargetsFree, Placed
    <2>11. BlocksOf(u)' = file'[h]
      <3>1. BlocksOf(u)' = [j \in 1 .. Cap |-> IF j <= n THEN u ELSE None]
        BY <2>5, <2>6 DEF BlocksOf
      <3>2. [file[h] EXCEPT ![n] = u] = [j \in 1 .. Cap |-> IF j <= n THEN u ELSE None]
        BY <2>1, <2>3, SizesAssumption DEF BlocksOf, n
      <3> QED
        BY <2>7, <3>1, <3>2
    <2>12. ASSUME NEW v \in Uploads, v # u
           PROVE  BlocksOf(v)' = BlocksOf(v)
      BY <2>6, <2>12, SameBlocks
    <2>13. OwnPart' /\ OwnHandle'
      <3>1. Writing' = Writing
        BY <2>9 DEF Writing
      <3>2. ASSUME NEW v \in Writing
            PROVE  PartIsOpen(v)'
        <4>1. v \in Uploads /\ up[v].stage \in {"streaming", "replacing"}
          BY DEF Writing
        <4>2. /\ up[v].handle \in Uploads /\ dir[Part(v)] \in {None, up[v].handle}
              /\ up[up[v].handle].stage \notin {"new", "opening"}
              /\ file[up[v].handle] = BlocksOf(v)
              /\ \A p \in Paths : dir[p] = up[v].handle => p = Part(v)
          BY <4>1, PartFile
        <4>3. Part(v)' = Part(v)
          BY <2>9, <4>1 DEF Part
        <4>4. CASE v = u
          BY <1>2, <2>9, <2>11, <4>2, <4>3, <4>4 DEF PartIsOpen, h
        <4>5. CASE v # u
          <5>1. up[v].handle # h
            BY <2>2, <4>1, <4>5, PartFile DEF h
          <5>2. file'[up[v].handle] = file[up[v].handle]
            BY <2>7, <4>2, <5>1 DEF Inodes
          <5>3. BlocksOf(v)' = BlocksOf(v) /\ up'[v].handle = up[v].handle
            BY <2>9, <2>12, <4>1, <4>5
          <5>4. up'[up[v].handle].stage \notin {"new", "opening"}
            BY <2>9, <4>2
          <5> QED
            BY <1>2, <4>2, <4>3, <5>2, <5>3, <5>4 DEF PartIsOpen
        <4> QED
          BY <4>4, <4>5
      <3>3. OwnHandle'
        BY <2>9, <3>1 DEF IInv, OwnHandle, Writing
      <3> QED
        BY <3>1, <3>2, <3>3 DEF OwnPart
    <2>14. WholeFiles'
      <3> SUFFICES ASSUME NEW p \in Paths, Listed(p)', dir'[p] \notin Drops
                   PROVE  \E v \in Uploads : /\ up'[v].target = p
                                             /\ up'[v].stage \in {"checking", "over"}
                                             /\ file'[dir'[p]] = BlocksOf(v)'
        BY DEF WholeFiles
      <3>1. p # Part(u) /\ Listed(p) /\ dir'[p] = dir[p]
        BY <1>2, <2>2 DEF Listed
      <3>2. PICK v \in Uploads : /\ up[v].target = p /\ up[v].stage \in {"checking", "over"}
                                 /\ file[dir[p]] = BlocksOf(v)
        BY <3>1 DEF IInv, WholeFiles
      <3>3. dir[p] # h /\ dir[p] \in Inodes
        BY <2>1, <3>1 DEF IInv, TypeOK, Listed
      <3> QED
        BY <2>2, <2>7, <2>9, <2>12, <3>1, <3>2, <3>3
    <2>15. NothingWritten' /\ StoredIsOver'
      BY <2>2, <2>5, <2>6 DEF IInv, NothingWritten, StoredIsOver
    <2> QED
      BY <2>8, <2>10, <2>13, <2>14, <2>15 DEF IInv
  <1> QED
    BY <1>1, <1>2 DEF Receives

(* Everything else an upload does in flight but the renaming.              *)
LEMMA OtherStepsKeepIt ==
  ASSUME OwnNames, IInv, NEW u \in Uploads,
         \/ Raises(u) \/ StreamEnds(u) \/ Unlinks(u) \/ Checks(u)
         \/ up[u].stage = "replacing" /\ Refuses(u) /\ UNCHANGED <<dir, file, crashes>>
  PROVE  IInv'
  <1> USE DEF Stages, Flying, Results
  <1>1. up[u] \in Request
    BY DEF IInv, TypeOK
  <1>2. ASSUME up[u].stage \in {"opening", "streaming"}, UNCHANGED <<dir, file, crashes>>,
               up' = [up EXCEPT ![u].stage = "refusing", ![u].result = "refused"]
        PROVE  IInv'
    <2> DEFINE r == [up[u] EXCEPT !.stage = "refusing", !.result = "refused"]
    <2>1. /\ r \in Request /\ r.stage = "refusing" /\ r.target = up[u].target
          /\ r.handle = up[u].handle /\ r.written = up[u].written /\ r.result = "refused"
      BY <1>1 DEF Request
    <2>2. up' = [up EXCEPT ![u] = r]
      BY <1>2
    <2> HIDE DEF r
    <2> QED
      BY <1>2, <2>1, <2>2, MovesKeepsIt
  <1>3. ASSUME up[u].stage = "streaming", UNCHANGED <<dir, file, crashes>>,
               up' = [up EXCEPT ![u].stage = "replacing"]
        PROVE  IInv'
    <2> DEFINE r == [up[u] EXCEPT !.stage = "replacing"]
    <2>1. /\ r \in Request /\ r.stage = "replacing" /\ r.target = up[u].target
          /\ r.handle = up[u].handle /\ r.written = up[u].written /\ r.result # "stored"
      BY <1>1, <1>3 DEF Request, IInv, StoredIsOver
    <2>2. up' = [up EXCEPT ![u] = r]
      BY <1>3
    <2> HIDE DEF r
    <2> QED
      BY <1>3, <2>1, <2>2, MovesKeepsIt
  <1>4. ASSUME up[u].stage \in {"refusing", "replacing"}, Refuses(u), UNCHANGED <<file, crashes>>,
               dir' = dir \/ dir' = [dir EXCEPT ![Part(u)] = None]
        PROVE  IInv'
    <2> DEFINE r == [Forgotten EXCEPT !.result = "refused"]
    <2>1. r \in Request /\ r.stage = "over" /\ r.result = "refused"
      BY RefusedRequest
    <2>2. up' = [up EXCEPT ![u] = r]
      BY <1>4 DEF Refuses
    <2> HIDE DEF r
    <2> QED
      BY <1>4, <2>1, <2>2, MovesKeepsIt
  <1>5. ASSUME up[u].stage = "checking", UNCHANGED <<dir, file, crashes>>, NEW result \in Results,
               up' = [up EXCEPT ![u].stage = "over", ![u].result = result]
        PROVE  IInv'
    <2> DEFINE r == [up[u] EXCEPT !.stage = "over", !.result = result]
    <2>1. /\ r \in Request /\ r.stage = "over" /\ r.target = up[u].target
          /\ r.handle = up[u].handle /\ r.written = up[u].written
      BY <1>1 DEF Request
    <2>2. up' = [up EXCEPT ![u] = r]
      BY <1>5
    <2> HIDE DEF r
    <2> QED
      BY <1>5, <2>1, <2>2, MovesKeepsIt
  <1> QED
    BY <1>2, <1>3, <1>4, <1>5 DEF Raises, StreamEnds, Unlinks, Checks, Part

\* The part file gets its name: whole, and where nothing was.
LEMMA ReplacesKeepsIt ==
  ASSUME OwnNames, IInv, NEW u \in Uploads, Replaces(u)
  PROVE  IInv'
  <1> USE DEF Stages
  <1> DEFINE t == up[u].target
             r == [up[u] EXCEPT !.stage = "checking"]
  <1>1. up[u].stage = "replacing" /\ UNCHANGED <<file, crashes>>
    BY DEF Replaces
  <1>2. /\ Part(u) \in Paths /\ Part(u).parts = 1 /\ u \in InFlight
        /\ t \in Paths /\ t.parts = 0 /\ dir[t] = None
    BY <1>1, Flight DEF Flying, IInv, TargetsFree
  <1>3. CASE Refuses(u) /\ UNCHANGED dir
    BY <1>1, <1>3, OtherStepsKeepIt
  <1>4. CASE /\ dir[Part(u)] # None
             /\ dir' = [dir EXCEPT ![t] = dir[Part(u)], ![Part(u)] = None]
             /\ up' = [up EXCEPT ![u].stage = "checking"]
    <2> DEFINE h == up[u].handle
    <2>1. /\ h \in Uploads /\ dir[Part(u)] = h /\ file[h] = BlocksOf(u)
          /\ \A p \in Paths : dir[p] = h => p = Part(u)
      BY <1>1, <1>4, PartFile
    <2>2. /\ r \in Request /\ r.stage = "checking" /\ r.target = t
          /\ r.handle = h /\ r.written = up[u].written /\ r.result = up[u].result
      BY DEF IInv, TypeOK, Request
    <2>3. up' = [up EXCEPT ![u] = r]
      BY <1>4
    <2> HIDE DEF r, h, t
    <2>4. /\ up' \in [Uploads -> Request] /\ up'[u] = r
          /\ \A v \in Uploads : v # u => up'[v] = up[v]
      BY <2>2, <2>3, OneRequest DEF IInv
    <2>5. dir' \in [Paths -> Inodes \union {None}]
      BY <1>4, <2>1 DEF IInv, TypeOK, Inodes
    <2>6. \A p \in Paths : dir'[p] = IF p = Part(u) THEN None ELSE IF p = t THEN h ELSE dir[p]
      BY <1>2, <1>4, <2>1 DEF IInv, TypeOK
    <2>7. TypeOK'
      BY <1>1, <2>4, <2>5 DEF IInv, TypeOK
    <2>8. InFlight' = InFlight /\ \A v \in Uploads : up'[v].target = up[v].target
      BY <1>1, <2>2, <2>4 DEF InFlight, t
    <2>9. OwnTargets'
      BY <2>8 DEF IInv, OwnTargets, InFlight
    <2>10. TargetsFree'
      <3> SUFFICES ASSUME NEW v \in InFlight, up'[v].stage # "checking"
                   PROVE  dir'[up'[v].target] = None
        BY <2>8 DEF TargetsFree
      <3>1. v # u /\ v \in Uploads
        BY <2>2, <2>4 DEF InFlight
      <3>2. up[v].stage # "checking" /\ up[v].target \in Paths /\ dir[up[v].target] = None
        BY <2>4, <3>1 DEF IInv, OwnTargets, TargetsFree
      <3>3. up[v].target # t
        BY <1>2, <3>1 DEF IInv, OwnTargets, t
      <3> QED
        BY <2>6, <2>8, <3>1, <3>2, <3>3
    <2>11. Placed'
      <3>1. \A p, q \in Paths : dir'[p] = dir'[q] /\ dir'[p] # None => p = q
        BY <2>1, <2>6 DEF IInv, Placed
      <3>2. ASSUME NEW p \in Paths, NEW v \in Uploads, dir'[p] = v
            PROVE  up'[v].stage \notin {"new", "opening"}
        <4>1. \E q \in Paths : dir[q] = v
          BY <1>2, <2>1, <2>6, <3>2, DropsAssumption
        <4> QED
          BY <2>2, <2>4, <4>1 DEF IInv, Placed
      <3>3. \A p \in Paths : p.parts # 0 => dir'[p] \notin Drops
        BY <1>2, <2>6, DropsAssumption DEF IInv, Placed
      <3> QED
        BY <3>1, <3>2, <3>3 DEF Placed
    <2>12. OwnPart' /\ OwnHandle'
      <3>1. Writing' = Writing \ {u}
        BY <2>2, <2>4 DEF Writing
      <3>2. ASSUME NEW v \in Writing \ {u}
            PROVE  PartIsOpen(v)'
        <4>1. v \in Uploads /\ up[v].stage \in {"streaming", "replacing"} /\ v # u /\ up'[v] = up[v]
          BY <2>4 DEF Writing
        <4>2. up[v].handle \in Uploads /\ up[v].handle \notin {None, h}
          BY <1>1, <4>1, PartFile, DropsAssumption DEF h
        <4>3. Part(v) \in Paths /\ Part(v).parts = 1 /\ Part(v) # Part(u)
          BY <1>1, <4>1, Flight, PartsApart DEF Flying
        <4>4. /\ dir'[Part(v)] \in {None, up[v].handle}
              /\ \A p \in Paths : dir'[p] = up[v].handle => p = Part(v)
          BY <1>2, <2>6, <4>1, <4>2, <4>3, PartFile
        <4>5. up'[up[v].handle].stage \notin {"new", "opening"}
          BY <2>2, <2>4, <4>1, <4>2, PartFile
        <4> QED
          BY <1>1, <4>1, <4>4, <4>5, PartStays
      <3>3. OwnHandle'
        BY <2>4, <3>1 DEF IInv, OwnHandle, Writing
      <3> QED
        BY <3>1, <3>2, <3>3 DEF OwnPart
    <2>13. NothingWritten' /\ StoredIsOver'
      BY <1>1, <2>2, <2>4 DEF IInv, NothingWritten, StoredIsOver
    <2>14. WholeFiles'
      <3> SUFFICES ASSUME NEW p \in Paths, Listed(p)', dir'[p] \notin Drops
                   PROVE  \E v \in Uploads : /\ up'[v].target = p
                                             /\ up'[v].stage \in {"checking", "over"}
                                             /\ file'[dir'[p]] = BlocksOf(v)'
        BY DEF WholeFiles
      <3>1. \A v \in Uploads : up'[v].written = up[v].written
        BY <2>2, <2>4
      <3>2. \A v \in Uploads : BlocksOf(v)' = BlocksOf(v)
        BY <3>1, SameBlocks
      <3>3. p # Part(u)
        BY <1>2 DEF Listed
      <3>4. CASE p = t
        BY <1>1, <2>1, <2>2, <2>4, <2>6, <3>2, <3>3, <3>4
      <3>5. CASE p # t
        <4>1. Listed(p) /\ dir'[p] = dir[p]
          BY <2>6, <3>3, <3>5 DEF Listed
        <4>2. PICK v \in Uploads : /\ up[v].target = p /\ up[v].stage \in {"checking", "over"}
                                   /\ file[dir[p]] = BlocksOf(v)
          BY <4>1 DEF IInv, WholeFiles
        <4> QED
          BY <1>1, <2>4, <3>2, <4>1, <4>2
      <3> QED
        BY <3>4, <3>5
    <2> QED
      BY <2>7, <2>9, <2>10, <2>11, <2>12, <2>13, <2>14 DEF IInv
  <1> QED
    BY <1>3, <1>4 DEF Replaces, Part

-----------------------------------------------------------------------------
(* Everyone else.                                                          *)

\* A file goes, or one comes where nobody uploads to.
LEMMA OthersKeepIt ==
  ASSUME OwnNames, IInv, NEW p \in Paths,
         Removed(p) \/ \E i \in Drops : DroppedIn(p, i)
  PROVE  IInv'
  <1> USE DEF Stages
  <1>1. /\ UNCHANGED <<file, up, crashes>>
        /\ \/ dir' = [dir EXCEPT ![p] = None]
           \/ \E i \in Drops : /\ dir' = [dir EXCEPT ![p] = i] /\ ~Busy(p) /\ p.parts = 0
                               /\ \A q \in Paths : dir[q] # i
    BY DEF Removed, DroppedIn, OwnNames
  <1>2. PICK i \in Drops \union {None} :
          /\ \A q \in Paths : dir'[q] = IF q = p THEN i ELSE dir[q]
          /\ i # None => ~Busy(p) /\ p.parts = 0 /\ \A q \in Paths : dir[q] # i
    BY <1>1 DEF IInv, TypeOK
  <1>3. TypeOK'
    BY <1>1 DEF IInv, TypeOK, Inodes
  <1>4. InFlight' = InFlight /\ \A u \in Uploads : Part(u)' = Part(u) /\ BlocksOf(u)' = BlocksOf(u)
    BY <1>1 DEF InFlight, Part, BlocksOf
  <1>5. OwnTargets' /\ NothingWritten' /\ StoredIsOver'
    BY <1>1, <1>4 DEF IInv, OwnTargets, NothingWritten, StoredIsOver
  <1>6. TargetsFree'
    BY <1>1, <1>2, <1>4 DEF IInv, OwnTargets, TargetsFree, Busy
  <1>7. Placed'
    BY <1>1, <1>2, DropsAssumption DEF IInv, Placed
  <1>8. OwnPart' /\ OwnHandle'
    <2>1. Writing' = Writing
      BY <1>1 DEF Writing
    <2>2. ASSUME NEW u \in Writing
          PROVE  PartIsOpen(u)'
      <3>1. u \in Uploads /\ up[u].stage \in {"streaming", "replacing"}
        BY DEF Writing
      <3>2. Part(u) \in Paths /\ Part(u).parts = 1 /\ up[u].handle \in Uploads
        BY <3>1, Flight, PartFile DEF Flying
      <3>3. up[u].handle # i
        BY <3>2, DropsAssumption
      <3>4. /\ dir'[Part(u)] \in {None, up[u].handle}
            /\ \A q \in Paths : dir'[q] = up[u].handle => q = Part(u)
        BY <1>2, <3>1, <3>2, <3>3, PartFile
      <3> QED
        BY <1>1, <3>1, <3>4, PartFile, PartStays
    <2> QED
      BY <1>1, <2>1, <2>2 DEF IInv, OwnPart, OwnHandle
  <1>9. WholeFiles'
    BY <1>1, <1>2, <1>4 DEF IInv, WholeFiles, Listed
  <1> QED
    BY <1>3, <1>5, <1>6, <1>7, <1>8, <1>9 DEF IInv

(* A restart ends what is in flight, and forgets it but for what it put    *)
(* under a name.                                                           *)
LEMMA CrashEnds ==
  ASSUME IInv, Crash, NEW u \in Uploads
  PROVE  /\ up'[u] \in Request
         /\ up'[u].stage = IF u \in InFlight THEN "over" ELSE up[u].stage
         /\ up[u].stage \in {"new", "checking", "over"} =>
               up'[u].target = up[u].target /\ up'[u].written = up[u].written
         /\ up'[u].result = "stored" => up[u].result = "stored" /\ up'[u] = up[u]
  <1>1. up'[u] = IF u \notin InFlight THEN up[u]
                 ELSE IF up[u].stage = "checking" THEN [up[u] EXCEPT !.stage = "over"]
                 ELSE Forgotten
    BY DEF Crash
  <1>2. up[u] \in Request /\ (up[u].result = "stored" => u \notin InFlight)
    BY DEF IInv, TypeOK, StoredIsOver, InFlight
  <1>3. CASE u \notin InFlight
    BY <1>1, <1>2, <1>3
  <1>4. CASE u \in InFlight /\ up[u].stage = "checking"
    <2> DEFINE r == [up[u] EXCEPT !.stage = "over"]
    <2>1. /\ r \in Request /\ r.stage = "over" /\ r.target = up[u].target
          /\ r.written = up[u].written /\ r.result = up[u].result
      BY <1>2 DEF Request, Stages
    <2> QED
      BY <1>1, <1>2, <1>4, <2>1
  <1>5. CASE u \in InFlight /\ up[u].stage # "checking"
    BY <1>1, <1>5, RefusedRequest DEF InFlight
  <1> QED
    BY <1>3, <1>4, <1>5

LEMMA CrashKeepsIt ==
  ASSUME OwnNames, IInv, Crash
  PROVE  IInv'
  <1> USE DEF Stages
  <1>2. \A u \in Uploads : /\ up'[u] \in Request
                           /\ up'[u].stage = IF u \in InFlight THEN "over" ELSE up[u].stage
                           /\ up[u].stage \in {"new", "checking", "over"} =>
                                 up'[u].target = up[u].target /\ up'[u].written = up[u].written
                           /\ up'[u].result = "stored" => up[u].result = "stored" /\ up'[u] = up[u]
    BY CrashEnds
  <1>3. up' \in [Uploads -> Request]
    BY <1>2 DEF Crash
  <1>4. TypeOK'
    BY <1>3, BoundsAssumption DEF IInv, TypeOK, Crash
  <1>5. \A u \in Uploads : up'[u].stage \in {"new", "over"} /\ (up'[u].stage = "new" => up[u].stage = "new")
    BY <1>2 DEF InFlight
  <1>6. InFlight' = {}
    BY <1>5 DEF InFlight
  <1>7. OwnTargets' /\ TargetsFree' /\ OwnPart' /\ OwnHandle'
    BY <1>5, <1>6 DEF OwnTargets, TargetsFree, OwnPart, OwnHandle, Writing
  <1>8. Placed' /\ NothingWritten' /\ StoredIsOver'
    <2>1. UNCHANGED <<dir, file>>
      BY DEF Crash
    <2>2. Placed'
      BY <1>5, <2>1 DEF IInv, Placed
    <2>3. NothingWritten' /\ StoredIsOver'
      BY <1>2, <1>5 DEF IInv, NothingWritten, StoredIsOver
    <2> QED
      BY <2>2, <2>3
  <1>9. WholeFiles'
    <2>1. ASSUME NEW u \in Uploads, up[u].stage \in {"checking", "over"}
          PROVE  /\ BlocksOf(u)' = BlocksOf(u) /\ up'[u].target = up[u].target
                 /\ up'[u].stage = "over"
      BY <1>2, <2>1, SameBlocks DEF InFlight
    <2>2. UNCHANGED <<dir, file>>
      BY DEF Crash
    <2> QED
      BY <2>1, <2>2 DEF IInv, WholeFiles, Listed
  <1> QED
    BY <1>4, <1>7, <1>8, <1>9 DEF IInv

-----------------------------------------------------------------------------
(* The invariant, and what it is for.                                      *)

LEMMA InitHolds ==
  ASSUME Init
  PROVE  IInv
  <1>1. /\ NewRequest \in Request /\ NewRequest.stage = "new" /\ NewRequest.written = 0
        /\ NewRequest.result = "none"
    BY SizesAssumption DEF NewRequest, Request, Stages, Results
  <1>2. Empty \in [1 .. Cap -> Uploads \union {None}] /\ 0 \in 0 .. MaxCrashes
    BY BoundsAssumption DEF Empty
  <1>3. TypeOK
    BY <1>1, <1>2 DEF Init, TypeOK
  <1>4. \A u \in Uploads : up[u] = NewRequest
    BY DEF Init
  <1>5. InFlight = {}
    BY <1>1, <1>4 DEF InFlight
  <1>6. \A p \in Paths : dir[p] = None
    BY DEF Init
  <1> QED
    BY <1>1, <1>3, <1>4, <1>5, <1>6, DropsAssumption
       DEF IInv, OwnTargets, TargetsFree, Placed, OwnPart, OwnHandle, Writing, NothingWritten,
           StoredIsOver, WholeFiles, Listed

LEMMA StepKeepsIt ==
  ASSUME OwnNames, IInv, [Next]_vars
  PROVE  IInv'
  <1>1. ASSUME NEW u \in Uploads, UploadStep(u)
        PROVE  IInv'
    BY <1>1, BeginsKeepsIt, OpensKeepsIt, ReceivesKeepsIt, ReplacesKeepsIt, OtherStepsKeepIt
       DEF UploadStep
  <1>2. CASE UNCHANGED vars
    <2>1. \A u \in Uploads : PartIsOpen(u) => PartIsOpen(u)'
      BY <1>2 DEF vars, PartIsOpen, Part, BlocksOf
    <2>2. Writing' = Writing /\ \A u \in Writing : u \in Uploads
      BY <1>2 DEF vars, Writing
    <2>3. OwnPart' /\ OwnHandle'
      BY <1>2, <2>1, <2>2 DEF vars, IInv, OwnPart, OwnHandle
    <2> QED
      BY <1>2, <2>3 DEF vars, IInv, TypeOK, OwnTargets, TargetsFree, Placed, NothingWritten,
                        StoredIsOver, WholeFiles, Listed, InFlight, BlocksOf
  <1> QED
    BY <1>1, <1>2, OthersKeepIt, CrashKeepsIt DEF Next, Done

(* Files under their real names are whole and of one upload, whatever      *)
(* fails, is removed or restarts in between: store_stream's "readers see   *)
(* either nothing or the finished file".                                   *)
THEOREM FilesAlwaysWhole ==
  ASSUME OwnNames
  PROVE  Spec => []WholeFiles
  <1>1. Init => IInv
    BY InitHolds
  <1>2. IInv /\ [Next]_vars => IInv'
    BY StepKeepsIt
  <1>3. IInv => WholeFiles
    BY DEF IInv
  <1> QED
    BY <1>1, <1>2, <1>3, PTL DEF Spec

(* What a step of an upload may touch: its part file, and its own path     *)
(* while nothing is there.                                                 *)
LEMMA StepTouches ==
  ASSUME OwnNames, IInv, NEW u \in Uploads, UploadStep(u), NEW p \in Paths, p.parts = 0,
         dir[p] # None
  PROVE  dir'[p] = dir[p] /\ file'[dir[p]] = file[dir[p]]
  <1> USE DEF Stages, Flying
  <1>1. dir[p] \in Inodes
    BY DEF IInv, TypeOK
  <1>2. CASE UNCHANGED <<dir, file>>
    BY <1>2
  <1>3. CASE Opens(u)
    <2>1. Part(u) \in Paths /\ Part(u).parts = 1
      BY <1>3, Flight DEF Opens
    <2>2. dir[p] # u /\ dir[p] # dir[Part(u)]
      BY <1>3, <2>1 DEF Opens, IInv, Placed
    <2> QED
      BY <1>1, <1>3, <2>1, <2>2 DEF Opens, Part, IInv, TypeOK
  <1>4. CASE Receives(u)
    <2>1. Part(u) \in Paths /\ Part(u).parts = 1
      BY <1>4, Flight DEF Receives
    <2>2. dir[p] # up[u].handle
      BY <1>4, <2>1, PartFile DEF Receives
    <2> QED
      BY <1>1, <1>4, <2>2 DEF Receives, IInv, TypeOK
  <1>5. CASE Unlinks(u)
    <2>1. Part(u) \in Paths /\ Part(u).parts = 1
      BY <1>5, Flight DEF Unlinks
    <2> QED
      BY <1>5, <2>1 DEF Unlinks, Part, IInv, TypeOK
  <1>6. CASE Replaces(u)
    <2>1. Part(u) \in Paths /\ Part(u).parts = 1 /\ u \in InFlight /\ up[u].stage = "replacing"
      BY <1>6, Flight DEF Replaces
    <2>2. up[u].target # p
      BY <2>1 DEF IInv, TargetsFree
    <2> QED
      BY <1>6, <2>1, <2>2 DEF Replaces, Part, IInv, TypeOK
  <1> QED
    BY <1>2, <1>3, <1>4, <1>5, <1>6 DEF UploadStep, Begins, Raises, StreamEnds, Checks

(* No upload touches a file that is complete, be it an upload's or the     *)
(* owner's, "Never overwrites." of unique_target.                          *)
THEOREM AlwaysNeverOverwrites ==
  ASSUME OwnNames
  PROVE  Spec => NeverOverwrites
  <1>1. Init => IInv
    BY InitHolds
  <1>2. IInv /\ [Next]_vars => IInv'
    BY StepKeepsIt
  <1>3. IInv /\ [Next]_vars =>
          [\A u \in Uploads : UploadStep(u) =>
             \A p \in Complete : dir'[p] = dir[p] /\ file'[dir[p]] = file[dir[p]]]_vars
    <2> SUFFICES ASSUME IInv, [Next]_vars, NEW u \in Uploads, UploadStep(u), NEW p \in Complete
                 PROVE  dir'[p] = dir[p] /\ file'[dir[p]] = file[dir[p]]
      OBVIOUS
    <2>1. p \in Paths /\ dir[p] # None
      BY DropsAssumption DEF Complete
    <2>2. p.parts = 0
      BY DEF Complete, IInv, Placed, StoredIsOver
    <2> QED
      BY <2>1, <2>2, StepTouches
  <1> QED
    BY <1>1, <1>2, <1>3, PTL DEF Spec, NeverOverwrites

-----------------------------------------------------------------------------
(* Counting.  The library's induction theorems are about operators and out *)
(* of the provers' reach; that a set of finite sets has a least member is  *)
(* induction enough.  With it, the sum a fold computes is the number of    *)
(* pairs <<x, j>> whose j is at most the weight of x.                      *)

(* Sets of finite sets have a least element: induction over finite sets.   *)
\* How many pairs <<x, j>> with x in s and j up to w[x].
Count(s, w) == Cardinality({b \in s \X (1 .. Cap) : b[2] <= w[b[1]]})

LEMMA CountFinite ==
  ASSUME NEW s, IsFiniteSet(s), NEW w
  PROVE  /\ IsFiniteSet({b \in s \X (1 .. Cap) : b[2] <= w[b[1]]}) /\ Count(s, w) \in Nat
  <1>1. IsFiniteSet(s \X (1 .. Cap))
    <2>1. IsFiniteSet(1 .. Cap)
      BY FS_Interval, SizesAssumption
    <2> QED
      BY <2>1, FS_Product
  <1>2. IsFiniteSet({b \in s \X (1 .. Cap) : b[2] <= w[b[1]]})
    BY <1>1, FS_Subset
  <1> QED
    BY <1>2, FS_CardinalityType DEF Count

LEMMA CountStep ==
  ASSUME NEW s, IsFiniteSet(s), NEW w \in [s -> 0 .. Cap], NEW x \in s
  PROVE  Count(s, w) = w[x] + Count(s \ {x}, w)
  <1> DEFINE All == {b \in s \X (1 .. Cap) : b[2] <= w[b[1]]}
             Rest == {b \in (s \ {x}) \X (1 .. Cap) : b[2] <= w[b[1]]}
             Own == {x} \X (1 .. w[x])
  <1>1. w[x] \in 0 .. Cap
    OBVIOUS
  <1>2. All = Rest \union Own /\ Rest \intersect Own = {}
    BY <1>1, SizesAssumption
  <1>3. IsFiniteSet(Rest)
    <2>1. IsFiniteSet(s \ {x})
      BY FS_Subset
    <2> QED
      BY <2>1, CountFinite
  <1>4. IsFiniteSet(Own) /\ Cardinality(Own) = w[x]
    <2>1. IsFiniteSet({x}) /\ Cardinality({x}) = 1
      BY FS_Singleton
    <2>2. IsFiniteSet(1 .. w[x]) /\ Cardinality(1 .. w[x]) = w[x]
      BY <1>1, FS_Interval, SizesAssumption
    <2>3. IsFiniteSet(Own) /\ Cardinality(Own) = Cardinality({x}) * Cardinality(1 .. w[x])
      BY <2>1, <2>2, FS_Product
    <2> QED
      BY <1>1, <2>1, <2>2, <2>3, SizesAssumption
  <1> HIDE DEF All, Rest, Own
  <1>5. Cardinality(All) = Cardinality(Rest) + Cardinality(Own) - Cardinality(Rest \intersect Own)
    BY <1>2, <1>3, <1>4, FS_Union
  <1>6. Cardinality(Rest \intersect Own) = 0
    BY <1>2, FS_EmptySet
  <1>7. Cardinality(Rest) \in Nat
    BY <1>3, FS_CardinalityType
  <1> QED
    BY <1>1, <1>4, <1>5, <1>6, <1>7, SizesAssumption DEF Count, All, Rest

Counts(P, w) == [s \in SUBSET P |-> Count(s, w)]

\* g adds up the weights of every subset of P.
Any(s) == CHOOSE x \in s : TRUE
Sums(g, P, w) == g = [s \in SUBSET P |-> IF s = {} THEN 0 ELSE w[Any(s)] + g[s \ {Any(s)}]]

LEMMA SumExists ==
  ASSUME NEW P, IsFiniteSet(P), NEW w \in [P -> 0 .. Cap]
  PROVE  Sums(Counts(P, w), P, w)
  <1> DEFINE f == Counts(P, w)
  <1> USE DEF Counts
  <1>1. ASSUME NEW s \in SUBSET P
        PROVE  f[s] = IF s = {} THEN 0 ELSE w[Any(s)] + f[s \ {Any(s)}]
    <2>1. CASE s = {}
      <3>1. {b \in s \X (1 .. Cap) : b[2] <= w[b[1]]} = {}
        BY <2>1
      <3>2. Count(s, w) = 0
        BY <3>1, FS_EmptySet DEF Count
      <3> QED
        BY <2>1, <3>2
    <2>2. CASE s # {}
      <3>1. Any(s) \in s
        BY <2>2 DEF Any
      <3> DEFINE x == Any(s)
                 v == [y \in s |-> w[y]]
      <3>2. IsFiniteSet(s) /\ v \in [s -> 0 .. Cap]
        BY FS_Subset
      <3>3. Count(s, v) = v[x] + Count(s \ {x}, v)
        <4> HIDE DEF v, x
        <4> QED
        BY <3>1, <3>2, CountStep DEF x
      <3>4. Count(s, v) = Count(s, w) /\ Count(s \ {x}, v) = Count(s \ {x}, w) /\ v[x] = w[x]
        BY <3>1 DEF Count
      <3> QED
        BY <2>2, <3>3, <3>4
    <2> QED
      BY <2>1, <2>2
  <1> QED
    BY <1>1 DEF Sums

LEMMA SumUnique ==
  ASSUME NEW P, IsFiniteSet(P), NEW w, NEW f, Sums(f, P, w), NEW g, Sums(g, P, w)
  PROVE  f[P] = g[P]
  <1> DEFINE Bad == {s \in SUBSET P : f[s] # g[s]}
  <1>1. ASSUME Bad # {}
        PROVE  FALSE
    <2>1. \A s \in Bad : IsFiniteSet(s)
      BY FS_Subset
    <2>2. PICK s \in Bad : \A r \in Bad : r \subseteq s => r = s
      <3> HIDE DEF Bad
      <3> QED
        BY <1>1, <2>1, LeastSet
    <2>3. /\ s \in SUBSET P
          /\ f[s] = IF s = {} THEN 0 ELSE w[Any(s)] + f[s \ {Any(s)}]
          /\ g[s] = IF s = {} THEN 0 ELSE w[Any(s)] + g[s \ {Any(s)}]
      BY DEF Sums
    <2>4. s # {}
      BY <2>2, <2>3
    <2>5. Any(s) \in s
      BY <2>4 DEF Any
    <2>6. s \ {Any(s)} \notin Bad
      BY <2>2, <2>5
    <2>7. f[s \ {Any(s)}] = g[s \ {Any(s)}]
      BY <2>3, <2>6
    <2> QED
      BY <2>2, <2>3, <2>7
  <1> QED
    BY <1>1

-----------------------------------------------------------------------------
(* The budget.                                                             *)

LEMMA SizeInCap ==
  ASSUME TypeOK, NEW i \in Inodes
  PROVE  Size(i) \in 0 .. Cap
  <1> DEFINE T == {j \in 1 .. Cap : file[i][j] # None} \union {0}
  <1>1. T \in SUBSET (0 .. Cap) /\ T # {}
    BY SizesAssumption
  <1> HIDE DEF T
  <1>2. Max(T) \in 0 .. Cap
    BY <1>1, MaxOfNumbers, SizesAssumption
  <1> QED
    BY <1>2 DEF Size, T

LEMMA EmptyHasNoSize ==
  ASSUME NEW i \in Inodes, file[i] = Empty
  PROVE  Size(i) = 0
  <1> DEFINE T == {j \in 1 .. Cap : file[i][j] # None} \union {0}
  <1>1. T = {0}
    BY DEF Empty
  <1>2. Max({0}) = 0
    BY DEF Max
  <1> QED
    BY <1>1, <1>2 DEF Size

Present == {p \in Paths : dir[p] # None}

\* The blocks in the folder, and those that uploads in flight may make of it.
Stored == {b \in Paths \X (1 .. Cap) : dir[b[1]] # None /\ b[2] <= Size(dir[b[1]])}
Awaited == {Part(u) : u \in {v \in InFlight : up[v].stage # "checking"}}
Room == Stored \union (Awaited \X (1 .. Cap))

LEMMA DirSizeCounts ==
  ASSUME TypeOK, IsFiniteSet(Present)
  PROVE  IsFiniteSet(Stored) /\ DirSize = Cardinality(Stored)
  <1> DEFINE w == [p \in Present |-> Size(dir[p])]
             Folds(g) == g = [s \in SUBSET Present |->
                                IF s = {} THEN 0
                                ELSE Size(dir[CHOOSE x \in s : TRUE]) + g[s \ {CHOOSE x \in s : TRUE}]]
             sum == CHOOSE h : Folds(h)
  <1>1. w \in [Present -> 0 .. Cap]
    BY SizeInCap DEF TypeOK, Present
  <1>2. Stored = {b \in Present \X (1 .. Cap) : b[2] <= w[b[1]]}
    BY DEF Stored, Present
  <1>3. IsFiniteSet(Stored) /\ Cardinality(Stored) = Counts(Present, w)[Present]
    BY <1>2, CountFinite DEF Count, Counts
  <1>4. ASSUME NEW h
        PROVE  Folds(h) <=> Sums(h, Present, w)
    BY DEF Any, Sums
  <1>5. DirSize = sum[Present]
    BY DEF DirSize, MapThenSumSet, MapThenFoldSet, Present
  <1> HIDE DEF w
  <1>6. Sums(Counts(Present, w), Present, w)
    BY <1>1, SumExists
  <1>7. Folds(sum)
    <2> HIDE DEF Folds
    <2>1. Folds(Counts(Present, w))
      BY <1>4, <1>6
    <2> QED
      BY <2>1
  <1>8. sum[Present] = Counts(Present, w)[Present]
    <2>1. Sums(sum, Present, w)
      BY <1>4, <1>7
    <2> HIDE DEF sum
    <2> QED
      BY <1>6, <2>1, SumUnique
  <1> QED
    BY <1>3, <1>5, <1>8

LEMMA Multiply ==
  ASSUME NEW a \in Nat, NEW b \in Nat, NEW c \in Nat, a <= b
  PROVE  a * c <= b * c
  <1>1. PICK d \in Nat : b = a + d
    <2>1. b - a \in Nat /\ b = a + (b - a)
      OBVIOUS
    <2> QED
      BY <2>1
  <1>2. (a + d) * c = a * c + d * c /\ d * c >= 0
    OBVIOUS
  <1> QED
    BY <1>1, <1>2

LEMMA BlocksOfPaths ==
  ASSUME NEW S, IsFiniteSet(S)
  PROVE  /\ IsFiniteSet(S \X (1 .. Cap)) /\ Cardinality(S \X (1 .. Cap)) = Cardinality(S) * Cap
  <1>1. IsFiniteSet(1 .. Cap) /\ Cardinality(1 .. Cap) = Cap
    BY FS_Interval, SizesAssumption
  <1> QED
    BY <1>1, FS_Product

LEMMA AwaitedFinite ==
  ASSUME IsFiniteSet(InFlight)
  PROVE  IsFiniteSet(Awaited) /\ Cardinality(Awaited) <= Cardinality(InFlight)
  <1> DEFINE S == {v \in InFlight : up[v].stage # "checking"}
             f == [u \in S |-> Part(u)]
  <1>1. IsFiniteSet(S) /\ Cardinality(S) <= Cardinality(InFlight)
    BY FS_Subset
  <1>2. f \in Surjection(S, Awaited)
    BY DEF Surjection, Awaited
  <1>3. IsFiniteSet(Awaited) /\ Cardinality(Awaited) <= Cardinality(S)
    <2> HIDE DEF S, f
    <2> QED
      BY <1>1, <1>2, FS_Surjection
  <1>4. Cardinality(S) \in Nat /\ Cardinality(Awaited) \in Nat /\ Cardinality(InFlight) \in Nat
    BY <1>1, <1>3, FS_CardinalityType
  <1> QED
    BY <1>1, <1>3, <1>4

\* The second inductive invariant.
Accounts ==
    /\ IsFiniteSet(Present) /\ IsFiniteSet(InFlight)
    /\ Cardinality(InFlight) <= MaxConcurrent
    /\ \A i \in Drops : file[i] = Empty
    /\ Cardinality(Room) <= Budget - 1 + MaxConcurrent * Cap

LEMMA RoomFinite ==
  ASSUME TypeOK, IsFiniteSet(Present), IsFiniteSet(InFlight)
  PROVE  IsFiniteSet(Room) /\ Cardinality(Room) \in Nat /\ DirSize <= Cardinality(Room)
  <1>1. IsFiniteSet(Stored) /\ DirSize = Cardinality(Stored)
    BY DirSizeCounts
  <1>2. IsFiniteSet(Room)
    BY <1>1, AwaitedFinite, BlocksOfPaths, FS_Union DEF Room
  <1>3. Stored \subseteq Room
    BY DEF Room
  <1> QED
    BY <1>1, <1>2, <1>3, FS_Subset, FS_CardinalityType

\* With room in the budget, what is stored and what is awaited stay in bounds.
LEMMA RoomMade ==
  ASSUME TypeOK, IsFiniteSet(Present), GuardCapacity,
         NEW A, IsFiniteSet(A), Cardinality(A) <= MaxConcurrent
  PROVE  Cardinality(Stored \union (A \X (1 .. Cap))) <= Budget - 1 + MaxConcurrent * Cap
  <1> DEFINE B == A \X (1 .. Cap)
  <1>1. IsFiniteSet(Stored) /\ Cardinality(Stored) < Budget
    BY DirSizeCounts DEF GuardCapacity
  <1>2. IsFiniteSet(B) /\ Cardinality(B) = Cardinality(A) * Cap
    BY BlocksOfPaths
  <1>3. Cardinality(A) \in Nat
    BY FS_CardinalityType
  <1>4. Cardinality(B) <= MaxConcurrent * Cap /\ MaxConcurrent * Cap \in Nat
    BY <1>2, <1>3, Multiply, SizesAssumption, BoundsAssumption
  <1> HIDE DEF B
  <1>5. Cardinality(Stored \union B) = Cardinality(Stored) + Cardinality(B) - Cardinality(Stored \intersect B)
    BY <1>1, <1>2, FS_Union
  <1>6. Cardinality(Stored \intersect B) \in Nat /\ Cardinality(Stored) \in Nat /\ Cardinality(B) \in Nat
    BY <1>1, <1>2, FS_Subset, FS_CardinalityType
  <1> QED
    BY <1>1, <1>4, <1>5, <1>6, SizesAssumption DEF B

\* A step that takes no room keeps the accounts.
LEMMA RoomKept ==
  ASSUME TypeOK, TypeOK', Accounts, IsFiniteSet(Present'), InFlight' \subseteq InFlight,
         \A i \in Drops : file'[i] = Empty,
         Room' \subseteq Room
  PROVE  Accounts'
  <1>1. IsFiniteSet(InFlight') /\ Cardinality(InFlight') <= Cardinality(InFlight)
        /\ Cardinality(InFlight') \in Nat /\ Cardinality(InFlight) \in Nat
    BY FS_Subset, FS_CardinalityType DEF Accounts
  <1>2. IsFiniteSet(Room) /\ Cardinality(Room) \in Nat
    BY RoomFinite DEF Accounts
  <1>3. Cardinality(Room') <= Cardinality(Room) /\ Cardinality(Room') \in Nat
    BY <1>2, FS_Subset, FS_CardinalityType
  <1>4. MaxConcurrent * Cap \in Nat
    BY SizesAssumption, BoundsAssumption
  <1> QED
    BY <1>1, <1>2, <1>3, <1>4, SizesAssumption, BoundsAssumption DEF Accounts

\* A path takes no more than before if it keeps its file as it is, has none
\* or an empty one, or is a part file an upload goes on with.
LEMMA RoomShrinks ==
  ASSUME TypeOK, TypeOK', Awaited' \subseteq Awaited,
         \A p \in Paths : \/ dir'[p] = None
                          \/ file'[dir'[p]] = Empty
                          \/ p \in Awaited
                          \/ dir'[p] = dir[p] /\ file'[dir[p]] = file[dir[p]]
  PROVE  Room' \subseteq Room
  <1>1. ASSUME NEW b \in Stored'
        PROVE  b \in Room
    <2>1. /\ b[1] \in Paths /\ b[2] \in 1 .. Cap /\ b = <<b[1], b[2]>>
          /\ dir'[b[1]] # None /\ b[2] <= Size(dir[b[1]])'
      BY <1>1 DEF Stored
    <2>2. dir'[b[1]] \in Inodes
      BY <2>1 DEF TypeOK
    <2>3. CASE file'[dir'[b[1]]] = Empty
      <3>1. Size(dir[b[1]])' = 0
        <4>1. {j \in 1 .. Cap : file'[dir'[b[1]]][j] # None} \union {0} = {0}
          BY <2>3 DEF Empty
        <4>2. Max({0}) = 0
          BY DEF Max
        <4> QED
          BY <4>1, <4>2 DEF Size
      <3> QED
        BY <2>1, <3>1, SizesAssumption
    <2>4. CASE b[1] \in Awaited
      BY <2>1, <2>4 DEF Room
    <2>5. CASE dir'[b[1]] = dir[b[1]] /\ file'[dir[b[1]]] = file[dir[b[1]]]
      <3>1. Size(dir[b[1]])' = Size(dir[b[1]])
        BY <2>5 DEF Size
      <3> QED
        BY <2>1, <2>5, <3>1 DEF Stored, Room
    <2> QED
      BY <2>1, <2>3, <2>4, <2>5
  <1> QED
    BY <1>1 DEF Room

-----------------------------------------------------------------------------
(* What the steps do to the accounts.                                      *)

LEMMA AddOne ==
  ASSUME NEW S, IsFiniteSet(S), NEW x
  PROVE  /\ IsFiniteSet(S \union {x}) /\ Cardinality(S \union {x}) <= Cardinality(S) + 1
         /\ Cardinality(S \union {x}) \in Nat
  <1>1. /\ IsFiniteSet(S \union {x})
        /\ Cardinality(S \union {x}) = IF x \in S THEN Cardinality(S) ELSE Cardinality(S) + 1
    BY FS_AddElement
  <1>2. Cardinality(S) \in Nat
    BY FS_CardinalityType
  <1> QED
    BY <1>1, <1>2

LEMMA RefusedIsOver ==
  ASSUME TypeOK, NEW u \in Uploads, Refuses(u)
  PROVE  up'[u].stage = "over"
  BY RefusedRequest DEF Refuses, TypeOK

LEMMA BeginsKeepsAccounts ==
  ASSUME OwnNames, IInv, IInv', Accounts, NEW u \in Uploads, Begins(u)
  PROVE  Accounts'
  <1>1. UNCHANGED <<dir, file>> /\ up[u].stage = "new" /\ Cardinality(InFlight) < MaxConcurrent
    BY DEF Begins
  <1>2. IsFiniteSet(Present') /\ \A i \in Drops : file'[i] = Empty
    BY <1>1 DEF Accounts, Present
  <1>3. \A v \in Uploads : v # u => up'[v] = up[v]
    BY DEF Begins, Refuses, IInv, TypeOK
  <1>4. CASE up'[u].stage = "over"
    <2>1. InFlight' \subseteq InFlight /\ \A v \in InFlight' : up'[v] = up[v]
      BY <1>3, <1>4 DEF InFlight
    <2>2. Awaited' \subseteq Awaited
      BY <2>1 DEF Awaited, Part
    <2>3. Room' \subseteq Room
      BY <1>1, <2>2, RoomShrinks DEF IInv
    <2> QED
      BY <1>2, <2>1, <2>3, RoomKept DEF IInv
  <1>5. CASE up'[u].stage # "over"
    <2>1. GuardCapacity
      <3>1. GuardCapacity \/ Refuses(u)
        BY DEF Begins
      <3>2. CASE Refuses(u)
        BY <1>5, <3>2, RefusedIsOver DEF IInv
      <3> QED
        BY <3>1, <3>2
    <2>2. InFlight' \subseteq InFlight \union {u} /\ \A v \in InFlight : up'[v] = up[v]
      BY <1>1, <1>3 DEF InFlight
    <2>3. u \notin InFlight
      BY <1>1 DEF InFlight
    <2>4. /\ IsFiniteSet(InFlight \union {u}) /\ Cardinality(InFlight \union {u}) = Cardinality(InFlight) + 1
          /\ Cardinality(InFlight) \in Nat
      BY <2>3, FS_AddElement, FS_CardinalityType DEF Accounts
    <2>5. IsFiniteSet(InFlight') /\ Cardinality(InFlight') <= MaxConcurrent
      <3>1. IsFiniteSet(InFlight') /\ Cardinality(InFlight') <= Cardinality(InFlight \union {u})
        BY <2>2, <2>4, FS_Subset
      <3>2. Cardinality(InFlight') \in Nat
        BY <3>1, FS_CardinalityType
      <3> QED
        BY <1>1, <2>4, <3>1, <3>2, BoundsAssumption
    <2>6. Awaited' \subseteq Awaited \union {Part(u)'}
      BY <2>2 DEF Awaited, Part
    <2>7. IsFiniteSet(Awaited') /\ Cardinality(Awaited') <= MaxConcurrent
      <3>1. /\ IsFiniteSet(Awaited) /\ Cardinality(Awaited) <= Cardinality(InFlight)
            /\ Cardinality(Awaited) \in Nat
        BY AwaitedFinite, FS_CardinalityType DEF Accounts
      <3>2. /\ IsFiniteSet(Awaited \union {Part(u)'})
            /\ Cardinality(Awaited \union {Part(u)'}) <= Cardinality(Awaited) + 1
            /\ Cardinality(Awaited \union {Part(u)'}) \in Nat
        BY <3>1, AddOne
      <3>3. IsFiniteSet(Awaited') /\ Cardinality(Awaited') <= Cardinality(Awaited \union {Part(u)'})
        BY <2>6, <3>2, FS_Subset
      <3>4. Cardinality(Awaited') \in Nat
        BY <3>3, FS_CardinalityType
      <3> QED
        BY <1>1, <2>4, <3>1, <3>2, <3>3, <3>4, BoundsAssumption
    <2>8. Cardinality(Stored \union (Awaited' \X (1 .. Cap))) <= Budget - 1 + MaxConcurrent * Cap
      BY <2>1, <2>7, RoomMade DEF IInv, Accounts
    <2>9. Room' = Stored \union (Awaited' \X (1 .. Cap))
      BY <1>1 DEF Room, Stored, Size
    <2> QED
      BY <1>2, <2>5, <2>8, <2>9 DEF Accounts
  <1> QED
    BY <1>4, <1>5

LEMMA ReplacesKeepsAccounts ==
  ASSUME OwnNames, IInv, IInv', Accounts, NEW u \in Uploads, Replaces(u)
  PROVE  Accounts'
  <1> USE DEF Stages, Flying
  <1>1. up[u].stage = "replacing" /\ u \in InFlight /\ Part(u) \in Awaited /\ file' = file
    BY DEF Replaces, InFlight, Awaited
  <1>2. Part(u) \in Paths /\ Part(u).parts = 1 /\ up[u].target \in Paths /\ up[u].target.parts = 0
    BY <1>1, Flight
  <1>3. \A v \in Uploads : v # u => up'[v] = up[v]
    BY DEF Replaces, Refuses, IInv, TypeOK
  <1>4. up'[u].stage \in {"checking", "over"}
    <2>1. CASE Refuses(u)
      BY <2>1, RefusedIsOver DEF IInv
    <2>2. CASE up' = [up EXCEPT ![u].stage = "checking"]
      BY <2>2 DEF IInv, TypeOK, Request
    <2> QED
      BY <2>1, <2>2 DEF Replaces
  <1>5. InFlight' \subseteq InFlight /\ \A v \in InFlight' : v # u => v \in InFlight /\ up'[v] = up[v]
    BY <1>1, <1>3 DEF InFlight
  <1>6. Awaited' \subseteq Awaited
    <2> SUFFICES ASSUME NEW v \in InFlight', up'[v].stage # "checking"
                 PROVE  Part(v)' \in Awaited
      BY DEF Awaited
    <2>1. v # u
      BY <1>4 DEF InFlight
    <2>2. v \in InFlight /\ up'[v] = up[v]
      BY <1>5, <2>1
    <2> QED
      BY <2>2 DEF Awaited, Part
  <1>7. \A i \in Drops : file'[i] = Empty
    BY <1>1 DEF Accounts
  <1>8. CASE UNCHANGED dir
    <2>1. Room' \subseteq Room
      BY <1>1, <1>6, <1>8, RoomShrinks DEF IInv
    <2>2. Present' = Present
      BY <1>8 DEF Present
    <2> QED
      BY <1>5, <1>7, <2>1, <2>2, RoomKept DEF IInv, Accounts
  <1>9. CASE dir' = [dir EXCEPT ![up[u].target] = dir[Part(u)], ![Part(u)] = None]
    <2> DEFINE p == Part(u)
               q == up[u].target
               P == {p} \X (1 .. Cap)
               Q == {q} \X (1 .. Cap)
    <2>1. /\ dir'[p] = None
          /\ \A o \in Paths : o # p /\ o # q => dir'[o] = dir[o]
      BY <1>2, <1>9 DEF IInv, TypeOK
    <2>2. p \notin Awaited'
      <3> SUFFICES ASSUME NEW v \in InFlight', up'[v].stage # "checking", Part(v)' = p
                   PROVE  FALSE
        BY DEF Awaited
      <3>1. v # u
        BY <1>4 DEF InFlight
      <3>2. v \in InFlight /\ up'[v].target = up[v].target /\ up[v].stage \in Flying
        BY <1>5, <3>1 DEF InFlight, IInv, TypeOK, Request
      <3>3. Part(v) = Part(u) /\ up[v].target \in Paths /\ up[v].target.parts = 0
        BY <3>2, Flight DEF Part, InFlight
      <3>4. up[v].target = up[u].target
        BY <1>2, <3>3, PartsDiffer DEF Part, OwnNames
      <3> QED
        BY <1>1, <3>1, <3>2, <3>4 DEF IInv, OwnTargets
    <2>3. ASSUME NEW b \in Stored'
          PROVE  b \in (Room \ P) \union Q
      <3>1. /\ b[1] \in Paths /\ b[2] \in 1 .. Cap /\ b = <<b[1], b[2]>>
            /\ dir'[b[1]] # None /\ b[2] <= Size(dir[b[1]])'
        BY <2>3 DEF Stored
      <3>2. CASE b[1] = q
        BY <3>1, <3>2
      <3>3. CASE b[1] # q
        <4>1. b[1] # p /\ dir'[b[1]] = dir[b[1]]
          BY <2>1, <3>1, <3>3
        <4>2. Size(dir[b[1]])' = Size(dir[b[1]])
          BY <1>1, <4>1 DEF Size
        <4> QED
          BY <3>1, <4>1, <4>2 DEF Stored, Room
      <3> QED
        BY <3>2, <3>3
    <2>4. ASSUME NEW b \in Awaited' \X (1 .. Cap)
          PROVE  b \in Room \ P
      BY <1>6, <2>2, <2>4 DEF Room
    <2>5. Room' \subseteq (Room \ P) \union Q /\ P \subseteq Room
      BY <1>1, <2>3, <2>4 DEF Room
    <2>6. IsFiniteSet(Room) /\ Cardinality(Room) \in Nat
      BY RoomFinite DEF IInv, Accounts
    <2>7. /\ IsFiniteSet(P) /\ Cardinality(P) = Cap
          /\ IsFiniteSet(Q) /\ Cardinality(Q) = Cap
      <3>1. IsFiniteSet({p}) /\ Cardinality({p}) = 1 /\ IsFiniteSet({q}) /\ Cardinality({q}) = 1
        BY FS_Singleton
      <3>2. 1 * Cap = Cap
        BY SizesAssumption
      <3> HIDE DEF p, q
      <3> QED
        BY <3>1, <3>2, BlocksOfPaths
    <2> HIDE DEF P, Q
    <2>8. Room \intersect P = P
      BY <2>5
    <2>9. IsFiniteSet(Room \ P) /\ Cardinality(Room \ P) = Cardinality(Room) - Cap
      <3>1. /\ IsFiniteSet(Room \ P)
            /\ Cardinality(Room \ P) = Cardinality(Room) - Cardinality(Room \intersect P)
        BY <2>6, FS_Difference
      <3> QED
        BY <2>7, <2>8, <3>1
    <2>10. /\ IsFiniteSet((Room \ P) \union Q)
           /\ Cardinality((Room \ P) \union Q) = Cardinality(Room \ P) + Cap - Cardinality((Room \ P) \intersect Q)
      BY <2>7, <2>9, FS_Union
    <2>11. Cardinality((Room \ P) \intersect Q) \in Nat
      BY <2>9, FS_Subset, FS_CardinalityType
    <2>12. /\ Cardinality(Room') <= Cardinality((Room \ P) \union Q) /\ Cardinality(Room') \in Nat
           /\ Cardinality((Room \ P) \union Q) \in Nat
      BY <2>5, <2>10, FS_Subset, FS_CardinalityType
    <2>13. Cardinality(Room') <= Cardinality(Room)
      BY <2>6, <2>9, <2>10, <2>11, <2>12, SizesAssumption
    <2>14. IsFiniteSet(Present')
      <3>1. Present' \subseteq Present \union {q}
        BY <2>1 DEF Present
      <3>2. IsFiniteSet(Present \union {q})
        BY FS_AddElement DEF Accounts
      <3> QED
        BY <3>1, <3>2, FS_Subset
    <2>15. /\ IsFiniteSet(InFlight') /\ Cardinality(InFlight') <= Cardinality(InFlight)
           /\ Cardinality(InFlight') \in Nat /\ Cardinality(InFlight) \in Nat
      BY <1>5, FS_Subset, FS_CardinalityType DEF Accounts
    <2>16. MaxConcurrent * Cap \in Nat
      BY SizesAssumption, BoundsAssumption
    <2> QED
      BY <1>7, <2>6, <2>12, <2>13, <2>14, <2>15, <2>16, SizesAssumption, BoundsAssumption DEF Accounts
  <1> QED
    BY <1>8, <1>9 DEF Replaces, Part

\* Every other step of an upload leaves the rest of the folder alone.
LEMMA OthersKeepAccounts ==
  ASSUME OwnNames, IInv, IInv', Accounts,
         NEW u \in Uploads, UploadStep(u), ~Begins(u), ~Replaces(u)
  PROVE  Accounts'
  <1> USE DEF Stages, Flying
  <1>1. /\ up[u].stage \in Flying /\ \A v \in Uploads : v # u => up'[v] = up[v]
    BY DEF UploadStep, Opens, Receives, Raises, StreamEnds, Unlinks, Checks, Refuses, IInv, TypeOK
  <1>2. Part(u) \in Paths /\ Part(u).parts = 1 /\ u \in InFlight
    BY <1>1, Flight
  <1>3. up'[u].stage = "over" \/ up'[u].target = up[u].target
    <2>1. CASE Unlinks(u)
      BY <2>1, RefusedIsOver DEF Unlinks, IInv
    <2> QED
      BY <2>1 DEF UploadStep, Opens, Receives, Raises, StreamEnds, Checks, IInv, TypeOK, Request
  <1>4. up'[u].stage # "checking" /\ up[u].stage = "checking" => up'[u].stage = "over"
    BY DEF UploadStep, Opens, Receives, Raises, StreamEnds, Unlinks, Checks, IInv, TypeOK, Request
  <1>5. InFlight' \subseteq InFlight
    BY <1>1, <1>2 DEF InFlight
  <1>6. Awaited' \subseteq Awaited
    <2> SUFFICES ASSUME NEW v \in InFlight', up'[v].stage # "checking"
                 PROVE  Part(v)' \in Awaited
      BY DEF Awaited
    <2>1. v \in InFlight /\ up[v].stage # "checking" /\ up'[v].target = up[v].target
      BY <1>1, <1>3, <1>4, <1>5 DEF InFlight
    <2> QED
      BY <2>1 DEF Awaited, Part
  <1>7. up[u].stage # "checking" => Part(u) \in Awaited
    BY <1>2 DEF Awaited
  <1>8. /\ \A p \in Paths : p # Part(u) => dir'[p] = dir[p]
        /\ \A p \in Paths : p # Part(u) /\ dir[p] # None => file'[dir[p]] = file[dir[p]]
        /\ \A i \in Drops : file'[i] = Empty
    <2>1. CASE UNCHANGED <<dir, file>>
      BY <2>1 DEF Accounts
    <2>2. CASE Unlinks(u)
      <3>1. file' = file /\ (dir' = dir \/ dir' = [dir EXCEPT ![Part(u)] = None])
        BY <2>2 DEF Unlinks, Part
      <3> QED
        BY <1>2, <3>1 DEF Accounts, IInv, TypeOK
    <2>3. CASE Opens(u)
      <3> DEFINE i == IF dir[Part(u)] = None THEN u ELSE dir[Part(u)]
      <3>1. /\ dir' = [dir EXCEPT ![Part(u)] = i] /\ file' = [file EXCEPT ![i] = Empty]
        BY <2>3 DEF Opens, Part
      <3>2. \A p \in Paths : dir[p] # u
        BY <2>3 DEF Opens, IInv, Placed
      <3>3. \A p \in Paths : p # Part(u) /\ dir[p] # None => dir[p] # i /\ dir[p] \in Inodes
        BY <1>2, <3>2 DEF IInv, TypeOK, Placed
      <3> HIDE DEF i
      <3> QED
        BY <1>2, <3>1, <3>3 DEF IInv, TypeOK, Accounts
    <2>4. CASE Receives(u)
      <3>1. /\ up[u].handle \in Uploads
            /\ \A p \in Paths : dir[p] = up[u].handle => p = Part(u)
        BY <2>4, PartFile DEF Receives
      <3>2. \A i \in Inodes : i # up[u].handle => file'[i] = file[i]
        BY <2>4 DEF Receives, IInv, TypeOK
      <3> QED
        BY <2>4, <3>1, <3>2, DropsAssumption DEF Inodes, Receives, IInv, TypeOK, Accounts
    <2> QED
      BY <2>1, <2>2, <2>3, <2>4 DEF UploadStep, Raises, StreamEnds, Checks
  <1>9. ASSUME NEW p \in Paths
        PROVE  \/ dir'[p] = None
               \/ p \in Awaited
               \/ dir'[p] = dir[p] /\ file'[dir[p]] = file[dir[p]]
    <2>1. CASE p = Part(u) /\ up[u].stage # "checking"
      BY <1>7, <2>1
    <2>2. CASE up[u].stage = "checking"
      BY <2>2 DEF UploadStep, Opens, Receives, Raises, StreamEnds, Unlinks, Checks
    <2>3. CASE p # Part(u)
      <3>1. dir'[p] = dir[p]
        BY <1>8, <2>3
      <3> QED
        BY <1>8, <2>3, <3>1
    <2> QED
      BY <2>1, <2>2, <2>3
  <1>10. Room' \subseteq Room
    BY <1>6, <1>9, RoomShrinks DEF IInv
  <1>11. IsFiniteSet(Present')
    <2>1. Present' \subseteq Present \union {Part(u)}
      BY <1>8 DEF Present
    <2>2. IsFiniteSet(Present \union {Part(u)})
      BY AddOne DEF Accounts
    <2> QED
      BY <2>1, <2>2, FS_Subset
  <1> QED
    BY <1>5, <1>8, <1>10, <1>11, RoomKept DEF IInv

LEMMA StepKeepsAccounts ==
  ASSUME OwnNames, IInv, Accounts, [Next]_vars
  PROVE  Accounts'
  <1>1. IInv'
    BY StepKeepsIt
  <1>2. ASSUME NEW u \in Uploads, UploadStep(u)
        PROVE  Accounts'
    BY <1>1, <1>2, BeginsKeepsAccounts, ReplacesKeepsAccounts, OthersKeepAccounts
  <1>3. ASSUME NEW p \in Paths, Removed(p)
        PROVE  Accounts'
    <2>1. /\ UNCHANGED <<file, up>> /\ \A q \in Paths : dir'[q] = dir[q] \/ dir'[q] = None
      BY <1>3 DEF Removed, IInv, TypeOK
    <2>2. InFlight' = InFlight /\ Awaited' = Awaited
      BY <2>1 DEF InFlight, Awaited, Part
    <2>3. Room' \subseteq Room
      BY <1>1, <2>1, <2>2, RoomShrinks DEF IInv
    <2>4. Present' \subseteq Present
      BY <2>1 DEF Present
    <2>5. IsFiniteSet(Present')
      BY <2>4, FS_Subset DEF Accounts
    <2> QED
      BY <1>1, <2>1, <2>2, <2>3, <2>5, RoomKept DEF IInv, Accounts
  <1>4. ASSUME NEW p \in Paths, NEW i \in Drops, DroppedIn(p, i)
        PROVE  Accounts'
    <2>1. /\ UNCHANGED <<file, up>> /\ \A q \in Paths : dir'[q] = dir[q] \/ (q = p /\ dir'[q] = i)
      BY <1>4 DEF DroppedIn, IInv, TypeOK
    <2>2. InFlight' = InFlight /\ Awaited' = Awaited /\ file'[i] = Empty
      BY <2>1 DEF InFlight, Awaited, Part, Accounts
    <2>3. Room' \subseteq Room
      BY <1>1, <2>1, <2>2, RoomShrinks DEF IInv
    <2>4. Present' \subseteq Present \union {p}
      BY <2>1 DEF Present
    <2>5. IsFiniteSet(Present')
      <3>1. IsFiniteSet(Present \union {p})
        BY AddOne DEF Accounts
      <3> QED
        BY <2>4, <3>1, FS_Subset
    <2> QED
      BY <1>1, <2>1, <2>2, <2>3, <2>5, RoomKept DEF IInv, Accounts
  <1>5. CASE Crash
    <2>1. UNCHANGED <<dir, file>>
      BY <1>5 DEF Crash
    <2>2. \A u \in Uploads : up'[u].stage = IF u \in InFlight THEN "over" ELSE up[u].stage
      BY <1>5, CrashEnds
    <2>3. InFlight' = {}
      BY <2>2 DEF InFlight
    <2>4. Awaited' = {}
      BY <2>3 DEF Awaited
    <2>5. Room' \subseteq Room
      BY <1>1, <2>1, <2>4, RoomShrinks DEF IInv
    <2>6. Present' = Present
      BY <2>1 DEF Present
    <2> QED
      BY <1>1, <2>1, <2>3, <2>5, <2>6, RoomKept DEF IInv, Accounts
  <1>6. CASE UNCHANGED vars
    <2>1. UNCHANGED <<dir, file, up>>
      BY <1>6 DEF vars
    <2>2. InFlight' = InFlight /\ Awaited' = Awaited /\ Present' = Present
      BY <2>1 DEF InFlight, Awaited, Part, Present
    <2>3. Room' \subseteq Room
      BY <1>1, <2>1, <2>2, RoomShrinks DEF IInv
    <2> QED
      BY <1>1, <2>1, <2>2, <2>3, RoomKept DEF IInv, Accounts
  <1> QED
    BY <1>2, <1>3, <1>4, <1>5, <1>6 DEF Next, Done

LEMMA InitAccounts ==
  ASSUME Budget > 0, Init
  PROVE  Accounts
  <1>1. Present = {} /\ InFlight = {} /\ Room = {}
    <2>1. Present = {} /\ InFlight = {}
      BY DEF Init, Present, InFlight, NewRequest
    <2>2. Stored = {} /\ Awaited = {}
      BY <2>1 DEF Stored, Awaited, Present
    <2> QED
      BY <2>1, <2>2 DEF Room
  <1>2. \A i \in Drops : file[i] = Empty
    BY DEF Init, Inodes
  <1>3. MaxConcurrent * Cap \in Nat
    BY SizesAssumption, BoundsAssumption
  <1> QED
    BY <1>1, <1>2, <1>3, FS_EmptySet, SizesAssumption, BoundsAssumption DEF Accounts

(* The folder outgrows its budget by no more than the uploads in flight    *)
(* may add, which is what checking it before an upload and not during one  *)
(* costs.  (With no budget at all nothing may be stored, and the bound is  *)
(* below zero.)                                                            *)
THEOREM OvershootAlwaysBounded ==
  ASSUME OwnNames, Budget > 0
  PROVE  Spec => []OvershootBounded
  <1>1. Init => IInv /\ Accounts
    BY InitHolds, InitAccounts
  <1>2. (IInv /\ Accounts) /\ [Next]_vars => (IInv /\ Accounts)'
    BY StepKeepsIt, StepKeepsAccounts
  <1>3. IInv /\ Accounts => OvershootBounded
    <2> SUFFICES ASSUME IInv, Accounts
                 PROVE  OvershootBounded
      OBVIOUS
    <2>1. Cardinality(Room) \in Nat /\ DirSize <= Cardinality(Room)
      BY RoomFinite DEF IInv, Accounts
    <2>2. DirSize \in Nat
      BY DirSizeCounts, FS_CardinalityType DEF IInv, Accounts
    <2>3. MaxConcurrent * Cap \in Nat
      BY SizesAssumption, BoundsAssumption
    <2> QED
      BY <2>1, <2>2, <2>3, SizesAssumption DEF OvershootBounded, Accounts
  <1> QED
    BY <1>1, <1>2, <1>3, PTL DEF Spec
=============================================================================
