--------------------------- MODULE HandshakeProofs ---------------------------
(***************************************************************************)
(* What holds of the propose/confirm handshake for every set of plans,     *)
(* chats and turns, with a database and without one: a yes runs what the   *)
(* last answer of its chat showed, and finds it.  Both rest on one         *)
(* invariant, which says of each turn in flight where its plan is, and of  *)
(* each chat at rest that its slot and its last answer agree.  The last    *)
(* part says what holds however turns overlap.                             *)
(***************************************************************************)
EXTENDS Handshake, TLAPS

\* The user sends one message at a time in a chat, and a supervisor whose client
\* has left does not go on for a chat that is written in again.
OneAtATime == ~Overlaps /\ "abandon" \notin Cuts

\* The copies a yes is answered from: the rows, or the entries where no database is.
Slots == IF durable THEN db ELSE mem

\* What is in the slot of a chat, s, is what its last answer, r, showed, unless
\* that answer was cut; what r showed is there, unless it is one of the lost, L.
Shown(s, r, L) ==
    /\ s # None => r \in {s.plan, Cut}
    /\ r \in Plans \ L => s # None /\ s.plan = r

\* The slot, or a row on its way, is what the turn x proposes: a plan or nothing.
PlanOf(x, s) == IF x.plan = None THEN s = None ELSE s # None /\ s.plan = x.plan

RoutingFine(x, o, s, r, L) ==
    /\ x.plan = None /\ o = Db!NoOp
    /\ IF x.ran THEN s = None ELSE Shown(s, r, L)

\* The plan is in the slot, or on its way to the turn.
ApprovingFine(x, o, s, r, D, L) ==
    /\ x.plan = None /\ ~x.ran /\ o.kind = "take" /\ o.key = x.key
    /\ \/ o.stage = (IF D THEN "sent" ELSE "fallback") /\ o.row = None /\ Shown(s, r, L)
       \/ D /\ o.stage = "applied" /\ s = None /\ Shown(o.row, r, L)

StoringFine(x, o, s, D) ==
    \/ o = Db!NoOp /\ PlanOf(x, s)
    \/ /\ D /\ o.kind = (IF x.plan = None THEN "clear" ELSE "save") /\ o.key = x.key
       /\ PlanOf(x, o.row)
       /\ \/ o.stage = "sent"
          \/ o.stage = "applied" /\ PlanOf(x, s)

\* Where a turn x and its operation o stand against the slot and the last answer
\* of the chat; D says whether there is a database.
Fine(x, o, s, r, D, L) ==
    /\ x \in Turn /\ x.key \in Keys /\ ~x.gone
    /\ \/ x.stage = "routing" /\ RoutingFine(x, o, s, r, L)
       \/ x.stage = "approving" /\ ApprovingFine(x, o, s, r, D, L)
       \/ x.stage = "storing" /\ StoringFine(x, o, s, D)
       \/ x.stage = "replying" /\ o = Db!NoOp /\ PlanOf(x, s)

TurnFine(c) ==
    \/ turn[c] = Idle /\ op[c] = Db!NoOp
    \/ Fine(turn[c], op[c], Slots[turn[c].key], reply[turn[c].key], durable, lost)

OneEach == \A c, d \in Clients : turn[c].key = turn[d].key /\ turn[c].key # None => c = d

\* A chat in which no turn is in flight.
Quiet(k) == \A c \in Clients : turn[c].key # k

ChatsFine ==
    /\ \A c \in Clients : TurnFine(c)
    /\ OneEach
    /\ \A k \in Keys : Quiet(k) => Shown(Slots[k], reply[k], lost)

\* A copy of a plan carries the chat and the deadline it was proposed with, in P.
Copy(e, k, P) ==
    \/ e = None
    \/ e \in Db!Entry /\ k \in Keys /\ P[e.plan] = [key |-> k, exp |-> e.exp]

CopiesAgree ==
    /\ \A k \in Keys : Copy(mem[k], k, proposed) /\ Copy(db[k], k, proposed)
    /\ \A c \in Clients : Copy(op[c].row, op[c].key, proposed)

\* What was shown, or is about to be, was proposed.
Known ==
    /\ \A k \in Keys : reply[k] \in Plans => proposed[reply[k]] # None
    /\ \A c \in Clients : turn[c].plan \in Plans \union {None}
    /\ \A c \in Clients : turn[c].plan # None => proposed[turn[c].plan] # None

IsOperation(o) == o = [kind |-> o.kind, stage |-> o.stage, key |-> o.key, row |-> o.row,
                       before |-> o.before, seen |-> o.seen]

Typed ==
    /\ mem = [k \in Keys |-> mem[k]] /\ db = [k \in Keys |-> db[k]]
    /\ reply = [k \in Keys |-> reply[k]]
    /\ op = [c \in Clients |-> op[c]] /\ turn = [c \in Clients |-> turn[c]]
    /\ \A c \in Clients : IsOperation(op[c])
    /\ now \in Nat /\ durable \in BOOLEAN
    /\ proposed \in [Plans -> Db!Proposal \union {None}]
    /\ releases \in [Plans -> Nat]

HandInv == Typed /\ CopiesAgree /\ Known /\ ChatsFine

-----------------------------------------------------------------------------
(* A step that moves one turn of one chat, with its operation, the slot    *)
(* and the last answer of that chat.                                       *)

LEMMA IdleIs ==
  /\ Idle.key = None /\ Idle.plan = None /\ Idle.stage = "idle"
  /\ Db!NoOp.row = None /\ Db!NoOp.kind = None /\ Db!NoOp.key = None /\ Db!NoOp.stage = "idle"
  /\ IsOperation(Db!NoOp)
  BY DEF Idle, Db!NoOp, IsOperation

\* A turn with a chat is in flight, and the other way round.
LEMMA InFlightHasKey ==
  ASSUME HandInv, NEW c \in Clients
  PROVE  /\ turn[c].key \in Keys \union {None}
         /\ turn[c].key = None => turn[c] = Idle /\ op[c] = Db!NoOp
         /\ turn[c].key # None =>
              Fine(turn[c], op[c], Slots[turn[c].key], reply[turn[c].key], durable, lost)
  BY IdleIs, StoreAssumption DEF HandInv, ChatsFine, TurnFine, Fine

LEMMA OneTurn ==
  ASSUME HandInv, NEW c \in Clients, NEW k \in Keys, NEW x, NEW o, NEW s, NEW r,
         turn[c].key = k \/ (turn[c].key = None /\ Quiet(k)),
         turn' = [turn EXCEPT ![c] = x], op' = [op EXCEPT ![c] = o],
         Slots' = [Slots EXCEPT ![k] = s], reply' = [reply EXCEPT ![k] = r],
         durable' = durable, lost' = lost,
         \/ x = Idle /\ o = Db!NoOp /\ Shown(s, r, lost)
         \/ x.key = k /\ Fine(x, o, s, r, durable, lost)
  PROVE  ChatsFine'
  <1>1. /\ turn'[c] = x /\ op'[c] = o /\ Slots'[k] = s /\ reply'[k] = r
        /\ \A d \in Clients \ {c} : turn'[d] = turn[d] /\ op'[d] = op[d]
        /\ \A j \in Keys \ {k} : Slots'[j] = Slots[j] /\ reply'[j] = reply[j]
    BY DEF HandInv, Typed, Slots
  <1>2. \A d \in Clients \ {c} : turn[d].key # k
    BY StoreAssumption DEF HandInv, ChatsFine, OneEach, Quiet
  <1>3. x.key = k \/ x.key = None
    BY IdleIs
  <1>4. ASSUME NEW d \in Clients
        PROVE  TurnFine(d)'
    <2>1. CASE d = c
      <3>1. CASE x = Idle /\ o = Db!NoOp
        BY <1>1, <2>1, <3>1 DEF TurnFine
      <3>2. CASE x.key = k /\ Fine(x, o, s, r, durable, lost)
        BY <1>1, <2>1, <3>2 DEF TurnFine
      <3> QED
        BY <3>1, <3>2
    <2>2. CASE d # c /\ turn[d].key = None
      BY <1>1, <2>2, InFlightHasKey DEF TurnFine
    <2>3. CASE d # c /\ turn[d].key # None
      <3>1. PICK j \in Keys : j = turn[d].key
        BY <2>3, InFlightHasKey
      <3>2. j # k
        BY <1>2, <2>3, <3>1
      <3>3. Fine(turn[d], op[d], Slots[j], reply[j], durable, lost)
        BY <2>3, <3>1, InFlightHasKey
      <3>4. turn'[d] = turn[d] /\ op'[d] = op[d] /\ Slots'[j] = Slots[j] /\ reply'[j] = reply[j]
        BY <1>1, <2>3, <3>2
      <3>5. Fine(turn'[d], op'[d], Slots'[j], reply'[j], durable', lost')
        BY <3>3, <3>4
      <3>6. turn'[d].key = j
        BY <3>1, <3>4
      <3> QED
        BY <3>5, <3>6 DEF TurnFine
    <2> QED
      BY <2>1, <2>2, <2>3
  <1>5. OneEach'
    <2> SUFFICES ASSUME NEW d \in Clients, NEW e \in Clients,
                        turn'[d].key = turn'[e].key, turn'[d].key # None
                 PROVE  d = e
      BY DEF OneEach
    <2>1. CASE d = c \/ e = c
      BY <1>1, <1>2, <1>3, <2>1
    <2>2. CASE d # c /\ e # c
      BY <1>1, <2>2 DEF HandInv, ChatsFine, OneEach
    <2> QED
      BY <2>1, <2>2
  <1>6. ASSUME NEW j \in Keys, \A d \in Clients : turn'[d].key # j
        PROVE  Shown(Slots'[j], reply'[j], lost')
    <2>1. CASE j = k
      BY <1>1, <1>6, <2>1
    <2>2. CASE j # k
      <3>1. Quiet(j)
        <4> SUFFICES ASSUME NEW d \in Clients PROVE turn[d].key # j
          BY DEF Quiet
        <4>1. CASE d = c
          BY <2>2, <4>1, StoreAssumption
        <4>2. CASE d # c
          BY <1>1, <1>6, <4>2
        <4> QED
          BY <4>1, <4>2
      <3> QED
        BY <1>1, <2>2, <3>1 DEF HandInv, ChatsFine
    <2> QED
      BY <2>1, <2>2
  <1> QED
    BY <1>4, <1>5, <1>6 DEF ChatsFine, Quiet

-----------------------------------------------------------------------------
(* Copies are only moved, and a plan is proposed once.                     *)
Grows ==
    \/ proposed' = proposed
    \/ \E p \in Plans, v \in Db!Proposal :
          proposed[p] = None /\ proposed' = [proposed EXCEPT ![p] = v]

LEMMA CopyStays ==
  ASSUME Typed, Grows, NEW e, NEW k, Copy(e, k, proposed)
  PROVE  Copy(e, k, proposed')
  <1>1. CASE e = None
    BY <1>1 DEF Copy
  <1>2. CASE e # None
    <2>1. e.plan \in Plans /\ proposed[e.plan] # None
      BY <1>2, StoreAssumption DEF Copy, Db!Entry, Db!Proposal
    <2>2. proposed'[e.plan] = proposed[e.plan]
      BY <2>1 DEF Grows, Typed
    <2> QED
      BY <1>2, <2>2 DEF Copy
  <1> QED
    BY <1>1, <1>2

LEMMA KnownStays ==
  ASSUME Typed, Grows, NEW p \in Plans, proposed[p] # None
  PROVE  proposed'[p] # None
  BY StoreAssumption DEF Typed, Grows

\* A turn c that is in flight in chat k, or about to be.
At(c, k) == turn[c].key = k \/ (turn[c].key = None /\ Quiet(k))

(* The store, the turn and the answer of one chat change: the entry m, the *)
(* row d, the operation o, the turn x and the answer r are the new ones.   *)
Steps(c, k, m, d, o, x, r) ==
    /\ At(c, k)
    /\ mem' = [mem EXCEPT ![k] = m] /\ db' = [db EXCEPT ![k] = d]
    /\ op' = [op EXCEPT ![c] = o] /\ turn' = [turn EXCEPT ![c] = x]
    /\ reply' = [reply EXCEPT ![k] = r]
    /\ IsOperation(o)
    /\ UNCHANGED <<durable, lost, now>>
    /\ Copy(m, k, proposed') /\ Copy(d, k, proposed') /\ Copy(o.row, o.key, proposed')
    /\ x.plan \in Plans \union {None}
    /\ x.plan # None => proposed'[x.plan] # None
    /\ r \in Plans => proposed'[r] # None
    /\ \/ x = Idle /\ o = Db!NoOp /\ Shown(IF durable THEN d ELSE m, r, lost)
       \/ x.key = k /\ Fine(x, o, IF durable THEN d ELSE m, r, durable, lost)

LEMMA OneStep ==
  ASSUME HandInv, Grows, releases' \in [Plans -> Nat], NEW c \in Clients, NEW k \in Keys,
         NEW m, NEW d, NEW o, NEW x, NEW r, Steps(c, k, m, d, o, x, r)
  PROVE  HandInv'
  <1>1. proposed' \in [Plans -> Db!Proposal \union {None}]
    BY DEF HandInv, Typed, Grows
  <1>2. Typed'
    <2>1. \A e \in Clients : IsOperation(op'[e])
      BY DEF Steps, HandInv, Typed
    <2> QED
      BY <1>1, <2>1 DEF Steps, HandInv, Typed, IsOperation
  <1>3. CopiesAgree'
    <2>1. ASSUME NEW j \in Keys
          PROVE  Copy(mem'[j], j, proposed') /\ Copy(db'[j], j, proposed')
      <3>1. CASE j = k
        BY <3>1 DEF Steps, HandInv, Typed
      <3>2. CASE j # k
        <4>1. PICK a, b : a = mem[j] /\ b = db[j]
          OBVIOUS
        <4>2. mem'[j] = a /\ db'[j] = b
          BY <3>2, <4>1 DEF Steps, HandInv, Typed
        <4>3. Copy(a, j, proposed) /\ Copy(b, j, proposed)
          BY <4>1 DEF HandInv, CopiesAgree
        <4>4. Copy(a, j, proposed') /\ Copy(b, j, proposed')
          BY <4>3, CopyStays DEF HandInv
        <4> QED
          BY <4>2, <4>4
      <3> QED
        BY <3>1, <3>2
    <2>2. ASSUME NEW e \in Clients
          PROVE  Copy(op'[e].row, op'[e].key, proposed')
      <3>1. CASE e = c
        BY <3>1 DEF Steps, HandInv, Typed
      <3>2. CASE e # c
        <4>1. PICK a, b : a = op[e].row /\ b = op[e].key
          OBVIOUS
        <4>2. op'[e].row = a /\ op'[e].key = b
          BY <3>2, <4>1 DEF Steps, HandInv, Typed
        <4>3. Copy(a, b, proposed)
          BY <4>1 DEF HandInv, CopiesAgree
        <4>4. Copy(a, b, proposed')
          BY <4>3, CopyStays DEF HandInv
        <4> QED
          BY <4>2, <4>4
      <3> QED
        BY <3>1, <3>2
    <2> QED
      BY <2>1, <2>2 DEF CopiesAgree
  <1>4. Known'
    <2>1. \A j \in Keys : reply'[j] \in Plans => proposed'[reply'[j]] # None
      BY KnownStays DEF Steps, HandInv, Typed, Known
    <2>2. \A e \in Clients : /\ turn'[e].plan \in Plans \union {None}
                             /\ turn'[e].plan # None => proposed'[turn'[e].plan] # None
      BY KnownStays DEF Steps, HandInv, Typed, Known
    <2> QED
      BY <2>1, <2>2 DEF Known
  <1>5. ChatsFine'
    <2> DEFINE s == IF durable THEN d ELSE m
    <2>1. PICK y : y = s
      OBVIOUS
    <2>2. Slots' = [Slots EXCEPT ![k] = y]
      BY <2>1 DEF Steps, Slots, HandInv, Typed
    <2> HIDE DEF s
    <2> QED
      BY <2>1, <2>2, OneTurn DEF Steps, At, s
  <1> QED
    BY <1>2, <1>3, <1>4, <1>5 DEF HandInv

-----------------------------------------------------------------------------
(* One step of each kind keeps the invariant.                              *)

LEMMA AsItWas ==
  ASSUME HandInv, NEW c \in Clients, NEW k \in Keys
  PROVE  /\ mem = [mem EXCEPT ![k] = mem[k]] /\ db = [db EXCEPT ![k] = db[k]]
         /\ reply = [reply EXCEPT ![k] = reply[k]] /\ op = [op EXCEPT ![c] = op[c]]
         /\ Copy(mem[k], k, proposed) /\ Copy(db[k], k, proposed)
         /\ Copy(op[c].row, op[c].key, proposed) /\ Copy(None, k, proposed)
         /\ reply[k] \in Plans => proposed[reply[k]] # None
         /\ turn[c].plan \in Plans \union {None}
         /\ turn[c].plan # None => proposed[turn[c].plan] # None
         /\ Slots[k] = IF durable THEN db[k] ELSE mem[k]
  BY DEF HandInv, Typed, CopiesAgree, Known, Copy, Slots

\* A turn with an operation or a stage is in flight.
LEMMA InFlightFine ==
  ASSUME HandInv, NEW c \in Clients, op[c] # Db!NoOp \/ turn[c].stage # "idle"
  PROVE  /\ turn[c].key \in Keys /\ turn[c] \in Turn /\ ~turn[c].gone
         /\ Fine(turn[c], op[c], Slots[turn[c].key], reply[turn[c].key], durable, lost)
  BY IdleIs, InFlightHasKey DEF Fine

LEMMA MovesIs ==
  ASSUME HandInv, NEW c \in Clients, turn[c].stage # "idle", NEW stage \in TurnStages, Moves(c, stage)
  PROVE  \E x \in Turn : /\ turn' = [turn EXCEPT ![c] = x]
                         /\ x.stage = stage /\ x.key = turn[c].key /\ ~x.gone
                         /\ x.plan = turn[c].plan /\ x.ran = turn[c].ran
  <1> DEFINE x == [turn[c] EXCEPT !.stage = stage]
  <1>1. turn[c] \in Turn /\ ~turn[c].gone
    BY InFlightFine
  <1>2. /\ x \in Turn /\ x.stage = stage /\ x.key = turn[c].key /\ ~x.gone
        /\ x.plan = turn[c].plan /\ x.ran = turn[c].ran
    BY <1>1 DEF Turn
  <1>3. turn' = [turn EXCEPT ![c] = x]
    BY <1>1 DEF Moves, HandInv, Typed
  <1> HIDE DEF x
  <1> QED
    BY <1>2, <1>3

LEMMA RoutedAgainIs ==
  ASSUME HandInv, NEW c \in Clients, turn[c].stage # "idle", RoutedAgain(c)
  PROVE  \E x \in Turn : /\ turn' = [turn EXCEPT ![c] = x]
                         /\ x.stage = "routing" /\ x.key = turn[c].key /\ ~x.gone
                         /\ x.plan = turn[c].plan /\ x.ran
  <1> DEFINE x == [turn[c] EXCEPT !.stage = "routing", !.ran = TRUE]
  <1>1. turn[c] \in Turn /\ ~turn[c].gone
    BY InFlightFine
  <1>2. /\ x \in Turn /\ x.stage = "routing" /\ x.key = turn[c].key /\ ~x.gone
        /\ x.plan = turn[c].plan /\ x.ran
    BY <1>1 DEF Turn, TurnStages
  <1>3. turn' = [turn EXCEPT ![c] = x]
    BY DEF RoutedAgain, HandInv, Typed
  <1> HIDE DEF x
  <1> QED
    BY <1>2, <1>3

LEMMA MessageKeeps ==
  ASSUME HandInv, OneAtATime, NEW c \in Clients, NEW k \in Keys, NEW yes \in BOOLEAN, Message(c, k, yes)
  PROVE  HandInv'
  <1> DEFINE x == [Idle EXCEPT !.stage = "routing", !.key = k, !.yes = yes]
             m == mem[k]  d == db[k]  r == reply[k]
  <1>1. /\ x \in Turn /\ x.stage = "routing" /\ x.key = k /\ ~x.gone /\ x.plan = None /\ ~x.ran
    BY DEF Idle, Turn, TurnStages
  <1>2. /\ turn' = [turn EXCEPT ![c] = x] /\ op[c] = Db!NoOp /\ turn[c] = Idle
        /\ UNCHANGED <<mem, db, now, op, proposed, releases, durable, reply, lost>>
    BY DEF Message, store
  <1>3. Quiet(k)
    <2> SUFFICES ASSUME NEW e \in Clients, turn[e].key = k PROVE FALSE
      BY DEF Quiet
    <2>1. turn[e] # Idle
      BY IdleIs, StoreAssumption
    <2>2. turn[e].gone
      BY <2>1 DEF Message, InFlight, OneAtATime
    <2> QED
      BY <2>2, StoreAssumption, InFlightHasKey DEF Fine
  <1>4. At(c, k) /\ Shown(Slots[k], r, lost)
    BY <1>2, <1>3, IdleIs DEF At, HandInv, ChatsFine
  <1>5. /\ mem' = [mem EXCEPT ![k] = m] /\ db' = [db EXCEPT ![k] = d]
        /\ reply' = [reply EXCEPT ![k] = r] /\ op' = [op EXCEPT ![c] = Db!NoOp]
        /\ Copy(m, k, proposed') /\ Copy(d, k, proposed') /\ Copy(Db!NoOp.row, Db!NoOp.key, proposed')
        /\ r \in Plans => proposed'[r] # None
    BY <1>2, AsItWas, IdleIs DEF Copy
  <1>6. Fine(x, Db!NoOp, IF durable THEN d ELSE m, r, durable, lost)
    <2>1. Slots[k] = IF durable THEN d ELSE m
      BY AsItWas
    <2> HIDE DEF x, m, d, r
    <2> QED
      BY <1>1, <1>4, <2>1 DEF Fine, RoutingFine
  <1>7. Grows /\ releases' \in [Plans -> Nat]
    BY <1>2 DEF Grows, HandInv, Typed
  <1> HIDE DEF x, m, d, r
  <1>8. Steps(c, k, m, d, Db!NoOp, x, r)
    BY <1>1, <1>2, <1>4, <1>5, <1>6, IdleIs DEF Steps
  <1> QED
    BY <1>7, <1>8, OneStep

\* An operation of the store is under way.
Opens(c, kind, stage, k, row) ==
    \E o : /\ op' = [op EXCEPT ![c] = o]
           /\ o.kind = kind /\ o.stage = stage /\ o.key = k /\ o.row = row
           /\ IsOperation(o)

LEMMA StartsOpens ==
  ASSUME NEW c, NEW kind, NEW stage, NEW k, NEW row,
         Db!Starts(c, kind, stage, k, row) \/ Mem!Starts(c, kind, stage, k, row)
  PROVE  Opens(c, kind, stage, k, row)
  <1>1. ASSUME NEW before, NEW seen,
               op' = [op EXCEPT ![c] = [kind |-> kind, stage |-> stage, key |-> k, row |-> row,
                                        before |-> before, seen |-> seen]]
        PROVE  Opens(c, kind, stage, k, row)
    <2> DEFINE o == [kind |-> kind, stage |-> stage, key |-> k, row |-> row,
                     before |-> before, seen |-> seen]
    <2>1. /\ op' = [op EXCEPT ![c] = o] /\ o.kind = kind /\ o.stage = stage /\ o.key = k
          /\ o.row = row /\ IsOperation(o)
      BY <1>1 DEF IsOperation
    <2> HIDE DEF o
    <2> QED
      BY <2>1 DEF Opens
  <1> QED
    BY <1>1 DEF Db!Starts, Mem!Starts

LEMMA TakesKeeps ==
  ASSUME HandInv, NEW c \in Clients, Takes(c)
  PROVE  HandInv'
  <1>1. turn[c].stage = "routing" /\ ~turn[c].ran
    BY DEF Takes, Confirms
  <1>2. PICK k \in Keys : k = turn[c].key
    BY <1>1, InFlightFine
  <1> DEFINE m == mem[k]  d == db[k]  r == reply[k]
  <1>3. /\ turn[c].plan = None /\ Shown(Slots[k], r, lost)
    BY <1>1, <1>2, InFlightFine DEF Fine, RoutingFine
  <1>4. PICK x \in Turn : /\ turn' = [turn EXCEPT ![c] = x]
                          /\ x.stage = "approving" /\ x.key = k /\ ~x.gone /\ x.plan = None /\ ~x.ran
    BY <1>1, <1>2, <1>3, MovesIs DEF Takes, TurnStages
  <1>5. UNCHANGED <<mem, db, now, proposed, releases, durable, reply, lost>>
    BY DEF Takes, Db!TakeBegin, Mem!TakeBegin, Db!history, Mem!history
  <1>6. Opens(c, "take", IF durable THEN "sent" ELSE "fallback", k, None)
    BY <1>2, StartsOpens DEF Takes, Db!TakeBegin, Mem!TakeBegin
  <1>7. PICK o : /\ op' = [op EXCEPT ![c] = o] /\ o.kind = "take" /\ o.key = k /\ o.row = None
                 /\ IsOperation(o) /\ o.stage = IF durable THEN "sent" ELSE "fallback"
    BY <1>6 DEF Opens
  <1>8. /\ mem' = [mem EXCEPT ![k] = m] /\ db' = [db EXCEPT ![k] = d]
        /\ reply' = [reply EXCEPT ![k] = r]
        /\ Copy(m, k, proposed') /\ Copy(d, k, proposed') /\ Copy(o.row, o.key, proposed')
        /\ r \in Plans => proposed'[r] # None
    BY <1>5, <1>7, AsItWas
  <1>9. Slots[k] = IF durable THEN d ELSE m
    BY AsItWas
  <1> HIDE DEF m, d, r
  <1>10. Fine(x, o, IF durable THEN d ELSE m, r, durable, lost)
    BY <1>3, <1>4, <1>7, <1>9 DEF Fine, ApprovingFine
  <1>11. Steps(c, k, m, d, o, x, r)
    BY <1>2, <1>4, <1>5, <1>7, <1>8, <1>10 DEF Steps, At
  <1>12. Grows /\ releases' \in [Plans -> Nat]
    BY <1>5 DEF Grows, HandInv, Typed
  <1> QED
    BY <1>11, <1>12, OneStep

\* A turn ends, and its chat is at rest.
LEMMA EndsKeeps ==
  ASSUME HandInv, NEW c \in Clients, NEW k \in Keys, NEW r, turn[c].key = k, op[c] = Db!NoOp,
         Ends(c, r), Shown(Slots[k], r, lost), r \in Plans => proposed[r] # None
  PROVE  HandInv'
  <1> DEFINE m == mem[k]  d == db[k]
  <1>1. /\ turn' = [turn EXCEPT ![c] = Idle] /\ reply' = [reply EXCEPT ![k] = r]
        /\ UNCHANGED <<mem, db, now, op, proposed, releases, durable, lost>>
    BY DEF Ends, store
  <1>2. /\ mem' = [mem EXCEPT ![k] = m] /\ db' = [db EXCEPT ![k] = d]
        /\ op' = [op EXCEPT ![c] = Db!NoOp]
        /\ Copy(m, k, proposed') /\ Copy(d, k, proposed') /\ Copy(Db!NoOp.row, Db!NoOp.key, proposed')
    BY <1>1, AsItWas, IdleIs DEF Copy
  <1>3. Slots[k] = IF durable THEN d ELSE m
    BY AsItWas
  <1> HIDE DEF m, d
  <1>4. Steps(c, k, m, d, Db!NoOp, Idle, r)
    BY <1>1, <1>2, <1>3, IdleIs DEF Steps, At
  <1>5. Grows /\ releases' \in [Plans -> Nat]
    BY <1>1 DEF Grows, HandInv, Typed
  <1> QED
    BY <1>4, <1>5, OneStep

LEMMA CutShows ==
  ASSUME NEW s, NEW L
  PROVE  Shown(s, Cut, L) /\ Cut \notin Plans
  BY RepliesAssumption DEF Shown

LEMMA RepliesKeeps ==
  ASSUME HandInv, NEW c \in Clients, Replies(c)
  PROVE  HandInv'
  <1> DEFINE r == IF turn[c].plan = None THEN Other ELSE turn[c].plan
  <1>1. turn[c].stage = "replying" /\ Ends(c, r)
    BY DEF Replies
  <1>2. PICK k \in Keys : k = turn[c].key
    BY <1>1, InFlightFine
  <1>3. op[c] = Db!NoOp /\ PlanOf(turn[c], Slots[k])
    BY <1>1, <1>2, InFlightFine DEF Fine
  <1>4. r \in Plans => proposed[r] # None
    BY AsItWas, RepliesAssumption, <1>2
  <1>5. Shown(Slots[k], r, lost)
    BY <1>3, RepliesAssumption DEF Shown, PlanOf
  <1> HIDE DEF r
  <1> QED
    BY <1>1, <1>2, <1>3, <1>4, <1>5, EndsKeeps

LEMMA CutsKeep ==
  ASSUME HandInv, OneAtATime, NEW c \in Clients, Breaks(c) \/ Unrouted(c)
  PROVE  HandInv'
  <1>1. turn[c].stage \in {"routing", "replying"} /\ Ends(c, Cut)
    BY DEF Breaks, Unrouted, OneAtATime
  <1>2. PICK k \in Keys : k = turn[c].key
    BY <1>1, InFlightFine
  <1>3. op[c] = Db!NoOp
    BY <1>1, InFlightFine DEF Fine, RoutingFine
  <1> QED
    BY <1>1, <1>2, <1>3, CutShows, EndsKeeps

\* Only the turn changes.
LEMMA TurnMoves ==
  ASSUME HandInv, NEW c \in Clients, NEW k \in Keys, NEW x, k = turn[c].key,
         turn' = [turn EXCEPT ![c] = x], x.key = k, x.plan = turn[c].plan,
         Fine(x, op[c], Slots[k], reply[k], durable, lost),
         UNCHANGED <<store, durable, reply, lost>>
  PROVE  HandInv'
  <1> DEFINE m == mem[k]  d == db[k]  r == reply[k]  o == op[c]
  <1>1. /\ UNCHANGED <<mem, db, now, op, proposed, releases, durable, reply, lost>>
    BY DEF store
  <1>2. /\ mem' = [mem EXCEPT ![k] = m] /\ db' = [db EXCEPT ![k] = d]
        /\ reply' = [reply EXCEPT ![k] = r] /\ op' = [op EXCEPT ![c] = o]
        /\ Copy(m, k, proposed') /\ Copy(d, k, proposed') /\ Copy(o.row, o.key, proposed')
        /\ r \in Plans => proposed'[r] # None
        /\ x.plan \in Plans \union {None} /\ (x.plan # None => proposed'[x.plan] # None)
    BY <1>1, AsItWas
  <1>3. Slots[k] = IF durable THEN d ELSE m
    BY AsItWas
  <1>4. IsOperation(o)
    BY DEF HandInv, Typed
  <1> HIDE DEF m, d, r, o
  <1>5. Fine(x, o, IF durable THEN d ELSE m, r, durable, lost)
    BY <1>3 DEF o, r
  <1>6. Steps(c, k, m, d, o, x, r)
    BY <1>1, <1>2, <1>4, <1>5 DEF Steps, At
  <1>7. Grows /\ releases' \in [Plans -> Nat]
    BY <1>1 DEF Grows, HandInv, Typed
  <1> QED
    BY <1>6, <1>7, OneStep

LEMMA StoredKeeps ==
  ASSUME HandInv, NEW c \in Clients, Stored(c)
  PROVE  HandInv'
  <1>1. turn[c].stage = "storing" /\ op[c] = Db!NoOp /\ UNCHANGED <<store, durable, reply, lost>>
    BY DEF Stored
  <1>2. PICK k \in Keys : k = turn[c].key
    BY <1>1, InFlightFine
  <1>3. PlanOf(turn[c], Slots[k])
    BY <1>1, <1>2, InFlightFine, IdleIs, StoreAssumption DEF Fine, StoringFine, Db!Kinds
  <1>4. CASE Moves(c, "replying")
    <2>1. PICK x \in Turn : /\ turn' = [turn EXCEPT ![c] = x]
                            /\ x.stage = "replying" /\ x.key = k /\ ~x.gone /\ x.plan = turn[c].plan
      BY <1>1, <1>2, <1>4, MovesIs DEF TurnStages
    <2>2. PlanOf(x, Slots[k])
      BY <1>3, <2>1 DEF PlanOf
    <2>3. Fine(x, op[c], Slots[k], reply[k], durable, lost)
      BY <1>1, <2>1, <2>2 DEF Fine
    <2> QED
      BY <1>1, <1>2, <2>1, <2>3, TurnMoves
  <1>5. CASE turn[c].plan = None /\ RoutedAgain(c)
    <2>1. PICK x \in Turn : /\ turn' = [turn EXCEPT ![c] = x]
                            /\ x.stage = "routing" /\ x.key = k /\ ~x.gone /\ x.plan = turn[c].plan
                            /\ x.ran
      BY <1>1, <1>2, <1>5, RoutedAgainIs
    <2>2. Slots[k] = None
      BY <1>3, <1>5 DEF PlanOf
    <2>3. Fine(x, op[c], Slots[k], reply[k], durable, lost)
      BY <1>1, <1>5, <2>1, <2>2 DEF Fine, RoutingFine
    <2> QED
      BY <1>1, <1>2, <2>1, <2>3, TurnMoves
  <1> QED
    BY <1>4, <1>5 DEF Stored

\* A routing step that stores: the turn is storing next, its plan is the row e or none.
LEMMA StoresKeeps ==
  ASSUME HandInv, Grows, NEW c \in Clients, NEW k \in Keys, k = turn[c].key, op[c] = Db!NoOp,
         NEW x \in Turn, turn' = [turn EXCEPT ![c] = x], x.stage = "storing", x.key = k, ~x.gone,
         NEW e, PlanOf(x, e), mem' = [mem EXCEPT ![k] = e], Copy(e, k, proposed'),
         x.plan \in Plans \union {None}, x.plan # None => proposed'[x.plan] # None,
         \/ ~durable /\ UNCHANGED op
         \/ durable /\ Opens(c, IF x.plan = None THEN "clear" ELSE "save", "sent", k, e),
         UNCHANGED <<db, now, releases, durable, reply, lost>>
  PROVE  HandInv'
  <1> DEFINE d == db[k]  r == reply[k]
  <1>1. /\ db' = [db EXCEPT ![k] = d] /\ reply' = [reply EXCEPT ![k] = r] /\ Copy(d, k, proposed)
    BY AsItWas
  <1>2. r \in Plans => proposed'[r] # None
    BY KnownStays DEF HandInv, Known
  <1> HIDE DEF d, r
  <1>3. Copy(d, k, proposed')
    BY <1>1, CopyStays DEF HandInv
  <1>4. releases' \in [Plans -> Nat]
    BY DEF HandInv, Typed
  <1>5. CASE ~durable /\ UNCHANGED op
    <2>1. op' = [op EXCEPT ![c] = Db!NoOp] /\ Copy(Db!NoOp.row, Db!NoOp.key, proposed')
      BY <1>5, AsItWas, IdleIs DEF Copy
    <2>2. Fine(x, Db!NoOp, e, r, durable, lost)
      BY DEF Fine, StoringFine
    <2>3. Steps(c, k, e, d, Db!NoOp, x, r)
      BY <1>1, <1>2, <1>3, <1>5, <2>1, <2>2, IdleIs DEF Steps, At
    <2> QED
      BY <1>4, <2>3, OneStep
  <1>6. CASE durable /\ Opens(c, IF x.plan = None THEN "clear" ELSE "save", "sent", k, e)
    <2>1. PICK o : /\ op' = [op EXCEPT ![c] = o] /\ o.kind = (IF x.plan = None THEN "clear" ELSE "save")
                   /\ o.stage = "sent" /\ o.key = k /\ o.row = e /\ IsOperation(o)
      BY <1>6 DEF Opens
    <2>2. Fine(x, o, d, r, durable, lost)
      BY <1>6, <2>1 DEF Fine, StoringFine
    <2>3. Steps(c, k, e, d, o, x, r)
      BY <1>1, <1>2, <1>3, <1>6, <2>1, <2>2 DEF Steps, At
    <2> QED
      BY <1>4, <2>3, OneStep
  <1> QED
    BY <1>5, <1>6

LEMMA ClearsKeeps ==
  ASSUME HandInv, NEW c \in Clients, Clears(c)
  PROVE  HandInv'
  <1>1. turn[c].stage = "routing"
    BY DEF Clears
  <1>2. PICK k \in Keys : k = turn[c].key
    BY <1>1, InFlightFine
  <1>3. turn[c].plan = None /\ op[c] = Db!NoOp
    BY <1>1, InFlightFine DEF Fine, RoutingFine
  <1>4. PICK x \in Turn : /\ turn' = [turn EXCEPT ![c] = x]
                          /\ x.stage = "storing" /\ x.key = k /\ ~x.gone /\ x.plan = None
    BY <1>1, <1>2, <1>3, MovesIs DEF Clears, TurnStages
  <1>5. /\ UNCHANGED <<db, now, proposed, releases, durable, reply, lost>>
        /\ mem' = [mem EXCEPT ![k] = None]
    BY <1>2 DEF Clears, Db!ClearBegin, Mem!ClearBegin
  <1>6. \/ ~durable /\ UNCHANGED op
        \/ durable /\ Opens(c, "clear", "sent", k, None)
    BY <1>2, StartsOpens DEF Clears, Db!ClearBegin, Mem!ClearBegin
  <1>7. PlanOf(x, None) /\ Copy(None, k, proposed') /\ Grows
    BY <1>4, <1>5 DEF PlanOf, Copy, Grows
  <1> QED
    BY <1>2, <1>3, <1>4, <1>5, <1>6, <1>7, StoresKeeps

LEMMA ProposesKeeps ==
  ASSUME HandInv, NEW c \in Clients, NEW p \in Plans, Proposes(c, p)
  PROVE  HandInv'
  <1> DEFINE e == [plan |-> p, exp |-> now + Ttl]
             x == [turn[c] EXCEPT !.stage = "storing", !.plan = p]
  <1>1. turn[c].stage = "routing"
    BY DEF Proposes
  <1>2. PICK k \in Keys : k = turn[c].key
    BY <1>1, InFlightFine
  <1>3. op[c] = Db!NoOp /\ turn[c] \in Turn /\ ~turn[c].gone
    BY <1>1, InFlightFine DEF Fine, RoutingFine
  <1>4. /\ x \in Turn /\ x.stage = "storing" /\ x.key = k /\ ~x.gone /\ x.plan = p
    BY <1>2, <1>3 DEF Turn, TurnStages
  <1>5. turn' = [turn EXCEPT ![c] = x]
    BY DEF Proposes, HandInv, Typed
  <1>6. /\ UNCHANGED <<db, now, releases, durable, reply, lost>>
        /\ mem' = [mem EXCEPT ![k] = e] /\ proposed[p] = None
        /\ proposed' = [proposed EXCEPT ![p] = [key |-> k, exp |-> now + Ttl]]
    BY <1>2 DEF Proposes, Db!SaveBegin, Mem!SaveBegin
  <1>7. \/ ~durable /\ UNCHANGED op
        \/ durable /\ Opens(c, "save", "sent", k, e)
    BY <1>2, StartsOpens DEF Proposes, Db!SaveBegin, Mem!SaveBegin
  <1>8. e \in Db!Entry /\ e.plan = p /\ e.exp = now + Ttl /\ [key |-> k, exp |-> now + Ttl] \in Db!Proposal
    BY StoreAssumption DEF HandInv, Typed, Db!Entry, Db!Proposal
  <1> HIDE DEF e, x
  <1>9. proposed'[p] = [key |-> k, exp |-> now + Ttl] /\ proposed'[p] # None /\ Grows
    BY <1>6, <1>8, StoreAssumption DEF HandInv, Typed, Grows
  <1>10. PlanOf(x, e) /\ Copy(e, k, proposed') /\ p # None
    BY <1>4, <1>8, <1>9, StoreAssumption DEF PlanOf, Copy
  <1> QED
    BY <1>2, <1>3, <1>4, <1>5, <1>6, <1>7, <1>9, <1>10, StoresKeeps

Applied(q, row) == [q EXCEPT !.stage = "applied", !.row = row]

LEMMA AppliedIs ==
  ASSUME NEW q, IsOperation(q), NEW row, NEW o, o = Applied(q, row)
  PROVE  IsOperation(o) /\ o.stage = "applied" /\ o.kind = q.kind /\ o.key = q.key /\ o.row = row
  <1>1. o = [kind |-> q.kind, stage |-> "applied", key |-> q.key, row |-> row,
             before |-> q.before, seen |-> q.seen]
    BY DEF IsOperation, Applied
  <1> QED
    BY <1>1 DEF IsOperation

\* The database applies a request of a turn in flight.
LEMMA DbApplyKeeps ==
  ASSUME HandInv, NEW c \in Clients, Db!DbApply(c), UNCHANGED <<durable, chat>>
  PROVE  HandInv'
  <1>1. op[c].stage = "sent"
    BY DEF Db!DbApply
  <1>2. op[c] # Db!NoOp
    BY <1>1, IdleIs
  <1>3. PICK k \in Keys : k = turn[c].key
    BY <1>2, InFlightFine
  <1> DEFINE x == turn[c]  q == op[c]  m == mem[k]  r == reply[k]  d == db[k]
             o == [q EXCEPT !.stage = "applied", !.row = Db!Answer(q)]
             e == Db!RowAfter(q)
  <1>4. /\ op' = [op EXCEPT ![c] = o] /\ db' = [db EXCEPT ![q.key] = e]
        /\ UNCHANGED <<mem, now, proposed, releases, durable, turn, reply, lost>>
    BY DEF Db!DbApply, Db!history, chat
  <1>5. IsOperation(q)
    BY DEF HandInv, Typed
  <1>6. Slots[k] = IF durable THEN d ELSE m
    BY AsItWas
  <1>7. /\ mem' = [mem EXCEPT ![k] = m] /\ reply' = [reply EXCEPT ![k] = r]
        /\ turn' = [turn EXCEPT ![c] = x]
        /\ Copy(m, k, proposed') /\ Copy(d, k, proposed') /\ Copy(q.row, q.key, proposed')
        /\ Copy(None, k, proposed') /\ (r \in Plans => proposed'[r] # None)
        /\ x.plan \in Plans \union {None} /\ (x.plan # None => proposed'[x.plan] # None)
    <2>1. turn = [turn EXCEPT ![c] = x]
      BY DEF HandInv, Typed
    <2> QED
      BY <1>4, <2>1, AsItWas
  <1>8. Fine(x, q, Slots[k], r, durable, lost)
    BY <1>2, <1>3, InFlightFine
  <1>9. /\ IsOperation(o) /\ o.stage = "applied" /\ o.kind = q.kind /\ o.key = q.key
        /\ o.row = IF q.kind = "take" THEN db[q.key] ELSE q.row
    <2>1. PICK row : row = Db!Answer(q)
      OBVIOUS
    <2>2. o = Applied(q, row)
      BY <2>1 DEF Applied
    <2> HIDE DEF o, q
    <2>3. /\ IsOperation(o) /\ o.stage = "applied" /\ o.kind = q.kind /\ o.key = q.key
          /\ o.row = row
      BY <1>5, <2>2, AppliedIs
    <2> QED
      BY <2>1, <2>3 DEF Db!Answer
  <1>10. e = IF q.kind = "save" THEN q.row ELSE None
    BY DEF Db!RowAfter
  <1>11. x.key = k
    BY <1>3
  <1>d. d = db[k]
    OBVIOUS
  <1>12. Grows /\ releases' \in [Plans -> Nat]
    BY <1>4 DEF Grows, HandInv, Typed
  <1> HIDE DEF x, q, m, r, d, o, e
  <1>13. q.stage = "sent" /\ q # Db!NoOp
    BY <1>1, <1>2 DEF q
  <1>14. CASE x.stage = "approving" /\ ApprovingFine(x, q, Slots[k], r, durable, lost)
    <2>1. durable /\ q.kind = "take" /\ q.key = k /\ Shown(d, r, lost) /\ ~x.ran /\ x.plan = None
      BY <1>6, <1>11, <1>13, <1>14 DEF ApprovingFine
    <2>2. e = None /\ o.row = d /\ o.key = k
      BY <1>9, <1>10, <1>d, <2>1
    <2>3. Fine(x, o, e, r, durable, lost)
      BY <1>8, <1>9, <1>11, <1>14, <2>1, <2>2 DEF Fine, ApprovingFine
    <2>4. Steps(c, k, m, e, o, x, r)
      BY <1>3, <1>4, <1>7, <1>9, <1>11, <2>1, <2>2, <2>3 DEF Steps, At
    <2> QED
      BY <1>12, <2>4, OneStep
  <1>15. CASE x.stage = "storing" /\ StoringFine(x, q, Slots[k], durable)
    <2>1. /\ durable /\ q.kind = (IF x.plan = None THEN "clear" ELSE "save") /\ q.key = k
          /\ PlanOf(x, q.row)
      BY <1>11, <1>13, <1>15 DEF StoringFine
    <2>2. o.row = q.row /\ o.key = k /\ o.kind = q.kind /\ e = q.row
      BY <1>9, <1>10, <2>1 DEF PlanOf
    <2>3. Fine(x, o, e, r, durable, lost)
      BY <1>8, <1>9, <1>11, <1>15, <2>1, <2>2 DEF Fine, StoringFine
    <2>4. Steps(c, k, m, e, o, x, r)
      BY <1>3, <1>4, <1>7, <1>9, <1>11, <2>1, <2>2, <2>3 DEF Steps, At
    <2> QED
      BY <1>12, <2>4, OneStep
  <1> QED
    BY <1>8, <1>13, <1>14, <1>15 DEF Fine, RoutingFine

\* A save or a clear returns, its request answered.
LEMMA SaveOrClearEndsKeeps ==
  ASSUME HandInv, NEW c \in Clients, Db!SaveEnds(c) \/ Db!ClearEnds(c), UNCHANGED <<durable, chat>>
  PROVE  HandInv'
  <1>1. op[c].kind \in {"save", "clear"} /\ op[c].stage = "applied"
    BY DEF Db!SaveEnds, Db!ClearEnds, Db!Ends, Db!Raises, Db!Refused, Db!Lost, Db!TimedOut, Db!Fails
  <1>2. op[c] # Db!NoOp
    BY <1>1, IdleIs
  <1>3. PICK k \in Keys : k = turn[c].key
    BY <1>2, InFlightFine
  <1> DEFINE x == turn[c]  m == mem[k]  r == reply[k]  d == db[k]
  <1>4. /\ op' = [op EXCEPT ![c] = Db!NoOp]
        /\ UNCHANGED <<mem, db, now, proposed, releases, durable, turn, reply, lost>>
    BY DEF Db!SaveEnds, Db!ClearEnds, chat
  <1>5. Slots[k] = IF durable THEN d ELSE m
    BY AsItWas
  <1>6. /\ mem' = [mem EXCEPT ![k] = m] /\ db' = [db EXCEPT ![k] = d]
        /\ reply' = [reply EXCEPT ![k] = r] /\ turn' = [turn EXCEPT ![c] = x]
        /\ Copy(m, k, proposed') /\ Copy(d, k, proposed') /\ (r \in Plans => proposed'[r] # None)
        /\ x.plan \in Plans \union {None} /\ (x.plan # None => proposed'[x.plan] # None)
    <2>1. turn = [turn EXCEPT ![c] = x]
      BY DEF HandInv, Typed
    <2> QED
      BY <1>4, <2>1, AsItWas
  <1>7. Fine(x, op[c], Slots[k], r, durable, lost)
    BY <1>2, <1>3, InFlightFine
  <1>8. x.key = k
    BY <1>3
  <1>9. Grows /\ releases' \in [Plans -> Nat]
    BY <1>4 DEF Grows, HandInv, Typed
  <1> HIDE DEF x, m, r, d
  <1>10. x.stage = "storing" /\ PlanOf(x, Slots[k])
    BY <1>1, <1>2, <1>7 DEF Fine, RoutingFine, ApprovingFine, StoringFine
  <1>11. Fine(x, Db!NoOp, Slots[k], r, durable, lost)
    BY <1>7, <1>10 DEF Fine, StoringFine
  <1>12. Copy(Db!NoOp.row, Db!NoOp.key, proposed')
    BY IdleIs DEF Copy
  <1>13. Steps(c, k, m, d, Db!NoOp, x, r)
    BY <1>3, <1>4, <1>5, <1>6, <1>8, <1>11, <1>12, IdleIs DEF Steps, At
  <1> QED
    BY <1>9, <1>13, OneStep

\* A yes of turn c is answered with the entry e of its chat k, which agrees with
\* the last answer there.
AnsweredWith(c, k, e) ==
    /\ turn[c].key = k /\ turn[c].plan = None /\ Copy(e, k, proposed)
    /\ Shown(e, reply[k], lost)
    /\ releases' = IF e # None /\ now < e.exp THEN [releases EXCEPT ![e.plan] = @ + 1]
                                             ELSE releases
    /\ mem' = [mem EXCEPT ![k] = None] /\ op' = [op EXCEPT ![c] = Db!NoOp]
    /\ durable => db[k] = None
    /\ UNCHANGED <<db, now, proposed, durable, reply, lost>>

LEMMA ApprovedIs ==
  ASSUME HandInv, NEW c \in Clients, Approved(c)
  PROVE  \E k \in Keys : \E e : AnsweredWith(c, k, e)
  <1>1. turn[c].stage = "approving" /\ (Db!TakeAnswered(c) \/ Db!TakeFallback(c))
    BY DEF Approved
  <1>2. PICK k \in Keys : k = turn[c].key
    BY <1>1, InFlightFine
  <1>3. turn[c].plan = None /\ ApprovingFine(turn[c], op[c], Slots[k], reply[k], durable, lost)
    BY <1>1, <1>2, InFlightFine DEF Fine, ApprovingFine
  <1>4. op[c].key = k
    BY <1>2, <1>3 DEF ApprovingFine
  <1>5. Slots[k] = IF durable THEN db[k] ELSE mem[k]
    BY AsItWas
  <1>6. UNCHANGED <<durable, reply, lost>>
    BY DEF Approved
  <1>7. CASE Db!TakeAnswered(c)
    <2> DEFINE e == op[c].row
    <2>1. /\ op[c].stage = "applied" /\ mem' = [mem EXCEPT ![k] = None] /\ Db!Returns(c, e)
          /\ UNCHANGED <<db, now, proposed>>
      BY <1>4, <1>7 DEF Db!TakeAnswered
    <2>2. durable /\ Slots[k] = None /\ Shown(e, reply[k], lost)
      BY <1>3, <2>1 DEF ApprovingFine
    <2>3. Copy(e, k, proposed)
      BY <1>4, AsItWas
    <2> HIDE DEF e
    <2> QED
      BY <1>2, <1>3, <1>5, <1>6, <2>1, <2>2, <2>3 DEF AnsweredWith, Db!Returns, Db!Unexpired
  <1>8. CASE Db!TakeFallback(c)
    <2> DEFINE e == mem[k]
    <2>1. /\ op[c].stage = "fallback" /\ mem' = [mem EXCEPT ![k] = None] /\ Db!Returns(c, e)
          /\ UNCHANGED <<db, now, proposed>>
      BY <1>4, <1>8 DEF Db!TakeFallback
    <2>2. ~durable /\ Shown(e, reply[k], lost)
      BY <1>3, <1>5, <2>1 DEF ApprovingFine
    <2>3. Copy(e, k, proposed)
      BY AsItWas
    <2> HIDE DEF e
    <2> QED
      BY <1>2, <1>3, <1>5, <1>6, <2>1, <2>2, <2>3 DEF AnsweredWith, Db!Returns, Db!Unexpired
  <1> QED
    BY <1>1, <1>7, <1>8

LEMMA ApprovedKeeps ==
  ASSUME HandInv, NEW c \in Clients, Approved(c)
  PROVE  HandInv'
  <1>p. PICK k \in Keys : \E e : AnsweredWith(c, k, e)
    BY ApprovedIs
  <1>q. PICK e : AnsweredWith(c, k, e)
    BY <1>p
  <1>2. turn[c].stage = "approving"
    BY DEF Approved
  <1>1. turn[c].key = k /\ turn[c].plan = None
    BY <1>q DEF AnsweredWith
  <1>3. PICK x \in Turn : /\ turn' = [turn EXCEPT ![c] = x]
                          /\ x.key = k /\ ~x.gone /\ x.plan = None
                          /\ (x.stage = "routing" /\ x.ran) \/ x.stage = "replying"
    <2>1. CASE RoutedAgain(c)
      BY <1>1, <1>2, <2>1, RoutedAgainIs
    <2>2. CASE Moves(c, "replying")
      BY <1>1, <1>2, <2>2, MovesIs DEF TurnStages
    <2> QED
      BY <2>1, <2>2 DEF Approved
  <1>4. Fine(x, Db!NoOp, None, reply[k], durable, lost)
    BY <1>3 DEF Fine, RoutingFine, PlanOf
  <1> DEFINE r == reply[k]  d == db[k]
  <1>5. /\ db' = [db EXCEPT ![k] = d] /\ reply' = [reply EXCEPT ![k] = r]
        /\ Copy(None, k, proposed') /\ Copy(d, k, proposed') /\ (r \in Plans => proposed'[r] # None)
    BY <1>q, AsItWas DEF AnsweredWith
  <1>6. Copy(Db!NoOp.row, Db!NoOp.key, proposed')
    BY IdleIs DEF Copy
  <1>7. Grows /\ releases' \in [Plans -> Nat]
    <2>1. e # None => e.plan \in Plans
      BY <1>q DEF AnsweredWith, Copy, Db!Entry
    <2> QED
      BY <1>q, <2>1 DEF AnsweredWith, Grows, HandInv, Typed
  <1>8. (IF durable THEN d ELSE None) = None
    BY <1>q DEF AnsweredWith
  <1> HIDE DEF r, d
  <1>9. Fine(x, Db!NoOp, IF durable THEN d ELSE None, r, durable, lost)
    BY <1>4, <1>8 DEF r
  <1>10. Steps(c, k, None, d, Db!NoOp, x, r)
    BY <1>q, <1>3, <1>5, <1>6, <1>9, IdleIs DEF AnsweredWith, Steps, At
  <1> QED
    BY <1>7, <1>10, OneStep

\* A restart leaves every chat at rest, with the rows or with nothing.
LEMMA RestartKeeps ==
  ASSUME HandInv, Restart
  PROVE  HandInv'
  <1>1. /\ mem' = [k \in Keys |-> None] /\ op' = [c \in Clients |-> Db!NoOp]
        /\ turn' = [c \in Clients |-> Idle]
        /\ reply' = [k \in Keys |-> IF \E c \in InFlight : turn[c].key = k THEN Cut ELSE reply[k]]
        /\ lost' = IF durable THEN lost ELSE {p \in Plans : proposed[p] # None}
        /\ UNCHANGED <<db, now, proposed, releases, durable>>
    BY DEF Restart, Db!Restart, Db!history
  <1>2. Typed'
    BY <1>1, IdleIs DEF HandInv, Typed
  <1>3. CopiesAgree'
    <2>1. \A k \in Keys : Copy(mem'[k], k, proposed') /\ Copy(db'[k], k, proposed')
      BY <1>1 DEF HandInv, CopiesAgree, Copy
    <2>2. \A c \in Clients : Copy(op'[c].row, op'[c].key, proposed')
      BY <1>1, IdleIs DEF Copy
    <2> QED
      BY <2>1, <2>2 DEF CopiesAgree
  <1>4. Known'
    BY <1>1, IdleIs, CutShows DEF HandInv, Known
  <1>5. ASSUME NEW k \in Keys
        PROVE  Shown(Slots'[k], reply'[k], lost')
    <2>1. CASE \E c \in InFlight : turn[c].key = k
      BY <1>1, <2>1, CutShows
    <2>2. CASE ~ \E c \in InFlight : turn[c].key = k
      <3>1. Quiet(k)
        BY <2>2, IdleIs, StoreAssumption DEF Quiet, InFlight
      <3>2. Shown(Slots[k], reply[k], lost) /\ reply'[k] = reply[k]
        BY <1>1, <2>2, <3>1 DEF HandInv, ChatsFine
      <3>3. CASE durable
        BY <1>1, <3>2, <3>3 DEF Slots
      <3>4. CASE ~durable
        <4>1. Slots'[k] = None
          BY <1>1, <3>4 DEF Slots
        <4>2. reply[k] \in Plans => reply[k] \in lost'
          BY <1>1, <3>4 DEF HandInv, Known
        <4> QED
          BY <3>2, <4>1, <4>2 DEF Shown
      <3> QED
        BY <3>3, <3>4
    <2> QED
      BY <2>1, <2>2
  <1>6. ChatsFine'
    <2>1. \A c \in Clients : TurnFine(c)'
      BY <1>1 DEF TurnFine
    <2>2. OneEach'
      BY <1>1, IdleIs DEF OneEach
    <2> QED
      BY <1>5, <2>1, <2>2 DEF ChatsFine
  <1> QED
    BY <1>2, <1>3, <1>4, <1>6 DEF HandInv

\* Time passes, or nothing happens.
LEMMA RestKeeps ==
  ASSUME HandInv, Db!Tick \/ UNCHANGED now,
         UNCHANGED <<mem, db, op, proposed, releases, durable, turn, reply, lost>>
  PROVE  HandInv'
  <1>1. now' \in Nat
    BY DEF HandInv, Typed, Db!Tick
  <1>2. Typed'
    BY <1>1 DEF HandInv, Typed
  <1>3. CopiesAgree' /\ Known'
    BY DEF HandInv, CopiesAgree, Known
  <1>4. ChatsFine'
    <2>1. Slots' = Slots
      BY DEF Slots
    <2>2. \A c \in Clients : TurnFine(c)'
      BY <2>1 DEF HandInv, ChatsFine, TurnFine
    <2>3. OneEach'
      BY DEF HandInv, ChatsFine, OneEach
    <2>4. \A k \in Keys : Quiet(k)' => Shown(Slots'[k], reply'[k], lost')
      BY <2>1 DEF HandInv, ChatsFine, Quiet
    <2> QED
      BY <2>2, <2>3, <2>4 DEF ChatsFine
  <1> QED
    BY <1>2, <1>3, <1>4 DEF HandInv

LEMMA NextKeeps == OneAtATime /\ HandInv /\ [Next]_vars => HandInv'
  <1> SUFFICES ASSUME OneAtATime, HandInv, [Next]_vars PROVE HandInv'
    OBVIOUS
  <1>1. ASSUME NEW c \in Clients, NEW k \in Keys, NEW yes \in BOOLEAN, Message(c, k, yes)
        PROVE  HandInv'
    BY <1>1, MessageKeeps
  <1>2. ASSUME NEW c \in Clients, Takes(c) \/ Approved(c) \/ Clears(c) \/ Stored(c)
        PROVE  HandInv'
    BY <1>2, TakesKeeps, ApprovedKeeps, ClearsKeeps, StoredKeeps
  <1>3. ASSUME NEW c \in Clients, NEW p \in Plans, Proposes(c, p)
        PROVE  HandInv'
    BY <1>3, ProposesKeeps
  <1>4. ASSUME NEW c \in Clients, Replies(c) \/ Breaks(c) \/ Unrouted(c)
        PROVE  HandInv'
    BY <1>4, RepliesKeeps, CutsKeep
  <1>5. CASE Restart
    BY <1>5, RestartKeeps
  <1>6. CASE StoreStep
    <2>1. CASE Db!Tick /\ UNCHANGED <<durable, chat>>
      <3>1. UNCHANGED <<mem, db, op, proposed, releases, durable, turn, reply, lost>>
        BY <2>1 DEF Db!Tick, Db!history, chat
      <3> QED
        BY <2>1, <3>1, RestKeeps
    <2>2. ASSUME NEW c \in Clients, Db!DbApply(c), UNCHANGED <<durable, chat>>
          PROVE  HandInv'
      BY <2>2, DbApplyKeeps
    <2>3. ASSUME NEW c \in Clients, Db!SaveEnds(c) \/ Db!ClearEnds(c), UNCHANGED <<durable, chat>>
          PROVE  HandInv'
      BY <2>3, SaveOrClearEndsKeeps
    <2> QED
      BY <1>6, <2>1, <2>2, <2>3 DEF StoreStep
  <1>7. CASE Done \/ UNCHANGED vars
    <2>1. UNCHANGED <<mem, db, now, op, proposed, releases, durable, turn, reply, lost>>
      BY <1>7 DEF Done, vars, store, chat
    <2> QED
      BY <2>1, RestKeeps
  <1> QED
    BY <1>1, <1>2, <1>3, <1>4, <1>5, <1>6, <1>7 DEF Next

LEMMA InitHand == Init => HandInv
  <1> SUFFICES ASSUME Init PROVE HandInv
    OBVIOUS
  <1>1. /\ mem = [k \in Keys |-> None] /\ db = [k \in Keys |-> None] /\ now = 0
        /\ op = [c \in Clients |-> Db!NoOp] /\ turn = [c \in Clients |-> Idle]
        /\ proposed = [p \in Plans |-> None] /\ releases = [p \in Plans |-> 0]
        /\ reply = [k \in Keys |-> None] /\ durable \in BOOLEAN
    BY DEF Init, Db!Init
  <1>2. Typed
    BY <1>1, IdleIs DEF Typed
  <1>3. CopiesAgree
    BY <1>1, IdleIs DEF CopiesAgree, Copy
  <1>4. Known
    BY <1>1, IdleIs, StoreAssumption DEF Known
  <1>5. \A k \in Keys : Shown(Slots[k], reply[k], lost)
    BY <1>1, StoreAssumption DEF Slots, Shown
  <1>6. ChatsFine
    BY <1>1, <1>5, IdleIs DEF ChatsFine, TurnFine, OneEach
  <1> QED
    BY <1>2, <1>3, <1>4, <1>6 DEF HandInv

LEMMA AlwaysHandInv ==
  ASSUME OneAtATime
  PROVE  Spec => []HandInv
  <1>1. HandInv /\ [Next]_vars => HandInv'
    BY NextKeeps
  <1> QED
    BY <1>1, InitHand, PTL DEF Spec

-----------------------------------------------------------------------------
(* The two promises.                                                       *)

LEMMA OnlyYesReleases ==
  ASSUME [Next]_vars
  PROVE  UNCHANGED releases \/ \E c \in Clients : Approved(c)
  <1>1. ASSUME NEW c \in Clients, Takes(c) \/ Clears(c)
        PROVE  UNCHANGED releases
    BY <1>1 DEF Takes, Clears, Db!TakeBegin, Mem!TakeBegin, Db!ClearBegin, Mem!ClearBegin,
                Db!history, Mem!history
  <1>2. ASSUME NEW c \in Clients, NEW p \in Plans, Proposes(c, p)
        PROVE  UNCHANGED releases
    BY <1>2 DEF Proposes, Db!SaveBegin, Mem!SaveBegin
  <1>3. ASSUME NEW c \in Clients, NEW k \in Keys, NEW yes \in BOOLEAN, Message(c, k, yes)
        PROVE  UNCHANGED releases
    BY <1>3 DEF Message, store
  <1>4. ASSUME NEW c \in Clients, Stored(c) \/ Replies(c) \/ Breaks(c) \/ Unrouted(c)
        PROVE  UNCHANGED releases
    BY <1>4 DEF Stored, Replies, Breaks, Unrouted, Ends, store
  <1>5. CASE Restart
    BY <1>5 DEF Restart, Db!Restart, Db!history
  <1>6. CASE StoreStep
    BY <1>6 DEF StoreStep, Db!Tick, Db!DbApply, Db!SaveEnds, Db!ClearEnds, Db!history
  <1>7. CASE Done \/ UNCHANGED vars
    BY <1>7 DEF Done, vars, store
  <1> QED
    BY <1>1, <1>2, <1>3, <1>4, <1>5, <1>6, <1>7 DEF Next

LEMMA StepApprovedAsShown ==
  ASSUME HandInv, [Next]_vars, NEW p \in Plans, releases'[p] # releases[p]
  PROVE  reply[proposed[p].key] \in {p, Cut}
  <1>1. PICK c \in Clients : Approved(c)
    BY OnlyYesReleases
  <1>2. PICK k \in Keys : \E e : AnsweredWith(c, k, e)
    BY <1>1, ApprovedIs
  <1>3. PICK e : AnsweredWith(c, k, e)
    BY <1>2
  <1>4. e # None /\ e.plan = p
    BY <1>3 DEF AnsweredWith, HandInv, Typed
  <1>5. proposed[p].key = k /\ reply[k] \in {p, Cut}
    BY <1>3, <1>4 DEF AnsweredWith, Copy, Shown
  <1> QED
    BY <1>5

(* _finish_routing: "Run exactly what was shown and agreed to".  A plan is *)
(* released only to a yes that follows the answer that showed it, or an    *)
(* answer that was cut off, whatever is sent in other chats, whether or    *)
(* not there is a database, and however often the gateway restarts.        *)
THEOREM AlwaysApprovedAsShown ==
  ASSUME OneAtATime
  PROVE  Spec => ApprovedAsShown
  <1> DEFINE A == \A p \in Plans : releases'[p] # releases[p] => reply[proposed[p].key] \in {p, Cut}
  <1>1. HandInv /\ [Next]_vars => [A]_vars
    BY StepApprovedAsShown
  <1> QED
    BY <1>1, AlwaysHandInv, PTL DEF Spec, ApprovedAsShown

\* Only an answered take ends the approving stage with the turn going on.
LEMMA OnlyApprovedGoesOn ==
  ASSUME HandInv, OneAtATime, [Next]_vars, NEW c \in Clients, turn[c].stage = "approving",
         turn'[c].stage \in {"routing", "replying"}
  PROVE  Approved(c)
  <1>1. ASSUME NEW d \in Clients, d # c, NEW x, turn' = [turn EXCEPT ![d] = x]
        PROVE  FALSE
    BY <1>1 DEF HandInv, Typed
  <1>2. turn' # turn
    OBVIOUS
  <1>3. ASSUME NEW d \in Clients, NEW k \in Keys, NEW yes \in BOOLEAN, Message(d, k, yes)
        PROVE  Approved(c)
    BY <1>1, <1>3, IdleIs DEF Message
  <1>4. ASSUME NEW d \in Clients, Takes(d) \/ Clears(d) \/ Stored(d)
        PROVE  Approved(c)
    <2>1. d # c
      BY <1>4 DEF Takes, Clears, Stored
    <2> QED
      BY <1>1, <1>4, <2>1 DEF Takes, Clears, Stored, Moves, RoutedAgain
  <1>5. ASSUME NEW d \in Clients, Approved(d)
        PROVE  Approved(c)
    <2>1. CASE d # c
      BY <1>1, <1>5, <2>1 DEF Approved, Moves, RoutedAgain
    <2> QED
      BY <1>5, <2>1
  <1>6. ASSUME NEW d \in Clients, NEW p \in Plans, Proposes(d, p)
        PROVE  Approved(c)
    <2>1. d # c
      BY <1>6 DEF Proposes
    <2>2. PICK x : turn' = [turn EXCEPT ![d] = x]
      <3>1. turn' = [turn EXCEPT ![d].stage = "storing", ![d].plan = p]
        BY <1>6, Zenon DEF Proposes
      <3> QED
        BY <3>1, Zenon
    <2> QED
      BY <1>1, <2>1, <2>2
  <1>7. ASSUME NEW d \in Clients, Replies(d) \/ Breaks(d) \/ Unrouted(d)
        PROVE  Approved(c)
    <2>1. d # c
      BY <1>7 DEF Replies, Breaks, Unrouted, OneAtATime
    <2> QED
      BY <1>1, <1>7, <2>1 DEF Replies, Breaks, Unrouted, Ends, OneAtATime
  <1>8. ~Restart
    BY IdleIs DEF Restart
  <1>9. ~StoreStep /\ ~Done /\ ~UNCHANGED vars
    BY <1>2 DEF StoreStep, Done, vars, chat
  <1> QED
    BY <1>3, <1>4, <1>5, <1>6, <1>7, <1>8, <1>9 DEF Next

LEMMA StepApprovalHonoured ==
  ASSUME HandInv, OneAtATime, [Next]_vars, NEW c \in Clients, NEW p \in Plans \ lost,
         turn[c].stage = "approving", turn'[c].stage \in {"routing", "replying"},
         reply[turn[c].key] = p, now < proposed[p].exp
  PROVE  releases'[p] # releases[p]
  <1>1. Approved(c)
    BY OnlyApprovedGoesOn
  <1>2. PICK k \in Keys : \E e : AnsweredWith(c, k, e)
    BY <1>1, ApprovedIs
  <1>3. PICK e : AnsweredWith(c, k, e)
    BY <1>2
  <1>4. e # None /\ e.plan = p
    BY <1>3 DEF AnsweredWith, Shown
  <1>5. proposed[p].exp = e.exp
    BY <1>3, <1>4 DEF AnsweredWith, Copy
  <1>6. releases' = [releases EXCEPT ![p] = @ + 1] /\ releases[p] \in Nat
    BY <1>3, <1>4, <1>5 DEF AnsweredWith, HandInv, Typed
  <1>7. releases'[p] = releases[p] + 1
    BY <1>6 DEF HandInv, Typed
  <1> QED
    BY <1>6, <1>7

(* _finish_routing: a yes to a list the last answer showed finds it, in    *)
(* time and unless a restart emptied a store without a database: no turn   *)
(* is told there is no plan on record right after seeing one.              *)
THEOREM AlwaysApprovalHonoured ==
  ASSUME OneAtATime
  PROVE  Spec => ApprovalHonoured
  <1> DEFINE A == \A c \in Clients, p \in Plans \ lost :
                     /\ turn[c].stage = "approving" /\ turn'[c].stage \in {"routing", "replying"}
                     /\ reply[turn[c].key] = p
                     /\ now < proposed[p].exp
                     => releases'[p] # releases[p]
  <1>1. HandInv /\ [Next]_vars => [A]_vars
    BY StepApprovalHonoured
  <1> QED
    BY <1>1, AlwaysHandInv, PTL DEF Spec, ApprovalHonoured

-----------------------------------------------------------------------------
(* However turns overlap, end and are abandoned, they use the store only   *)
(* by its operations, so what PendingPlansProofs shows of the store is     *)
(* left of the handshake where OneAtATime fails.                           *)

DbProofs == INSTANCE PendingPlansProofs WITH Configured <- TRUE, Reachable <- TRUE, Faults <- {}
MemProofs == INSTANCE PendingPlansProofs WITH Configured <- FALSE, Reachable <- TRUE, Faults <- {}

\* The operations that the two ways share.
LEMMA StoreActions ==
  /\ \A c \in Clients : /\ Db!TakeAnswered(c) => Mem!TakeAnswered(c)
                        /\ Db!TakeFallback(c) => Mem!TakeFallback(c)
                        /\ Db!DbApply(c) => Mem!DbApply(c)
                        /\ Db!SaveEnds(c) => Mem!SaveEnds(c)
                        /\ Db!ClearEnds(c) => Mem!ClearEnds(c)
  /\ Db!Tick => Mem!Tick
  /\ Db!Restart => Mem!Restart
  /\ Db!Init <=> Mem!Init
  <1> SUFFICES ASSUME NEW c
      PROVE  /\ Db!TakeAnswered(c) => Mem!TakeAnswered(c)
             /\ Db!TakeFallback(c) => Mem!TakeFallback(c)
             /\ Db!DbApply(c) => Mem!DbApply(c)
             /\ Db!SaveEnds(c) => Mem!SaveEnds(c)
             /\ Db!ClearEnds(c) => Mem!ClearEnds(c)
             /\ Db!Tick => Mem!Tick
             /\ Db!Restart => Mem!Restart
             /\ Db!Init <=> Mem!Init
    OBVIOUS
  <1>1. Db!NoOp = Mem!NoOp
    BY DEF Db!NoOp, Mem!NoOp
  <1>2. /\ Db!TakeAnswered(c) => Mem!TakeAnswered(c)
        /\ Db!TakeFallback(c) => Mem!TakeFallback(c)
    BY <1>1 DEF Db!TakeAnswered, Db!TakeFallback, Mem!TakeAnswered, Mem!TakeFallback,
                Db!Returns, Mem!Returns, Db!Unexpired, Mem!Unexpired
  <1>3. Db!DbApply(c) => Mem!DbApply(c)
    BY DEF Db!DbApply, Mem!DbApply, Db!RowAfter, Mem!RowAfter, Db!Answer, Mem!Answer, Db!history, Mem!history
  <1>4. Db!Ends(c) => Mem!Ends(c)
    BY DEF Db!Ends, Mem!Ends, Db!Raises, Mem!Raises, Db!Refused, Mem!Refused, Db!Lost, Mem!Lost,
           Db!TimedOut, Mem!TimedOut, Db!Fails, Mem!Fails
  <1>5. /\ Db!SaveEnds(c) => Mem!SaveEnds(c)
        /\ Db!ClearEnds(c) => Mem!ClearEnds(c)
    BY <1>1, <1>4 DEF Db!SaveEnds, Mem!SaveEnds, Db!ClearEnds, Mem!ClearEnds
  <1>6. Db!Tick => Mem!Tick
    BY DEF Db!Tick, Mem!Tick, Db!history, Mem!history
  <1>7. Db!Restart => Mem!Restart
    BY <1>1 DEF Db!Restart, Mem!Restart, Db!history, Mem!history, Db!Fails, Mem!Fails
  <1>8. Db!Init <=> Mem!Init
    BY <1>1 DEF Db!Init, Mem!Init
  <1> QED
    BY <1>1, <1>2, <1>3, <1>5, <1>6, <1>7, <1>8

\* A turn in flight is of a chat.
HasChat ==
    /\ turn \in [Clients -> Turn]
    /\ \A c \in Clients : turn[c].stage # "idle" => turn[c].key \in Keys

LEMMA ChatKept ==
  ASSUME HasChat, NEW c \in Clients, NEW x \in Turn, turn' = [turn EXCEPT ![c] = x],
         x.stage # "idle" => x.key \in Keys
  PROVE  HasChat'
  BY DEF HasChat

LEMMA IdleTurn == Idle \in Turn /\ Idle.stage = "idle"
  BY DEF Idle, Turn, TurnStages

\* A turn in flight goes on in its chat, or ends.
LEMMA GoesOn ==
  ASSUME HasChat, NEW c \in Clients, turn[c].stage # "idle",
         \/ \E stage \in TurnStages : Moves(c, stage)
         \/ RoutedAgain(c)
         \/ turn' = [turn EXCEPT ![c] = Idle]
         \/ turn' = [turn EXCEPT ![c].gone = TRUE]
         \/ \E p \in Plans : turn' = [turn EXCEPT ![c].stage = "storing", ![c].plan = p]
  PROVE  HasChat'
  <1>1. turn[c] \in Turn /\ turn[c].key \in Keys
    BY DEF HasChat
  <1>2. CASE turn' = [turn EXCEPT ![c] = Idle]
    BY <1>2, IdleTurn, ChatKept
  <1>3. ASSUME NEW stage \in TurnStages, Moves(c, stage)
        PROVE  HasChat'
    <2>1. CASE turn[c].gone /\ stage = "replying"
      BY <1>2, <1>3, <2>1 DEF Moves
    <2>2. CASE ~(turn[c].gone /\ stage = "replying")
      <3> DEFINE x == [turn[c] EXCEPT !.stage = stage]
      <3>1. x \in Turn /\ x.key = turn[c].key
        BY <1>1 DEF Turn
      <3>2. turn' = [turn EXCEPT ![c] = x]
        BY <1>3, <2>2 DEF Moves
      <3> HIDE DEF x
      <3> QED
        BY <1>1, <3>1, <3>2, ChatKept
    <2> QED
      BY <2>1, <2>2
  <1>4. CASE RoutedAgain(c)
    <2> DEFINE x == [turn[c] EXCEPT !.stage = "routing", !.ran = TRUE]
    <2>1. x \in Turn /\ x.key = turn[c].key
      BY <1>1 DEF Turn, TurnStages
    <2>2. turn' = [turn EXCEPT ![c] = x]
      BY <1>4 DEF RoutedAgain
    <2> HIDE DEF x
    <2> QED
      BY <1>1, <2>1, <2>2, ChatKept
  <1>5. CASE turn' = [turn EXCEPT ![c].gone = TRUE]
    <2> DEFINE x == [turn[c] EXCEPT !.gone = TRUE]
    <2>1. x \in Turn /\ x.key = turn[c].key
      BY <1>1 DEF Turn
    <2>2. turn' = [turn EXCEPT ![c] = x]
      BY <1>5
    <2> HIDE DEF x
    <2> QED
      BY <1>1, <2>1, <2>2, ChatKept
  <1>6. ASSUME NEW p \in Plans, turn' = [turn EXCEPT ![c].stage = "storing", ![c].plan = p]
        PROVE  HasChat'
    <2> DEFINE x == [turn[c] EXCEPT !.stage = "storing", !.plan = p]
    <2>1. x \in Turn /\ x.key = turn[c].key
      BY <1>1 DEF Turn, TurnStages
    <2>2. turn' = [turn EXCEPT ![c] = x]
      BY <1>6
    <2> HIDE DEF x
    <2> QED
      BY <1>1, <2>1, <2>2, ChatKept
  <1> QED
    BY <1>2, <1>3, <1>4, <1>5, <1>6

LEMMA AlwaysHasChat == Spec => []HasChat
  <1>1. Init => HasChat
    BY IdleTurn DEF Init, HasChat
  <1>2. HasChat /\ [Next]_vars => HasChat'
    <2> SUFFICES ASSUME HasChat, [Next]_vars
                 PROVE  HasChat'
      OBVIOUS
    <2>1. CASE UNCHANGED turn
      BY <2>1 DEF HasChat
    <2>2. ASSUME NEW c \in Clients, NEW k \in Keys, NEW yes \in BOOLEAN, Message(c, k, yes)
          PROVE  HasChat'
      <3> DEFINE x == [Idle EXCEPT !.stage = "routing", !.key = k, !.yes = yes]
      <3>1. x \in Turn /\ x.key = k
        BY DEF Idle, Turn, TurnStages
      <3>2. turn' = [turn EXCEPT ![c] = x]
        BY <2>2 DEF Message
      <3> HIDE DEF x
      <3> QED
        BY <3>1, <3>2, ChatKept
    <2>3. ASSUME NEW c \in Clients, Takes(c) \/ Approved(c) \/ Clears(c) \/ Stored(c)
          PROVE  HasChat'
      <3>1. turn[c].stage # "idle"
        BY <2>3 DEF Takes, Approved, Clears, Stored
      <3>2. \/ \E stage \in TurnStages : Moves(c, stage)
            \/ RoutedAgain(c)
        BY <2>3 DEF Takes, Approved, Clears, Stored, TurnStages
      <3> QED
        BY <3>1, <3>2, GoesOn
    <2>4. ASSUME NEW c \in Clients, NEW p \in Plans, Proposes(c, p)
          PROVE  HasChat'
      <3>1. turn[c].stage # "idle" /\ turn' = [turn EXCEPT ![c].stage = "storing", ![c].plan = p]
        BY <2>4 DEF Proposes
      <3> QED
        BY <3>1, GoesOn
    <2>5. ASSUME NEW c \in Clients, Replies(c) \/ Breaks(c) \/ Unrouted(c)
          PROVE  HasChat'
      <3>1. turn[c].stage # "idle"
        BY <2>5 DEF Replies, Breaks, Unrouted
      <3>2. \/ turn' = [turn EXCEPT ![c] = Idle]
            \/ turn' = [turn EXCEPT ![c].gone = TRUE]
        BY <2>5 DEF Replies, Breaks, Unrouted, Ends
      <3> QED
        BY <3>1, <3>2, GoesOn
    <2>6. CASE Restart
      BY <2>6, IdleTurn DEF Restart, HasChat
    <2>7. CASE StoreStep \/ Done \/ UNCHANGED vars
      BY <2>1, <2>7 DEF StoreStep, Done, vars, chat
    <2> QED
      BY <2>2, <2>3, <2>4, <2>5, <2>6, <2>7 DEF Next
  <1> QED
    BY <1>1, <1>2, PTL DEF Spec

LEMMA StepOfStore ==
  ASSUME HasChat, [Next]_vars
  PROVE  /\ durable' = durable
         /\ durable => [Db!Next]_(Db!vars)
         /\ ~durable => [Mem!Next]_(Mem!vars)
  <1>1. CASE UNCHANGED <<store, durable>>
    BY <1>1 DEF store, Db!vars, Mem!vars
  <1>2. ASSUME NEW c \in Clients, durable' = durable, durable => Db!Step(c), ~durable => Mem!Step(c)
        PROVE  /\ durable' = durable
               /\ durable => [Db!Next]_(Db!vars)
               /\ ~durable => [Mem!Next]_(Mem!vars)
    BY <1>2 DEF Db!Next, Mem!Next
  <1>3. ASSUME NEW c \in Clients,
               Takes(c) \/ Clears(c) \/ Approved(c) \/ \E p \in Plans : Proposes(c, p)
        PROVE  durable' = durable /\ (durable => Db!Step(c)) /\ (~durable => Mem!Step(c))
    <2>1. turn[c].key \in Keys /\ durable' = durable
      BY <1>3 DEF HasChat, Takes, Clears, Approved, Proposes
    <2>2. CASE Takes(c)
      BY <2>1, <2>2 DEF Takes, Db!Step, Mem!Step
    <2>3. CASE Clears(c)
      BY <2>1, <2>3 DEF Clears, Db!Step, Mem!Step
    <2>4. CASE Approved(c)
      BY <2>1, <2>4, StoreActions DEF Approved, Db!Step, Mem!Step
    <2>5. ASSUME NEW p \in Plans, Proposes(c, p)
          PROVE  (durable => Db!Step(c)) /\ (~durable => Mem!Step(c))
      <3>1. IF durable THEN Db!SaveBegin(c, turn[c].key, p) ELSE Mem!SaveBegin(c, turn[c].key, p)
        BY <2>5 DEF Proposes
      <3> QED
        BY <2>1, <3>1, Zenon DEF Db!Step, Mem!Step
    <2> QED
      BY <1>3, <2>1, <2>2, <2>3, <2>4, <2>5
  <1>4. ASSUME NEW c \in Clients, (\E k \in Keys, yes \in BOOLEAN : Message(c, k, yes))
                                   \/ Stored(c) \/ Replies(c) \/ Breaks(c) \/ Unrouted(c)
        PROVE  UNCHANGED <<store, durable>>
    BY <1>4 DEF Message, Stored, Replies, Breaks, Unrouted, Ends
  <1>5. CASE Restart
    BY <1>5, StoreActions DEF Restart, Db!Next, Mem!Next
  <1>6. CASE StoreStep
    <2>1. durable' = durable
      BY <1>6 DEF StoreStep
    <2>2. CASE Db!Tick
      BY <2>1, <2>2, StoreActions DEF Db!Next, Mem!Next
    <2>3. ASSUME NEW c \in Clients, Db!DbApply(c) \/ Db!SaveEnds(c) \/ Db!ClearEnds(c)
          PROVE  Db!Step(c) /\ Mem!Step(c)
      BY <2>3, StoreActions DEF Db!Step, Mem!Step
    <2> QED
      BY <1>2, <1>6, <2>1, <2>2, <2>3 DEF StoreStep
  <1>7. CASE Done \/ UNCHANGED vars
    BY <1>1, <1>7 DEF Done, vars
  <1> QED
    BY <1>1, <1>2, <1>3, <1>4, <1>5, <1>6, <1>7 DEF Next

\* The store as the turns see it and as its theorems do.
LEMMA SameStore ==
  /\ Db!Spec <=> DbProofs!Spec
  /\ Mem!Spec <=> MemProofs!Spec
  <1>1. /\ Db!Init <=> DbProofs!Init
        /\ Db!Next <=> DbProofs!Next
        /\ Db!vars = DbProofs!vars /\ (Db!vars)' = (DbProofs!vars)'
    BY DEF Db!vars, DbProofs!vars, Db!history, DbProofs!history, Db!Init, DbProofs!Init, Db!NoOp,
           DbProofs!NoOp, Db!Next, DbProofs!Next, Db!Step, DbProofs!Step, Db!SaveBegin,
           DbProofs!SaveBegin, Db!TakeBegin, DbProofs!TakeBegin, Db!ClearBegin, DbProofs!ClearBegin,
           Db!Starts, DbProofs!Starts, Db!SettledIn, DbProofs!SettledIn, Db!DbApply,
           DbProofs!DbApply, Db!RowAfter, DbProofs!RowAfter, Db!Answer, DbProofs!Answer,
           Db!ApplyLate, DbProofs!ApplyLate, Db!TakeAnswered, DbProofs!TakeAnswered, Db!Returns,
           DbProofs!Returns, Db!Unexpired, DbProofs!Unexpired, Db!TakeRaises, DbProofs!TakeRaises,
           Db!Raises, DbProofs!Raises, Db!Refused, DbProofs!Refused, Db!Lost, DbProofs!Lost,
           Db!TimedOut, DbProofs!TimedOut, Db!Fails, DbProofs!Fails, Db!TakeFallback,
           DbProofs!TakeFallback, Db!Ends, DbProofs!Ends, Db!SaveEnds, DbProofs!SaveEnds,
           Db!ClearEnds, DbProofs!ClearEnds, Db!Restart, DbProofs!Restart, Db!Tick, DbProofs!Tick
  <1>2. /\ Mem!Init <=> MemProofs!Init
        /\ Mem!Next <=> MemProofs!Next
        /\ Mem!vars = MemProofs!vars /\ (Mem!vars)' = (MemProofs!vars)'
    BY DEF Mem!vars, MemProofs!vars, Mem!history, MemProofs!history, Mem!Init, MemProofs!Init,
           Mem!NoOp, MemProofs!NoOp, Mem!Next, MemProofs!Next, Mem!Step, MemProofs!Step,
           Mem!SaveBegin, MemProofs!SaveBegin, Mem!TakeBegin, MemProofs!TakeBegin, Mem!ClearBegin,
           MemProofs!ClearBegin, Mem!Starts, MemProofs!Starts, Mem!SettledIn, MemProofs!SettledIn,
           Mem!DbApply, MemProofs!DbApply, Mem!RowAfter, MemProofs!RowAfter, Mem!Answer,
           MemProofs!Answer, Mem!ApplyLate, MemProofs!ApplyLate, Mem!TakeAnswered,
           MemProofs!TakeAnswered, Mem!Returns, MemProofs!Returns, Mem!Unexpired,
           MemProofs!Unexpired, Mem!TakeRaises, MemProofs!TakeRaises, Mem!Raises, MemProofs!Raises,
           Mem!Refused, MemProofs!Refused, Mem!Lost, MemProofs!Lost, Mem!TimedOut,
           MemProofs!TimedOut, Mem!Fails, MemProofs!Fails, Mem!TakeFallback, MemProofs!TakeFallback,
           Mem!Ends, MemProofs!Ends, Mem!SaveEnds, MemProofs!SaveEnds, Mem!ClearEnds,
           MemProofs!ClearEnds, Mem!Restart, MemProofs!Restart, Mem!Tick, MemProofs!Tick
  <1>3. /\ Db!Init <=> DbProofs!Init
        /\ [Db!Next]_(Db!vars) <=> [DbProofs!Next]_(DbProofs!vars)
    BY <1>1
  <1>4. /\ Mem!Init <=> MemProofs!Init
        /\ [Mem!Next]_(Mem!vars) <=> [MemProofs!Next]_(MemProofs!vars)
    BY <1>2
  <1> QED
    BY <1>3, <1>4, PTL DEF Db!Spec, DbProofs!Spec, Mem!Spec, MemProofs!Spec

(* A chat turn, a restart and a client that goes away do to the store what *)
(* save, take and clear do, step by step: the turns and the store compose. *)
THEOREM AlwaysUsesTheStore == Spec => (durable /\ Db!Spec) \/ (~durable /\ Mem!Spec)
  <1>1. Init => Db!Init /\ Mem!Init
    BY StoreActions DEF Init
  <1>2. HasChat /\ durable /\ [Next]_vars => durable' /\ [Db!Next]_(Db!vars)
    BY StepOfStore
  <1>3. HasChat /\ ~durable /\ [Next]_vars => ~durable' /\ [Mem!Next]_(Mem!vars)
    BY StepOfStore
  <1> QED
    BY <1>1, <1>2, <1>3, AlwaysHasChat, PTL DEF Spec, Db!Spec, Mem!Spec
\* The theorems of the store apply to both of its instances.
LEMMA StoreTheorems ==
  /\ Db!Spec => []Db!SingleUse /\ Db!ReleasedInTime /\ Db!ReleasedInItsChat
  /\ Mem!Spec => []Db!SingleUse /\ Db!ReleasedInTime /\ Db!ReleasedInItsChat
  <1>1. DbProofs!Spec => []DbProofs!SingleUse
    BY DbProofs!AlwaysSingleUse, StoreAssumption
       DEF DbProofs!Kinds, DbProofs!FaultKinds, DbProofs!Entry, DbProofs!Proposal, Db!Entry, Db!Proposal, Db!Kinds
  <1>2. MemProofs!Spec => []MemProofs!SingleUse
    BY MemProofs!AlwaysSingleUse, StoreAssumption
       DEF MemProofs!Kinds, MemProofs!FaultKinds, MemProofs!Entry, MemProofs!Proposal, Db!Entry, Db!Proposal, Db!Kinds
  <1>3. DbProofs!Spec => DbProofs!ReleasedInTime /\ DbProofs!ReleasedInItsChat
    BY DbProofs!AlwaysReleasedInTime, DbProofs!AlwaysReleasedInItsChat, StoreAssumption
       DEF DbProofs!Kinds, DbProofs!FaultKinds, DbProofs!Entry, DbProofs!Proposal, Db!Entry, Db!Proposal, Db!Kinds
  <1>4. MemProofs!Spec => MemProofs!ReleasedInTime /\ MemProofs!ReleasedInItsChat
    BY MemProofs!AlwaysReleasedInTime, MemProofs!AlwaysReleasedInItsChat, StoreAssumption
       DEF MemProofs!Kinds, MemProofs!FaultKinds, MemProofs!Entry, MemProofs!Proposal, Db!Entry, Db!Proposal, Db!Kinds
  <1> DEFINE InTime == \A p \in Plans : Db!Released(p) => now < proposed[p].exp
             InItsChat == \A c \in Clients, p \in Plans :
                             (Db!Released(p) /\ op[c].kind = "take" /\ op'[c] = Db!NoOp)
                                => proposed[p].key = op[c].key
  <1>5. DbProofs!ReleasedInTime /\ DbProofs!ReleasedInItsChat => [][InTime]_(Db!vars) /\ [][InItsChat]_(Db!vars)
    BY DEF DbProofs!ReleasedInTime, DbProofs!ReleasedInItsChat, DbProofs!Released, Db!Released,
           DbProofs!NoOp, Db!NoOp, DbProofs!vars, Db!vars
  <1>6. MemProofs!ReleasedInTime /\ MemProofs!ReleasedInItsChat => [][InTime]_(Db!vars) /\ [][InItsChat]_(Db!vars)
    BY DEF MemProofs!ReleasedInTime, MemProofs!ReleasedInItsChat, MemProofs!Released, Db!Released,
           MemProofs!NoOp, Db!NoOp, MemProofs!vars, Db!vars
  <1>7. DbProofs!SingleUse \/ MemProofs!SingleUse => Db!SingleUse
    BY DEF DbProofs!SingleUse, MemProofs!SingleUse, Db!SingleUse
  <1> QED
    BY <1>1, <1>2, <1>3, <1>4, <1>5, <1>6, <1>7, SameStore, PTL DEF Db!ReleasedInTime, Db!ReleasedInItsChat

(* Whatever the clients do: a list is run at most once, before its         *)
(* deadline, and for a turn of the chat it was proposed in.                *)
THEOREM AlwaysReleasedOnce == Spec => []Db!SingleUse /\ Db!ReleasedInTime /\ Db!ReleasedInItsChat
  BY StoreTheorems, AlwaysUsesTheStore, PTL
=============================================================================
