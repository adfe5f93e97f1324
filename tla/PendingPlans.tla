---------------------------- MODULE PendingPlans ----------------------------
(***************************************************************************)
(* services/pending_plans.py: the store behind the write gate.             *)
(*                                                                         *)
(* A proposal lives in two places: a row of the Supabase table, keyed by   *)
(* (user_id, chat_id), and an entry of the process's _memory dict under    *)
(* the same key.  save writes both, take deletes the row as it reads it    *)
(* and falls back to the memory copy when the request raises, clear        *)
(* removes both.  Each operation runs on the worker thread of one turn and *)
(* is split where another thread, the network or a restart can come        *)
(* between: the in-process part under _memory_lock, the request at the     *)
(* database, and the answer back in the process.                           *)
(***************************************************************************)
EXTENDS Naturals

CONSTANTS
    Plans,       \* proposals, each saved at most once
    Keys,        \* conversations, the values of _key(user_id, chat_id)
    Clients,     \* turns that may use the store at the same time
    Ttl,         \* PLAN_TTL_S in clock units
    MaxClock,    \* bound on the clock, for model checking
    Configured,  \* _config() found a URL and a service key
    Reachable,   \* the table exists: FALSE when no request is ever applied
    Faults,      \* which requests may fail, and how: pairs <<kind, fault>>
    None

Kinds == {"save", "take", "clear"}

(* How an httpx call can raise: "refused" the database did not apply it    *)
(* (connection error, or an error status raised by raise_for_status);      *)
(* "lost" it applied it and the answer never came; "late" the client timed *)
(* out and the database applies it afterwards.                             *)
FaultKinds == {"refused", "lost", "late"}

ASSUME TtlAssumption == Ttl \in Nat \ {0}
ASSUME ClockAssumption == MaxClock \in Nat
ASSUME ConfiguredAssumption == Configured \in BOOLEAN
ASSUME ReachableAssumption == Reachable \in BOOLEAN
ASSUME FaultsAssumption == Faults \subseteq Kinds \X FaultKinds

Entry == [plan : Plans, exp : Nat]
Proposal == [key : Keys, exp : Nat]
ASSUME NoneAssumption == /\ None \notin Plans /\ None \notin Keys /\ None \notin Kinds
                         /\ None \notin Entry /\ None \notin Proposal

VARIABLES
    mem,       \* _memory
    db,        \* the rows of the pending_plans table
    now,       \* the clock both expiry checks read
    op,        \* op[c]: the operation c is in the middle of
    late,      \* requests whose client gave up and that may still be applied
    \* history, read by properties only
    proposed,  \* proposed[p]: the conversation and deadline of p, or None
    settled,   \* plans whose save has returned
    retired,   \* pairs <<p, why>>: p was cleared or superseded
    releases   \* releases[p]: how many times a take returned p

vars == <<mem, db, now, op, late, proposed, settled, retired, releases>>
history == <<proposed, settled, retired, releases>>

-----------------------------------------------------------------------------
Whys == {"cleared", "superseded"}
Stages == {"sent", "applied", "fallback"}

(* row is the entry a save sends or a take received; before the plans of   *)
(* the conversation already settled when the operation began; seen what    *)
(* was already retired then.                                               *)
Operation ==
    {o \in [kind : Kinds, stage : Stages, key : Keys, row : Entry \union {None},
            before : SUBSET Plans, seen : SUBSET (Plans \X Whys)] :
        /\ o.kind = "save" => o.row # None
        /\ o.stage = "fallback" => o.kind = "take"}
Request == [kind : Kinds, key : Keys, row : Entry \union {None}]

NoOp == [kind |-> None, stage |-> "idle", key |-> None, row |-> None,
         before |-> {}, seen |-> {}]

Init ==
    /\ mem = [k \in Keys |-> None]
    /\ db = [k \in Keys |-> None]
    /\ now = 0
    /\ op = [c \in Clients |-> NoOp]
    /\ late = {}
    /\ proposed = [p \in Plans |-> None]
    /\ settled = {}
    /\ retired = {}
    /\ releases = [p \in Plans |-> 0]

SettledIn(k) == {p \in settled : proposed[p].key = k}

Starts(c, kind, stage, k, row) ==
    op' = [op EXCEPT ![c] = [kind |-> kind, stage |-> stage, key |-> k, row |-> row,
                             before |-> SettledIn(k), seen |-> retired]]

Fails(c, fault) == <<op[c].kind, fault>> \in Faults

\* mutant of Unexpired: the deadline is not looked at
Present(e) == e # None

(* The plan a take gets out of an entry: both copies carry a deadline and  *)
(* an entry past it counts as absent.                                      *)
Unexpired(e) == e # None /\ now < e.exp

Returns(c, e) ==
    /\ op' = [op EXCEPT ![c] = NoOp]
    /\ releases' = IF Unexpired(e) THEN [releases EXCEPT ![e.plan] = @ + 1]
                                   ELSE releases

-----------------------------------------------------------------------------
(* save: the memory copy is written first, always; then the upsert is sent. *)
SaveBegin(c, k, p) ==
    LET e == [plan |-> p, exp |-> now + Ttl] IN
    /\ op[c] = NoOp
    /\ proposed[p] = None
    /\ mem' = [mem EXCEPT ![k] = e]
    /\ proposed' = [proposed EXCEPT ![p] = [key |-> k, exp |-> now + Ttl]]
    /\ \/ /\ Configured
          /\ Starts(c, "save", "sent", k, e)
          /\ UNCHANGED <<settled, retired>>
       \/ /\ ~Configured
          /\ settled' = settled \union {p}
          /\ retired' = retired \union (SettledIn(k) \X {"superseded"})
          /\ UNCHANGED op
    /\ UNCHANGED <<db, now, late, releases>>

(* take: with a database the row is deleted as it is read; without one the *)
(* memory entry is all there is.                                           *)
TakeBegin(c, k) ==
    /\ op[c] = NoOp
    /\ Starts(c, "take", IF Configured THEN "sent" ELSE "fallback", k, None)
    /\ UNCHANGED <<mem, db, now, late, history>>

(* clear: the memory entry goes first, then the row is deleted.            *)
ClearBegin(c, k) ==
    /\ op[c] = NoOp
    /\ mem' = [mem EXCEPT ![k] = None]
    /\ \/ /\ Configured
          /\ Starts(c, "clear", "sent", k, None)
          /\ UNCHANGED retired
       \/ /\ ~Configured
          /\ retired' = retired \union (SettledIn(k) \X {"cleared"})
          /\ UNCHANGED op
    /\ UNCHANGED <<db, now, late, proposed, settled, releases>>

\* mutant of RowAfter: a take reads the row and leaves it
RowAfterRead(r) == IF r.kind = "save" THEN r.row ELSE IF r.kind = "take" THEN db[r.key] ELSE None

\* mutant of Answer: the deadline is restarted when the row is read
AnswerRestamped(r) ==
    IF r.kind = "take" /\ db[r.key] # None THEN [db[r.key] EXCEPT !.exp = now + Ttl] ELSE r.row

(* The database applies a request: merge-duplicates makes a save replace   *)
(* the row of its key; return=representation gives a take the row it       *)
(* deleted.                                                                *)
RowAfter(r) == IF r.kind = "save" THEN r.row ELSE None

Answer(r) == IF r.kind = "take" THEN db[r.key] ELSE r.row

DbApply(c) ==
    /\ Reachable
    /\ op[c].stage = "sent"
    /\ db' = [db EXCEPT ![op[c].key] = RowAfter(op[c])]
    /\ op' = [op EXCEPT ![c] = [op[c] EXCEPT !.stage = "applied", !.row = Answer(op[c])]]
    /\ UNCHANGED <<mem, now, late, history>>

ApplyLate(r) ==
    /\ Reachable
    /\ r \in late
    /\ db' = [db EXCEPT ![r.key] = RowAfter(r)]
    /\ late' = late \ {r}
    /\ UNCHANGED <<mem, now, op, history>>

(* The answer comes back.  A successful take drops the memory copy and     *)
(* returns the row, or nothing when the row had expired or was not there.  *)
TakeAnswered(c) ==
    /\ op[c].kind = "take" /\ op[c].stage = "applied"
    /\ mem' = [mem EXCEPT ![op[c].key] = None]
    /\ Returns(c, op[c].row)
    /\ UNCHANGED <<db, now, late, proposed, settled, retired>>

(* The request raises, in one of three ways.                               *)
Refused(c) == op[c].stage = "sent" /\ Fails(c, "refused") /\ UNCHANGED late
Lost(c) == op[c].stage = "applied" /\ Fails(c, "lost") /\ UNCHANGED late
TimedOut(c) ==
    /\ op[c].stage = "sent" /\ Fails(c, "late")
    /\ late' = late \union
               {[kind |-> op[c].kind, key |-> op[c].key, row |-> op[c].row]}

Raises(c) == Refused(c) \/ Lost(c) \/ TimedOut(c)

TakeRaises(c) ==
    /\ op[c].kind = "take"
    /\ Raises(c)
    /\ op' = [op EXCEPT ![c] = [op[c] EXCEPT !.stage = "fallback", !.row = None]]
    /\ UNCHANGED <<mem, db, now, history>>

\* mutant of TakeFallback: the memory entry is read and not popped
TakePeeks(c) ==
    /\ op[c].stage = "fallback"
    /\ Returns(c, mem[op[c].key])
    /\ UNCHANGED <<mem, db, now, late, proposed, settled, retired>>

TakeFallback(c) ==
    /\ op[c].stage = "fallback"
    /\ Returns(c, mem[op[c].key])
    /\ mem' = [mem EXCEPT ![op[c].key] = None]
    /\ UNCHANGED <<db, now, late, proposed, settled, retired>>

(* save and clear swallow the exception, so they return either way.        *)
Ends(c) == \/ op[c].stage = "applied" /\ UNCHANGED late
           \/ Raises(c)

SaveEnds(c) ==
    /\ op[c].kind = "save"
    /\ Ends(c)
    /\ settled' = settled \union {op[c].row.plan}
    /\ retired' = retired \union (op[c].before \X {"superseded"})
    /\ op' = [op EXCEPT ![c] = NoOp]
    /\ UNCHANGED <<mem, db, now, proposed, releases>>

ClearEnds(c) ==
    /\ op[c].kind = "clear"
    /\ Ends(c)
    /\ retired' = retired \union (op[c].before \X {"cleared"})
    /\ op' = [op EXCEPT ![c] = NoOp]
    /\ UNCHANGED <<mem, db, now, proposed, settled, releases>>

(* The gateway restarts: _memory and every turn in flight are gone.  A     *)
(* request already on its way may still be applied, if requests can be     *)
(* late at all.                                                            *)
Restart ==
    /\ mem' = [k \in Keys |-> None]
    /\ op' = [c \in Clients |-> NoOp]
    /\ \E C \in SUBSET {c \in Clients : op[c].stage = "sent" /\ Fails(c, "late")} :
          late' = late \union
             {[kind |-> op[c].kind, key |-> op[c].key, row |-> op[c].row] : c \in C}
    /\ UNCHANGED <<db, now, history>>

Tick ==
    /\ now < MaxClock
    /\ now' = now + 1
    /\ UNCHANGED <<mem, db, op, late, history>>

Step(c) ==
    \/ \E k \in Keys : \/ \E p \in Plans : SaveBegin(c, k, p)
                       \/ TakeBegin(c, k)
                       \/ ClearBegin(c, k)
    \/ DbApply(c)
    \/ TakeAnswered(c) \/ TakeRaises(c) \/ TakeFallback(c)
    \/ SaveEnds(c) \/ ClearEnds(c)

Next ==
    \/ \E c \in Clients : Step(c)
    \/ \E r \in late : ApplyLate(r)
    \/ Restart
    \/ Tick

Spec == Init /\ [][Next]_vars

-----------------------------------------------------------------------------
(* Properties.                                                             *)

\* Every variable has its type.
TypeOK ==
    /\ mem \in [Keys -> Entry \union {None}]
    /\ db \in [Keys -> Entry \union {None}]
    /\ now \in Nat
    /\ op \in [Clients -> Operation \union {NoOp}]
    /\ late \subseteq Request
    /\ proposed \in [Plans -> Proposal \union {None}]
    /\ settled \subseteq Plans
    /\ retired \subseteq Plans \X Whys
    /\ releases \in [Plans -> Nat]

\* save: every copy of a plan, in memory, in the table or on the way, is filed
\* under the conversation and carries the deadline it was proposed with.
Matches(e, k) == e = None \/ proposed[e.plan] = [key |-> k, exp |-> e.exp]

CopiesAgree ==
    /\ \A k \in Keys : Matches(mem[k], k) /\ Matches(db[k], k)
    /\ \A c \in Clients : Matches(op[c].row, op[c].key)
    /\ \A r \in late : Matches(r.row, r.key)

Released(p) == releases'[p] # releases[p]

\* take, both paths: a plan comes back only before the deadline set when it
\* was proposed, whichever copy it comes from and however the requests in
\* between failed ("a forgotten plan cannot be released by an unrelated yes
\* hours later").
ReleasedInTime ==
    [][\A p \in Plans : Released(p) => now < proposed[p].exp]_vars

\* _key: a turn is handed only plans proposed in its own conversation.
ReleasedInItsChat ==
    [][\A c \in Clients, p \in Plans :
          (Released(p) /\ op[c].kind = "take" /\ op'[c] = NoOp)
             => proposed[p].key = op[c].key]_vars

\* take: "Single-use: the row is deleted as it is read, so a second yes
\* cannot replay the same writes."
SingleUse == \A p \in Plans : releases[p] <= 1

\* Even when requests fail there are only two copies to hand out.
AtMostTwice == \A p \in Plans : releases[p] <= 2

\* A take that began after p had been retired, for the reason given, returns p.
ReleasesRetired(why) ==
    \E c \in Clients, p \in Plans :
       /\ Released(p) /\ op[c].kind = "take" /\ op'[c] = NoOp
       /\ <<p, why>> \in op[c].seen

\* save: a newer proposal replaces the older one of the conversation, so an
\* approval releases what was shown last.
NewestWins == [][~ReleasesRetired("superseded")]_vars

\* clear: "a stale proposal must not linger and fire against a later,
\* unrelated yes".
ClearedStaysCleared == [][~ReleasesRetired("cleared")]_vars

-----------------------------------------------------------------------------
(* The abstract store.  The row is the slot (the memory entry is, without  *)
(* a database or with one that never answers), a row deleted and not yet   *)
(* returned is in the hand of its turn, and a proposal is seen once its    *)
(* save is no longer on the way.                                           *)
PlanIn(e) == IF e = None THEN None ELSE e.plan

InMemoryOnly == ~Configured \/ ~Reachable

OnTheWay == {p \in Plans : \E c \in Clients : /\ ~InMemoryOnly
                                             /\ op[c].kind = "save" /\ op[c].stage = "sent"
                                             /\ op[c].row.plan = p}

Slot == INSTANCE PlanSlot WITH
    slot <- [k \in Keys |-> PlanIn(IF InMemoryOnly THEN mem[k] ELSE db[k])],
    hand <- [c \in Clients |-> IF op[c].kind = "take" THEN PlanIn(op[c].row) ELSE None],
    released <- {p \in Plans : releases[p] > 0},
    seen <- {p \in Plans : proposed[p] # None} \ OnTheWay,
    Durable <- ~InMemoryOnly

\* With a database that answers, the store is one durable slot per
\* conversation: the memory copy is never seen and a restart loses nothing.
ImplementsPlanSlot == Slot!Spec
=============================================================================
