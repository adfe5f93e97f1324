------------------------- MODULE PendingPlansProofs -------------------------
(***************************************************************************)
(* What holds of the plan store for every set of plans, conversations and  *)
(* turns and every lifetime: type correctness; for every way requests can  *)
(* fail, that a plan is released only before its deadline, only in its own *)
(* conversation, and at most twice; and, when requests do not fail or no   *)
(* database ever holds a row, that it is released at most once, and that   *)
(* the store is the one slot per conversation of PlanSlot.                 *)
(***************************************************************************)
EXTENDS PendingPlans, TLAPS

USE DEF Kinds, Whys, Stages

-----------------------------------------------------------------------------
(* Type correctness.                                                       *)

LEMMA InitType == Init => TypeOK
  BY NoneAssumption DEF Init, TypeOK, NoOp, Operation, history

(* An operation under way is not NoOp, whose stage no request has.         *)
LEMMA Busy ==
  ASSUME TypeOK, NEW c \in Clients, op[c].stage \in Stages \/ op[c].kind \in Kinds
  PROVE  op[c] \in Operation
  BY NoneAssumption DEF TypeOK, NoOp

LEMMA StageType ==
  ASSUME NEW o \in Operation, NEW stage \in Stages, NEW row \in Entry \union {None},
         o.kind = "save" => row # None, stage = "fallback" => o.kind = "take"
  PROVE  [o EXCEPT !.stage = stage, !.row = row] \in Operation
  BY DEF Operation

LEMMA MovesType ==
  ASSUME TypeOK, NEW c \in Clients, NEW o \in Operation, op' = [op EXCEPT ![c] = o]
  PROVE  op' \in [Clients -> Operation \union {NoOp}]
  BY DEF TypeOK

LEMMA ReturnsType ==
  ASSUME TypeOK, NEW c \in Clients, NEW e \in Entry \union {None}, Returns(c, e)
  PROVE  /\ op' \in [Clients -> Operation \union {NoOp}]
         /\ releases' \in [Plans -> Nat]
  <1>1. op' \in [Clients -> Operation \union {NoOp}]
    BY DEF TypeOK, Returns
  <1>2. CASE Unexpired(e)
    <2>1. e.plan \in Plans
      BY <1>2 DEF Unexpired, Entry
    <2> QED
      BY <1>1, <1>2, <2>1 DEF TypeOK, Returns
  <1>3. CASE ~Unexpired(e)
    BY <1>1, <1>3 DEF TypeOK, Returns
  <1> QED
    BY <1>2, <1>3

LEMMA StartsType ==
  ASSUME TypeOK, NEW c \in Clients, NEW kind \in Kinds, NEW stage \in Stages,
         NEW k \in Keys, NEW row \in Entry \union {None},
         kind = "save" => row # None, stage = "fallback" => kind = "take",
         Starts(c, kind, stage, k, row)
  PROVE  op' \in [Clients -> Operation \union {NoOp}]
  <1>1. SettledIn(k) \in SUBSET Plans
    BY DEF TypeOK, SettledIn
  <1>2. retired \in SUBSET (Plans \X Whys)
    BY DEF TypeOK
  <1>3. [kind |-> kind, stage |-> stage, key |-> k, row |-> row,
         before |-> SettledIn(k), seen |-> retired] \in Operation
    BY <1>1, <1>2 DEF Operation
  <1> QED
    BY <1>3 DEF TypeOK, Starts

LEMMA RaisesType ==
  ASSUME TypeOK, NEW c \in Clients, op[c] \in Operation, Raises(c)
  PROVE  late' \subseteq Request
  <1>1. [kind |-> op[c].kind, key |-> op[c].key, row |-> op[c].row] \in Request
    BY DEF Operation, Request
  <1> QED
    BY <1>1 DEF TypeOK, Raises, Refused, Lost, TimedOut

LEMMA EndsType ==
  ASSUME TypeOK, NEW c \in Clients, op[c] \in Operation, Ends(c)
  PROVE  late' \subseteq Request
  BY RaisesType DEF TypeOK, Ends

LEMMA StepType == TypeOK /\ [Next]_vars => TypeOK'
  <1> SUFFICES ASSUME TypeOK, [Next]_vars PROVE TypeOK'
    OBVIOUS
  <1>1. ASSUME NEW c \in Clients, NEW k \in Keys, NEW p \in Plans, SaveBegin(c, k, p)
        PROVE  TypeOK'
    <2> DEFINE e == [plan |-> p, exp |-> now + Ttl]
    <2>1. e \in Entry /\ [key |-> k, exp |-> now + Ttl] \in Proposal
      BY TtlAssumption DEF TypeOK, Entry, Proposal
    <2>2. mem' \in [Keys -> Entry \union {None}]
      BY <1>1, <2>1 DEF SaveBegin, TypeOK
    <2>3. proposed' \in [Plans -> Proposal \union {None}]
      BY <1>1, <2>1 DEF SaveBegin, TypeOK
    <2>4. SettledIn(k) \subseteq Plans
      BY DEF TypeOK, SettledIn
    <2>5. CASE Configured /\ Starts(c, "save", "sent", k, e) /\ UNCHANGED <<settled, retired>>
      <3>1. op' \in [Clients -> Operation \union {NoOp}]
        BY <2>1, <2>5, StartsType, NoneAssumption
      <3> QED
        BY <1>1, <2>2, <2>3, <2>5, <3>1 DEF SaveBegin, TypeOK
    <2>6. CASE /\ ~Configured
               /\ settled' = settled \union {p}
               /\ retired' = retired \union (SettledIn(k) \X {"superseded"})
               /\ UNCHANGED op
      BY <1>1, <2>2, <2>3, <2>4, <2>6 DEF SaveBegin, TypeOK
    <2> QED
      BY <1>1, <2>5, <2>6 DEF SaveBegin
  <1>2. ASSUME NEW c \in Clients, NEW k \in Keys, TakeBegin(c, k)
        PROVE  TypeOK'
    <2>1. op' \in [Clients -> Operation \union {NoOp}]
      BY <1>2, StartsType DEF TakeBegin
    <2> QED
      BY <1>2, <2>1 DEF TakeBegin, TypeOK, history
  <1>3. ASSUME NEW c \in Clients, NEW k \in Keys, ClearBegin(c, k)
        PROVE  TypeOK'
    <2>1. mem' \in [Keys -> Entry \union {None}]
      BY <1>3 DEF ClearBegin, TypeOK
    <2>2. SettledIn(k) \subseteq Plans
      BY DEF TypeOK, SettledIn
    <2>3. CASE Configured /\ Starts(c, "clear", "sent", k, None) /\ UNCHANGED retired
      <3>1. op' \in [Clients -> Operation \union {NoOp}]
        BY <2>3, StartsType
      <3> QED
        BY <1>3, <2>1, <2>3, <3>1 DEF ClearBegin, TypeOK
    <2>4. CASE /\ ~Configured
               /\ retired' = retired \union (SettledIn(k) \X {"cleared"})
               /\ UNCHANGED op
      BY <1>3, <2>1, <2>2, <2>4 DEF ClearBegin, TypeOK
    <2> QED
      BY <1>3, <2>3, <2>4 DEF ClearBegin
  <1>4. ASSUME NEW c \in Clients, DbApply(c)
        PROVE  TypeOK'
    <2>1. op[c] \in Operation
      BY <1>4, Busy DEF DbApply
    <2>2. /\ Answer(op[c]) \in Entry \union {None}
          /\ op[c].kind = "save" => Answer(op[c]) # None
      BY <2>1 DEF TypeOK, Operation, Answer
    <2>3. db' \in [Keys -> Entry \union {None}]
      BY <1>4, <2>1 DEF DbApply, TypeOK, RowAfter, Operation
    <2>4. op' \in [Clients -> Operation \union {NoOp}]
      <3> DEFINE o == [op[c] EXCEPT !.stage = "applied", !.row = Answer(op[c])]
      <3>1. o \in Operation
        BY <2>1, <2>2, StageType
      <3>2. op' = [op EXCEPT ![c] = o]
        BY <1>4 DEF DbApply
      <3> HIDE DEF o
      <3> QED
        BY <3>1, <3>2, MovesType
    <2> QED
      BY <1>4, <2>3, <2>4 DEF DbApply, TypeOK, history
  <1>5. ASSUME NEW r \in late, ApplyLate(r)
        PROVE  TypeOK'
    <2>1. r \in Request
      BY DEF TypeOK
    <2>2. db' \in [Keys -> Entry \union {None}]
      BY <1>5, <2>1 DEF ApplyLate, TypeOK, RowAfter, Request
    <2> QED
      BY <1>5, <2>2 DEF ApplyLate, TypeOK, history
  <1>6. ASSUME NEW c \in Clients, TakeAnswered(c)
        PROVE  TypeOK'
    <2>1. op[c] \in Operation
      BY <1>6, Busy DEF TakeAnswered
    <2>2. op[c].row \in Entry \union {None}
      BY <2>1 DEF Operation
    <2>3. /\ op' \in [Clients -> Operation \union {NoOp}]
          /\ releases' \in [Plans -> Nat]
      BY <1>6, <2>2, ReturnsType DEF TakeAnswered
    <2> QED
      BY <1>6, <2>3 DEF TakeAnswered, TypeOK
  <1>7. ASSUME NEW c \in Clients, TakeRaises(c)
        PROVE  TypeOK'
    <2>1. op[c] \in Operation
      BY <1>7, Busy DEF TakeRaises
    <2>2. late' \subseteq Request
      BY <1>7, <2>1, RaisesType DEF TakeRaises
    <2>3. [op[c] EXCEPT !.stage = "fallback", !.row = None] \in Operation
      BY <1>7, <2>1, StageType DEF TakeRaises
    <2>4. op' \in [Clients -> Operation \union {NoOp}]
      BY <1>7, <2>3, MovesType DEF TakeRaises
    <2> QED
      BY <1>7, <2>2, <2>4 DEF TakeRaises, TypeOK, history
  <1>8. ASSUME NEW c \in Clients, TakeFallback(c)
        PROVE  TypeOK'
    <2>1. op[c] \in Operation
      BY <1>8, Busy DEF TakeFallback
    <2>2. mem[op[c].key] \in Entry \union {None}
      BY <2>1 DEF Operation, TypeOK
    <2>3. /\ op' \in [Clients -> Operation \union {NoOp}]
          /\ releases' \in [Plans -> Nat]
      BY <1>8, <2>2, ReturnsType DEF TakeFallback
    <2> QED
      BY <1>8, <2>3 DEF TakeFallback, TypeOK
  <1>9. ASSUME NEW c \in Clients, SaveEnds(c)
        PROVE  TypeOK'
    <2>1. op[c] \in Operation
      BY <1>9, Busy DEF SaveEnds
    <2>2. late' \subseteq Request
      BY <1>9, <2>1, EndsType DEF SaveEnds
    <2>3. op[c].row.plan \in Plans
      BY <1>9, <2>1 DEF SaveEnds, Operation, Entry
    <2> QED
      BY <1>9, <2>1, <2>2, <2>3 DEF SaveEnds, TypeOK, Operation
  <1>10. ASSUME NEW c \in Clients, ClearEnds(c)
         PROVE  TypeOK'
    <2>1. op[c] \in Operation
      BY <1>10, Busy DEF ClearEnds
    <2>2. late' \subseteq Request
      BY <1>10, <2>1, EndsType DEF ClearEnds
    <2> QED
      BY <1>10, <2>1, <2>2 DEF ClearEnds, TypeOK, Operation
  <1>11. ASSUME Restart
         PROVE  TypeOK'
    <2>1. ASSUME NEW c \in Clients, op[c].stage = "sent"
          PROVE  [kind |-> op[c].kind, key |-> op[c].key, row |-> op[c].row] \in Request
      BY <2>1, Busy DEF Operation, Request
    <2>2. late' \subseteq Request
      BY <1>11, <2>1 DEF Restart, TypeOK
    <2> QED
      BY <1>11, <2>2 DEF Restart, TypeOK, history
  <1>12. CASE Tick
    BY <1>12 DEF Tick, TypeOK, history
  <1>13. CASE UNCHANGED vars
    BY <1>13 DEF vars, TypeOK
  <1> QED
    BY <1>1, <1>2, <1>3, <1>4, <1>5, <1>6, <1>7, <1>8, <1>9, <1>10, <1>11, <1>12, <1>13
       DEF Next, Step

(* Every reachable state of the store, under any faults, is well typed.    *)
THEOREM TypeCorrect == Spec => []TypeOK
  BY InitType, StepType, PTL DEF Spec

-----------------------------------------------------------------------------
(* Every copy of a plan carries the conversation and the deadline it was   *)
(* proposed with, whatever requests fail, because a plan is proposed once  *)
(* and copies are only ever moved.                                         *)

LEMMA InitAgree == Init => CopiesAgree
  BY DEF Init, CopiesAgree, Matches, NoOp

Still(e, k) == e = None \/ proposed'[e.plan] = [key |-> k, exp |-> e.exp]

LEMMA ProposedOnce ==
  ASSUME TypeOK, [Next]_vars
  PROVE  \/ UNCHANGED proposed
         \/ \E p \in Plans, v \in Proposal :
               proposed[p] = None /\ proposed' = [proposed EXCEPT ![p] = v]
  <1>1. ASSUME NEW c \in Clients, NEW k \in Keys, NEW p \in Plans, SaveBegin(c, k, p)
        PROVE  \E v \in Proposal :
                  proposed[p] = None /\ proposed' = [proposed EXCEPT ![p] = v]
    <2>1. [key |-> k, exp |-> now + Ttl] \in Proposal
      BY TtlAssumption DEF TypeOK, Proposal
    <2> QED
      BY <1>1, <2>1 DEF SaveBegin
  <1> QED
    BY <1>1 DEF Next, Step, vars, history, TakeBegin, ClearBegin, DbApply, ApplyLate,
                TakeAnswered, TakeRaises, TakeFallback, SaveEnds, ClearEnds, Restart, Tick

LEMMA MatchesStays ==
  ASSUME TypeOK, [Next]_vars, NEW e \in Entry \union {None}, NEW k, Matches(e, k),
         k \in Keys \/ e = None
  PROVE  Still(e, k)
  <1>1. CASE e = None
    BY <1>1 DEF Still
  <1>2. CASE UNCHANGED proposed
    BY <1>2 DEF Matches, Still
  <1>3. ASSUME e # None,
               NEW p \in Plans, NEW v \in Proposal,
               proposed[p] = None, proposed' = [proposed EXCEPT ![p] = v]
        PROVE  Still(e, k)
    <2>1. e.plan \in Plans /\ [key |-> k, exp |-> e.exp] \in Proposal
      BY <1>3 DEF Entry, Proposal
    <2>2. e.plan # p
      BY <1>3, <2>1, NoneAssumption DEF Matches
    <2> QED
      BY <1>3, <2>1, <2>2 DEF Matches, Still, TypeOK
  <1> QED
    BY <1>1, <1>2, <1>3, ProposedOnce

LEMMA CopiesStay ==
  ASSUME TypeOK, CopiesAgree, [Next]_vars
  PROVE  /\ \A k \in Keys : Still(mem[k], k) /\ Still(db[k], k)
         /\ \A c \in Clients : Still(op[c].row, op[c].key)
         /\ \A r \in late : Still(r.row, r.key)
  <1>1. \A k \in Keys : Still(mem[k], k) /\ Still(db[k], k)
    BY MatchesStays DEF CopiesAgree, TypeOK
  <1>2. ASSUME NEW c \in Clients
        PROVE  Still(op[c].row, op[c].key)
    <2>1. /\ op[c].row \in Entry \union {None}
          /\ op[c].key \in Keys \/ op[c].row = None
      BY DEF TypeOK, Operation, NoOp
    <2> QED
      BY <2>1, MatchesStays DEF CopiesAgree
  <1>3. ASSUME NEW r \in late
        PROVE  Still(r.row, r.key)
    <2>1. r.row \in Entry \union {None} /\ r.key \in Keys
      BY DEF TypeOK, Request
    <2> QED
      BY <2>1, MatchesStays DEF CopiesAgree
  <1> QED
    BY <1>1, <1>2, <1>3

LEMMA RaisesAgree ==
  ASSUME TypeOK, NEW c \in Clients, op[c] \in Operation, Raises(c) \/ Ends(c),
         Still(op[c].row, op[c].key), \A r \in late : Still(r.row, r.key)
  PROVE  \A r \in late' : Still(r.row, r.key)
  BY DEF Ends, Raises, Refused, Lost, TimedOut

LEMMA StepAgree == TypeOK /\ CopiesAgree /\ [Next]_vars => CopiesAgree'
  <1> DEFINE Goal == /\ \A k \in Keys : Still(mem'[k], k) /\ Still(db'[k], k)
                     /\ \A c \in Clients : Still(op'[c].row, op'[c].key)
                     /\ \A r \in late' : Still(r.row, r.key)
  <1> SUFFICES ASSUME TypeOK, CopiesAgree, [Next]_vars PROVE Goal
    BY DEF CopiesAgree, Matches, Still
  <1>a. /\ \A k \in Keys : Still(mem[k], k) /\ Still(db[k], k)
        /\ \A c \in Clients : Still(op[c].row, op[c].key)
        /\ \A r \in late : Still(r.row, r.key)
    BY CopiesStay
  <1>b. \A k : Still(None, k)
    BY DEF Still
  <1>1. ASSUME NEW c \in Clients, NEW k \in Keys, NEW p \in Plans, SaveBegin(c, k, p)
        PROVE  Goal
    <2> DEFINE e == [plan |-> p, exp |-> now + Ttl]
    <2>1. Still(e, k)
      BY <1>1 DEF SaveBegin, TypeOK, Still
    <2>2. \A d \in Clients : Still(op'[d].row, op'[d].key)
      BY <1>1, <1>a, <2>1 DEF SaveBegin, Starts, TypeOK
    <2>3. \A j \in Keys : Still(mem'[j], j)
      BY <1>1, <1>a, <2>1 DEF SaveBegin, TypeOK
    <2> QED
      BY <1>1, <1>a, <2>2, <2>3 DEF SaveBegin
  <1>2. ASSUME NEW c \in Clients, NEW k \in Keys, TakeBegin(c, k)
        PROVE  Goal
    BY <1>2, <1>a, <1>b DEF TakeBegin, Starts, TypeOK
  <1>3. ASSUME NEW c \in Clients, NEW k \in Keys, ClearBegin(c, k)
        PROVE  Goal
    BY <1>3, <1>a, <1>b DEF ClearBegin, Starts, TypeOK
  <1>4. ASSUME NEW c \in Clients, DbApply(c)
        PROVE  Goal
    <2>1. op[c] \in Operation
      BY <1>4, Busy DEF DbApply
    <2>2. op[c].key \in Keys
      BY <2>1 DEF Operation
    <2>3. Still(Answer(op[c]), op[c].key) /\ Still(RowAfter(op[c]), op[c].key)
      BY <1>a, <1>b, <2>2 DEF Answer, RowAfter
    <2>4. \A k \in Keys : Still(db'[k], k)
      BY <1>4, <1>a, <2>2, <2>3 DEF DbApply, TypeOK
    <2>5. /\ op'[c].row = Answer(op[c]) /\ op'[c].key = op[c].key
          /\ \A d \in Clients \ {c} : op'[d] = op[d]
      BY <1>4, <2>1 DEF DbApply, TypeOK, Operation
    <2> QED
      BY <1>4, <1>a, <2>3, <2>4, <2>5 DEF DbApply
  <1>5. ASSUME NEW r \in late, ApplyLate(r)
        PROVE  Goal
    <2>1. r.key \in Keys
      BY DEF TypeOK, Request
    <2>2. Still(RowAfter(r), r.key)
      BY <1>a, <1>b DEF RowAfter
    <2> QED
      BY <1>5, <1>a, <2>1, <2>2 DEF ApplyLate, TypeOK
  <1>6. ASSUME NEW c \in Clients, TakeAnswered(c)
        PROVE  Goal
    BY <1>6, <1>a, <1>b DEF TakeAnswered, Returns, TypeOK, NoOp
  <1>7. ASSUME NEW c \in Clients, TakeRaises(c)
        PROVE  Goal
    <2>1. op[c] \in Operation
      BY <1>7, Busy DEF TakeRaises
    <2>2. \A r \in late' : Still(r.row, r.key)
      BY <1>7, <1>a, <2>1, RaisesAgree DEF TakeRaises
    <2>3. /\ op'[c].row = None
          /\ \A d \in Clients \ {c} : op'[d] = op[d]
      BY <1>7, <2>1 DEF TakeRaises, TypeOK, Operation
    <2> QED
      BY <1>7, <1>a, <1>b, <2>2, <2>3 DEF TakeRaises
  <1>8. ASSUME NEW c \in Clients, TakeFallback(c)
        PROVE  Goal
    BY <1>8, <1>a, <1>b DEF TakeFallback, Returns, TypeOK, NoOp
  <1>9. ASSUME NEW c \in Clients, SaveEnds(c) \/ ClearEnds(c)
        PROVE  Goal
    <2>1. op[c] \in Operation
      BY <1>9, Busy DEF SaveEnds, ClearEnds
    <2>2. \A r \in late' : Still(r.row, r.key)
      BY <1>9, <1>a, <2>1, RaisesAgree DEF SaveEnds, ClearEnds
    <2> QED
      BY <1>9, <1>a, <1>b, <2>2 DEF SaveEnds, ClearEnds, TypeOK, NoOp
  <1>10. CASE Restart
    BY <1>10, <1>a, <1>b DEF Restart, NoOp
  <1>11. CASE Tick \/ UNCHANGED vars
    BY <1>11, <1>a DEF Tick, vars
  <1> QED
    BY <1>1, <1>2, <1>3, <1>4, <1>5, <1>6, <1>7, <1>8, <1>9, <1>10, <1>11 DEF Next, Step

(* save writes one deadline to both copies: a plan in memory, in the table *)
(* or on the way always carries the conversation and deadline it was       *)
(* proposed with, under any faults.                                        *)
THEOREM CopiesAlwaysAgree == Spec => []CopiesAgree
  <1>1. Init => TypeOK /\ CopiesAgree
    BY InitType, InitAgree
  <1>2. TypeOK /\ CopiesAgree /\ [Next]_vars => TypeOK' /\ CopiesAgree'
    BY StepType, StepAgree
  <1> QED
    BY <1>1, <1>2, PTL DEF Spec

(* A release happens in TakeAnswered or TakeFallback, out of a copy of the *)
(* conversation the turn asked for.                                        *)
LEMMA ReleasedFrom ==
  ASSUME TypeOK, CopiesAgree, [Next]_vars, NEW p \in Plans, Released(p)
  PROVE  \E c \in Clients, e \in Entry :
            /\ e.plan = p /\ now < e.exp
            /\ op[c].kind = "take" /\ op' = [op EXCEPT ![c] = NoOp]
            /\ Matches(e, op[c].key)
  <1>1. ASSUME NEW c \in Clients, NEW e \in Entry \union {None}, Returns(c, e)
        PROVE  e \in Entry /\ e.plan = p /\ now < e.exp
    BY <1>1 DEF Returns, Unexpired, Released, TypeOK
  <1>2. ASSUME NEW c \in Clients, TakeAnswered(c)
        PROVE  \E e \in Entry : /\ e.plan = p /\ now < e.exp
                                /\ op[c].kind = "take" /\ op' = [op EXCEPT ![c] = NoOp]
                                /\ Matches(e, op[c].key)
    <2>1. op[c].row \in Entry \union {None}
      BY DEF TypeOK, Operation, NoOp
    <2> QED
      BY <1>1, <1>2, <2>1 DEF TakeAnswered, Returns, CopiesAgree
  <1>3. ASSUME NEW c \in Clients, TakeFallback(c)
        PROVE  \E e \in Entry : /\ e.plan = p /\ now < e.exp
                                /\ op[c].kind = "take" /\ op' = [op EXCEPT ![c] = NoOp]
                                /\ Matches(e, op[c].key)
    <2>1. op[c] \in Operation
      BY <1>3, Busy DEF TakeFallback
    <2>2. op[c].key \in Keys /\ op[c].kind = "take"
      BY <1>3, <2>1 DEF TakeFallback, Operation
    <2>3. mem[op[c].key] \in Entry \union {None}
      BY <2>2 DEF TypeOK
    <2> QED
      BY <1>1, <1>3, <2>2, <2>3 DEF TakeFallback, Returns, CopiesAgree
  <1> QED
    BY <1>2, <1>3 DEF Next, Step, vars, history, Released, SaveBegin, TakeBegin, ClearBegin,
                      DbApply, ApplyLate, TakeRaises, SaveEnds, ClearEnds, Restart, Tick

(* take checks the deadline on both of its paths, so under any faults no   *)
(* plan is released at or after it.                                        *)
THEOREM AlwaysReleasedInTime == Spec => ReleasedInTime
  <1>1. TypeOK /\ CopiesAgree /\ [Next]_vars
           => [\A p \in Plans : Released(p) => now < proposed[p].exp]_vars
    <2> SUFFICES ASSUME TypeOK, CopiesAgree, [Next]_vars, NEW p \in Plans, Released(p)
                 PROVE  now < proposed[p].exp
      OBVIOUS
    <2>1. PICK c \in Clients, e \in Entry : /\ e.plan = p /\ now < e.exp
                                            /\ Matches(e, op[c].key)
      BY ReleasedFrom
    <2>2. e # None
      BY NoneAssumption
    <2> QED
      BY <2>1, <2>2 DEF Matches
  <1> QED
    BY <1>1, TypeCorrect, CopiesAlwaysAgree, PTL DEF Spec, ReleasedInTime

(* Both copies are keyed by the conversation, so under any faults a turn   *)
(* gets only plans proposed in its own.                                    *)
THEOREM AlwaysReleasedInItsChat == Spec => ReleasedInItsChat
  <1>1. TypeOK /\ CopiesAgree /\ [Next]_vars
           => [\A c \in Clients, p \in Plans :
                 (Released(p) /\ op[c].kind = "take" /\ op'[c] = NoOp)
                    => proposed[p].key = op[c].key]_vars
    <2> SUFFICES ASSUME TypeOK, CopiesAgree, [Next]_vars, NEW c \in Clients, NEW p \in Plans,
                        Released(p), op[c].kind = "take", op'[c] = NoOp
                 PROVE  proposed[p].key = op[c].key
      OBVIOUS
    <2>1. PICK d \in Clients, e \in Entry : /\ e.plan = p
                                            /\ op' = [op EXCEPT ![d] = NoOp]
                                            /\ Matches(e, op[d].key)
      BY ReleasedFrom
    <2>2. e # None /\ op[c] # NoOp
      BY NoneAssumption DEF NoOp
    <2>3. c = d
      BY <2>1, <2>2 DEF TypeOK
    <2> QED
      BY <2>1, <2>2, <2>3 DEF Matches
  <1> QED
    BY <1>1, TypeCorrect, CopiesAlwaysAgree, PTL DEF Spec, ReleasedInItsChat

-----------------------------------------------------------------------------
(* Single use.  A release is counted once because there is one copy to     *)
(* release from: the memory entry when no row is ever stored, and else the *)
(* one of the row, the request on its way to the table and the hand of the *)
(* take that has deleted the row.                                          *)

Unreleased(e) == e = None \/ releases[e.plan] = 0
NewUnreleased == \A p \in Plans : proposed[p] = None => releases[p] = 0

LEMMA CopiesProposed ==
  ASSUME TypeOK, NEW e \in Entry, NEW k \in Keys, Matches(e, k)
  PROVE  e.plan \in Plans /\ proposed[e.plan] # None
  BY NoneAssumption DEF Entry, Proposal, Matches

(* The memory store. *)
MemoryOnce ==
    /\ \A k \in Keys : db[k] = None
    /\ \A k \in Keys : Unreleased(mem[k])
    /\ \A c \in Clients : op[c].stage # "applied"
    /\ Reachable => late = {} /\ \A c \in Clients : op[c].stage # "sent"
    /\ NewUnreleased
    /\ SingleUse

LEMMA InitMemoryOnce == Init => MemoryOnce
  BY DEF Init, MemoryOnce, Unreleased, NewUnreleased, SingleUse, NoOp

LEMMA StepMemoryOnce ==
  ASSUME InMemoryOnly, TypeOK, CopiesAgree, MemoryOnce, [Next]_vars
  PROVE  MemoryOnce'
  <1> USE DEF Unreleased, NewUnreleased, SingleUse
  <1>1. ASSUME NEW c \in Clients, NEW k \in Keys, NEW p \in Plans, SaveBegin(c, k, p)
        PROVE  MemoryOnce'
    <2>1. releases[p] = 0
      BY <1>1 DEF SaveBegin, MemoryOnce
    <2>2. \A j \in Keys : Unreleased(mem[j])'
      BY <1>1, <2>1 DEF SaveBegin, MemoryOnce, TypeOK
    <2>3. \A d \in Clients : /\ op'[d].stage # "applied"
                             /\ Reachable => op'[d].stage # "sent"
      BY <1>1 DEF SaveBegin, Starts, MemoryOnce, TypeOK, InMemoryOnly
    <2>4. \A q \in Plans : proposed'[q] = None => releases[q] = 0
      BY <1>1, <2>1 DEF SaveBegin, MemoryOnce, TypeOK
    <2> QED
      BY <1>1, <2>2, <2>3, <2>4 DEF SaveBegin, MemoryOnce
  <1>2. ASSUME NEW c \in Clients, NEW k \in Keys, TakeBegin(c, k) \/ ClearBegin(c, k)
        PROVE  MemoryOnce'
    BY <1>2 DEF TakeBegin, ClearBegin, Starts, MemoryOnce, TypeOK, InMemoryOnly, history
  <1>3. ASSUME NEW c \in Clients, TakeFallback(c)
        PROVE  MemoryOnce'
    <2> DEFINE j == op[c].key
    <2>1. j \in Keys
      BY <1>3, Busy DEF TakeFallback, Operation
    <2>2. mem[j] \in Entry \union {None}
      BY <2>1 DEF TypeOK
    <2>3. \A d \in Clients : op'[d] = op[d] \/ op'[d] = NoOp
      BY <1>3 DEF TakeFallback, Returns, TypeOK
    <2>4. CASE ~Unexpired(mem[j])
      BY <1>3, <2>1, <2>3, <2>4 DEF TakeFallback, Returns, MemoryOnce, TypeOK, NoOp
    <2>5. CASE Unexpired(mem[j])
      <3> DEFINE p == mem[j].plan
      <3>1. mem[j] \in Entry
        BY <2>2, <2>5 DEF Unexpired
      <3>2. p \in Plans /\ proposed[p] # None /\ proposed[p].key = j
        <4>1. mem[j] # None /\ Matches(mem[j], j)
          BY <2>1, <2>5 DEF CopiesAgree, Unexpired
        <4> QED
          BY <2>1, <3>1, <4>1, CopiesProposed DEF Matches
      <3>3. releases[p] = 0
        BY <2>1, <2>5 DEF MemoryOnce, Unexpired
      <3>4. releases' = [releases EXCEPT ![p] = 1]
        BY <1>3, <2>5, <3>2, <3>3 DEF TakeFallback, Returns, TypeOK
      <3>5. ASSUME NEW i \in Keys \ {j}, mem[i] # None
            PROVE  mem[i].plan # p
        <4>1. Matches(mem[i], i)
          BY DEF CopiesAgree
        <4>2. proposed[mem[i].plan].key = i
          BY <3>5, <4>1 DEF Matches
        <4> QED
          BY <3>2, <4>2
      <3>6. \A i \in Keys : Unreleased(mem[i])'
        BY <1>3, <2>1, <3>4, <3>5 DEF TakeFallback, MemoryOnce, TypeOK, Entry
      <3> QED
        BY <1>3, <2>3, <3>2, <3>4, <3>6 DEF TakeFallback, MemoryOnce, TypeOK, NoOp
    <2> QED
      BY <2>4, <2>5
  <1>4. ASSUME NEW c \in Clients, TakeRaises(c)
        PROVE  MemoryOnce'
    <2>1. op[c] \in Operation
      BY <1>4, Busy DEF TakeRaises
    <2>2. op[c].stage = "sent"
      BY <1>4 DEF TakeRaises, Raises, Refused, Lost, TimedOut, MemoryOnce
    <2>3. \A d \in Clients : op'[d] = op[d] \/ op'[d].stage = "fallback"
      BY <1>4, <2>1 DEF TakeRaises, TypeOK, Operation
    <2> QED
      BY <1>4, <2>2, <2>3 DEF TakeRaises, MemoryOnce, history
  <1>5. ASSUME NEW c \in Clients, SaveEnds(c) \/ ClearEnds(c)
        PROVE  MemoryOnce'
    <2>1. op[c].stage = "sent"
      BY <1>5 DEF SaveEnds, ClearEnds, Ends, Raises, Refused, Lost, TimedOut, MemoryOnce
    <2> QED
      BY <1>5, <2>1 DEF SaveEnds, ClearEnds, MemoryOnce, TypeOK, NoOp
  <1>6. CASE Restart
    BY <1>6 DEF Restart, MemoryOnce, NoOp, history
  <1>7. CASE Tick \/ UNCHANGED vars
    BY <1>7 DEF Tick, vars, MemoryOnce, history
  <1>8. /\ \A c \in Clients : ~DbApply(c) /\ ~TakeAnswered(c)
        /\ \A r \in late : ~ApplyLate(r)
    BY DEF DbApply, TakeAnswered, ApplyLate, MemoryOnce
  <1> QED
    BY <1>1, <1>2, <1>3, <1>4, <1>5, <1>6, <1>7, <1>8 DEF Next, Step

(* The table, when no request fails.  Live rows are those a database could *)
(* still receive or has already given away: the row of a save not applied  *)
(* yet and the row a take has deleted.                                     *)
Live(c) == /\ op[c].row # None
           /\ op[c].kind = "save" => op[c].stage = "sent"

TableOnce ==
    /\ late = {}
    /\ \A c \in Clients : op[c].stage # "fallback"
    /\ \A k \in Keys : Unreleased(db[k])
    /\ \A c \in Clients : Live(c) => Unreleased(op[c].row)
    /\ \A c, d \in Clients : c # d /\ Live(c) /\ Live(d) => op[c].row.plan # op[d].row.plan
    /\ \A c \in Clients, k \in Keys : Live(c) /\ db[k] # None => op[c].row.plan # db[k].plan
    /\ NewUnreleased
    /\ SingleUse

LEMMA InitTableOnce == Init => TableOnce
  BY DEF Init, TableOnce, Unreleased, NewUnreleased, SingleUse, Live, NoOp

(* Copies of different conversations are copies of different plans, and a  *)
(* plan not yet proposed has no copy.                                      *)
LEMMA CopiesDiffer ==
  ASSUME TypeOK, CopiesAgree
  PROVE  /\ \A j, k \in Keys : j # k /\ db[j] # None /\ db[k] # None => db[j].plan # db[k].plan
         /\ \A k \in Keys : db[k] # None => proposed[db[k].plan] # None
         /\ \A c \in Clients : Live(c) => proposed[op[c].row.plan] # None
  <1>1. ASSUME NEW k \in Keys, db[k] # None
        PROVE  proposed[db[k].plan] # None /\ proposed[db[k].plan].key = k
    <2>1. db[k] \in Entry /\ Matches(db[k], k)
      BY <1>1 DEF TypeOK, CopiesAgree
    <2> QED
      BY <1>1, <2>1, CopiesProposed DEF Matches
  <1>2. ASSUME NEW c \in Clients, Live(c)
        PROVE  proposed[op[c].row.plan] # None
    <2>1. op[c].row \in Entry /\ op[c].key \in Keys /\ Matches(op[c].row, op[c].key)
      BY <1>2 DEF TypeOK, CopiesAgree, Live, Operation, NoOp
    <2> QED
      BY <2>1, CopiesProposed
  <1> QED
    BY <1>1, <1>2

LEMMA StepTableOnce ==
  ASSUME Faults = {}, ~InMemoryOnly, TypeOK, CopiesAgree, TableOnce, [Next]_vars
  PROVE  TableOnce'
  <1> USE DEF Unreleased, NewUnreleased, SingleUse
  <1>a. Configured /\ Reachable
    BY DEF InMemoryOnly
  <1>b. \A c \in Clients : ~Raises(c)
    BY DEF Raises, Refused, Lost, TimedOut, Fails
  <1>1. ASSUME NEW c \in Clients, NEW k \in Keys, NEW p \in Plans, SaveBegin(c, k, p)
        PROVE  TableOnce'
    <2>1. releases[p] = 0
      BY <1>1 DEF SaveBegin, TableOnce
    <2>2. /\ op'[c].row.plan = p /\ op'[c].stage = "sent"
          /\ \A d \in Clients \ {c} : op'[d] = op[d]
      BY <1>1, <1>a DEF SaveBegin, Starts, TypeOK
    <2>3. \A d \in Clients \ {c} : Live(d)' => Live(d) /\ op[d].row.plan # p
      BY <1>1, <2>2, CopiesDiffer DEF SaveBegin, Live
    <2>4. \A j \in Keys : db[j] # None => db[j].plan # p
      BY <1>1, CopiesDiffer DEF SaveBegin
    <2>5. \A q \in Plans : proposed'[q] = None => releases[q] = 0
      BY <1>1, <2>1 DEF SaveBegin, TableOnce, TypeOK
    <2> QED
      BY <1>1, <2>1, <2>2, <2>3, <2>4, <2>5 DEF SaveBegin, TableOnce, Live
  <1>2. ASSUME NEW c \in Clients, NEW k \in Keys, TakeBegin(c, k) \/ ClearBegin(c, k)
        PROVE  TableOnce'
    <2>1. /\ op'[c].row = None /\ op'[c].stage = "sent"
          /\ \A d \in Clients \ {c} : op'[d] = op[d]
      BY <1>2, <1>a DEF TakeBegin, ClearBegin, Starts, TypeOK
    <2> QED
      BY <1>2, <2>1 DEF TakeBegin, ClearBegin, TableOnce, Live, history
  <1>3. ASSUME NEW c \in Clients, DbApply(c)
        PROVE  TableOnce'
    <2> DEFINE k == op[c].key
    <2>1. op[c] \in Operation
      BY <1>3, Busy DEF DbApply
    <2>2. k \in Keys /\ op[c].kind \in Kinds
      BY <2>1 DEF Operation
    <2>3. /\ db'[k] = RowAfter(op[c]) /\ \A j \in Keys \ {k} : db'[j] = db[j]
          /\ op'[c].row = Answer(op[c]) /\ op'[c].kind = op[c].kind
          /\ op'[c].stage = "applied" /\ \A d \in Clients \ {c} : op'[d] = op[d]
      BY <1>3, <2>1, <2>2 DEF DbApply, TypeOK, Operation
    <2>4. \A d \in Clients \ {c} : Live(d)' <=> Live(d)
      BY <2>3 DEF Live
    <2>5. CASE op[c].kind = "save"
      <3>1. Live(c) /\ ~Live(c)' /\ db'[k] = op[c].row
        BY <1>3, <2>1, <2>3, <2>5 DEF Live, DbApply, RowAfter, Operation, Answer
      <3> QED
        BY <1>3, <2>3, <2>4, <3>1 DEF DbApply, TableOnce, history
    <2>6. CASE op[c].kind = "take"
      <3>1. db'[k] = None /\ op'[c].row = db[k]
        BY <2>3, <2>6 DEF RowAfter, Answer
      <3>2. \A j \in Keys \ {k} : db[j] # None /\ db[k] # None => db[j].plan # db[k].plan
        BY <2>2, CopiesDiffer
      <3> QED
        BY <1>3, <2>2, <2>3, <2>4, <3>1, <3>2 DEF DbApply, TableOnce, history, Live
    <2>7. CASE op[c].kind = "clear"
      <3>1. db'[k] = None /\ op'[c].row = op[c].row /\ (Live(c)' <=> Live(c))
        BY <2>3, <2>7 DEF RowAfter, Answer, Live
      <3> QED
        BY <1>3, <2>2, <2>3, <2>4, <3>1 DEF DbApply, TableOnce, history
    <2> QED
      BY <2>2, <2>5, <2>6, <2>7
  <1>4. ASSUME NEW c \in Clients, TakeAnswered(c)
        PROVE  TableOnce'
    <2>1. /\ ~Live(c)' /\ op'[c].stage = "idle"
          /\ \A d \in Clients \ {c} : op'[d] = op[d]
      BY <1>4 DEF TakeAnswered, Returns, TypeOK, Live, NoOp
    <2>2. \A d \in Clients \ {c} : Live(d)' <=> Live(d)
      BY <2>1 DEF Live
    <2>3. CASE ~Unexpired(op[c].row)
      BY <1>4, <2>1, <2>2, <2>3 DEF TakeAnswered, Returns, TableOnce
    <2>4. CASE Unexpired(op[c].row)
      <3> DEFINE p == op[c].row.plan
      <3>1. Live(c) /\ op[c].row \in Entry
        BY <1>4, <2>4, Busy DEF TakeAnswered, Unexpired, Live, Operation
      <3>2. p \in Plans /\ proposed[p] # None /\ releases[p] = 0
        BY <3>1, CopiesDiffer DEF TableOnce, Live, Entry
      <3>3. releases' = [releases EXCEPT ![p] = 1]
        BY <1>4, <2>4, <3>2 DEF TakeAnswered, Returns, TypeOK
      <3>4. \A k \in Keys : db[k] # None => db[k].plan # p /\ db[k].plan \in Plans
        BY <3>1 DEF TableOnce, TypeOK, Entry
      <3>5. ASSUME NEW d \in Clients, Live(d)'
            PROVE  Unreleased(op[d].row)'
        <4>1. d # c /\ Live(d) /\ op'[d] = op[d]
          BY <2>1, <2>2, <3>5
        <4>2. op[d].row.plan # p /\ op[d].row.plan \in Plans
          BY <3>1, <4>1 DEF TableOnce, TypeOK, Operation, NoOp, Live, Entry
        <4> QED
          BY <3>3, <4>1, <4>2 DEF TableOnce, TypeOK
      <3>6. \A k \in Keys : Unreleased(db[k])'
        BY <1>4, <3>3, <3>4 DEF TakeAnswered, TableOnce, TypeOK
      <3> QED
        BY <1>4, <2>1, <2>2, <3>2, <3>3, <3>5, <3>6 DEF TakeAnswered, TableOnce, TypeOK
    <2> QED
      BY <2>3, <2>4
  <1>5. ASSUME NEW c \in Clients, SaveEnds(c) \/ ClearEnds(c)
        PROVE  TableOnce'
    <2>1. /\ ~Live(c)' /\ op'[c].stage = "idle"
          /\ \A d \in Clients \ {c} : op'[d] = op[d]
      BY <1>5 DEF SaveEnds, ClearEnds, TypeOK, Live, NoOp
    <2>2. UNCHANGED <<late, db, releases, proposed>>
      BY <1>5, <1>b DEF SaveEnds, ClearEnds, Ends
    <2> QED
      BY <2>1, <2>2 DEF TableOnce, Live
  <1>6. CASE Restart
    <2>1. \A c \in Clients : op'[c] = NoOp
      BY <1>6 DEF Restart
    <2>2. late' = {}
      BY <1>6 DEF Restart, Fails, TableOnce
    <2> QED
      BY <1>6, <2>1, <2>2 DEF Restart, TableOnce, Live, NoOp, history
  <1>7. CASE Tick \/ UNCHANGED vars
    BY <1>7 DEF Tick, vars, TableOnce, Live, history
  <1>8. /\ \A c \in Clients : ~TakeRaises(c) /\ ~TakeFallback(c)
        /\ \A r \in late : ~ApplyLate(r)
    BY <1>b DEF TakeRaises, TakeFallback, TableOnce
  <1> QED
    BY <1>1, <1>2, <1>3, <1>4, <1>5, <1>6, <1>7, <1>8 DEF Next, Step

(* Single use, where the code can promise it: no request fails, or no      *)
(* database ever stores a row.                                             *)
THEOREM AlwaysSingleUse ==
  ASSUME Faults = {} \/ InMemoryOnly
  PROVE  Spec => []SingleUse
  <1>1. CASE InMemoryOnly
    <2>1. TypeOK /\ CopiesAgree /\ MemoryOnce /\ [Next]_vars => MemoryOnce'
      BY <1>1, StepMemoryOnce
    <2>2. MemoryOnce => SingleUse
      BY DEF MemoryOnce
    <2> QED
      BY <2>1, <2>2, InitMemoryOnce, TypeCorrect, CopiesAlwaysAgree, PTL DEF Spec
  <1>2. CASE Faults = {} /\ ~InMemoryOnly
    <2>1. TypeOK /\ CopiesAgree /\ TableOnce /\ [Next]_vars => TableOnce'
      BY <1>2, StepTableOnce
    <2>2. TableOnce => SingleUse
      BY DEF TableOnce
    <2> QED
      BY <2>1, <2>2, InitTableOnce, TypeCorrect, CopiesAlwaysAgree, PTL DEF Spec
  <1> QED
    BY <1>1, <1>2

-----------------------------------------------------------------------------
(* The refinement.  A take holds a row only after the database has deleted *)
(* it, so what is in the hands of turns is what has left the slots.        *)

HandsOnlyTaken ==
    \A c \in Clients : op[c].row # None =>
        op[c].kind = "save" \/ (op[c].kind = "take" /\ op[c].stage = "applied")

LEMMA InitHands == Init => HandsOnlyTaken
  BY DEF Init, HandsOnlyTaken, NoOp

LEMMA StepHands ==
  ASSUME TypeOK, HandsOnlyTaken, [Next]_vars
  PROVE  HandsOnlyTaken'
  <1>1. ASSUME NEW c \in Clients, NEW k \in Keys,
               (\E p \in Plans : SaveBegin(c, k, p)) \/ TakeBegin(c, k) \/ ClearBegin(c, k)
        PROVE  HandsOnlyTaken'
    BY <1>1 DEF SaveBegin, TakeBegin, ClearBegin, Starts, HandsOnlyTaken, TypeOK
  <1>2. ASSUME NEW c \in Clients, DbApply(c)
        PROVE  HandsOnlyTaken'
    <2>1. op[c] \in Operation
      BY <1>2, Busy DEF DbApply
    <2>2. /\ op'[c].kind = op[c].kind /\ op'[c].stage = "applied" /\ op'[c].row = Answer(op[c])
          /\ \A d \in Clients \ {c} : op'[d] = op[d]
      BY <1>2, <2>1 DEF DbApply, TypeOK, Operation
    <2> QED
      BY <2>2 DEF HandsOnlyTaken, Answer
  <1>3. ASSUME NEW c \in Clients, TakeAnswered(c) \/ TakeFallback(c) \/ SaveEnds(c) \/ ClearEnds(c)
        PROVE  HandsOnlyTaken'
    BY <1>3 DEF TakeAnswered, TakeFallback, SaveEnds, ClearEnds, Returns, HandsOnlyTaken, TypeOK, NoOp
  <1>4. ASSUME NEW c \in Clients, TakeRaises(c)
        PROVE  HandsOnlyTaken'
    <2>1. op[c] \in Operation
      BY <1>4, Busy DEF TakeRaises
    <2> QED
      BY <1>4, <2>1 DEF TakeRaises, HandsOnlyTaken, TypeOK, Operation
  <1>5. CASE Restart
    BY <1>5 DEF Restart, HandsOnlyTaken, NoOp
  <1>6. CASE Tick \/ (\E r \in late : ApplyLate(r)) \/ UNCHANGED vars
    BY <1>6 DEF Tick, ApplyLate, vars, HandsOnlyTaken
  <1> QED
    BY <1>1, <1>2, <1>3, <1>4, <1>5, <1>6 DEF Next, Step

-----------------------------------------------------------------------------
(* At most two releases, however requests fail.  A plan has two copies to  *)
(* be released from: the memory entry, and the one that save sends to the  *)
(* table, which is on its way there, in it, or in the hand of the take     *)
(* that deleted the row.  A failure may leave either behind when the other *)
(* is released; it makes no third.                                         *)
OfPlan(e, p) == e # None /\ e.plan = p

Held(k, p) == OfPlan(mem[k], p)
Stored(k, p) == OfPlan(db[k], p)
Carried(c, p) == Live(c) /\ OfPlan(op[c].row, p)
Delayed(r, p) == OfPlan(r.row, p)

InMemory(p) == \E k \in Keys : Held(k, p)
ForTable(p) == \/ \E k \in Keys : Stored(k, p)
               \/ \E c \in Clients : Carried(c, p)
               \/ \E r \in late : Delayed(r, p)

\* The table's copy is in one place.
OneRow(p) ==
    /\ \A j, k \in Keys : Stored(j, p) /\ Stored(k, p) => j = k
    /\ \A c, d \in Clients : Carried(c, p) /\ Carried(d, p) => c = d
    /\ \A r, s \in late : Delayed(r, p) /\ Delayed(s, p) => r = s
    /\ \A c \in Clients, k \in Keys : ~(Carried(c, p) /\ Stored(k, p))
    /\ \A r \in late : Delayed(r, p) => /\ \A k \in Keys : ~Stored(k, p)
                                        /\ \A c \in Clients : ~Carried(c, p)

\* The copies that are left and the releases are two at most.
Spent(p) ==
    /\ releases[p] <= 2
    /\ InMemory(p) \/ ForTable(p) => releases[p] <= 1
    /\ InMemory(p) /\ ForTable(p) => releases[p] = 0

TwoCopies ==
    /\ HandsOnlyTaken
    /\ NewUnreleased
    /\ \A p \in Plans : OneRow(p) /\ Spent(p)

LEMMA InitTwoCopies == Init => TwoCopies
  BY InitHands DEF Init, TwoCopies, NewUnreleased, OneRow, Spent, InMemory, ForTable, Held, Stored,
                   Carried, Delayed, OfPlan, Live, NoOp

(* A plan has no copy before it is proposed, and the keys of its copies    *)
(* are the one it was proposed under.                                      *)
LEMMA CopiesKnown ==
  ASSUME TypeOK, CopiesAgree, NEW p \in Plans
  PROVE  /\ \A k \in Keys : Held(k, p) \/ Stored(k, p) =>
                               proposed[p] # None /\ proposed[p].key = k
         /\ \A c \in Clients : Carried(c, p) => proposed[p] # None /\ proposed[p].key = op[c].key
         /\ \A r \in late : Delayed(r, p) => proposed[p] # None /\ proposed[p].key = r.key
  <1>1. ASSUME NEW e \in Entry \union {None}, NEW k \in Keys, Matches(e, k), OfPlan(e, p)
        PROVE  proposed[p] # None /\ proposed[p].key = k
    BY <1>1, CopiesProposed DEF OfPlan, Matches
  <1>2. \A k \in Keys : Held(k, p) \/ Stored(k, p) => proposed[p] # None /\ proposed[p].key = k
    BY <1>1 DEF Held, Stored, CopiesAgree, TypeOK
  <1>3. ASSUME NEW c \in Clients, Carried(c, p)
        PROVE  proposed[p] # None /\ proposed[p].key = op[c].key
    <2>1. op[c].row \in Entry \union {None} /\ op[c].key \in Keys
      BY <1>3 DEF Carried, Live, TypeOK, Operation, NoOp
    <2> QED
      BY <1>1, <1>3, <2>1 DEF Carried, CopiesAgree
  <1>4. ASSUME NEW r \in late, Delayed(r, p)
        PROVE  proposed[p] # None /\ proposed[p].key = r.key
    <2>1. r.row \in Entry \union {None} /\ r.key \in Keys
      BY DEF TypeOK, Request
    <2> QED
      BY <1>1, <1>4, <2>1 DEF Delayed, CopiesAgree
  <1> QED
    BY <1>2, <1>3, <1>4

(* Copies may be dropped.                                                  *)
LEMMA DropsKeep ==
  ASSUME NEW p \in Plans, OneRow(p), Spent(p), releases[p] \in Nat, releases'[p] = releases[p],
         \A k \in Keys : (Held(k, p)' => Held(k, p)) /\ (Stored(k, p)' => Stored(k, p)),
         \A c \in Clients : Carried(c, p)' => Carried(c, p),
         \A r \in late' : Delayed(r, p) => r \in late
  PROVE  OneRow(p)' /\ Spent(p)'
  <1>1. OneRow(p)'
    BY DEF OneRow, Delayed
  <1>2. (InMemory(p)' => InMemory(p)) /\ (ForTable(p)' => ForTable(p))
    BY DEF InMemory, ForTable, Delayed
  <1>3. Spent(p)'
    BY <1>2 DEF Spent
  <1> QED
    BY <1>1, <1>3

(* The table's copy may move.                                              *)
LEMMA MovesKeep ==
  ASSUME NEW p \in Plans, Spent(p), releases[p] \in Nat, releases'[p] = releases[p], ForTable(p),
         \A k \in Keys : Held(k, p)' => Held(k, p)
  PROVE  Spent(p)'
  <1>1. InMemory(p)' => InMemory(p)
    BY DEF InMemory
  <1> QED
    BY <1>1 DEF Spent

\* A request that times out, or that a restart leaves on its way.
OnItsWay(c) == [kind |-> op[c].kind, key |-> op[c].key, row |-> op[c].row]

(* Turns C drop what they hold; the requests of some of them are still on  *)
(* their way.                                                              *)
LEMMA DropsToLate ==
  ASSUME TypeOK, CopiesAgree, NEW p \in Plans, OneRow(p), Spent(p),
         NEW C \in SUBSET Clients, NEW L \in SUBSET C,
         late' = late \union {OnItsWay(c) : c \in L}, \A c \in L : op[c].stage = "sent",
         HandsOnlyTaken,
         \A c \in C : ~Carried(c, p)', \A c \in Clients \ C : Carried(c, p)' => Carried(c, p),
         db' = db, releases' = releases, \A k \in Keys : Held(k, p)' => Held(k, p)
  PROVE  OneRow(p)' /\ Spent(p)'
  <1>1. releases[p] \in Nat /\ releases'[p] = releases[p] /\ \A k \in Keys : Stored(k, p)' => Stored(k, p)
    BY DEF TypeOK, Stored
  <1>2. ASSUME NEW c \in L, Delayed(OnItsWay(c), p)
        PROVE  Carried(c, p)
    BY <1>2 DEF Delayed, OnItsWay, Carried, Live, OfPlan
  <1>3. CASE \E c \in L : Delayed(OnItsWay(c), p)
    <2>1. PICK c \in L : Delayed(OnItsWay(c), p)
      BY <1>3
    <2>2. Carried(c, p) /\ c \in Clients
      BY <1>2, <2>1
    <2>3. \A d \in L : Delayed(OnItsWay(d), p) => d = c
      BY <1>2, <2>2 DEF OneRow
    <2>4. \A r \in late' : Delayed(r, p) => r = OnItsWay(c)
      BY <2>2, <2>3 DEF OneRow
    <2>5. \A d \in Clients : ~Carried(d, p)'
      BY <2>2 DEF OneRow
    <2>6. \A k \in Keys : ~Stored(k, p)'
      BY <1>1, <2>2 DEF OneRow
    <2>7. OneRow(p)'
      BY <2>4, <2>5, <2>6 DEF OneRow, Delayed
    <2> QED
      BY <1>1, <2>2, <2>7, MovesKeep DEF ForTable
  <1>4. CASE \A c \in L : ~Delayed(OnItsWay(c), p)
    BY <1>1, <1>4, DropsKeep
  <1> QED
    BY <1>3, <1>4

(* A take returns the copy e of a plan, which was the last of its kind.    *)
LEMMA ReturnsKeep ==
  ASSUME TypeOK, TwoCopies, NEW c \in Clients, NEW e \in Entry \union {None}, Returns(c, e),
         \A k \in Keys : mem'[k] = mem[k] \/ mem'[k] = None, UNCHANGED <<db, late>>,
         Unexpired(e) => \/ InMemory(e.plan) /\ ~InMemory(e.plan)'
                         \/ ForTable(e.plan) /\ ~ForTable(e.plan)'
  PROVE  \A p \in Plans : OneRow(p)' /\ Spent(p)'
  <1> SUFFICES ASSUME NEW p \in Plans
               PROVE  OneRow(p)' /\ Spent(p)'
    OBVIOUS
  <1>1. /\ OneRow(p) /\ Spent(p) /\ releases[p] \in Nat
        /\ \A k \in Keys : (Held(k, p)' => Held(k, p)) /\ (Stored(k, p)' => Stored(k, p))
        /\ \A r \in late' : Delayed(r, p) => r \in late
    BY DEF TwoCopies, TypeOK, Held, Stored, OfPlan
  <1>2. \A d \in Clients : Carried(d, p)' => Carried(d, p)
    BY DEF Returns, TypeOK, Carried, Live, NoOp
  <1>3. CASE releases'[p] = releases[p]
    BY <1>1, <1>2, <1>3, DropsKeep
  <1>4. CASE releases'[p] # releases[p]
    <2>1. Unexpired(e) /\ e.plan = p /\ releases'[p] = releases[p] + 1
      BY <1>4 DEF Returns, TypeOK, Entry, Unexpired
    <2>2. OneRow(p)'
      BY <1>1, <1>2 DEF OneRow, Delayed
    <2>3. (InMemory(p)' => InMemory(p)) /\ (ForTable(p)' => ForTable(p))
      BY <1>1, <1>2 DEF InMemory, ForTable, Delayed
    <2>4. \/ InMemory(p) /\ ~InMemory(p)'
          \/ ForTable(p) /\ ~ForTable(p)'
      BY <2>1
    <2>5. Spent(p)'
      BY <1>1, <2>1, <2>3, <2>4 DEF Spent
    <2> QED
      BY <2>2, <2>5
  <1> QED
    BY <1>3, <1>4

LEMMA StepTwoCopies ==
  ASSUME TypeOK, CopiesAgree, TwoCopies, [Next]_vars
  PROVE  TwoCopies'
  <1>h. HandsOnlyTaken'
    BY StepHands DEF TwoCopies
  <1>n. NewUnreleased'
    <2>1. ASSUME NEW p \in Plans, proposed'[p] = None
          PROVE  proposed[p] = None
      BY <2>1, ProposedOnce, NoneAssumption DEF TypeOK
    <2>2. ASSUME NEW p \in Plans, Released(p)
          PROVE  proposed[p] # None
      <3>1. PICK c \in Clients, e \in Entry : e.plan = p /\ op[c].kind = "take" /\ Matches(e, op[c].key)
        BY <2>2, ReleasedFrom
      <3>2. op[c].key \in Keys
        BY <3>1, Busy DEF Operation
      <3> QED
        BY <3>1, <3>2, CopiesProposed
    <2> QED
      BY <2>1, <2>2 DEF TwoCopies, NewUnreleased, Released
  <1> SUFFICES \A p \in Plans : OneRow(p)' /\ Spent(p)'
    BY <1>h, <1>n DEF TwoCopies
  <1>a. \A p \in Plans : OneRow(p) /\ Spent(p) /\ releases[p] \in Nat
    BY DEF TwoCopies, TypeOK
  <1>1. ASSUME NEW c \in Clients, NEW k \in Keys, NEW p \in Plans, SaveBegin(c, k, p), NEW q \in Plans
        PROVE  OneRow(q)' /\ Spent(q)'
    <2>1. UNCHANGED <<db, late, releases>> /\ proposed[p] = None
      BY <1>1 DEF SaveBegin
    <2>2. \A j \in Keys : (Stored(j, q)' => Stored(j, q)) /\ (q # p /\ Held(j, q)' => Held(j, q))
      BY <1>1, <2>1 DEF SaveBegin, TypeOK, Held, Stored, OfPlan
    <2>3. \A d \in Clients : /\ d # c => (Carried(d, q)' => Carried(d, q))
                             /\ q # p => (Carried(d, q)' => Carried(d, q))
      BY <1>1 DEF SaveBegin, Starts, TypeOK, Carried, Live, OfPlan
    <2>4. CASE q # p
      BY <1>a, <2>1, <2>2, <2>3, <2>4, DropsKeep
    <2>5. CASE q = p
      <3>1. /\ \A j \in Keys : ~Stored(j, q)' /\ \A r \in late' : ~Delayed(r, q)
            /\ \A d \in Clients \ {c} : ~Carried(d, q)'
        BY <2>1, <2>2, <2>3, <2>5, CopiesKnown
      <3>2. releases'[q] = 0
        BY <2>1, <2>5 DEF TwoCopies, NewUnreleased
      <3> QED
        BY <3>1, <3>2 DEF OneRow, Spent, Delayed
    <2> QED
      BY <2>4, <2>5
  <1>2. ASSUME NEW c \in Clients, NEW k \in Keys, TakeBegin(c, k) \/ ClearBegin(c, k), NEW p \in Plans
        PROVE  OneRow(p)' /\ Spent(p)'
    <2>1. UNCHANGED <<db, late, releases>>
      BY <1>2 DEF TakeBegin, ClearBegin, history
    <2>2. \A j \in Keys : (Held(j, p)' => Held(j, p)) /\ (Stored(j, p)' => Stored(j, p))
      BY <1>2, <2>1 DEF TakeBegin, ClearBegin, TypeOK, Held, Stored, OfPlan
    <2>3. \A d \in Clients : Carried(d, p)' => Carried(d, p)
      BY <1>2 DEF TakeBegin, ClearBegin, Starts, TypeOK, Carried, Live
    <2> QED
      BY <1>a, <2>1, <2>2, <2>3, DropsKeep
  <1>3. ASSUME NEW c \in Clients, DbApply(c), NEW p \in Plans
        PROVE  OneRow(p)' /\ Spent(p)'
    <2>k. PICK k \in Keys : k = op[c].key
      BY <1>3, Busy DEF DbApply, Operation
    <2>1. op[c] \in Operation /\ k \in Keys /\ op[c].stage = "sent"
      BY <1>3, Busy DEF DbApply
    <2>2. /\ db'[k] = RowAfter(op[c]) /\ \A j \in Keys \ {k} : db'[j] = db[j]
          /\ op'[c].row = Answer(op[c]) /\ op'[c].kind = op[c].kind
          /\ op'[c].stage = "applied" /\ \A d \in Clients \ {c} : op'[d] = op[d]
      BY <1>3, <2>k, <2>1 DEF DbApply, TypeOK, Operation
    <2>3. UNCHANGED <<mem, late, releases>>
      BY <1>3 DEF DbApply, history
    <2>4. /\ \A j \in Keys : Held(j, p)' => Held(j, p)
          /\ \A j \in Keys \ {k} : Stored(j, p)' => Stored(j, p)
          /\ \A d \in Clients \ {c} : Carried(d, p)' => Carried(d, p)
      BY <2>2, <2>3 DEF Held, Stored, Carried, Live
    <2>5. CASE op[c].kind = "save"
      <3>1. /\ ~Carried(c, p)' /\ (Stored(k, p)' => Carried(c, p))
        BY <2>1, <2>2, <2>5 DEF Carried, Live, Stored, OfPlan, RowAfter
      <3>2. CASE Carried(c, p)
        <4>1. OneRow(p)'
          BY <1>a, <2>3, <2>4, <3>1, <3>2 DEF OneRow, Delayed
        <4> QED
          BY <1>a, <2>3, <2>4, <3>2, <4>1, MovesKeep DEF ForTable
      <3>3. CASE ~Carried(c, p)
        BY <1>a, <2>3, <2>4, <3>1, <3>3, DropsKeep
      <3> QED
        BY <3>2, <3>3
    <2>6. CASE op[c].kind # "save"
      <3>1. ~Stored(k, p)' /\ (Carried(c, p)' => Stored(k, p) \/ Carried(c, p))
        BY <2>k, <2>1, <2>2, <2>6 DEF Carried, Live, Stored, OfPlan, RowAfter, Answer
      <3>2. CASE Stored(k, p)
        <4>1. OneRow(p)'
          BY <1>a, <2>1, <2>3, <2>4, <3>1, <3>2 DEF OneRow, Delayed
        <4> QED
          BY <1>a, <2>1, <2>3, <2>4, <3>2, <4>1, MovesKeep DEF ForTable
      <3>3. CASE ~Stored(k, p)
        BY <1>a, <2>3, <2>4, <3>1, <3>3, DropsKeep
      <3> QED
        BY <3>2, <3>3
    <2> QED
      BY <2>5, <2>6
  <1>4. ASSUME NEW r \in late, ApplyLate(r), NEW p \in Plans
        PROVE  OneRow(p)' /\ Spent(p)'
    <2>1. r.key \in Keys /\ late' = late \ {r} /\ UNCHANGED <<mem, op, releases>>
      BY <1>4 DEF ApplyLate, TypeOK, Request, history
    <2>2. /\ \A j \in Keys : Held(j, p)' => Held(j, p)
          /\ \A c \in Clients : Carried(c, p)' => Carried(c, p)
          /\ \A j \in Keys \ {r.key} : Stored(j, p)' => Stored(j, p)
          /\ Stored(r.key, p)' => Delayed(r, p)
      BY <1>4, <2>1 DEF ApplyLate, TypeOK, Held, Carried, Live, Stored, Delayed, OfPlan, RowAfter
    <2>3. CASE Delayed(r, p)
      <3>1. OneRow(p)'
        BY <1>a, <2>1, <2>2, <2>3 DEF OneRow, Delayed
      <3> QED
        BY <1>a, <2>1, <2>2, <2>3, <3>1, MovesKeep DEF ForTable
    <2>4. CASE ~Delayed(r, p)
      BY <1>a, <2>1, <2>2, <2>4, DropsKeep
    <2> QED
      BY <2>3, <2>4
  <1>5. ASSUME NEW c \in Clients, TakeAnswered(c)
        PROVE  \A p \in Plans : OneRow(p)' /\ Spent(p)'
    <2>e. PICK e \in Entry \union {None} : e = op[c].row
      BY <1>5, Busy DEF TakeAnswered, Operation
    <2>1. op[c] \in Operation /\ op[c].kind = "take"
      BY <1>5, Busy DEF TakeAnswered
    <2>2. Returns(c, e) /\ UNCHANGED <<db, late>> /\ op' = [op EXCEPT ![c] = NoOp]
      BY <1>5, <2>e DEF TakeAnswered, Returns
    <2>3. \A k \in Keys : mem'[k] = mem[k] \/ mem'[k] = None
      BY <1>5 DEF TakeAnswered, TypeOK
    <2>4. ASSUME Unexpired(e)
          PROVE  ForTable(e.plan) /\ ~ForTable(e.plan)'
      <3>1. Carried(c, e.plan) /\ e.plan \in Plans
        BY <2>e, <2>1, <2>4 DEF Unexpired, Carried, Live, OfPlan, Entry
      <3>2. /\ ~Carried(c, e.plan)' /\ \A d \in Clients \ {c} : Carried(d, e.plan)' => Carried(d, e.plan)
            /\ \A k \in Keys : Stored(k, e.plan)' => Stored(k, e.plan)
        BY <2>2 DEF TypeOK, Carried, Live, Stored, NoOp, OfPlan
      <3>3. OneRow(e.plan)
        BY <1>a, <3>1
      <3> QED
        BY <2>2, <3>1, <3>2, <3>3 DEF OneRow, ForTable, Delayed
    <2> QED
      BY <2>1, <2>2, <2>3, <2>4, ReturnsKeep
  <1>6. ASSUME NEW c \in Clients, TakeFallback(c)
        PROVE  \A p \in Plans : OneRow(p)' /\ Spent(p)'
    <2>k. PICK k \in Keys : k = op[c].key
      BY <1>6, Busy DEF TakeFallback, Operation
    <2>1. PICK e \in Entry \union {None} : e = mem[k]
      BY DEF TypeOK
    <2>2. Returns(c, e) /\ UNCHANGED <<db, late>> /\ mem' = [mem EXCEPT ![k] = None]
      BY <1>6, <2>k, <2>1 DEF TakeFallback
    <2>3. ASSUME Unexpired(e)
          PROVE  InMemory(e.plan) /\ ~InMemory(e.plan)'
      <3>1. Held(k, e.plan) /\ e.plan \in Plans
        BY <2>1, <2>3 DEF Unexpired, Held, OfPlan, Entry
      <3>2. \A j \in Keys : Held(j, e.plan) => j = k
        BY <3>1, CopiesKnown
      <3>3. \A j \in Keys : ~Held(j, e.plan)'
        BY <2>2, <3>2 DEF TypeOK, Held, OfPlan
      <3> QED
        BY <3>1, <3>3 DEF InMemory
    <2> QED
      BY <2>1, <2>2, <2>3, ReturnsKeep DEF TypeOK
  <1>7. ASSUME NEW c \in Clients, TakeRaises(c) \/ SaveEnds(c) \/ ClearEnds(c), NEW p \in Plans
        PROVE  OneRow(p)' /\ Spent(p)'
    <2>1. op[c] \in Operation /\ op[c].kind \in Kinds
      BY <1>7, Busy DEF TakeRaises, SaveEnds, ClearEnds, Operation
    <2>2. /\ UNCHANGED <<mem, db, releases>> /\ ~Carried(c, p)'
          /\ \A d \in Clients \ {c} : Carried(d, p)' => Carried(d, p)
      <3>1. UNCHANGED <<mem, db, releases>>
        BY <1>7 DEF TakeRaises, SaveEnds, ClearEnds, history
      <3>2. CASE TakeRaises(c)
        BY <2>1, <3>1, <3>2 DEF TakeRaises, TypeOK, Operation, Carried, Live, OfPlan
      <3>3. CASE SaveEnds(c) \/ ClearEnds(c)
        BY <2>1, <3>1, <3>3 DEF SaveEnds, ClearEnds, TypeOK, NoOp, Carried, Live, OfPlan
      <3> QED
        BY <1>7, <3>1, <3>2, <3>3
    <2>3. \E L \in SUBSET {c} : /\ late' = late \union {OnItsWay(d) : d \in L}
                                /\ \A d \in L : op[d].stage = "sent"
      <3>1. CASE UNCHANGED late
        <4> WITNESS {} \in SUBSET {c}
        <4> QED
          BY <3>1
      <3>2. CASE TimedOut(c)
        <4> WITNESS {c} \in SUBSET {c}
        <4> QED
          BY <3>2 DEF TimedOut, OnItsWay
      <3> QED
        BY <1>7, <3>1, <3>2 DEF TakeRaises, SaveEnds, ClearEnds, Ends, Raises, Refused, Lost
    <2>4. PICK L \in SUBSET {c} : /\ late' = late \union {OnItsWay(d) : d \in L}
                                  /\ \A d \in L : op[d].stage = "sent"
      BY <2>3
    <2>5. \A k \in Keys : Held(k, p)' => Held(k, p)
      BY <2>2 DEF Held
    <2> DEFINE C == {c}
    <2>6. C \in SUBSET Clients /\ L \in SUBSET C /\ (\A d \in C : ~Carried(d, p)')
          /\ (\A d \in Clients \ C : Carried(d, p)' => Carried(d, p))
      BY <2>2
    <2> HIDE DEF C
    <2> QED
      BY <1>a, <2>2, <2>4, <2>5, <2>6, DropsToLate DEF TwoCopies
  <1>8. ASSUME Restart, NEW p \in Plans
        PROVE  OneRow(p)' /\ Spent(p)'
    <2>1. /\ UNCHANGED <<db, releases>> /\ \A c \in Clients : ~Carried(c, p)'
          /\ \A k \in Keys : ~Held(k, p)'
      BY <1>8 DEF Restart, history, Carried, Live, NoOp, Held, OfPlan
    <2>2. PICK L \in SUBSET {c \in Clients : op[c].stage = "sent" /\ Fails(c, "late")} :
             late' = late \union {OnItsWay(c) : c \in L}
      BY <1>8 DEF Restart, OnItsWay
    <2>3. L \in SUBSET Clients /\ \A c \in L : op[c].stage = "sent"
      BY <2>2
    <2> QED
      BY <1>a, <2>1, <2>2, <2>3, DropsToLate DEF TwoCopies
  <1>9. ASSUME Tick \/ UNCHANGED vars, NEW p \in Plans
        PROVE  OneRow(p)' /\ Spent(p)'
    <2>1. UNCHANGED <<mem, db, op, late, releases>>
      BY <1>9 DEF Tick, vars, history
    <2> QED
      BY <1>a, <2>1, DropsKeep DEF Held, Stored, Carried, Live
  <1> QED
    BY <1>1, <1>2, <1>3, <1>4, <1>5, <1>6, <1>7, <1>8, <1>9 DEF Next, Step

(* take leaves its fallback copy where a request fails, so single use is   *)
(* not kept then; but no plan is released more than twice, whatever fails, *)
(* for any plans, conversations, turns and restarts.                       *)
THEOREM NeverMoreThanTwice == Spec => []AtMostTwice
  <1>1. TypeOK /\ CopiesAgree /\ TwoCopies /\ [Next]_vars => TwoCopies'
    BY StepTwoCopies
  <1>2. TwoCopies => AtMostTwice
    BY DEF TwoCopies, AtMostTwice, Spent
  <1> QED
    BY <1>1, <1>2, InitTwoCopies, TypeCorrect, CopiesAlwaysAgree, PTL DEF Spec

-----------------------------------------------------------------------------
(* The state of PlanSlot that the store stands for. *)
SlotNow == [k \in Keys |-> PlanIn(IF InMemoryOnly THEN mem[k] ELSE db[k])]
HandNow == [c \in Clients |-> IF op[c].kind = "take" THEN PlanIn(op[c].row) ELSE None]
ReleasedNow == {p \in Plans : releases[p] > 0}
SeenNow == {p \in Plans : proposed[p] # None} \ OnTheWay


\* None of the four changes: a stuttering step of PlanSlot.
Same == UNCHANGED <<SlotNow, HandNow, ReleasedNow, SeenNow>>

LEMMA SameStutters == Same => UNCHANGED Slot!slotVars
  BY DEF Same, Slot!slotVars, SlotNow, HandNow, ReleasedNow, SeenNow

LEMMA InitImplements == Init => Slot!Init
  BY DEF Init, Slot!Init, NoOp, PlanIn, OnTheWay

LEMMA PlanInEntry ==
  ASSUME NEW e \in Entry
  PROVE  PlanIn(e) = e.plan /\ e.plan \in Plans /\ PlanIn(e) # None /\ PlanIn(None) = None
  BY NoneAssumption DEF PlanIn, Entry

\* One release more.
LEMMA ReleasedOnce ==
  ASSUME TypeOK, NEW p \in Plans, releases' = [releases EXCEPT ![p] = @ + 1]
  PROVE  ReleasedNow' = ReleasedNow \union {p}
  BY DEF TypeOK, ReleasedNow

(* Without a database, or with one that never answers.                     *)
LEMMA MemoryImplements ==
  ASSUME InMemoryOnly, TypeOK, HandsOnlyTaken, MemoryOnce, HandsOnlyTaken', MemoryOnce',
         [Next]_vars
  PROVE  [Slot!Next]_(Slot!slotVars)
  <1>a. /\ SlotNow = [k \in Keys |-> PlanIn(mem[k])]
        /\ SlotNow' = [k \in Keys |-> PlanIn(mem'[k])]
    BY DEF SlotNow, InMemoryOnly
  <1>b. HandNow = [c \in Clients |-> None] /\ HandNow' = [c \in Clients |-> None]
    BY DEF HandNow, HandsOnlyTaken, MemoryOnce, PlanIn
  <1>c. /\ SeenNow = {p \in Plans : proposed[p] # None}
        /\ SeenNow' = {p \in Plans : proposed'[p] # None}
    BY DEF SeenNow, OnTheWay, InMemoryOnly
  <1>1. ASSUME NEW c \in Clients, NEW k \in Keys, NEW p \in Plans, SaveBegin(c, k, p)
        PROVE  Slot!Next
    <2> DEFINE e == [plan |-> p, exp |-> now + Ttl]
               entered == [key |-> k, exp |-> now + Ttl]
    <2>a. e \in Entry /\ entered \in Proposal
      BY TtlAssumption DEF TypeOK, Entry, Proposal
    <2>1. SlotNow' = [SlotNow EXCEPT ![k] = p]
      <3>1. mem' = [mem EXCEPT ![k] = e] /\ PlanIn(e) = p
        BY <1>1, <2>a, PlanInEntry DEF SaveBegin
      <3> QED
        BY <1>a, <3>1 DEF TypeOK
    <2>2. p \notin SeenNow /\ SeenNow' = SeenNow \union {p}
      <3>1. /\ proposed[p] = None /\ proposed' = [proposed EXCEPT ![p] = entered]
            /\ entered # None
        BY <1>1, <2>a, NoneAssumption DEF SaveBegin
      <3> QED
        BY <1>c, <3>1 DEF TypeOK
    <2>3. Slot!Put(k, p)
      BY <1>1, <1>b, <2>1, <2>2
         DEF SaveBegin, Slot!Put, SlotNow, HandNow, ReleasedNow, SeenNow
    <2> QED
      BY <2>3 DEF Slot!Next
  <1>2. ASSUME NEW c \in Clients, NEW k \in Keys, ClearBegin(c, k)
        PROVE  Slot!Next
    <2>1. SlotNow' = [SlotNow EXCEPT ![k] = None]
      BY <1>2, <1>a DEF ClearBegin, TypeOK, PlanIn
    <2>2. Slot!Discard(k)
      BY <1>2, <1>b, <1>c, <2>1
         DEF ClearBegin, Slot!Discard, SlotNow, HandNow, ReleasedNow, SeenNow
    <2> QED
      BY <2>2 DEF Slot!Next
  <1>3. ASSUME NEW c \in Clients, TakeFallback(c)
        PROVE  Slot!Next
    <2>1. PICK k \in Keys : k = op[c].key
      BY <1>3, Busy DEF TakeFallback, Operation
    <2> DEFINE e == mem[k]
    <2>2. SlotNow' = [SlotNow EXCEPT ![k] = None]
      BY <1>3, <1>a, <2>1 DEF TakeFallback, TypeOK, PlanIn
    <2>3. SeenNow' = SeenNow
      BY <1>3, <1>c DEF TakeFallback
    <2>4. CASE Unexpired(e)
      <3>1. e \in Entry /\ SlotNow[k] = e.plan
        BY <1>a, <2>1, <2>4, PlanInEntry DEF TypeOK, Unexpired
      <3>2. ReleasedNow' = ReleasedNow \union {e.plan}
        BY <1>3, <2>1, <2>4, <3>1, PlanInEntry, ReleasedOnce DEF TakeFallback, Returns
      <3>3. Slot!Grant(k)
        BY <1>b, <2>1, <2>2, <2>3, <3>1, <3>2, PlanInEntry
           DEF Slot!Grant, SlotNow, HandNow, ReleasedNow, SeenNow
      <3> QED
        BY <2>1, <3>3 DEF Slot!Next
    <2>5. CASE ~Unexpired(e)
      <3>1. ReleasedNow' = ReleasedNow
        BY <1>3, <2>1, <2>5 DEF TakeFallback, Returns, ReleasedNow
      <3>2. Slot!Discard(k)
        BY <1>b, <2>2, <2>3, <3>1 DEF Slot!Discard, SlotNow, HandNow, ReleasedNow, SeenNow
      <3> QED
        BY <2>1, <3>2 DEF Slot!Next
    <2> QED
      BY <2>4, <2>5
  <1>4. CASE Restart
    <2>1. SlotNow' = [k \in Keys |-> None]
      BY <1>4, <1>a DEF Restart, PlanIn
    <2>2. SeenNow' = SeenNow \union {} /\ ReleasedNow' = ReleasedNow
      BY <1>4, <1>c DEF Restart, history, ReleasedNow
    <2>3. Slot!Crash
      BY <1>b, <2>1, <2>2 DEF Slot!Crash, SlotNow, HandNow, ReleasedNow, SeenNow
    <2> QED
      BY <2>3 DEF Slot!Next
  <1>5. ASSUME NEW c \in Clients,
               (\E k \in Keys : TakeBegin(c, k)) \/ TakeRaises(c) \/ SaveEnds(c) \/ ClearEnds(c)
        PROVE  Same
    <2>1. UNCHANGED <<mem, proposed, releases>>
      BY <1>5 DEF TakeBegin, TakeRaises, SaveEnds, ClearEnds, history
    <2> QED
      BY <1>a, <1>b, <1>c, <2>1 DEF Same, ReleasedNow
  <1>6. ASSUME Tick \/ UNCHANGED vars
        PROVE  Same
    BY <1>6, <1>a, <1>b, <1>c DEF Tick, vars, history, Same, ReleasedNow
  <1>7. /\ \A c \in Clients : ~DbApply(c) /\ ~TakeAnswered(c)
        /\ \A r \in late : ~ApplyLate(r)
    BY DEF DbApply, TakeAnswered, ApplyLate, MemoryOnce
  <1> QED
    BY <1>1, <1>2, <1>3, <1>4, <1>5, <1>6, <1>7, SameStutters DEF Next, Step

(* With a database that answers.                                           *)
Sending(c) == op[c].kind = "save" /\ op[c].stage = "sent"

\* p was proposed, and its save is no longer on the way.
Arrived(p) == /\ proposed[p] # None
              /\ \A c \in Clients : Sending(c) => op[c].row.plan # p

LEMMA TableState ==
  ASSUME ~InMemoryOnly
  PROVE  /\ SlotNow = [k \in Keys |-> PlanIn(db[k])]
         /\ SlotNow' = [k \in Keys |-> PlanIn(db'[k])]
         /\ SeenNow = {p \in Plans : Arrived(p)}
         /\ SeenNow' = {p \in Plans : Arrived(p)'}
  BY DEF SlotNow, SeenNow, OnTheWay, InMemoryOnly, Sending, Arrived

LEMMA HandMoves ==
  ASSUME TypeOK, NEW c \in Clients, NEW o, op' = [op EXCEPT ![c] = o]
  PROVE  HandNow' = [HandNow EXCEPT ![c] = IF o.kind = "take" THEN PlanIn(o.row) ELSE None]
  BY DEF TypeOK, HandNow

LEMMA SeenStays ==
  ASSUME TypeOK, ~InMemoryOnly, NEW c \in Clients, NEW o, op' = [op EXCEPT ![c] = o],
         ~Sending(c), ~(o.kind = "save" /\ o.stage = "sent"), proposed' = proposed
  PROVE  SeenNow' = SeenNow
  <1>1. op'[c] = o /\ \A d \in Clients \ {c} : op'[d] = op[d]
    BY DEF TypeOK
  <1>2. ASSUME NEW p \in Plans
        PROVE  Arrived(p)' <=> Arrived(p)
    BY <1>1 DEF Sending, Arrived
  <1> QED
    BY <1>2, TableState

LEMMA TableImplements ==
  ASSUME Faults = {}, ~InMemoryOnly, TypeOK, CopiesAgree, HandsOnlyTaken, TableOnce, [Next]_vars
  PROVE  [Slot!Next]_(Slot!slotVars)
  <1>a. Configured /\ Reachable
    BY DEF InMemoryOnly
  <1>b. \A c \in Clients : ~Raises(c)
    BY DEF Raises, Refused, Lost, TimedOut, Fails
  <1>c. NoOp.kind # "take" /\ NoOp.kind # "save" /\ NoOp.row = None
    BY NoneAssumption DEF NoOp
  <1>d. \A c \in Clients : HandNow[c] = IF op[c].kind = "take" THEN PlanIn(op[c].row) ELSE None
    BY DEF HandNow
  <1>e. PlanIn(None) = None
    BY DEF PlanIn
  <1>1. ASSUME NEW c \in Clients, NEW k \in Keys, NEW p \in Plans, SaveBegin(c, k, p)
        PROVE  Same
    <2> DEFINE entered == [key |-> k, exp |-> now + Ttl]
    <2> DEFINE o == [kind |-> "save", stage |-> "sent", key |-> k,
                     row |-> [plan |-> p, exp |-> now + Ttl],
                     before |-> SettledIn(k), seen |-> retired]
    <2>1. /\ op' = [op EXCEPT ![c] = o] /\ o.kind = "save" /\ o.stage = "sent"
          /\ o.row.plan = p
      BY <1>1, <1>a DEF SaveBegin, Starts
    <2> HIDE DEF o
    <2>2. op[c] = NoOp /\ UNCHANGED <<db, releases>>
      BY <1>1 DEF SaveBegin
    <2>3. HandNow' = HandNow
      <3>1. HandNow' = [HandNow EXCEPT ![c] = None]
        BY <2>1, HandMoves
      <3> QED
        BY <1>c, <1>d, <2>2, <3>1 DEF HandNow
    <2>4. SeenNow' = SeenNow
      <3>1. entered \in Proposal
        BY TtlAssumption DEF TypeOK, Proposal
      <3>2. proposed[p] = None /\ proposed' = [proposed EXCEPT ![p] = entered]
        BY <1>1 DEF SaveBegin
      <3>3. /\ Sending(c)' /\ ~Sending(c) /\ op'[c].row.plan = p
            /\ \A d \in Clients \ {c} : op'[d] = op[d]
        BY <1>c, <2>1, <2>2 DEF Sending, TypeOK
      <3>4. ASSUME NEW q \in Plans
            PROVE  Arrived(q)' <=> Arrived(q)
        <4>1. CASE q = p
          BY <3>2, <3>3, <4>1 DEF Arrived
        <4>2. CASE q # p
          <5>1. proposed'[q] = proposed[q]
            BY <3>2, <4>2 DEF TypeOK
          <5>2. \A d \in Clients :
                   (Sending(d) => op[d].row.plan # q) <=> (Sending(d)' => op'[d].row.plan # q)
            BY <3>3, <4>2 DEF Sending
          <5> QED
            BY <5>1, <5>2 DEF Arrived
        <4> QED
          BY <4>1, <4>2
      <3> QED
        BY <3>4, TableState
    <2> QED
      BY <2>2, <2>3, <2>4, TableState DEF Same, ReleasedNow
  <1>2. ASSUME NEW c \in Clients, NEW k \in Keys, TakeBegin(c, k) \/ ClearBegin(c, k)
        PROVE  Same
    <2>1. PICK kind \in {"take", "clear"} : Starts(c, kind, "sent", k, None)
      BY <1>2, <1>a DEF TakeBegin, ClearBegin
    <2> DEFINE o == [kind |-> kind, stage |-> "sent", key |-> k, row |-> None,
                     before |-> SettledIn(k), seen |-> retired]
    <2>a. op' = [op EXCEPT ![c] = o] /\ o.kind # "save" /\ o.row = None
      BY <2>1 DEF Starts
    <2> HIDE DEF o
    <2>2. op[c] = NoOp /\ UNCHANGED <<db, releases, proposed>>
      BY <1>2 DEF TakeBegin, ClearBegin, history
    <2>3. HandNow' = [HandNow EXCEPT ![c] = None]
      BY <1>e, <2>a, HandMoves
    <2>4. HandNow' = HandNow
      BY <1>c, <1>d, <2>2, <2>3 DEF HandNow
    <2>5. SeenNow' = SeenNow
      BY <1>c, <2>a, <2>2, SeenStays DEF Sending
    <2> QED
      BY <2>2, <2>4, <2>5, TableState DEF Same, ReleasedNow
  <1>3. ASSUME NEW c \in Clients, DbApply(c)
        PROVE  Slot!Next \/ Same
    <2>1. PICK k \in Keys : k = op[c].key
      BY <1>3, Busy DEF DbApply, Operation
    <2> DEFINE o == [op[c] EXCEPT !.stage = "applied", !.row = Answer(op[c])]
    <2>2. /\ op' = [op EXCEPT ![c] = o] /\ o.kind = op[c].kind
          /\ o.stage = "applied" /\ o.row = Answer(op[c])
      <3>1. op[c] \in Operation
        BY <1>3, Busy DEF DbApply
      <3>2. op' = [op EXCEPT ![c] = o]
        BY <1>3 DEF DbApply
      <3> QED
        BY <3>1, <3>2 DEF Operation
    <2> HIDE DEF o
    <2>3. op[c].kind \in Kinds /\ op[c].row \in Entry \union {None} /\ op[c].stage = "sent"
      BY <1>3, Busy DEF DbApply, Operation
    <2>4. db' = [db EXCEPT ![k] = RowAfter(op[c])] /\ UNCHANGED <<releases, proposed>>
      BY <1>3, <2>1 DEF DbApply, history
    <2>5. SlotNow' = [SlotNow EXCEPT ![k] = PlanIn(RowAfter(op[c]))]
      BY <2>4, TableState DEF TypeOK
    <2>6. CASE op[c].kind = "save"
      <3>1. op[c].row \in Entry /\ Live(c)
        BY <1>3, <2>3, <2>6, Busy DEF DbApply, Operation, Live
      <3>2. PICK p \in Plans : p = op[c].row.plan
        BY <3>1, PlanInEntry
      <3>3. SlotNow' = [SlotNow EXCEPT ![k] = p]
        BY <2>5, <2>6, <3>1, <3>2, PlanInEntry DEF RowAfter
      <3>4. HandNow' = HandNow
        <4>1. HandNow' = [HandNow EXCEPT ![c] = None]
          BY <2>2, <2>6, HandMoves
        <4> QED
          BY <1>d, <2>6, <4>1 DEF HandNow
      <3>5. p \notin SeenNow /\ SeenNow' = SeenNow \union {p}
        <4>1. proposed[p] # None
          BY <3>1, <3>2, CopiesDiffer
        <4>2. Sending(c) /\ ~Sending(c)' /\ \A d \in Clients \ {c} : op'[d] = op[d]
          BY <2>2, <2>3, <2>6 DEF Sending, TypeOK
        <4>3. \A d \in Clients \ {c} : Sending(d) => op[d].row.plan # p
          <5> SUFFICES ASSUME NEW d \in Clients \ {c}, Sending(d)
                       PROVE  op[d].row.plan # p
            OBVIOUS
          <5>1. op[d].row # None
            BY Busy DEF Sending, Operation
          <5> QED
            BY <3>1, <3>2, <5>1 DEF TableOnce, Live, Sending
        <4> QED
          BY <2>4, <3>2, <4>1, <4>2, <4>3, TableState DEF Sending, Arrived
      <3>6. Slot!Put(k, p)
        <4>1. ReleasedNow' = ReleasedNow
          BY <2>4 DEF ReleasedNow
        <4> QED
          BY <3>3, <3>4, <3>5, <4>1, ZenonT(60)
             DEF Slot!Put, SlotNow, HandNow, ReleasedNow, SeenNow
      <3> QED
        BY <3>6 DEF Slot!Next
    <2>7. CASE op[c].kind # "save"
      <3>1. SlotNow' = [SlotNow EXCEPT ![k] = None]
        BY <1>e, <2>5, <2>7 DEF RowAfter
      <3>2. SeenNow' = SeenNow
        BY <2>2, <2>4, <2>7, SeenStays DEF Sending
      <3>3. op[c].row = None /\ HandNow[c] = None
        BY <1>d, <1>e, <2>3, <2>7 DEF HandsOnlyTaken
      <3>4. CASE op[c].kind = "take"
        <4>1. HandNow' = [HandNow EXCEPT ![c] = SlotNow[k]]
          <5>1. o.row = db[k] /\ SlotNow[k] = PlanIn(db[k])
            BY <2>1, <2>2, <3>4, TableState DEF Answer
          <5> QED
            BY <2>2, <3>4, <5>1, HandMoves
        <4>2. CASE SlotNow[k] = None
          <5>1. SlotNow' = SlotNow
            BY <3>1, <4>2, TableState
          <5>2. HandNow' = HandNow
            BY <3>3, <4>1, <4>2 DEF HandNow
          <5> QED
            BY <2>4, <3>2, <5>1, <5>2 DEF Same, ReleasedNow
        <4>3. CASE SlotNow[k] # None
          <5>1. Slot!Claim(c, k)
            BY <2>4, <3>1, <3>2, <3>3, <4>1, <4>3
               DEF Slot!Claim, SlotNow, HandNow, ReleasedNow, SeenNow
          <5> QED
            BY <5>1 DEF Slot!Next
        <4> QED
          BY <4>2, <4>3
      <3>5. CASE op[c].kind = "clear"
        <4>1. HandNow' = [HandNow EXCEPT ![c] = None]
          BY <2>2, <3>5, HandMoves
        <4>2. HandNow' = HandNow
          BY <3>3, <4>1 DEF HandNow
        <4>3. Slot!Discard(k)
          BY <2>4, <3>1, <3>2, <4>2 DEF Slot!Discard, SlotNow, HandNow, ReleasedNow, SeenNow
        <4> QED
          BY <4>3 DEF Slot!Next
      <3> QED
        BY <2>3, <2>7, <3>4, <3>5
    <2> QED
      BY <2>6, <2>7
  <1>4. ASSUME NEW c \in Clients, TakeAnswered(c)
        PROVE  Slot!Next
    <2> DEFINE e == op[c].row
    <2>1. op[c].kind = "take" /\ e \in Entry \union {None}
      BY <1>4, Busy DEF TakeAnswered, Operation
    <2>2. op' = [op EXCEPT ![c] = NoOp] /\ UNCHANGED <<db, proposed>>
      BY <1>4 DEF TakeAnswered, Returns
    <2>3. HandNow' = [HandNow EXCEPT ![c] = None]
      BY <1>c, <2>2, HandMoves
    <2>4. SeenNow' = SeenNow
      BY <1>c, <2>1, <2>2, SeenStays DEF Sending
    <2>5. SlotNow' = SlotNow
      BY <2>2, TableState
    <2>6. CASE Unexpired(e)
      <3>1. e \in Entry /\ HandNow[c] = e.plan /\ e.plan \in Plans
        BY <1>d, <2>1, <2>6, PlanInEntry DEF Unexpired
      <3>2. ReleasedNow' = ReleasedNow \union {e.plan}
        BY <1>4, <2>6, <3>1, ReleasedOnce DEF TakeAnswered, Returns
      <3>3. Slot!Deliver(c)
        BY <2>3, <2>4, <2>5, <3>1, <3>2, NoneAssumption
           DEF Slot!Deliver, SlotNow, HandNow, ReleasedNow, SeenNow
      <3> QED
        BY <3>3 DEF Slot!Next
    <2>7. CASE ~Unexpired(e)
      <3>1. ReleasedNow' = ReleasedNow
        BY <1>4, <2>7 DEF TakeAnswered, Returns, ReleasedNow
      <3>2. Slot!Drop(c)
        BY <2>3, <2>4, <2>5, <3>1 DEF Slot!Drop, SlotNow, HandNow, ReleasedNow, SeenNow
      <3> QED
        BY <3>2 DEF Slot!Next
    <2> QED
      BY <2>6, <2>7
  <1>5. ASSUME NEW c \in Clients, SaveEnds(c) \/ ClearEnds(c)
        PROVE  Same
    <2>1. /\ op[c].stage = "applied" /\ op[c].kind # "take"
          /\ op' = [op EXCEPT ![c] = NoOp] /\ UNCHANGED <<db, proposed, releases>>
      BY <1>5, <1>b DEF SaveEnds, ClearEnds, Ends
    <2>2. HandNow' = [HandNow EXCEPT ![c] = None]
      BY <1>c, <2>1, HandMoves
    <2>3. HandNow' = HandNow
      BY <1>d, <2>1, <2>2 DEF HandNow
    <2>4. SeenNow' = SeenNow
      BY <1>c, <2>1, SeenStays DEF Sending
    <2> QED
      BY <2>1, <2>3, <2>4, TableState DEF Same, ReleasedNow
  <1>6. CASE Restart
    <2>1. /\ op' = [c \in Clients |-> NoOp] /\ UNCHANGED <<db, proposed, releases>>
      BY <1>6 DEF Restart, history
    <2>2. HandNow' = [c \in Clients |-> None]
      BY <1>c, <2>1 DEF HandNow
    <2>3. SeenNow' = SeenNow \union OnTheWay
      <3>1. \A c \in Clients : ~Sending(c)'
        BY <1>c, <2>1 DEF Sending
      <3>2. \A c \in Clients : Sending(c) => proposed[op[c].row.plan] # None
        <4> SUFFICES ASSUME NEW c \in Clients, Sending(c)
                     PROVE  proposed[op[c].row.plan] # None
          OBVIOUS
        <4>1. Live(c)
          BY Busy DEF Sending, Operation, Live
        <4> QED
          BY <4>1, CopiesDiffer
      <3>3. OnTheWay = {p \in Plans : \E c \in Clients : Sending(c) /\ op[c].row.plan = p}
        BY DEF OnTheWay, Sending
      <3> QED
        BY <2>1, <3>1, <3>2, <3>3, TableState DEF Arrived
    <2>4. \E P \in SUBSET Plans : SeenNow' = SeenNow \union P
      BY <2>3 DEF OnTheWay
    <2>5. SlotNow' = SlotNow /\ ReleasedNow' = ReleasedNow
      BY <2>1, TableState DEF ReleasedNow
    <2>6. Slot!Crash
      BY <2>2, <2>4, <2>5 DEF Slot!Crash, SlotNow, HandNow, ReleasedNow, SeenNow
    <2> QED
      BY <2>6 DEF Slot!Next
  <1>7. ASSUME Tick \/ UNCHANGED vars
        PROVE  Same
    <2>1. UNCHANGED <<db, op, proposed, releases>>
      BY <1>7 DEF Tick, vars, history
    <2>2. SlotNow' = SlotNow
      BY <2>1, TableState
    <2>3. SeenNow' = SeenNow
      BY <2>1 DEF SeenNow, OnTheWay
    <2>4. HandNow' = HandNow /\ ReleasedNow' = ReleasedNow
      BY <2>1 DEF HandNow, ReleasedNow
    <2> QED
      BY <2>2, <2>3, <2>4 DEF Same
  <1>8. /\ \A c \in Clients : ~TakeRaises(c) /\ ~TakeFallback(c)
        /\ \A r \in late : ~ApplyLate(r)
    BY <1>b DEF TakeRaises, TakeFallback, TableOnce
  <1> QED
    BY <1>1, <1>2, <1>3, <1>4, <1>5, <1>6, <1>7, <1>8, SameStutters DEF Next, Step

(* The two-copy store of services/pending_plans.py is one slot per         *)
(* conversation, durable when the database answers and not without one: a  *)
(* proposal replaces the one before, is taken out once, and does not come  *)
(* back after a clear, whatever the turns, plans and restarts.             *)
THEOREM AlwaysImplementsPlanSlot ==
  ASSUME Faults = {} \/ InMemoryOnly
  PROVE  Spec => ImplementsPlanSlot
  <1>h. TypeOK /\ HandsOnlyTaken /\ [Next]_vars => HandsOnlyTaken'
    BY StepHands
  <1>1. CASE InMemoryOnly
    <2>1. TypeOK /\ CopiesAgree /\ MemoryOnce /\ [Next]_vars => MemoryOnce'
      BY <1>1, StepMemoryOnce
    <2>2. /\ TypeOK /\ HandsOnlyTaken /\ HandsOnlyTaken' /\ MemoryOnce /\ MemoryOnce'
          /\ [Next]_vars
          => [Slot!Next]_(Slot!slotVars)
      BY <1>1, MemoryImplements
    <2> QED
      BY <1>h, <2>1, <2>2, InitHands, InitMemoryOnce, InitImplements, TypeCorrect, CopiesAlwaysAgree,
         PTL DEF Spec, ImplementsPlanSlot, Slot!Spec
  <1>2. CASE Faults = {} /\ ~InMemoryOnly
    <2>1. TypeOK /\ CopiesAgree /\ TableOnce /\ [Next]_vars => TableOnce'
      BY <1>2, StepTableOnce
    <2>2. TypeOK /\ CopiesAgree /\ HandsOnlyTaken /\ TableOnce /\ [Next]_vars
          => [Slot!Next]_(Slot!slotVars)
      BY <1>2, TableImplements
    <2> QED
      BY <1>h, <2>1, <2>2, InitHands, InitTableOnce, InitImplements, TypeCorrect, CopiesAlwaysAgree,
         PTL DEF Spec, ImplementsPlanSlot, Slot!Spec
  <1> QED
    BY <1>1, <1>2
=============================================================================
