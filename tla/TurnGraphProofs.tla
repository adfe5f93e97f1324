-------------------------- MODULE TurnGraphProofs --------------------------
(***************************************************************************)
(* What holds of one turn for every set of calls, batches, plans, requests *)
(* and limits.                                                             *)
(***************************************************************************)
EXTENDS TurnGraph, FiniteSetTheorems, TLAPS

USE DEF Workers, Routes, Statuses

-----------------------------------------------------------------------------
(* Type correctness.                                                       *)

LEMMA BumpedType ==
  ASSUME NEW t \in GraphState
  PROVE  t.step \in Nat /\ Bumped(t) \in Nat
  <1>1. t.step \in Nat
    BY DEF GraphState
  <1> QED
    BY <1>1 DEF Bumped

LEMMA RoutedType ==
  ASSUME NEW t \in GraphState, NEW next \in Routes, NEW request \in SUBSET Calls,
         NEW calls \in SUBSET Calls, NEW plan \in SUBSET Calls, NEW note \in BOOLEAN,
         NEW canned \in BOOLEAN
  PROVE  Routed(t, next, request, calls, plan, note, canned) \in GraphState
  <1> DEFINE n == Bumped(t)
             status == IF next = "finish" THEN "completed" ELSE t.status
             pointed == canned /\ next = "local_llm" /\ plan = {}
  <1>1. n \in Nat
    BY BumpedType
  <1>2. status \in Statuses /\ pointed \in BOOLEAN
    BY DEF GraphState
  <1> DEFINE update == [t EXCEPT !.next = next, !.step = n, !.status = status,
                                 !.toolRequest = request, !.toolCalls = calls,
                                 !.pendingPlan = plan, !.planNote = note, !.canned = pointed]
  <1>3. Routed(t, next, request, calls, plan, note, canned) = update
    BY DEF Routed
  <1> HIDE DEF n, status, pointed
  <1>4. update \in GraphState
    BY <1>1, <1>2 DEF GraphState
  <1> HIDE DEF update
  <1> QED
    BY <1>3, <1>4

LEMMA GuardedType ==
  ASSUME NEW t \in GraphState, NEW d \in Decision
  PROVE  Guarded(t, d) \in Decision
  BY DEF Guarded, Fresh, Decision

LEMMA GateUpdatesType ==
  ASSUME NEW t \in GraphState, NEW g \in Decision, NEW canned \in BOOLEAN
  PROVE  /\ \A plan \in SUBSET Calls :
               Approve(t, plan) \in GraphState /\ Approve(t, plan).next \in Routes
         /\ NothingToRelease(t, g, canned) \in GraphState
         /\ NothingToRelease(t, g, canned).next \in Routes
         /\ Propose(t, g) \in GraphState /\ Propose(t, g).next \in Routes
         /\ PassOn(t, g, canned) \in GraphState /\ PassOn(t, g, canned).next \in Routes
  <1>1. g.next \in Routes /\ g.call \in SUBSET Calls /\ g.native \in SUBSET Calls
    BY DEF Decision
  <1>2. ASSUME NEW plan \in SUBSET Calls
        PROVE  Routed(t, "tool_execution", {}, plan, {}, FALSE, FALSE) \in GraphState
    BY RoutedType
  <1>3. Routed(t, "local_llm", g.call, {}, {}, TRUE, canned) \in GraphState
    BY <1>1, RoutedType
  <1>4. Routed(t, g.next, g.call, g.native, {}, FALSE, canned) \in GraphState
    BY <1>1, RoutedType
  <1>5. Routed(t, "local_llm", {}, {}, g.native, FALSE, FALSE) \in GraphState
    BY <1>1, RoutedType
  <1>6. \A plan \in SUBSET Calls : Approve(t, plan).next \in Routes
    BY DEF Approve, Routed, GraphState
  <1>7. NothingToRelease(t, g, canned).next \in Routes
    BY <1>1 DEF NothingToRelease, Routed, GraphState
  <1>8. Propose(t, g).next \in Routes /\ PassOn(t, g, canned).next \in Routes
    BY <1>1 DEF Propose, PassOn, Routed, GraphState
  <1>9. NothingToRelease(t, g, canned) \in GraphState
    BY <1>3, <1>4 DEF NothingToRelease
  <1>10. \A plan \in SUBSET Calls : Approve(t, plan) \in GraphState
    BY <1>2 DEF Approve
  <1>11. Propose(t, g) \in GraphState /\ PassOn(t, g, canned) \in GraphState
    BY <1>4, <1>5 DEF Propose, PassOn
  <1> QED
    BY <1>6, <1>7, <1>8, <1>9, <1>10, <1>11

LEMMA ZeroAttempts == 0 \in 0 .. MaxAttempts - 1
  BY AttemptsAssumption

LEMMA FollowType ==
  ASSUME TypeOK, NEW update \in GraphState, update.next \in Routes,
         NEW plan \in SUBSET Calls, Follow(update, plan)
  PROVE  TypeOK'
  <1>1. update.status \in Statuses
    BY DEF GraphState
  <1>2. NoDecision \in Decision
    BY DEF NoDecision, Decision
  <1>3. attempts' \in 0 .. MaxAttempts - 1
    BY ZeroAttempts DEF Follow
  <1> QED
    BY <1>1, <1>2, <1>3 DEF Follow, TypeOK, Places

LEMMA BoundType ==
  ASSUME NEW t \in GraphState
  PROVE  /\ BoundUpdate(t) \in GraphState /\ BoundUpdate(t).next \in Routes
         /\ FastPath(t) \in GraphState /\ FastPath(t).next \in Routes
         /\ Degraded(t) \in GraphState /\ Degraded(t).next \in Routes
  BY BumpedType DEF BoundUpdate, FastPath, Degraded, GraphState

LEMMA ToGateType ==
  ASSUME TypeOK, NEW d \in Decision, ToGate(d)
  PROVE  TypeOK'
  BY DEF TypeOK, ToGate, Places

LEMMA InitType == Init => TypeOK
  <1> SUFFICES ASSUME Init PROVE TypeOK
    OBVIOUS
  <1>1. s \in GraphState /\ decision \in Decision
    BY DEF Init, InitialState, GraphState, NoDecision, Decision
  <1>2. attempts \in 0 .. MaxAttempts - 1
    BY ZeroAttempts DEF Init
  <1> QED
    BY <1>1, <1>2 DEF Init, TypeOK, Places, Origins

LEMMA StepType == TypeOK /\ [Next]_vars => TypeOK'
  <1> SUFFICES ASSUME TypeOK, [Next]_vars PROVE TypeOK'
    OBVIOUS
  <1>a. s \in GraphState /\ decision \in Decision /\ intent \in Intents
    BY DEF TypeOK
  <1>b. Final \in Decision /\ Canned \in BOOLEAN
    BY <1>a, GuardedType DEF Final, Canned, Pointed
  <1>1. CASE SupervisorBound
    BY <1>1, <1>a, BoundType, FollowType DEF SupervisorBound
  <1>2. CASE SupervisorFastPath
    BY <1>2, <1>a, BoundType, FollowType DEF SupervisorFastPath
  <1>3. CASE SupervisorNoClient \/ StructuredFails
    BY <1>3, <1>a, BoundType, FollowType DEF SupervisorNoClient, StructuredFails
  <1>4. CASE NativeAnswers
    <2>1. NativeDecision({}, {}) \in Decision
      BY DEF NativeDecision, Decision
    <2>2. ASSUME NEW batch \in Batches, NEW first \in batch
          PROVE  NativeDecision(batch, {first}) \in Decision
      BY BatchesAssumption DEF NativeDecision, Decision
    <2> QED
      BY <1>4, <2>1, <2>2, ToGateType DEF NativeAnswers
  <1>5. CASE NativeArgsRejected
    BY <1>5 DEF NativeArgsRejected, TypeOK, Places
  <1>6. CASE ToStructured
    <2>1. attempts' \in 0 .. MaxAttempts - 1
      BY <1>6, ZeroAttempts DEF ToStructured
    <2> QED
      BY <1>6, <2>1 DEF ToStructured, TypeOK, Places
  <1>7. CASE StructuredAnswers
    <2>1. [next : Routes, call : {{}} \union {{c} : c \in Calls}, native : {{}}] \subseteq Decision
      BY DEF Decision
    <2> QED
      BY <1>7, <2>1, ToGateType DEF StructuredAnswers
  <1>8. CASE StructuredRetries
    <2>1. attempts' \in 0 .. MaxAttempts - 1
      <3>1. attempts \in 0 .. MaxAttempts - 1
        BY DEF TypeOK
      <3>2. attempts' = attempts + 1 /\ attempts + 1 < MaxAttempts
        BY <1>8 DEF StructuredRetries
      <3> QED
        BY <3>1, <3>2, AttemptsAssumption
    <2> QED
      BY <1>8, <2>1 DEF StructuredRetries, TypeOK
  <1>9. CASE GateReleases
    BY <1>9, <1>a, <1>b, GateUpdatesType, FollowType, PlansAssumption DEF GateReleases
  <1>10. CASE GateFindsNoPlan
    BY <1>10, <1>a, <1>b, GateUpdatesType, FollowType DEF GateFindsNoPlan
  <1>11. CASE GateProposes
    BY <1>11, <1>a, <1>b, GateUpdatesType, FollowType DEF GateProposes
  <1>12. CASE GatePasses
    BY <1>12, <1>a, <1>b, GateUpdatesType, FollowType DEF GatePasses
  <1>13. CASE ExecuteTools
    <2>1. RequestedCalls(s) \in SUBSET Calls /\ s.step \in Nat
      BY <1>a DEF RequestedCalls, GraphState
    <2>2. ToolUpdate(s) \in GraphState
      BY <1>a, <2>1, BumpedType DEF ToolUpdate, GraphState
    <2> QED
      BY <1>13, <2>1, <2>2 DEF ExecuteTools, TypeOK, Places
  <1>14. ASSUME NEW sent \in SUBSET Origins, Back(sent)
         PROVE  TypeOK'
    <2>1. ReplyUpdate(s) \in GraphState
      BY <1>a, BumpedType DEF ReplyUpdate, GraphState
    <2> QED
      BY <1>14, <2>1 DEF Back, TypeOK, Places
  <1>15. CASE ComposeCanned \/ ComposeCloud \/ ComposeLocal
    BY <1>14, <1>15 DEF ComposeCanned, ComposeCloud, ComposeLocal, LocalSends, Origins
  <1>16. CASE CloudFails
    BY <1>16 DEF CloudFails, TypeOK, Places
  <1>17. CASE UNCHANGED vars
    BY <1>17 DEF vars, TypeOK
  <1> QED
    BY <1>1, <1>2, <1>3, <1>4, <1>5, <1>6, <1>7, <1>8, <1>9, <1>10, <1>11, <1>12, <1>13,
       <1>15, <1>16, <1>17 DEF Next, Supervisor, LocalLlm, Ended

(* Every reachable state of a turn is well typed.                          *)
THEOREM TypeCorrect == Spec => []TypeOK
  BY InitType, StepType, PTL DEF Spec

-----------------------------------------------------------------------------
(* What a step of the turn does to the channels the invariants look at.    *)

(* The supervisor's own exits. *)
LEMMA ExitFields ==
  ASSUME NEW t \in GraphState
  PROVE  /\ BoundUpdate(t).step = Bumped(t) /\ BoundUpdate(t).visited = t.visited
         /\ BoundUpdate(t).executed = t.executed
         /\ BoundUpdate(t).status = "halted_step_bound"
         /\ BoundUpdate(t).next = IF Replied(t) THEN "finish" ELSE "local_llm"
         /\ FastPath(t).step = Bumped(t) /\ FastPath(t).visited = t.visited
         /\ FastPath(t).executed = t.executed
         /\ FastPath(t).status = "completed" /\ FastPath(t).next = "finish"
         /\ Degraded(t).step = Bumped(t) /\ Degraded(t).visited = t.visited
         /\ Degraded(t).executed = t.executed
         /\ Degraded(t).status = "degraded" /\ Degraded(t).next = "finish"
  BY DEF BoundUpdate, FastPath, Degraded, GraphState

(* The workers' updates. *)
LEMMA WorkerFields ==
  ASSUME NEW t \in GraphState
  PROVE  /\ ToolUpdate(t).step = Bumped(t)
         /\ ToolUpdate(t).visited = t.visited \union {"tool_execution"}
         /\ ToolUpdate(t).planNote = t.planNote
         /\ ReplyUpdate(t).step = Bumped(t)
         /\ ReplyUpdate(t).visited = t.visited \union {"local_llm"}
         /\ ReplyUpdate(t).executed = t.executed
         /\ ReplyUpdate(t).planNote = t.planNote
  BY DEF ToolUpdate, ReplyUpdate, GraphState

(* The gate's updates. *)
GateUpdate(u) ==
    \/ \E plan \in Plans : u = Approve(s, plan)
    \/ u = NothingToRelease(s, Final, Canned)
    \/ u = Propose(s, Final)
    \/ u = PassOn(s, Final, Canned)

LEMMA GateFields ==
  ASSUME TypeOK, NEW u, GateUpdate(u)
  PROVE  /\ u.step = Bumped(s) /\ u.visited = s.visited /\ u.executed = s.executed
         /\ u.next = "finish" => u.status = "completed"
         /\ u.next \in Routes
  <1>1. s \in GraphState /\ Final \in Decision /\ Canned \in BOOLEAN
    BY GuardedType DEF TypeOK, Final, Canned, Pointed
  <1>2. u.next \in Routes
    BY <1>1, GateUpdatesType, PlansAssumption DEF GateUpdate
  <1>3. PICK next, request, calls, plan, note, canned :
           u = Routed(s, next, request, calls, plan, note, canned)
    BY DEF GateUpdate, Approve, NothingToRelease, Propose, PassOn
  <1>4. /\ u.step = Bumped(s) /\ u.visited = s.visited /\ u.executed = s.executed
        /\ u.next = "finish" => u.status = "completed"
    BY <1>1, <1>3 DEF Routed, GraphState
  <1> QED
    BY <1>2, <1>4

LEMMA GateFollows ==
  ASSUME GateReleases \/ GateFindsNoPlan \/ GateProposes \/ GatePasses
  PROVE  at = "gate" /\ \E u, plan : GateUpdate(u) /\ Follow(u, plan)
  BY DEF GateReleases, GateFindsNoPlan, GateProposes, GatePasses, GateUpdate

-----------------------------------------------------------------------------
(* The step count.  Every node visit adds one; the supervisor routes a     *)
(* turn only below the bound and only before a reply, and at the bound     *)
(* composes at most once.                                                  *)
Bounded ==
    /\ at \in {"structured", "gate"} => ~AtBound(s) /\ ~Replied(s)
    /\ at = "supervisor" => \/ s.step <= MaxSteps + 1
                            \/ Replied(s) /\ s.step <= MaxSteps + 3
    /\ at = "tool_execution" => ~Replied(s) /\ s.step <= MaxSteps
    /\ at \in {"local_llm", "local_fallback"} => ~Replied(s) /\ s.step <= MaxSteps + 2
    /\ s.step <= MaxSteps + 4

LEMMA InitBounded == Init => Bounded
  <1> SUFFICES ASSUME Init PROVE Bounded
    OBVIOUS
  <1>1. at = "supervisor" /\ s.step = 0
    BY DEF Init, InitialState
  <1> QED
    BY <1>1, MaxStepsAssumption DEF Bounded

LEMMA StepBounded == TypeOK /\ Bounded /\ [Next]_vars => Bounded'
  <1> SUFFICES ASSUME TypeOK, Bounded, [Next]_vars PROVE Bounded'
    OBVIOUS
  <1>a. s \in GraphState /\ s.step \in Nat /\ Bumped(s) = s.step + 1 /\ MaxSteps \in Nat
    BY BumpedType, MaxStepsAssumption DEF TypeOK, Bumped
  <1>1. CASE SupervisorBound
    <2>1. /\ at = "supervisor" /\ s'.step = Bumped(s) /\ s'.visited = s.visited
          /\ at' = IF Replied(s) THEN "done" ELSE "local_llm"
      BY <1>1, <1>a, ExitFields DEF SupervisorBound, Follow
    <2> QED
      BY <1>a, <2>1 DEF Bounded, Replied
  <1>2. CASE SupervisorFastPath \/ SupervisorNoClient \/ StructuredFails
    <2>1. s'.step = Bumped(s) /\ at' = "done"
      BY <1>2, <1>a, ExitFields DEF SupervisorFastPath, SupervisorNoClient, StructuredFails, Follow
    <2>2. s.step <= MaxSteps + 3
      BY <1>2, <1>a DEF Bounded, SupervisorFastPath, SupervisorNoClient, StructuredFails,
                    AtBound, Asking
    <2> QED
      BY <1>a, <2>1, <2>2 DEF Bounded
  <1>3. CASE NativeAnswers \/ ToStructured \/ NativeArgsRejected
    <2>1. /\ UNCHANGED s /\ at' \in {"gate", "structured", "done"}
          /\ ~AtBound(s) /\ ~Replied(s)
      BY <1>3 DEF NativeAnswers, ToStructured, NativeArgsRejected, ToGate, Asking
    <2> QED
      BY <2>1 DEF Bounded, AtBound, Replied
  <1>4. CASE StructuredAnswers \/ StructuredRetries
    <2>1. UNCHANGED s /\ at' \in {"gate", "structured"} /\ at = "structured"
      BY <1>4 DEF StructuredAnswers, StructuredRetries, ToGate
    <2> QED
      BY <2>1 DEF Bounded, AtBound, Replied
  <1>5. CASE GateReleases \/ GateFindsNoPlan \/ GateProposes \/ GatePasses
    <2>1. PICK u, plan : GateUpdate(u) /\ Follow(u, plan)
      BY <1>5, GateFollows
    <2>2. /\ s'.step = Bumped(s) /\ s'.visited = s.visited
          /\ at' \in {"done", "tool_execution", "local_llm"}
      BY <2>1, GateFields DEF Follow
    <2>3. at = "gate" /\ ~Replied(s) /\ s.step < MaxSteps
      BY <1>5, <1>a, GateFollows DEF Bounded, AtBound
    <2> QED
      BY <1>a, <2>2, <2>3 DEF Bounded, Replied
  <1>6. CASE ExecuteTools
    <2>1. /\ at = "tool_execution" /\ at' = "supervisor"
          /\ s'.step = Bumped(s)
      BY <1>6, <1>a, WorkerFields DEF ExecuteTools
    <2> QED
      BY <1>a, <2>1 DEF Bounded
  <1>7. CASE ComposeCanned \/ ComposeCloud \/ ComposeLocal
    <2>1. /\ at \in {"local_llm", "local_fallback"} /\ at' = "supervisor"
          /\ s' = ReplyUpdate(s)
      BY <1>7 DEF ComposeCanned, ComposeCloud, ComposeLocal, Back
    <2>2. s'.step = Bumped(s) /\ "local_llm" \in s'.visited
      BY <1>a, <2>1, WorkerFields
    <2> QED
      BY <1>a, <2>1, <2>2 DEF Bounded, Replied
  <1>8. CASE CloudFails
    BY <1>8 DEF CloudFails, Bounded, Replied, AtBound
  <1>9. CASE UNCHANGED vars
    BY <1>9 DEF vars, Bounded, Replied, AtBound
  <1> QED
    BY <1>1, <1>2, <1>3, <1>4, <1>5, <1>6, <1>7, <1>8, <1>9
       DEF Next, Supervisor, LocalLlm, Ended

(* The supervisor's step bound, with the fast path behind it, leaves room  *)
(* for one tool round, one composition and the two visits that follow.     *)
THEOREM AlwaysBounded == Spec => []Bounded
  BY InitType, StepType, InitBounded, StepBounded, PTL DEF Spec

(* The turn ends before the recursion limit if the limit leaves room for   *)
(* the four visits that can follow the bound (25 and 8 in the code).       *)
THEOREM AlwaysWithinRecursionLimit ==
  ASSUME RecursionLimit \in Nat, MaxSteps + 4 <= RecursionLimit
  PROVE  Spec => []WithinRecursionLimit
  <1>1. TypeOK /\ Bounded => WithinRecursionLimit
    <2> SUFFICES ASSUME TypeOK, Bounded PROVE WithinRecursionLimit
      OBVIOUS
    <2>1. s.step \in Nat /\ s.step <= MaxSteps + 4
      BY BumpedType DEF TypeOK, Bounded
    <2> QED
      BY <2>1, MaxStepsAssumption DEF WithinRecursionLimit
  <1> QED
    BY <1>1, TypeCorrect, AlwaysBounded, PTL

(* supervisor: a turn that has replied takes the fast path or the bound's  *)
(* exit, so no router is asked after the reply.                            *)
THEOREM AlwaysNoRoutingAfterReply == Spec => []NoRoutingAfterReply
  <1>1. Bounded => NoRoutingAfterReply
    BY DEF Bounded, NoRoutingAfterReply
  <1> QED
    BY <1>1, AlwaysBounded, PTL

(* local_llm is entered at most once in a turn, the step bound included.   *)
THEOREM AlwaysComposesOnce == Spec => ComposesOnce
  <1>1. TypeOK /\ Bounded /\ [Next]_vars
           => [at' = "local_llm" /\ at # "local_llm" => ~Replied(s)]_vars
    <2> SUFFICES ASSUME TypeOK, Bounded, [Next]_vars,
                        at' = "local_llm", at # "local_llm", Replied(s)
                 PROVE  FALSE
      OBVIOUS
    <2>1. s \in GraphState /\ at \notin {"gate", "structured"}
      BY DEF TypeOK, Bounded
    <2>2. ~(GateReleases \/ GateFindsNoPlan \/ GateProposes \/ GatePasses)
      BY <2>1, GateFollows
    <2>3. ~SupervisorBound
      BY <2>1, ExitFields DEF SupervisorBound, Follow
    <2>4. ~(SupervisorFastPath \/ SupervisorNoClient \/ StructuredFails)
      BY <2>1, ExitFields DEF SupervisorFastPath, SupervisorNoClient, StructuredFails, Follow
    <2> QED
      BY <2>2, <2>3, <2>4
         DEF Next, Supervisor, LocalLlm, Ended, vars, NativeAnswers, NativeArgsRejected,
             ToStructured, StructuredAnswers, StructuredRetries, ToGate, ExecuteTools,
             ComposeCanned, ComposeCloud, CloudFails, ComposeLocal, Back
  <1> QED
    BY <1>1, TypeCorrect, AlwaysBounded, PTL DEF Spec, ComposesOnce

-----------------------------------------------------------------------------
(* A turn winds down: a visit that ends costs one of the steps left below   *)
(* the bound, which is worth more than anything a visit can hold.           *)
LEMMA InVisitRange ==
  ASSUME NEW place, NEW tried \in 0 .. MaxAttempts - 1
  PROVE  LeftInVisit(place, tried) \in 0 .. MaxAttempts + 2
  <1>1. MaxAttempts \in Nat \ {0} /\ tried \in Nat /\ tried <= MaxAttempts - 1
    BY AttemptsAssumption
  <1>2. CASE place = "supervisor"
    BY <1>1, <1>2 DEF LeftInVisit
  <1>3. CASE place = "structured"
    BY <1>1, <1>3 DEF LeftInVisit
  <1>4. CASE place \notin {"supervisor", "structured"}
    BY <1>1, <1>4 DEF LeftInVisit
  <1> QED
    BY <1>2, <1>3, <1>4

\* One visit less outweighs what any visit holds.
LEMMA VisitOutweighs ==
  ASSUME NEW k \in Nat, NEW n \in Nat \ {0}, NEW here \in 0 .. k + 2, NEW there \in 0 .. k + 2
  PROVE  (k + 3) * (n - 1) + there \in 0 .. (k + 3) * n + here - 1
  <1>1. (k + 3) * (n - 1) = (k + 3) * n - (k + 3)
    OBVIOUS
  <1>2. (k + 3) * (n - 1) \in Nat /\ (k + 3) * n \in Nat
    OBVIOUS
  <1> QED
    BY <1>1, <1>2

\* The steps left below the limit of AlwaysBounded.
LEMMA VisitsLeft == TypeOK /\ Bounded => MaxSteps + 4 - s.step \in Nat
  <1> SUFFICES ASSUME TypeOK, Bounded PROVE MaxSteps + 4 - s.step \in Nat
    OBVIOUS
  <1>1. s.step \in Nat
    BY BumpedType DEF TypeOK
  <1>2. s.step <= MaxSteps + 4
    BY DEF Bounded
  <1> QED
    BY <1>1, <1>2, MaxStepsAssumption

\* A node visit ends.
LEMMA VisitEnds ==
  ASSUME TypeOK, TypeOK', Bounded', s'.step = Bumped(s)
  PROVE  StepsLeft' \in 0 .. StepsLeft - 1
  <1> DEFINE n == MaxSteps + 4 - s.step
             here == LeftInVisit(at, attempts)
             there == LeftInVisit(at', attempts')
  <1>1. n \in Nat \ {0} /\ MaxSteps + 4 - s'.step = n - 1
    <2>1. s.step \in Nat /\ s'.step = s.step + 1
      BY BumpedType DEF TypeOK, Bumped
    <2>2. s'.step <= MaxSteps + 4
      BY DEF Bounded
    <2> QED
      BY <2>1, <2>2, MaxStepsAssumption
  <1>2. here \in 0 .. MaxAttempts + 2 /\ there \in 0 .. MaxAttempts + 2
    BY InVisitRange DEF TypeOK
  <1>3. StepsLeft = (MaxAttempts + 3) * n + here /\ StepsLeft' = (MaxAttempts + 3) * (n - 1) + there
    BY <1>1 DEF StepsLeft
  <1> HIDE DEF n, here, there
  <1> QED
    BY <1>1, <1>2, <1>3, VisitOutweighs, AttemptsAssumption

\* A step within a visit.
LEMMA VisitGoesOn ==
  ASSUME TypeOK, Bounded, TypeOK', s' = s,
         LeftInVisit(at', attempts') < LeftInVisit(at, attempts)
  PROVE  StepsLeft' \in 0 .. StepsLeft - 1
  <1> DEFINE n == MaxSteps + 4 - s.step
             left == (MaxAttempts + 3) * n
             here == LeftInVisit(at, attempts)
             there == LeftInVisit(at', attempts')
  <1>1. n \in Nat /\ MaxAttempts + 3 \in Nat
    BY VisitsLeft, AttemptsAssumption
  <1>2. left \in Nat
    <2> HIDE DEF n
    <2> QED
      BY <1>1
  <1>3. here \in Nat /\ there \in Nat
    <2>1. here \in 0 .. MaxAttempts + 2 /\ there \in 0 .. MaxAttempts + 2
      BY InVisitRange DEF TypeOK
    <2> HIDE DEF here, there
    <2> QED
      BY <2>1
  <1>4. StepsLeft = left + here /\ StepsLeft' = left + there
    BY DEF StepsLeft
  <1>5. there < here
    OBVIOUS
  <1> HIDE DEF left, here, there
  <1> QED
    BY <1>2, <1>3, <1>4, <1>5

\* Where a visit can go without ending.
LEMMA InVisitOrder ==
  ASSUME NEW tried \in 0 .. MaxAttempts - 1, NEW after
  PROVE  /\ LeftInVisit("gate", after) < LeftInVisit("supervisor", tried)
         /\ LeftInVisit("done", after) < LeftInVisit("supervisor", tried)
         /\ LeftInVisit("structured", 0) < LeftInVisit("supervisor", tried)
         /\ LeftInVisit("structured", tried + 1) < LeftInVisit("structured", tried)
         /\ LeftInVisit("gate", after) < LeftInVisit("structured", tried)
         /\ LeftInVisit("local_fallback", after) < LeftInVisit("local_llm", tried)
  <1>1. tried \in Nat /\ MaxAttempts \in Nat /\ tried <= MaxAttempts - 1
    BY AttemptsAssumption
  <1>2. /\ LeftInVisit("gate", after) = 1 /\ LeftInVisit("done", after) = 0
        /\ LeftInVisit("local_fallback", after) = 0 /\ LeftInVisit("local_llm", tried) = 1
        /\ LeftInVisit("supervisor", tried) = MaxAttempts + 2
        /\ LeftInVisit("structured", tried) = MaxAttempts - tried + 1
        /\ LeftInVisit("structured", 0) = MaxAttempts - 0 + 1
        /\ LeftInVisit("structured", tried + 1) = MaxAttempts - (tried + 1) + 1
    BY DEF LeftInVisit
  <1> QED
    BY <1>1, <1>2

LEMMA StepCounts ==
  TypeOK /\ Bounded /\ TypeOK' /\ Bounded' /\ [Next]_vars
     => [StepsLeft' \in 0 .. StepsLeft - 1]_vars
  <1> SUFFICES ASSUME TypeOK, Bounded, TypeOK', Bounded', Next, vars' # vars
               PROVE  StepsLeft' \in 0 .. StepsLeft - 1
    OBVIOUS
  <1>a. s \in GraphState
    BY DEF TypeOK
  <1>b. attempts \in 0 .. MaxAttempts - 1
    BY DEF TypeOK
  <1>1. CASE SupervisorBound \/ SupervisorFastPath \/ SupervisorNoClient \/ StructuredFails
    <2>1. s'.step = Bumped(s)
      BY <1>1, <1>a, ExitFields
         DEF SupervisorBound, SupervisorFastPath, SupervisorNoClient, StructuredFails, Follow
    <2> QED
      BY <2>1, VisitEnds
  <1>2. CASE GateReleases \/ GateFindsNoPlan \/ GateProposes \/ GatePasses
    <2>1. PICK u, plan : GateUpdate(u) /\ Follow(u, plan)
      BY <1>2, GateFollows
    <2>2. s'.step = Bumped(s)
      BY <2>1, GateFields DEF Follow
    <2> QED
      BY <2>2, VisitEnds
  <1>3. CASE ExecuteTools \/ ComposeCanned \/ ComposeCloud \/ ComposeLocal
    <2>1. s' = ToolUpdate(s) \/ s' = ReplyUpdate(s)
      BY <1>3 DEF ExecuteTools, ComposeCanned, ComposeCloud, ComposeLocal, Back
    <2>2. s'.step = Bumped(s)
      BY <1>a, <2>1, WorkerFields
    <2> QED
      BY <2>2, VisitEnds
  <1>4. CASE NativeAnswers \/ NativeArgsRejected \/ ToStructured
    <2>1. /\ s' = s /\ at = "supervisor"
          /\ at' \in {"gate", "done"} \/ (at' = "structured" /\ attempts' = 0)
      BY <1>4 DEF NativeAnswers, NativeArgsRejected, ToStructured, ToGate, Asking
    <2>2. LeftInVisit(at', attempts') < LeftInVisit(at, attempts)
      BY <1>b, <2>1, InVisitOrder
    <2> QED
      BY <2>1, <2>2, VisitGoesOn
  <1>5. CASE StructuredAnswers \/ StructuredRetries
    <2>1. /\ s' = s /\ at = "structured"
          /\ at' = "gate" \/ (at' = "structured" /\ attempts' = attempts + 1)
      BY <1>5 DEF StructuredAnswers, StructuredRetries, ToGate
    <2>2. LeftInVisit(at', attempts') < LeftInVisit(at, attempts)
      BY <1>b, <2>1, InVisitOrder
    <2> QED
      BY <2>1, <2>2, VisitGoesOn
  <1>6. CASE CloudFails
    <2>1. s' = s /\ at = "local_llm" /\ at' = "local_fallback"
      BY <1>6 DEF CloudFails
    <2>2. LeftInVisit(at', attempts') < LeftInVisit(at, attempts)
      BY <1>b, <2>1, InVisitOrder
    <2> QED
      BY <2>1, <2>2, VisitGoesOn
  <1>7. CASE Ended
    BY <1>7 DEF Ended
  <1> QED
    BY <1>1, <1>2, <1>3, <1>4, <1>5, <1>6, <1>7 DEF Next, Supervisor, LocalLlm

(* run: a turn has a variant that every step of it lowers, whatever the    *)
(* models and the tools answer: at most as many steps as the limits allow. *)
THEOREM AlwaysEveryStepCounts == Spec => EveryStepCounts
  BY TypeCorrect, AlwaysBounded, StepCounts, PTL DEF Spec, EveryStepCounts

-----------------------------------------------------------------------------
(* What a turn sends.  A composer is entered only before the reply, while  *)
(* nothing has been sent, and every composer ends in the reply.            *)
Silent ==
    /\ ~Replied(s) => body = {}
    /\ OneVoice

LEMMA StepSilent == TypeOK /\ Bounded /\ Silent /\ [Next]_vars => Silent'
  <1> SUFFICES ASSUME TypeOK, Bounded, Silent, [Next]_vars PROVE Silent'
    OBVIOUS
  <1>a. s \in GraphState
    BY DEF TypeOK
  <1>1. ASSUME NEW sent, Back(sent), at \in {"local_llm", "local_fallback"},
               sent = {} \/ \E x : sent = {x}
        PROVE  Silent'
    <2>1. body' = sent
      BY <1>1 DEF Bounded, Silent, Back
    <2>2. Replied(s')
      BY <1>1, <1>a, WorkerFields DEF Back, Replied
    <2>3. Cardinality(sent) <= 1
      BY <1>1, FS_EmptySet, FS_Singleton
    <2> QED
      BY <2>1, <2>2, <2>3 DEF Silent, OneVoice, Replied
  <1>2. CASE ComposeCanned \/ ComposeCloud \/ ComposeLocal
    BY <1>1, <1>2 DEF ComposeCanned, ComposeCloud, ComposeLocal, LocalSends
  <1>3. ASSUME UNCHANGED body, Replied(s) => Replied(s')
        PROVE  Silent'
    BY <1>3 DEF Silent, OneVoice, Replied
  <1>4. CASE GateReleases \/ GateFindsNoPlan \/ GateProposes \/ GatePasses
    BY <1>3, <1>4, GateFollows, GateFields DEF Follow, Replied
  <1>5. CASE SupervisorBound \/ SupervisorFastPath \/ SupervisorNoClient \/ StructuredFails
    BY <1>3, <1>5, <1>a, ExitFields DEF SupervisorBound, SupervisorFastPath, SupervisorNoClient,
                                        StructuredFails, Follow, Replied
  <1>6. CASE ExecuteTools
    BY <1>3, <1>6, <1>a, WorkerFields DEF ExecuteTools, Replied
  <1> QED
    BY <1>2, <1>3, <1>4, <1>5, <1>6
       DEF Next, Supervisor, LocalLlm, Ended, vars, NativeAnswers, NativeArgsRejected,
           ToStructured, StructuredAnswers, StructuredRetries, ToGate, CloudFails

(* What the caller of a turn has been sent comes from one composer: a      *)
(* cloud stream that breaks after its first token is not taken over by the *)
(* local model, and a turn composes once (orchestrator.py, local_llm), for *)
(* any requests, limits and answers of the models.                         *)
THEOREM AlwaysOneVoice == Spec => []OneVoice
  <1>1. Init => Silent
    <2>1. Cardinality({}) <= 1
      BY FS_EmptySet
    <2> QED
      BY <2>1 DEF Init, Silent, OneVoice
  <1>2. Silent => OneVoice
    BY DEF Silent
  <1> QED
    BY <1>1, <1>2, StepSilent, TypeCorrect, AlwaysBounded, PTL DEF Spec

-----------------------------------------------------------------------------
(* A turn halted by the bound has replied: the bound ends a turn only on   *)
(* the supervisor visit that follows the reply.                            *)
LEMMA StepHalted == TypeOK /\ HaltedTurnReplies /\ [Next]_vars => HaltedTurnReplies'
  <1> SUFFICES ASSUME TypeOK, HaltedTurnReplies, [Next]_vars PROVE HaltedTurnReplies'
    OBVIOUS
  <1>a. s \in GraphState
    BY DEF TypeOK
  <1>1. ASSUME NEW u, NEW plan, Follow(u, plan), u.visited = s.visited,
               u.next = "finish" /\ u.status = "halted_step_bound" => Replied(s)
        PROVE  HaltedTurnReplies'
    BY <1>1 DEF Follow, HaltedTurnReplies, Replied
  <1>2. CASE SupervisorBound
    BY <1>1, <1>2, <1>a, ExitFields DEF SupervisorBound
  <1>3. CASE SupervisorFastPath \/ SupervisorNoClient \/ StructuredFails
    BY <1>1, <1>3, <1>a, ExitFields DEF SupervisorFastPath, SupervisorNoClient, StructuredFails
  <1>4. CASE GateReleases \/ GateFindsNoPlan \/ GateProposes \/ GatePasses
    <2>1. PICK u, plan : GateUpdate(u) /\ Follow(u, plan)
      BY <1>4, GateFollows
    <2>2. u.visited = s.visited /\ (u.next = "finish" => u.status = "completed")
      BY <2>1, GateFields
    <2> QED
      BY <1>1, <2>1, <2>2
  <1>5. CASE ExecuteTools \/ ComposeCanned \/ ComposeCloud \/ ComposeLocal
    <2>1. UNCHANGED outcome /\ (s' = ToolUpdate(s) \/ s' = ReplyUpdate(s))
      BY <1>5 DEF ExecuteTools, ComposeCanned, ComposeCloud, ComposeLocal, Back
    <2>2. s.visited \subseteq s'.visited
      BY <1>a, <2>1, WorkerFields
    <2> QED
      BY <2>1, <2>2 DEF HaltedTurnReplies, Replied
  <1>6. CASE NativeArgsRejected
    BY <1>6 DEF NativeArgsRejected, HaltedTurnReplies
  <1>7. CASE \/ NativeAnswers \/ ToStructured \/ StructuredAnswers \/ StructuredRetries
             \/ CloudFails \/ UNCHANGED vars
    BY <1>7 DEF NativeAnswers, ToStructured, StructuredAnswers, StructuredRetries, ToGate,
                CloudFails, vars, HaltedTurnReplies, Replied
  <1> QED
    BY <1>2, <1>3, <1>4, <1>5, <1>6, <1>7 DEF Next, Supervisor, LocalLlm, Ended

(* The step bound ends a turn only after a reply has been composed.        *)
THEOREM AlwaysHaltedTurnReplies == Spec => []HaltedTurnReplies
  <1>1. Init => HaltedTurnReplies
    BY DEF Init, HaltedTurnReplies
  <1> QED
    BY <1>1, StepHalted, InitType, StepType, PTL DEF Spec

-----------------------------------------------------------------------------
(* What tool_execution is handed.  Tools run only once the gate has let a  *)
(* batch through, so nothing is waiting for approval then.                 *)
LEMMA GateBatch ==
  ASSUME TypeOK, NEW u, GateUpdate(u)
  PROVE  /\ u.next = "tool_execution" => u.pendingPlan = {}
         /\ u.next = "tool_execution" => ~u.planNote
  <1>1. s \in GraphState
    BY DEF TypeOK
  <1>2. \A plan \in Plans : /\ Approve(s, plan).pendingPlan = {}
                            /\ Approve(s, plan).planNote = FALSE
    BY <1>1 DEF Approve, Routed, GraphState
  <1>3. PassOn(s, Final, Canned).pendingPlan = {} /\ PassOn(s, Final, Canned).planNote = FALSE
    BY <1>1 DEF PassOn, Routed, GraphState
  <1>4. Propose(s, Final).next = "local_llm"
    BY <1>1 DEF Propose, Routed, GraphState
  <1>5. CASE Final.native = {}
    <2>1. NothingToRelease(s, Final, Canned).next = "local_llm"
      BY <1>1, <1>5 DEF NothingToRelease, Routed, GraphState
    <2> QED
      BY <1>2, <1>3, <1>4, <2>1 DEF GateUpdate
  <1>6. CASE Final.native # {}
    <2>1. NothingToRelease(s, Final, Canned) = PassOn(s, Final, Canned)
      BY <1>6 DEF NothingToRelease, PassOn
    <2> QED
      BY <1>2, <1>3, <1>4, <2>1 DEF GateUpdate
  <1> QED
    BY <1>5, <1>6

NothingWaits ==
    at = "tool_execution" => s.pendingPlan = {} /\ ~s.planNote

LEMMA StepNothingWaits == TypeOK /\ [Next]_vars /\ NothingWaits => NothingWaits'
  <1> SUFFICES ASSUME TypeOK, [Next]_vars, NothingWaits, at' = "tool_execution"
               PROVE  s'.pendingPlan = {} /\ ~s'.planNote
    BY DEF NothingWaits
  <1>a. s \in GraphState
    BY DEF TypeOK
  <1>1. CASE GateReleases \/ GateFindsNoPlan \/ GateProposes \/ GatePasses
    <2>1. PICK u, plan : GateUpdate(u) /\ Follow(u, plan)
      BY <1>1, GateFollows
    <2>2. u.next = "tool_execution" /\ s' = u
      BY <2>1, GateFields DEF Follow
    <2> QED
      BY <2>1, <2>2, GateBatch
  <1>2. ~(SupervisorBound \/ SupervisorFastPath \/ SupervisorNoClient \/ StructuredFails)
    BY <1>a, ExitFields DEF SupervisorBound, SupervisorFastPath, SupervisorNoClient,
                            StructuredFails, Follow
  <1>3. CASE UNCHANGED vars
    BY <1>3 DEF vars, NothingWaits
  <1>4. CASE StructuredRetries
    BY <1>4 DEF StructuredRetries
  <1> QED
    BY <1>1, <1>2, <1>3, <1>4
       DEF Next, Supervisor, LocalLlm, Ended, NativeAnswers, NativeArgsRejected, ToStructured,
           StructuredAnswers, ToGate, ExecuteTools, ComposeCanned, ComposeCloud, CloudFails,
           ComposeLocal, Back

LEMMA NothingEverWaits == Spec => []NothingWaits
  <1>1. Init => NothingWaits
    BY DEF Init, NothingWaits
  <1> QED
    BY <1>1, StepNothingWaits, InitType, StepType, PTL DEF Spec

(* executed grows in tool_execution only. *)
LEMMA ExecutedStays ==
  ASSUME TypeOK, [Next]_vars, ~ExecuteTools
  PROVE  s'.executed = s.executed /\ s'.visited \in {s.visited, s.visited \union {"local_llm"}}
  <1>a. s \in GraphState
    BY DEF TypeOK
  <1>1. CASE GateReleases \/ GateFindsNoPlan \/ GateProposes \/ GatePasses
    BY <1>1, GateFollows, GateFields DEF Follow
  <1>2. CASE SupervisorBound \/ SupervisorFastPath \/ SupervisorNoClient \/ StructuredFails
    BY <1>2, <1>a, ExitFields DEF SupervisorBound, SupervisorFastPath, SupervisorNoClient,
                                  StructuredFails, Follow
  <1>3. CASE ComposeCanned \/ ComposeCloud \/ ComposeLocal
    BY <1>3, <1>a, WorkerFields DEF ComposeCanned, ComposeCloud, ComposeLocal, Back
  <1> QED
    BY <1>1, <1>2, <1>3
       DEF Next, Supervisor, LocalLlm, Ended, vars, NativeAnswers, NativeArgsRejected,
           ToStructured, StructuredAnswers, StructuredRetries, ToGate, CloudFails

(* A plan put up for approval is not run by the turn that proposed it, on  *)
(* either routing path.                                                    *)
THEOREM AlwaysProposedNotRun == Spec => ProposedNotRun
  <1>1. TypeOK /\ NothingWaits /\ [Next]_vars
           => [s.pendingPlan # {} => s'.executed = s.executed]_vars
    <2> SUFFICES ASSUME TypeOK, NothingWaits, [Next]_vars, s.pendingPlan # {}
                 PROVE  s'.executed = s.executed
      OBVIOUS
    <2>1. ~ExecuteTools
      BY DEF NothingWaits, ExecuteTools
    <2> QED
      BY <2>1, ExecutedStays
  <1> QED
    BY <1>1, TypeCorrect, NothingEverWaits, PTL DEF Spec, ProposedNotRun

-----------------------------------------------------------------------------
(* The apology for a plan that is gone.  A turn in which something has run *)
(* has visited tool_execution, and then the gate releases and apologises   *)
(* no more.                                                                *)
LEMMA InitExecuted == Init => s.executed = {}
  <1>1. InitialState.executed = {}
    BY DEF InitialState
  <1> QED
    BY <1>1 DEF Init

VisitRecorded == s.executed # {} => ToolsRan(s)

LEMMA StepVisitRecorded == TypeOK /\ VisitRecorded /\ [Next]_vars => VisitRecorded'
  <1> SUFFICES ASSUME TypeOK, VisitRecorded, [Next]_vars PROVE VisitRecorded'
    OBVIOUS
  <1>1. CASE ExecuteTools
    BY <1>1, WorkerFields DEF ExecuteTools, TypeOK, VisitRecorded, ToolsRan
  <1>2. CASE ~ExecuteTools
    BY <1>2, ExecutedStays DEF VisitRecorded, ToolsRan
  <1> QED
    BY <1>1, <1>2

LEMMA VisitsAlwaysRecorded == Spec => []VisitRecorded
  <1>1. Init => VisitRecorded
    BY InitExecuted DEF VisitRecorded
  <1> QED
    BY <1>1, StepVisitRecorded, InitType, StepType, PTL DEF Spec

LEMMA PlanNotes ==
  ASSUME TypeOK, [Next]_vars, s'.planNote
  PROVE  s.planNote \/ (GateFindsNoPlan /\ ~ToolsRan(s))
  <1>a. s \in GraphState
    BY DEF TypeOK
  <1>1. CASE GateReleases
    <2>1. PICK plan \in Plans : s' = Approve(s, plan)
      BY <1>1 DEF GateReleases, Follow
    <2>2. Approve(s, plan).planNote = FALSE
      BY <1>a DEF Approve, Routed, GraphState
    <2> QED
      BY <2>1, <2>2
  <1>2. CASE GateFindsNoPlan
    BY <1>2 DEF GateFindsNoPlan, Releasing
  <1>3. CASE GateProposes
    <2>1. s' = Propose(s, Final) /\ Propose(s, Final).planNote = FALSE
      BY <1>3, <1>a DEF GateProposes, Follow, Propose, Routed, GraphState
    <2> QED
      BY <2>1
  <1>4. CASE GatePasses
    <2>1. s' = PassOn(s, Final, Canned) /\ PassOn(s, Final, Canned).planNote = FALSE
      BY <1>4, <1>a DEF GatePasses, Follow, PassOn, Routed, GraphState
    <2> QED
      BY <2>1
  <1>5. CASE SupervisorBound
    <2>1. BoundUpdate(s).planNote = s.planNote \/ BoundUpdate(s).planNote = FALSE
      BY <1>a DEF BoundUpdate, GraphState
    <2> QED
      BY <1>5, <2>1 DEF SupervisorBound, Follow
  <1>6. CASE SupervisorFastPath
    <2>1. FastPath(s).planNote = FALSE
      BY <1>a DEF FastPath, GraphState
    <2> QED
      BY <1>6, <2>1 DEF SupervisorFastPath, Follow
  <1>7. CASE SupervisorNoClient \/ StructuredFails
    <2>1. Degraded(s).planNote = s.planNote
      BY <1>a DEF Degraded, GraphState
    <2> QED
      BY <1>7, <2>1 DEF SupervisorNoClient, StructuredFails, Follow
  <1>8. CASE ExecuteTools \/ ComposeCanned \/ ComposeCloud \/ ComposeLocal
    <2>1. s' = ToolUpdate(s) \/ s' = ReplyUpdate(s)
      BY <1>8 DEF ExecuteTools, ComposeCanned, ComposeCloud, ComposeLocal, Back
    <2> QED
      BY <1>a, <2>1, WorkerFields
  <1> QED
    BY <1>1, <1>2, <1>3, <1>4, <1>5, <1>6, <1>7, <1>8
       DEF Next, Supervisor, LocalLlm, Ended, vars, NativeAnswers, NativeArgsRejected,
           ToStructured, StructuredAnswers, StructuredRetries, ToGate, CloudFails

LEMMA StepNoApology ==
  TypeOK /\ VisitRecorded /\ NothingWaits /\ NoApologyAfterWork /\ [Next]_vars
     => NoApologyAfterWork'
  <1> SUFFICES ASSUME TypeOK, VisitRecorded, NothingWaits, NoApologyAfterWork, [Next]_vars,
                      s'.planNote
               PROVE  s'.executed = {}
    BY DEF NoApologyAfterWork
  <1>1. CASE ExecuteTools
    BY <1>1, PlanNotes DEF ExecuteTools, NothingWaits, GateFindsNoPlan
  <1>2. CASE ~ExecuteTools
    BY <1>2, PlanNotes, ExecutedStays DEF NoApologyAfterWork, VisitRecorded
  <1> QED
    BY <1>1, <1>2

(* The note that there was no plan to release is set only in a turn that   *)
(* has executed nothing.                                                   *)
THEOREM AlwaysNoApologyAfterWork == Spec => []NoApologyAfterWork
  <1>1. Init => NoApologyAfterWork
    BY InitExecuted DEF NoApologyAfterWork
  <1> QED
    BY <1>1, StepNoApology, TypeCorrect, VisitsAlwaysRecorded, NothingEverWaits, PTL DEF Spec

-----------------------------------------------------------------------------
(* The write gate and the repeat-call guard, on the native path.  A native *)
(* decision towards tool_execution has a batch, what the guard leaves of   *)
(* it is not empty, and so what runs is what the gate looked at.           *)
OnNativePath == NativeToolCalling /\ ~StructuredFallback

NativeOnly ==
    /\ at # "structured"
    /\ at = "gate" /\ decision.next = "tool_execution" => decision.native # {}

LEMMA StepNativeOnly == OnNativePath /\ TypeOK /\ NativeOnly /\ [Next]_vars => NativeOnly'
  <1> SUFFICES ASSUME OnNativePath, TypeOK, NativeOnly, [Next]_vars PROVE NativeOnly'
    OBVIOUS
  <1>1. CASE NativeAnswers
    BY <1>1, BatchesAssumption DEF NativeAnswers, ToGate, NativeDecision, NativeOnly
  <1>2. CASE GateReleases \/ GateFindsNoPlan \/ GateProposes \/ GatePasses
    BY <1>2, GateFollows, GateFields DEF Follow, NativeOnly
  <1>3. CASE SupervisorBound \/ SupervisorFastPath \/ SupervisorNoClient
    BY <1>3, ExitFields DEF SupervisorBound, SupervisorFastPath, SupervisorNoClient, Follow,
                            NativeOnly, TypeOK
  <1>4. ~(ToStructured \/ StructuredAnswers \/ StructuredRetries \/ StructuredFails)
    BY DEF OnNativePath, NativeOnly, ToStructured, StructuredAnswers, StructuredRetries,
           StructuredFails
  <1> QED
    BY <1>1, <1>2, <1>3, <1>4
       DEF Next, Supervisor, LocalLlm, Ended, vars, NativeOnly, NativeArgsRejected,
           ExecuteTools, ComposeCanned, ComposeCloud, CloudFails, ComposeLocal, Back

LEMMA AlwaysNativeOnly ==
  ASSUME OnNativePath
  PROVE  Spec => []NativeOnly
  <1>1. Init => NativeOnly
    BY DEF Init, NativeOnly
  <1>2. TypeOK /\ NativeOnly /\ [Next]_vars => NativeOnly'
    BY StepNativeOnly
  <1> QED
    BY <1>1, <1>2, TypeCorrect, PTL DEF Spec

(* What is left for tool_execution of a routing with no plan to release.   *)
LEMMA PassedBatch ==
  ASSUME TypeOK, NativeOnly, at = "gate", Final.next = "tool_execution",
         NEW t, t = PassOn(s, Final, Canned)
  PROVE  /\ RequestedCalls(t) = Final.native /\ Final.native # {}
         /\ Final.native = Fresh(s, decision.native)
  <1>1. s \in GraphState /\ decision.next = "tool_execution"
    BY DEF TypeOK, Final, Guarded, Decision
  <1>2. decision.native # {} /\ Final.native = Fresh(s, decision.native)
    BY <1>1 DEF NativeOnly, Final, Guarded
  <1>3. Final.native # {}
    BY <1>1, <1>2 DEF Final, Guarded
  <1>4. t.toolCalls = Final.native
    BY <1>1 DEF PassOn, Routed, GraphState
  <1> QED
    BY <1>2, <1>3, <1>4 DEF RequestedCalls

(* No call runs again in a later round. *)
FreshBatch ==
    at = "tool_execution" =>
       \A c \in RequestedCalls(s), e \in s.executed : Signature[e[2]] # Signature[c]

LEMMA StepFreshBatch ==
  ASSUME OnNativePath, TypeOK, NativeOnly, VisitRecorded, FreshBatch, [Next]_vars
  PROVE  FreshBatch'
  <1> SUFFICES ASSUME at' = "tool_execution"
               PROVE  \A c \in RequestedCalls(s'), e \in s'.executed :
                         Signature[e[2]] # Signature[c]
    BY DEF FreshBatch, RequestedCalls
  <1>a. s \in GraphState
    BY DEF TypeOK
  <1>1. CASE GateReleases
    <2>1. ~ToolsRan(s) /\ s.executed = {}
      BY <1>1 DEF GateReleases, Releasing, VisitRecorded
    <2>2. s'.executed = {}
      BY <1>1, <2>1, ExecutedStays DEF GateReleases, ExecuteTools
    <2> QED
      BY <2>2
  <1>2. CASE GateFindsNoPlan
    <2>1. ~ToolsRan(s) /\ s.executed = {}
      BY <1>2 DEF GateFindsNoPlan, Releasing, VisitRecorded
    <2>2. s'.executed = {}
      BY <1>2, <2>1, ExecutedStays DEF GateFindsNoPlan, ExecuteTools
    <2> QED
      BY <2>2
  <1>3. CASE GateProposes
    <2>1. Propose(s, Final).next = "local_llm"
      BY <1>a DEF Propose, Routed, GraphState
    <2> QED
      BY <1>3, <2>1 DEF GateProposes, Follow
  <1>4. CASE GatePasses
    <2>1. s' = PassOn(s, Final, Canned) /\ s'.next = "tool_execution" /\ at = "gate"
      BY <1>4, <1>a DEF GatePasses, Follow
    <2>2. Final.next = "tool_execution" /\ s'.executed = s.executed
      BY <1>a, <2>1 DEF PassOn, Routed, GraphState
    <2>3. RequestedCalls(s') = Fresh(s, decision.native)
      BY <2>1, <2>2, PassedBatch
    <2> QED
      BY <2>2, <2>3 DEF Fresh
  <1>5. CASE SupervisorBound \/ SupervisorFastPath \/ SupervisorNoClient \/ StructuredFails
    BY <1>5, <1>a, ExitFields DEF SupervisorBound, SupervisorFastPath, SupervisorNoClient,
                                  StructuredFails, Follow
  <1>6. CASE UNCHANGED vars \/ StructuredRetries
    BY <1>6 DEF vars, FreshBatch, StructuredRetries
  <1> QED
    BY <1>1, <1>2, <1>3, <1>4, <1>5, <1>6
       DEF Next, Supervisor, LocalLlm, Ended, NativeAnswers, NativeArgsRejected, ToStructured,
           StructuredAnswers, ToGate, ExecuteTools, ComposeCanned, ComposeCloud, CloudFails,
           ComposeLocal, Back

(* With native calling only, no later round repeats a call by signature.   *)
THEOREM AlwaysNoRepeatAcrossRounds ==
  ASSUME OnNativePath
  PROVE  Spec => NoRepeatAcrossRounds
  <1>1. Init => FreshBatch
    BY DEF Init, FreshBatch
  <1>2. TypeOK /\ NativeOnly /\ VisitRecorded /\ FreshBatch /\ [Next]_vars => FreshBatch'
    BY StepFreshBatch
  <1>3. FreshBatch /\ [Next]_vars
          => [at = "tool_execution" =>
                 \A c \in RequestedCalls(s), e \in s.executed :
                    Signature[e[2]] # Signature[c]]_vars
    BY DEF FreshBatch
  <1> QED
    BY <1>1, <1>2, <1>3, TypeCorrect, AlwaysNativeOnly, VisitsAlwaysRecorded, PTL
       DEF Spec, NoRepeatAcrossRounds

(* A turn whose message is no go-ahead runs no batch that needs a          *)
(* confirmation.  Each round has a step of its own, so what ran directly   *)
(* at one step is one batch the gate let through.                          *)
GatedBatch ==
    ~Confirming(intent) =>
       /\ at = "tool_execution" => grant = {} /\ ~NeedsConfirmation(RequestedCalls(s))
       /\ \A e \in direct : e[1] < s.step
       /\ \A e \in direct : ~NeedsConfirmation(RoundOf(e[1]))

LEMMA StepNotSmaller ==
  ASSUME TypeOK, [Next]_vars
  PROVE  s'.step \in {s.step, Bumped(s)}
  <1>a. s \in GraphState
    BY DEF TypeOK
  <1>1. CASE GateReleases \/ GateFindsNoPlan \/ GateProposes \/ GatePasses
    BY <1>1, GateFollows, GateFields DEF Follow
  <1>2. CASE SupervisorBound \/ SupervisorFastPath \/ SupervisorNoClient \/ StructuredFails
    BY <1>2, <1>a, ExitFields DEF SupervisorBound, SupervisorFastPath, SupervisorNoClient,
                                  StructuredFails, Follow
  <1>3. CASE ExecuteTools \/ ComposeCanned \/ ComposeCloud \/ ComposeLocal
    BY <1>3, <1>a, WorkerFields DEF ExecuteTools, ComposeCanned, ComposeCloud, ComposeLocal, Back
  <1> QED
    BY <1>1, <1>2, <1>3
       DEF Next, Supervisor, LocalLlm, Ended, vars, NativeAnswers, NativeArgsRejected,
           ToStructured, StructuredAnswers, StructuredRetries, ToGate, CloudFails

LEMMA SecondOfPairs ==
  ASSUME NEW n, NEW R
  PROVE  {e[2] : e \in {n} \X R} = R
  <1>1. \A e \in {n} \X R : e[2] \in R
    OBVIOUS
  <1>2. ASSUME NEW c \in R
        PROVE  \E e \in {n} \X R : e[2] = c
    <2>1. <<n, c>> \in {n} \X R /\ <<n, c>>[2] = c
      OBVIOUS
    <2> QED
      BY <2>1
  <1> QED
    BY <1>1, <1>2

LEMMA StepGatedBatch ==
  ASSUME OnNativePath, TypeOK, NativeOnly, GatedBatch, [Next]_vars
  PROVE  GatedBatch'
  <1>i. UNCHANGED intent
    BY GateFollows
       DEF Next, Supervisor, LocalLlm, Ended, vars, NativeAnswers, NativeArgsRejected,
           ToStructured, StructuredAnswers, StructuredRetries, ToGate, CloudFails,
           ComposeCanned, ComposeCloud, ComposeLocal, Back, Follow, ExecuteTools,
           SupervisorBound, SupervisorFastPath, SupervisorNoClient, StructuredFails
  <1> SUFFICES ASSUME ~Confirming(intent)
               PROVE  /\ at' = "tool_execution"
                           => grant' = {} /\ ~NeedsConfirmation(RequestedCalls(s'))
                      /\ \A e \in direct' : e[1] < s'.step
                      /\ \A e \in direct' : ~NeedsConfirmation(RoundOf(e[1])')
    BY <1>i DEF GatedBatch, RequestedCalls, RoundOf
  <1>a. s \in GraphState /\ s.step \in Nat /\ Bumped(s) = s.step + 1
    BY BumpedType DEF TypeOK, Bumped
  <1>b. ~Releasing(s, intent)
    BY DEF Releasing
  <1>c. ~GateReleases /\ ~GateFindsNoPlan
    BY <1>b DEF GateReleases, GateFindsNoPlan
  <1>1. CASE ExecuteTools
    <2>1. /\ at = "tool_execution" /\ at' = "supervisor" /\ s'.step = s.step + 1
          /\ direct' = direct \union ({s.step} \X RequestedCalls(s))
          /\ ~NeedsConfirmation(RequestedCalls(s))
      BY <1>1, <1>a, WorkerFields DEF ExecuteTools, GatedBatch
    <2>2. \A e \in direct : e[1] < s.step /\ e[1] \in Nat
      BY DEF GatedBatch, TypeOK
    <2>3. \A e \in direct' : e[1] < s'.step
      BY <1>a, <2>1, <2>2
    <2>4. ASSUME NEW n \in {e[1] : e \in direct'}
          PROVE  ~NeedsConfirmation(RoundOf(n)')
      <3>1. CASE n = s.step
        <4>1. {f \in direct' : f[1] = n} = {n} \X RequestedCalls(s)
          BY <1>a, <2>1, <2>2, <3>1
        <4>2. {e[2] : e \in {n} \X RequestedCalls(s)} = RequestedCalls(s)
          BY SecondOfPairs
        <4> QED
          BY <2>1, <4>1, <4>2 DEF RoundOf
      <3>2. CASE n # s.step
        <4>1. {f \in direct' : f[1] = n} = {f \in direct : f[1] = n}
          BY <2>1, <3>2
        <4>2. n \in {e[1] : e \in direct}
          BY <2>1, <3>2
        <4> QED
          BY <4>1, <4>2 DEF GatedBatch, RoundOf
      <3> QED
        BY <3>1, <3>2
    <2> QED
      BY <2>1, <2>3, <2>4
  <1>2. CASE ~ExecuteTools
    <2>1. UNCHANGED direct
      BY <1>2, <1>c, GateFollows
         DEF Next, Supervisor, LocalLlm, Ended, vars, NativeAnswers, NativeArgsRejected,
             ToStructured, StructuredAnswers, StructuredRetries, ToGate, CloudFails,
             ComposeCanned, ComposeCloud, ComposeLocal, Back, Follow,
             SupervisorBound, SupervisorFastPath, SupervisorNoClient, StructuredFails
    <2>2. \A e \in direct : e[1] < s.step /\ e[1] \in Nat
      BY DEF GatedBatch, TypeOK
    <2>3. \A e \in direct' : e[1] < s'.step
      BY <1>a, <2>1, <2>2, StepNotSmaller
    <2>4. \A e \in direct' : ~NeedsConfirmation(RoundOf(e[1])')
      BY <2>1 DEF GatedBatch, RoundOf
    <2>5. ASSUME at' = "tool_execution"
          PROVE  grant' = {} /\ ~NeedsConfirmation(RequestedCalls(s'))
      <3>1. CASE GatePasses
        <4>1. s' = PassOn(s, Final, Canned) /\ s'.next = "tool_execution" /\ grant' = {}
          BY <2>5, <3>1 DEF GatePasses, Follow
        <4>2. Final.next = "tool_execution" /\ at = "gate"
          BY <1>a, <3>1, <4>1 DEF GatePasses, PassOn, Routed, GraphState
        <4>3. RequestedCalls(s') = Final.native
          BY <4>1, <4>2, PassedBatch
        <4>4. ~Proposing(s, intent, Final)
          BY <3>1 DEF GatePasses, PassingOn
        <4> QED
          BY <1>b, <4>1, <4>2, <4>3, <4>4, PassedBatch DEF Proposing
      <3>2. CASE GateProposes
        <4>1. Propose(s, Final).next = "local_llm"
          BY <1>a DEF Propose, Routed, GraphState
        <4> QED
          BY <2>5, <3>2, <4>1 DEF GateProposes, Follow
      <3>3. CASE SupervisorBound \/ SupervisorFastPath \/ SupervisorNoClient \/ StructuredFails
        BY <2>5, <3>3, <1>a, ExitFields
           DEF SupervisorBound, SupervisorFastPath, SupervisorNoClient, StructuredFails, Follow
      <3>4. CASE UNCHANGED vars
        BY <2>5, <3>4 DEF vars, GatedBatch, RequestedCalls
      <3> QED
        BY <1>2, <1>c, <2>5, <3>1, <3>2, <3>3, <3>4
           DEF Next, Supervisor, LocalLlm, Ended, NativeAnswers, NativeArgsRejected,
               ToStructured, StructuredAnswers, StructuredRetries, ToGate, CloudFails,
               ComposeCanned, ComposeCloud, ComposeLocal, Back
    <2> QED
      BY <2>3, <2>4, <2>5
  <1> QED
    BY <1>1, <1>2

(* With native calling only, a turn whose message is no go-ahead runs no   *)
(* round whose unapproved calls need a confirmation.                       *)
THEOREM AlwaysNoUnapprovedBatch ==
  ASSUME OnNativePath
  PROVE  Spec => []NoUnapprovedBatch
  <1>1. Init => GatedBatch
    BY DEF Init, GatedBatch
  <1>2. TypeOK /\ NativeOnly /\ GatedBatch /\ [Next]_vars => GatedBatch'
    BY StepGatedBatch
  <1>3. GatedBatch => NoUnapprovedBatch
    BY DEF GatedBatch, NoUnapprovedBatch
  <1> QED
    BY <1>1, <1>2, <1>3, TypeCorrect, AlwaysNativeOnly, PTL DEF Spec

-----------------------------------------------------------------------------
(* Writes spread over the rounds of a turn.  A round adds writes of a tool *)
(* only if the tool has run fewer than MaxSameToolCalls times, and fewer   *)
(* than ConfirmThreshold of them.                                          *)
WritesOf(t) == {e \in direct : Tool[e[2]] = t}

RunsBounded ==
    /\ IsFiniteSet(s.executed) /\ direct \subseteq s.executed
    /\ ~Confirming(intent) =>
          /\ at = "tool_execution" =>
                \A c \in RequestedCalls(s) : RunsOf(s, Tool[c]) < MaxSameToolCalls
          /\ UnapprovedWritesBounded

(* The writes of one tool in a batch that needs no confirmation.           *)
LEMMA FewWrites ==
  ASSUME NEW R \in SUBSET Calls, ~NeedsConfirmation(R), NEW t \in WriteTools
  PROVE  /\ IsFiniteSet({c \in R : Tool[c] = t})
         /\ Cardinality({c \in R : Tool[c] = t}) <= ConfirmThreshold - 1
  <1> DEFINE A == {c \in R : Tool[c] = t}
             B == {c \in R : Tool[c] \in WriteTools}
  <1>1. IsFiniteSet(B) /\ A \subseteq B
    BY CallsAssumption, FS_Subset
  <1>2. IsFiniteSet(A) /\ Cardinality(A) <= Cardinality(B)
    BY <1>1, FS_Subset
  <1>3. Cardinality(A) \in Nat /\ Cardinality(B) \in Nat
    BY <1>1, <1>2, FS_CardinalityType
  <1>4. ~(Cardinality(B) >= ConfirmThreshold)
    BY DEF NeedsConfirmation
  <1> HIDE DEF A, B
  <1>5. Cardinality(A) <= ConfirmThreshold - 1
    BY <1>2, <1>3, <1>4, ThresholdAssumption
  <1> QED
    BY <1>2, <1>5 DEF A

LEMMA StepRunsBounded ==
  ASSUME OnNativePath, TypeOK, NativeOnly, GatedBatch, RunsBounded, [Next]_vars
  PROVE  RunsBounded'
  <1>i. UNCHANGED intent
    BY GateFollows
       DEF Next, Supervisor, LocalLlm, Ended, vars, NativeAnswers, NativeArgsRejected,
           ToStructured, StructuredAnswers, StructuredRetries, ToGate, CloudFails,
           ComposeCanned, ComposeCloud, ComposeLocal, Back, Follow, ExecuteTools,
           SupervisorBound, SupervisorFastPath, SupervisorNoClient, StructuredFails
  <1>a. s \in GraphState /\ s.step \in Nat /\ RequestedCalls(s) \in SUBSET Calls
    BY DEF TypeOK, GraphState, RequestedCalls
  <1>1. CASE ExecuteTools
    <2> DEFINE R == RequestedCalls(s)
               more == {s.step} \X R
    <2>1. PICK new \in SUBSET more :
             /\ direct' = direct \union new
             /\ s'.executed = s.executed \union more
             /\ at = "tool_execution" /\ at' = "supervisor"
      <3>1. {s.step} \X (R \ grant) \in SUBSET more
        OBVIOUS
      <3> QED
        BY <1>1, <1>a, <3>1 DEF ExecuteTools, ToolUpdate, GraphState
    <2>2. IsFiniteSet(more)
      BY <1>a, CallsAssumption, FS_Subset, FS_Singleton, FS_Product
    <2>3. IsFiniteSet(s'.executed) /\ direct' \subseteq s'.executed
      <3>1. IsFiniteSet(s.executed) /\ direct \subseteq s.executed
        BY DEF RunsBounded
      <3> HIDE DEF more
      <3> QED
        BY <2>1, <2>2, <3>1, FS_Union
    <2>4. ASSUME ~Confirming(intent), NEW t \in WriteTools
          PROVE  Cardinality({e \in direct' : Tool[e[2]] = t})
                    <= (MaxSameToolCalls - 1) + (ConfirmThreshold - 1)
      <3> DEFINE ofTool == {c \in R : Tool[c] = t}
                 added == {e \in new : Tool[e[2]] = t}
                 runs == {e \in s.executed : Tool[e[2]] = t}
      <3>1. {e \in direct' : Tool[e[2]] = t} = WritesOf(t) \union added
        BY <2>1 DEF WritesOf
      <3>2. CASE added = {}
        BY <2>4, <3>1, <3>2 DEF RunsBounded, UnapprovedWritesBounded, WritesOf
      <3>3. CASE added # {}
        <4>1. PICK c \in R : Tool[c] = t
          BY <3>3
        <4>2. Cardinality(runs) < MaxSameToolCalls
          BY <2>1, <2>4, <4>1 DEF RunsBounded, RunsOf
        <4>3. /\ IsFiniteSet(runs) /\ WritesOf(t) \subseteq runs
          BY FS_Subset DEF RunsBounded, WritesOf
        <4>4. /\ IsFiniteSet(WritesOf(t)) /\ Cardinality(WritesOf(t)) <= Cardinality(runs)
              /\ Cardinality(WritesOf(t)) \in Nat /\ Cardinality(runs) \in Nat
          BY <4>3, FS_Subset, FS_CardinalityType
        <4>5. ~NeedsConfirmation(R)
          BY <2>1, <2>4 DEF GatedBatch
        <4>6. IsFiniteSet(ofTool) /\ Cardinality(ofTool) <= ConfirmThreshold - 1
          BY <1>a, <4>5, FewWrites
        <4>7. IsFiniteSet(added) /\ Cardinality(added) <= Cardinality(ofTool)
          <5> DEFINE pairs == {s.step} \X ofTool
          <5>1. added \subseteq pairs
            OBVIOUS
          <5>2. /\ IsFiniteSet(pairs)
                /\ Cardinality(pairs) = Cardinality({s.step}) * Cardinality(ofTool)
            BY <4>6, FS_Singleton, FS_Product
          <5>3. Cardinality(pairs) = Cardinality(ofTool)
            <6>1. Cardinality({s.step}) = 1 /\ Cardinality(ofTool) \in Nat
              BY <4>6, FS_Singleton, FS_CardinalityType
            <6> HIDE DEF pairs, ofTool
            <6> QED
              BY <5>2, <6>1
          <5> HIDE DEF pairs, added, ofTool
          <5> QED
            BY <5>1, <5>2, <5>3, FS_Subset
        <4> HIDE DEF added, ofTool, runs
        <4>8. /\ Cardinality(WritesOf(t) \union added)
                    = Cardinality(WritesOf(t)) + Cardinality(added)
                        - Cardinality(WritesOf(t) \intersect added)
              /\ IsFiniteSet(WritesOf(t) \intersect added)
          BY <4>4, <4>7, FS_Union, FS_Intersection
        <4>9. /\ Cardinality(added) \in Nat /\ Cardinality(ofTool) \in Nat
              /\ Cardinality(WritesOf(t) \intersect added) \in Nat
          BY <4>6, <4>7, <4>8, FS_CardinalityType
        <4> DEFINE m == Cardinality(WritesOf(t))
                   k == Cardinality(added)
                   both == Cardinality(WritesOf(t) \intersect added)
        <4>10. m + k - both <= (MaxSameToolCalls - 1) + (ConfirmThreshold - 1)
          <5>1. /\ m \in Nat /\ k \in Nat /\ both \in Nat /\ k <= ConfirmThreshold - 1
                /\ m <= MaxSameToolCalls - 1
            BY <4>2, <4>4, <4>6, <4>7, <4>9, MaxSameAssumption, ThresholdAssumption
          <5> HIDE DEF m, k, both
          <5> QED
            BY <5>1, MaxSameAssumption, ThresholdAssumption
        <4> QED
          BY <3>1, <4>8, <4>10
      <3> QED
        BY <3>2, <3>3
    <2> QED
      BY <1>i, <2>1, <2>3, <2>4 DEF RunsBounded, UnapprovedWritesBounded
  <1>2. CASE ~ExecuteTools
    <2>1. UNCHANGED direct /\ s'.executed = s.executed
      BY <1>2, ExecutedStays, GateFollows
         DEF Next, Supervisor, LocalLlm, Ended, vars, NativeAnswers, NativeArgsRejected,
             ToStructured, StructuredAnswers, StructuredRetries, ToGate, CloudFails,
             ComposeCanned, ComposeCloud, ComposeLocal, Back, Follow,
             SupervisorBound, SupervisorFastPath, SupervisorNoClient, StructuredFails
    <2>2. ASSUME ~Confirming(intent), at' = "tool_execution"
          PROVE  \A c \in RequestedCalls(s') : RunsOf(s', Tool[c]) < MaxSameToolCalls
      <3>1. CASE GatePasses
        <4>1. s' = PassOn(s, Final, Canned) /\ s'.next = "tool_execution" /\ at = "gate"
          BY <2>2, <3>1 DEF GatePasses, Follow
        <4>2. Final.next = "tool_execution"
          BY <1>a, <4>1 DEF PassOn, Routed, GraphState
        <4>3. RequestedCalls(s') = Fresh(s, decision.native)
          BY <4>1, <4>2, PassedBatch
        <4> QED
          BY <2>1, <4>3 DEF Fresh, RunsOf
      <3>2. CASE GateReleases \/ GateFindsNoPlan
        BY <2>2, <3>2 DEF GateReleases, GateFindsNoPlan, Releasing
      <3>3. CASE GateProposes
        <4>1. Propose(s, Final).next = "local_llm"
          BY <1>a DEF Propose, Routed, GraphState
        <4> QED
          BY <2>2, <3>3, <4>1 DEF GateProposes, Follow
      <3>4. CASE SupervisorBound \/ SupervisorFastPath \/ SupervisorNoClient \/ StructuredFails
        BY <2>2, <3>4, <1>a, ExitFields
           DEF SupervisorBound, SupervisorFastPath, SupervisorNoClient, StructuredFails, Follow
      <3>5. CASE UNCHANGED vars
        BY <2>2, <3>5 DEF vars, RunsBounded, RequestedCalls, RunsOf
      <3> QED
        BY <1>2, <2>2, <3>1, <3>2, <3>3, <3>4, <3>5
           DEF Next, Supervisor, LocalLlm, Ended, NativeAnswers, NativeArgsRejected,
               ToStructured, StructuredAnswers, StructuredRetries, ToGate, CloudFails,
               ComposeCanned, ComposeCloud, ComposeLocal, Back
    <2> QED
      BY <1>i, <2>1, <2>2 DEF RunsBounded, UnapprovedWritesBounded, RequestedCalls, RunsOf
  <1> QED
    BY <1>1, <1>2

(* With native calling only, a turn whose message is no go-ahead runs at   *)
(* most MAX_SAME_TOOL_CALLS + WRITE_CONFIRM_THRESHOLD - 2 writes of one    *)
(* tool, however the router spreads them over its rounds (orchestrator.py, *)
(* _finish_routing).                                                       *)
THEOREM AlwaysUnapprovedWritesBounded ==
  ASSUME OnNativePath
  PROVE  Spec => []UnapprovedWritesBounded
  <1>1. Init => RunsBounded
    <2>1. Cardinality({}) = 0 /\ IsFiniteSet({})
      BY FS_EmptySet
    <2>2. ASSUME Init
          PROVE  /\ s.executed = {} /\ direct = {} /\ at # "tool_execution"
                 /\ \A t \in WriteTools : {e \in direct : Tool[e[2]] = t} = {}
      BY <2>2 DEF Init, InitialState
    <2>3. 0 <= (MaxSameToolCalls - 1) + (ConfirmThreshold - 1)
      BY MaxSameAssumption, ThresholdAssumption
    <2> QED
      BY <2>1, <2>2, <2>3 DEF RunsBounded, UnapprovedWritesBounded
  <1>2. Init => GatedBatch
    BY DEF Init, GatedBatch
  <1>3. TypeOK /\ NativeOnly /\ GatedBatch /\ [Next]_vars => GatedBatch'
    BY StepGatedBatch
  <1>4. TypeOK /\ NativeOnly /\ GatedBatch /\ RunsBounded /\ [Next]_vars => RunsBounded'
    BY StepRunsBounded
  <1>5. TypeOK /\ RunsBounded => UnapprovedWritesBounded
    BY DEF RunsBounded, UnapprovedWritesBounded
  <1> QED
    BY <1>1, <1>2, <1>3, <1>4, <1>5, TypeCorrect, AlwaysNativeOnly, PTL DEF Spec
=============================================================================
