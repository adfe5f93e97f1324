------------------------------ MODULE Routing ------------------------------
(***************************************************************************)
(* orchestrator.py: the graph state of one turn and the updates the        *)
(* supervisor and the two worker nodes make to it.  No variables here:     *)
(* TurnGraph runs these updates for one turn.                              *)
(*                                                                         *)
(* A call stands for one {"name", "args"} object of a routing response.    *)
(* Two calls with the same signature are the same name and arguments given *)
(* twice.  A batch is the set of calls of one response; its order only     *)
(* decides which call is copied to tool_request, so that one is a choice.  *)
(* The channels that hold None or a list hold a set here, empty for None.  *)
(***************************************************************************)
EXTENDS Naturals, FiniteSets

CONSTANTS
    Calls,             \* calls a router may emit
    Signature,         \* Signature[c]: _call_signature of c
    Tool,              \* Tool[c]: the tool c names
    WriteTools,        \* tools/catalog.py WRITE_TOOLS
    AlwaysConfirm,     \* ALWAYS_CONFIRM_TOOLS
    ConfirmThreshold,  \* WRITE_CONFIRM_THRESHOLD
    MaxSameToolCalls,  \* MAX_SAME_TOOL_CALLS
    MaxSteps           \* MAX_STEPS

ASSUME SignatureAssumption == DOMAIN Signature = Calls
ASSUME ToolAssumption == DOMAIN Tool = Calls
ASSUME CallsAssumption == IsFiniteSet(Calls)
ASSUME ThresholdAssumption == ConfirmThreshold \in Nat \ {0}
ASSUME MaxSameAssumption == MaxSameToolCalls \in Nat \ {0}
ASSUME MaxStepsAssumption == MaxSteps \in Nat \ {0}

Workers == {"local_llm", "tool_execution"}
Routes == Workers \union {"finish"}
Statuses == {"", "completed", "halted_step_bound", "degraded"}

(* executed pairs each executed call with the step it ran at: the channel  *)
(* is a list, and the same call may be in it more than once.               *)
GraphState ==
    [next : Routes \union {""}, status : Statuses, step : Nat,
     visited : SUBSET Workers, executed : SUBSET (Nat \X Calls),
     toolRequest : SUBSET Calls, toolCalls : SUBSET Calls,
     pendingPlan : SUBSET Calls, planNote : BOOLEAN, canned : BOOLEAN,
     truncated : BOOLEAN]

InitialState ==
    [next |-> "", status |-> "", step |-> 0, visited |-> {}, executed |-> {},
     toolRequest |-> {}, toolCalls |-> {}, pendingPlan |-> {},
     planNote |-> FALSE, canned |-> FALSE, truncated |-> FALSE]

Replied(s) == "local_llm" \in s.visited
ToolsRan(s) == "tool_execution" \in s.visited

(* step is an accumulating channel: every node's update adds one to it.    *)
Bumped(s) == s.step + 1

-----------------------------------------------------------------------------
(* The supervisor's three ways out before it asks a model.                 *)
AtBound(s) == s.step >= MaxSteps

\* mutants of BoundUpdate: finish at once; compose every time the bound is met
BoundFinishes(s) == [s EXCEPT !.next = "finish", !.status = "halted_step_bound", !.step = Bumped(s)]
BoundRecomposes(s) ==
    [s EXCEPT !.next = "local_llm", !.status = "halted_step_bound", !.step = Bumped(s), !.truncated = TRUE]

BoundUpdate(s) ==
    IF Replied(s)
    THEN [s EXCEPT !.next = "finish", !.status = "halted_step_bound", !.step = Bumped(s)]
    ELSE [s EXCEPT !.next = "local_llm", !.status = "halted_step_bound", !.step = Bumped(s),
                   !.truncated = TRUE, !.toolRequest = {}, !.toolCalls = {},
                   !.pendingPlan = {}, !.planNote = FALSE]

FastPath(s) ==
    [s EXCEPT !.next = "finish", !.status = "completed", !.step = Bumped(s),
              !.toolRequest = {}, !.toolCalls = {}, !.pendingPlan = {}, !.planNote = FALSE]

\* mutant of Degraded: a status no caller knows
DegradedAsError(s) == [s EXCEPT !.next = "finish", !.status = "error", !.step = Bumped(s)]

Degraded(s) == [s EXCEPT !.next = "finish", !.status = "degraded", !.step = Bumped(s)]

-----------------------------------------------------------------------------
(* _finish_routing.  A decision d is the node the router named, the call   *)
(* it named (or none) and the native batch (empty on the structured path). *)
Decision == [next : Routes, call : SUBSET Calls, native : SUBSET Calls]

NativeDecision(batch, first) ==
    [next |-> IF batch = {} THEN "local_llm" ELSE "tool_execution",
     call |-> first, native |-> batch]

(* The repeat-call guard: a call is fresh if its signature has not run this *)
(* turn and its tool has not run MaxSameToolCalls times.                   *)
RunsOf(s, t) == Cardinality({e \in s.executed : Tool[e[2]] = t})

\* mutants of Fresh: one of its two conditions each
FreshBySignature(s, batch) == {c \in batch : \A e \in s.executed : Signature[e[2]] # Signature[c]}
FreshByTool(s, batch) == {c \in batch : RunsOf(s, Tool[c]) < MaxSameToolCalls}

Fresh(s, batch) ==
    {c \in batch : /\ \A e \in s.executed : Signature[e[2]] # Signature[c]
                   /\ RunsOf(s, Tool[c]) < MaxSameToolCalls}

(* What is left of a decision when it reaches the write gate: the batch    *)
(* survives only towards tool_execution, and a batch of repeats turns the  *)
(* route to local_llm.                                                     *)
Guarded(s, d) ==
    LET batch == IF d.next = "tool_execution" THEN d.native ELSE {}
        fresh == Fresh(s, batch)
        allRepeats == batch # {} /\ fresh = {}
    IN [next |-> IF allRepeats THEN "local_llm" ELSE d.next,
        call |-> IF d.next = "tool_execution" /\ ~allRepeats THEN d.call ELSE {},
        native |-> fresh]

(* The saved-document guard fires on the first routing of a turn only.     *)
Pointed(s, d, intent) ==
    /\ d.next = "local_llm" /\ s.visited = {} /\ d.native = {} /\ d.call = {}
    /\ ~intent.attached
    /\ intent.savedDocument

NeedsConfirmation(calls) ==
    \/ \E c \in calls : Tool[c] \in AlwaysConfirm
    \/ Cardinality({c \in calls : Tool[c] \in WriteTools}) >= ConfirmThreshold

(* The user's message is a bare go-ahead and an assistant turn precedes it. *)
Confirming(intent) == intent.affirmation /\ intent.assistantBefore

\* mutant of Releasing: the gate forgets that the turn has run its tools
ReleasingEachRound(s, intent) == Confirming(intent)

(* Which of the gate's branches a routing step takes.                      *)
Releasing(s, intent) == Confirming(intent) /\ ~ToolsRan(s)

\* mutant of Proposing: only the first round of a turn is looked at
ProposingFirst(s, intent, g) ==
    ~Confirming(intent) /\ ~ToolsRan(s) /\ g.native # {} /\ NeedsConfirmation(g.native)

Proposing(s, intent, g) == ~Releasing(s, intent) /\ g.native # {} /\ NeedsConfirmation(g.native)
PassingOn(s, intent, g) == ~Releasing(s, intent) /\ ~Proposing(s, intent, g)

(* The supervisor's update once the gate has decided.                      *)
Routed(s, next, request, calls, plan, note, canned) ==
    [s EXCEPT !.next = next, !.step = Bumped(s),
              !.status = IF next = "finish" THEN "completed" ELSE @,
              !.toolRequest = request, !.toolCalls = calls, !.pendingPlan = plan,
              !.planNote = note, !.canned = canned /\ next = "local_llm" /\ plan = {}]

(* The batch of an approved plan replaces whatever the router emitted.     *)
Approve(s, plan) == Routed(s, "tool_execution", {}, plan, {}, FALSE, FALSE)

(* "yes" with nothing to release: note it, unless the router emitted calls *)
(* of its own.                                                             *)
NothingToRelease(s, g, canned) ==
    IF g.native = {} THEN Routed(s, "local_llm", g.call, {}, {}, TRUE, canned)
                     ELSE Routed(s, g.next, g.call, g.native, {}, FALSE, canned)

\* mutant of Propose: the batch is shown and run
ProposeAndRun(s, g) == Routed(s, "tool_execution", {}, g.native, g.native, FALSE, FALSE)

Propose(s, g) == Routed(s, "local_llm", {}, {}, g.native, FALSE, FALSE)

PassOn(s, g, canned) == Routed(s, g.next, g.call, g.native, {}, FALSE, canned)

-----------------------------------------------------------------------------
(* The worker nodes.                                                       *)
RequestedCalls(s) == IF s.toolCalls # {} THEN s.toolCalls ELSE s.toolRequest

ToolUpdate(s) ==
    [s EXCEPT !.visited = @ \union {"tool_execution"},
              !.executed = @ \union ({s.step} \X RequestedCalls(s)),
              !.step = Bumped(s)]

ReplyUpdate(s) == [s EXCEPT !.visited = @ \union {"local_llm"}, !.step = Bumped(s)]
=============================================================================
