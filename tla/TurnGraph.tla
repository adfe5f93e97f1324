----------------------------- MODULE TurnGraph -----------------------------
(***************************************************************************)
(* orchestrator.py: one turn, from run()/astream_run() to its outcome.     *)
(*                                                                         *)
(* The compiled graph alternates between the supervisor and one worker     *)
(* node.  The supervisor asks a model where to go (the native tool-calling *)
(* router first when it is enabled, then the structured-output router with *)
(* bounded retries), puts the answer through its guards and the write      *)
(* gate, and either runs tools, composes the reply or finishes.  Every     *)
(* model and tool is the environment: any answer it can give is a choice   *)
(* here.  So is the plan store, which may or may not hand back a plan of   *)
(* this chat (PendingPlans says what it really holds).                     *)
(***************************************************************************)
EXTENDS Routing

CONSTANTS
    Batches,              \* non-empty native responses
    Plans,                \* batches an earlier turn may have left in the store
    Intents,              \* what the caller sent, as far as routing looks at it
    NativeToolCalling,    \* NATIVE_TOOL_CALLING
    StructuredFallback,   \* FALSE: the native router never fails
    CloudCompose,         \* ~_is_local_compose()
    MaxAttempts,          \* 1 + MAX_ROUTING_RETRIES
    RecursionLimit        \* RECURSION_LIMIT

ASSUME BatchesAssumption == Batches \subseteq ((SUBSET Calls) \ {{}})
ASSUME PlansAssumption == Plans \subseteq ((SUBSET Calls) \ {{}})
ASSUME AttemptsAssumption == MaxAttempts \in Nat \ {0}

Intent == [affirmation : BOOLEAN, assistantBefore : BOOLEAN, savedDocument : BOOLEAN,
           attached : BOOLEAN, images : BOOLEAN, streaming : BOOLEAN]
ASSUME IntentsAssumption == Intents \subseteq Intent

VARIABLES
    s,         \* the graph state
    at,        \* where control is
    intent,    \* the request this turn serves
    decision,  \* what the router answered, while the gate looks at it
    attempts,  \* structured routing attempts of this supervisor visit
    body,      \* what of the reply the caller has been sent, by origin
    outcome,   \* the status the caller gets, "" while the turn runs
    \* history
    grant,     \* the plan the gate has just released, {} after other routes
    direct     \* what was executed without having been approved

vars == <<s, at, intent, decision, attempts, body, outcome, grant, direct>>

NoDecision == [next |-> "finish", call |-> {}, native |-> {}]

Places == {"supervisor", "structured", "gate", "tool_execution", "local_llm",
           "local_fallback", "done"}
Origins == {"canned", "cloud", "local", "local_cut", "no_vision", "notice"}

Init ==
    /\ s = InitialState
    /\ at = "supervisor"
    /\ intent \in Intents
    /\ decision = NoDecision
    /\ attempts = 0
    /\ body = {}
    /\ outcome = ""
    /\ grant = {}
    /\ direct = {}

-----------------------------------------------------------------------------
(* Leaving the supervisor: follow the conditional edge, or end the turn.   *)
Follow(update, plan) ==
    /\ s' = update
    /\ grant' = plan
    /\ at' = IF update.next = "finish" THEN "done" ELSE update.next
    /\ outcome' = IF update.next = "finish" THEN update.status ELSE outcome
    /\ decision' = NoDecision
    /\ attempts' = 0
    /\ UNCHANGED <<intent, body, direct>>

SupervisorBound ==
    /\ at = "supervisor" /\ AtBound(s)
    /\ Follow(BoundUpdate(s), {})

SupervisorFastPath ==
    /\ at = "supervisor" /\ ~AtBound(s) /\ Replied(s)
    /\ Follow(FastPath(s), {})

Asking == at = "supervisor" /\ ~AtBound(s) /\ ~Replied(s)

\* get_client(model_pref) is None
SupervisorNoClient ==
    /\ Asking
    /\ Follow(Degraded(s), {})

ToGate(d) ==
    /\ at' = "gate"
    /\ decision' = d
    /\ UNCHANGED <<s, intent, attempts, outcome, body, grant, direct>>

(* The native router answers with a batch, or with no call at all.         *)
NativeAnswers ==
    /\ Asking /\ NativeToolCalling
    /\ \/ ToGate(NativeDecision({}, {}))
       \/ \E batch \in Batches : \E first \in batch : ToGate(NativeDecision(batch, {first}))

(* ToolArgs rejects the arguments of the first call: the exception leaves  *)
(* the node, and run()/astream_run() turn it into an error outcome.        *)
NativeArgsRejected ==
    /\ Asking /\ NativeToolCalling
    /\ at' = "done"
    /\ outcome' = "error"
    /\ UNCHANGED <<s, intent, decision, attempts, body, grant, direct>>

(* The native call itself fails, or native calling is off.                 *)
ToStructured ==
    /\ Asking
    /\ ~NativeToolCalling \/ StructuredFallback
    /\ at' = "structured"
    /\ attempts' = 0
    /\ UNCHANGED <<s, intent, decision, outcome, body, grant, direct>>

StructuredAnswers ==
    /\ at = "structured"
    /\ \E d \in [next : Routes, call : {{}} \union {{c} : c \in Calls}, native : {{}}] : ToGate(d)

\* mutant of StructuredRetries: a retry starts the supervisor over
StructuredRestarts ==
    /\ at = "structured"
    /\ at' = "supervisor"
    /\ attempts' = 0
    /\ UNCHANGED <<s, intent, decision, outcome, body, grant, direct>>

\* timeout, network or invalid_output, with attempts left
StructuredRetries ==
    /\ at = "structured"
    /\ attempts + 1 < MaxAttempts
    /\ attempts' = attempts + 1
    /\ UNCHANGED <<s, at, intent, decision, outcome, body, grant, direct>>

\* the last attempt, or a failure no retry can fix
StructuredFails ==
    /\ at = "structured"
    /\ Follow(Degraded(s), {})

-----------------------------------------------------------------------------
(* The write gate.                                                         *)
Final == Guarded(s, decision)
Canned == Pointed(s, decision, intent)

GateReleases ==
    /\ at = "gate" /\ Releasing(s, intent)
    /\ \E plan \in Plans : Follow(Approve(s, plan), plan)

GateFindsNoPlan ==
    /\ at = "gate" /\ Releasing(s, intent)
    /\ Follow(NothingToRelease(s, Final, Canned), {})

GateProposes ==
    /\ at = "gate" /\ Proposing(s, intent, Final)
    /\ Follow(Propose(s, Final), {})

GatePasses ==
    /\ at = "gate" /\ PassingOn(s, intent, Final)
    /\ Follow(PassOn(s, Final, Canned), {})

-----------------------------------------------------------------------------
(* The worker nodes.  Both lead back to the supervisor.                    *)

ExecuteTools ==
    /\ at = "tool_execution"
    /\ s' = ToolUpdate(s)
    /\ direct' = direct \union ({s.step} \X (RequestedCalls(s) \ grant))
    /\ at' = "supervisor"
    /\ UNCHANGED <<intent, decision, attempts, body, outcome, grant>>

Back(sent) ==
    /\ s' = ReplyUpdate(s)
    /\ at' = "supervisor"
    /\ body' = body \union sent
    /\ UNCHANGED <<intent, decision, attempts, outcome, grant, direct>>

\* the fixed pointer to Knowledge chat, without a model
ComposeCanned ==
    /\ at = "local_llm" /\ s.canned
    /\ Back({"canned"})

(* generate_cloud: the text, whole or cut off after its first token, or an *)
(* empty stream, which counts as a success; a failure before any token     *)
(* goes to the local model.                                                *)
ComposeCloud ==
    /\ at = "local_llm" /\ ~s.canned /\ CloudCompose
    /\ \E sent \in {{"cloud"}, {}} : Back(sent)

\* mutant of CloudFails: a stream cut off after its first tokens falls back too
CloudCutFallsBack ==
    /\ at = "local_llm" /\ ~s.canned /\ CloudCompose
    /\ at' = "local_fallback"
    /\ \E sent \in {{}, {"cloud"}} : body' = body \union sent
    /\ UNCHANGED <<s, intent, decision, attempts, outcome, grant, direct>>

CloudFails ==
    /\ at = "local_llm" /\ ~s.canned /\ CloudCompose
    /\ at' = "local_fallback"
    /\ UNCHANGED <<s, intent, decision, attempts, body, outcome, grant, direct>>

(* generate_local: the text (possibly empty), a failure before any token,  *)
(* whose notice is the message of the node, or a failure after some: the   *)
(* tokens are out already if the caller streams, and astream_run then      *)
(* withholds the notice.  The local model cannot see images and says so.   *)
LocalSends ==
    IF intent.images THEN {{"no_vision"}}
    ELSE {{"local"}, {}, {"notice"}, IF intent.streaming THEN {"local_cut"} ELSE {"notice"}}

\* mutant of ComposeLocal: a failing local model falls back to the cloud
LocalFallsBack ==
    \/ /\ at = "local_llm" /\ ~s.canned /\ ~CloudCompose
       /\ \E sent \in LocalSends : Back(sent)
    \/ /\ at = "local_fallback"
       /\ at' = "local_llm"
       /\ UNCHANGED <<s, intent, decision, attempts, body, outcome, grant, direct>>

ComposeLocal ==
    /\ \/ at = "local_llm" /\ ~s.canned /\ ~CloudCompose
       \/ at = "local_fallback"
    /\ \E sent \in LocalSends : Back(sent)

Ended == at = "done" /\ UNCHANGED vars

-----------------------------------------------------------------------------
Supervisor ==
    \/ SupervisorBound \/ SupervisorFastPath \/ SupervisorNoClient
    \/ NativeAnswers \/ NativeArgsRejected
    \/ ToStructured \/ StructuredAnswers \/ StructuredRetries \/ StructuredFails
    \/ GateReleases \/ GateFindsNoPlan \/ GateProposes \/ GatePasses

LocalLlm == ComposeCanned \/ ComposeCloud \/ CloudFails \/ ComposeLocal

Next == Supervisor \/ ExecuteTools \/ LocalLlm \/ Ended

Spec == Init /\ [][Next]_vars

(* The requests the code sends without a timeout: the native router        *)
(* (_native_chat_model), the cloud composer (_construct_gemini and         *)
(* generate_cloud), and the tools, of which web search, page fetching and  *)
(* re-reading an attachment ask Gemini in the same way.  The structured    *)
(* router and the local model carry one.                                   *)
Waits ==
    \/ Asking /\ NativeToolCalling
    \/ at = "local_llm" /\ ~s.canned /\ CloudCompose
    \/ at = "tool_execution"

(* Fairness of the steps the code bounds and of no other: a turn that does *)
(* not wait for such a request takes its next step.  The request itself    *)
(* may be answered, may fail, or may never come back.                      *)
FairSpec == Spec /\ WF_vars(~Waits /\ Next)

-----------------------------------------------------------------------------
(* Properties.                                                             *)

\* Every variable has its type.
TypeOK ==
    /\ s \in GraphState
    /\ at \in Places
    /\ intent \in Intents
    /\ decision \in Decision
    /\ attempts \in 0 .. MaxAttempts - 1
    /\ body \subseteq Origins
    /\ outcome \in Statuses \union {"error"}
    /\ grant \subseteq Calls
    /\ direct \subseteq Nat \X Calls

\* supervisor, build_graph: each node visit adds one to step, so step counts
\* the supersteps of the run; however the models answer, the run ends before
\* LangGraph's recursion limit does it ("turning a bad turn into a worse one").
WithinRecursionLimit == s.step <= RecursionLimit

\* supervisor, local_llm: the composer runs at most once per turn, at the
\* bound or before it.
ComposesOnce == [][at' = "local_llm" /\ at # "local_llm" => ~Replied(s)]_vars

\* local_llm: the text a caller gets comes from one composer; the local model
\* takes over from the cloud only while nothing has been sent.
OneVoice == Cardinality(body) <= 1

\* supervisor: a turn that hits the step bound still composes from what was
\* gathered, instead of ending with no reply.
HaltedTurnReplies == outcome = "halted_step_bound" => Replied(s)

\* _finish_routing: the anti-reloop guard never has anything to do, because
\* the fast path ends a turn that has replied before any model is asked.
NoRoutingAfterReply == at \in {"structured", "gate"} => ~Replied(s)

\* _finish_routing: a "yes" whose plan is gone is apologised for only if
\* nothing has run in this turn, never "immediately AFTER the writes
\* succeeded".
NoApologyAfterWork == s.planNote => s.executed = {}

\* _finish_routing: while a plan of this turn waits for approval no tool
\* runs, whatever the router said in the same breath.
ProposedNotRun == [][s.pendingPlan # {} => s'.executed = s.executed]_vars

\* _finish_routing: "a batch of writes is PROPOSED, not run, and the user's
\* next message releases it": a turn whose message is no go-ahead never runs,
\* in one round, a batch that needs a confirmation.
RoundOf(n) == {e[2] : e \in {f \in direct : f[1] = n}}

NoUnapprovedBatch ==
    ~Confirming(intent) => \A e \in direct : ~NeedsConfirmation(RoundOf(e[1]))

\* _finish_routing: splitting the writes over several rounds gets such a turn
\* past the gate only as far as the repeat-call guard lets it.
UnapprovedWritesBounded ==
    ~Confirming(intent) =>
       \A t \in WriteTools :
          Cardinality({e \in direct : Tool[e[2]] = t})
             <= (MaxSameToolCalls - 1) + (ConfirmThreshold - 1)

\* _finish_routing: a call that has run in this turn is not run again in a
\* later round.
NoRepeatAcrossRounds ==
    [][at = "tool_execution" =>
          \A c \in RequestedCalls(s), e \in s.executed : Signature[e[2]] # Signature[c]]_vars

\* ALWAYS_CONFIRM_TOOLS: "Deletes are always confirmed regardless of count."
DeletesConfirmed == \A e \in direct : Tool[e[2]] \notin AlwaysConfirm

\* supervisor, _classify_structured, local_llm: what is left of a turn.  Each
\* node visit moves the step count; within one visit of the supervisor only
\* the bounded retries repeat, and the composer changes models once.
LeftInVisit(place, tried) ==
    IF place = "supervisor" THEN MaxAttempts + 2
    ELSE IF place = "structured" THEN MaxAttempts - tried + 1
    ELSE IF place \in {"gate", "local_llm"} THEN 1 ELSE 0

StepsLeft == (MaxAttempts + 3) * (MaxSteps + 4 - s.step) + LeftInVisit(at, attempts)

\* run: whatever the models answer, every step brings the turn nearer to its
\* end, so there is no round of routing, retries and tools it could repeat,
\* and its length is bounded by the limits alone.
EveryStepCounts == [][StepsLeft' \in 0 .. StepsLeft - 1]_vars

\* run, astream_run: the turn reaches its status, unless it waits for ever at
\* one request that has no timeout; no retry, fallback or round of tools keeps
\* it going, and no step in between can stop it.
Terminates == <>(at = "done") \/ \E p \in Places : <>[](at = p /\ Waits)
=============================================================================
