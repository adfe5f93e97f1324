--------------------------- MODULE KnowledgeChat ---------------------------
(***************************************************************************)
(* knowledge_chat.py: one turn of the chat that answers from the user's    *)
(* documents only.                                                         *)
(*                                                                         *)
(* run() asks the model in rounds.  A round's stream is text and tool      *)
(* calls; the calls run concurrently, number the passages they retrieve,   *)
(* and their results open the next round.  Until a tool has run the text   *)
(* is held back, because an answer given from memory is discarded and the  *)
(* model made to retrieve.                                                 *)
(*                                                                         *)
(* A text is the set of what matters in it: the numbers it cites, Word,    *)
(* Blank (white space) and Long (more than MEMORY_ANSWER_CHARS).  The      *)
(* conversation's contents are told, the passages the model was shown and  *)
(* under which numbers.                                                    *)
(***************************************************************************)
EXTENDS Naturals, Sequences, SequencesExt, FiniteSets

CONSTANTS
    Keys,             \* passages of the knowledge base, by Passage.key
    Size,             \* their lengths
    Numbers,          \* numbers a text may cite
    Word, Blank, Long,
    None,
    MAX_ROUNDS, MAX_CALLS_PER_ROUND,
    CONTEXT_CHARS,    \* characters of passages a turn may put before the model
    MaxCallsAsked,    \* bound on the calls of one stream
    MaxHits,          \* bound on the passages one call finds
    Strays            \* when the model cites passages it was not shown in this turn:
                      \*   "unasked" no tool has run, "unread" tools found nothing, "late" after a
                      \*   passage; and "forced": it answers a round in mode ANY without a call

ASSUME KeysAssumption == IsFiniteSet(Keys)
ASSUME SizeAssumption == Size \in [Keys -> Nat]
ASSUME NumbersAssumption == Numbers \subseteq Nat \ {0}
ASSUME TokensAssumption == /\ Word # Blank /\ Word # Long /\ Blank # Long
                          /\ {Word, Blank, Long} \intersect Numbers = {}
ASSUME NoneAssumption == None \notin {"completed", "error"}
ASSUME RoundsAssumption == MAX_ROUNDS \in Nat /\ MAX_CALLS_PER_ROUND \in Nat \ {0}
ASSUME BudgetAssumption == CONTEXT_CHARS \in Nat
ASSUME BoundsAssumption == MaxCallsAsked \in Nat /\ MaxHits \in Nat
ASSUME StraysAssumption == Strays \subseteq {"unasked", "unread", "late", "forced"}

VARIABLES
    followUp,     \* req.history is not empty
    phase,        \* "start", "streaming", "tools", "closing", "ended"
    round,        \* round_no
    toolsCalled, forceTools,
    held,         \* text of the round kept from the reader
    asked,        \* calls of the round so far
    streamed,     \* streamed_this_round
    running,      \* calls whose result is still awaited
    passages,     \* ctx.passages, the index of a passage is its number
    chars,        \* ctx.chars
    results,      \* what the finished calls of this round will tell the model
    told,         \* <<number, key>> pairs the model has been told
    answer,       \* answer_parts
    shown,        \* all text sent to the reader
    sources,      \* numbers of the sources event, or None
    status        \* the status event, or None

turn == <<phase, round, toolsCalled, forceTools>>
stream == <<held, asked, streamed>>
context == <<passages, chars, results, told>>
reader == <<answer, shown, sources, status>>
vars == <<followUp, turn, stream, running, context, reader>>

----------------------------------------------------------------------------
Init ==
    /\ followUp \in BOOLEAN
    /\ phase = "start" /\ round = 0
    /\ toolsCalled = FALSE /\ forceTools = FALSE
    /\ held = {} /\ asked = 0 /\ streamed = FALSE
    /\ running = {}
    /\ passages = <<>> /\ chars = 0 /\ results = {} /\ told = {}
    /\ answer = {} /\ shown = {}
    /\ sources = None /\ status = None

Cites(text) == text \intersect Numbers

ToolsEnabled == round <= MAX_ROUNDS
Buffering == ~toolsCalled /\ ToolsEnabled

\* Mutant: only the length of a follow-up counts.
UngroundedLong(text) == followUp /\ Long \in text

\* Answered from memory: without a tool it cites, or says much in a follow-up.
Ungrounded(text) == Cites(text) # {} \/ (followUp /\ Long \in text)

\* The next pass of the loop; contents keep what the tools told.
NextRound ==
    /\ phase' = "streaming"
    /\ round' = round + 1
    /\ held' = {} /\ asked' = 0 /\ streamed' = FALSE

\* Only the numbers in told have a passage behind them; a model that strays
\* takes others from the earlier answers of the conversation.
May(n) ==
    \/ \E p \in told : p[1] = n
    \/ "unasked" \in Strays /\ ~toolsCalled
    \/ "unread" \in Strays /\ toolsCalled /\ told = {}
    \/ "late" \in Strays /\ told # {}

----------------------------------------------------------------------------
(* The model's stream                                                      *)

\* No key: the reader is told and the turn is over.
Unconfigured ==
    /\ phase = "start"
    /\ phase' = "ended" /\ status' = "error"
    /\ shown' = shown \union {Word}
    /\ UNCHANGED <<followUp, round, toolsCalled, forceTools, stream, running, context, answer, sources>>

Begins ==
    /\ phase = "start"
    /\ NextRound
    /\ UNCHANGED <<followUp, toolsCalled, forceTools, running, context, reader>>

ReceivesText(token) ==
    /\ phase = "streaming"
    /\ token \in Numbers => May(token)
    /\ IF Buffering
       THEN held' = held \union {token} /\ UNCHANGED <<streamed, answer, shown>>
       ELSE /\ answer' = answer \union {token}
            /\ shown' = shown \union {token}
            /\ streamed' = TRUE
            /\ UNCHANGED held
    /\ UNCHANGED <<followUp, turn, asked, running, context, sources, status>>

\* A round without tools is asked for in mode NONE; the code stands a call all the same.
ReceivesCall ==
    /\ phase = "streaming" /\ asked < MaxCallsAsked
    /\ asked' = asked + 1
    /\ UNCHANGED <<followUp, turn, held, streamed, running, context, reader>>

\* Mutant: every failure is reported, also after part of the answer.
StreamFailsLoudly ==
    /\ phase = "streaming"
    /\ phase' = "ended" /\ status' = "error"
    /\ shown' = shown \union {Word}
    /\ UNCHANGED <<followUp, round, toolsCalled, forceTools, stream, running, context, answer, sources>>

\* The call to the model raises, before or amid its stream.
StreamFails ==
    /\ phase = "streaming"
    /\ IF answer # {}
       THEN phase' = "closing" /\ UNCHANGED <<shown, status>>
       ELSE /\ phase' = "ended" /\ status' = "error"
            /\ shown' = shown \union {Word}
    /\ UNCHANGED <<followUp, round, toolsCalled, forceTools, stream, running, context, answer, sources>>

\* Discarded: the held text goes, the nudge asks for tools (mode ANY).
SentToRetrieve ==
    /\ phase = "streaming" /\ asked = 0
    /\ Buffering /\ ~forceTools /\ Ungrounded(held)
    /\ forceTools' = TRUE
    /\ NextRound
    /\ UNCHANGED <<followUp, toolsCalled, running, context, reader>>

\* The stream ends without calls and the answer stands.
Answers ==
    /\ phase = "streaming" /\ asked = 0
    /\ forceTools /\ ToolsEnabled => "forced" \in Strays
    /\ ~(Buffering /\ ~forceTools /\ Ungrounded(held))
    /\ answer' = answer \union held
    /\ shown' = shown \union held
    /\ phase' = "closing"
    /\ UNCHANGED <<followUp, round, toolsCalled, forceTools, stream, running, context, sources, status>>

\* Calls in the round that has no tools: what was streamed is the answer.
OutOfRounds ==
    /\ phase = "streaming" /\ asked > 0 /\ ~ToolsEnabled
    /\ phase' = "closing"
    /\ UNCHANGED <<followUp, round, toolsCalled, forceTools, stream, running, context, reader>>

\* Mutant: the calls of a round are not capped.
CallsAllTools ==
    /\ phase = "streaming" /\ asked > 0 /\ ToolsEnabled
    /\ phase' = "tools"
    /\ forceTools' = FALSE /\ toolsCalled' = TRUE
    /\ running' = 1 .. asked
    /\ UNCHANGED <<followUp, round, stream, context, reader>>

CallsTools ==
    /\ phase = "streaming" /\ asked > 0 /\ ToolsEnabled
    /\ phase' = "tools"
    /\ forceTools' = FALSE /\ toolsCalled' = TRUE
    /\ running' = {c \in 1 .. asked : c <= MAX_CALLS_PER_ROUND}
    /\ UNCHANGED <<followUp, round, stream, context, reader>>

----------------------------------------------------------------------------
(* The tools                                                               *)

\* Mutant: the budget is compared before the passage is counted.
FitsBefore(ctx, key) == ctx.chars < CONTEXT_CHARS

\* TurnContext.add, and the loop around it that stops at the first passage that is too much.
Fits(ctx, key) == ctx.chars + Size[key] <= CONTEXT_CHARS

Add(ctx, key) ==
    IF ctx.full THEN ctx
    ELSE IF Contains(ctx.passages, key)
    THEN [ctx EXCEPT !.lines = @ \union {<<CHOOSE i \in DOMAIN ctx.passages : ctx.passages[i] = key, key>>}]
    ELSE IF Fits(ctx, key)
    THEN [ctx EXCEPT !.passages = Append(@, key),
                     !.chars = @ + Size[key],
                     !.lines = @ \union {<<Len(ctx.passages) + 1, key>>}]
    ELSE [ctx EXCEPT !.full = TRUE]

Searched(hits) ==
    FoldLeft(Add, [passages |-> passages, chars |-> chars, lines |-> {}, full |-> FALSE], hits)

\* A search or a read comes back with its passages, best first.
Retrieves(call, hits) ==
    /\ phase = "tools" /\ call \in running
    /\ LET ctx == Searched(hits) IN
       /\ passages' = ctx.passages
       /\ chars' = ctx.chars
       /\ results' = results \union ctx.lines
    /\ running' = running \ {call}
    /\ UNCHANGED <<followUp, turn, stream, told, reader>>

\* run_tool never raises: a list, a document not found, bad arguments, an
\* unknown tool and a failed request are all text without passages.
ReturnsText(call) ==
    /\ phase = "tools" /\ call \in running
    /\ running' = running \ {call}
    /\ UNCHANGED <<followUp, turn, stream, context, reader>>

Gathered ==
    /\ phase = "tools" /\ running = {}
    /\ told' = told \union results
    /\ results' = {}
    /\ answer' = IF streamed THEN answer \union {Blank} ELSE answer
    /\ shown' = IF streamed THEN shown \union {Blank} ELSE shown
    /\ NextRound
    /\ UNCHANGED <<followUp, toolsCalled, forceTools, running, passages, chars, sources, status>>

----------------------------------------------------------------------------
(* The end of the turn                                                     *)

Stripped(text) == text \ {Blank}

CitedSources == {n \in Cites(answer) : n \in DOMAIN passages}

ClosesEmpty ==
    /\ phase = "closing" /\ Stripped(answer) = {}
    /\ shown' = shown \union {Word}
    /\ sources' = {} /\ status' = "completed" /\ phase' = "ended"
    /\ UNCHANGED <<followUp, round, toolsCalled, forceTools, stream, running, context, answer>>

\* Citations on statements about the knowledge base itself are no sources.
Closes ==
    /\ phase = "closing" /\ Stripped(answer) # {}
    /\ sources' \in {CitedSources, {}}
    /\ status' = "completed" /\ phase' = "ended"
    /\ UNCHANGED <<followUp, round, toolsCalled, forceTools, stream, running, context, answer, shown>>

Done == phase = "ended" /\ UNCHANGED vars

Hits == UNION {{s \in [1 .. n -> Keys] : IsInjective(s)} : n \in 0 .. MaxHits}

Next ==
    \/ Unconfigured \/ Begins
    \/ \E token \in {Word, Blank, Long} \union Numbers : ReceivesText(token)
    \/ ReceivesCall \/ StreamFails
    \/ SentToRetrieve \/ Answers \/ OutOfRounds \/ CallsTools
    \/ \E call \in running : ReturnsText(call) \/ \E hits \in Hits : Retrieves(call, hits)
    \/ Gathered
    \/ ClosesEmpty \/ Closes
    \/ Done

Spec == Init /\ [][Next]_vars

----------------------------------------------------------------------------
Tokens == {Word, Blank, Long} \union Numbers
Pairs == (1 .. Cardinality(Keys)) \X Keys

\* Every variable holds a value of its kind, and at most MAX_ROUNDS + 1 rounds run.
TypeOK ==
    /\ followUp \in BOOLEAN
    /\ phase \in {"start", "streaming", "tools", "closing", "ended"}
    /\ round \in 0 .. MAX_ROUNDS + 1
    /\ toolsCalled \in BOOLEAN /\ forceTools \in BOOLEAN /\ streamed \in BOOLEAN
    /\ held \subseteq Tokens /\ answer \subseteq Tokens /\ shown \subseteq Tokens
    /\ asked \in 0 .. MaxCallsAsked
    /\ running \subseteq 1 .. MAX_CALLS_PER_ROUND
    /\ passages \in UNION {[1 .. n -> Keys] : n \in 0 .. Cardinality(Keys)}
    /\ chars \in Nat
    /\ results \subseteq Pairs /\ told \subseteq Pairs
    /\ sources = None \/ sources \subseteq Numbers
    /\ status \in {None, "completed", "error"}

(* What the reader is shown cites only passages the model had been told of *)
(* in this turn.  A model that answers from memory before any tool has run *)
(* reuses the numbers of earlier answers: holding the text back, the nudge *)
(* and the forced round must together keep all of it from the reader.      *)
GroundedCitations == \A n \in Cites(shown) : \E p \in told : p[1] = n

(* However the model's calls end, a turn ends once and well: the reader    *)
(* has some text; an error is never announced after part of an answer was  *)
(* shown; a completed turn sent sources, and each is a passage of this     *)
(* turn that the text the reader has really cites.                         *)
EndsWell ==
    /\ status # None <=> phase = "ended"
    /\ status # None => Stripped(shown) # {}
    /\ status = "error" => answer = {} /\ sources = None
    /\ status = "completed" =>
         /\ sources \subseteq Cites(shown) \intersect DOMAIN passages
         /\ Stripped(answer) # {} => answer = shown

(* The calls of a round return in any order and may find the same passage: *)
(* a passage has one number for the whole turn, the number the model was   *)
(* told is the one its source will have, and all of them together stay     *)
(* within the budget of the turn.                                          *)
OneNumberEach ==
    /\ IsInjective(passages)
    /\ \A p \in told \union results : p[1] \in DOMAIN passages /\ passages[p[1]] = p[2]
    /\ FoldLeft(LAMBDA sum, key : sum + Size[key], 0, passages) <= CONTEXT_CHARS
=============================================================================
