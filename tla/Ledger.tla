------------------------------- MODULE Ledger -------------------------------
(***************************************************************************)
(* services/llm_ledger.py: the row that each request to a model provider   *)
(* leaves in the spool file, written by the call sites of orchestrator.py  *)
(* and tools/ on threads of their own.                                     *)
(*                                                                         *)
(* A request consumes tokens of eight kinds.  The provider reports them in *)
(* its own spelling, some of its numbers including others; the normalizers *)
(* turn a report into the fields the database bills.                       *)
(***************************************************************************)
EXTENDS Integers

CONSTANTS
    Attempts,
    Consumed,   \* what requests may consume, a set of records over Kinds
    Null        \* a field without a value

Kinds == {"text", "audio", "write5m", "write1h", "read", "readAudio", "out", "thought"}

ASSUME LedgerAssumption ==
    /\ Consumed \subseteq [Kinds -> Nat]
    /\ Null \notin Int /\ Null \notin [Kinds -> Nat] /\ Null \notin {"ok", "failed"}

\* Which spelling a call site's reports come in.  "sdk" is that of another
\* service with a copy of this file.
Shape == [native |-> "langchain", structured |-> "openai", forced |-> "anthropic",
          compose |-> "gemini", local |-> "ollama", title |-> "ollama",
          extraction |-> "gemini", search |-> "gemini", vision |-> "gemini", sdk |-> "sdk"]
Operations == DOMAIN Shape

VARIABLES
    attempt,    \* attempt[a]: one request and its row
    spool,      \* readable rows of the spool file
    torn        \* the file ends in a line that was not written whole

ledgerVars == <<attempt, spool, torn>>

TokenFields == {"input_uncached", "input_audio", "cache_write_5m", "cache_write_1h",
                "cache_read", "output_billable", "thinking_tokens"}
NoTokens == [f \in TokenFields |-> Null]
NewAttempt == [at |-> "new", op |-> "none", used |-> Null, status |-> Null, source |-> "missing",
               tokens |-> NoTokens, caller |-> "waiting"]

LedgerInit == attempt = [a \in Attempts |-> NewAttempt] /\ spool = {} /\ torn = FALSE

-----------------------------------------------------------------------------
(* Reports.  What a shape cannot tell apart is not consumed through it.    *)
Has(shape) ==
    CASE shape = "anthropic" -> Kinds \ {"audio", "readAudio", "thought"}
      [] shape = "sdk"       -> Kinds \ {"audio", "readAudio", "write1h"}
      [] shape = "langchain" -> Kinds \ {"readAudio", "write1h"}
      [] shape = "openai"    -> Kinds \ {"audio", "readAudio", "write1h"}
      [] shape = "gemini"    -> Kinds \ {"write5m", "write1h"}
      [] shape = "ollama"    -> {"text", "out"}

Uses(shape, u) == [k \in Kinds |-> IF k \in Has(shape) THEN u[k] ELSE 0]
Input(u) == u.text + u.audio + u.write5m + u.write1h + u.read + u.readAudio
Output(u) == u.out + u.thought
OrNull(n) == IF n = 0 THEN Null ELSE n

\* Which of a provider's numbers include others, and what it may leave out:
\* how long a write is kept, the details of the input.
UsageReports(shape, u) ==
    CASE shape = "anthropic" ->
           {[input |-> u.text, created |-> u.write5m + u.write1h, w5 |-> u.write5m, w1 |-> u.write1h,
             read |-> u.read, output |-> Output(u)],
            [input |-> u.text, created |-> u.write5m + u.write1h, w5 |-> Null, w1 |-> Null,
             read |-> u.read, output |-> Output(u)]}
      [] shape = "openai" ->
           {[prompt |-> Input(u), cached |-> u.read, written |-> OrNull(u.write5m),
             completion |-> Output(u), reasoning |-> OrNull(u.thought)]}
      [] shape = "gemini" ->
           {[prompt |-> Input(u), cached |-> u.read + u.readAudio, audio |-> u.audio + u.readAudio,
             audioCached |-> u.readAudio, candidates |-> u.out, thoughts |-> OrNull(u.thought)]}
      [] shape \in {"langchain", "sdk"} ->
           {[total |-> Input(u), rest |-> u.text, read |-> OrNull(u.read), written |-> OrNull(u.write5m),
             audio |-> OrNull(u.audio), output |-> Output(u), reasoning |-> OrNull(u.thought)]}
           \union (IF shape = "langchain" THEN {} ELSE
           {[total |-> Input(u), rest |-> Null, read |-> Null, written |-> Null,
             audio |-> Null, output |-> Output(u), reasoning |-> Null]})
      [] shape = "ollama" -> {[prompt |-> u.text, output |-> u.out]}

-----------------------------------------------------------------------------
(* The normalizers.  A field that is not named stays Null.                 *)
Or0(v) == IF v = Null THEN 0 ELSE v
Tally(uncached, audio, write5m, write1h, read, output, thinking) ==
    [input_uncached |-> uncached, input_audio |-> audio, cache_write_5m |-> write5m,
     cache_write_1h |-> write1h, cache_read |-> read, output_billable |-> output,
     thinking_tokens |-> thinking]
NoneOf(written) == IF written = Null THEN Null ELSE 0

NormalizeAnthropic(r) ==
    IF r.w5 = Null THEN Tally(r.input, Null, r.created, 0, r.read, r.output, Null)
                   ELSE Tally(r.input, Null, r.w5, r.w1, r.read, r.output, Null)

NormalizeSdk(r) ==
    Tally(IF r.rest = Null THEN r.total ELSE r.rest, Null, r.written, NoneOf(r.written),
          r.read, r.output, r.reasoning)

NormalizeLangchain(r) ==
    Tally(r.total - Or0(r.read) - Or0(r.written) - Or0(r.audio), r.audio, r.written,
           NoneOf(r.written), r.read, r.output, r.reasoning)

NormalizeOpenai(r) ==
    Tally(r.prompt - r.cached - Or0(r.written), Null, r.written, Null, r.cached,
           r.completion, r.reasoning)

\* mutant of NormalizeGemini: cached audio is taken off twice
NormalizeGeminiAudio(r) ==
    Tally(r.prompt - r.cached - r.audio, IF r.audio = 0 THEN Null ELSE r.audio - r.audioCached,
           Null, Null, r.cached, r.candidates + Or0(r.thoughts), r.thoughts)

NormalizeGemini(r) ==
    LET uncachedAudio == r.audio - r.audioCached IN
    Tally(r.prompt - r.cached - uncachedAudio, IF r.audio = 0 THEN Null ELSE uncachedAudio,
           Null, Null, r.cached, r.candidates + Or0(r.thoughts), r.thoughts)

NormalizeOllama(r) == Tally(r.prompt, Null, Null, Null, Null, r.output, Null)

Normalize(shape, r) ==
    CASE shape = "anthropic" -> NormalizeAnthropic(r)
      [] shape = "sdk"       -> NormalizeSdk(r)
      [] shape = "langchain" -> NormalizeLangchain(r)
      [] shape = "openai"    -> NormalizeOpenai(r)
      [] shape = "gemini"    -> NormalizeGemini(r)
      [] shape = "ollama"    -> NormalizeOllama(r)

-----------------------------------------------------------------------------
(* A call site asks, records, and goes on with what it got.                *)
AttemptBegins(a) ==
    /\ attempt[a].at = "new"
    /\ \E op \in Operations : attempt' = [attempt EXCEPT ![a].at = "asking", ![a].op = op]
    /\ UNCHANGED <<spool, torn>>

\* Attempt.ok: the whole response is in, without a report of its usage or with one.
Ok(a, u) == [attempt[a] EXCEPT !.at = "exiting", !.used = u, !.status = "ok"]
Reported(t, tokens) == [t EXCEPT !.source = "provider", !.tokens = tokens]

Succeeds(a) ==
    /\ attempt[a].at = "asking"
    /\ \E c \in Consumed :
          LET shape == Shape[attempt[a].op]  u == Uses(shape, c) IN
          \/ attempt' = [attempt EXCEPT ![a] = Ok(a, u)]
          \/ \E report \in UsageReports(shape, u) :
                attempt' = [attempt EXCEPT ![a] = Reported(Ok(a, u), Normalize(shape, report))]
    /\ UNCHANGED <<spool, torn>>

\* The request raises ("failed" stands for error, timeout and aborted, which
\* the exception tells apart), or a title is refused with a status that is not
\* 2xx and the block is left without ok.  The local answer opens its record
\* when it is complete.
Fails(a) ==
    /\ attempt[a].at = "asking"
    /\ IF attempt[a].op = "local"
       THEN attempt' = [attempt EXCEPT ![a].at = "over", ![a].caller = "failure"]
       ELSE attempt' = [attempt EXCEPT ![a].at = "exiting", ![a].status = "failed"]
    /\ UNCHANGED <<spool, torn>>

\* What a call site makes of it.  A router's answer may not parse.
RoutingEnds(status) == IF status = "ok" THEN {"answer", "unusable"} ELSE {"failure"}

\* An extraction or a title: what fails and what does not parse are the same, nothing.
BestEffortEnds(status) == {"nothing"} \union (IF status = "ok" THEN {"answer"} ELSE {})

\* A search: the text, "No results" among it, or an error text.
SearchEnds(status) == {IF status = "ok" THEN "answer" ELSE "failure"}

\* A second look at an image: an empty answer is an error of its own.
ViewEnds(status) == IF status = "ok" THEN {"answer", "unusable"} ELSE {"failure"}

\* A composition that broke off is kept as far as it had come.
CompositionEnds(status) == IF status = "ok" THEN {"answer"} ELSE {"failure", "partial"}

Outcomes(op, status) ==
    CASE op \in {"structured", "forced"} -> RoutingEnds(status)
      [] op \in {"extraction", "title"} -> BestEffortEnds(status)
      [] op \in {"native", "search", "local"} -> SearchEnds(status)
      [] op = "vision" -> ViewEnds(status)
      [] op \in {"compose", "sdk"} -> CompositionEnds(status)

\* _spool_line: one write to the end of the file.  It may fail, or stop
\* short; the next row then ends the line that was left open.
Spools(a) ==
    \/ UNCHANGED <<spool, torn>>
    \/ spool' = (IF torn THEN spool ELSE spool \union {a}) /\ torn' = FALSE
    \/ torn' = TRUE /\ UNCHANGED spool

\* __exit__: whatever becomes of the row, the caller goes on with its outcome.
Exits(a) ==
    /\ attempt[a].at = "exiting"
    /\ \E outcome \in Outcomes(attempt[a].op, attempt[a].status) :
          attempt' = [attempt EXCEPT ![a].at = "over", ![a].caller = outcome]
    /\ Spools(a)

\* The process stops, and with it every request under way.
Restart ==
    /\ \E a \in Attempts : attempt[a].at \in {"asking", "exiting"}
    /\ attempt' = [a \in Attempts |->
          IF attempt[a].at \in {"asking", "exiting"}
          THEN [attempt[a] EXCEPT !.at = "over", !.caller = "gone"] ELSE attempt[a]]
    /\ UNCHANGED <<spool, torn>>

LedgerRest == (\A a \in Attempts : attempt[a].at = "over") /\ UNCHANGED ledgerVars

LedgerNext == \/ \E a \in Attempts : AttemptBegins(a) \/ Succeeds(a) \/ Fails(a) \/ Exits(a)
              \/ Restart \/ LedgerRest

LedgerSpec == LedgerInit /\ [][LedgerNext]_ledgerVars

-----------------------------------------------------------------------------
(* Properties.                                                             *)

(* Attempts and rows are of the right kinds.                               *)
LedgerTypeOK ==
    /\ spool \subseteq Attempts /\ torn \in BOOLEAN
    /\ \A a \in Attempts :
          /\ attempt[a].at \in {"new", "asking", "exiting", "over"}
          /\ attempt[a].status \in {Null, "ok", "failed"}
          /\ DOMAIN attempt[a].tokens = TokenFields

BilledInput(t) == Or0(t.input_uncached) + Or0(t.input_audio) + Or0(t.cache_write_5m)
                      + Or0(t.cache_write_1h) + Or0(t.cache_read)

(* Every row tells the truth about its request: "ok" if and only if the    *)
(* provider answered to the end; with a report, its fields add up to the   *)
(* tokens consumed, none counted twice and none left out, in the spelling  *)
(* of every provider; without one it bills nothing, not zeros.  And what   *)
(* became of the row changes nothing for the caller (lines 11-15, 77-223). *)
RowsAddUp ==
    \A a \in Attempts : LET t == attempt[a] IN
        /\ a \in spool =>
              /\ t.status = "ok" <=> t.used # Null
              /\ t.source = "missing" <=> t.tokens = NoTokens
              /\ t.source = "provider" => /\ BilledInput(t.tokens) = Input(t.used)
                                          /\ t.tokens.output_billable = Output(t.used)
        /\ t.at = "over" /\ t.used # Null => t.caller \in {"answer", "unusable", "nothing", "gone"}
=============================================================================
