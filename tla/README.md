# A verification project for core-heartbeat

core-heartbeat is the gateway of a personal assistant: a single-process FastAPI service (`Dockerfile:47`, one
uvicorn worker) that takes a user's message, lets language models route it through a small graph of nodes, runs tools
on the user's behalf, and streams an answer back. This directory holds TLA+ models of the parts of it that are hard to
test, the TLC configurations that check them on small instances, and proofs that TLAPS checks for every value of the
constants. All paths below are relative to the repository.

- `tlc -config X.cfg M.tla` repeats a run of the table in "Runs"; `tlapm M.tla` repeats the proofs of a `*Proofs` module.
- `PROJECT.json` maps every definition to the source lines it stands for.

## 1. Inventory

| Component | Source | State it keeps | Operations | What makes it correct |
|---|---|---|---|---|
| Pending-plan store | `services/pending_plans.py` | `_memory`, a table row per (user, chat) | `save`, `take`, `clear` | a proposal is released once, in time, in its own chat, and the newest one wins |
| Turn graph | `orchestrator.py`, `models.py` | `GraphState` of one turn | `supervisor`, `_finish_routing`, `tool_execution`, `local_llm`, `run`, `astream_run` | the turn ends, replies once, never runs a batch of writes that needed a yes |
| Vault sync and memory extraction | `services/storage_sync.py`, `orchestrator.py`, `tools/user_vault.py` | bucket, local folder, `_vault_etags`, `_vault_locks` | `sync_user_vault`, `extract_and_record_preference`, `upload_user_file`, `write_note` | the folder is a snapshot of the bucket; recorded insights are never lost |
| Uploads | `services/uploads.py`, `router.py` | a folder shared with Windows | `store_stream`, `list_uploads`, `delete_upload` | only whole files under real names, nothing overwritten, budget |
| Knowledge chat | `knowledge_chat.py`, `services/kb.py` | `TurnContext`, the text of one turn | `run`, the three tools | the reader gets answers that rest on passages of this turn |
| Document parser slot | `services/document_parser.py`, `router.py` | a semaphore of one, threads of the default executor, `extracted.txt` in storage | `POST /documents/parse`: fetch, convert under a timeout, store | every request is answered; "error" leaves no text behind; "ready" means the text is there |
| Documents, images, attachments | `orchestrator.py`, `services/documents.py`, `services/images.py`, `tools/attachments.py` | the prelude of a turn | `_load_documents`, `_load_document_images`, `_load_attachment_manifest`, `reread_attachment` | what was reported ready is read, within the budgets |
| Fund poller health | `services/fund_pollers.py` | none (reads the pollers' rows) | `fund_poller_health`: two cut answers per poller, then two questions per fund | healthy if and only if every fund was fresh and free of open failures |
| LLM ledger | `services/llm_ledger.py`, its call sites | the attempt of one request, the spool file | `attempt`, `ok`, the normalizers, `_spool_line` | a row bills what its request consumed, once; it changes nothing for the caller |
| Calendar tools | `tools/google_calendar.py`, `_describe_when` | the credentials row (shared with core-chat), events at Google | `_access_token` and its refresh, the four event operations | a token judged good is good for the margin; an older account's token fades; dates stay as approved |
| Gateway | `router.py`, `auth.py`, `services/kb.py` | none | identity, the guards of every route, the KB client's requests | fail closed: what users share only for admins, everything else in the caller's own scope |
| Saved documents, untrusted text | `tools/saved_documents.py`, `services/untrusted.py` | none | text matching and wrapping | — |
| Web, flights, REIT, briefing tools | `services/web.py`, `tools/*.py` | flights token cache | read-only requests | bounded redirects |
| Tool catalog | `tools/catalog.py` | none | declarations | — |
| Secrets | `services/secrets.py` | cache | lookup | — |
| Operator scripts | `scripts/` | none | offline replay | — |

**How they interact.** A request enters `router.py`, which calls `orchestrator.run`/`astream_run` or
`knowledge_chat.run`. Before the graph starts, `_prepare_vault` syncs the vault in a worker thread under the user's
lock. The supervisor node runs on a worker thread; it calls the plan store, which talks to the database over HTTP and
keeps a copy in a process-wide dict. `tool_execution` runs tools, some of which (the note tool) write the vault folder
without the lock. When the turn has answered, a detached task extracts one insight, writes the profile under the lock
and uploads it. Uploads, the knowledge chat, a parse and the pollers' health check are requests of their own; the
calendar tools, the ledger and the KB client are called from inside turns. Everything that leaves the event loop through
`to_thread` (parses, storage calls, the preludes of turns) shares the one default executor.

**Where it is hard.** Worker threads that outlive the request that started them; two copies of the same plan that
fail separately; a folder that is emptied and refilled while others use it; files shared with another operating system;
models that may answer anything, repeat themselves, or break off mid-stream; bounds (steps, rounds, calls, bytes)
that have to hold together; a right or a token that was good when it was checked and is used later; six providers that
count the same tokens in six ways. `PROJECT.json` "hazards" names each such place at its line, with the property that
covers it or the reason none does.

## 2. Modules and the code

### PlanSlot, PendingPlans, MCPendingPlans, PendingPlansProofs

`PlanSlot` is what the propose/confirm handshake needs: one slot per conversation, a proposal replaces what is there,
an approval takes it out for good. `PendingPlans` is the code: `mem` is `_memory`, `db` the table, and each client
(a turn on a worker thread) is in the middle of at most one operation. A database call has three steps (sent,
applied, answered), so operations of different turns interleave at the places where the code waits:

| Code | Actions |
|---|---|
| `save`: memory, then upsert | `SaveBegin`, `DbApply`, `SaveEnds` |
| `take`: DELETE with `return=representation`, memory dropped on the answer; memory on an exception | `TakeBegin`, `DbApply`, `TakeAnswered`, `TakeRaises`, `TakeFallback` |
| `clear`: memory, then DELETE | `ClearBegin`, `DbApply`, `ClearEnds` |
| a request fails: refused, applied but the answer lost, or applied after the client timed out | `Raises`, `ApplyLate` |
| process restart | `Restart` |

`Faults` says which operations may fail in which way, `Configured` whether a database is configured at all. The code
judges the memory copy by `time.monotonic` and the row by the wall clock; the model has one clock. A plan id stands
for one list of calls; each id is proposed once, so "released twice" means replayed. `Slot`, the
instance of `PlanSlot` at the end of the module, is the refinement mapping: the row is the slot with a database that
answers, and the memory entry is without one (`Configured = FALSE`) or with one that never does (`Reachable = FALSE`).

### Handshake, MCHandshake, HandshakeProofs

Chat turns over the store: PendingPlans is instantiated twice, with a database and without, and `durable` says which
one this deployment is. `turn[c]` is where a turn stands: `Message` begins it; the gate takes (`Takes`, `Approved`),
proposes (`Proposes`) or clears (`Clears`) by the store's own steps; `Stored` routes again or composes; it ends in
`Replies`, `Breaks` or `Unrouted`. `reply[k]` is what the last answer in a chat showed, `Cut` if there was none.
Everything TurnGraph says of routing is reduced to its effect on the store; that the composer's text shows the list in
its prompt is assumed. The user sends one message at a time in a chat (`Overlaps = FALSE`).

### Routing, TurnGraph, MCTurnGraph, TurnGraphProofs

`Routing` holds the graph state and the updates the nodes make to it, as operators; `TurnGraph` runs one turn. Its
variable `at` is the node that runs next; the supervisor is split where a model is asked:

| Code | Actions |
|---|---|
| `supervisor`: step bound, fast path, no client | `SupervisorBound`, `SupervisorFastPath`, `SupervisorNoClient` |
| native router, its exception, fallback | `NativeAnswers`, `NativeArgsRejected`, `ToStructured` |
| structured router with retries | `StructuredAnswers`, `StructuredRetries`, `StructuredFails` |
| `_finish_routing`: repeat guard, document pointer, write gate | `Guarded`, `Pointed`; `GateReleases`, `GateFindsNoPlan`, `GateProposes`, `GatePasses` |
| `tool_execution` | `ExecuteTools` |
| `local_llm`, `generate_cloud`, `generate_local` | `ComposeCanned`, `ComposeCloud`, `CloudFails`, `ComposeLocal` |

Models and tools are the environment: whatever they can answer is a choice. `ExecuteTools` has no path on which a tool
raises out of the node: every `run_*_tool` that it calls ends in an `except Exception` that returns a text (for
example `tools/google_calendar.py:428-447`, `tools/attachments.py:160-172`), and names nobody serves are filtered out
before. Calls are abstract values with a signature and a tool. The plan store is a choice here too (a plan of this
chat, or none); `PendingPlans` says when it holds one. `grant` and `direct` are history for the properties.

### VaultSync, MCVaultSync, VaultSyncProofs

One user's bucket (`remote`), folder (`local`, `exists`), cached listing (`cache`) and lock. A turn passes through
`TurnBegins`, the steps of its sync thread (`SyncLists`, then `SyncSkips` or `SyncKeeps`, `SyncWipes`,
`SyncRestores`, one `SyncDownloads` per file, `SyncFinishes`; `SyncRaises` at any request), `TurnPrepared`,
`WriteNote` while it runs, `TurnEnds` or `TurnCancelled`; then its extraction (`TaskLocks`, `TaskReads`,
`TaskRecords`, `TaskUploads`, `TaskUploadRaises`). Each file-system or network call is a step, which is where another
thread can come in. ETags are digests, so contents stand for them. The profile is the set of insights in it: the code
replaces a bullet with the same key, and here every insight has a key of its own. Edits of the bucket by other programs do
not happen in the middle of a sync. The sandbox user's mock folder is left out.

### Uploads, MCUploads, UploadsProofs

`dir` maps paths to files (inodes, because an open handle outlives its name), `file` says who wrote each block, `up`
is each request. Everything in `store_stream` up to the opening of the part file runs without an await and is one
action (`Begins`); from there on each thread call is a step. `Removed` is `delete_upload` or Defender, which may take
any file, part files too; `DroppedIn` is the owner of the folder, `Crash` a restart. A request that is refused or
crashes is forgotten (`Forgotten`): what it wrote stays in `file`. `Collisions` and `PartNames` allow two situations
in which the code does not keep its promises (section 6); the run sets both to FALSE.

### KnowledgeChat, MCKnowledgeChat, KnowledgeProofs

One turn of `knowledge_chat.run`: `round`, what is held back, what the reader has been `shown`, `answer_parts`, the
context of numbered passages, and the numbers the model has been `told`. A stream is a sequence of `ReceivesText` and
`ReceivesCall`; it ends in one of `SentToRetrieve` (the nudge), `Answers`, `OutOfRounds`, `CallsTools` or
`StreamFails`. The calls of a round are gathered concurrently: `Retrieves` and `ReturnsText` come in any order; each
is atomic because `TurnContext.add` is called in a loop without an await. A text is the set of what matters in it: the
numbers it cites, whether it is long, whether it is only white space. `Strays` says when the model cites passages it
was not shown in this turn.

### Documents

`parse[r]` is a request of `POST /documents/parse`, `waiting` the queue of the semaphore, `prelude[t]` what a turn loads
before its graph. `jobs` is the queue of the default executor and `Running` the oldest of it, as many as there are
threads left: `Workers` minus the `orphans`, threads whose request gave up on them. The threads that other nodes of the graph
use are not in this model; the ones a reread takes are.

| Code | Actions |
|---|---|
| `parse_document_endpoint`: identity, `fetch_original`, size, text passed on as it is | `AsksToParse`, `FetchesOriginal` |
| `parse_document`: the semaphore, the conversion, `wait_for` | `Acquires`, `Converts`, `TimesOut`, `OrphanEnds` |
| `store_extracted`, outside the handler's `try` | `Stores` |
| `_load_documents`, with the cuts of each text (`NextText`) and of all of them by `wrap` (`WrapKeeps`) | `TurnBegins`, `ReadsText` |
| `_load_document_images` | `KnowsTypes`, `FetchesImage`, `Shrinks` |
| `_load_attachment_manifest` | `ListsChat`, `ListsAttached` |
| `reread_attachment`: storage, then the vision model, whose request has no timeout | `Rereads`, `Looks`, `VisionHangs` |

An original is of a kind: text already, convertible, broken, too large, absent, or one docling never finishes
(`stuck`). Such conversions and the vision requests that hang keep a thread for ever; `MaxStuck` counts both.

### Calendar

The credentials row, which core-chat's connect flow writes (`Connects`) and a call refreshes, and each call between
two requests: `Loads`, `Judges`, `Refreshes`, `Saves`, `AsksCalendar`. A token is the grant it was issued for and the
time it expires. `Tick` is free: the code sets 30 s for each wait on a socket (`REQUEST_TIMEOUT_S`), over up to five
requests one after the other, and no limit on a call, so a call may use its token long after it found it good. `since`
is when it did. A refreshed token is issued at some time before its answer arrives, and the expiry that is written
down is reckoned from the arrival; `lag` is the longest such time there has been.

### CalendarEvents

One event, from the dates approved for it to the dates a listing shows. A date is a number with a flag that says
whether it is a whole day; `StartField` and `EndField` are `_time_field`, `Shown` the rendering, `DayCount` the count
in the proposal. `Writes`, `Moves`, `Amends` (a listing sent back) and `Deletes` are the tools.

### FundHealth

One health check while pollers write (`Polls`) and an operator resolves (`Resolves`): `AsksFunds`, `AsksSnapshots`,
`AsksFailures`, one `AsksFund` per fund in any order, `Rollup`; any question may raise (`AskRaises`). An answer is any
subset of the rows of the size the limit allows, the newest ones if the query is ordered. `Published` are the days a
poller's snapshots may be dated, some of them ahead of `Today` (Regan's funds date over the weekend). `FundAssumption`
says that the dates that count as fresh fit into one fund's share of the answer: the daily funds are stale after 4 and
6 days, the monthly ones after 70, and the share is 50 rows. `truth` is history: what was fresh and what was free of
failures when it was asked about.

### Gateway

`request[c]` is a request on its way through a handler: `Arrives` (with the identity `resolve_user_id` gives it, which
is the sandbox user when the token does not verify), `Guard`, `Checks` (`is_admin`), `FetchesFor`, `Sends` or
`SearchesKb` (with the retries of `_request`). `admins` changes between any two steps. `owner` is the scope the request
acts in, `allowed` history: the session's user was an admin at some time of the request.

### Ledger

`attempt[a]` is one HTTP attempt of one of ten call sites, `spool` the readable rows of the file, `torn` an unfinished last
line. `UsageReports` is what the providers send about the eight kinds of tokens a request consumes, each with its own
numbers including others; the `Normalize...` operators are the code's. `Succeeds` or `Fails`, then `Exits` with what the
call site makes of it; `Restart` ends everything.

### MCServices

The knowledge chat and the six modules above share no state, so they are checked side by side in one run: `part` is
chosen in the initial state and never changes, the service it names runs alone from its own initial state, and no
product of their state spaces is built. Their definitions carry the service's name where two modules would use the
same one (`DocsInit`, `GateNext`).

### SetLemmas, ServicesProofs

Proofs of Documents are in KnowledgeProofs with those of the chat; those of Calendar, CalendarEvents, Gateway, Ledger and
FundHealth are in ServicesProofs, which extends MCServices and KnowledgeProofs and ends with the composition of all seven.
SetLemmas holds the facts about finite sets that several of them need: the least of
some finite sets, the largest of some numbers, a fold over a finite set as a recursive function, sums.

## 3. Runs

Every passing run explores its whole state space.

| Run | Question | Instance |
|---|---|---|
| `store_reliable` | Is the two-copy store one durable slot per conversation when the database answers? | 2 plans, 2 chats, 2 concurrent turns, restarts at any point, deadline reachable |
| `store_faulty` | What is left when any request may be refused, lose its answer or be applied late? | 2 plans, 1 chat, 2 turns, every fault of every operation |
| `store_take_fails` (violation) | Is a plan single-use if one DELETE is refused? | 1 turn at a time |
| `handshake` | Does a yes run the list the last reply showed, and find it? With and without a database | 2 plans, 2 chats, 2 concurrent turns, 5 messages, a deadline that passes, restarts, replies cut by a stop, a failing composer or failing routers |
| `turn_native` | Native routing, cloud composer: bounds, gate, repeat guard, one reply | real bounds 8/2/3/25; 2 reads, 4 creations, 1 deletion, two of them repeats; 11 batches |
| `turn_structured` | Structured routing with retries, local composer: does every step bring the turn nearer to its end? | the same calls, 3 attempts |
| `turn_structured_delete` (violation) | Are deletions always confirmed? | structured path |
| `vault_ordered` | Does the lock keep the profile whole and the snapshot current? | 3 turns, 2 notes, 2 contents, 1 edit, 1 restart, requests that raise before the restart |
| `vault_list_fails` (violation) | Does the profile survive a container restart if a listing fails after it? | 3 turns |
| `vault_cancelled` (violation) | Does the lock protect the profile from a sync whose client has left? | 3 turns, one note, no faults |
| `uploads` | Whole files, nothing overwritten, bounded overshoot | 3 uploads, 2 in flight, 2 names of 2 variants, files of up to 2 blocks and clients sending 3, one dropped file, one restart |
| `services` | Does each of the seven services keep its promises under every interleaving of its own? | see below |

The instance of `services`: the chat with 2 tool rounds and the tool-less one, 3 calls against a cap of 2 and 3
passages that do not all fit; 2 parses of 4 originals (convertible, broken, text, stuck), 1 turn, 2 executor threads
of which 1 may be lost for ever, to the stuck conversion or to a vision request; texts cut at separators, words and
notes of length 1; 2 calendar calls, 2 connections, tokens of life 2 with a margin of 1, which calls may outlast; an
event with 3 days; 2 pollers, one with two funds, one row per fund in either answer, and dates of which one is stale
and one ahead of today, one without a row in `funds`, 3 attempts; 1 user whose right is given and withdrawn during a
request, 3 tries; 2 attempts that consume every kind of token, each in a different power of two, or only some.

**Why the bounds are enough.** Two turns exhibit every race of the store, since an operation touches one key and
conflicts in pairs; two plans are an older and a newer one; a second chat is there to be confused with the first. The
turn uses the program's own limits. The vault needs two turns for lock conflicts and a third to observe what they
left; uploads need two in flight to share the budget and a third to come later, and a cap above one block so that a
partial file differs from a whole one. The chat needs two tool rounds (the nudge in the first, the forced call in
the second) and a passage that fits only if another was not taken. A second parse is the one that waits for the slot
or runs beside an orphan; two calendar calls are enough to refresh twice, and two connections to have an older one; the
answers about funds are cut as soon as two funds share one row each; powers of two make a wrong sum of tokens differ from
every right one.

**Symmetry** is used in `handshake` (plans, chats, turns), `vault_ordered` (turns, contents) and `uploads` (requests,
names), which check safety only.

**Fairness.** Two liveness properties, each under fairness of the steps that the code bounds and of no other. In the
turn three places wait for requests without a timeout (`Waits`): the native router (`_native_chat_model`,
`orchestrator.py:832-838`), the Gemini composer (`genai.Client`, line 369, and its stream) and the tools (the vision
request of a reread, `tools/attachments.py:84`). `Terminates` says that a turn ends, or stays at one of these places
with its request out for ever; `FairSpec` is weak fairness of the next step elsewhere: the structured router and the
local composer go through clients with a timeout, and so do the requests to the database. The run `turn_native` checks
it; of the structured path `EveryStepCounts`, together with the absence of deadlock, says the same. `Answered`
(documents) assumes weak fairness of the steps of each parse and each prelude (storage requests have timeouts, and
`wait_for` bounds the conversion), and of the end of an orphan whose conversion can end. Nothing is assumed of
conversions that are stuck, of a vision request that hangs (`VisionHangs` is a choice beside `Looks`, and only that
request's turn is excused), nor about which answer arrives; but fewer threads may be held for ever than the executor
has (`MaxStuck`), and section 6 says what happens otherwise. The other modules state safety only: an upload may wait
for its client indefinitely, and the knowledge chat's model client sets no timeout.

**Deadlock** is checked in every run; modules whose system really comes to rest say so with an explicit final step
(`Done`, `Ended`, `...Rest`).

## 4. Properties

The store: `ImplementsPlanSlot` is every promise of the docstrings at once, as a refinement of `PlanSlot`: a proposal is
released once, the newest one wins, what was cleared stays cleared. `SingleUse` and `ReleasedInTime` are stated
besides, the second because a slot has no clock. Under faults `CopiesAgree` and `AtMostTwice` remain.

The handshake: `ApprovedAsShown` (a released plan is what the last answer in its chat showed, unless that answer was
cut off) and `ApprovalHonoured` (a list just shown is there when approved), in both deployments.

The turn: `Terminates` (it ends unless a request without a timeout never comes back); `EveryStepCounts` (each step
lowers a number that only the limits bound, so the turn is not merely finite in the instances);
`WithinRecursionLimit`, `ComposesOnce`, `HaltedTurnReplies`, `OneVoice` (one composer speaks); `NoUnapprovedBatch`,
`UnapprovedWritesBounded`, `ProposedNotRun`, `NoApologyAfterWork` (the gate over several rounds);
`NoRepeatAcrossRounds`.

The vault: `SnapshotAfterSync`, `SyncedProfile`, `UploadedInsightsStay`, `ProfileNotClobbered`,
`InsightsWrittenBack` (an upload that is logged as done has put the turn's own insight in the bucket). Uploads: `WholeFiles`,
`NeverOverwrites`, `OvershootBounded` (the budget is passed by at most what is in flight). The chat:
`GroundedCitations`, `EndsWell`, `OneNumberEach`.

Documents: `Answered` (every parse is answered and every turn goes on, although a conversion or a vision request may
hang for ever, except the turn that waits for that vision request), `ErrorStoresNothing` (the late result of an
abandoned thread does not appear as a document), `ReadyIsRead` (what was reported ready before the message is in the
turn's text, unless reading failed, it has no text, or what precedes it leaves no room but for less than a word at the
cut).

The calendar: `GoodForMargin` (a token found good once is good for the margin from then on, less the longest time a
refresh has taken, whichever call wrote the row), `OldGrantFades` (a refresh under way when the user reconnects puts
the older account's token into the new row, for one token's life and the time of that refresh at most), `DatesStay`
(an event is listed with the dates approved for it after any sequence of creating, moving and sending back what was
listed, and lasts as many days as the proposal said).

Fund health: `ReportIsTrue`. The gateway: `ScopesKept`. The ledger: `RowsAddUp` (a row's fields add up to the tokens its
request consumed, in every spelling; without a report it bills nothing; and the caller gets the same outcome whatever
becomes of the row).

Each is paired in `PROJECT.json` with a mutation of the code it detects; the mutated operators stand next to the
originals and are marked as mutants.

## 5. Proofs

Eight modules hold proofs. Every theorem is for every value of the module's constants: any set of plans, chats, turns,
calls, documents, requests, users and attempts, and any limits that the named ASSUMEs allow. Of the properties of
passing runs, all but the two of liveness are proved; the types of the store, which no run repeats, are too. Where a
theorem has a hypothesis of its own ("Under"), it mostly excludes a situation in which TLC breaks the property, a
divergence of section 6; the others are about the configuration (the recursion limit, a budget that is set).

| Theorem | Under | Argument |
|---|---|---|
| `TypeCorrect` (store, turn) | — | induction, one step per action |
| `CopiesAlwaysAgree` | any faults | a copy of a plan in memory, in the table, in an answer or in a late request carries the proposal's chat and deadline; a plan is proposed once, so no step can change that |
| `AlwaysReleasedInTime`, `AlwaysReleasedInItsChat` | any faults | a release comes from an entry that agrees with its proposal and is unexpired |
| `NeverMoreThanTwice` | any faults | `TwoCopies`: the memory's copy and the table's are in one place each (the slot, a save on its way, a take that holds it), and handing one out spends it |
| `AlwaysSingleUse` | `Faults = {}`, or no database | strengthened by `TableOnce` (a plan that a row, an applied take or a save on its way carries is unreleased, and only one of them carries it) or `MemoryOnce` |
| `AlwaysImplementsPlanSlot` | `Faults = {}`, or no database | every step of an operation is one step of `PlanSlot` or none: a save is its upsert, a take is the DELETE that takes the row and the answer that delivers it, a restart is a crash that keeps the slots if there is a database. Rests on `MemoryOnce` / `TableOnce` and on `HandsOnlyTaken` (only a take whose DELETE was applied holds a row) |
| `AlwaysApprovedAsShown`, `AlwaysApprovalHonoured` | `OneAtATime`: one message at a time in a chat, no supervisor that outlives its client | `HandInv` says of each turn in flight where its plan is (in the slot, in a request, in an answer), and of each chat at rest that its slot holds what its last answer showed, unless that was cut. The store's actions are looked at only through what they do to one chat's slot (`OneStep`) |
| `AlwaysUsesTheStore`, `AlwaysReleasedOnce` | — | every step of the handshake is one of `PendingPlans`' or leaves the store alone, so the store's theorems (once, in time, in its chat) hold of the chats even where `OneAtATime` does not |
| `AlwaysBounded` | — | the step counter's bound at each place of the graph: the strengthening the next two rest on |
| `AlwaysWithinRecursionLimit` | `MaxSteps + 4 <= RecursionLimit` | from `Bounded` |
| `AlwaysEveryStepCounts` | — | `StepsLeft` is a lexicographic measure, written as one number: every node visit but the supervisor's own retries and the composer's change of model lowers the first part, and those lower the second. `Bounded` keeps the first part from passing zero |
| `AlwaysNoRoutingAfterReply`, `AlwaysComposesOnce`, `AlwaysHaltedTurnReplies` | — | a turn that has replied leaves the supervisor by the fast path or the bound |
| `AlwaysOneVoice` | — | `Silent`: nothing has been sent before the reply, and every composer ends in it |
| `AlwaysProposedNotRun`, `AlwaysNoApologyAfterWork` | — | the plan and the note are set by one branch of the gate each and reset by every other update |
| `AlwaysNoRepeatAcrossRounds`, `AlwaysNoUnapprovedBatch` | native path only | the guard's result is what reaches `tool_execution` |
| `AlwaysUnapprovedWritesBounded` | native path only | before a round a tool was used less often than the cap, and an ungated round brings fewer than the threshold |
| `FilesAlwaysWhole`, `AlwaysNeverOverwrites` | `OwnNames`: no two uploads in flight of one name, no name in `.part` | each upload in flight owns its target, which is free; the file it has open holds exactly its own blocks, nobody else has it open, and it lies at the upload's own part path or has been removed |
| `OvershootAlwaysBounded` | `OwnNames`, `Budget > 0` | an account: the files that were there when the latest upload was admitted fit the budget; whatever else there is belongs to uploads that were in flight with it |
| `SyncedTurnsHaveTheProfile`, `InsightsStay`, `ProfileIsNotClobbered`, `InsightsAreWrittenBack` | `Ordered`: no sync is cancelled while its thread runs, no listing fails after a restart | `OneAtATime` (what the lock guards), `Current` (what a sync and a task have read is still so), `Held` (outside the window between wipe and restore, the local profile has the bucket's insights once some sync has ended); for the last one `Recorded` (from recording to uploading, the file has the task's insight) |
| `SyncsAreSnapshots` | `Ordered` and `Recoverable`: no empty listing, and no edit that is taken back after a download failed | `CacheKnown`, `NotesKnown`: the cached listing is what the folder was last filled from |
| `CitationsAreGrounded` | the model cites from memory only before any tool has run; `MAX_ROUNDS >= 2` | `Sequenced`: until a tool has run everything is held, and the second round is the forced one |
| `TurnsEndWell` | — | a turn ends in one place, and what it sends last depends on what was shown |
| `NumbersAreStable` | — | the passages of the turn have the numbers 1 to n, and adding one never renumbers; the sum of the sizes is a fold over a finite set |
| `ChatsTyped` | — | the passages are an injective sequence of keys, so there are no more of them than keys; what was told and what a call returned are pairs of a number and a key |
| `DocumentsTyped` | — | who waits for the slot is in its queue exactly once, a client has at most one job in the executor, and a text is cut to what the budget has left |
| `ErrorsStoreNothing` | — | a request stores only as it answers "ready" or "raised", and is answered once; its orphan stores nothing |
| `ReadyTextsAreRead` | — | the text of a document that was answered "ready" stays in storage, and a prelude passes a document only by reading it, by a failure or for want of room; the sum of what was read, with separators, is what `wrap` cuts |
| `TokensGoodForMargin` | `Buffer < Life` | a row's expiry is its token's or later by at most `lag`; a token in use expires a margin less `lag` after `since`, or a life less `lag` |
| `OldGrantAlwaysFades` | `Buffer < Life` | a token of an older grant was issued before the reconnection, or by a refresh that had read its row before it and took at most `lag` |
| `DatesAlwaysStay` | the time zone can be read (`ZoneFails = FALSE`) | the event is what `_time_field` makes of the approved dates, and rendering undoes it |
| `ScopesAlwaysKept` | — | until a request is admitted its scope is its caller's; `allowed` misses no moment at which the caller is an admin |
| `ReportsAreTrue` | fresh dates fit a fund's share (`FundAssumption`) | an answer that was not cut has every row it was asked for; were a fresh snapshot left out of a cut one, all it holds would be at least as new, and the fresh ones more than the shares of all funds; a cut answer about failures has some |
| `RowsAlwaysAddUp` | — | a sum lemma for each normalizer and any counts, and an invariant of each attempt: what it was told is what its row says |
| `TokensTyped`, `EventsTyped`, `RequestsTyped`, `LedgersTyped`, `FundsTyped` | — | the invariants above, with the bounds on clocks, grants, tries and counts |
| `ServicesAsAlone` | — | a step of one service leaves the variables of the others unchanged, so the composition implements each of the seven specifications |
| `ServicesTyped` | — | `ServicesAsAlone` and the type theorems of the seven |
| `ServicesKeepTheirPromises` | `OnlyFromMemory` (the condition of `CitationsAreGrounded`), `ZoneFails = FALSE` | `ServicesAsAlone` and the theorems of the seven: all safety properties of the run `services` together |

The assumptions are the named ASSUMEs of the modules, which TLC evaluates in the runs. They are as weak as the code
allows: limits are naturals, positive where a limit of zero would mean something else in the code, faults are any
subset. Some say that what TLC's model values and strings tell apart by themselves is different: `StoreAssumption`,
`TokensAssumption`, the `NoneAssumption`s (None is no plan, no chat, no operation). Sets whose members are counted are
finite (`CallsAssumption`, `KeysAssumption`, the funds of a poller in `FundAssumption`).

Three proofs count or add over sets. Induction over data is beyond the prover, so SetLemmas turns it into statements
about sets: among the finite sets that are an exception there is a least one (from the library's theorem that strict
inclusion of finite subsets is well-founded), and it leads to a contradiction. For a fold, the recursive function that
computes it is shown to exist and to be unique in the same way.

**Only model-checked:** liveness, `Terminates` and `Answered`, which is outside the prover's reach, like `ENABLED`, and
stays with TLC. What is left of `Terminates` beside `AlwaysEveryStepCounts` is that some step is possible until the turn is
done, and taken where nothing waits for an unbounded request (the fairness).

## 6. Where the code and its documentation part

Shown by a run (`PROJECT.json` "findings" quotes the lines):

1. A refused `take` releases the memory copy and leaves the row: the next yes replays the same writes.
2. On the structured path a deletion runs without confirmation.
3. In a fresh container one failed listing lets an extraction overwrite the bucket's profile.
4. A client that disconnects during the sync releases the lock while the thread goes on (`asyncio.to_thread`), against the
   comment at `orchestrator.py:2667`; the thread then puts an old profile over a newer one.

Met while modelling, each confirmed by loosening a constant of a passing run:

- *Uploads of one name at a time.* Two uploads of the same name in flight pick the same target and the same part file
  (`services/uploads.py:247-253`): with `Collisions = TRUE` TLC breaks `WholeFiles` ("readers see either nothing or the
  finished file", line 277) and `NeverOverwrites`.
- *Names ending in `.part`.* An upload named `x.part` lies where the body of a later upload of `x` is streamed
  (line 248) and is truncated by it; it is also hidden from the listing. With `PartNames = TRUE` TLC breaks
  `NeverOverwrites`. A part file left by a restart or a failing rename counts against the budget until removed by hand.
- *An emptied bucket.* After an empty listing the older cached listing stays (`services/storage_sync.py:192`), so a bucket
  restored to what it was is not downloaded, and the wiped folder passes for "unchanged since last sync" (line 180):
  with `MayEmpty = TRUE` and two edits TLC breaks `SnapshotAfterSync`.
- *A failed download and a reverted edit.* The folder is wiped before the downloads; if one fails and the bucket then
  returns to the cached listing, the half-filled folder is taken for current (`vault_ordered` with `MaxEdits = 2`
  breaks `SnapshotAfterSync`).
- *Local notes.* A note of the note tool is never uploaded and is gone with the next changed sync.
- *Failed write-back.* "local copy kept" (`orchestrator.py:2597`) lasts until a changed sync downloads the older profile.
- *Citations after an empty retrieval.* The hold-back ends with the first tool call, whatever it found: after
  `list_documents` or an unreachable knowledge base, text that cites numbers of earlier answers streams to the reader,
  although `_ungrounded` (`knowledge_chat.py:530`) is about a turn that answers "without retrieving anything". With
  `"unread"` in `Strays` TLC breaks `GroundedCitations`; with `"late"` a number cited before its passage was
  retrieved even gets that passage as its source. With `KB_CHAT_MAX_ROUNDS=1` the round after the nudge is the
  tool-less one, which is not held back, against the comment at `knowledge_chat.py:593-595`.
- *Plan store.* A failed save leaves the older row, which a later take prefers over the newer memory copy
  (`services/pending_plans.py:111`). A failed clear leaves the row (`:178-189`), and clear never calls
  `raise_for_status`.
- *Approved unseen.* "Run exactly what was shown and agreed to" (`orchestrator.py:1949`) holds after answers only. A plan
  is saved before its reply is composed (`:1972`), and a turn whose routers fail does not clear (`:1532`), so after a
  stopped reply, an error notice or a restart a yes may release a list the user did not see: with `reply[...] = p`
  for the conclusion of `ApprovedAsShown`, TLC breaks it under each of them, and under none it holds. A client that
  disconnects earlier leaves the supervisor running on its worker thread, and its save reaches the store after later
  messages: with `"abandon"` in `Cuts`, or with `Overlaps = TRUE`, TLC breaks even the property as it stands.
- *The gate.* A "yes" that finds no plan runs native calls of the router ungated (`orchestrator.py:1955`). The
  same-tool cap counts earlier rounds only, so one batch may exceed it (`orchestrator.py:1895`).
- *Steps.* The step counter can pass `MAX_STEPS` by up to three (8 becomes 11) because the bound is tested before the last
  composition, against "No orchestration run exceeds the configured step bound"
  (`specs/003-langgraph-orchestration/spec.md:104`; the same in `quickstart.md:48`). A turn that replied at step
  6 is stamped `halted_step_bound` at step 8.

- *One parse at a time.* "At most one docling parse runs at a time" (`services/document_parser.py:9-10`) is true of
  the slot, not of the work: after a timeout the thread goes on while the next parse starts. A conversion that hangs
  keeps its thread of the executor that every `to_thread` uses; with `MaxStuck = Workers` TLC finds that no parse,
  storage call or prelude is answered any more (`Answered`).
- *Model calls without a timeout.* "REQUEST_TIMEOUT_MS bound each model call (FR-006)" (`orchestrator.py:104`), but
  the Gemini client (line 369), its stream (2061), `_native_chat_model` (832-838) and the vision request
  (`tools/attachments.py:84`) set none: a request that hangs holds its turn, and a vision request also holds a thread
  of the executor, where it counts like a conversion that hangs. With `<>(at = "done")` in place of `Terminates` TLC
  finds the turn that waits.
- *Parse results.* "Never 500s" (`router.py:178`), but `store_extracted` (line 196) is outside the `try` and its failure
  is a 500, with the text stored or not.
- *Turn preludes.* The note that attached documents were truncated is always cut off again, because the wrapped text
  is limited to the same budget; and since the separators count there but not in the budget, the end of the last text
  can be cut although the budget was not used up (`orchestrator.py:2734-2747`). A text that just fills the budget is
  marked as truncated. The manifest lists the oldest 20 documents of a chat, so the one just attached may be missing.
  `Image.MAX_IMAGE_PIXELS` is saved and restored around each image without a lock; the explicit size check makes the
  race harmless.
- *Calendar.* `_save_access_token` "Deliberately does NOT raise" (`tools/google_calendar.py:95`), but a failed
  transport does. A null expiry is a TypeError that nothing catches, against "unknown -> force refresh" (lines
  144-145). Any 400 of the token endpoint is taken for a revoked grant. The margin of 60 s (`EXPIRY_BUFFER_S`) does
  not cover five requests of up to 30 s per wait: a token can expire during its call, and the 401 tells the user to
  reconnect. The expiry in the row is later than the token's by the time the refresh's answer took. When the time zone
  cannot be read UTC is used silently: with `ZoneFails = TRUE` TLC breaks `DatesStay`.
- *Fund pollers.* A fund's own "healthy" entry may be wrong when another fund's failures fill the answer, against
  "the semantics are byte-identical" (`services/fund_pollers.py:186-190`); the poller's status is right all the same
  (`ReportIsTrue`). Tickers without a row in `funds` are skipped silently.
- *Ledger.* "One line per HTTP ATTEMPT" (`services/llm_ledger.py:10`), but the Gemini router
  (`orchestrator.py:905-937`) and `search_web_raw` record nothing, a failing local answer leaves no row, and retries
  inside a provider's SDK share one line. "Every failure here is swallowed" (line 13), but a usage report that does
  not parse raises in `ok` and reaches the caller. A write that stops short is not noticed, and spoils the next row
  too.
- *Flights.* The "earliest option first" order (`tools/flights.py:235-237`) sorts rendered lines, which begin with the
  airline; truncation can then drop the earliest.
- *Knowledge base.* A 502 of an upload does not say whether the job was accepted; repeating a replacement can leave two
  versions. `/kb/jobs` alone does not turn the sandbox user away. While the key set cannot be fetched, a signed-in user is
  the sandbox user.

## 7. Not modelled, and why

Prompts, provider payloads and rendering are data. Saved documents, web, flights, REIT and briefing tools make read-only
requests and render text: for a turn they are a tool's result (Ledger has the row a web search leaves). The tool catalog
and secrets have no transitions of interest; the scripts are offline. `safe_name`'s character rewriting and the free-space
floor of uploads are a refusal that may always happen. In the knowledge chat, prompt building and history merging
are left out; in the gateway, the confidence threshold, the framing of server-sent events, start-up and the validation of
bodies; of fund health, the count of revisions, the time of the last success and the degraded summary; of the ledger, usage
reports that do not parse and the counts of tools and searches; of the calendar, the window of a listing and the texts of
errors.

## 8. Plan

Done: the modules of section 2 and the proofs of section 5. What comes next:

1. **Models:** the framing of server-sent events against a client that leaves; start-up and shutdown with detached tasks.
2. **Abstraction:** one specification of the profile as a growing set, which VaultSync implements under `Ordered`. Its
   promises are proved one by one (`InsightsStay`, `ProfileIsNotClobbered`, `InsightsAreWrittenBack`).
