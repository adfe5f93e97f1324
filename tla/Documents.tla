----------------------------- MODULE Documents -----------------------------
(***************************************************************************)
(* Uploaded documents: the parse endpoint of router.py with the docling    *)
(* slot of services/document_parser.py, and what a chat turn loads of them *)
(* before its graph starts (orchestrator.py, services/documents.py,        *)
(* services/images.py, tools/attachments.py).                              *)
(*                                                                         *)
(* Every storage call and every docling conversion is a job of the one     *)
(* default executor, which has Workers threads and serves jobs in the      *)
(* order they were submitted.  wait_for gives up on a conversion and frees *)
(* the slot, but not the thread: it goes on as an orphan.                  *)
(***************************************************************************)
EXTENDS Naturals, Sequences, FiniteSets, SequencesExt

CONSTANTS
    Parses,     \* requests of POST /documents/parse
    Turns,      \* chat turns
    Docs,
    Kind,       \* what an original is: absent, oversize, textual, docling, broken, stuck
    Chars,      \* length of a document's extracted text
    Normal,     \* Normal[d][n]: what sanitize leaves of the first n characters of d
    Images,     \* documents whose row says image/png or image/jpeg
    Usable,     \* originals that downscale_for_model can prepare
    Lists,      \* document_ids a message may carry
    ChatDocs,   \* rows of the conversation's documents, oldest first
    Workers,    \* threads of the default executor
    DOC_CHAR_BUDGET, MAX_DOCS_PER_TURN, MAX_IMAGES_PER_TURN, MAX_ATTACHMENTS_LISTED,
    Separator,  \* length of what is put between two texts
    Note,       \* length of the note that texts were left out
    LongestWord,
    MaxStuck,   \* bound on the threads that never come back
    NoDoc

ASSUME DocsAssumption ==
    /\ Parses \intersect Turns = {}
    /\ Kind \in [Docs -> {"absent", "oversize", "textual", "docling", "broken", "stuck"}]
    /\ Chars \in [Docs -> Nat] /\ Normal \in [Docs -> [0 .. DOC_CHAR_BUDGET -> Nat]]
    /\ {Separator, Note, LongestWord} \subseteq Nat /\ Images \subseteq Docs /\ Usable \subseteq Docs
    /\ Lists \subseteq Seq(Docs) /\ ChatDocs \in Seq(Docs)
    /\ MaxStuck \in Nat
    /\ {Workers, DOC_CHAR_BUDGET, MAX_DOCS_PER_TURN, MAX_IMAGES_PER_TURN, MAX_ATTACHMENTS_LISTED}
          \subseteq Nat \ {0}

VARIABLES
    parse,      \* parse[r]: the request
    waiting,    \* parses waiting for the slot, in order of arrival
    jobs,       \* clients with a job in the executor, in order of submission
    orphans,    \* parses whose abandoned conversion still holds a thread
    extracted,  \* documents with an extracted.txt in storage
    prelude     \* prelude[t]: what a turn loads before its graph

docsVars == <<parse, waiting, jobs, orphans, extracted, prelude>>

NewParse == [at |-> "new", doc |-> NoDoc, answer |-> "none"]
NewTurn == [at |-> "new", ids |-> <<>>, n |-> 1, ready |-> {}, missed |-> {}, text |-> <<>>,
            left |-> DOC_CHAR_BUDGET, length |-> 0, kept |-> 0, images |-> <<>>, listed |-> {}, said |-> "none"]

DocsInit ==
    /\ parse = [r \in Parses |-> NewParse]
    /\ waiting = <<>> /\ jobs = <<>> /\ orphans = {} /\ extracted = {}
    /\ prelude = [t \in Turns |-> NewTurn]

-----------------------------------------------------------------------------
(* The executor.  Jobs are served first come first served, so the running  *)
(* ones are the oldest.                                                    *)
Running == {jobs[i] : i \in {i \in DOMAIN jobs : i + Cardinality(orphans) <= Workers}}
Without(q, c) == RemoveFirst(q, c)    \* a client has one job at most
JobDone(c) == jobs' = Without(jobs, c)
Resubmits(c) == jobs' = Append(Without(jobs, c), c)

\* The conversion of r's original can come to an end.
Ends(r) == Kind[parse[r].doc] # "stuck"

-----------------------------------------------------------------------------
(* POST /documents/parse.  "raised" is the 500 of an exception the handler *)
(* does not catch.                                                         *)
ParseAt(r, stage) == parse' = [parse EXCEPT ![r].at = stage]
Replies(r, answer) == parse' = [parse EXCEPT ![r].at = "over", ![r].answer = answer]

\* What never gives its thread back: a conversion docling does not finish, and
\* a vision request that is not answered.
Stuck == {r \in Parses : parse[r].doc # NoDoc /\ Kind[parse[r].doc] = "stuck"}
Hung == {t \in Turns : prelude[t].said = "hung"}
MayHang == Cardinality(Stuck) + Cardinality(Hung) < MaxStuck

\* A caller without an identity is turned away at once (401).
AsksToParse(r) ==
    /\ parse[r].at = "new"
    /\ \/ Replies(r, "unauthorised") /\ UNCHANGED jobs
       \/ \E d \in Docs : /\ Kind[d] = "stuck" => MayHang
                          /\ parse' = [parse EXCEPT ![r].at = "fetching", ![r].doc = d]
                          /\ Resubmits(r)
    /\ UNCHANGED <<waiting, orphans, extracted, prelude>>

\* fetch_original raises (the object is missing, or storage fails), the
\* file is too large, it is text already, or it has to go through docling.
FetchesOriginal(r) ==
    /\ parse[r].at = "fetching" /\ r \in Running
    /\ LET kind == Kind[parse[r].doc] IN
       \/ Replies(r, "error") /\ JobDone(r) /\ UNCHANGED waiting
       \/ kind = "textual" /\ ParseAt(r, "storing") /\ Resubmits(r) /\ UNCHANGED waiting
       \/ /\ kind \in {"docling", "broken", "stuck"}
          /\ ParseAt(r, "waiting") /\ waiting' = Append(waiting, r) /\ JobDone(r)
    /\ UNCHANGED <<orphans, extracted, prelude>>

Slot == {r \in Parses : parse[r].at = "parsing"}

\* async with _parse_sem: waiters are served in order.
Acquires(r) ==
    /\ parse[r].at = "waiting" /\ Slot = {} /\ Head(waiting) = r
    /\ ParseAt(r, "parsing") /\ waiting' = Tail(waiting) /\ Resubmits(r)
    /\ UNCHANGED <<orphans, extracted, prelude>>

\* mutant of Converted: the document is reported ready and stored afterwards
ConvertedEarly(r) == parse' = [parse EXCEPT ![r].at = "storing", ![r].answer = "ready"]

Converted(r) == ParseAt(r, "storing")

\* The conversion ends in time, with the text or with an exception.
Converts(r) ==
    /\ parse[r].at = "parsing" /\ r \in Running /\ Ends(r)
    /\ IF Kind[parse[r].doc] = "broken" THEN Replies(r, "error") /\ JobDone(r)
                                        ELSE Converted(r) /\ Resubmits(r)
    /\ UNCHANGED <<waiting, orphans, extracted, prelude>>

\* mutant of TimesOut: no timeout around the conversion
NeverTimesOut(r) == FALSE /\ UNCHANGED docsVars

\* wait_for: the slot is released and the error answered.  A thread that has
\* begun goes on; a job that has not is cancelled.
TimesOut(r) ==
    /\ parse[r].at = "parsing"
    /\ Replies(r, "error") /\ JobDone(r)
    /\ orphans' = IF r \in Running THEN orphans \union {r} ELSE orphans
    /\ UNCHANGED <<waiting, extracted, prelude>>

\* mutant of OrphanEnds: the late result is stored after all
OrphanStores(r) ==
    /\ r \in orphans /\ Ends(r)
    /\ orphans' = orphans \ {r} /\ extracted' = extracted \union {parse[r].doc}
    /\ UNCHANGED <<parse, waiting, jobs, prelude>>

\* The abandoned thread returns; nobody awaits its result.
OrphanEnds(r) ==
    /\ r \in orphans /\ Ends(r)
    /\ orphans' = orphans \ {r}
    /\ UNCHANGED <<parse, waiting, jobs, extracted, prelude>>

\* store_extracted, outside the handler's try.
Stores(r) ==
    /\ parse[r].at = "storing" /\ r \in Running
    /\ \/ /\ Replies(r, "ready")
          /\ extracted' = extracted \union {parse[r].doc}
       \/ /\ Replies(r, "raised")
          /\ extracted' \in {extracted, extracted \union {parse[r].doc}}
    /\ JobDone(r)
    /\ UNCHANGED <<waiting, orphans, prelude>>

-----------------------------------------------------------------------------
(* The prelude of a chat turn: texts, then images, then the manifest.      *)
Take(s, n) == SubSeq(s, 1, IF n < Len(s) THEN n ELSE Len(s))
Attached(s) == Take(s.ids, MAX_DOCS_PER_TURN)
Ready == {parse[r].doc : r \in {r \in Parses : parse[r].answer = "ready"}}

TurnBegins(t) ==
    /\ prelude[t].at = "new"
    /\ \E ids \in Lists :
          prelude' = [prelude EXCEPT ![t] = [NewTurn EXCEPT !.ids = ids, !.ready = Ready,
                                                !.at = IF ids = <<>> THEN "listing" ELSE "reading"]]
    /\ Resubmits(t)
    /\ UNCHANGED <<parse, waiting, orphans, extracted>>

\* A chunk of d's text, cut to what is left of the budget, and where its
\* normal form comes to lie when the texts are joined.
Chunk(s, d) == IF Chars[d] < s.left THEN Chars[d] ELSE s.left
From(s) == IF s.text = <<>> THEN 0 ELSE s.length + Separator
WithText(s, d) ==
    LET shown == Normal[d][Chunk(s, d)] IN
    [s EXCEPT !.text = Append(s.text, [doc |-> d, from |-> From(s), chars |-> shown]),
              !.left = s.left - Chunk(s, d), !.length = From(s) + shown]

\* wrap: the joined texts, with the note if the budget is used up, are cut to
\* the budget a second time, behind the last word that fits.
WrapKeeps(s) ==
    IF s.length + (IF s.left = 0 THEN Separator + Note ELSE 0) <= DOC_CHAR_BUDGET
    THEN {s.length}
    ELSE {k \in 0 .. DOC_CHAR_BUDGET : k + LongestWord >= DOC_CHAR_BUDGET}

NextText(s, kept) ==
    IF s.left = 0 \/ s.n >= Len(Attached(s)) THEN [s EXCEPT !.at = "typing", !.n = 1, !.kept = kept]
                                             ELSE [s EXCEPT !.n = s.n + 1]
\* The turn t has s, and goes on to its next text or wraps what it has.
GoesOn(t, s) == \E kept \in WrapKeeps(s) : prelude' = [prelude EXCEPT ![t] = NextText(s, kept)]

\* fetch_extracted: the text, or "" when it is absent or unreadable.
ReadsText(t) ==
    /\ prelude[t].at = "reading" /\ t \in Running
    /\ LET d == prelude[t].ids[prelude[t].n] IN
       \/ d \in extracted /\ Chars[d] > 0 /\ GoesOn(t, WithText(prelude[t], d))
       \/ LET missed == IF d \in extracted THEN {d} ELSE {} IN
          GoesOn(t, [prelude[t] EXCEPT !.missed = @ \union missed])
    /\ Resubmits(t)
    /\ UNCHANGED <<parse, waiting, orphans, extracted>>

\* The next attached image from the n-th document on, unless there are enough.
NextImage(s, n) ==
    LET found == {i \in n .. Len(Attached(s)) : s.ids[i] \in Images} IN
    IF found = {} \/ Len(s.images) >= MAX_IMAGES_PER_TURN THEN [s EXCEPT !.at = "listing"]
    ELSE [s EXCEPT !.at = "imaging", !.n = CHOOSE i \in found : \A j \in found : i <= j]

\* fetch_content_types answers, or fails and the turn has no images.
KnowsTypes(t) ==
    /\ prelude[t].at = "typing" /\ t \in Running
    /\ prelude' \in {[prelude EXCEPT ![t] = NextImage(prelude[t], 1)],
                     [prelude EXCEPT ![t].at = "listing"]}
    /\ Resubmits(t)
    /\ UNCHANGED <<parse, waiting, orphans, extracted>>

\* fetch_original fails, or its bytes go to downscale_for_model.
FetchesImage(t) ==
    /\ prelude[t].at = "imaging" /\ t \in Running
    /\ \/ /\ Kind[prelude[t].ids[prelude[t].n]] # "absent"
          /\ prelude' = [prelude EXCEPT ![t].at = "shrinking"]
       \/ prelude' = [prelude EXCEPT ![t] = NextImage(prelude[t], prelude[t].n + 1)]
    /\ Resubmits(t)
    /\ UNCHANGED <<parse, waiting, orphans, extracted>>

\* downscale_for_model: a picture, or None (format, bomb, corrupt, too large).
Shrinks(t) ==
    /\ prelude[t].at = "shrinking" /\ t \in Running
    /\ LET d == prelude[t].ids[prelude[t].n] IN
       prelude' = [prelude EXCEPT ![t] = NextImage(
                      IF d \in Usable THEN [prelude[t] EXCEPT !.images = Append(@, d)] ELSE prelude[t],
                      prelude[t].n + 1)]
    /\ Resubmits(t)
    /\ UNCHANGED <<parse, waiting, orphans, extracted>>

\* list_chat_documents answers, or the turn's own documents are looked up.
ListsChat(t) ==
    /\ prelude[t].at = "listing" /\ t \in Running
    /\ \/ /\ ChatDocs # <<>>
          /\ prelude' = [prelude EXCEPT ![t].at = "ready",
                                     ![t].listed = ToSet(Take(ChatDocs, MAX_ATTACHMENTS_LISTED))]
          /\ JobDone(t)
       \/ /\ prelude[t].ids # <<>>
          /\ prelude' = [prelude EXCEPT ![t].at = "retyping"] /\ Resubmits(t)
       \/ prelude[t].ids = <<>> /\ prelude' = [prelude EXCEPT ![t].at = "ready"] /\ JobDone(t)
    /\ UNCHANGED <<parse, waiting, orphans, extracted>>

ListsAttached(t) ==
    /\ prelude[t].at = "retyping" /\ t \in Running
    /\ \E types \in {{}, ToSet(Attached(prelude[t]))} :
          prelude' = [prelude EXCEPT ![t].at = "ready", ![t].listed = types]
    /\ JobDone(t)
    /\ UNCHANGED <<parse, waiting, orphans, extracted>>

\* reread_attachment, one tool call on a thread of the executor; the prelude
\* has done its work by then.
Rereads(t) ==
    /\ prelude[t].at = "ready" /\ prelude[t].said = "none"
    /\ \E d \in Docs :
          prelude' = [prelude EXCEPT ![t] = [NewTurn EXCEPT !.at = "looking", !.ids = <<d>>]]
    /\ Resubmits(t)
    /\ UNCHANGED <<parse, waiting, orphans, extracted>>

\* No row, no viewable type, no picture, no vision answer, or an answer.
Looks(t) ==
    /\ prelude[t].at = "looking" /\ t \in Running /\ prelude[t].said = "none"
    /\ LET d == Head(prelude[t].ids) IN
       \E said \in {"unseen"} \union (IF d \in Images \intersect Usable THEN {"seen"} ELSE {}) :
          prelude' = [prelude EXCEPT ![t] = [NewTurn EXCEPT !.at = "ready", !.said = said]]
    /\ JobDone(t)
    /\ UNCHANGED <<parse, waiting, orphans, extracted>>

\* _vision_answer: the request is sent without a timeout.  One that is never
\* answered keeps the turn, and its thread, for ever.
VisionHangs(t) ==
    /\ prelude[t].at = "looking" /\ t \in Running /\ prelude[t].said = "none"
    /\ Head(prelude[t].ids) \in Images \intersect Usable /\ MayHang
    /\ prelude' = [prelude EXCEPT ![t].said = "hung"]
    /\ UNCHANGED <<parse, waiting, jobs, orphans, extracted>>

-----------------------------------------------------------------------------
ParseStep(r) == FetchesOriginal(r) \/ Acquires(r) \/ Converts(r) \/ TimesOut(r) \/ Stores(r)
TurnStep(t) == \/ ReadsText(t) \/ KnowsTypes(t) \/ FetchesImage(t) \/ Shrinks(t)
               \/ ListsChat(t) \/ ListsAttached(t) \/ Looks(t) \/ VisionHangs(t)
DocsRest == /\ \A r \in Parses : parse[r].at = "over"
            /\ \A t \in Turns : prelude[t].said # "none"
            /\ UNCHANGED docsVars

DocsNext == \/ \E r \in Parses : AsksToParse(r) \/ ParseStep(r) \/ OrphanEnds(r)
            \/ \E t \in Turns : TurnBegins(t) \/ TurnStep(t) \/ Rereads(t)
            \/ DocsRest

DocsSpec == DocsInit /\ [][DocsNext]_docsVars

(* Storage and metadata calls carry client timeouts, the conversion has    *)
(* wait_for, and an original docling can finish is finished.  A vision     *)
(* request is answered, fails or hangs: nothing bounds it, and nothing is  *)
(* assumed of it, nor of conversions that are stuck, except that at most   *)
(* MaxStuck of them hold a thread for ever.                                *)
Fairness == /\ \A r \in Parses : WF_docsVars(ParseStep(r)) /\ WF_docsVars(OrphanEnds(r))
            /\ \A t \in Turns : WF_docsVars(TurnStep(t))
FairSpec == DocsSpec /\ Fairness

-----------------------------------------------------------------------------
(* Properties.                                                             *)

(* The types of requests, queues and preludes.                             *)
DocsTypeOK ==
    /\ \A r \in Parses :
          /\ parse[r].at \in {"new", "fetching", "waiting", "parsing", "storing", "over"}
          /\ parse[r].doc \in Docs \union {NoDoc}
          /\ parse[r].answer \in {"none", "unauthorised", "error", "ready", "raised"}
    /\ ToSet(waiting) = {r \in Parses : parse[r].at = "waiting"}
    /\ IsInjective(jobs) /\ ToSet(jobs) \subseteq Parses \union Turns
    /\ orphans \subseteq Parses /\ extracted \subseteq Docs
    /\ \A t \in Turns : prelude[t].left \in 0 .. DOC_CHAR_BUDGET

(* Every parse is answered, every prelude gets to its graph and every look *)
(* at an image ends unless its own request is never answered, although     *)
(* conversions and vision requests may hold threads for ever: wait_for     *)
(* returns the slot, and as long as fewer of them hang than the executor   *)
(* has threads, the storage calls behind them still run                    *)
(* (document_parser.py:58-62, attachments.py:82-84).                       *)
Answered ==
    /\ \A r \in Parses : parse[r].at # "new" ~> parse[r].at = "over"
    /\ \A t \in Turns : prelude[t].at # "new" ~> prelude[t].at = "ready" \/ prelude[t].said = "hung"

(* A text is in storage only if a request stored it: a request that has    *)
(* answered "error" leaves nothing behind, also when its abandoned thread  *)
(* comes back with the text later (router.py:191-196).                     *)
ErrorStoresNothing ==
    \A d \in extracted : \E r \in Parses : parse[r].doc = d /\ parse[r].answer \in {"ready", "raised"}

(* A document reported ready before the turn began is in what the model is *)
(* given, unless reading it failed, sanitize leaves nothing of it, the     *)
(* texts before it used up the budget before it was reached, or they come, *)
(* with the separators, within a word of the budget that wrap enforces a   *)
(* second time (orchestrator.py:2725-2747).                                *)
Given(s, d) == \E p \in ToSet(s.text) : p.doc = d /\ (p.from < s.kept \/ p.chars = 0)
Crowded(s, d) == \E p \in ToSet(s.text) : p.doc = d /\ p.from + LongestWord >= DOC_CHAR_BUDGET
NotReached(s, d) == s.left = 0 /\ \A p \in ToSet(s.text) : p.doc # d

ReadyIsRead ==
    \A t \in Turns :
       prelude[t].at \notin {"new", "reading", "looking"} /\ prelude[t].said = "none" =>
        \A d \in ToSet(Attached(prelude[t])) \intersect prelude[t].ready :
            \/ d \in prelude[t].missed \/ Chars[d] = 0
            \/ Given(prelude[t], d) \/ Crowded(prelude[t], d) \/ NotReached(prelude[t], d)
=============================================================================
