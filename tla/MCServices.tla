---------------------------- MODULE MCServices ----------------------------
(***************************************************************************)
(* Seven services of the gateway side by side on small instances.  They    *)
(* share no state, so `part` picks one of them at the start and the others *)
(* stay as they began: every state of every service is reached, and none   *)
(* is multiplied by those of another.                                      *)
(***************************************************************************)
EXTENDS MCKnowledgeChat, Documents, Calendar, CalendarEvents, FundHealth, Gateway, Ledger

CONSTANTS
    p1, p2, t1, pdf, bad, txt, hung,    \* parses, a turn, documents
    c1, c2,                             \* calls and requests
    u1, a1, a2                          \* a user, attempts

VARIABLE part

all == <<part, vars, docsVars, tokenVars, eventVars, fundVars, gateVars, ledgerVars>>

-----------------------------------------------------------------------------
(* The instances, where the configuration cannot spell them out.           *)
DocKinds == [d \in Docs |-> CASE d = pdf -> "docling" [] d = bad -> "broken"
                              [] d = txt -> "textual" [] d = hung -> "stuck"]
DocChars == [d \in Docs |-> IF d = txt THEN 2 ELSE 3]
\* Ligatures of pdf are spelled out: its text grows by one character.
DocNormal == [d \in Docs |-> [n \in 0 .. DOC_CHAR_BUDGET |-> IF d = pdf /\ n > 0 THEN n + 1 ELSE n]]
DocLists == {<<>>, <<pdf, hung>>, <<txt, pdf>>}
DocRows == <<txt, pdf, hung>>

PollerFunds == <<{"a", "b"}, {"c"}>>
PollerLimits == <<2, 2>>
\* Tolerated ages exceed the rows, and a date is ahead of Today; of the days of
\* poller 1 one is fresh.
PollerDates == <<{1, 5}, {2}>>

\* What a request consumes: every kind in an amount of its own, so that no sum
\* comes out right by accident, or some of the kinds only.
Weights == [text |-> 1, audio |-> 2, write5m |-> 4, write1h |-> 8,
            read |-> 16, readAudio |-> 32, out |-> 64, thought |-> 128]
Consumptions == {Weights, [k \in Kinds |-> IF k \in {"text", "out"} THEN Weights[k] ELSE 0]}

-----------------------------------------------------------------------------
ServicesInit ==
    /\ part \in {"knowledge", "documents", "calendar", "events", "funds", "gateway", "ledger"}
    /\ Init /\ (part # "knowledge" => ~followUp)
    /\ DocsInit /\ TokenInit /\ EventInit /\ FundInit /\ GateInit /\ LedgerInit

KnowledgeStep ==
    /\ part = "knowledge" /\ Next
    /\ UNCHANGED <<part, docsVars, tokenVars, eventVars, fundVars, gateVars, ledgerVars>>
DocumentsStep ==
    /\ part = "documents" /\ DocsNext
    /\ UNCHANGED <<part, vars, tokenVars, eventVars, fundVars, gateVars, ledgerVars>>
CalendarStep ==
    /\ part = "calendar" /\ TokenNext
    /\ UNCHANGED <<part, vars, docsVars, eventVars, fundVars, gateVars, ledgerVars>>
EventsStep ==
    /\ part = "events" /\ EventNext
    /\ UNCHANGED <<part, vars, docsVars, tokenVars, fundVars, gateVars, ledgerVars>>
FundsStep ==
    /\ part = "funds" /\ FundNext
    /\ UNCHANGED <<part, vars, docsVars, tokenVars, eventVars, gateVars, ledgerVars>>
GatewayStep ==
    /\ part = "gateway" /\ GateNext
    /\ UNCHANGED <<part, vars, docsVars, tokenVars, eventVars, fundVars, ledgerVars>>
LedgerStep ==
    /\ part = "ledger" /\ LedgerNext
    /\ UNCHANGED <<part, vars, docsVars, tokenVars, eventVars, fundVars, gateVars>>

ServicesNext == KnowledgeStep \/ DocumentsStep \/ CalendarStep \/ EventsStep \/ FundsStep
                    \/ GatewayStep \/ LedgerStep

\* Fairness of Documents, which no other service needs.
ServicesFairness ==
    /\ \A r \in Parses : /\ WF_docsVars(part = "documents" /\ ParseStep(r))
                         /\ WF_docsVars(part = "documents" /\ OrphanEnds(r))
    /\ \A t \in Turns : WF_docsVars(part = "documents" /\ TurnStep(t))

ServicesSpec == ServicesInit /\ [][ServicesNext]_all /\ ServicesFairness

-----------------------------------------------------------------------------
(* Every service's state has its type.  The other properties of the run    *)
(* are those of the modules, each of its own service.                      *)
ServicesTypeOK ==
    /\ TypeOK /\ DocsTypeOK /\ TokenTypeOK /\ EventTypeOK
    /\ FundTypeOK /\ GateTypeOK /\ LedgerTypeOK
=============================================================================
