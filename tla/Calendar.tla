------------------------------ MODULE Calendar ------------------------------
(***************************************************************************)
(* The access token of tools/google_calendar.py for one user: the          *)
(* credentials row that core-chat's connect flow writes and this tool      *)
(* refreshes.                                                              *)
(*                                                                         *)
(* A call runs on a worker thread and each of its requests is a step, so   *)
(* calls, reconnections and time come between them.  Nothing bounds the    *)
(* time a call takes: REQUEST_TIMEOUT_S limits each wait of each request.  *)
(* A token is the grant it was issued for and the time it expires.         *)
(***************************************************************************)
EXTENDS Naturals, FiniteSets

CONSTANTS
    Calls,      \* tool calls
    MaxGrants,  \* bound on connections of an account, numbered from 1; 0 is none
    Buffer,     \* EXPIRY_BUFFER_S
    Life,       \* expires_in of a new access token
    MaxTime,    \* bound on the clock
    Unknown, NullExpiry   \* expiries that are not a time: missing or malformed, null

\* A new token is not due at once.
ASSUME TokenAssumption ==
    {MaxGrants, Buffer, Life, MaxTime} \subseteq Nat /\ Buffer < Life

VARIABLES
    clock,
    row,        \* google_credentials: the grant (0: no row), its token, the expiry as written
    call,       \* call[c]: a tool call
    \* history
    latest,     \* the newest connection and when it was made
    lag         \* the longest time from reading the row to the answer of a refresh

tokenVars == <<clock, row, call, latest, lag>>

Token(g, t) == [grant |-> g, expires |-> t]
NoRow == [grant |-> 0, token |-> Token(0, 0), expiry |-> 0]
\* since: when the call read the row, found its token good, or was given a new one.
NewCall == [at |-> "new", since |-> 0, creds |-> NoRow, token |-> Token(0, 0), answer |-> "none"]

TokenInit == /\ clock = 0 /\ row = NoRow /\ call = [c \in Calls |-> NewCall]
             /\ latest = [grant |-> 0, at |-> 0] /\ lag = 0

-----------------------------------------------------------------------------
(* The connect flow and time.                                              *)

\* The user connects (again): core-chat writes the whole row.
Connects ==
    /\ latest.grant < MaxGrants
    /\ latest' = [grant |-> latest.grant + 1, at |-> clock]
    /\ \E expiry \in {clock + Life, Unknown, NullExpiry} :
          row' = [grant |-> latest'.grant, token |-> Token(latest'.grant, clock + Life),
                  expiry |-> expiry]
    /\ UNCHANGED <<clock, call, lag>>

Tick ==
    /\ clock < MaxTime
    /\ clock' = clock + 1
    /\ UNCHANGED <<row, call, latest, lag>>

-----------------------------------------------------------------------------
(* _access_token.  Whatever is raised ends the call with a text: "connect" *)
(* for NotConnected, "error" for anything else.                            *)
CallAt(c, stage) == call' = [call EXCEPT ![c].at = stage]
Says(c, answer) == call' = [call EXCEPT ![c] = [NewCall EXCEPT !.at = "over", !.answer = answer]]

\* _load_credentials: a failure, no row, or the row.
Loads(c) ==
    /\ call[c].at = "new"
    /\ \/ Says(c, "error")
       \/ row.grant = 0 /\ Says(c, "connect")
       \/ /\ row.grant # 0
          /\ call' = [call EXCEPT ![c].at = "judging", ![c].creds = row, ![c].since = clock]
    /\ UNCHANGED <<clock, row, latest, lag>>

\* The call has its token, and what it read is forgotten.
HasToken(stage, token) == [NewCall EXCEPT !.at = stage, !.token = token, !.since = clock]

\* mutant of Due: no margin
DueAtExpiry(expiry) == expiry = Unknown \/ (expiry \in Nat /\ expiry < clock)

\* expiry <= now + buffer; an unknown one is taken for now
Due(expiry) == expiry = Unknown \/ (expiry \in Nat /\ expiry <= clock + Buffer)

\* fromisoformat(None) is a TypeError, which nothing catches here.
Judges(c) ==
    /\ call[c].at = "judging"
    /\ LET creds == call[c].creds IN
       \/ creds.expiry = NullExpiry /\ Says(c, "error")
       \/ Due(creds.expiry) /\ CallAt(c, "refreshing")
       \/ /\ creds.expiry # NullExpiry /\ ~Due(creds.expiry)
          /\ call' = [call EXCEPT ![c] = HasToken("using", creds.token)]
    /\ UNCHANGED <<clock, row, latest, lag>>

\* The token endpoint: 400 or 401, another failure, or an access token, which
\* was issued at some time before its answer arrives.
Refreshes(c) ==
    /\ call[c].at = "refreshing"
    /\ \/ (Says(c, "connect") \/ Says(c, "error")) /\ UNCHANGED lag
       \/ /\ \E issued \in call[c].since .. clock :
                call' = [call EXCEPT ![c] =
                            HasToken("saving", Token(call[c].creds.grant, issued + Life))]
          /\ lag' = IF lag < clock - call[c].since THEN clock - call[c].since ELSE lag
    /\ UNCHANGED <<clock, row, latest>>

\* The expiry that is written down is reckoned from the answer's arrival.
Reckoned(c) == call[c].since + Life

\* mutant of Saved: the refreshed credentials are written back whole
SavedWhole(c) ==
    [grant |-> call[c].token.grant, token |-> call[c].token, expiry |-> Reckoned(c)]

\* PATCH by user_id: the token and its expiry, whatever grant the row is of now.
Saved(c) == [row EXCEPT !.token = call[c].token, !.expiry = Reckoned(c)]

\* _save_access_token: a refused PATCH is logged; a request that raises ends
\* the call, with the row written or not.
Saves(c) ==
    /\ call[c].at = "saving"
    /\ row' \in {row, Saved(c)}
    /\ CallAt(c, "using") \/ Says(c, "error")
    /\ UNCHANGED <<clock, latest, lag>>

\* The events requests: an answer, 401, another failure.
AsksCalendar(c) ==
    /\ call[c].at = "using"
    /\ \E answer \in {"done", "connect", "error"} : Says(c, answer)
    /\ UNCHANGED <<clock, row, latest, lag>>

-----------------------------------------------------------------------------
TokenRest == (\A c \in Calls : call[c].at = "over") /\ UNCHANGED tokenVars

TokenNext == \/ Connects \/ Tick \/ TokenRest
             \/ \E c \in Calls : \/ Loads(c) \/ Judges(c) \/ Refreshes(c) \/ Saves(c)
                                 \/ AsksCalendar(c)

TokenSpec == TokenInit /\ [][TokenNext]_tokenVars

-----------------------------------------------------------------------------
(* Properties.                                                             *)

Using == {c \in Calls : call[c].at = "using"}

(* The row and the calls are of the right kinds.                           *)
TokenTypeOK ==
    /\ clock \in 0 .. MaxTime /\ row.grant \in 0 .. MaxGrants /\ lag \in 0 .. clock
    /\ latest.grant \in 0 .. MaxGrants /\ latest.at \in 0 .. clock
    /\ row.expiry \in Nat \union {Unknown, NullExpiry}
    /\ \A c \in Calls : /\ call[c].at \in {"new", "judging", "refreshing", "saving", "using", "over"}
                        /\ call[c].token.grant \in 0 .. MaxGrants

(* A token a call has found good, or been given, is good for the margin    *)
(* from then on, less the longest time a refresh has taken: by that much   *)
(* the expiry in the row may be later than the token's.  Whichever call    *)
(* wrote the row, no request sent within that time is refused for its age. *)
GoodForMargin ==
    \A c \in Using : clock + lag <= call[c].since + Buffer => clock < call[c].token.expires

(* A reconnection is never undone, and a token of an older connection, in  *)
(* the row or in use, ends one token's life after it at the latest, or     *)
(* later by the time of a refresh that was under way when the user         *)
(* reconnected and has put its token into the new row.                     *)
OldGrantFades ==
    /\ row.grant = latest.grant
    /\ \A token \in {row.token} \union {call[c].token : c \in Using} :
          token.grant # latest.grant => token.expires <= latest.at + lag + Life

=============================================================================
