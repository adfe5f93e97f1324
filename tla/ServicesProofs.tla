--------------------------- MODULE ServicesProofs ---------------------------
(***************************************************************************)
(* The services of the gateway side, which share no state:                 *)
(*   - the access tokens of the calendar tools, for any number of calls    *)
(*     and connections and however long each takes; and the dates of an    *)
(*     event, which stay as approved for any set of days, as long as the   *)
(*     calendar's time zone can be read;                                   *)
(*   - the scopes of the gateway, for any number of users, requests and    *)
(*     changes of who is an admin;                                         *)
(*   - the rows of the ledger, which add up whatever the requests consume: *)
(*     the runs try two consumptions, here they are any numbers;           *)
(*   - the health of the fund pollers, for any funds, dates, tolerated     *)
(*     ages and limits on the rows of an answer that hold the fresh ones;  *)
(*   - and, with the two services of KnowledgeProofs, all seven side by    *)
(*     side, as the run services composes them.                            *)
(***************************************************************************)
EXTENDS MCServices, KnowledgeProofs, SetLemmas

-----------------------------------------------------------------------------
(* Access tokens.                                                          *)

TokenStages == {"new", "judging", "refreshing", "saving", "using", "over"}
TokenAnswers == {"none", "connect", "error", "done"}
Times == Nat
TokenType == [grant : Nat, expires : Times]
RowType == [grant : Nat, token : TokenType, expiry : Times \union {Unknown, NullExpiry}]
TokenCall == [at : TokenStages, since : Times, creds : RowType, token : TokenType, answer : TokenAnswers]

Typed == /\ clock \in Times /\ row \in RowType /\ latest \in [grant : Nat, at : Times]
         /\ call \in [Calls -> TokenCall] /\ lag \in Nat

\* At time t, with the newest connection l and refreshes that took g at most: a
\* token is of that connection, or was asked for by a call that had read its row
\* before it.
Fades(token, t, l, g) ==
    /\ token.expires <= t + Life
    /\ token.grant = l.grant \/ token.expires <= l.at + g + Life

\* A usable expiry is later than the token's by a refresh at most.
CredsKept(r, t, l, g) ==
    /\ Fades(r.token, t, l, g)
    /\ r.expiry \notin {Unknown, NullExpiry} => r.expiry <= r.token.expires + g

\* The row is of the newest connection.
RowKept(r, t, l, g) == r.grant = l.grant /\ CredsKept(r, t, l, g)

\* What a call x has read is a row as it was: of the newest grant, unless it was
\* read before the connection.
Judging(x, t, l, g) ==
    x.at \in {"judging", "refreshing"} =>
       /\ x.since <= t /\ CredsKept(x.creds, t, l, g)
       /\ x.creds.grant = l.grant \/ x.since <= l.at

\* The token it holds had the margin when it got it, up to a refresh's time.
Holds(x, t, l, g) ==
    x.at \in {"saving", "using"} =>
       /\ x.since <= t /\ Fades(x.token, t, l, g)
       /\ x.since + Buffer < x.token.expires + g

\* A token about to be written down had all its life.
Brings(x, g) == x.at = "saving" => x.since + Life <= x.token.expires + g

CallKept(x, t, l, g) == Judging(x, t, l, g) /\ Holds(x, t, l, g) /\ Brings(x, g)

(* The inductive invariant.                                                *)
TokenInv == /\ Typed /\ RowKept(row, clock, latest, lag) /\ latest.at <= clock /\ lag <= clock
            /\ \A c \in Calls : CallKept(call[c], clock, latest, lag)

-----------------------------------------------------------------------------
(* What is kept stays kept as time passes and refreshes take longer.       *)

LEMMA FadesLater ==
  ASSUME NEW token \in TokenType, NEW l \in [grant : Nat, at : Times],
         NEW t \in Nat, NEW u \in Nat, NEW g \in Nat, NEW h \in Nat,
         t <= u, g <= h, Fades(token, t, l, g)
  PROVE  Fades(token, u, l, h)
  <1>1. token.expires \in Nat /\ l.at \in Nat /\ token.expires <= t + Life
    BY DEF TokenType, Times, Fades
  <1>2. token.expires <= u + Life
    BY <1>1, TokenAssumption
  <1>3. token.expires <= l.at + g + Life => token.expires <= l.at + h + Life
    BY <1>1, TokenAssumption
  <1> QED
    BY <1>2, <1>3 DEF Fades

LEMMA CredsLater ==
  ASSUME NEW r \in RowType, NEW l \in [grant : Nat, at : Times],
         NEW t \in Nat, NEW u \in Nat, NEW g \in Nat, NEW h \in Nat,
         t <= u, g <= h, CredsKept(r, t, l, g)
  PROVE  CredsKept(r, u, l, h)
  <1>1. r.token \in TokenType /\ r.token.expires \in Nat
    BY DEF RowType, TokenType, Times
  <1>2. Fades(r.token, u, l, h)
    BY <1>1, FadesLater DEF CredsKept
  <1>3. ASSUME r.expiry \notin {Unknown, NullExpiry}
        PROVE  r.expiry <= r.token.expires + h
    <2>1. r.expiry \in Nat /\ r.expiry <= r.token.expires + g
      BY <1>3 DEF RowType, Times, CredsKept
    <2> QED
      BY <1>1, <2>1
  <1> QED
    BY <1>2, <1>3 DEF CredsKept

LEMMA CallLater ==
  ASSUME NEW x \in TokenCall, NEW l \in [grant : Nat, at : Times],
         NEW t \in Nat, NEW u \in Nat, NEW g \in Nat, NEW h \in Nat,
         t <= u, g <= h, CallKept(x, t, l, g)
  PROVE  CallKept(x, u, l, h)
  <1>1. x.since \in Nat /\ x.token \in TokenType /\ x.token.expires \in Nat /\ x.creds \in RowType
    BY DEF TokenCall, TokenType, Times
  <1>2. x.since <= t => x.since <= u
    BY <1>1
  <1>3. Judging(x, u, l, h)
    BY <1>1, <1>2, CredsLater DEF CallKept, Judging
  <1>4. x.since + Buffer < x.token.expires + g => x.since + Buffer < x.token.expires + h
    BY <1>1, TokenAssumption
  <1>5. Holds(x, u, l, h)
    BY <1>1, <1>2, <1>4, FadesLater DEF CallKept, Holds
  <1>6. x.since + Life <= x.token.expires + g => x.since + Life <= x.token.expires + h
    BY <1>1, TokenAssumption
  <1>7. Brings(x, h)
    BY <1>6 DEF CallKept, Brings
  <1> QED
    BY <1>3, <1>5, <1>7 DEF CallKept

-----------------------------------------------------------------------------
(* The step of one call, which leaves the others alone.                    *)
LEMMA OneCallKeepsToken ==
  ASSUME TokenInv, NEW c \in Calls, NEW x \in TokenCall, call' = [call EXCEPT ![c] = x],
         UNCHANGED <<clock, latest>>, row' \in RowType, lag' \in Nat, lag <= lag', lag' <= clock,
         RowKept(row', clock, latest, lag'), CallKept(x, clock, latest, lag')
  PROVE  TokenInv'
  <1>1. \A d \in Calls : call'[d] = IF d = c THEN x ELSE call[d]
    BY DEF TokenInv, Typed
  <1>2. /\ clock \in Nat /\ clock <= clock /\ lag \in Nat /\ latest \in [grant : Nat, at : Times]
        /\ \A d \in Calls : call[d] \in TokenCall /\ CallKept(call[d], clock, latest, lag)
    BY DEF TokenInv, Typed, Times
  <1>3. \A d \in Calls : CallKept(call[d], clock, latest, lag')
    BY <1>2, CallLater
  <1>4. \A d \in Calls : CallKept(call'[d], clock, latest, lag')
    BY <1>1, <1>3, Zenon
  <1>5. Typed'
    BY DEF TokenInv, Typed
  <1> QED
    BY <1>4, <1>5 DEF TokenInv

\* An answer ends a call.
LEMMA AnswerKeepsToken ==
  ASSUME TokenInv, NEW c \in Calls, NEW reply \in TokenAnswers, Says(c, reply),
         UNCHANGED <<clock, latest, lag>>, row' \in RowType, RowKept(row', clock, latest, lag)
  PROVE  TokenInv'
  <1> DEFINE x == [NewCall EXCEPT !.at = "over", !.answer = reply]
  <1>1. NewCall \in TokenCall
    BY DEF NewCall, NoRow, Token, TokenCall, RowType, TokenType, TokenStages, TokenAnswers, Times
  <1>2. x \in TokenCall /\ x.at = "over"
    BY <1>1 DEF TokenCall, TokenStages
  <1>3. call' = [call EXCEPT ![c] = x]
    BY DEF Says
  <1> HIDE DEF x
  <1>4. CallKept(x, clock, latest, lag)
    BY <1>2 DEF CallKept, Judging, Holds, Brings
  <1>5. lag \in Nat /\ lag <= lag /\ lag <= clock
    BY DEF TokenInv, Typed
  <1> QED
    BY <1>2, <1>3, <1>4, <1>5, OneCallKeepsToken

\* A call is given a token.
LEMMA TokenIsHeld ==
  ASSUME NEW stage \in {"saving", "using"}, NEW token \in TokenType, clock \in Times
  PROVE  /\ HasToken(stage, token) \in TokenCall /\ HasToken(stage, token).at = stage
         /\ HasToken(stage, token).since = clock /\ HasToken(stage, token).token = token
         /\ HasToken(stage, token).creds = NoRow
  <1>1. NewCall \in TokenCall /\ NewCall.creds = NoRow
    BY DEF NewCall, NoRow, Token, TokenCall, RowType, TokenType, TokenStages, TokenAnswers, Times
  <1> QED
    BY <1>1 DEF HasToken, TokenCall, TokenStages

\* The row is read with the clock it is read at.
LEMMA LoadsKeepsToken ==
  ASSUME TokenInv, NEW c \in Calls, Loads(c)
  PROVE  TokenInv'
  <1>1. /\ call[c] \in TokenCall /\ row \in RowType /\ RowKept(row, clock, latest, lag)
        /\ lag \in Nat /\ lag <= lag /\ lag <= clock /\ clock \in Times
        /\ UNCHANGED <<clock, row, latest, lag>>
    BY DEF Loads, TokenInv, Typed
  <1>2. CASE \E reply \in {"error", "connect"} : Says(c, reply)
    BY <1>1, <1>2, AnswerKeepsToken DEF TokenAnswers
  <1>3. CASE call' = [call EXCEPT ![c].at = "judging", ![c].creds = row, ![c].since = clock]
    <2> DEFINE x == [call[c] EXCEPT !.at = "judging", !.creds = row, !.since = clock]
    <2>1. x \in TokenCall /\ x.at = "judging" /\ x.since = clock /\ x.creds = row
      BY <1>1 DEF TokenCall, TokenStages
    <2>2. call' = [call EXCEPT ![c] = x]
      BY <1>3
    <2> HIDE DEF x
    <2>3. clock <= clock
      BY <1>1 DEF Times
    <2>4. CallKept(x, clock, latest, lag)
      BY <1>1, <2>1, <2>3 DEF CallKept, Judging, Holds, Brings, RowKept
    <2> QED
      BY <1>1, <2>1, <2>2, <2>4, OneCallKeepsToken
  <1> QED
    BY <1>2, <1>3 DEF Loads

\* A token that is not due has the margin.
LEMMA JudgesKeepsToken ==
  ASSUME TokenInv, NEW c \in Calls, Judges(c)
  PROVE  TokenInv'
  <1> DEFINE creds == call[c].creds
  <1>1. /\ call[c] \in TokenCall /\ call[c].at = "judging" /\ creds \in RowType
        /\ row \in RowType /\ RowKept(row, clock, latest, lag)
        /\ lag \in Nat /\ lag <= lag /\ lag <= clock /\ clock \in Nat /\ clock <= clock
        /\ UNCHANGED <<clock, row, latest, lag>>
    BY DEF Judges, TokenInv, Typed, TokenCall, Times
  <1>2. /\ call[c].since <= clock /\ CredsKept(creds, clock, latest, lag)
        /\ creds.grant = latest.grant \/ call[c].since <= latest.at
    BY <1>1 DEF TokenInv, CallKept, Judging
  <1>3. CASE Says(c, "error")
    BY <1>1, <1>3, AnswerKeepsToken DEF TokenAnswers
  <1>4. CASE CallAt(c, "refreshing")
    <2> DEFINE x == [call[c] EXCEPT !.at = "refreshing"]
    <2>1. /\ x \in TokenCall /\ x.at = "refreshing" /\ x.since = call[c].since
          /\ x.creds = creds
      BY <1>1 DEF TokenCall, TokenStages
    <2>2. call' = [call EXCEPT ![c] = x]
      BY <1>4 DEF CallAt
    <2> HIDE DEF x, creds
    <2>3. CallKept(x, clock, latest, lag)
      BY <1>2, <2>1 DEF CallKept, Judging, Holds, Brings
    <2> QED
      BY <1>1, <2>1, <2>2, <2>3, OneCallKeepsToken
  <1>5. CASE /\ creds.expiry # NullExpiry /\ ~Due(creds.expiry)
             /\ call' = [call EXCEPT ![c] = HasToken("using", creds.token)]
    <2> DEFINE x == HasToken("using", creds.token)
    <2>1. creds.token \in TokenType /\ creds.expiry \in Nat \union {Unknown, NullExpiry}
      BY <1>1 DEF RowType, Times
    <2>2. creds.expiry \in Nat /\ clock + Buffer < creds.expiry /\ creds.token.expires \in Nat
      <3>1. creds.expiry \in Nat /\ ~(creds.expiry <= clock + Buffer)
        BY <1>5, <2>1 DEF Due
      <3> QED
        BY <1>1, <2>1, <3>1, TokenAssumption DEF TokenType, Times
    <2>3. creds.expiry <= creds.token.expires + lag
      BY <1>2, <1>5, <2>2 DEF CredsKept, Due
    <2>4. clock + Buffer < creds.token.expires + lag
      BY <1>1, <2>2, <2>3, TokenAssumption
    <2>5. /\ x \in TokenCall /\ x.at = "using" /\ x.since = clock /\ x.token = creds.token
      BY <1>1, <2>1, TokenIsHeld DEF Times
    <2>6. call' = [call EXCEPT ![c] = x]
      BY <1>5
    <2> HIDE DEF x, creds
    <2>7. CallKept(x, clock, latest, lag)
      BY <1>1, <1>2, <2>4, <2>5 DEF CallKept, Judging, Holds, Brings, CredsKept
    <2> QED
      BY <1>1, <2>5, <2>6, <2>7, OneCallKeepsToken
  <1> QED
    BY <1>3, <1>4, <1>5 DEF Judges

\* A refreshed token is of the grant the call has read, and had all its life when
\* it was issued, which is no longer ago than the row was read.
LEMMA RefreshesKeepsToken ==
  ASSUME TokenInv, NEW c \in Calls, Refreshes(c)
  PROVE  TokenInv'
  <1>1. /\ call[c] \in TokenCall /\ call[c].at = "refreshing"
        /\ row \in RowType /\ RowKept(row, clock, latest, lag)
        /\ latest \in [grant : Nat, at : Times] /\ latest.at \in Nat
        /\ lag \in Nat /\ lag <= clock /\ clock \in Nat /\ clock <= clock
        /\ UNCHANGED <<clock, row, latest>>
    BY DEF Refreshes, TokenInv, Typed, Times
  <1>2. /\ call[c].since \in Nat /\ call[c].since <= clock
        /\ call[c].creds.grant \in Nat
        /\ call[c].creds.grant = latest.grant \/ call[c].since <= latest.at
    BY <1>1 DEF TokenInv, CallKept, Judging, TokenCall, RowType, Times
  <1>3. CASE (\E reply \in {"error", "connect"} : Says(c, reply)) /\ UNCHANGED lag
    BY <1>1, <1>3, AnswerKeepsToken DEF TokenAnswers
  <1>4. ASSUME NEW issued \in call[c].since .. clock,
               call' = [call EXCEPT ![c] =
                            HasToken("saving", Token(call[c].creds.grant, issued + Life))],
               lag' = IF lag < clock - call[c].since THEN clock - call[c].since ELSE lag
        PROVE  TokenInv'
    <2> DEFINE t == issued + Life
               token == Token(call[c].creds.grant, t)
               x == HasToken("saving", token)
    <2>1. issued \in Nat /\ call[c].since <= issued /\ issued <= clock /\ t \in Nat
      BY <1>1, <1>2, TokenAssumption
    <2>2. lag' \in Nat /\ lag <= lag' /\ lag' <= clock /\ clock <= call[c].since + lag'
      BY <1>1, <1>2, <1>4
    <2>3. t <= clock + Life /\ clock + Life <= t + lag'
      BY <1>1, <1>2, <2>1, <2>2, TokenAssumption
    <2>4. clock + Buffer < t + lag'
      BY <1>1, <2>1, <2>2, <2>3, TokenAssumption
    <2>5. call[c].since <= latest.at => t <= latest.at + lag' + Life
      BY <1>1, <1>2, <2>1, <2>2, TokenAssumption
    <2> HIDE DEF t
    <2>6. token \in TokenType /\ token.grant = call[c].creds.grant /\ token.expires = t
      BY <1>2, <2>1 DEF Token, TokenType, Times
    <2>7. call' = [call EXCEPT ![c] = x]
      BY <1>4 DEF t
    <2> HIDE DEF token
    <2>8. x \in TokenCall /\ x.at = "saving" /\ x.since = clock /\ x.token = token
      BY <1>1, <2>6, TokenIsHeld DEF Times
    <2> HIDE DEF x
    <2>9. Fades(token, clock, latest, lag')
      BY <1>2, <2>3, <2>5, <2>6 DEF Fades
    <2>10. CallKept(x, clock, latest, lag')
      BY <1>1, <2>3, <2>4, <2>6, <2>8, <2>9 DEF CallKept, Judging, Holds, Brings
    <2>11. RowKept(row, clock, latest, lag')
      BY <1>1, <2>2, CredsLater DEF RowKept
    <2> QED
      BY <1>1, <2>2, <2>7, <2>8, <2>10, <2>11, OneCallKeepsToken
  <1> QED
    BY <1>3, <1>4 DEF Refreshes

\* The token goes into the row, whose grant stays.
LEMMA SavesKeepsToken ==
  ASSUME TokenInv, NEW c \in Calls, Saves(c)
  PROVE  TokenInv'
  <1>1. /\ call[c] \in TokenCall /\ call[c].at = "saving" /\ CallKept(call[c], clock, latest, lag)
        /\ row \in RowType /\ RowKept(row, clock, latest, lag)
        /\ lag \in Nat /\ lag <= lag /\ lag <= clock
        /\ UNCHANGED <<clock, latest, lag>>
    BY DEF Saves, TokenInv, Typed
  <1>2. Saved(c) \in RowType /\ RowKept(Saved(c), clock, latest, lag)
    <2>1. call[c].since + Life \in Nat /\ call[c].token \in TokenType
      BY <1>1, TokenAssumption DEF TokenCall, Times
    <2>2. /\ Saved(c) \in RowType /\ Saved(c).grant = row.grant
          /\ Saved(c).token = call[c].token /\ Saved(c).expiry = call[c].since + Life
      BY <1>1, <2>1 DEF Saved, Reckoned, RowType, Times
    <2> QED
      BY <1>1, <2>2 DEF RowKept, CredsKept, CallKept, Holds, Brings
  <1>3. row' \in RowType /\ RowKept(row', clock, latest, lag)
    BY <1>1, <1>2 DEF Saves
  <1>4. CASE Says(c, "error")
    BY <1>1, <1>3, <1>4, AnswerKeepsToken DEF TokenAnswers
  <1>5. CASE CallAt(c, "using")
    <2> DEFINE x == [call[c] EXCEPT !.at = "using"]
    <2>1. /\ x \in TokenCall /\ x.at = "using" /\ x.since = call[c].since
          /\ x.token = call[c].token
      BY <1>1 DEF TokenCall, TokenStages
    <2>2. call' = [call EXCEPT ![c] = x]
      BY <1>5 DEF CallAt
    <2> HIDE DEF x
    <2>3. CallKept(x, clock, latest, lag)
      BY <1>1, <2>1 DEF CallKept, Judging, Holds, Brings
    <2> QED
      BY <1>1, <1>3, <2>1, <2>2, <2>3, OneCallKeepsToken
  <1> QED
    BY <1>4, <1>5 DEF Saves

\* The request to the calendar ends the call.
LEMMA UsesKeepsToken ==
  ASSUME TokenInv, NEW c \in Calls, AsksCalendar(c)
  PROVE  TokenInv'
  <1>1. /\ UNCHANGED <<clock, row, latest, lag>>
        /\ row \in RowType /\ RowKept(row, clock, latest, lag)
    BY DEF AsksCalendar, TokenInv, Typed
  <1> QED
    BY <1>1, AnswerKeepsToken DEF AsksCalendar, TokenAnswers

-----------------------------------------------------------------------------
(* A connection and the clock, which every call sees.                      *)

\* A token there is when the user connects ends within a life of now.
LEMMA FadesFromNow ==
  ASSUME NEW token \in TokenType, NEW l, NEW m \in [grant : Nat, at : Times],
         NEW t \in Nat, NEW g \in Nat, m.at = t, Fades(token, t, l, g)
  PROVE  Fades(token, t, m, g)
  <1>1. token.expires \in Nat /\ token.expires <= t + Life
    BY DEF TokenType, Times, Fades
  <1>2. token.expires <= t + g + Life
    BY <1>1, TokenAssumption
  <1> QED
    BY <1>1, <1>2 DEF Fades

LEMMA ConnectsKeepsToken ==
  ASSUME TokenInv, Connects
  PROVE  TokenInv'
  <1> DEFINE g == latest.grant + 1
             t == clock + Life
  <1>1. /\ clock \in Nat /\ latest.grant \in Nat /\ latest.at \in Nat /\ latest.at <= clock
        /\ g \in Nat /\ t \in Times /\ lag \in Nat /\ lag <= clock
    BY TokenAssumption DEF TokenInv, Typed, Times
  <1>2. PICK expiry \in {t, Unknown, NullExpiry} :
           row' = [grant |-> g, token |-> Token(g, t), expiry |-> expiry]
    BY DEF Connects
  <1>3. latest' = [grant |-> g, at |-> clock] /\ UNCHANGED <<clock, call, lag>>
    BY DEF Connects
  <1>4. t <= clock + Life /\ t <= t + lag /\ clock <= clock
    BY <1>1, TokenAssumption DEF Times
  <1> HIDE DEF g, t
  <1>5. Token(g, t) \in TokenType /\ Token(g, t).grant = g /\ Token(g, t).expires = t
    BY <1>1 DEF Token, TokenType
  <1>6. /\ row' \in RowType /\ row'.grant = g /\ row'.token = Token(g, t)
        /\ row'.expiry = expiry
    BY <1>1, <1>2, <1>5 DEF RowType
  <1>7. latest'.grant = g /\ latest'.at = clock /\ latest' \in [grant : Nat, at : Times]
    BY <1>1, <1>3 DEF Times
  <1>8. RowKept(row', clock, latest', lag)
    BY <1>2, <1>4, <1>5, <1>6, <1>7 DEF RowKept, CredsKept, Fades
  <1>9. ASSUME NEW c \in Calls
        PROVE  CallKept(call[c], clock, latest', lag)
    <2>1. CallKept(call[c], clock, latest, lag) /\ call[c] \in TokenCall
      BY DEF TokenInv, Typed
    <2>2. call[c].token \in TokenType /\ call[c].creds.token \in TokenType
      BY <2>1 DEF TokenCall, RowType
    <2>3. Judging(call[c], clock, latest', lag)
      BY <1>1, <1>7, <2>1, <2>2, FadesFromNow DEF CallKept, Judging, CredsKept
    <2>4. Holds(call[c], clock, latest', lag)
      BY <1>1, <1>7, <2>1, <2>2, FadesFromNow DEF CallKept, Holds
    <2> QED
      BY <2>1, <2>3, <2>4 DEF CallKept
  <1>10. Typed'
    BY <1>1, <1>3, <1>6, <1>7 DEF TokenInv, Typed
  <1> QED
    BY <1>1, <1>3, <1>4, <1>7, <1>8, <1>9, <1>10 DEF TokenInv

\* Time passes whatever the calls do.
LEMMA TickKeepsToken ==
  ASSUME TokenInv, Tick
  PROVE  TokenInv'
  <1> DEFINE t == clock + 1
  <1>1. /\ clock \in Nat /\ lag \in Nat /\ lag <= lag /\ lag <= clock /\ row \in RowType
        /\ latest \in [grant : Nat, at : Times] /\ latest.at \in Nat /\ latest.at <= clock
        /\ \A c \in Calls : call[c] \in TokenCall /\ CallKept(call[c], clock, latest, lag)
    BY DEF TokenInv, Typed, Times
  <1>2. clock' = t /\ UNCHANGED <<row, latest, call, lag>>
    BY DEF Tick
  <1>3. t \in Nat /\ clock <= t /\ latest.at <= t /\ lag <= t
    BY <1>1
  <1> HIDE DEF t
  <1>4. \A c \in Calls : CallKept(call[c], t, latest, lag)
    BY <1>1, <1>3, CallLater
  <1>5. RowKept(row, t, latest, lag)
    BY <1>1, <1>3, CredsLater DEF TokenInv, RowKept
  <1>6. Typed'
    BY <1>2, <1>3 DEF TokenInv, Typed, Times
  <1> QED
    BY <1>2, <1>3, <1>4, <1>5, <1>6 DEF TokenInv

-----------------------------------------------------------------------------
\* Nothing is connected and no call has begun.
LEMMA InitKeepsToken ==
  ASSUME TokenInit
  PROVE  TokenInv
  <1>1. Token(0, 0) \in TokenType /\ Token(0, 0).grant = 0 /\ Token(0, 0).expires = 0
    BY DEF Token, TokenType, Times
  <1>2. /\ NoRow \in RowType /\ NoRow.grant = 0 /\ NoRow.token = Token(0, 0) /\ NoRow.expiry = 0
    BY <1>1 DEF NoRow, RowType, Times
  <1>3. NewCall \in TokenCall /\ NewCall.at = "new"
    BY <1>1, <1>2 DEF NewCall, TokenCall, TokenStages, TokenAnswers, Times
  <1>4. 0 <= 0 + Life /\ 0 <= 0 /\ 0 <= 0 + 0
    BY TokenAssumption
  <1>5. RowKept(row, clock, latest, lag)
    BY <1>1, <1>2, <1>4 DEF TokenInit, RowKept, CredsKept, Fades
  <1>6. \A c \in Calls : CallKept(call[c], clock, latest, lag)
    BY <1>3 DEF TokenInit, CallKept, Judging, Holds, Brings
  <1>7. Typed
    BY <1>2, <1>3 DEF TokenInit, Typed, Times
  <1> QED
    BY <1>4, <1>5, <1>6, <1>7 DEF TokenInit, TokenInv

\* Every step keeps the invariant.
LEMMA NextKeepsToken ==
  ASSUME TokenInv, [TokenNext]_tokenVars
  PROVE  TokenInv'
  <1>1. CASE UNCHANGED tokenVars \/ TokenRest
    BY <1>1 DEF tokenVars, TokenRest, TokenInv, Typed
  <1> QED
    BY <1>1, ConnectsKeepsToken, TickKeepsToken, LoadsKeepsToken, JudgesKeepsToken,
       RefreshesKeepsToken, SavesKeepsToken, UsesKeepsToken DEF TokenNext

-----------------------------------------------------------------------------
(* A request to the Calendar API that is sent within the margin of the     *)
(* moment its call had the token, less the longest time a refresh has      *)
(* taken, carries a token that has not expired (_access_token of           *)
(* tools/google_calendar.py), for any calls, however long they and their   *)
(* requests take, and any connections.                                     *)
THEOREM TokensGoodForMargin == TokenSpec => []GoodForMargin
  <1>1. TokenInit => TokenInv
    BY InitKeepsToken
  <1>2. TokenInv /\ [TokenNext]_tokenVars => TokenInv'
    BY NextKeepsToken
  <1>3. TokenInv => GoodForMargin
    <2> SUFFICES ASSUME TokenInv, NEW c \in Using, clock + lag <= call[c].since + Buffer
                 PROVE  clock < call[c].token.expires
      BY DEF GoodForMargin
    <2>1. /\ call[c].at = "using" /\ CallKept(call[c], clock, latest, lag)
          /\ call[c] \in TokenCall
      BY DEF Using, TokenInv, Typed
    <2>2. /\ clock \in Nat /\ lag \in Nat
          /\ call[c].since \in Nat /\ call[c].token.expires \in Nat
          /\ call[c].since + Buffer < call[c].token.expires + lag
      BY <2>1 DEF CallKept, Holds, TokenCall, TokenType, Times, TokenInv, Typed
    <2> QED
      BY <2>2, TokenAssumption
  <1> QED
    BY <1>1, <1>2, <1>3, PTL DEF TokenSpec

(* A connection that has been replaced leaves no token that ends later     *)
(* than one life after the reconnection, plus the time of a refresh that   *)
(* was under way then and may put its token into the new row               *)
(* (_save_access_token patches by user_id), for any calls, connections     *)
(* and times; and the row stays the new connection's.                      *)
THEOREM OldGrantAlwaysFades == TokenSpec => []OldGrantFades
  <1>1. TokenInit => TokenInv
    BY InitKeepsToken
  <1>2. TokenInv /\ [TokenNext]_tokenVars => TokenInv'
    BY NextKeepsToken
  <1>3. TokenInv => OldGrantFades
    <2> SUFFICES ASSUME TokenInv
                 PROVE  OldGrantFades
      OBVIOUS
    <2>1. row.grant = latest.grant /\ Fades(row.token, clock, latest, lag)
      BY DEF TokenInv, RowKept, CredsKept
    <2>2. \A c \in Using : Fades(call[c].token, clock, latest, lag)
      BY DEF Using, TokenInv, CallKept, Holds
    <2> QED
      BY <2>1, <2>2 DEF OldGrantFades, Fades
  <1> QED
    BY <1>1, <1>2, <1>3, PTL DEF TokenSpec

-----------------------------------------------------------------------------
(* Grants and times within their bounds.                                   *)

\* Every grant in use is one that was made, and the clock stops at its bound.
Granted(x) ==
    /\ x.creds.grant <= MaxGrants /\ x.creds.token.grant <= MaxGrants
    /\ x.token.grant <= MaxGrants

TokenBounds ==
    /\ clock <= MaxTime /\ latest.grant <= MaxGrants /\ row.token.grant <= MaxGrants
    /\ \A c \in Calls : Granted(call[c])

LEMMA OneCallKeepsBounds ==
  ASSUME TokenInv, TokenBounds, NEW c \in Calls, NEW x \in TokenCall, call' = [call EXCEPT ![c] = x],
         UNCHANGED <<clock, latest>>, row'.token.grant <= MaxGrants, Granted(x)
  PROVE  TokenBounds'
  <1>1. \A d \in Calls : call'[d] = IF d = c THEN x ELSE call[d]
    BY DEF TokenInv, Typed
  <1>2. \A d \in Calls : Granted(call'[d])
    BY <1>1 DEF TokenBounds
  <1> QED
    BY <1>2 DEF TokenBounds

\* No row and a new call are of no grant.
LEMMA NothingGranted ==
  /\ NoRow \in RowType /\ NoRow.grant = 0 /\ NoRow.token.grant = 0
  /\ NewCall \in TokenCall /\ NewCall.creds = NoRow /\ NewCall.token.grant = 0
  /\ Granted(NewCall)
  <1>1. Token(0, 0) \in TokenType /\ Token(0, 0).grant = 0
    BY DEF Token, TokenType, Times
  <1>2. NoRow \in RowType /\ NoRow.grant = 0 /\ NoRow.token.grant = 0
    BY <1>1 DEF NoRow, RowType, Times
  <1>3. NewCall \in TokenCall /\ NewCall.creds = NoRow /\ NewCall.token.grant = 0
    BY <1>1, <1>2 DEF NewCall, TokenCall, TokenStages, TokenAnswers, Times
  <1> QED
    BY <1>2, <1>3, TokenAssumption DEF Granted

\* A call holds tokens of the row it has read or of its grant.
LEMMA CallKeepsBounds ==
  ASSUME TokenInv, TokenBounds, NEW c \in Calls,
         Loads(c) \/ Judges(c) \/ Refreshes(c) \/ Saves(c) \/ AsksCalendar(c)
  PROVE  TokenBounds'
  <1>1. /\ call[c] \in TokenCall /\ row \in RowType /\ clock \in Nat /\ Granted(call[c])
        /\ row.grant <= MaxGrants /\ row.token.grant <= MaxGrants
        /\ call[c].token \in TokenType /\ call[c].creds \in RowType /\ row.token \in TokenType
        /\ call[c].creds.token \in TokenType /\ call[c].since \in Nat
    BY DEF TokenInv, Typed, RowKept, TokenBounds, TokenCall, RowType, Times
  <1>2. UNCHANGED <<clock, latest>>
    BY DEF Loads, Judges, Refreshes, Saves, AsksCalendar
  <1>3. row'.token.grant <= MaxGrants
    <2>1. Saved(c).token = call[c].token
      BY <1>1 DEF Saved, RowType
    <2>2. row' = row \/ row' = Saved(c)
      BY DEF Loads, Judges, Refreshes, Saves, AsksCalendar
    <2> QED
      BY <1>1, <2>1, <2>2 DEF Granted
  <1>4. ASSUME NEW reply \in TokenAnswers, Says(c, reply)
        PROVE  TokenBounds'
    <2> DEFINE x == [NewCall EXCEPT !.at = "over", !.answer = reply]
    <2>1. x \in TokenCall /\ x.token = NewCall.token /\ x.creds = NewCall.creds
      BY NothingGranted DEF TokenCall, TokenStages
    <2>2. call' = [call EXCEPT ![c] = x]
      BY <1>4 DEF Says
    <2> HIDE DEF x
    <2>3. Granted(x)
      BY <2>1, NothingGranted DEF Granted
    <2> QED
      BY <1>2, <1>3, <2>1, <2>2, <2>3, OneCallKeepsBounds
  <1>5. CASE call' = [call EXCEPT ![c].at = "judging", ![c].creds = row, ![c].since = clock]
    <2> DEFINE x == [call[c] EXCEPT !.at = "judging", !.creds = row, !.since = clock]
    <2>1. x \in TokenCall /\ x.creds = row /\ x.token = call[c].token
      BY <1>1 DEF TokenCall, TokenStages, Times
    <2>2. call' = [call EXCEPT ![c] = x]
      BY <1>5
    <2> HIDE DEF x
    <2>3. Granted(x)
      BY <1>1, <2>1 DEF Granted
    <2> QED
      BY <1>2, <1>3, <2>1, <2>2, <2>3, OneCallKeepsBounds
  <1>6. ASSUME NEW stage \in {"refreshing", "using"}, CallAt(c, stage)
        PROVE  TokenBounds'
    <2> DEFINE x == [call[c] EXCEPT !.at = stage]
    <2>1. x \in TokenCall /\ x.creds = call[c].creds /\ x.token = call[c].token
      BY <1>1 DEF TokenCall, TokenStages
    <2>2. call' = [call EXCEPT ![c] = x]
      BY <1>6 DEF CallAt
    <2> HIDE DEF x
    <2>3. Granted(x)
      BY <1>1, <2>1 DEF Granted
    <2> QED
      BY <1>2, <1>3, <2>1, <2>2, <2>3, OneCallKeepsBounds
  <1>7. ASSUME NEW stage \in {"saving", "using"}, NEW token \in TokenType,
               token.grant <= MaxGrants, call' = [call EXCEPT ![c] = HasToken(stage, token)]
        PROVE  TokenBounds'
    <2> DEFINE x == HasToken(stage, token)
    <2>1. x \in TokenCall /\ x.creds = NoRow /\ x.token = token
      BY <1>1, TokenIsHeld DEF Times
    <2> HIDE DEF x
    <2>2. Granted(x)
      BY <1>7, <2>1, NothingGranted, TokenAssumption DEF Granted
    <2> QED
      BY <1>2, <1>3, <1>7, <2>1, <2>2, OneCallKeepsBounds DEF x
  <1>8. CASE Loads(c)
    BY <1>4, <1>5, <1>8 DEF Loads, TokenAnswers
  <1>9. CASE Judges(c)
    BY <1>1, <1>4, <1>6, <1>7, <1>9 DEF Judges, TokenAnswers, Granted
  <1>10. CASE Refreshes(c)
    <2>1. ASSUME NEW issued \in call[c].since .. clock,
                 call' = [call EXCEPT ![c] =
                            HasToken("saving", Token(call[c].creds.grant, issued + Life))]
          PROVE  TokenBounds'
      <3> DEFINE t == issued + Life
                 token == Token(call[c].creds.grant, t)
      <3>1. t \in Nat
        BY <1>1, TokenAssumption
      <3> HIDE DEF t
      <3>2. token \in TokenType /\ token.grant = call[c].creds.grant
        BY <1>1, <3>1 DEF Token, TokenType, RowType, Times
      <3>3. call' = [call EXCEPT ![c] = HasToken("saving", token)]
        BY <2>1 DEF t
      <3> HIDE DEF token
      <3> QED
        BY <1>1, <1>7, <3>2, <3>3 DEF Granted
    <2> QED
      BY <1>4, <1>10, <2>1 DEF Refreshes, TokenAnswers
  <1>11. CASE Saves(c)
    BY <1>4, <1>6, <1>11 DEF Saves, TokenAnswers
  <1>12. CASE AsksCalendar(c)
    BY <1>4, <1>12 DEF AsksCalendar, TokenAnswers
  <1> QED
    BY <1>8, <1>9, <1>10, <1>11, <1>12

\* A connection makes one grant more, within the bound.
LEMMA NextKeepsBounds ==
  ASSUME TokenInv, TokenBounds, [TokenNext]_tokenVars
  PROVE  TokenBounds'
  <1>1. CASE Connects
    <2> DEFINE g == latest.grant + 1
               t == clock + Life
    <2>1. /\ latest.grant \in Nat /\ latest.grant < MaxGrants
          /\ latest' = [grant |-> g, at |-> clock] /\ UNCHANGED <<clock, call>>
      BY <1>1 DEF Connects, TokenInv, Typed
    <2>2. g <= MaxGrants
      BY <2>1, TokenAssumption
    <2>3. row'.token = Token(g, t)
      BY <1>1 DEF Connects
    <2> HIDE DEF g, t
    <2>4. row'.token.grant = g /\ latest'.grant = g
      BY <2>1, <2>3 DEF Token
    <2> QED
      BY <2>1, <2>2, <2>4 DEF TokenBounds
  <1>2. CASE Tick
    <2>1. clock \in Nat /\ clock < MaxTime /\ clock' = clock + 1 /\ UNCHANGED <<row, latest, call>>
      BY <1>2 DEF Tick, TokenInv, Typed, Times
    <2>2. clock' <= MaxTime
      BY <2>1, TokenAssumption
    <2> QED
      BY <2>1, <2>2 DEF TokenBounds
  <1>3. CASE UNCHANGED tokenVars \/ TokenRest
    BY <1>3 DEF tokenVars, TokenRest, TokenBounds
  <1> QED
    BY <1>1, <1>2, <1>3, CallKeepsBounds DEF TokenNext

(* Type correctness of the calendar's token, for any calls and bounds.     *)
THEOREM TokensTyped == TokenSpec => []TokenTypeOK
  <1>1. TokenInit => TokenInv /\ TokenBounds
    <2> SUFFICES ASSUME TokenInit
                 PROVE  TokenBounds
      BY InitKeepsToken
    <2>1. 0 <= MaxGrants /\ 0 <= MaxTime
      BY TokenAssumption
    <2> QED
      BY <2>1, NothingGranted DEF TokenInit, TokenBounds
  <1>2. TokenInv /\ TokenBounds /\ [TokenNext]_tokenVars => (TokenInv /\ TokenBounds)'
    BY NextKeepsToken, NextKeepsBounds
  <1>3. TokenInv /\ TokenBounds => TokenTypeOK
    <2> SUFFICES ASSUME TokenInv, TokenBounds
                 PROVE  TokenTypeOK
      OBVIOUS
    <2>1. /\ clock \in 0 .. MaxTime /\ latest.grant \in 0 .. MaxGrants /\ latest.at \in 0 .. clock
          /\ row.grant \in 0 .. MaxGrants /\ lag \in 0 .. clock
          /\ row.expiry \in Nat \union {Unknown, NullExpiry}
      BY TokenAssumption DEF TokenInv, TokenBounds, Typed, Times, RowKept, RowType
    <2>2. ASSUME NEW c \in Calls
          PROVE  call[c].at \in TokenStages /\ call[c].token.grant \in 0 .. MaxGrants
      <3>1. call[c] \in TokenCall /\ Granted(call[c])
        BY DEF TokenInv, TokenBounds, Typed
      <3> QED
        BY <3>1, TokenAssumption DEF TokenCall, TokenType, Granted
    <2> QED
      BY <2>1, <2>2 DEF TokenTypeOK, TokenStages
  <1> QED
    BY <1>1, <1>2, <1>3, PTL DEF TokenSpec

-----------------------------------------------------------------------------
(* Events.                                                                 *)

\* A proposal as it is sent when the zone is known.
Sent(a) == [start |-> StartField(a.start, 0), end |-> EndField(a.end, 0)]

(* The inductive invariant: the event at Google is what was sent for the   *)
(* dates last approved for it.                                             *)
AsApproved ==
    event # NoEvent => /\ approved \in [start : Dates, end : Dates]
                       /\ event = Sent(approved) /\ Valid(event)

-----------------------------------------------------------------------------
(* Dates on their way out and back.                                        *)

\* A date has its two fields and no other.
LEMMA DateIsRecord ==
  ASSUME NEW v \in Dates
  PROVE  /\ v = [day |-> v.day, on |-> v.on] /\ v.day \in BOOLEAN /\ v.on \in Nat
  BY EventAssumption DEF Dates

\* With the zone known a start is sent as it is.
LEMMA StartSent ==
  ASSUME NEW v \in Dates
  PROVE  StartField(v, 0) = v
  <1>1. v.on + 0 = v.on
    BY DateIsRecord
  <1>2. [v EXCEPT !.on = v.on + 0] = v
    BY <1>1, DateIsRecord
  <1> QED
    BY <1>2 DEF StartField

\* An end is sent with its kind, one day later if it is a bare date.
LEMMA EndSent ==
  ASSUME NEW v \in Dates
  PROVE  EndField(v, 0) = [day |-> v.day, on |-> IF v.day THEN v.on + 1 ELSE v.on]
  <1>1. CASE v.day
    <2> DEFINE n == v.on + 1
    <2>1. EndField(v, 0) = [v EXCEPT !.on = n]
      BY <1>1 DEF EndField
    <2> HIDE DEF n
    <2>2. [v EXCEPT !.on = n] = [day |-> v.day, on |-> n]
      BY DateIsRecord
    <2> QED
      BY <1>1, <2>1, <2>2 DEF n
  <1>2. CASE ~v.day
    BY <1>2, StartSent, DateIsRecord DEF EndField
  <1> QED
    BY <1>1, <1>2, DateIsRecord

\* A listing shows what was approved.
LEMMA ShownAsSent ==
  ASSUME NEW a \in [start : Dates, end : Dates]
  PROVE  Shown(Sent(a)) = a
  <1> DEFINE sent == IF a.end.day THEN a.end.on + 1 ELSE a.end.on
             last == IF a.end.day THEN sent - 1 ELSE sent
             e == [start |-> a.start, end |-> [day |-> a.end.day, on |-> sent]]
  <1>1. a.start \in Dates /\ a.end \in Dates /\ a = [start |-> a.start, end |-> a.end]
    OBVIOUS
  <1>2. Sent(a) = e
    BY <1>1, StartSent, EndSent DEF Sent
  <1>3. last = a.end.on
    BY <1>1, DateIsRecord
  <1> HIDE DEF sent
  <1>4. Shown(e) = [start |-> a.start, end |-> [day |-> a.end.day, on |-> last]]
    BY DEF Shown
  <1> HIDE DEF last, e
  <1>5. [day |-> a.end.day, on |-> last] = a.end
    BY <1>1, <1>3, DateIsRecord
  <1> QED
    BY <1>1, <1>2, <1>4, <1>5

-----------------------------------------------------------------------------
(* The tools keep the invariant.                                           *)

\* What is written is what was approved, and what is sent back as listed too.
LEMMA ToolsKeepIt ==
  ASSUME ZoneFails = FALSE, AsApproved, [EventNext]_eventVars
  PROVE  AsApproved'
  <1>1. \A zone \in Zones : zone = 0
    BY DEF Zones
  <1>2. CASE Writes
    <2>1. PICK start \in Dates, end \in Dates :
             /\ event' = [start |-> StartField(start, 0), end |-> EndField(end, 0)]
             /\ Valid(event') /\ approved' = [start |-> start, end |-> end]
      BY <1>1, <1>2 DEF Writes
    <2>2. event' = Sent(approved')
      BY <2>1 DEF Sent
    <2> QED
      BY <2>1, <2>2 DEF AsApproved
  <1>3. CASE Moves
    <2>1. approved \in [start : Dates, end : Dates] /\ event = Sent(approved) /\ Valid(event')
      BY <1>3 DEF Moves, AsApproved
    <2>2. PICK v \in Dates :
             \/ event' = [event EXCEPT !.start = StartField(v, 0)] /\ approved' = [approved EXCEPT !.start = v]
             \/ event' = [event EXCEPT !.end = EndField(v, 0)] /\ approved' = [approved EXCEPT !.end = v]
      BY <1>1, <1>3 DEF Moves
    <2>3. approved' \in [start : Dates, end : Dates] /\ event' = Sent(approved')
      BY <2>1, <2>2 DEF Sent
    <2> QED
      BY <2>1, <2>3 DEF AsApproved
  <1>4. CASE Amends
    <2>1. /\ event # NoEvent /\ approved' = approved
          /\ event' = [start |-> StartField(Shown(event).start, 0), end |-> EndField(Shown(event).end, 0)]
      BY <1>1, <1>4 DEF Amends
    <2>2. Shown(event) = approved
      BY <2>1, ShownAsSent DEF AsApproved
    <2>3. event' = event
      BY <2>1, <2>2 DEF AsApproved, Sent
    <2> QED
      BY <2>1, <2>3 DEF AsApproved
  <1>5. CASE Deletes
    BY <1>5 DEF Deletes, AsApproved
  <1>6. CASE UNCHANGED eventVars
    BY <1>6 DEF eventVars, AsApproved
  <1> QED
    BY <1>2, <1>3, <1>4, <1>5, <1>6 DEF EventNext

\* What was sent for the approved dates is listed as those dates.
LEMMA ApprovedIsShown ==
  ASSUME AsApproved
  PROVE  DatesStay
  <1> SUFFICES ASSUME event # NoEvent
               PROVE  /\ Shown(event) = approved
                      /\ event.start.day =>
                            event.end.on - event.start.on = DayCount(approved.start, approved.end)
    BY DEF DatesStay
  <1>1. approved \in [start : Dates, end : Dates] /\ event = Sent(approved) /\ Valid(event)
    BY DEF AsApproved
  <1>2. Shown(event) = approved
    BY <1>1, ShownAsSent
  <1>3. approved.start \in Dates /\ approved.end \in Dates
    BY <1>1
  <1>4. event.start = approved.start
    BY <1>1, <1>3, StartSent DEF Sent
  <1>5. event.end = [day |-> approved.end.day, on |-> IF approved.end.day THEN approved.end.on + 1
                                                                           ELSE approved.end.on]
    BY <1>1, <1>3, EndSent DEF Sent
  <1>6. ASSUME event.start.day
        PROVE  event.end.on - event.start.on = DayCount(approved.start, approved.end)
    <2>1. event.end.on = approved.end.on + 1
      BY <1>1, <1>5, <1>6 DEF Valid
    <2> QED
      BY <1>3, <1>4, <2>1, DateIsRecord DEF DayCount
  <1> QED
    BY <1>2, <1>6

-----------------------------------------------------------------------------
(* An event is listed with the dates approved for it, and an all-day event *)
(* covers the days its proposal was shown with (tools/google_calendar.py,  *)
(* _time_field and _fmt_event), whatever the days, if the look-up of the   *)
(* time zone does not fail.                                                *)
THEOREM DatesAlwaysStay ==
  ASSUME ZoneFails = FALSE
  PROVE  EventSpec => []DatesStay
  <1>1. EventInit => AsApproved
    BY DEF EventInit, AsApproved
  <1>2. AsApproved /\ [EventNext]_eventVars => AsApproved'
    BY ToolsKeepIt
  <1>3. AsApproved => DatesStay
    BY ApprovedIsShown
  <1> QED
    BY <1>1, <1>2, <1>3, PTL DEF EventSpec
-----------------------------------------------------------------------------
(* The kinds of an event.                                                  *)

\* A date or a time, whether it was approved or has been moved by the zone.
Moment == [day : BOOLEAN, on : Nat]

EventTyped == event # NoEvent => event \in [start : Moment, end : Moment] /\ Valid(event)

\* What is sent for a date or time is one.
LEMMA SentIsMoment ==
  ASSUME NEW v \in Moment, NEW zone \in Nat
  PROVE  /\ StartField(v, zone) \in Moment /\ EndField(v, zone) \in Moment
         /\ StartField(v, zone).day = v.day /\ EndField(v, zone).day = v.day
         /\ StartField(v, zone).on = IF v.day THEN v.on ELSE v.on + zone
         /\ EndField(v, zone).on = IF v.day THEN v.on + 1 ELSE v.on + zone
  <1> DEFINE a == v.on + zone
             b == v.on + 1
  <1>1. v.on \in Nat /\ a \in Nat /\ b \in Nat /\ v.day \in BOOLEAN
    BY DEF Moment
  <1>2. /\ StartField(v, zone) = IF v.day THEN v ELSE [v EXCEPT !.on = a]
        /\ EndField(v, zone) = IF v.day THEN [v EXCEPT !.on = b] ELSE [v EXCEPT !.on = a]
    BY DEF StartField, EndField
  <1> HIDE DEF a, b
  <1>3. /\ [v EXCEPT !.on = a] \in Moment /\ [v EXCEPT !.on = a].on = a /\ [v EXCEPT !.on = a].day = v.day
        /\ [v EXCEPT !.on = b] \in Moment /\ [v EXCEPT !.on = b].on = b /\ [v EXCEPT !.on = b].day = v.day
    BY <1>1 DEF Moment
  <1> QED
    BY <1>2, <1>3 DEF a, b

\* What is listed of an event are dates and times again, and in order.
LEMMA ShownIsMoment ==
  ASSUME NEW e \in [start : Moment, end : Moment], Valid(e)
  PROVE  /\ Shown(e).start = e.start /\ Shown(e).end \in Moment /\ Shown(e).end.day = e.end.day
         /\ Shown(e).end.on = IF e.end.day THEN e.end.on - 1 ELSE e.end.on
  <1> DEFINE last == IF e.end.day THEN e.end.on - 1 ELSE e.end.on
  <1>1. e.start \in Moment /\ e.end \in Moment /\ e.start.on \in Nat /\ e.end.on \in Nat
    BY DEF Moment
  <1>2. last \in Nat
    BY <1>1 DEF Valid
  <1>3. Shown(e) = [e EXCEPT !.end.on = last]
    BY DEF Shown
  <1> HIDE DEF last
  <1>4. Shown(e).start = e.start /\ Shown(e).end = [e.end EXCEPT !.on = last]
    BY <1>3
  <1>5. [e.end EXCEPT !.on = last] \in Moment /\ [e.end EXCEPT !.on = last].on = last
        /\ [e.end EXCEPT !.on = last].day = e.end.day
    BY <1>1, <1>2 DEF Moment
  <1> QED
    BY <1>4, <1>5 DEF last

\* Sending the dates as they were listed keeps their order, in any zone.
LEMMA ToolsKeepTypes ==
  ASSUME EventTyped, [EventNext]_eventVars
  PROVE  EventTyped'
  <1>1. Zones \subseteq Nat /\ Dates \subseteq Moment
    <2>1. Zones \subseteq Nat
      BY EventAssumption DEF Zones
    <2>2. Dates \subseteq Moment
      BY EventAssumption DEF Dates, Moment
    <2> QED
      BY <2>1, <2>2
  <1>2. CASE Writes
    <2>1. PICK start \in Dates, end \in Dates, zone \in Zones :
             event' = [start |-> StartField(start, zone), end |-> EndField(end, zone)] /\ Valid(event')
      BY <1>2 DEF Writes
    <2>2. StartField(start, zone) \in Moment /\ EndField(end, zone) \in Moment
      BY <1>1, SentIsMoment
    <2> QED
      BY <2>1, <2>2 DEF EventTyped
  <1>3. CASE Moves
    <2>1. event \in [start : Moment, end : Moment] /\ Valid(event')
      BY <1>3 DEF Moves, EventTyped
    <2>2. PICK v \in Dates, zone \in Zones :
             \/ event' = [event EXCEPT !.start = StartField(v, zone)]
             \/ event' = [event EXCEPT !.end = EndField(v, zone)]
      BY <1>3 DEF Moves
    <2>3. StartField(v, zone) \in Moment /\ EndField(v, zone) \in Moment
      BY <1>1, SentIsMoment
    <2> QED
      BY <2>1, <2>2, <2>3 DEF EventTyped
  <1>4. CASE Amends
    <2>1. event \in [start : Moment, end : Moment] /\ Valid(event)
      BY <1>4 DEF Amends, EventTyped
    <2>2. PICK zone \in Zones :
             event' = [start |-> StartField(Shown(event).start, zone),
                       end |-> EndField(Shown(event).end, zone)]
      BY <1>4 DEF Amends
    <2>3. /\ event.start \in Moment /\ event.end \in Moment /\ zone \in Nat
          /\ event.start.day = event.end.day
          /\ IF event.start.day THEN event.start.on < event.end.on ELSE event.start.on <= event.end.on
      BY <1>1, <2>1 DEF Valid
    <2>4. /\ Shown(event).start = event.start /\ Shown(event).end \in Moment
          /\ Shown(event).end.day = event.end.day
          /\ Shown(event).end.on = IF event.end.day THEN event.end.on - 1 ELSE event.end.on
      BY <2>1, ShownIsMoment
    <2> DEFINE u == event.start
               v == Shown(event).end
               a == StartField(u, zone)
               b == EndField(v, zone)
    <2>5. event' = [start |-> a, end |-> b] /\ u \in Moment /\ v \in Moment
      BY <2>2, <2>3, <2>4
    <2>6. /\ v.day = event.end.day /\ v.on = IF event.end.day THEN event.end.on - 1 ELSE event.end.on
          /\ u.day = event.start.day /\ u.on = event.start.on
      BY <2>4
    <2> HIDE DEF u, v
    <2>7. /\ a \in Moment /\ a.day = u.day /\ a.on = IF u.day THEN u.on ELSE u.on + zone
          /\ b \in Moment /\ b.day = v.day /\ b.on = IF v.day THEN v.on + 1 ELSE v.on + zone
      BY <2>3, <2>5, SentIsMoment
    <2> HIDE DEF a, b
    <2>8. event.start.on \in Nat /\ event.end.on \in Nat
      BY <2>3 DEF Moment
    <2>9. a.day = b.day /\ (IF a.day THEN a.on < b.on ELSE a.on <= b.on)
      BY <2>3, <2>6, <2>7, <2>8
    <2> QED
      BY <2>5, <2>7, <2>9 DEF EventTyped, Valid
  <1>5. CASE Deletes
    BY <1>5 DEF Deletes, EventTyped
  <1>6. CASE UNCHANGED eventVars
    BY <1>6 DEF eventVars, EventTyped
  <1> QED
    BY <1>2, <1>3, <1>4, <1>5, <1>6 DEF EventNext

(* Whatever is created, moved or sent back as it was listed, and even if   *)
(* the time zone cannot be read, an event has two dates or two times, in   *)
(* order.                                                                  *)
THEOREM EventsTyped == EventSpec => []EventTypeOK
  <1>1. EventInit => EventTyped
    BY DEF EventInit, EventTyped
  <1>2. EventTyped /\ [EventNext]_eventVars => EventTyped'
    BY ToolsKeepTypes
  <1>3. EventTyped => EventTypeOK
    BY DEF EventTyped, EventTypeOK, Moment
  <1> QED
    BY <1>1, <1>2, <1>3, PTL DEF EventSpec

-----------------------------------------------------------------------------
(* The gateway.                                                            *)
Owners == Users \union {SANDBOX_USER_ID, GLOBAL_OWNER, Folder}
Sessions == Users \union {SANDBOX_USER_ID}

RequestStages == {"new", "guard", "checking", "fetching", "sending", "over"}
Counts == Nat

RequestType == [at : RequestStages, who : Sessions, user : Sessions, route : Routes \union {"none"},
             shared : BOOLEAN, owner : Owners, tries : Counts, allowed : BOOLEAN, status : Counts]

\* Until a call x is admitted it acts for its caller, whose identity the token gave.
CallersOwn(x) ==
    x.at \in {"guard", "checking"} =>
        x.user \in Identities(x.who) /\ x.owner = x.user /\ (x.shared => x.route # "job")

\* The guard has turned away callers without an identity.
Identified(x) == x.at = "checking" => x.user # SANDBOX_USER_ID

\* The history misses no moment at which the caller is one of the admins A.
Noted(x, A) == x.at \notin {"new", "over"} /\ x.who \in A => x.allowed

InScope(x) ==
    x.at \in {"fetching", "sending"} =>
        IF x.owner \in {GLOBAL_OWNER, Folder} THEN x.allowed ELSE x.owner \in Identities(x.who)

Kept(x, A) == CallersOwn(x) /\ Identified(x) /\ Noted(x, A) /\ InScope(x)

(* The inductive invariant.                                                *)
GateInv == request \in [GateCalls -> RequestType] /\ \A c \in GateCalls : Kept(request[c], admins)

-----------------------------------------------------------------------------
(* The steps of one call, which leave the others alone.                    *)

\* The counters start at 0.
LEMMA Zero == 0 \in Counts
  BY DEF Counts

\* A call's new value x keeps the invariant if it is kept itself.
LEMMA OneCallKeepsIt ==
  ASSUME GateInv, NEW c \in GateCalls, NEW x \in RequestType,
         request' = [request EXCEPT ![c] = x], admins' = admins,
         CallersOwn(x), Identified(x), Noted(x, admins), InScope(x)
  PROVE  GateInv'
  <1>1. Kept(x, admins)
    BY DEF Kept
  <1>2. \A d \in GateCalls : request'[d] = IF d = c THEN x ELSE request[d]
    BY DEF GateInv
  <1>3. \A d \in GateCalls : Kept(request'[d], admins)
    BY <1>1, <1>2, Zenon DEF GateInv
  <1>4. request' \in [GateCalls -> RequestType]
    BY DEF GateInv
  <1> QED
    BY <1>3, <1>4 DEF GateInv

\* A response ends a call and leaves nothing to keep.
LEMMA ResponseKeepsIt ==
  ASSUME GateInv, NEW c \in GateCalls, NEW code \in Counts, Responds(c, code), admins' = admins
  PROVE  GateInv'
  <1> DEFINE x == [request[c] EXCEPT !.at = "over", !.status = code]
  <1>1. request[c] \in RequestType
    BY DEF GateInv
  <1>2. x \in RequestType /\ x.at = "over"
    BY <1>1 DEF RequestType, RequestStages
  <1>3. request' = [request EXCEPT ![c] = x]
    BY DEF Responds
  <1> HIDE DEF x
  <1>4. CallersOwn(x) /\ Identified(x) /\ Noted(x, admins) /\ InScope(x)
    BY <1>2 DEF CallersOwn, Identified, Noted, InScope
  <1> QED
    BY <1>2, <1>3, <1>4, OneCallKeepsIt

\* A request arrives with the identity its token gives.
LEMMA ArrivesKeepsIt ==
  ASSUME GateInv, NEW c \in GateCalls, Arrives(c)
  PROVE  GateInv'
  <1>1. PICK who \in Users, route \in Routes, shared \in BOOLEAN : \E user \in Identities(who) :
          /\ shared => route \in Writing \union {"uploads"}
          /\ route = "uploads" => shared
          /\ request' = [request EXCEPT ![c] = [NoRequest EXCEPT
                            !.at = "guard", !.who = who, !.user = user, !.route = route,
                            !.shared = shared, !.owner = user, !.allowed = who \in admins]]
    BY DEF Arrives
  <1>2. PICK user \in Identities(who) :
          /\ shared => route \in Writing \union {"uploads"}
          /\ route = "uploads" => shared
          /\ request' = [request EXCEPT ![c] = [NoRequest EXCEPT
                            !.at = "guard", !.who = who, !.user = user, !.route = route,
                            !.shared = shared, !.owner = user, !.allowed = who \in admins]]
    BY <1>1
  <1> DEFINE admin == who \in admins
             x == [NoRequest EXCEPT !.at = "guard", !.who = who, !.user = user, !.route = route,
                                 !.shared = shared, !.owner = user, !.allowed = admin]
  <1>3. request' = [request EXCEPT ![c] = x]
    BY <1>2
  <1>4. user \in Sessions /\ who \in Sessions /\ user \in Owners
    BY DEF Identities, Sessions, Owners
  <1>5. admin \in BOOLEAN /\ (admin <=> who \in admins)
    OBVIOUS
  <1> HIDE DEF admin
  <1>6. /\ x \in RequestType /\ x.at = "guard" /\ x.who = who /\ x.user = user
        /\ x.route = route /\ x.shared = shared /\ x.owner = user /\ x.allowed = admin
    BY <1>4, <1>5, Zero DEF NoRequest, RequestType, RequestStages
  <1> HIDE DEF x
  <1>7. CallersOwn(x)
    BY <1>2, <1>6 DEF CallersOwn, Identities, Writing
  <1>8. Identified(x) /\ Noted(x, admins) /\ InScope(x)
    BY <1>5, <1>6 DEF Identified, Noted, InScope
  <1> QED
    BY <1>3, <1>6, <1>7, <1>8, OneCallKeepsIt DEF Arrives

\* What passes the guard acts for its caller.
LEMMA GuardKeepsIt ==
  ASSUME GateInv, NEW c \in GateCalls, Guard(c)
  PROVE  GateInv'
  <1>1. request[c] \in RequestType /\ request[c].at = "guard" /\ CallersOwn(request[c]) /\ Noted(request[c], admins)
    BY DEF Guard, GateInv, Kept
  <1>2. /\ request[c].user \in Identities(request[c].who) /\ request[c].owner = request[c].user
        /\ request[c].shared => request[c].route # "job"
    BY <1>1 DEF CallersOwn
  <1>3. request[c].owner \notin {GLOBAL_OWNER, Folder}
    BY <1>1, <1>2, GateAssumption DEF RequestType, Sessions
  <1>4. ASSUME NEW stage \in {"checking", "fetching", "sending"}, RequestAt(c, stage),
               stage = "checking" => request[c].user # SANDBOX_USER_ID
        PROVE  GateInv'
    <2> DEFINE x == [request[c] EXCEPT !.at = stage]
    <2>1. /\ x \in RequestType /\ x.at = stage /\ x.who = request[c].who /\ x.user = request[c].user
          /\ x.owner = request[c].owner /\ x.route = request[c].route
          /\ x.shared = request[c].shared /\ x.allowed = request[c].allowed
      BY <1>1 DEF RequestType, RequestStages
    <2>2. request' = [request EXCEPT ![c] = x]
      BY <1>4 DEF RequestAt
    <2> HIDE DEF x
    <2>3. CallersOwn(x) /\ Identified(x) /\ InScope(x)
      BY <1>2, <1>3, <1>4, <2>1 DEF CallersOwn, Identified, InScope
    <2>4. Noted(x, admins)
      BY <1>1, <2>1 DEF Noted
    <2> QED
      BY <2>1, <2>2, <2>3, <2>4, OneCallKeepsIt DEF Guard
  <1>5. CASE Responds(c, 401)
    BY <1>5, ResponseKeepsIt DEF Guard, Counts
  <1>6. CASE request[c].user # SANDBOX_USER_ID \/ request[c].route = "job"
    <2>1. request[c].shared => request[c].user # SANDBOX_USER_ID
      BY <1>2, <1>6
    <2>2. RequestAt(c, IF request[c].shared THEN "checking"
                       ELSE IF request[c].route \in {"ingest", "parse"} THEN "fetching" ELSE "sending")
      BY <1>6 DEF Guard
    <2> QED
      BY <1>4, <2>1, <2>2
  <1> QED
    BY <1>5, <1>6 DEF Guard

\* What passes the check is allowed what it asks for.
LEMMA ChecksKeepsIt ==
  ASSUME GateInv, NEW c \in GateCalls, Checks(c)
  PROVE  GateInv'
  <1>1. /\ request[c] \in RequestType /\ request[c].at = "checking"
        /\ CallersOwn(request[c]) /\ Identified(request[c]) /\ Noted(request[c], admins)
    BY DEF Checks, GateInv, Kept
  <1>2. ASSUME request[c].user \in admins, NEW stage \in {"fetching", "sending"},
               request' = [request EXCEPT ![c].owner = SharedOwner(c), ![c].at = stage]
        PROVE  GateInv'
    <2> DEFINE x == [request[c] EXCEPT !.owner = SharedOwner(c), !.at = stage]
    <2>1. request[c].user = request[c].who
      BY <1>1 DEF CallersOwn, Identified, Identities
    <2>2. request[c].allowed
      BY <1>1, <1>2, <2>1 DEF Noted
    <2>3. SharedOwner(c) \in {GLOBAL_OWNER, Folder} /\ SharedOwner(c) \in Owners
      BY DEF SharedOwner, Owners
    <2>4. /\ x \in RequestType /\ x.at = stage /\ x.owner = SharedOwner(c)
          /\ x.allowed = request[c].allowed
      BY <1>1, <2>3 DEF RequestType, RequestStages
    <2>5. request' = [request EXCEPT ![c] = x]
      BY <1>2
    <2> HIDE DEF x
    <2>6. CallersOwn(x) /\ Identified(x) /\ Noted(x, admins) /\ InScope(x)
      BY <1>2, <2>2, <2>3, <2>4 DEF CallersOwn, Identified, Noted, InScope
    <2> QED
      BY <2>4, <2>5, <2>6, OneCallKeepsIt DEF Checks
  <1>3. CASE Responds(c, 403)
    BY <1>3, ResponseKeepsIt DEF Checks, Counts
  <1>4. CASE ~ Responds(c, 403)
    <2>1. \A admin \in Admits(c) : admin => request[c].user \in admins
      BY DEF Admits
    <2> QED
      BY <1>2, <1>4, <2>1 DEF Checks
  <1> QED
    BY <1>3, <1>4

\* Requests to the services change no scope.
LEMMA RequestsKeepIt ==
  ASSUME GateInv, NEW c \in GateCalls, FetchesFor(c) \/ Sends(c) \/ SearchesKb(c)
  PROVE  GateInv'
  <1>1. /\ request[c] \in RequestType /\ request[c].at \in {"fetching", "sending"}
        /\ InScope(request[c]) /\ Noted(request[c], admins) /\ admins' = admins
    BY DEF FetchesFor, Sends, SearchesKb, GateInv, Kept
  <1>2. ASSUME NEW x \in RequestType, x.at = "sending", request' = [request EXCEPT ![c] = x],
               x.owner = request[c].owner, x.who = request[c].who, x.allowed = request[c].allowed
        PROVE  GateInv'
    <2>1. CallersOwn(x) /\ Identified(x) /\ InScope(x)
      BY <1>1, <1>2 DEF CallersOwn, Identified, InScope
    <2>2. Noted(x, admins)
      BY <1>1, <1>2 DEF Noted
    <2> QED
      BY <1>1, <1>2, <2>1, <2>2, OneCallKeepsIt
  <1>3. CASE RequestAt(c, "sending")
    <2> DEFINE x == [request[c] EXCEPT !.at = "sending"]
    <2>1. /\ x \in RequestType /\ x.at = "sending" /\ x.owner = request[c].owner
          /\ x.who = request[c].who /\ x.allowed = request[c].allowed
      BY <1>1 DEF RequestType, RequestStages
    <2>2. request' = [request EXCEPT ![c] = x]
      BY <1>3 DEF RequestAt
    <2> HIDE DEF x
    <2> QED
      BY <1>2, <2>1, <2>2
  <1>4. CASE request[c].at = "sending" /\ request' = [request EXCEPT ![c].tries = request[c].tries + 1]
    <2> DEFINE n == request[c].tries + 1
               x == [request[c] EXCEPT !.tries = n]
    <2>1. n \in Counts
      BY <1>1 DEF RequestType, Counts, RequestStages
    <2>2. request' = [request EXCEPT ![c] = x]
      BY <1>4
    <2> HIDE DEF n
    <2>3. /\ x \in RequestType /\ x.at = "sending" /\ x.owner = request[c].owner
          /\ x.who = request[c].who /\ x.allowed = request[c].allowed
      BY <1>1, <1>4, <2>1 DEF RequestType
    <2> HIDE DEF x
    <2> QED
      BY <1>2, <2>2, <2>3
  <1>5. FetchesFor(c) => \/ \E code \in Counts : Responds(c, code)
                         \/ RequestAt(c, "sending")
    BY DEF FetchesFor, Counts
  <1>6. Sends(c) => \E code \in Counts : Responds(c, code)
    BY DEF Sends, Counts
  <1>7. SearchesKb(c) => \/ \E code \in Counts : Responds(c, code)
                         \/ request[c].at = "sending" /\ request' = [request EXCEPT ![c].tries = request[c].tries + 1]
    BY DEF SearchesKb, Counts
  <1>8. ASSUME NEW code \in Counts, Responds(c, code)
        PROVE  GateInv'
    BY <1>1, <1>8, ResponseKeepsIt
  <1> QED
    BY <1>3, <1>4, <1>5, <1>6, <1>7, <1>8

\* A change of who is an admin is noted by the calls under way.
LEMMA ChangesKeepsIt ==
  ASSUME GateInv, NEW u \in Users, Changes(u)
  PROVE  GateInv'
  <1>1. ASSUME NEW c \in GateCalls
        PROVE  request'[c] \in RequestType /\ Kept(request'[c], admins')
    <2>1. request[c] \in RequestType /\ CallersOwn(request[c]) /\ Identified(request[c]) /\ InScope(request[c])
      BY DEF GateInv, Kept
    <2> DEFINE x == [request[c] EXCEPT !.allowed = TRUE]
    <2>2. /\ x \in RequestType /\ x.allowed /\ x.at = request[c].at /\ x.who = request[c].who
          /\ x.user = request[c].user /\ x.owner = request[c].owner
          /\ x.route = request[c].route /\ x.shared = request[c].shared
      BY <2>1 DEF RequestType
    <2>3. request'[c] = IF c \in UnderWay /\ request[c].who \in admins' THEN x ELSE request[c]
      BY DEF Changes
    <2> HIDE DEF x
    <2>4. CASE c \in UnderWay /\ request[c].who \in admins'
      <3>1. CallersOwn(x) /\ Identified(x) /\ Noted(x, admins') /\ InScope(x)
        BY <2>1, <2>2 DEF CallersOwn, Identified, Noted, InScope
      <3> QED
        BY <2>2, <2>3, <2>4, <3>1 DEF Kept
    <2>5. CASE ~(c \in UnderWay /\ request[c].who \in admins')
      <3>1. Noted(request[c], admins')
        BY <2>5 DEF Noted, UnderWay
      <3> QED
        BY <2>1, <2>3, <2>5, <3>1 DEF Kept
    <2> QED
      BY <2>4, <2>5
  <1>2. request' = [c \in GateCalls |-> request'[c]]
    BY DEF Changes
  <1>3. request' \in [GateCalls -> RequestType]
    BY <1>1, <1>2
  <1> QED
    BY <1>1, <1>3 DEF GateInv

-----------------------------------------------------------------------------
\* Nothing has been asked.
LEMMA InitKeepsGate ==
  ASSUME GateInit
  PROVE  GateInv
  <1>1. NoRequest \in RequestType /\ NoRequest.at = "new"
    BY Zero DEF NoRequest, RequestType, RequestStages, Sessions, Owners
  <1>2. Kept(NoRequest, {})
    BY <1>1 DEF Kept, CallersOwn, Identified, Noted, InScope
  <1> QED
    BY <1>1, <1>2 DEF GateInit, GateInv

\* Every step keeps the invariant.
LEMMA NextKeepsGate ==
  ASSUME GateInv, [GateNext]_gateVars
  PROVE  GateInv'
  <1>1. CASE UNCHANGED gateVars
    BY <1>1 DEF gateVars, GateInv
  <1>2. CASE GateRest
    BY <1>2 DEF GateRest, gateVars, GateInv
  <1> QED
    BY <1>1, <1>2, ArrivesKeepsIt, GuardKeepsIt, ChecksKeepsIt, RequestsKeepIt, ChangesKeepsIt
       DEF GateNext

(* What all users share (the global library, the upload folder) is reached *)
(* only for a caller who was an admin during the call, and anything else   *)
(* in the caller's own scope (auth.py, resolve_user_id and is_admin, and   *)
(* the guards of router.py), for any users, requests and changes.          *)
THEOREM ScopesAlwaysKept == GateSpec => []ScopesKept
  <1>1. GateInit => GateInv
    BY InitKeepsGate
  <1>2. GateInv /\ [GateNext]_gateVars => GateInv'
    BY NextKeepsGate
  <1>3. GateInv => ScopesKept
    BY DEF GateInv, Kept, InScope, ScopesKept
  <1> QED
    BY <1>1, <1>2, <1>3, PTL DEF GateSpec

-----------------------------------------------------------------------------
(* The kinds of a request.                                                 *)

\* Only users are admins, and a search is tried RETRY_ATTEMPTS times at most.
GateBounds == /\ admins \subseteq Users /\ changes \in 0 .. MaxChanges
              /\ \A c \in GateCalls : request[c].tries < RETRY_ATTEMPTS

\* A request keeps its number of tries, begins with none, or is tried once more.
LEMMA OneCallKeepsTries ==
  ASSUME GateInv, GateBounds, NEW c \in GateCalls, NEW x \in RequestType, request' = [request EXCEPT ![c] = x],
         UNCHANGED <<admins, changes>>, x.tries < RETRY_ATTEMPTS
  PROVE  GateBounds'
  <1>1. \A d \in GateCalls : request'[d] = IF d = c THEN x ELSE request[d]
    BY DEF GateInv
  <1>2. \A d \in GateCalls : request'[d].tries < RETRY_ATTEMPTS
    BY <1>1 DEF GateBounds
  <1> QED
    BY <1>2 DEF GateBounds

LEMMA CallKeepsTries ==
  ASSUME GateInv, GateBounds, NEW c \in GateCalls,
         Guard(c) \/ Checks(c) \/ FetchesFor(c) \/ Sends(c) \/ SearchesKb(c)
  PROVE  GateBounds'
  <1>1. /\ request[c] \in RequestType /\ request[c].tries < RETRY_ATTEMPTS /\ request[c].tries \in Nat
        /\ UNCHANGED <<admins, changes>>
    BY DEF GateInv, GateBounds, RequestType, Counts, Guard, Checks, FetchesFor, Sends, SearchesKb
  <1>2. ASSUME NEW code \in Counts, Responds(c, code)
        PROVE  GateBounds'
    <2> DEFINE x == [request[c] EXCEPT !.at = "over", !.status = code]
    <2>1. x \in RequestType /\ x.tries = request[c].tries
      BY <1>1 DEF RequestType, RequestStages
    <2>2. request' = [request EXCEPT ![c] = x]
      BY <1>2 DEF Responds
    <2> HIDE DEF x
    <2> QED
      BY <1>1, <2>1, <2>2, OneCallKeepsTries
  <1>3. ASSUME NEW stage \in RequestStages, RequestAt(c, stage)
        PROVE  GateBounds'
    <2> DEFINE x == [request[c] EXCEPT !.at = stage]
    <2>1. x \in RequestType /\ x.tries = request[c].tries
      BY <1>1 DEF RequestType
    <2>2. request' = [request EXCEPT ![c] = x]
      BY <1>3 DEF RequestAt
    <2> HIDE DEF x
    <2> QED
      BY <1>1, <2>1, <2>2, OneCallKeepsTries
  <1>4. ASSUME NEW stage \in RequestStages,
               request' = [request EXCEPT ![c].owner = SharedOwner(c), ![c].at = stage]
        PROVE  GateBounds'
    <2> DEFINE x == [request[c] EXCEPT !.owner = SharedOwner(c), !.at = stage]
    <2>1. SharedOwner(c) \in Owners
      BY DEF SharedOwner, Owners
    <2>2. x \in RequestType /\ x.tries = request[c].tries
      BY <1>1, <2>1 DEF RequestType
    <2>3. request' = [request EXCEPT ![c] = x]
      BY <1>4
    <2> HIDE DEF x
    <2> QED
      BY <1>1, <2>2, <2>3, OneCallKeepsTries
  <1>5. ASSUME request[c].tries + 1 < RETRY_ATTEMPTS, request' = [request EXCEPT ![c].tries = @ + 1]
        PROVE  GateBounds'
    <2> DEFINE n == request[c].tries + 1
               x == [request[c] EXCEPT !.tries = n]
    <2>1. n \in Nat /\ n < RETRY_ATTEMPTS
      BY <1>1, <1>5
    <2>2. request' = [request EXCEPT ![c] = x]
      BY <1>5
    <2> HIDE DEF n
    <2>3. x \in RequestType /\ x.tries = n
      BY <1>1, <2>1 DEF RequestType, Counts
    <2> HIDE DEF x
    <2> QED
      BY <1>1, <2>1, <2>2, <2>3, OneCallKeepsTries
  <1>6. CASE Guard(c)
    BY <1>2, <1>3, <1>6 DEF Guard, Counts, RequestStages
  <1>7. CASE Checks(c)
    BY <1>2, <1>4, <1>7 DEF Checks, Counts, RequestStages
  <1>8. CASE FetchesFor(c) \/ Sends(c)
    BY <1>2, <1>3, <1>8 DEF FetchesFor, Sends, Counts, RequestStages
  <1>9. CASE SearchesKb(c)
    BY <1>2, <1>5, <1>9 DEF SearchesKb, Counts
  <1> QED
    BY <1>6, <1>7, <1>8, <1>9

LEMMA NextKeepsTries ==
  ASSUME GateInv, GateBounds, [GateNext]_gateVars
  PROVE  GateBounds'
  <1>1. ASSUME NEW c \in GateCalls, Arrives(c)
        PROVE  GateBounds'
    <2>1. PICK who \in Users, route \in Routes, shared \in BOOLEAN : \E user \in Identities(who) :
             request' = [request EXCEPT ![c] = [NoRequest EXCEPT
                            !.at = "guard", !.who = who, !.user = user, !.route = route,
                            !.shared = shared, !.owner = user, !.allowed = who \in admins]]
      BY <1>1 DEF Arrives
    <2>2. PICK user \in Identities(who) :
             request' = [request EXCEPT ![c] = [NoRequest EXCEPT
                            !.at = "guard", !.who = who, !.user = user, !.route = route,
                            !.shared = shared, !.owner = user, !.allowed = who \in admins]]
      BY <2>1
    <2> DEFINE admin == who \in admins
               x == [NoRequest EXCEPT !.at = "guard", !.who = who, !.user = user, !.route = route,
                                   !.shared = shared, !.owner = user, !.allowed = admin]
    <2>3. user \in Sessions /\ who \in Sessions /\ user \in Owners
      BY DEF Identities, Sessions, Owners
    <2>4. request' = [request EXCEPT ![c] = x] /\ UNCHANGED <<admins, changes>>
      BY <1>1, <2>2 DEF Arrives
    <2>5. admin \in BOOLEAN
      OBVIOUS
    <2> HIDE DEF admin
    <2>6. x.tries = 0
      BY DEF NoRequest
    <2>7. x \in RequestType
      BY <2>3, <2>5, Zero DEF NoRequest, RequestType, RequestStages
    <2> HIDE DEF x
    <2>8. 0 < RETRY_ATTEMPTS
      BY GateAssumption
    <2> QED
      BY <2>7, <2>8, <2>4, <2>6, OneCallKeepsTries
  <1>2. ASSUME NEW u \in Users, Changes(u)
        PROVE  GateBounds'
    <2>1. changes \in Nat /\ changes < MaxChanges /\ changes' = changes + 1
      BY <1>2 DEF Changes, GateBounds
    <2>2. changes' \in 0 .. MaxChanges
      BY <2>1, GateAssumption
    <2>3. admins' \subseteq Users
      BY <1>2 DEF Changes, GateBounds
    <2>4. ASSUME NEW c \in GateCalls
          PROVE  request'[c].tries < RETRY_ATTEMPTS
      <3>1. request[c] \in RequestType /\ request[c].tries < RETRY_ATTEMPTS
        BY DEF GateInv, GateBounds
      <3>2. [request[c] EXCEPT !.allowed = TRUE].tries = request[c].tries
        BY <3>1 DEF RequestType
      <3>3. request'[c] \in {request[c], [request[c] EXCEPT !.allowed = TRUE]}
        BY <1>2 DEF Changes
      <3> QED
        BY <3>1, <3>2, <3>3
    <2> QED
      BY <2>2, <2>3, <2>4 DEF GateBounds
  <1>3. CASE GateRest \/ UNCHANGED gateVars
    BY <1>3 DEF GateRest, gateVars, GateBounds
  <1> QED
    BY <1>1, <1>2, <1>3, CallKeepsTries DEF GateNext

(* Type correctness of the gateway's requests: scopes are known owners, and*)
(* a search is tried RETRY_ATTEMPTS times at most, for any users, requests *)
(* and limits.                                                             *)
THEOREM RequestsTyped == GateSpec => []GateTypeOK
  <1>1. GateInit => GateInv /\ GateBounds
    <2> SUFFICES ASSUME GateInit
                 PROVE  GateBounds
      BY InitKeepsGate
    <2>1. NoRequest.tries = 0 /\ 0 < RETRY_ATTEMPTS /\ 0 \in 0 .. MaxChanges
      BY GateAssumption DEF NoRequest
    <2> QED
      BY <2>1 DEF GateInit, GateBounds
  <1>2. GateInv /\ GateBounds /\ [GateNext]_gateVars => (GateInv /\ GateBounds)'
    BY NextKeepsGate, NextKeepsTries
  <1>3. GateInv /\ GateBounds => GateTypeOK
    <2> SUFFICES ASSUME GateInv, GateBounds, NEW c \in GateCalls
                 PROVE  /\ request[c].at \in RequestStages /\ request[c].owner \in Owners
                        /\ request[c].tries \in 0 .. RETRY_ATTEMPTS - 1
      BY DEF GateTypeOK, GateBounds, RequestStages, Owners
    <2>1. request[c] \in RequestType /\ request[c].tries < RETRY_ATTEMPTS
      BY DEF GateInv, GateBounds
    <2>2. request[c].tries \in Nat
      BY <2>1 DEF RequestType, Counts
    <2> QED
      BY <2>1, <2>2, GateAssumption DEF RequestType
  <1> QED
    BY <1>1, <1>2, <1>3, PTL DEF GateSpec

-----------------------------------------------------------------------------
(* The ledger.                                                             *)

(* What a normalizer has to make of the report of a consumption u.         *)
AddsUp(tokens, u) ==
    /\ BilledInput(tokens) = Input(u)
    /\ tokens.output_billable = Output(u)

-----------------------------------------------------------------------------
(* The normalizers, one spelling at a time.                                *)

\* What a spelling cannot tell is not consumed through it.
LEMMA UsesOfKinds ==
  ASSUME NEW shape, NEW c \in [Kinds -> Nat]
  PROVE  /\ Uses(shape, c) \in [Kinds -> Nat]
         /\ \A k \in Kinds \ Has(shape) : Uses(shape, c)[k] = 0
  BY DEF Uses

\* A consumption is eight numbers.
LEMMA AreNumbers ==
  ASSUME NEW u \in [Kinds -> Nat]
  PROVE  /\ u.text \in Nat /\ u.audio \in Nat /\ u.write5m \in Nat /\ u.write1h \in Nat
         /\ u.read \in Nat /\ u.readAudio \in Nat /\ u.out \in Nat /\ u.thought \in Nat
  BY DEF Kinds

\* A count that was left out because it was 0 counts as 0.
LEMMA LeftOutIsZero ==
  \A n \in Int : Or0(n) = n /\ Or0(OrNull(n)) = n /\ Or0(Null) = 0 /\ Or0(NoneOf(OrNull(n))) = 0
  BY LedgerAssumption DEF Or0, OrNull, NoneOf

\* The fields of a normalized report.
LEMMA Fields ==
  ASSUME NEW uncached, NEW audio, NEW w5, NEW w1, NEW read, NEW output, NEW thinking
  PROVE  LET t == Tally(uncached, audio, w5, w1, read, output, thinking) IN
         /\ BilledInput(t) = Or0(uncached) + Or0(audio) + Or0(w5) + Or0(w1) + Or0(read)
         /\ t.output_billable = output
  BY DEF Tally, BilledInput

\* The cached input and the writes come apart from the input.
LEMMA AnthropicAddsUp ==
  ASSUME NEW u \in [Kinds -> Nat],
         \A k \in Kinds \ Has("anthropic") : u[k] = 0,
         NEW r \in UsageReports("anthropic", u)
  PROVE  AddsUp(NormalizeAnthropic(r), u)
  <1>1. u.audio = 0 /\ u.readAudio = 0
    BY DEF Has, Kinds
  <1>2. r.input = u.text /\ r.created = u.write5m + u.write1h /\ r.read = u.read /\ r.output = Output(u)
    BY DEF UsageReports
  <1>3. \/ r.w5 = Null
        \/ r.w5 = u.write5m /\ r.w1 = u.write1h /\ r.w5 # Null
    BY AreNumbers, LedgerAssumption DEF UsageReports
  <1>4. CASE r.w5 = Null
    <2>1. NormalizeAnthropic(r) = Tally(r.input, Null, r.created, 0, r.read, r.output, Null)
      BY <1>4 DEF NormalizeAnthropic
    <2> QED
      BY <1>1, <1>2, <2>1, Fields, LeftOutIsZero, AreNumbers DEF AddsUp, Input
  <1>5. CASE r.w5 = u.write5m /\ r.w1 = u.write1h /\ r.w5 # Null
    <2>1. NormalizeAnthropic(r) = Tally(r.input, Null, r.w5, r.w1, r.read, r.output, Null)
      BY <1>5 DEF NormalizeAnthropic
    <2> QED
      BY <1>1, <1>2, <1>5, <2>1, Fields, LeftOutIsZero, AreNumbers DEF AddsUp, Input
  <1> QED
    BY <1>3, <1>4, <1>5

\* The prompt includes what was cached and written.
LEMMA OpenaiAddsUp ==
  ASSUME NEW u \in [Kinds -> Nat],
         \A k \in Kinds \ Has("openai") : u[k] = 0,
         NEW r \in UsageReports("openai", u)
  PROVE  AddsUp(NormalizeOpenai(r), u)
  <1>1. u.audio = 0 /\ u.readAudio = 0 /\ u.write1h = 0
    BY DEF Has, Kinds
  <1>2. /\ r.prompt = Input(u) /\ r.cached = u.read /\ r.written = OrNull(u.write5m)
        /\ r.completion = Output(u)
    BY DEF UsageReports
  <1>3. Or0(r.written) = u.write5m
    BY <1>2, LeftOutIsZero, AreNumbers
  <1>4. r.prompt - r.cached - Or0(r.written) = u.text
    BY <1>1, <1>2, <1>3, AreNumbers DEF Input
  <1>5. BilledInput(NormalizeOpenai(r)) = u.text + 0 + u.write5m + 0 + u.read
    BY <1>2, <1>3, <1>4, Fields, LeftOutIsZero, AreNumbers DEF NormalizeOpenai
  <1> QED
    BY <1>1, <1>2, <1>5, Fields, AreNumbers DEF AddsUp, NormalizeOpenai, Input

\* The prompt includes cached tokens and audio, and the cached tokens cached audio.
LEMMA GeminiAddsUp ==
  ASSUME NEW u \in [Kinds -> Nat],
         \A k \in Kinds \ Has("gemini") : u[k] = 0,
         NEW r \in UsageReports("gemini", u)
  PROVE  AddsUp(NormalizeGemini(r), u)
  <1> DEFINE cached == u.read + u.readAudio
             audio == u.audio + u.readAudio
             field == IF r.audio = 0 THEN Null ELSE r.audio - r.audioCached
  <1>1. u.write5m = 0 /\ u.write1h = 0
    BY DEF Has, Kinds
  <1>2. /\ r.prompt = Input(u) /\ r.cached = cached /\ r.audio = audio
        /\ r.audioCached = u.readAudio /\ r.candidates = u.out /\ r.thoughts = OrNull(u.thought)
    BY DEF UsageReports
  <1>3. r.audio - r.audioCached = u.audio
    BY <1>2, AreNumbers
  <1>4. Or0(field) = u.audio
    <2>1. r.audio = 0 => u.audio = 0
      BY <1>2, AreNumbers
    <2> QED
      BY <1>3, <2>1, LeftOutIsZero, AreNumbers
  <1>5. r.prompt - r.cached - (r.audio - r.audioCached) = u.text
    BY <1>1, <1>2, <1>3, AreNumbers DEF Input
  <1>6. r.candidates + Or0(r.thoughts) = Output(u)
    BY <1>2, LeftOutIsZero, AreNumbers DEF Output
  <1>7. NormalizeGemini(r) = Tally(r.prompt - r.cached - (r.audio - r.audioCached), field,
                                    Null, Null, r.cached, r.candidates + Or0(r.thoughts), r.thoughts)
    BY DEF NormalizeGemini
  <1> HIDE DEF field
  <1>8. BilledInput(NormalizeGemini(r)) = u.text + u.audio + 0 + 0 + cached
    BY <1>2, <1>4, <1>5, <1>7, Fields, LeftOutIsZero, AreNumbers
  <1>9. NormalizeGemini(r).output_billable = Output(u)
    BY <1>6, <1>7, Fields
  <1> QED
    BY <1>1, <1>8, <1>9, AreNumbers DEF AddsUp, Input

\* The input includes everything that was read, written or heard.
LEMMA LangchainAddsUp ==
  ASSUME NEW u \in [Kinds -> Nat],
         \A k \in Kinds \ Has("langchain") : u[k] = 0,
         NEW r \in UsageReports("langchain", u)
  PROVE  AddsUp(NormalizeLangchain(r), u)
  <1>1. u.readAudio = 0 /\ u.write1h = 0
    BY DEF Has, Kinds
  <1>2. /\ r.total = Input(u) /\ r.read = OrNull(u.read) /\ r.written = OrNull(u.write5m)
        /\ r.audio = OrNull(u.audio) /\ r.output = Output(u)
    BY DEF UsageReports
  <1>3. /\ Or0(r.read) = u.read /\ Or0(r.written) = u.write5m /\ Or0(r.audio) = u.audio
        /\ Or0(NoneOf(r.written)) = 0
    BY <1>2, LeftOutIsZero, AreNumbers
  <1>4. r.total - Or0(r.read) - Or0(r.written) - Or0(r.audio) = u.text
    BY <1>1, <1>2, <1>3, AreNumbers DEF Input
  <1>5. BilledInput(NormalizeLangchain(r)) = u.text + u.audio + u.write5m + 0 + u.read
    BY <1>3, <1>4, Fields, LeftOutIsZero, AreNumbers DEF NormalizeLangchain
  <1> QED
    BY <1>1, <1>2, <1>5, Fields, AreNumbers DEF AddsUp, NormalizeLangchain, Input

\* The details come whole or not at all.
LEMMA SdkAddsUp ==
  ASSUME NEW u \in [Kinds -> Nat],
         \A k \in Kinds \ Has("sdk") : u[k] = 0,
         NEW r \in UsageReports("sdk", u)
  PROVE  AddsUp(NormalizeSdk(r), u)
  <1>1. u.audio = 0 /\ u.readAudio = 0 /\ u.write1h = 0
    BY DEF Has, Kinds
  <1>2. /\ r.total = Input(u) /\ r.output = Output(u)
        /\ \/ r.rest = u.text /\ r.read = OrNull(u.read) /\ r.written = OrNull(u.write5m)
           \/ r.rest = Null /\ r.read = Null /\ r.written = Null
    BY DEF UsageReports
  <1>3. NormalizeSdk(r).output_billable = Output(u)
    BY <1>2, Fields DEF NormalizeSdk
  <1>4. CASE r.rest = u.text /\ r.read = OrNull(u.read) /\ r.written = OrNull(u.write5m)
    <2>1. /\ Or0(r.read) = u.read /\ Or0(r.written) = u.write5m /\ Or0(NoneOf(r.written)) = 0
          /\ r.rest # Null /\ Or0(r.rest) = u.text
      BY <1>4, LeftOutIsZero, AreNumbers, LedgerAssumption
    <2>2. BilledInput(NormalizeSdk(r)) = u.text + 0 + u.write5m + 0 + u.read
      BY <2>1, Fields, LeftOutIsZero, AreNumbers DEF NormalizeSdk
    <2> QED
      BY <1>1, <1>3, <2>2, AreNumbers DEF AddsUp, Input
  <1>5. CASE r.rest = Null /\ r.read = Null /\ r.written = Null
    <2>1. Input(u) \in Int
      BY AreNumbers DEF Input
    <2>2. BilledInput(NormalizeSdk(r)) = Input(u) + 0 + 0 + 0 + 0
      BY <1>2, <1>5, <2>1, Fields, LeftOutIsZero DEF NormalizeSdk, NoneOf
    <2> QED
      BY <1>3, <2>1, <2>2 DEF AddsUp
  <1> QED
    BY <1>2, <1>4, <1>5

\* There is one input and one output.
LEMMA OllamaAddsUp ==
  ASSUME NEW u \in [Kinds -> Nat],
         \A k \in Kinds \ Has("ollama") : u[k] = 0,
         NEW r \in UsageReports("ollama", u)
  PROVE  AddsUp(NormalizeOllama(r), u)
  <1>1. /\ u.audio = 0 /\ u.readAudio = 0 /\ u.write1h = 0 /\ u.write5m = 0
        /\ u.read = 0 /\ u.thought = 0
    BY DEF Has, Kinds
  <1>2. r.prompt = u.text /\ r.output = u.out
    BY DEF UsageReports
  <1>3. BilledInput(NormalizeOllama(r)) = u.text + 0 + 0 + 0 + 0
    BY <1>2, Fields, LeftOutIsZero, AreNumbers DEF NormalizeOllama
  <1> QED
    BY <1>1, <1>2, <1>3, Fields, AreNumbers DEF AddsUp, NormalizeOllama, Input, Output

\* Whatever a call site's spelling is, the report of its usage adds up.
LEMMA EveryReportAddsUp ==
  ASSUME NEW op \in Operations, NEW c \in Consumed,
         NEW r \in UsageReports(Shape[op], Uses(Shape[op], c))
  PROVE  LET u == Uses(Shape[op], c)
             tokens == Normalize(Shape[op], r) IN
         AddsUp(tokens, u) /\ u # Null /\ tokens # NoTokens
  <1> DEFINE shape == Shape[op]
             u == Uses(shape, c)
             tokens == Normalize(shape, r)
  <1>1. /\ u \in [Kinds -> Nat] /\ \A k \in Kinds \ Has(shape) : u[k] = 0
        /\ r \in UsageReports(shape, u)
    BY UsesOfKinds, LedgerAssumption
  <1>2. shape \in {"langchain", "openai", "anthropic", "gemini", "ollama", "sdk"}
    BY DEF Operations, Shape
  <1> HIDE DEF shape, u
  <1>3. AddsUp(tokens, u)
    BY <1>1, <1>2, AnthropicAddsUp, OpenaiAddsUp, GeminiAddsUp, LangchainAddsUp, SdkAddsUp,
       OllamaAddsUp DEF Normalize
  <1>4. u # Null
    BY <1>1, LedgerAssumption
  <1>5. tokens.output_billable \in Nat
    BY <1>1, <1>3, AreNumbers DEF AddsUp, Output
  <1>6. NoTokens.output_billable = Null
    BY DEF NoTokens, TokenFields
  <1>7. tokens # NoTokens
    BY <1>5, <1>6, LedgerAssumption
  <1> QED
    BY <1>3, <1>4, <1>7 DEF u, shape

-----------------------------------------------------------------------------
(* The inductive invariant: what is true of every attempt t.               *)

Shaped(t) ==
    t \in [at : {t.at}, op : {t.op}, used : {t.used}, status : {t.status}, source : {t.source},
           tokens : {t.tokens}, caller : {t.caller}]

\* Until the answer is in nothing is known of the consumption.
Unreported(t) ==
    t.at \in {"new", "asking"} =>
        t.used = Null /\ t.status = Null /\ t.source = "missing" /\ t.tokens = NoTokens

\* The row's part of RowsAddUp, at all times.
Billed(t) ==
    /\ t.status = "ok" <=> t.used # Null
    /\ t.source = "missing" <=> t.tokens = NoTokens
    /\ t.source = "provider" => AddsUp(t.tokens, t.used)

Delivered(t) ==
    t.at = "over" /\ t.used # Null => t.caller \in {"answer", "unusable", "nothing", "gone"}

Good(t) ==
    /\ Shaped(t) /\ Unreported(t) /\ Billed(t) /\ Delivered(t)
    /\ t.at \in {"asking", "exiting"} => t.op \in Operations

LedgerInv == attempt = [a \in Attempts |-> attempt[a]] /\ \A a \in Attempts : Good(attempt[a])

\* A step of one attempt leaves the others alone.
LEMMA OneAttempt ==
  ASSUME LedgerInv, NEW a \in Attempts, NEW t, Good(t), attempt' = [attempt EXCEPT ![a] = t]
  PROVE  LedgerInv'
  <1>1. \A b \in Attempts : attempt'[b] = IF b = a THEN t ELSE attempt[b]
    BY DEF LedgerInv
  <1>2. \A b \in Attempts : Good(attempt'[b])
    BY <1>1, Zenon DEF LedgerInv
  <1>3. attempt' = [b \in Attempts |-> attempt'[b]]
    BY DEF LedgerInv
  <1> QED
    BY <1>2, <1>3 DEF LedgerInv

\* An attempt begins with nothing known.
LEMMA BeginsKeepsIt ==
  ASSUME LedgerInv, NEW a \in Attempts, AttemptBegins(a)
  PROVE  LedgerInv'
  <1>1. PICK op \in Operations : attempt' = [attempt EXCEPT ![a].at = "asking", ![a].op = op]
    BY DEF AttemptBegins
  <1> DEFINE t == [attempt[a] EXCEPT !.at = "asking", !.op = op]
  <1>2. Shaped(attempt[a]) /\ Unreported(attempt[a]) /\ attempt[a].at = "new"
    BY DEF LedgerInv, Good, AttemptBegins
  <1>3. attempt' = [attempt EXCEPT ![a] = t]
    BY <1>1
  <1>4. /\ t.at = "asking" /\ t.op = op /\ t.used = Null /\ t.status = Null
        /\ t.source = "missing" /\ t.tokens = NoTokens /\ Shaped(t)
    BY <1>2 DEF Shaped, Unreported
  <1> HIDE DEF t
  <1>5. Good(t)
    BY <1>4, LedgerAssumption DEF Good, Unreported, Billed, Delivered
  <1> QED
    BY <1>3, <1>5, OneAttempt

\* The answer is in, with a usage that adds up or with none.
LEMMA AnswersKeepsIt ==
  ASSUME LedgerInv, NEW a \in Attempts, Succeeds(a)
  PROVE  LedgerInv'
  <1> DEFINE shape == Shape[attempt[a].op]
  <1>1. /\ Shaped(attempt[a]) /\ Unreported(attempt[a]) /\ attempt[a].at = "asking"
        /\ attempt[a].op \in Operations
    BY DEF LedgerInv, Good, Succeeds
  <1>2. PICK c \in Consumed :
           \/ attempt' = [attempt EXCEPT ![a] = Ok(a, Uses(shape, c))]
           \/ \E usage \in UsageReports(shape, Uses(shape, c)) :
                 attempt' = [attempt EXCEPT ![a] = Reported(Ok(a, Uses(shape, c)), Normalize(shape, usage))]
    BY DEF Succeeds
  <1> DEFINE u == Uses(shape, c)
             t == Ok(a, u)
  <1>3. u # Null
    BY UsesOfKinds, LedgerAssumption
  <1> HIDE DEF u
  <1>4. /\ t.at = "exiting" /\ t.op = attempt[a].op /\ t.used = u /\ t.status = "ok"
        /\ t.source = "missing" /\ t.tokens = NoTokens /\ Shaped(t)
    BY <1>1 DEF Ok, Shaped, Unreported
  <1> HIDE DEF t
  <1>5. CASE attempt' = [attempt EXCEPT ![a] = t]
    <2>1. Good(t)
      BY <1>1, <1>3, <1>4 DEF Good, Unreported, Billed, Delivered
    <2> QED
      BY <1>5, <2>1, OneAttempt
  <1>6. ASSUME NEW usage \in UsageReports(shape, u),
               attempt' = [attempt EXCEPT ![a] = Reported(t, Normalize(shape, usage))]
        PROVE  LedgerInv'
    <2> DEFINE tokens == Normalize(shape, usage)
               x == Reported(t, tokens)
    <2>1. AddsUp(tokens, u) /\ tokens # NoTokens
      BY <1>1, EveryReportAddsUp DEF u
    <2> HIDE DEF tokens
    <2>2. /\ x.at = "exiting" /\ x.op = attempt[a].op /\ x.used = u /\ x.status = "ok"
          /\ x.source = "provider" /\ x.tokens = tokens /\ Shaped(x)
      BY <1>4 DEF Reported, Shaped
    <2>3. attempt' = [attempt EXCEPT ![a] = x]
      BY <1>6 DEF tokens
    <2> HIDE DEF x
    <2>4. Good(x)
      BY <1>1, <1>3, <2>1, <2>2 DEF Good, Unreported, Billed, Delivered
    <2> QED
      BY <2>3, <2>4, OneAttempt
  <1> QED
    BY <1>2, <1>5, <1>6 DEF t, u

\* A failure consumes nothing that is known.
LEMMA FailsKeepsIt ==
  ASSUME LedgerInv, NEW a \in Attempts, Fails(a)
  PROVE  LedgerInv'
  <1>1. /\ Shaped(attempt[a]) /\ Unreported(attempt[a]) /\ attempt[a].at = "asking"
        /\ attempt[a].op \in Operations
    BY DEF LedgerInv, Good, Fails
  <1>2. ASSUME NEW t, attempt' = [attempt EXCEPT ![a] = t], Shaped(t), t.at \in {"over", "exiting"},
               t.op = attempt[a].op, t.used = attempt[a].used, t.status \in {Null, "failed"},
               t.source = attempt[a].source, t.tokens = attempt[a].tokens
        PROVE  LedgerInv'
    <2>1. Good(t)
      BY <1>1, <1>2, LedgerAssumption DEF Good, Unreported, Billed, Delivered
    <2> QED
      BY <1>2, <2>1, OneAttempt
  <1>3. CASE attempt' = [attempt EXCEPT ![a].at = "over", ![a].caller = "failure"]
    <2> DEFINE t == [attempt[a] EXCEPT !.at = "over", !.caller = "failure"]
    <2>1. /\ Shaped(t) /\ t.at = "over" /\ t.op = attempt[a].op /\ t.used = attempt[a].used
          /\ t.status = Null /\ t.source = attempt[a].source /\ t.tokens = attempt[a].tokens
      BY <1>1 DEF Shaped, Unreported
    <2>2. attempt' = [attempt EXCEPT ![a] = t]
      BY <1>3
    <2> HIDE DEF t
    <2> QED
      BY <1>2, <2>1, <2>2
  <1>4. CASE attempt' = [attempt EXCEPT ![a].at = "exiting", ![a].status = "failed"]
    <2> DEFINE t == [attempt[a] EXCEPT !.at = "exiting", !.status = "failed"]
    <2>1. /\ Shaped(t) /\ t.at = "exiting" /\ t.op = attempt[a].op /\ t.used = attempt[a].used
          /\ t.status = "failed" /\ t.source = attempt[a].source /\ t.tokens = attempt[a].tokens
      BY <1>1 DEF Shaped
    <2>2. attempt' = [attempt EXCEPT ![a] = t]
      BY <1>4
    <2> HIDE DEF t
    <2> QED
      BY <1>2, <2>1, <2>2
  <1> QED
    BY <1>3, <1>4 DEF Fails

\* What the caller goes on with when the answer was in.
LEMMA AnswersAreDelivered ==
  ASSUME NEW op \in Operations, NEW outcome \in Outcomes(op, "ok")
  PROVE  outcome \in {"answer", "unusable", "nothing"}
  BY DEF Operations, Shape, Outcomes, RoutingEnds, BestEffortEnds, SearchEnds, ViewEnds, CompositionEnds

\* An attempt t that is over now keeps what is billed for it.
LEMMA EndKeepsGood ==
  ASSUME NEW t, Good(t), NEW outcome,
         t.used # Null => outcome \in {"answer", "unusable", "nothing", "gone"}
  PROVE  Good([t EXCEPT !.at = "over", !.caller = outcome])
  <1> DEFINE x == [t EXCEPT !.at = "over", !.caller = outcome]
  <1>1. /\ Shaped(x) /\ x.at = "over" /\ x.caller = outcome /\ x.used = t.used
        /\ x.status = t.status /\ x.source = t.source /\ x.tokens = t.tokens
    BY DEF Good, Shaped
  <1> HIDE DEF x
  <1>2. Billed(x)
    BY <1>1 DEF Good, Billed
  <1>3. Unreported(x) /\ Delivered(x)
    BY <1>1 DEF Unreported, Delivered
  <1> QED
    BY <1>1, <1>2, <1>3 DEF Good, x

\* The caller goes on with what it got.
LEMMA ExitsKeepsIt ==
  ASSUME LedgerInv, NEW a \in Attempts, Exits(a)
  PROVE  LedgerInv'
  <1>1. /\ Good(attempt[a]) /\ attempt[a].op \in Operations
        /\ attempt[a].used # Null => attempt[a].status = "ok"
    BY DEF LedgerInv, Good, Billed, Exits
  <1>2. PICK outcome \in Outcomes(attempt[a].op, attempt[a].status) :
           attempt' = [attempt EXCEPT ![a].at = "over", ![a].caller = outcome]
    BY DEF Exits
  <1>3. attempt[a].used # Null => outcome \in {"answer", "unusable", "nothing", "gone"}
    BY <1>1, <1>2, AnswersAreDelivered
  <1>4. Good([attempt[a] EXCEPT !.at = "over", !.caller = outcome])
    BY <1>1, <1>3, EndKeepsGood
  <1>5. attempt' = [attempt EXCEPT ![a] = [attempt[a] EXCEPT !.at = "over", !.caller = outcome]]
    BY <1>2
  <1> QED
    BY <1>4, <1>5, OneAttempt

\* A restart ends attempts and changes no row.
LEMMA RestartKeepsIt ==
  ASSUME LedgerInv, Restart
  PROVE  LedgerInv'
  <1>1. \A a \in Attempts : \/ attempt'[a] = attempt[a]
                            \/ attempt'[a] = [attempt[a] EXCEPT !.at = "over", !.caller = "gone"]
    BY DEF Restart
  <1>2. ASSUME NEW a \in Attempts
        PROVE  Good(attempt'[a])
    <2>1. Good(attempt[a])
      BY DEF LedgerInv
    <2>2. Good([attempt[a] EXCEPT !.at = "over", !.caller = "gone"])
      BY <2>1, EndKeepsGood
    <2> QED
      BY <1>1, <2>1, <2>2
  <1>3. attempt' = [a \in Attempts |-> attempt'[a]]
    BY DEF Restart
  <1> QED
    BY <1>2, <1>3 DEF LedgerInv

-----------------------------------------------------------------------------
LEMMA InitKeepsLedger ==
  LedgerInit => LedgerInv
  <1>1. Good(NewAttempt)
    BY LedgerAssumption DEF NewAttempt, Good, Shaped, Unreported, Billed, Delivered
  <1> QED
    BY <1>1 DEF LedgerInit, LedgerInv

LEMMA NextKeepsLedger ==
  LedgerInv /\ [LedgerNext]_ledgerVars => LedgerInv'
  <1> SUFFICES ASSUME LedgerInv, [LedgerNext]_ledgerVars PROVE LedgerInv'
    OBVIOUS
  <1>1. CASE UNCHANGED ledgerVars \/ LedgerRest
    BY <1>1 DEF ledgerVars, LedgerRest, LedgerInv
  <1> QED
    BY <1>1, BeginsKeepsIt, AnswersKeepsIt, FailsKeepsIt, ExitsKeepsIt, RestartKeepsIt DEF LedgerNext

(* Every row of the ledger tells the truth about its request: its status,  *)
(* and, with a report, fields that add up to the tokens consumed in every  *)
(* provider's spelling (services/llm_ledger.py, normalize and Attempt),    *)
(* for any attempts and any consumption.                                   *)
THEOREM RowsAlwaysAddUp == LedgerSpec => []RowsAddUp
  <1>1. LedgerInv => RowsAddUp
    <2> SUFFICES ASSUME LedgerInv, NEW a \in Attempts
                 PROVE  /\ a \in spool => Billed(attempt[a])
                        /\ Delivered(attempt[a])
      BY DEF RowsAddUp, Billed, Delivered, AddsUp
    <2> QED
      BY DEF LedgerInv, Good
  <1> QED
    BY <1>1, InitKeepsLedger, NextKeepsLedger, PTL DEF LedgerSpec

-----------------------------------------------------------------------------
(* The kinds of a row.                                                     *)

\* An attempt t of the right kinds.
RowTyped(t) == /\ t.at \in {"new", "asking", "exiting", "over"}
               /\ t.status \in {Null, "ok", "failed"}
               /\ DOMAIN t.tokens = TokenFields

LedgerKinds == /\ spool \subseteq Attempts /\ torn \in BOOLEAN
               /\ \A a \in Attempts : RowTyped(attempt[a])

\* Every normalizer fills in the same fields.
LEMMA ReportsAreTallies ==
  ASSUME NEW op \in Operations, NEW r
  PROVE  DOMAIN Normalize(Shape[op], r) = TokenFields
  <1>1. ASSUME NEW uncached, NEW audio, NEW w5, NEW w1, NEW read, NEW output, NEW thinking
        PROVE  DOMAIN Tally(uncached, audio, w5, w1, read, output, thinking) = TokenFields
    BY DEF Tally, TokenFields
  <1>2. Shape[op] \in {"langchain", "openai", "anthropic", "gemini", "ollama", "sdk"}
    BY DEF Operations, Shape
  <1>3. /\ DOMAIN NormalizeAnthropic(r) = TokenFields /\ DOMAIN NormalizeSdk(r) = TokenFields
        /\ DOMAIN NormalizeLangchain(r) = TokenFields /\ DOMAIN NormalizeOpenai(r) = TokenFields
        /\ DOMAIN NormalizeGemini(r) = TokenFields /\ DOMAIN NormalizeOllama(r) = TokenFields
    BY <1>1 DEF NormalizeAnthropic, NormalizeSdk, NormalizeLangchain, NormalizeOpenai,
       NormalizeGemini, NormalizeOllama
  <1> QED
    BY <1>2, <1>3 DEF Normalize

\* A step of one attempt leaves the others alone.
LEMMA OneRowTyped ==
  ASSUME LedgerInv, LedgerKinds, NEW a \in Attempts, NEW t, RowTyped(t),
         attempt' = [attempt EXCEPT ![a] = t]
  PROVE  \A b \in Attempts : RowTyped(attempt'[b])
  <1>1. \A b \in Attempts : attempt'[b] = IF b = a THEN t ELSE attempt[b]
    BY DEF LedgerInv
  <1> QED
    BY <1>1, Zenon DEF LedgerKinds

LEMMA AttemptKeepsKinds ==
  ASSUME LedgerInv, LedgerKinds, NEW a \in Attempts,
         AttemptBegins(a) \/ Succeeds(a) \/ Fails(a) \/ Exits(a)
  PROVE  \A b \in Attempts : RowTyped(attempt'[b])
  <1>1. Shaped(attempt[a]) /\ RowTyped(attempt[a])
    BY DEF LedgerInv, Good, LedgerKinds
  <1>2. CASE AttemptBegins(a)
    <2>1. PICK op \in Operations : attempt' = [attempt EXCEPT ![a].at = "asking", ![a].op = op]
      BY <1>2 DEF AttemptBegins
    <2> DEFINE t == [attempt[a] EXCEPT !.at = "asking", !.op = op]
    <2>2. RowTyped(t)
      BY <1>1 DEF Shaped, RowTyped
    <2>3. attempt' = [attempt EXCEPT ![a] = t]
      BY <2>1
    <2> HIDE DEF t
    <2> QED
      BY <2>2, <2>3, OneRowTyped
  <1>3. CASE Succeeds(a)
    <2> DEFINE shape == Shape[attempt[a].op]
    <2>1. PICK c \in Consumed :
             \/ attempt' = [attempt EXCEPT ![a] = Ok(a, Uses(shape, c))]
             \/ \E usage \in UsageReports(shape, Uses(shape, c)) :
                   attempt' = [attempt EXCEPT ![a] = Reported(Ok(a, Uses(shape, c)), Normalize(shape, usage))]
      BY <1>3 DEF Succeeds
    <2> DEFINE u == Uses(shape, c)
               t == Ok(a, u)
    <2>2. attempt[a].op \in Operations
      BY <1>3 DEF Succeeds, LedgerInv, Good
    <2> HIDE DEF u
    <2>3. RowTyped(t) /\ t.at = "exiting" /\ t.status = "ok" /\ Shaped(t)
      BY <1>1 DEF Ok, Shaped, RowTyped
    <2> HIDE DEF t
    <2>4. CASE attempt' = [attempt EXCEPT ![a] = t]
      BY <2>3, <2>4, OneRowTyped
    <2>5. ASSUME NEW usage \in UsageReports(shape, u),
                 attempt' = [attempt EXCEPT ![a] = Reported(t, Normalize(shape, usage))]
          PROVE  \A b \in Attempts : RowTyped(attempt'[b])
      <3> DEFINE tokens == Normalize(shape, usage)
                 x == Reported(t, tokens)
      <3>1. DOMAIN tokens = TokenFields
        BY <2>2, ReportsAreTallies
      <3>2. attempt' = [attempt EXCEPT ![a] = x]
        BY <2>5
      <3> HIDE DEF tokens
      <3>3. RowTyped(x)
        BY <2>3, <3>1 DEF Reported, Shaped, RowTyped
      <3> HIDE DEF x
      <3> QED
        BY <3>2, <3>3, OneRowTyped
    <2> QED
      BY <2>1, <2>4, <2>5 DEF t, u
  <1>4. CASE Fails(a)
    <2> DEFINE over == [attempt[a] EXCEPT !.at = "over", !.caller = "failure"]
               failed == [attempt[a] EXCEPT !.at = "exiting", !.status = "failed"]
    <2>1. RowTyped(over)
      BY <1>1 DEF Shaped, RowTyped
    <2>2. RowTyped(failed)
      BY <1>1 DEF Shaped, RowTyped
    <2>3. attempt' = [attempt EXCEPT ![a] = over] \/ attempt' = [attempt EXCEPT ![a] = failed]
      BY <1>4 DEF Fails
    <2> HIDE DEF over, failed
    <2> QED
      BY <2>1, <2>2, <2>3, OneRowTyped
  <1>5. CASE Exits(a)
    <2>1. PICK outcome \in Outcomes(attempt[a].op, attempt[a].status) :
             attempt' = [attempt EXCEPT ![a].at = "over", ![a].caller = outcome]
      BY <1>5 DEF Exits
    <2> DEFINE t == [attempt[a] EXCEPT !.at = "over", !.caller = outcome]
    <2>2. RowTyped(t)
      BY <1>1 DEF Shaped, RowTyped
    <2>3. attempt' = [attempt EXCEPT ![a] = t]
      BY <2>1
    <2> HIDE DEF t
    <2> QED
      BY <2>2, <2>3, OneRowTyped
  <1> QED
    BY <1>2, <1>3, <1>4, <1>5

LEMMA NextKeepsLedgerKinds ==
  ASSUME LedgerInv, LedgerKinds, [LedgerNext]_ledgerVars
  PROVE  LedgerKinds'
  <1>1. ASSUME NEW a \in Attempts, AttemptBegins(a) \/ Succeeds(a) \/ Fails(a) \/ Exits(a)
        PROVE  LedgerKinds'
    <2>1. spool' \subseteq Attempts /\ torn' \in BOOLEAN
      BY <1>1 DEF AttemptBegins, Succeeds, Fails, Exits, Spools, LedgerKinds
    <2> QED
      BY <1>1, <2>1, AttemptKeepsKinds DEF LedgerKinds
  <1>2. CASE Restart
    <2>1. ASSUME NEW a \in Attempts
          PROVE  RowTyped(attempt'[a])
      <3>1. \/ attempt'[a] = attempt[a]
            \/ attempt'[a] = [attempt[a] EXCEPT !.at = "over", !.caller = "gone"]
        BY <1>2 DEF Restart
      <3>2. Shaped(attempt[a]) /\ RowTyped(attempt[a])
        BY DEF LedgerInv, Good, LedgerKinds
      <3>3. RowTyped([attempt[a] EXCEPT !.at = "over", !.caller = "gone"])
        BY <3>2 DEF Shaped, RowTyped
      <3> QED
        BY <3>1, <3>2, <3>3
    <2> QED
      BY <1>2, <2>1 DEF Restart, LedgerKinds
  <1>3. CASE UNCHANGED ledgerVars \/ LedgerRest
    BY <1>3 DEF ledgerVars, LedgerRest, LedgerKinds
  <1> QED
    BY <1>1, <1>2, <1>3 DEF LedgerNext

(* Type correctness of the ledger: only attempts have rows, and a row has  *)
(* the fields of the database, no more and no fewer, whichever provider    *)
(* reported it (services/llm_ledger.py, the normalizers).                  *)
THEOREM LedgersTyped == LedgerSpec => []LedgerTypeOK
  <1>1. LedgerInit => LedgerKinds
    <2>1. RowTyped(NewAttempt)
      BY DEF NewAttempt, NoTokens, RowTyped
    <2> QED
      BY <2>1 DEF LedgerInit, LedgerKinds
  <1>2. LedgerKinds => LedgerTypeOK
    BY DEF LedgerKinds, RowTyped, LedgerTypeOK
  <1> QED
    BY <1>1, <1>2, InitKeepsLedger, NextKeepsLedger, NextKeepsLedgerKinds, PTL DEF LedgerSpec

-----------------------------------------------------------------------------
(* Fund pollers.                                                           *)

LEMMA KnownFunds ==
  ASSUME NEW p \in Pollers
  PROVE  /\ IsFiniteSet(Known(p)) /\ Known(p) \subseteq AllFunds /\ Known(p) \subseteq Funds[p]
         /\ Cardinality(Known(p)) \in Nat /\ (Known(p) # {} => Cardinality(Known(p)) >= 1)
  <1>1. IsFiniteSet(Funds[p]) /\ Known(p) \subseteq Funds[p] /\ p \in DOMAIN Funds
    BY FundAssumption DEF Known
  <1>2. IsFiniteSet(Known(p))
    BY <1>1, FS_Subset
  <1>3. Cardinality(Known(p)) \in Nat /\ (Known(p) # {} => Cardinality(Known(p)) # 0)
    BY <1>2, FS_CardinalityType, FS_EmptySet
  <1> QED
    BY <1>1, <1>2, <1>3 DEF AllFunds

\* The newest of some days is a day.
LEMMA NewestDay ==
  ASSUME NEW p \in Pollers, NEW D \in SUBSET Published[p], D # {}
  PROVE  Max(D) \in D /\ \A d \in D : Max(D) >= d
  <1>1. D \in SUBSET (1 .. LastDay) /\ LastDay \in Nat
    BY FundAssumption
  <1> QED
    BY <1>1, MaxOfIndices

\* The days are finitely many numbers, and no more of them are fresh than fit.
LEMMA DaysOfPoller ==
  ASSUME NEW p \in Pollers
  PROVE  /\ IsFiniteSet(Published[p]) /\ \A d \in Published[p] : d \in Nat
         /\ IsFiniteSet(FreshDays(p)) /\ Cardinality(FreshDays(p)) \in Nat
         /\ Cardinality(FreshDays(p)) <= SnapshotRows
  <1>1. Published[p] \subseteq 1 .. LastDay /\ LastDay \in Nat
    BY FundAssumption
  <1>2. IsFiniteSet(1 .. LastDay)
    BY <1>1, FS_Interval
  <1>3. IsFiniteSet(Published[p]) /\ FreshDays(p) \subseteq Published[p]
    BY <1>1, <1>2, FS_Subset DEF FreshDays
  <1>4. IsFiniteSet(FreshDays(p)) /\ Cardinality(FreshDays(p)) \in Nat
    BY <1>3, FS_Subset, FS_CardinalityType
  <1> QED
    BY <1>1, <1>3, <1>4, FundAssumption

\* Rows of finitely many funds and days are finitely many.
LEMMA RowsFinite ==
  ASSUME NEW F, IsFiniteSet(F), NEW D, IsFiniteSet(D)
  PROVE  IsFiniteSet([fund : F, date : D])
  <1> DEFINE h == [x \in F \X D |-> [fund |-> x[1], date |-> x[2]]]
             T == [fund : F, date : D]
  <1>1. IsFiniteSet(F \X D)
    BY FS_Product
  <1>2. h \in Surjection(F \X D, T)
    <2>1. h \in [F \X D -> T]
      OBVIOUS
    <2>2. \A t \in T : <<t.fund, t.date>> \in F \X D /\ h[<<t.fund, t.date>>] = t
      OBVIOUS
    <2> HIDE DEF h, T
    <2> QED
      BY <2>1, <2>2 DEF Surjection
  <1> HIDE DEF h, T
  <1> QED
    BY <1>1, <1>2, FS_Surjection DEF T

(* As many rows from day d on as the answer holds, without the row of one  *)
(* fund of that day: the day is too long ago, for there would be more      *)
(* rows of fresh days than all funds have.                                 *)
LEMMA CutOffIsStale ==
  ASSUME NEW p \in Pollers, Known(p) # {}, NEW f \in Known(p), NEW d \in Published[p],
         NEW R, Cardinality(R) = Limit(p, SnapshotRows), [fund |-> f, date |-> d] \notin R,
         R \subseteq [fund : Known(p), date : {e \in Published[p] : e >= d}]
  PROVE  Today > d + StaleAfter[p]
  <1> DEFINE K == Known(p)
             E == FreshDays(p)
             P == K \X E
             g == [x \in R |-> <<x.fund, x.date>>]
             c == Cardinality(K)
             n == Cardinality(E)
  <1>1. /\ Today \in Nat /\ SnapshotRows \in Nat /\ StaleAfter[p] \in Nat /\ n <= SnapshotRows
        /\ n \in Nat /\ IsFiniteSet(E) /\ IsFiniteSet(K) /\ c \in Nat /\ c >= 1
        /\ \A e \in Published[p] : e \in Nat
    BY FundAssumption, KnownFunds, DaysOfPoller
  <1>2. SUFFICES ASSUME Today <= d + StaleAfter[p]
                 PROVE  FALSE
    BY <1>1
  <1>3. IsFiniteSet(P) /\ Cardinality(P) = c * n
    BY <1>1, FS_Product
  <1>4. d \in E /\ \A e \in Published[p] : e >= d => e \in E
    BY <1>1, <1>2 DEF FreshDays
  <1>5. g \in Injection(R, P \ {<<f, d>>})
    <2>1. \A x \in R : x.fund \in K /\ x.date \in E /\ x = [fund |-> x.fund, date |-> x.date]
      BY <1>4
    <2> HIDE DEF E
    <2>2. \A x \in R : g[x] = <<x.fund, x.date>> /\ g[x] \in P /\ g[x] # <<f, d>>
      BY <2>1
    <2>3. \A x, y \in R : g[x] = g[y] => x = y
      BY <2>1
    <2>4. g \in [R -> P \ {<<f, d>>}]
      BY <2>2
    <2> HIDE DEF g, P
    <2> QED
      BY <2>3, <2>4 DEF Injection, IsInjective
  <1>6. <<f, d>> \in P
    BY <1>4
  <1> HIDE DEF g, P, K, E
  <1>7. /\ IsFiniteSet(P \ {<<f, d>>}) /\ Cardinality(P \ {<<f, d>>}) = Cardinality(P) - 1
    BY <1>3, <1>6, FS_RemoveElement
  <1>8. Cardinality(R) <= Cardinality(P) - 1
    BY <1>5, <1>7, FS_Injection
  <1>9. Cardinality(R) = SnapshotRows * c
    BY DEF Limit, K
  <1> HIDE DEF c, n
  <1>10. SnapshotRows * c < c * n
    <2>1. c * n \in Nat /\ SnapshotRows * c \in Nat
      BY <1>1
    <2> QED
      BY <1>3, <1>8, <1>9, <2>1
  <1>11. PICK m \in Nat : SnapshotRows = n + m
    <2>1. SnapshotRows - n \in Nat /\ SnapshotRows = n + (SnapshotRows - n)
      BY <1>1
    <2> QED
      BY <2>1
  <1>12. (n + m) * c = c * n + m * c /\ m * c >= 0
    BY <1>1
  <1> QED
    BY <1>1, <1>10, <1>11, <1>12

RowDays(R, f) == {r.date : r \in {r \in R : r.fund = f}}

(* What a fund's entry says of its snapshots is so although the answer for *)
(* all funds is cut.                                                       *)
LEMMA CutsKeepStaleness ==
  ASSUME NEW p \in Pollers, \A f \in Funds[p] : snapshots[f] \subseteq Published[p],
         NEW R \in CutNewest(CurrentOf(p), Limit(p, SnapshotRows)), NEW f \in Known(p)
  PROVE  Stale(p, RowDays(R, f)) <=> Stale(p, snapshots[f])
  <1> DEFINE rows == CurrentOf(p)
             D == RowDays(R, f)
             S == snapshots[f]
  <1>1. /\ R \subseteq rows /\ Cardinality(R) = Fewest(Limit(p, SnapshotRows), Cardinality(rows))
        /\ \A x \in R, y \in rows \ R : x.date >= y.date
    BY DEF CutNewest, Cut
  <1>2. /\ rows \subseteq [fund : Known(p), date : Published[p]]
        /\ \A x \in rows : x.date \in snapshots[x.fund]
    BY DEF CurrentOf
  <1>3. \A d \in S : [fund |-> f, date |-> d] \in rows
    BY KnownFunds DEF CurrentOf
  <1>4. S \subseteq Published[p] /\ D \subseteq S
    BY <1>1, <1>2, KnownFunds DEF RowDays
  <1>5. ASSUME S # {}, [fund |-> f, date |-> Max(S)] \in R
        PROVE  Stale(p, D) <=> Stale(p, S)
    <2>1. Max(S) \in D
      BY <1>5 DEF RowDays
    <2>2. Max(S) \in S /\ \A d \in S : Max(S) >= d
      BY <1>4, <1>5, NewestDay
    <2>3. Max(D) \in D /\ \A d \in D : Max(D) >= d
      BY <1>4, <2>1, NewestDay
    <2>4. Max(D) = Max(S)
      BY <1>4, <2>1, <2>2, <2>3, DaysOfPoller
    <2> QED
      BY <1>5, <2>1, <2>4 DEF Stale
  <1>6. ASSUME S # {}, [fund |-> f, date |-> Max(S)] \notin R
        PROVE  Stale(p, D) /\ Stale(p, S)
    <2> DEFINE m == Max(S)
               newest == [fund |-> f, date |-> m]
    <2>1. m \in S /\ m \in Published[p] /\ m \in Nat /\ \A d \in S : m >= d
      BY <1>4, <1>6, NewestDay, DaysOfPoller
    <2>2. newest \in rows \ R /\ newest.date = m
      BY <1>3, <1>6, <2>1
    <2> HIDE DEF m
    <2>3. R \subseteq [fund : Known(p), date : {e \in Published[p] : e >= m}]
      <3>1. \A x \in R : x.date >= m /\ x.date \in Published[p] /\ x.fund \in Known(p)
                        /\ x = [fund |-> x.fund, date |-> x.date]
        BY <1>1, <1>2, <2>2
      <3> QED
        BY <3>1
    <2>4. Cardinality(R) = Limit(p, SnapshotRows)
      <3>1. IsFiniteSet([fund : Known(p), date : Published[p]])
        BY KnownFunds, DaysOfPoller, RowsFinite
      <3>2. IsFiniteSet(rows) /\ IsFiniteSet(R)
        BY <1>1, <1>2, <3>1, FS_Subset
      <3>3. Cardinality(R) # Cardinality(rows)
        BY <1>1, <2>2, <3>2, FS_Subset
      <3> QED
        BY <1>1, <3>3 DEF Fewest
    <2>5. Today > m + StaleAfter[p]
      BY <2>1, <2>2, <2>3, <2>4, CutOffIsStale
    <2>6. D = {}
      <3>1. ASSUME NEW d \in D
            PROVE  FALSE
        <4>1. PICK x \in R : x.fund = f /\ x.date = d
          BY <3>1 DEF RowDays
        <4>2. d \in Nat /\ d >= m /\ m >= d /\ x = [fund |-> f, date |-> d]
          BY <1>4, <2>1, <2>3, <4>1, DaysOfPoller
        <4>3. d = m
          BY <2>1, <4>2
        <4> QED
          BY <2>2, <4>1, <4>2, <4>3
      <3> QED
        BY <3>1
    <2> QED
      BY <2>5, <2>6 DEF Stale, m
  <1>7. ASSUME S = {}
        PROVE  Stale(p, D) /\ Stale(p, S)
    BY <1>4, <1>7 DEF Stale
  <1> QED
    BY <1>5, <1>6, <1>7

FailuresOf(R, f) == Cardinality({r \in R : r.fund = f})

LEMMA FailuresFinite ==
  ASSUME NEW F, IsFiniteSet(F)
  PROVE  IsFiniteSet(OpenFailures(F))
  <1> DEFINE h == [x \in F \X (1 .. MaxAttempts) |-> [fund |-> x[1], nth |-> x[2]]]
             T == [fund : F, nth : 1 .. MaxAttempts]
  <1>1. IsFiniteSet(F \X (1 .. MaxAttempts))
    <2>1. IsFiniteSet(1 .. MaxAttempts)
      BY FS_Interval, FundAssumption
    <2> QED
      BY <2>1, FS_Product
  <1>2. h \in Surjection(F \X (1 .. MaxAttempts), T)
    <2>1. h \in [F \X (1 .. MaxAttempts) -> T]
      OBVIOUS
    <2>2. \A t \in T : <<t.fund, t.nth>> \in F \X (1 .. MaxAttempts) /\ h[<<t.fund, t.nth>>] = t
      OBVIOUS
    <2> HIDE DEF h, T
    <2> QED
      BY <2>1, <2>2 DEF Surjection
  <1>3. OpenFailures(F) \subseteq T
    BY DEF OpenFailures
  <1> HIDE DEF h, T
  <1> QED
    BY <1>1, <1>2, <1>3, FS_Surjection, FS_Subset

(* No entry counts a failure exactly if there is none, although the answer *)
(* for all funds is cut: it holds one if there is one.                     *)
LEMMA CutsKeepFailures ==
  ASSUME NEW p \in Pollers, Known(p) # {},
         NEW R \in Cut(OpenFailures(Known(p)), Limit(p, FailureRows))
  PROVE  /\ (\A f \in Known(p) : FailuresOf(R, f) = 0) => (\A f \in Known(p) : OpenFailures({f}) = {})
         /\ (\A f \in Known(p) : OpenFailures({f}) = {}) => (\A f \in Known(p) : FailuresOf(R, f) = 0)
  <1> DEFINE K == Known(p)
             rows == OpenFailures(K)
  <1>1. R \subseteq rows /\ Cardinality(R) = Fewest(Limit(p, FailureRows), Cardinality(rows))
    BY DEF Cut
  <1>2. IsFiniteSet(rows) /\ IsFiniteSet(R) /\ Cardinality(rows) \in Nat
    BY <1>1, KnownFunds, FailuresFinite, FS_Subset, FS_CardinalityType
  <1>3. \A f \in K : OpenFailures({f}) = {r \in rows : r.fund = f}
    BY DEF OpenFailures
  <1>4. \A r \in rows : r.fund \in K
    BY DEF OpenFailures
  <1>5. \A f \in K : FailuresOf(R, f) = 0 <=> {r \in R : r.fund = f} = {}
    <2>1. \A f \in K : IsFiniteSet({r \in R : r.fund = f})
      BY <1>2, FS_Subset
    <2> QED
      BY <2>1, FS_EmptySet DEF FailuresOf
  <1>6. ASSUME rows # {}
        PROVE  R # {}
    <2>1. Cardinality(rows) # 0
      BY <1>2, <1>6, FS_EmptySet
    <2>2. Limit(p, FailureRows) # 0
      <3>1. Cardinality(Known(p)) \in Nat /\ Cardinality(Known(p)) >= 1 /\ FailureRows \in Nat \ {0}
        BY KnownFunds, FundAssumption
      <3> QED
        BY <3>1 DEF Limit
    <2> QED
      BY <1>1, <2>1, <2>2, FS_EmptySet DEF Fewest
  <1> HIDE DEF K, rows
  <1>7. ASSUME \A f \in K : FailuresOf(R, f) = 0
        PROVE  \A f \in K : OpenFailures({f}) = {}
    <2>1. R = {}
      BY <1>1, <1>4, <1>5, <1>7
    <2> QED
      BY <1>3, <1>6, <2>1
  <1>8. ASSUME \A f \in K : OpenFailures({f}) = {}
        PROVE  \A f \in K : FailuresOf(R, f) = 0
    BY <1>1, <1>3, <1>5, <1>8
  <1> QED
    BY <1>7, <1>8 DEF K

\* The snapshots of a poller's funds have its days.
Dated(S) == /\ S = [f \in AllFunds |-> S[f]]
            /\ \A p \in Pollers : \A f \in Funds[p] : S[f] \subseteq Published[p]

\* A record of a check, whatever its values.
IsCheck(c) ==
  \E X : c \in [poller : X, at : X, newest : X, failed : X, todo : X, streak : X]

\* What is true of the funds of a poller.
AllWell(p, t) == Known(p) \subseteq t.fresh \intersect t.clear

\* A poller's entry was true when it was made.
Entry(p) ==
    /\ report[p] = "healthy" => Known(p) # {} /\ AllWell(p, truth)
    /\ report[p] = "unhealthy" => Known(p) = {} \/ ~AllWell(p, truth)

\* The answers are about the funds as they were, as far as the check has come.
Asked(p, c, t) ==
    /\ c.at \in {"snapshots", "failures", "perFund"} => Known(p) # {}
    /\ c.at \in {"failures", "perFund"} =>
          \A f \in Known(p) : /\ f \in t.fresh => ~Stale(p, c.newest[f])
                              /\ f \notin t.fresh => Stale(p, c.newest[f])
    /\ c.at = "perFund" => /\ (\A f \in Known(p) : c.failed[f] = 0) => Known(p) \subseteq t.clear
                           /\ Known(p) \subseteq t.clear => \A f \in Known(p) : c.failed[f] = 0

(* The inductive invariant.                                                *)
FundInv ==
    /\ Dated(snapshots)
    /\ IsCheck(check) /\ check.poller \in Pollers \union {0}
    /\ truth \in [fresh : SUBSET AllFunds, clear : SUBSET AllFunds]
    /\ report = [p \in Pollers |-> report[p]]
    /\ check.poller # 0 => /\ \A q \in Pollers : q >= check.poller => report[q] = "none"
                           /\ Asked(check.poller, check, truth)
    /\ \A p \in Pollers : Entry(p)

LEMMA PollersAre ==
  /\ 0 \notin Pollers /\ \A p \in Pollers : p \in Nat /\ p >= 1 /\ p \in DOMAIN Funds
  BY FundAssumption

\* An entry is made; the next poller has none.
LEMMA EntersKeepsFunds ==
  ASSUME FundInv, check.poller # 0, NEW entry, Enters(entry), UNCHANGED <<snapshots, truth>>,
         entry = "healthy" => Known(check.poller) # {} /\ AllWell(check.poller, truth),
         entry = "unhealthy" => Known(check.poller) = {} \/ ~AllWell(check.poller, truth)
  PROVE  FundInv'
  <1> DEFINE p == check.poller
  <1>1. p \in Pollers /\ p \in Nat
    BY PollersAre DEF FundInv
  <1>2. /\ report' = [report EXCEPT ![p] = entry]
        /\ check' = IF p + 1 \in Pollers THEN [NoCheck EXCEPT !.poller = p + 1] ELSE NoCheck
    BY DEF Enters, p_
  <1>3. /\ \A q \in Pollers : report'[q] = IF q = p THEN entry ELSE report[q]
        /\ report' = [q \in Pollers |-> report'[q]]
    BY <1>1, <1>2 DEF FundInv
  <1>4. IsCheck(check') /\ check'.at = "funds" /\ check'.poller \in Pollers \union {0}
        /\ (check'.poller # 0 => check'.poller = p + 1)
    <2>1. CASE p + 1 \in Pollers
      <3>1. check' = [poller |-> p + 1, at |-> "funds", newest |-> <<>>, failed |-> <<>>, todo |-> {}, streak |-> 0]
        BY <1>2, <2>1 DEF NoCheck
      <3> DEFINE X == {p + 1, "funds", <<>>, {}, 0}
      <3>2. check' \in [poller : X, at : X, newest : X, failed : X, todo : X, streak : X]
        BY <3>1
      <3> HIDE DEF X
      <3>3. IsCheck(check')
        BY <3>2 DEF IsCheck
      <3> QED
        BY <2>1, <3>1, <3>3
    <2>2. CASE p + 1 \notin Pollers
      <3>1. check' = [poller |-> 0, at |-> "funds", newest |-> <<>>, failed |-> <<>>, todo |-> {}, streak |-> 0]
        BY <1>2, <2>2 DEF NoCheck
      <3> DEFINE X == {"funds", <<>>, {}, 0}
      <3>2. check' \in [poller : X, at : X, newest : X, failed : X, todo : X, streak : X]
        BY <3>1
      <3> HIDE DEF X
      <3>3. IsCheck(check')
        BY <3>2 DEF IsCheck
      <3> QED
        BY <2>2, <3>1, <3>3
    <2> QED
      BY <2>1, <2>2
  <1> HIDE DEF p
  <1>5. \A q \in Pollers : Entry(q)'
    <2> SUFFICES ASSUME NEW q \in Pollers
                 PROVE  Entry(q)'
      OBVIOUS
    <2>1. CASE q = p
      BY <1>3, <2>1 DEF Entry, p, AllWell
    <2>2. CASE q # p
      <3>1. report'[q] = report[q] /\ Entry(q)
        BY <1>3, <2>2 DEF FundInv
      <3> QED
        BY <3>1 DEF Entry, AllWell
    <2> QED
      BY <2>1, <2>2
  <1>6. check'.poller # 0 => \A q \in Pollers : q >= check'.poller => report'[q] = "none"
    <2> SUFFICES ASSUME check'.poller # 0, NEW q \in Pollers, q >= p + 1
                 PROVE  report'[q] = "none"
      BY <1>4
    <2>1. q \in Nat /\ q # p /\ q >= p
      BY <1>1, PollersAre
    <2> QED
      BY <1>3, <2>1 DEF FundInv, p, PollersAre
  <1>7. Asked(check.poller, check, truth)'
    BY <1>4 DEF Asked
  <1> QED
    BY <1>3, <1>4, <1>5, <1>6, <1>7 DEF FundInv

\* The check moves on to its next question: what it has is as true as before.
LEMMA AsksKeepsFunds ==
  ASSUME FundInv, check.poller # 0, IsCheck(check'), check'.poller = check.poller,
         truth' \in [fresh : SUBSET AllFunds, clear : SUBSET AllFunds],
         truth'.fresh \ Funds[check.poller] = truth.fresh \ Funds[check.poller],
         truth'.clear \ Funds[check.poller] = truth.clear \ Funds[check.poller],
         Asked(check.poller, check', truth'),
         UNCHANGED <<snapshots, report>>
  PROVE  FundInv'
  <1>1. check.poller \in Pollers
    BY DEF FundInv
  <1>2. report[check.poller] = "none"
    BY <1>1, PollersAre DEF FundInv
  <1>3. ASSUME NEW q \in Pollers
        PROVE  Entry(q)'
    <2>1. CASE q = check.poller
      BY <1>2, <2>1 DEF Entry
    <2>2. CASE q # check.poller
      <3>1. Known(q) \subseteq AllFunds \ Funds[check.poller]
        BY <1>1, <2>2, KnownFunds, FundAssumption
      <3>2. AllWell(q, truth') <=> AllWell(q, truth)
        <4>1. \A f \in Known(q) : f \notin Funds[check.poller]
          BY <3>1
        <4>2. Known(q) \subseteq truth'.fresh <=> Known(q) \subseteq truth.fresh
          BY <4>1
        <4>3. Known(q) \subseteq truth'.clear <=> Known(q) \subseteq truth.clear
          BY <4>1
        <4>4. \A t : AllWell(q, t) <=> Known(q) \subseteq t.fresh /\ Known(q) \subseteq t.clear
          BY DEF AllWell
        <4> QED
          BY <4>2, <4>3, <4>4
      <3>3. Entry(q)
        BY DEF FundInv
      <3> QED
        BY <3>2, <3>3 DEF Entry
    <2> QED
      BY <2>1, <2>2
  <1>4. Asked(check.poller, check, truth)'
    BY DEF Asked
  <1> QED
    BY <1>3, <1>4 DEF FundInv

AsksOf(c, at) == [c EXCEPT !.at = at]
AsksNewest(c, at, newest) == [c EXCEPT !.at = at, !.newest = newest]
AsksFailed(c, at, todo, failed) == [c EXCEPT !.at = at, !.todo = todo, !.failed = failed]
AsksStreak(c, todo, streak) == [c EXCEPT !.todo = todo, !.streak = streak]

LEMMA CheckFields ==
  ASSUME NEW c, IsCheck(c), NEW at, NEW newest, NEW failed, NEW todo, NEW streak, NEW d,
         \/ d = AsksOf(c, at) \/ d = AsksNewest(c, at, newest) \/ d = AsksFailed(c, at, todo, failed)
         \/ d = AsksStreak(c, todo, streak)
  PROVE  IsCheck(d) /\ d.poller = c.poller
  <1>1. PICK X : c \in [poller : X, at : X, newest : X, failed : X, todo : X, streak : X]
    BY DEF IsCheck
  <1> DEFINE Y == X \union {at, newest, failed, todo, streak}
  <1>2. d \in [poller : Y, at : Y, newest : Y, failed : Y, todo : Y, streak : Y] /\ d.poller = c.poller
    BY <1>1 DEF AsksOf, AsksNewest, AsksFailed, AsksStreak
  <1> HIDE DEF Y
  <1> QED
    BY <1>2 DEF IsCheck

LEMMA AsksFundsKeeps ==
  ASSUME FundInv, AsksFunds
  PROVE  FundInv'
  <1>1. CASE Known(p_) = {}
    BY <1>1, EntersKeepsFunds DEF AsksFunds, p_
  <1>2. CASE Known(p_) # {}
    <2>1. /\ check' = [check EXCEPT !.at = "snapshots"] /\ UNCHANGED <<snapshots, report, truth>>
          /\ check.poller # 0 /\ IsCheck(check)
      BY <1>2 DEF AsksFunds, p_, FundInv
    <2>2. IsCheck(check') /\ check'.poller = check.poller
      BY <2>1, CheckFields DEF AsksOf
    <2>3. check'.at = "snapshots"
      BY <2>1 DEF IsCheck
    <2>4. Asked(check.poller, check', truth')
      BY <1>2, <2>3 DEF Asked, p_
    <2> QED
      BY <2>1, <2>2, <2>4, AsksKeepsFunds DEF FundInv
  <1> QED
    BY <1>1, <1>2

LEMMA AsksSnapshotsKeeps ==
  ASSUME FundInv, AsksSnapshots
  PROVE  FundInv'
  <1> DEFINE p == check.poller
  <1>1. p # 0 /\ check.at = "snapshots" /\ UNCHANGED <<snapshots, report>>
    BY DEF AsksSnapshots, p_
  <1>a. /\ p \in Pollers /\ IsCheck(check) /\ Asked(p, check, truth)
        /\ truth \in [fresh : SUBSET AllFunds, clear : SUBSET AllFunds]
    BY <1>1 DEF FundInv
  <1>2. /\ p # 0 /\ p \in Pollers /\ check.at = "snapshots" /\ Known(p) # {} /\ IsCheck(check)
        /\ UNCHANGED <<snapshots, report>>
        /\ truth \in [fresh : SUBSET AllFunds, clear : SUBSET AllFunds]
    BY <1>1, <1>a DEF Asked
  <1>3. PICK R \in CutNewest(CurrentOf(p), Limit(p, SnapshotRows)) :
           check' = [check EXCEPT !.at = "failures", !.newest = [f \in Known(p) |-> RowDays(R, f)]]
    BY DEF AsksSnapshots, p_, RowDays
  <1>4. truth' = [truth EXCEPT !.fresh = (truth.fresh \ Funds[p]) \union FreshFunds(p)]
    BY DEF AsksSnapshots, p_
  <1> DEFINE newest == [f \in Known(p) |-> RowDays(R, f)]
  <1>5. check' = AsksNewest(check, "failures", newest)
    BY <1>3 DEF AsksNewest
  <1>6. IsCheck(check') /\ check'.poller = p
    BY <1>2, <1>5, CheckFields
  <1>7. check'.at = "failures" /\ check'.newest = newest
    BY <1>2, <1>3 DEF IsCheck
  <1>8. \A f \in Known(p) : check'.newest[f] = RowDays(R, f)
    BY <1>7
  <1> HIDE DEF p, newest
  <1>9. /\ truth'.fresh = (truth.fresh \ Funds[p]) \union FreshFunds(p) /\ truth'.clear = truth.clear
        /\ FreshFunds(p) \subseteq Known(p) /\ Known(p) \subseteq AllFunds /\ Known(p) \subseteq Funds[p]
        /\ truth' \in [fresh : SUBSET AllFunds, clear : SUBSET AllFunds]
    <2>1. FreshFunds(p) \subseteq Known(p) /\ Known(p) \subseteq AllFunds /\ Known(p) \subseteq Funds[p]
      BY <1>2, KnownFunds DEF FreshFunds
    <2> QED
      BY <1>2, <1>4, <2>1
  <1>10. ASSUME NEW f \in Known(p)
         PROVE  /\ f \in truth'.fresh => ~Stale(p, check'.newest[f])
                /\ f \notin truth'.fresh => Stale(p, check'.newest[f])
    <2>1. Stale(p, RowDays(R, f)) <=> Stale(p, snapshots[f])
      BY <1>2, <1>3, CutsKeepStaleness DEF FundInv, Dated
    <2>2. f \in truth'.fresh <=> ~Stale(p, snapshots[f])
      BY <1>9 DEF FreshFunds
    <2> QED
      BY <1>8, <2>1, <2>2
  <1>11. Asked(p, check', truth')
    BY <1>2, <1>7, <1>10 DEF Asked
  <1> QED
    BY <1>2, <1>6, <1>9, <1>11, AsksKeepsFunds DEF p

LEMMA AsksFailuresKeeps ==
  ASSUME FundInv, AsksFailures
  PROVE  FundInv'
  <1> DEFINE p == check.poller
  <1>1. p # 0 /\ check.at = "failures" /\ UNCHANGED <<snapshots, report>>
    BY DEF AsksFailures, p_
  <1>a. /\ p \in Pollers /\ IsCheck(check) /\ Asked(p, check, truth)
        /\ truth \in [fresh : SUBSET AllFunds, clear : SUBSET AllFunds]
    BY <1>1 DEF FundInv
  <1>2. /\ p # 0 /\ p \in Pollers /\ check.at = "failures" /\ Known(p) # {} /\ IsCheck(check)
        /\ UNCHANGED <<snapshots, report>>
        /\ truth \in [fresh : SUBSET AllFunds, clear : SUBSET AllFunds]
        /\ \A f \in Known(p) : /\ f \in truth.fresh => ~Stale(p, check.newest[f])
                               /\ f \notin truth.fresh => Stale(p, check.newest[f])
    BY <1>1, <1>a DEF Asked
  <1>3. PICK R \in Cut(OpenFailures(Known(p)), Limit(p, FailureRows)) :
           check' = [check EXCEPT !.at = "perFund", !.todo = Known(p),
                                  !.failed = [f \in Known(p) |-> FailuresOf(R, f)]]
    BY DEF AsksFailures, p_, FailuresOf
  <1> DEFINE clear == {f \in Known(p) : OpenFailures({f}) = {}}
  <1>4. truth' = [truth EXCEPT !.clear = (truth.clear \ Funds[p]) \union clear]
    BY DEF AsksFailures, p_
  <1> DEFINE failed == [f \in Known(p) |-> FailuresOf(R, f)]
  <1>5. check' = AsksFailed(check, "perFund", Known(p), failed)
    BY <1>3 DEF AsksFailed
  <1>6. IsCheck(check') /\ check'.poller = p
    BY <1>2, <1>5, CheckFields
  <1>7. check'.at = "perFund" /\ check'.failed = failed /\ check'.newest = check.newest
    BY <1>2, <1>3 DEF IsCheck
  <1>8. \A f \in Known(p) : check'.failed[f] = FailuresOf(R, f)
    BY <1>7
  <1> HIDE DEF p, failed
  <1>9. /\ truth'.clear = (truth.clear \ Funds[p]) \union clear /\ truth'.fresh = truth.fresh
        /\ clear \subseteq Known(p) /\ Known(p) \subseteq AllFunds /\ Known(p) \subseteq Funds[p]
        /\ truth' \in [fresh : SUBSET AllFunds, clear : SUBSET AllFunds]
    <2>1. clear \subseteq Known(p) /\ Known(p) \subseteq AllFunds /\ Known(p) \subseteq Funds[p]
      BY <1>2, KnownFunds
    <2> HIDE DEF clear
    <2> QED
      BY <1>2, <1>4, <2>1
  <1>10. /\ (\A f \in Known(p) : check'.failed[f] = 0) => Known(p) \subseteq truth'.clear
         /\ Known(p) \subseteq truth'.clear => \A f \in Known(p) : check'.failed[f] = 0
    <2>1. Known(p) \subseteq truth'.clear <=> \A f \in Known(p) : OpenFailures({f}) = {}
      BY <1>9
    <2> QED
      BY <1>2, <1>3, <1>8, <2>1, CutsKeepFailures
  <1>11. Asked(p, check', truth')
    BY <1>2, <1>7, <1>9, <1>10 DEF Asked
  <1> HIDE DEF clear
  <1> QED
    BY <1>2, <1>6, <1>9, <1>11, AsksKeepsFunds DEF p

LEMMA AsksFundKeeps ==
  ASSUME FundInv, NEW f, AsksFund(f)
  PROVE  FundInv'
  <1> DEFINE streak == ConsecutiveFailures(attempts[f])
  <1>1. /\ check' = AsksStreak(check, check.todo \ {f}, IF streak > check.streak THEN streak ELSE check.streak)
        /\ UNCHANGED <<snapshots, report, truth>> /\ check.poller # 0 /\ IsCheck(check)
    BY DEF AsksFund, AsksStreak, p_, FundInv
  <1> HIDE DEF streak
  <1>2. IsCheck(check') /\ check'.poller = check.poller
    BY <1>1, CheckFields
  <1>3. check'.at = check.at /\ check'.newest = check.newest /\ check'.failed = check.failed
    BY <1>1 DEF AsksStreak, IsCheck
  <1>4. Asked(check.poller, check, truth)
    BY <1>1 DEF FundInv
  <1>5. Asked(check.poller, check', truth')
    BY <1>1, <1>3, <1>4 DEF Asked
  <1> QED
    BY <1>1, <1>2, <1>5, AsksKeepsFunds DEF FundInv

LEMMA RollupKeeps ==
  ASSUME FundInv, Rollup
  PROVE  FundInv'
  <1> DEFINE p == check.poller
             entry == IF HealthyPoller(Known(p)) THEN "healthy" ELSE "unhealthy"
  <1>1. p # 0 /\ check.at = "perFund" /\ Enters(entry) /\ UNCHANGED <<snapshots, truth>>
    BY DEF Rollup, p_
  <1>2. Asked(p, check, truth)
    BY <1>1 DEF FundInv
  <1>3. /\ Known(p) # {}
        /\ \A f \in Known(p) : /\ f \in truth.fresh => ~Stale(p, check.newest[f])
                               /\ f \notin truth.fresh => Stale(p, check.newest[f])
        /\ (\A f \in Known(p) : check.failed[f] = 0) => Known(p) \subseteq truth.clear
        /\ Known(p) \subseteq truth.clear => \A f \in Known(p) : check.failed[f] = 0
    BY <1>1, <1>2 DEF Asked
  <1>4. \A f : HealthyEntry(f) <=> ~Stale(p, check.newest[f]) /\ check.failed[f] = 0
    BY DEF HealthyEntry, p_
  <1>5. HealthyPoller(Known(p)) => AllWell(p, truth)
    <2> HIDE DEF p
    <2> QED
      BY <1>3, <1>4 DEF HealthyPoller, AllWell
  <1>6. AllWell(p, truth) => HealthyPoller(Known(p))
    <2> HIDE DEF p
    <2>1. SUFFICES ASSUME AllWell(p, truth), NEW f \in Known(p)
                   PROVE  HealthyEntry(f)
      BY DEF HealthyPoller
    <2>2. f \in truth.fresh /\ Known(p) \subseteq truth.clear
      BY <2>1 DEF AllWell
    <2> QED
      BY <1>3, <1>4, <2>2
  <1> HIDE DEF p
  <1>7. /\ entry = "healthy" => Known(p) # {} /\ AllWell(p, truth)
        /\ entry = "unhealthy" => Known(p) = {} \/ ~AllWell(p, truth)
    BY <1>3, <1>5, <1>6
  <1> HIDE DEF entry
  <1> QED
    BY <1>1, <1>7, EntersKeepsFunds DEF p

\* Nothing has been asked or written.
LEMMA InitKeepsFunds ==
  ASSUME FundInit
  PROVE  FundInv
  <1>1. check = [poller |-> 0, at |-> "funds", newest |-> <<>>, failed |-> <<>>, todo |-> {}, streak |-> 0]
    BY DEF FundInit, NoCheck
  <1>2. IsCheck(check)
    <2> DEFINE X == {"funds", <<>>, {}, 0}
    <2>1. check \in [poller : X, at : X, newest : X, failed : X, todo : X, streak : X]
      BY <1>1
    <2> HIDE DEF X
    <2> QED
      BY <2>1 DEF IsCheck
  <1>3. check.poller = 0
    BY <1>1
  <1>4. Dated(snapshots)
    <2>1. \A p \in Pollers : Funds[p] \subseteq AllFunds
      BY FundAssumption DEF AllFunds
    <2>2. snapshots = [f \in AllFunds |-> {}]
      BY DEF FundInit
    <2> QED
      BY <2>1, <2>2 DEF Dated
  <1> QED
    BY <1>2, <1>3, <1>4 DEF FundInit, FundInv, Entry

\* Every step keeps the invariant.
LEMMA NextKeepsFunds ==
  ASSUME FundInv, [FundNext]_fundVars
  PROVE  FundInv'
  <1>1. ASSUME Dated(snapshots'), UNCHANGED <<check, report, truth>>
        PROVE  FundInv'
    BY <1>1 DEF FundInv, Entry, Asked, AllWell
  <1>2. ASSUME NEW f \in AllFunds, Resolves(f) \/ \E s \in Statuses : Polls(f, s)
        PROVE  FundInv'
    <2>1. UNCHANGED <<check, report, truth>>
      BY <1>2 DEF Resolves, Polls
    <2>2. ASSUME NEW p \in Pollers, NEW d \in Published[p], f \in Funds[p],
                 snapshots' = [snapshots EXCEPT ![f] = @ \union {d}]
          PROVE  Dated(snapshots')
      <3>1. Dated(snapshots)
        BY DEF FundInv
      <3>2. \A h \in AllFunds : snapshots'[h] = IF h = f THEN snapshots[f] \union {d} ELSE snapshots[h]
        BY <2>2, <3>1 DEF Dated
      <3>3. \A q \in Pollers : f \in Funds[q] => q = p
        BY <2>2, FundAssumption
      <3>4. \A q \in Pollers : Funds[q] \subseteq AllFunds
        BY FundAssumption DEF AllFunds
      <3>5. \A q \in Pollers : \A h \in Funds[q] : snapshots'[h] \subseteq Published[q]
        BY <3>1, <3>2, <3>3, <3>4 DEF Dated
      <3>6. snapshots' = [h \in AllFunds |-> snapshots'[h]]
        BY <2>2, <3>1 DEF Dated
      <3> QED
        BY <3>5, <3>6 DEF Dated
    <2>3. Dated(snapshots')
      BY <1>2, <2>2 DEF Resolves, Polls, FundInv
    <2> QED
      BY <1>1, <2>1, <2>3
  <1>3. CASE FundRest \/ UNCHANGED fundVars
    BY <1>1, <1>3 DEF FundRest, fundVars, FundInv
  <1>4. CASE CheckBegins
    <2>1. /\ check' = [poller |-> 1, at |-> "funds", newest |-> <<>>, failed |-> <<>>, todo |-> {}, streak |-> 0]
          /\ UNCHANGED <<snapshots, report, truth>> /\ \A p \in Pollers : report[p] = "none"
      BY <1>4 DEF CheckBegins, NoCheck, Over, p_
    <2>2. IsCheck(check') /\ check'.poller = 1 /\ check'.at = "funds"
      <3> DEFINE X == {1, "funds", <<>>, {}, 0}
      <3>1. check' \in [poller : X, at : X, newest : X, failed : X, todo : X, streak : X]
        BY <2>1
      <3> HIDE DEF X
      <3>2. IsCheck(check')
        BY <3>1 DEF IsCheck
      <3> QED
        BY <2>1, <3>2
    <2>3. Asked(check.poller, check, truth)'
      BY <2>2 DEF Asked
    <2>4. 1 \in Pollers
      BY FundAssumption
    <2> QED
      BY <2>1, <2>2, <2>3, <2>4 DEF FundInv, Entry
  <1>5. CASE AskRaises
    BY <1>5, EntersKeepsFunds DEF AskRaises, p_
  <1> QED
    BY <1>2, <1>3, <1>4, <1>5, AsksFundsKeeps, AsksSnapshotsKeeps, AsksFailuresKeeps, AsksFundKeeps,
       RollupKeeps DEF FundNext

(* A poller is reported healthy exactly if each of its funds was fresh,    *)
(* and free of failures, when asked about, for any funds, dates (ahead of  *)
(* today too), attempts, tolerated ages and limits, as long as a fund has  *)
(* no more fresh dates than its share of an answer, and whatever the       *)
(* pollers write between the questions (fund_pollers.py, _poller_report).  *)
THEOREM ReportsAreTrue ==
  FundSpec => []ReportIsTrue
  <1>1. FundInit => FundInv
    BY InitKeepsFunds
  <1>2. FundInv /\ [FundNext]_fundVars => FundInv'
    BY NextKeepsFunds
  <1>3. FundInv => ReportIsTrue
    BY DEF FundInv, Entry, AllWell, ReportIsTrue
  <1> QED
    BY <1>1, <1>2, <1>3, PTL DEF FundSpec

-----------------------------------------------------------------------------
(* The kinds of funds, rows and questions.                                 *)

CheckStages == {"funds", "snapshots", "failures", "perFund"}
Entries == {"none", "healthy", "unhealthy", "unknown"}
Logged == [status : Statuses, resolved : BOOLEAN]

\* The kinds of what the pollers and the check write.
FundKinds == /\ attempts \in [AllFunds -> Seq(Logged)]
             /\ check.at \in CheckStages /\ report \in [Pollers -> Entries]

\* Attempts are logged with one of the outcomes, and keep it when resolved.
LEMMA LogsStayTyped ==
  ASSUME NEW log \in Seq(Logged)
  PROVE  /\ \A s \in Statuses : <<[status |-> s, resolved |-> FALSE]>> \o log \in Seq(Logged)
         /\ \A i \in DOMAIN log : [log EXCEPT ![i].resolved = TRUE] \in Seq(Logged)
  <1>1. ASSUME NEW s \in Statuses
        PROVE  <<[status |-> s, resolved |-> FALSE]>> \o log \in Seq(Logged)
    <2> DEFINE r == [status |-> s, resolved |-> FALSE]
    <2>1. r \in Logged
      BY DEF Logged
    <2> HIDE DEF r
    <2>2. <<r>> \in Seq(Logged)
      BY <2>1
    <2>3. <<r>> \o log \in Seq(Logged)
      BY <2>2
    <2> QED
      BY <2>3 DEF r
  <1>2. ASSUME NEW i \in DOMAIN log
        PROVE  [log EXCEPT ![i].resolved = TRUE] \in Seq(Logged)
    <2> DEFINE r == [log[i] EXCEPT !.resolved = TRUE]
    <2>1. log[i] \in Logged
      OBVIOUS
    <2>2. r \in Logged
      BY <2>1 DEF Logged
    <2> HIDE DEF r
    <2>3. [log EXCEPT ![i] = r] \in Seq(Logged)
      BY <2>2
    <2> QED
      BY <2>3 DEF r
  <1> QED
    BY <1>1, <1>2

LEMMA NextKeepsKinds ==
  ASSUME FundInv, FundKinds, [FundNext]_fundVars
  PROVE  FundKinds'
  <1>1. IsCheck(check) /\ attempts \in [AllFunds -> Seq(Logged)] /\ report \in [Pollers -> Entries]
        /\ check.at \in CheckStages
    BY DEF FundInv, FundKinds
  <1>2. ASSUME NEW f \in AllFunds, Resolves(f) \/ \E s \in Statuses : Polls(f, s)
        PROVE  FundKinds'
    <2>1. attempts[f] \in Seq(Logged) /\ UNCHANGED <<check, report>>
      BY <1>1, <1>2 DEF Resolves, Polls
    <2>2. PICK log \in Seq(Logged) : attempts' = [attempts EXCEPT ![f] = log]
      <3>1. ASSUME NEW s \in Statuses, Polls(f, s)
            PROVE  \E log \in Seq(Logged) : attempts' = [attempts EXCEPT ![f] = log]
        <4>1. attempts' = [attempts EXCEPT ![f] = <<[status |-> s, resolved |-> FALSE]>> \o attempts[f]]
          BY <3>1 DEF Polls
        <4> QED
          BY <2>1, <4>1, LogsStayTyped
      <3>2. ASSUME Resolves(f)
            PROVE  \E log \in Seq(Logged) : attempts' = [attempts EXCEPT ![f] = log]
        <4>1. PICK i \in DOMAIN attempts[f] : attempts' = [attempts EXCEPT ![f][i].resolved = TRUE]
          BY <3>2 DEF Resolves
        <4>2. [attempts EXCEPT ![f][i].resolved = TRUE] =
                [attempts EXCEPT ![f] = [attempts[f] EXCEPT ![i].resolved = TRUE]]
          OBVIOUS
        <4>3. [attempts[f] EXCEPT ![i].resolved = TRUE] \in Seq(Logged)
          BY <2>1, LogsStayTyped
        <4> QED
          BY <4>1, <4>2, <4>3
      <3> QED
        BY <1>2, <3>1, <3>2
    <2>3. attempts' \in [AllFunds -> Seq(Logged)]
      BY <1>1, <2>2
    <2> QED
      BY <1>1, <2>1, <2>3 DEF FundKinds
  <1>3. ASSUME NEW entry \in Entries, Enters(entry), UNCHANGED attempts
        PROVE  FundKinds'
    <2>1. report' \in [Pollers -> Entries]
      BY <1>1, <1>3 DEF Enters
    <2>2. check'.at = "funds"
      BY <1>3 DEF Enters, NoCheck
    <2> QED
      BY <1>1, <1>3, <2>1, <2>2 DEF FundKinds, CheckStages
  <1>4. ASSUME NEW at \in CheckStages, check'.at = at, UNCHANGED <<attempts, report>>
        PROVE  FundKinds'
    BY <1>1, <1>4 DEF FundKinds
  <1>5. CASE CheckBegins
    <2>1. check'.at = "funds" /\ UNCHANGED <<attempts, report>>
      BY <1>5 DEF CheckBegins, NoCheck
    <2> QED
      BY <1>4, <2>1 DEF CheckStages
  <1>6. CASE AsksFunds
    <2>1. CASE Enters("unhealthy")
      BY <1>3, <1>6, <2>1 DEF AsksFunds, Entries
    <2>2. CASE check' = [check EXCEPT !.at = "snapshots"] /\ UNCHANGED report
      <3>1. check'.at = "snapshots"
        BY <1>1, <2>2 DEF IsCheck
      <3> QED
        BY <1>4, <1>6, <2>2, <3>1 DEF AsksFunds, CheckStages
    <2> QED
      BY <1>6, <2>1, <2>2 DEF AsksFunds
  <1>7. CASE AsksSnapshots \/ AsksFailures
    <2>1. UNCHANGED <<attempts, report>>
      BY <1>7 DEF AsksSnapshots, AsksFailures
    <2>2. ASSUME NEW newest, check' = [check EXCEPT !.at = "failures", !.newest = newest]
          PROVE  check'.at = "failures"
      BY <1>1, <2>2 DEF IsCheck
    <2>3. ASSUME NEW todo, NEW failed, check' = [check EXCEPT !.at = "perFund", !.todo = todo, !.failed = failed]
          PROVE  check'.at = "perFund"
      BY <1>1, <2>3 DEF IsCheck
    <2>4. check'.at \in {"failures", "perFund"}
      BY <1>7, <2>2, <2>3 DEF AsksSnapshots, AsksFailures
    <2> QED
      BY <1>4, <2>1, <2>4 DEF CheckStages
  <1>8. ASSUME NEW f, AsksFund(f)
        PROVE  FundKinds'
    <2>1. PICK todo, streak : check' = AsksStreak(check, todo, streak)
      BY <1>8 DEF AsksFund, AsksStreak
    <2>2. check'.at = check.at
      BY <1>1, <2>1 DEF AsksStreak, IsCheck
    <2> QED
      BY <1>1, <1>4, <1>8, <2>2 DEF AsksFund
  <1>9. CASE Rollup \/ AskRaises
    <2>1. PICK entry \in Entries : Enters(entry)
      BY <1>9 DEF Rollup, AskRaises, Entries
    <2> QED
      BY <1>3, <1>9, <2>1 DEF Rollup, AskRaises
  <1>10. CASE FundRest \/ UNCHANGED fundVars
    BY <1>10 DEF FundRest, fundVars, FundKinds
  <1> QED
    BY <1>2, <1>5, <1>6, <1>7, <1>8, <1>9, <1>10 DEF FundNext

(* Rows, questions and answers about funds are of the right kinds, for any *)
(* pollers, funds and attempts.                                            *)
THEOREM FundsTyped == FundSpec => []FundTypeOK
  <1>1. FundInit => FundInv /\ FundKinds
    <2> SUFFICES ASSUME FundInit
                 PROVE  FundKinds
      BY InitKeepsFunds
    <2>1. check.at = "funds"
      BY DEF FundInit, NoCheck
    <2>2. <<>> \in Seq(Logged)
      OBVIOUS
    <2> QED
      BY <2>1, <2>2 DEF FundInit, FundKinds, CheckStages, Entries
  <1>2. FundInv /\ FundKinds /\ [FundNext]_fundVars => (FundInv /\ FundKinds)'
    BY NextKeepsFunds, NextKeepsKinds
  <1>3. FundInv /\ FundKinds => FundTypeOK
    <2> SUFFICES ASSUME FundInv, FundKinds
                 PROVE  FundTypeOK
      OBVIOUS
    <2>1. ASSUME NEW f \in AllFunds, NEW i \in DOMAIN attempts[f]
          PROVE  attempts[f][i].status \in Statuses
      <3>1. attempts[f] \in Seq(Logged)
        BY DEF FundKinds
      <3>2. attempts[f][i] \in Logged
        BY <3>1
      <3> QED
        BY <3>2 DEF Logged
    <2>2. DOMAIN snapshots = AllFunds
      <3>1. snapshots = [f \in AllFunds |-> snapshots[f]]
        BY DEF FundInv, Dated
      <3> QED
        BY <3>1
    <2> QED
      BY <2>1, <2>2 DEF FundInv, Dated, FundKinds, FundTypeOK, CheckStages, Entries
  <1> QED
    BY <1>1, <1>2, <1>3, PTL DEF FundSpec

-----------------------------------------------------------------------------
(* All seven.                                                              *)

\* A step of one service leaves the variables of the others alone.
LEMMA StepOfOne ==
  ASSUME [ServicesNext]_all
  PROVE  /\ [Next]_vars /\ [DocsNext]_docsVars /\ [TokenNext]_tokenVars /\ [EventNext]_eventVars
         /\ [FundNext]_fundVars /\ [GateNext]_gateVars /\ [LedgerNext]_ledgerVars
  <1>1. CASE UNCHANGED all
    BY <1>1 DEF all
  <1>2. CASE KnowledgeStep \/ DocumentsStep
    BY <1>2 DEF KnowledgeStep, DocumentsStep
  <1>3. CASE CalendarStep \/ EventsStep
    BY <1>3 DEF CalendarStep, EventsStep
  <1>4. CASE FundsStep \/ GatewayStep \/ LedgerStep
    BY <1>4 DEF FundsStep, GatewayStep, LedgerStep
  <1> QED
    BY <1>1, <1>2, <1>3, <1>4 DEF ServicesNext

(* Side by side the services behave as they do alone: what is proved of    *)
(* each of their specifications holds in the composition the runs check.   *)
THEOREM ServicesAsAlone ==
  ServicesSpec => /\ Spec /\ DocsSpec /\ TokenSpec /\ EventSpec
                  /\ FundSpec /\ GateSpec /\ LedgerSpec
  <1>1. ServicesInit => /\ Init /\ DocsInit /\ TokenInit /\ EventInit
                        /\ FundInit /\ GateInit /\ LedgerInit
    BY DEF ServicesInit
  <1>2. [ServicesNext]_all => /\ [Next]_vars /\ [DocsNext]_docsVars /\ [TokenNext]_tokenVars
                              /\ [EventNext]_eventVars /\ [FundNext]_fundVars
                              /\ [GateNext]_gateVars /\ [LedgerNext]_ledgerVars
    BY StepOfOne
  <1> QED
    BY <1>1, <1>2, PTL
       DEF ServicesSpec, Spec, DocsSpec, TokenSpec, EventSpec, FundSpec, GateSpec, LedgerSpec

(* The state of every service has its type, for all values of all their    *)
(* constants.                                                              *)
THEOREM ServicesTyped == ServicesSpec => []ServicesTypeOK
  <1>1. /\ TypeOK /\ DocsTypeOK /\ TokenTypeOK /\ EventTypeOK
        /\ FundTypeOK /\ GateTypeOK /\ LedgerTypeOK
        => ServicesTypeOK
    BY DEF ServicesTypeOK
  <1> QED
    BY <1>1, ServicesAsAlone, ChatsTyped, DocumentsTyped, TokensTyped, EventsTyped, FundsTyped,
       RequestsTyped, LedgersTyped, PTL

(* Every safety property the services were modelled for holds of their     *)
(* composition, for all values of all their constants: if the chat's model *)
(* cites from memory only before it has used a tool, and the calendar's    *)
(* time zone can be read.                                                  *)
THEOREM ServicesKeepTheirPromises ==
  ASSUME OnlyFromMemory, ZoneFails = FALSE
  PROVE  ServicesSpec => [](/\ GroundedCitations /\ EndsWell /\ OneNumberEach
                            /\ ErrorStoresNothing /\ ReadyIsRead
                            /\ GoodForMargin /\ OldGrantFades /\ DatesStay
                            /\ ReportIsTrue /\ ScopesKept /\ RowsAddUp)
  <1>1. Spec => []GroundedCitations
    BY CitationsAreGrounded
  <1>2. EventSpec => []DatesStay
    BY DatesAlwaysStay
  <1> QED
    BY <1>1, <1>2, ServicesAsAlone, TurnsEndWell, NumbersAreStable, ErrorsStoreNothing,
       ReadyTextsAreRead, TokensGoodForMargin, OldGrantAlwaysFades, ReportsAreTrue,
       ScopesAlwaysKept, RowsAlwaysAddUp, PTL
=============================================================================
