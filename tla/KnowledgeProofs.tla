--------------------------- MODULE KnowledgeProofs ---------------------------
(***************************************************************************)
(* Answers from documents: what a turn of the knowledge chat cites, how it *)
(* ends and what it numbers, for any passages, limits and order of calls;  *)
(* and what a parse leaves behind and a turn reads of it, for any number   *)
(* of requests, documents, turns and executor threads.                     *)
(***************************************************************************)
EXTENDS KnowledgeChat, Documents, SetLemmas, SequenceTheorems

\* The model cites what it was not shown only as long as no tool has run, and
\* a round in mode ANY is a round of calls.
OnlyFromMemory == Strays \subseteq {"unasked"} /\ MAX_ROUNDS >= 2

Grounded(text) == \A n \in Cites(text) : \E p \in told : p[1] = n

\* Until a tool has run the reader gets nothing that cites, and the second
\* round, if there is one, is forced; afterwards nothing is held.
Sequenced ==
    /\ phase = "start" => round = 0
    /\ phase = "streaming" => round > 0
    /\ round \in Nat /\ toolsCalled \in BOOLEAN /\ forceTools \in BOOLEAN
    /\ ~toolsCalled => /\ phase # "tools" /\ round <= 2
    /\ ~toolsCalled /\ forceTools => round = 2
    /\ ~toolsCalled /\ ~forceTools => round # 2
    /\ toolsCalled /\ phase = "streaming" => held = {}

GInv == Sequenced /\ GroundedCitations

LEMMA TokensApart ==
  /\ Word # Blank /\ Word # Long /\ Blank # Long
  /\ Word \notin Numbers /\ Blank \notin Numbers /\ Long \notin Numbers
  BY TokensAssumption

(* The reader is shown no citation without a passage of this turn behind   *)
(* it: what the model says from memory is held back, the nudge discards it *)
(* and the forced round ends in calls.                                     *)
THEOREM CitationsAreGrounded ==
  ASSUME OnlyFromMemory
  PROVE  Spec => []GroundedCitations
  <1> USE DEF Sequenced, GroundedCitations, Cites
  <1>1. Init => GInv
    <2> SUFFICES ASSUME Init
                 PROVE  GInv
      OBVIOUS
    <2>1. round = 0 /\ phase = "start" /\ toolsCalled = FALSE /\ forceTools = FALSE
      BY DEF Init
    <2>2. Sequenced
      <3>1. toolsCalled \in BOOLEAN /\ forceTools \in BOOLEAN
        BY <2>1
      <3>2. ~toolsCalled /\ ~forceTools
        BY <2>1
      <3> QED
        BY <2>1, <3>1, <3>2
    <2>3. GroundedCitations
      BY DEF Init
    <2> QED
      BY <2>2, <2>3 DEF GInv
  <1>2. GInv /\ [Next]_vars => GInv'
    <2> SUFFICES ASSUME GInv, [Next]_vars
                 PROVE  GInv'
      OBVIOUS
    <2> USE TokensApart, RoundsAssumption DEF GInv
    <2>1. CASE Unconfigured \/ StreamFails
      BY <2>1 DEF Unconfigured, StreamFails, stream, context, reader, turn
    <2>2. CASE Begins
      BY <2>2 DEF Begins, NextRound, context, reader
    <2>3. ASSUME NEW token \in {Word, Blank, Long} \union Numbers, ReceivesText(token)
          PROVE  GInv'
      <3>1. CASE Buffering
        BY <2>3, <3>1 DEF ReceivesText, Buffering, turn, context
      <3>2. CASE ~Buffering
        <4>1. toolsCalled
          BY <2>3, <3>2 DEF ReceivesText, Buffering, ToolsEnabled, OnlyFromMemory
        <4>2. token \in Numbers => \E p \in told : p[1] = token
          BY <2>3, <4>1 DEF ReceivesText, May, OnlyFromMemory
        <4> QED
          BY <2>3, <3>2, <4>2 DEF ReceivesText, turn, context
      <3> QED
        BY <3>1, <3>2
    <2>4. CASE ReceivesCall \/ OutOfRounds
      BY <2>4 DEF ReceivesCall, OutOfRounds, turn, stream, context, reader
    <2>5. CASE CallsTools
      <3>1. /\ phase' = "tools" /\ forceTools' = FALSE /\ toolsCalled' = TRUE
            /\ UNCHANGED <<round, held, shown, told>>
        BY <2>5 DEF CallsTools, stream, context, reader
      <3> QED
        BY <3>1
    <2>6. CASE SentToRetrieve
      <3>1. ~toolsCalled /\ ~forceTools /\ phase = "streaming"
        BY <2>6 DEF SentToRetrieve, Buffering
      <3>2. round = 1
        BY <3>1
      <3>3. /\ phase' = "streaming" /\ round' = 2 /\ forceTools' = TRUE /\ held' = {}
            /\ toolsCalled' = FALSE /\ shown' = shown /\ told' = told
        BY <2>6, <3>1, <3>2 DEF SentToRetrieve, NextRound, context, reader
      <3>4. Sequenced'
        <4>1. toolsCalled' \in BOOLEAN /\ forceTools' \in BOOLEAN
          BY <3>3
        <4>2. ~toolsCalled' /\ forceTools'
          BY <3>3
        <4> QED
          BY <3>3, <4>1, <4>2
      <3>5. GroundedCitations'
        BY <3>3
      <3> QED
        BY <3>4, <3>5
    <2>7. CASE Answers
      <3>1. Cites(held) = {}
        <4>1. CASE toolsCalled
          BY <2>7, <4>1 DEF Answers
        <4>2. CASE ~toolsCalled
          BY <2>7, <4>2 DEF Answers, Buffering, ToolsEnabled, Ungrounded, OnlyFromMemory
        <4> QED
          BY <4>1, <4>2
      <3>2. Cites(shown)' = Cites(shown) /\ UNCHANGED told
        BY <2>7, <3>1 DEF Answers, context
      <3>3. phase' = "closing" /\ UNCHANGED <<round, toolsCalled, forceTools, told>>
        BY <2>7 DEF Answers, context
      <3>4. Sequenced'
        BY <3>3, <2>7 DEF Answers
      <3>5. GroundedCitations'
        BY <3>2
      <3> QED
        BY <3>4, <3>5
    <2>8. ASSUME NEW call \in running, ReturnsText(call) \/ \E hits \in Hits : Retrieves(call, hits)
          PROVE  GInv'
      BY <2>8 DEF ReturnsText, Retrieves, turn, stream, context, reader
    <2>9. CASE Gathered
      BY <2>9 DEF Gathered, NextRound
    <2>10. CASE ClosesEmpty \/ Closes
      BY <2>10 DEF ClosesEmpty, Closes, stream, context
    <2>11. CASE UNCHANGED vars
      BY <2>11 DEF vars, turn, stream, context, reader
    <2> QED
      BY <2>1, <2>2, <2>3, <2>4, <2>6, <2>7, <2>8, <2>9, <2>10, <2>11, <2>5 DEF Next, Done
  <1>3. GInv => GroundedCitations
    BY DEF GInv
  <1> QED
    BY <1>1, <1>2, <1>3, PTL DEF Spec

\* Until the end the reader has what the answer has, and no event.
Awaiting ==
    /\ phase \in {"start", "streaming", "tools", "closing", "ended"}
    /\ phase = "start" => answer = {}
    /\ phase # "ended" => answer = shown /\ sources = None /\ status = None

EInv == Awaiting /\ EndsWell

(* A turn ends once and well, whatever the model and its calls do.         *)
THEOREM TurnsEndWell == Spec => []EndsWell
  <1> USE DEF Awaiting, EndsWell, Stripped
  <1>1. Init => EInv
    BY NoneAssumption DEF Init, EInv
  <1>2. EInv /\ [Next]_vars => EInv'
    <2> SUFFICES ASSUME EInv, [Next]_vars
                 PROVE  EInv'
      OBVIOUS
    <2> USE TokensApart, NoneAssumption DEF EInv
    <2>1. CASE Unconfigured
      <3>1. /\ phase' = "ended" /\ status' = "error" /\ Word \in shown' /\ answer' = {} /\ sources' = None
        BY <2>1 DEF Unconfigured
      <3>2. Awaiting' /\ EndsWell'
        BY <3>1
      <3> QED
        BY <3>2
    <2>2. CASE StreamFails
      BY <2>2 DEF StreamFails, stream, context
    <2>3. CASE \E token \in {Word, Blank, Long} \union Numbers : ReceivesText(token)
      BY <2>3 DEF ReceivesText, turn, context
    <2>4. CASE Begins \/ ReceivesCall \/ OutOfRounds \/ CallsTools \/ SentToRetrieve
      BY <2>4 DEF Begins, NextRound, ReceivesCall, OutOfRounds, CallsTools, SentToRetrieve, turn, stream,
                  context, reader
    <2>5. CASE Answers
      BY <2>5 DEF Answers, stream, context
    <2>6. ASSUME NEW call \in running, ReturnsText(call) \/ \E hits \in Hits : Retrieves(call, hits)
          PROVE  EInv'
      BY <2>6 DEF ReturnsText, Retrieves, turn, stream, context, reader
    <2>7. CASE Gathered
      BY <2>7 DEF Gathered, NextRound
    <2>8. CASE ClosesEmpty
      BY <2>8 DEF ClosesEmpty, stream, context
    <2>9. CASE Closes
      <3>1. sources' \subseteq Cites(shown) \intersect DOMAIN passages /\ answer = shown
        BY <2>9 DEF Closes, CitedSources, Cites
      <3>2. /\ UNCHANGED <<answer, shown, passages>> /\ status' = "completed" /\ phase' = "ended"
            /\ shown \ {Blank} # {}
        BY <2>9 DEF Closes, context
      <3> QED
        BY <3>1, <3>2 DEF Cites
    <2>10. CASE UNCHANGED vars
      BY <2>10 DEF vars, turn, stream, context, reader
    <2> QED
      BY <2>1, <2>2, <2>3, <2>4, <2>5, <2>6, <2>7, <2>8, <2>9, <2>10 DEF Next, Done
  <1>3. EInv => EndsWell
    BY DEF EInv
  <1> QED
    BY <1>1, <1>2, <1>3, PTL DEF Spec

-----------------------------------------------------------------------------
(* Passages, their numbers and the budget.                                 *)

Total(s) == FoldLeft(LAMBDA sum, key : sum + Size[key], 0, s)

\* The recursive function that FoldLeft stands for, adding up s.
Adding(s, g) ==
  g = [r \in SUBSET DOMAIN s |-> IF r = {} THEN 0 ELSE g[r \ {Max(r)}] + Size[s[Max(r)]]]

LargestIn(n) == [r \in SUBSET (1 .. n) |-> Max(r)]

LEMMA LargestPicks ==
  ASSUME NEW n \in Nat
  PROVE  Picks(LargestIn(n), 1 .. n) /\ IsFiniteSet(1 .. n)
  <1>1. ASSUME NEW r \in SUBSET (1 .. n), r # {}
        PROVE  LargestIn(n)[r] \in r
    BY <1>1, MaxOfIndices DEF LargestIn
  <1>2. IsFiniteSet(1 .. n)
    BY FS_Interval
  <1> QED
    BY <1>1, <1>2 DEF Picks

LEMMA AddingExists ==
  ASSUME NEW s \in Seq(Keys)
  PROVE  /\ \E g : Adding(s, g) /\ g \in [SUBSET DOMAIN s -> Nat]
         /\ \A g : Adding(s, g) => \A r \in SUBSET DOMAIN s : g[r] \in Nat
  <1> DEFINE n == Len(s)
             F == [p \in (1 .. n) \X Nat |-> p[2] + Size[s[p[1]]]]
  <1>1. n \in Nat /\ DOMAIN s = 1 .. n
    OBVIOUS
  <1>2. F \in [(1 .. n) \X Nat -> Nat]
    <2>1. ASSUME NEW p \in (1 .. n) \X Nat
          PROVE  p[2] + Size[s[p[1]]] \in Nat
      <3>1. p[2] \in Nat /\ s[p[1]] \in Keys
        OBVIOUS
      <3> QED
        BY <3>1, SizeAssumption
    <2> QED
      BY <2>1
  <1> HIDE DEF n
  <1>3. PICK h \in [SUBSET (1 .. n) -> Nat] : FoldOn(h, 1 .. n, 0, F, LargestIn(n))
    <2> HIDE DEF F
    <2> QED
      BY <1>1, <1>2, LargestPicks, FoldExists
  <1>4. ASSUME NEW r \in SUBSET (1 .. n), r # {}
        PROVE  h[r] = h[r \ {Max(r)}] + Size[s[Max(r)]]
    <2>1. LargestIn(n)[r] = Max(r) /\ Max(r) \in 1 .. n
      BY <1>1, <1>4, LargestPicks DEF LargestIn, Picks
    <2>2. h[r] = F[<<Max(r), h[r \ {Max(r)}]>>]
      <3> HIDE DEF F
      <3> QED
        BY <1>3, <1>4, <2>1 DEF FoldOn
    <2>3. h[r \ {Max(r)}] \in Nat
      OBVIOUS
    <2> QED
      BY <2>1, <2>2, <2>3
  <1>5. h[{}] = 0
    <2> HIDE DEF F
    <2> QED
      BY <1>3 DEF FoldOn
  <1>6. Adding(s, h)
    <2>1. h = [r \in SUBSET (1 .. n) |-> h[r]]
      OBVIOUS
    <2> QED
      BY <1>1, <1>4, <1>5, <2>1 DEF Adding
  <1>7. ASSUME NEW g, Adding(s, g)
        PROVE  \A r \in SUBSET (1 .. n) : g[r] \in Nat
    <2> DEFINE Bad == {r \in SUBSET (1 .. n) : g[r] \notin Nat}
    <2>1. ASSUME Bad # {}
          PROVE  FALSE
      <3>1. \A r \in Bad : IsFiniteSet(r)
        <4>1. IsFiniteSet(1 .. n)
          BY <1>1, FS_Interval
        <4> QED
          BY <4>1, FS_Subset
      <3>2. PICK r \in Bad : \A q \in Bad : q \subseteq r => q = r
        <4> HIDE DEF Bad
        <4> QED
          BY <2>1, <3>1, LeastSet
      <3>3. g[r] = IF r = {} THEN 0 ELSE g[r \ {Max(r)}] + Size[s[Max(r)]]
        BY <1>1, <1>7 DEF Adding
      <3>4. r # {}
        BY <3>2, <3>3
      <3>5. Max(r) \in r
        BY <1>1, <3>4, MaxOfIndices
      <3>6. g[r \ {Max(r)}] \in Nat
        BY <3>2, <3>5
      <3>7. Size[s[Max(r)]] \in Nat
        <4>1. Max(r) \in 1 .. n
          BY <3>5
        <4>2. s[Max(r)] \in Keys
          BY <1>1, <4>1
        <4> QED
          BY <4>2, SizeAssumption
      <3> QED
        BY <3>2, <3>3, <3>4, <3>6, <3>7
    <2> QED
      BY <2>1
  <1> QED
    BY <1>1, <1>6, <1>7

LEMMA TotalIs ==
  ASSUME NEW s \in Seq(Keys)
  PROVE  \E g : Adding(s, g) /\ Total(s) = g[1 .. Len(s)] /\ Total(s) \in Nat
  <1> DEFINE g == CHOOSE h : Adding(s, h)
  <1>1. Adding(s, g)
    BY AddingExists
  <1>2. Total(s) = g[DOMAIN s]
    BY DEF Total, FoldLeft, MapThenFoldSet, Adding
  <1> HIDE DEF g
  <1>3. DOMAIN s = 1 .. Len(s)
    OBVIOUS
  <1>4. g[DOMAIN s] \in Nat
    BY <1>1, AddingExists
  <1> QED
    BY <1>1, <1>2, <1>3, <1>4

LEMMA TotalOfNone == Total(<<>>) = 0
  <1>1. <<>> \in Seq(Keys)
    OBVIOUS
  <1>2. PICK g : Adding(<<>>, g) /\ Total(<<>>) = g[1 .. Len(<<>>)]
    BY <1>1, TotalIs
  <1>3. 1 .. Len(<<>>) = {} /\ DOMAIN <<>> = {}
    OBVIOUS
  <1>4. g[{}] = 0
    BY <1>2, <1>3 DEF Adding
  <1> QED
    BY <1>2, <1>3, <1>4

LEMMA TotalOfAppend ==
  ASSUME NEW s \in Seq(Keys), NEW k \in Keys
  PROVE  Total(Append(s, k)) = Total(s) + Size[k]
  <1> DEFINE t == Append(s, k)
             n == Len(s)
  <1>1. /\ t \in Seq(Keys) /\ Len(t) = n + 1 /\ n \in Nat /\ t[n + 1] = k
        /\ \A i \in 1 .. n : t[i] = s[i]
        /\ DOMAIN t = 1 .. n + 1 /\ DOMAIN s = 1 .. n
    OBVIOUS
  <1> HIDE DEF t
  <1>2. PICK g : Adding(s, g) /\ Total(s) = g[1 .. n]
    BY TotalIs
  <1>3. PICK h : Adding(t, h) /\ Total(t) = h[1 .. n + 1]
    BY <1>1, TotalIs
  <1> HIDE DEF n
  <1>4. Max(1 .. n + 1) = n + 1
    <2>1. 1 .. n + 1 # {} /\ n + 1 \in Nat
      BY <1>1
    <2>2. Max(1 .. n + 1) \in 1 .. n + 1 /\ Max(1 .. n + 1) >= n + 1
      <3> DEFINE T == 1 .. n + 1
      <3>1. n + 1 \in Nat /\ T \in SUBSET (1 .. n + 1) /\ T # {} /\ n + 1 \in T
        BY <1>1
      <3> HIDE DEF T
      <3>2. Max(T) \in T /\ \A j \in T : Max(T) >= j
        BY <3>1, MaxOfIndices
      <3> QED
        BY <3>1, <3>2 DEF T
    <2> QED
      BY <1>1, <2>2
  <1>5. (1 .. n + 1) \ {n + 1} = 1 .. n /\ 1 .. n + 1 # {}
    <2>1. n \in Nat
      BY <1>1
    <2>2. n + 1 \in 1 .. n + 1
      BY <2>1
    <2>3. \A i : i \in (1 .. n + 1) \ {n + 1} <=> i \in 1 .. n
      BY <2>1
    <2> QED
      BY <2>2, <2>3
  <1>6. h[1 .. n + 1] = h[1 .. n] + Size[k]
    <2>1. 1 .. n + 1 \in SUBSET DOMAIN t
      BY <1>1
    <2>2. h[1 .. n + 1] = IF 1 .. n + 1 = {} THEN 0
                          ELSE h[(1 .. n + 1) \ {Max(1 .. n + 1)}] + Size[t[Max(1 .. n + 1)]]
      BY <1>3, <2>1 DEF Adding
    <2> QED
      BY <1>1, <1>4, <1>5, <2>2
  <1>7. h[1 .. n] = g[1 .. n]
    <2> DEFINE Bad == {r \in SUBSET (1 .. n) : g[r] # h[r]}
    <2>1. ASSUME Bad # {}
          PROVE  FALSE
      <3>1. \A r \in Bad : IsFiniteSet(r)
        <4>1. IsFiniteSet(1 .. n)
          BY <1>1, FS_Interval
        <4> QED
          BY <4>1, FS_Subset
      <3>2. PICK r \in Bad : \A q \in Bad : q \subseteq r => q = r
        <4> HIDE DEF Bad
        <4> QED
          BY <2>1, <3>1, LeastSet
      <3>3. r \in SUBSET DOMAIN s /\ r \in SUBSET DOMAIN t
        BY <1>1
      <3>4. /\ g[r] = IF r = {} THEN 0 ELSE g[r \ {Max(r)}] + Size[s[Max(r)]]
            /\ h[r] = IF r = {} THEN 0 ELSE h[r \ {Max(r)}] + Size[t[Max(r)]]
        BY <1>2, <1>3, <3>3 DEF Adding
      <3>5. r # {}
        BY <3>2, <3>4
      <3>6. Max(r) \in r
        BY <1>1, <3>5, MaxOfIndices
      <3>7. g[r \ {Max(r)}] = h[r \ {Max(r)}] /\ s[Max(r)] = t[Max(r)]
        BY <1>1, <3>2, <3>6
      <3> QED
        BY <3>2, <3>4, <3>5, <3>7
    <2> QED
      BY <2>1
  <1> QED
    BY <1>2, <1>3, <1>6, <1>7 DEF t, n

\* The contexts that Searched can make of the passages P.
Within(P, c) ==
  /\ IsInjective(c.passages)
  /\ c.chars = Total(c.passages) /\ c.chars <= CONTEXT_CHARS
  /\ Len(P) <= Len(c.passages) /\ \A i \in 1 .. Len(P) : c.passages[i] = P[i]
  /\ \A p \in c.lines : p[1] \in DOMAIN c.passages /\ c.passages[p[1]] = p[2]

Contexts(P) ==
  {c \in [passages : Seq(Keys), chars : Nat, lines : SUBSET (Nat \X Keys), full : BOOLEAN] : Within(P, c)}

(* One passage more: it keeps its number if it has one, gets the next one  *)
(* if it fits, and otherwise is the last that is looked at.                *)
LEMMA AddStaysWithin ==
  ASSUME NEW P \in Seq(Keys), NEW c \in Contexts(P), NEW key \in Keys
  PROVE  Add(c, key) \in Contexts(P)
  <1>1. /\ c.passages \in Seq(Keys) /\ c.chars \in Nat /\ c.lines \in SUBSET (Nat \X Keys)
        /\ c.full \in BOOLEAN /\ Within(P, c)
        /\ c = [passages |-> c.passages, chars |-> c.chars, lines |-> c.lines, full |-> c.full]
    BY DEF Contexts
  <1>2. CASE c.full
    BY <1>2 DEF Add
  <1>3. CASE ~c.full /\ Contains(c.passages, key)
    <2> DEFINE i == CHOOSE i \in DOMAIN c.passages : c.passages[i] = key
               d == [c EXCEPT !.lines = @ \union {<<i, key>>}]
    <2>1. i \in DOMAIN c.passages /\ c.passages[i] = key
      BY <1>1, <1>3 DEF Contains
    <2>2. i \in Nat
      BY <1>1, <2>1
    <2>3. Add(c, key) = d
      BY <1>3 DEF Add
    <2> HIDE DEF i
    <2>4. /\ d.passages = c.passages /\ d.chars = c.chars /\ d.full = c.full
          /\ d.lines = c.lines \union {<<i, key>>}
          /\ d \in [passages : Seq(Keys), chars : Nat, lines : SUBSET (Nat \X Keys), full : BOOLEAN]
      BY <1>1, <2>2
    <2> HIDE DEF d
    <2>5. Within(P, d)
      BY <1>1, <2>1, <2>4 DEF Within
    <2> QED
      BY <2>3, <2>4, <2>5 DEF Contexts
  <1>4. CASE ~c.full /\ ~Contains(c.passages, key) /\ Fits(c, key)
    <2> DEFINE n == Len(c.passages)
               q == Append(c.passages, key)
               d == [c EXCEPT !.passages = Append(@, key), !.chars = @ + Size[key],
                              !.lines = @ \union {<<Len(c.passages) + 1, key>>}]
    <2>1. Add(c, key) = d
      BY <1>4 DEF Add
    <2>2. /\ q \in Seq(Keys) /\ n \in Nat /\ DOMAIN q = 1 .. n + 1 /\ Len(q) = n + 1 /\ q[n + 1] = key
          /\ DOMAIN c.passages = 1 .. n /\ \A i \in 1 .. n : q[i] = c.passages[i]
      BY <1>1
    <2>3. Size[key] \in Nat
      BY SizeAssumption
    <2>4. /\ d.passages = q /\ d.chars = c.chars + Size[key] /\ d.full = c.full
          /\ d.lines = c.lines \union {<<n + 1, key>>}
      BY <1>1
    <2>5. d \in [passages : Seq(Keys), chars : Nat, lines : SUBSET (Nat \X Keys), full : BOOLEAN]
      <3>1. c.chars + Size[key] \in Nat
        BY <1>1, <2>3
      <3>2. c.lines \union {<<n + 1, key>>} \in SUBSET (Nat \X Keys)
        BY <1>1, <2>2
      <3>3. d = [c EXCEPT !.passages = q, !.chars = c.chars + Size[key],
                          !.lines = c.lines \union {<<n + 1, key>>}]
        OBVIOUS
      <3>4. c \in [passages : Seq(Keys), chars : Nat, lines : SUBSET (Nat \X Keys), full : BOOLEAN]
        BY DEF Contexts
      <3> HIDE DEF d, q, n
      <3> QED
        BY <2>2, <3>1, <3>2, <3>3, <3>4
    <2>6. Total(q) = c.chars + Size[key]
      BY <1>1, TotalOfAppend DEF Within
    <2>7. c.chars + Size[key] <= CONTEXT_CHARS
      BY <1>4 DEF Fits
    <2> HIDE DEF d, q, n
    <2>8. IsInjective(q)
      <3>1. \A i \in 1 .. n : q[i] # key
        BY <1>4, <2>2 DEF Contains, n
      <3>2. \A i, j \in 1 .. n : q[i] = q[j] => i = j
        <4>1. IsInjective(c.passages)
          BY <1>1 DEF Within
        <4>2. \A i, j \in DOMAIN c.passages : c.passages[i] = c.passages[j] => i = j
          BY <4>1 DEF IsInjective
        <4> QED
          BY <2>2, <4>2
      <3>3. ASSUME NEW i \in 1 .. n + 1, NEW j \in 1 .. n + 1, q[i] = q[j]
            PROVE  i = j
        <4>1. CASE i \in 1 .. n /\ j \in 1 .. n
          BY <3>2, <3>3, <4>1
        <4>2. CASE i = n + 1 \/ j = n + 1
          BY <2>2, <3>1, <3>3, <4>2
        <4> QED
          BY <2>2, <4>1, <4>2
      <3> QED
        BY <2>2, <3>3 DEF IsInjective
    <2>9. Len(P) <= n + 1 /\ \A i \in 1 .. Len(P) : q[i] = P[i]
      <3>1. Len(P) \in Nat /\ Len(P) <= n /\ \A i \in 1 .. Len(P) : c.passages[i] = P[i]
        BY <1>1 DEF Within, n
      <3> QED
        BY <2>2, <3>1
    <2>10. \A p \in d.lines : p[1] \in DOMAIN q /\ q[p[1]] = p[2]
      <3>1. \A p \in c.lines : p[1] \in 1 .. n /\ q[p[1]] = p[2]
        BY <1>1, <2>2 DEF Within
      <3> QED
        BY <2>2, <2>4, <3>1
    <2>11. Within(P, d)
      BY <2>2, <2>4, <2>6, <2>7, <2>8, <2>9, <2>10 DEF Within
    <2> QED
      BY <2>1, <2>5, <2>11 DEF Contexts
  <1>5. CASE ~c.full /\ ~Contains(c.passages, key) /\ ~Fits(c, key)
    <2> DEFINE d == [c EXCEPT !.full = TRUE]
    <2>1. Add(c, key) = d
      BY <1>5 DEF Add
    <2>2. /\ d.passages = c.passages /\ d.chars = c.chars /\ d.lines = c.lines
          /\ d \in [passages : Seq(Keys), chars : Nat, lines : SUBSET (Nat \X Keys), full : BOOLEAN]
      BY <1>1
    <2> HIDE DEF d
    <2> QED
      BY <1>1, <2>1, <2>2 DEF Within, Contexts
  <1> QED
    BY <1>1, <1>2, <1>3, <1>4, <1>5

\* The recursive function that FoldLeft stands for, searching hits from b on.
Adds(hits, b, g) ==
  g = [r \in SUBSET DOMAIN hits |-> IF r = {} THEN b ELSE Add(g[r \ {Max(r)}], hits[Max(r)])]

LEMMA SearchedStaysWithin ==
  ASSUME NEW n \in Nat, NEW hits \in [1 .. n -> Keys], passages \in Seq(Keys),
         NEW b, b = [passages |-> passages, chars |-> chars, lines |-> {}, full |-> FALSE],
         b \in Contexts(passages)
  PROVE  Searched(hits) \in Contexts(passages)
  <1> DEFINE V == Contexts(passages)
             F == [p \in (1 .. n) \X V |-> Add(p[2], hits[p[1]])]
             g == CHOOSE h : Adds(hits, b, h)
  <1>1. F \in [(1 .. n) \X V -> V]
    BY AddStaysWithin
  <1>2. PICK h \in [SUBSET (1 .. n) -> V] : FoldOn(h, 1 .. n, b, F, LargestIn(n))
    <2> HIDE DEF F, V
    <2>1. b \in V
      BY DEF V
    <2> QED
      BY <1>1, <2>1, LargestPicks, FoldExists
  <1>3. Adds(hits, b, h)
    <2>1. ASSUME NEW r \in SUBSET (1 .. n), r # {}
          PROVE  h[r] = Add(h[r \ {Max(r)}], hits[Max(r)])
      <3>1. LargestIn(n)[r] = Max(r) /\ Max(r) \in 1 .. n
        BY <2>1, LargestPicks DEF LargestIn, Picks
      <3>2. h[r] = F[<<Max(r), h[r \ {Max(r)}]>>]
        <4> HIDE DEF F, V
        <4> QED
          BY <1>2, <2>1, <3>1 DEF FoldOn
      <3>3. h[r \ {Max(r)}] \in V
        <4> HIDE DEF V
        <4> QED
          OBVIOUS
      <3> HIDE DEF V
      <3> QED
        BY <3>1, <3>2, <3>3
    <2>2. h[{}] = b
      <3> HIDE DEF F, V
      <3> QED
        BY <1>2 DEF FoldOn
    <2>3. h = [r \in SUBSET (1 .. n) |-> h[r]]
      <3> HIDE DEF V
      <3> QED
        OBVIOUS
    <2> HIDE DEF V, F
    <2> QED
      BY <2>1, <2>2, <2>3 DEF Adds
  <1>4. Adds(hits, b, g)
    BY <1>3
  <1>5. Searched(hits) = g[DOMAIN hits]
    BY DEF Searched, FoldLeft, MapThenFoldSet, Adds
  <1> HIDE DEF g, F
  <1> DEFINE Bad == {r \in SUBSET (1 .. n) : g[r] \notin V}
  <1> HIDE DEF V
  <1>6. ASSUME Bad # {}
        PROVE  FALSE
    <2>1. \A r \in Bad : IsFiniteSet(r)
      <3>1. IsFiniteSet(1 .. n)
        BY FS_Interval
      <3> QED
        BY <3>1, FS_Subset
    <2>2. PICK r \in Bad : \A q \in Bad : q \subseteq r => q = r
      <3> HIDE DEF Bad
      <3> QED
        BY <1>6, <2>1, LeastSet
    <2>3. g[r] = IF r = {} THEN b ELSE Add(g[r \ {Max(r)}], hits[Max(r)])
      BY <1>4 DEF Adds
    <2>4. r # {}
      BY <2>2, <2>3 DEF V
    <2>5. Max(r) \in r
      BY <2>4, MaxOfIndices
    <2>6. g[r \ {Max(r)}] \in V /\ hits[Max(r)] \in Keys
      <3> DEFINE m == Max(r)
      <3>1. m \in r
        BY <2>5
      <3> HIDE DEF m
      <3>2. r \ {m} \notin Bad /\ r \ {m} \in SUBSET (1 .. n)
        BY <2>2, <3>1
      <3> QED
        BY <3>1, <3>2 DEF m
    <2>7. Add(g[r \ {Max(r)}], hits[Max(r)]) \in V
      BY <2>6, AddStaysWithin DEF V
    <2> QED
      BY <2>2, <2>3, <2>4, <2>7
  <1>7. 1 .. n \notin Bad
    BY <1>6
  <1> QED
    BY <1>5, <1>7 DEF V

\* The inductive invariant.
Numbered ==
    /\ passages \in Seq(Keys) /\ chars = Total(passages)
    /\ told \union results \subseteq Nat \X Keys
    /\ OneNumberEach

LEMMA RetrievesKeepsNumbers ==
  ASSUME Numbered, NEW call, NEW hits \in Hits, Retrieves(call, hits)
  PROVE  Numbered'
  <1> DEFINE b == [passages |-> passages, chars |-> chars, lines |-> {}, full |-> FALSE]
             c == Searched(hits)
  <1>1. PICK n \in Nat : hits \in [1 .. n -> Keys]
    BY BoundsAssumption DEF Hits
  <1>2. /\ IsInjective(passages) /\ Total(passages) <= CONTEXT_CHARS
        /\ \A p \in told \union results : p[1] \in DOMAIN passages /\ passages[p[1]] = p[2]
        /\ Total(passages) \in Nat
    BY TotalIs DEF Numbered, OneNumberEach, Total
  <1>3. b \in Contexts(passages)
    BY <1>2 DEF Numbered, Contexts, Within
  <1>4. c \in Contexts(passages)
    <2> HIDE DEF c
    <2> QED
      BY <1>1, <1>3, SearchedStaysWithin DEF Numbered, c
  <1>5. passages' = c.passages /\ chars' = c.chars /\ results' = results \union c.lines /\ told' = told
    BY DEF Retrieves
  <1> HIDE DEF c, b
  <1>6. c.passages \in Seq(Keys) /\ Within(passages, c)
    BY <1>4 DEF Contexts
  <1>7. /\ passages' \in Seq(Keys) /\ IsInjective(passages') /\ chars' = Total(passages')
        /\ Total(passages') <= CONTEXT_CHARS
    BY <1>5, <1>6 DEF Within
  <1>8. \A i \in DOMAIN passages : i \in DOMAIN passages' /\ passages'[i] = passages[i]
    BY <1>5, <1>6 DEF Within, Numbered
  <1>9. \A p \in told' \union results' : p[1] \in DOMAIN passages' /\ passages'[p[1]] = p[2]
    BY <1>2, <1>5, <1>6, <1>8 DEF Within
  <1>10. told' \union results' \subseteq Nat \X Keys
    BY <1>4, <1>5 DEF Numbered, Contexts
  <1>11. Total(passages)' = Total(passages')
    OBVIOUS
  <1> QED
    BY <1>7, <1>9, <1>10, <1>11 DEF Numbered, OneNumberEach, Total

LEMMA InitIsNumbered ==
  Init => Numbered
  <1> SUFFICES ASSUME Init
               PROVE  Numbered
    OBVIOUS
  <1>1. passages = <<>> /\ chars = 0 /\ told = {} /\ results = {}
    BY DEF Init
  <1>2. Total(passages) = 0
    BY <1>1, TotalOfNone
  <1>3. IsInjective(passages) /\ passages \in Seq(Keys)
    BY <1>1 DEF IsInjective
  <1>4. Total(passages) <= CONTEXT_CHARS
    BY <1>2, BudgetAssumption
  <1>5. \A p \in told \union results : p[1] \in DOMAIN passages /\ passages[p[1]] = p[2]
    BY <1>1
  <1> QED
    BY <1>1, <1>2, <1>3, <1>4, <1>5 DEF Numbered, OneNumberEach, Total

LEMMA NextKeepsNumbers ==
  Numbered /\ [Next]_vars => Numbered'
  <1> SUFFICES ASSUME Numbered, [Next]_vars
               PROVE  Numbered'
    OBVIOUS
  <1>1. ASSUME UNCHANGED <<passages, chars>>, told' \union results' \subseteq told \union results
        PROVE  Numbered'
    <2>1. Total(passages)' = Total(passages)
      BY <1>1
    <2> QED
      BY <1>1, <2>1 DEF Numbered, OneNumberEach, Total, IsInjective
  <1>2. CASE \E call \in running, hits \in Hits : Retrieves(call, hits)
    BY <1>2, RetrievesKeepsNumbers
  <1>3. CASE Gathered
    BY <1>1, <1>3 DEF Gathered
  <1>4. CASE UNCHANGED context
    BY <1>1, <1>4 DEF context
  <1>5. CASE Unconfigured \/ Begins \/ ReceivesCall \/ StreamFails \/ SentToRetrieve \/ Answers
             \/ OutOfRounds \/ CallsTools \/ ClosesEmpty \/ Closes
    BY <1>4, <1>5 DEF Unconfigured, Begins, ReceivesCall, StreamFails, SentToRetrieve, Answers,
                      OutOfRounds, CallsTools, ClosesEmpty, Closes
  <1>6. CASE \E token \in {Word, Blank, Long} \union Numbers : ReceivesText(token)
    BY <1>4, <1>6 DEF ReceivesText
  <1>7. CASE \E call \in running : ReturnsText(call)
    BY <1>4, <1>7 DEF ReturnsText
  <1>8. CASE UNCHANGED vars
    BY <1>4, <1>8 DEF vars
  <1> QED
    BY <1>2, <1>3, <1>5, <1>6, <1>7, <1>8 DEF Next, Done

(* In whatever order the calls of a round return, and however often they   *)
(* find the same passage, it has one number in the turn, the number the    *)
(* model was told, and the passages stay within the budget.                *)
THEOREM NumbersAreStable ==
  Spec => []OneNumberEach
  <1>1. Numbered => OneNumberEach
    BY DEF Numbered
  <1> QED
    BY <1>1, InitIsNumbered, NextKeepsNumbers, PTL DEF Spec

-----------------------------------------------------------------------------
(* The kinds of a turn.                                                    *)

\* Everything but the passages: a round begins only while tools are enabled.
ChatTyped ==
    /\ followUp \in BOOLEAN
    /\ phase \in {"start", "streaming", "tools", "closing", "ended"}
    /\ round \in 0 .. MAX_ROUNDS + 1
    /\ phase = "start" => round = 0
    /\ phase = "tools" => round <= MAX_ROUNDS
    /\ toolsCalled \in BOOLEAN /\ forceTools \in BOOLEAN /\ streamed \in BOOLEAN
    /\ held \subseteq Tokens /\ answer \subseteq Tokens /\ shown \subseteq Tokens
    /\ asked \in 0 .. MaxCallsAsked
    /\ running \subseteq 1 .. MAX_CALLS_PER_ROUND
    /\ sources = None \/ sources \subseteq Numbers
    /\ status \in {None, "completed", "error"}

LEMMA InitIsTyped ==
  Init => ChatTyped
  <1> SUFFICES ASSUME Init
               PROVE  ChatTyped
    OBVIOUS
  <1>1. toolsCalled \in BOOLEAN /\ forceTools \in BOOLEAN /\ streamed \in BOOLEAN
    BY DEF Init
  <1>2. MAX_ROUNDS \in Nat /\ MaxCallsAsked \in Nat
    BY RoundsAssumption, BoundsAssumption
  <1>3. followUp \in BOOLEAN
    BY DEF Init
  <1> QED
    BY <1>1, <1>2, <1>3 DEF Init, ChatTyped

LEMMA NextKeepsTyped ==
  ASSUME ChatTyped, [Next]_vars
  PROVE  ChatTyped'
  <1> USE DEF Tokens
  <1>1. MAX_ROUNDS \in Nat /\ MaxCallsAsked \in Nat /\ MAX_CALLS_PER_ROUND \in Nat
    BY RoundsAssumption, BoundsAssumption
  <1>2. CASE Unconfigured \/ StreamFails
    BY <1>2 DEF ChatTyped, Unconfigured, StreamFails, stream, context, reader, turn
  <1>3. CASE Begins \/ SentToRetrieve
    <2>1. round + 1 \in 0 .. MAX_ROUNDS + 1
      BY <1>1, <1>3 DEF ChatTyped, Begins, SentToRetrieve, Buffering, ToolsEnabled
    <2>2. forceTools' \in BOOLEAN
      BY <1>3 DEF ChatTyped, Begins, SentToRetrieve
    <2>3. streamed' \in BOOLEAN /\ asked' = 0 /\ held' = {} /\ round' = round + 1 /\ phase' = "streaming"
      BY <1>3 DEF Begins, SentToRetrieve, NextRound
    <2>4. UNCHANGED <<followUp, toolsCalled, running, answer, shown, sources, status>>
      BY <1>3 DEF Begins, SentToRetrieve, reader
    <2> QED
      BY <1>1, <2>1, <2>2, <2>3, <2>4 DEF ChatTyped
  <1>4. ASSUME NEW token \in {Word, Blank, Long} \union Numbers, ReceivesText(token)
        PROVE  ChatTyped'
    BY <1>4 DEF ChatTyped, ReceivesText, turn, context
  <1>5. CASE ReceivesCall
    BY <1>1, <1>5 DEF ChatTyped, ReceivesCall, turn, context, reader
  <1>6. CASE Answers \/ OutOfRounds
    BY <1>6 DEF ChatTyped, Answers, OutOfRounds, stream, context, reader
  <1>7. CASE CallsTools
    <2>1. running' \subseteq 1 .. MAX_CALLS_PER_ROUND
      BY <1>1, <1>7 DEF ChatTyped, CallsTools
    <2>2. /\ phase' = "tools" /\ round' = round /\ round <= MAX_ROUNDS /\ forceTools' \in BOOLEAN
          /\ toolsCalled' \in BOOLEAN /\ UNCHANGED <<followUp, stream, reader>>
      BY <1>7 DEF CallsTools, ToolsEnabled
    <2> QED
      BY <2>1, <2>2 DEF ChatTyped, stream, reader
  <1>8. ASSUME NEW call \in running, ReturnsText(call) \/ \E hits \in Hits : Retrieves(call, hits)
        PROVE  ChatTyped'
    <2>1. running' \subseteq running /\ UNCHANGED <<followUp, turn, stream, reader>>
      BY <1>8 DEF ReturnsText, Retrieves, context
    <2> QED
      BY <2>1 DEF ChatTyped, turn, stream, reader
  <1>9. CASE Gathered
    <2>1. round + 1 \in 0 .. MAX_ROUNDS + 1
      BY <1>1, <1>9 DEF ChatTyped, Gathered
    <2>2. streamed' \in BOOLEAN
      BY <1>9 DEF Gathered, NextRound
    <2> QED
      BY <1>1, <1>9, <2>1, <2>2 DEF ChatTyped, Gathered, NextRound
  <1>10. CASE ClosesEmpty \/ Closes
    <2>1. sources' \subseteq Numbers
      BY <1>10 DEF ClosesEmpty, Closes, CitedSources, Cites
    <2> QED
      BY <1>10, <2>1 DEF ChatTyped, ClosesEmpty, Closes, stream, context
  <1>11. CASE UNCHANGED vars
    BY <1>11 DEF ChatTyped, vars, turn, stream, context, reader
  <1> QED
    BY <1>2, <1>3, <1>4, <1>5, <1>6, <1>7, <1>8, <1>9, <1>10, <1>11 DEF Next, Done

\* A turn has no more passages than there are, because each has one number.
LEMMA PassagesBounded ==
  ASSUME Numbered
  PROVE  /\ Len(passages) \in 0 .. Cardinality(Keys)
         /\ passages \in [1 .. Len(passages) -> Keys]
         /\ chars \in Nat
         /\ told \subseteq Pairs /\ results \subseteq Pairs
  <1> DEFINE n == Len(passages)
  <1>1. /\ n \in Nat /\ passages \in [1 .. n -> Keys] /\ DOMAIN passages = 1 .. n
        /\ passages \in Seq(Keys)
    BY DEF Numbered
  <1>2. n <= Cardinality(Keys) /\ Cardinality(Keys) \in Nat
    <2> DEFINE T == {passages[i] : i \in 1 .. n}
    <2>1. IsFiniteSet(1 .. n) /\ Cardinality(1 .. n) = n
      BY <1>1, FS_Interval
    <2>2. passages \in Injection(1 .. n, Keys)
      BY <1>1 DEF Numbered, OneNumberEach, IsInjective, Injection
    <2>3. IsFiniteSet(Keys)
      BY KeysAssumption
    <2> QED
      BY <2>1, <2>2, <2>3, FS_Injection, FS_CardinalityType
  <1>3. chars \in Nat
    BY <1>1, TotalIs DEF Numbered
  <1>4. told \union results \subseteq Pairs
    <2>1. ASSUME NEW p \in told \union results
          PROVE  p \in Pairs
      <3>1. p \in Nat \X Keys /\ p[1] \in 1 .. n
        BY <1>1 DEF Numbered, OneNumberEach
      <3>2. p[1] \in 1 .. Cardinality(Keys)
        BY <1>1, <1>2, <3>1
      <3> QED
        BY <3>1, <3>2 DEF Pairs
    <2> QED
      BY <2>1
  <1> QED
    BY <1>1, <1>2, <1>3, <1>4

(* Type correctness of a turn of the knowledge chat: it has MAX_ROUNDS + 1 *)
(* rounds at most, each runs MAX_CALLS_PER_ROUND calls at most, and a turn *)
(* has no more passages than the knowledge base.                           *)
THEOREM ChatsTyped == Spec => []TypeOK
  <1>1. ChatTyped /\ Numbered => TypeOK
    <2> SUFFICES ASSUME ChatTyped, Numbered
                 PROVE  TypeOK
      OBVIOUS
    <2>1. passages \in UNION {[1 .. n -> Keys] : n \in 0 .. Cardinality(Keys)}
      BY PassagesBounded
    <2> QED
      BY <2>1, PassagesBounded DEF ChatTyped, TypeOK
  <1> QED
    BY <1>1, InitIsNumbered, NextKeepsNumbers, InitIsTyped, NextKeepsTyped, PTL DEF Spec

-----------------------------------------------------------------------------
(* Documents.                                                              *)

ParseStages == {"new", "fetching", "waiting", "parsing", "storing", "over"}
ParseAnswers == {"none", "unauthorised", "error", "ready", "raised"}
ParsesTyped == parse \in [Parses -> [at : ParseStages, doc : Docs \union {NoDoc}, answer : ParseAnswers]]

\* A request is answered once and for all.
AnsweredLast == \A r \in Parses : parse[r].at # "over" => parse[r].answer = "none"

(* The inductive invariant.                                                *)
DocsInv == ParsesTyped /\ AnsweredLast /\ ErrorStoresNothing

-----------------------------------------------------------------------------
(* A step of a request that is not over yet, and stores at most its own    *)
(* text with a "ready" or a "raised", keeps the invariant.                 *)
LEMMA RequestKeepsDocs ==
  ASSUME DocsInv, NEW r \in Parses, parse[r].at # "over",
         NEW x \in [at : ParseStages, doc : Docs \union {NoDoc}, answer : ParseAnswers],
         parse' = [parse EXCEPT ![r] = x],
         x.at # "over" => x.answer = "none",
         extracted' = extracted \/ (/\ extracted' = extracted \union {x.doc}
                                    /\ x.answer \in {"ready", "raised"})
  PROVE  DocsInv'
  <1>1. \A s \in Parses : parse'[s] = IF s = r THEN x ELSE parse[s]
    BY DEF DocsInv, ParsesTyped
  <1>2. ParsesTyped' /\ AnsweredLast'
    BY <1>1 DEF DocsInv, ParsesTyped, AnsweredLast
  <1>3. ASSUME NEW d \in extracted
        PROVE  \E s \in Parses : parse'[s].doc = d /\ parse'[s].answer \in {"ready", "raised"}
    <2>1. PICK s \in Parses : parse[s].doc = d /\ parse[s].answer \in {"ready", "raised"}
      BY DEF DocsInv, ErrorStoresNothing
    <2>2. s # r
      BY <2>1 DEF DocsInv, AnsweredLast
    <2> QED
      BY <1>1, <2>1, <2>2
  <1>4. ASSUME x.answer \in {"ready", "raised"}
        PROVE  \E s \in Parses : parse'[s].doc = x.doc /\ parse'[s].answer \in {"ready", "raised"}
    BY <1>1, <1>4
  <1>5. ErrorStoresNothing'
    BY <1>3, <1>4 DEF ErrorStoresNothing
  <1> QED
    BY <1>2, <1>5 DEF DocsInv

\* Moving on, or responding, with nothing stored.
LEMMA MovesKeepsDocs ==
  ASSUME DocsInv, NEW r \in Parses, parse[r].at # "over", extracted' = extracted,
         \/ \E stage \in ParseStages \ {"over"} : ParseAt(r, stage)
         \/ \E word \in ParseAnswers : Replies(r, word)
  PROVE  DocsInv'
  <1>1. CASE \E stage \in ParseStages \ {"over"} : ParseAt(r, stage)
    <2>1. PICK stage \in ParseStages \ {"over"} : ParseAt(r, stage)
      BY <1>1
    <2> DEFINE x == [parse[r] EXCEPT !.at = stage]
    <2>2. /\ x \in [at : ParseStages, doc : Docs \union {NoDoc}, answer : ParseAnswers]
          /\ x.at = stage /\ x.answer = "none"
      BY DEF DocsInv, ParsesTyped, AnsweredLast
    <2>3. parse' = [parse EXCEPT ![r] = x]
      BY <2>1 DEF ParseAt
    <2> HIDE DEF x
    <2> QED
      BY <2>2, <2>3, RequestKeepsDocs
  <1>2. CASE \E word \in ParseAnswers : Replies(r, word)
    <2>1. PICK word \in ParseAnswers : Replies(r, word)
      BY <1>2
    <2> DEFINE x == [parse[r] EXCEPT !.at = "over", !.answer = word]
    <2>2. /\ x \in [at : ParseStages, doc : Docs \union {NoDoc}, answer : ParseAnswers]
          /\ x.at = "over"
      BY DEF DocsInv, ParsesTyped, ParseStages
    <2>3. parse' = [parse EXCEPT ![r] = x]
      BY <2>1 DEF Replies
    <2> HIDE DEF x
    <2> QED
      BY <2>2, <2>3, RequestKeepsDocs
  <1> QED
    BY <1>1, <1>2

\* A request is turned away, or begins without an answer.
LEMMA AsksKeepsDocs ==
  ASSUME DocsInv, NEW r \in Parses, AsksToParse(r)
  PROVE  DocsInv'
  <1>1. CASE Replies(r, "unauthorised")
    BY <1>1, MovesKeepsDocs DEF AsksToParse, ParseAnswers
  <1>2. ASSUME NEW d \in Docs, parse' = [parse EXCEPT ![r].at = "fetching", ![r].doc = d]
        PROVE  DocsInv'
    <2> DEFINE x == [parse[r] EXCEPT !.at = "fetching", !.doc = d]
    <2>1. /\ x \in [at : ParseStages, doc : Docs \union {NoDoc}, answer : ParseAnswers]
          /\ x.at = "fetching" /\ x.answer = "none"
      BY DEF AsksToParse, DocsInv, ParsesTyped, AnsweredLast, ParseStages
    <2>2. parse' = [parse EXCEPT ![r] = x]
      BY <1>2
    <2> HIDE DEF x
    <2> QED
      BY <2>1, <2>2, RequestKeepsDocs DEF AsksToParse
  <1> QED
    BY <1>1, <1>2 DEF AsksToParse

\* What is stored is the request's own text, and the answer says so.
LEMMA StoresKeepsDocs ==
  ASSUME DocsInv, NEW r \in Parses, Stores(r)
  PROVE  DocsInv'
  <1>1. ASSUME NEW word \in {"ready", "raised"}, Replies(r, word),
               extracted' \in {extracted, extracted \union {parse[r].doc}}
        PROVE  DocsInv'
    <2> DEFINE x == [parse[r] EXCEPT !.at = "over", !.answer = word]
    <2>1. /\ x \in [at : ParseStages, doc : Docs \union {NoDoc}, answer : ParseAnswers]
          /\ x.at = "over" /\ x.answer = word /\ x.doc = parse[r].doc
      BY DEF DocsInv, ParsesTyped, ParseStages, ParseAnswers
    <2>2. parse' = [parse EXCEPT ![r] = x]
      BY <1>1 DEF Replies
    <2> HIDE DEF x
    <2> QED
      BY <1>1, <2>1, <2>2, RequestKeepsDocs DEF Stores
  <1> QED
    BY <1>1 DEF Stores

\* A turn's prelude and its tool read texts and store none.
LEMMA TurnsStoreNothing ==
  ASSUME NEW t \in Turns, TurnBegins(t) \/ TurnStep(t) \/ Rereads(t)
  PROVE  UNCHANGED <<parse, extracted>>
  <1>1. CASE TurnBegins(t)
    BY <1>1 DEF TurnBegins
  <1>2. CASE Rereads(t)
    BY <1>2 DEF Rereads
  <1>3. CASE ReadsText(t)
    BY <1>3 DEF ReadsText, GoesOn
  <1>4. CASE KnowsTypes(t) \/ FetchesImage(t) \/ Shrinks(t)
    BY <1>4 DEF KnowsTypes, FetchesImage, Shrinks
  <1>5. CASE ListsChat(t) \/ ListsAttached(t) \/ Looks(t) \/ VisionHangs(t)
    BY <1>5 DEF ListsChat, ListsAttached, Looks, VisionHangs
  <1> QED
    BY <1>1, <1>2, <1>3, <1>4, <1>5 DEF TurnStep

\* The other steps store nothing, and end or move on one request at most.
LEMMA NextKeepsDocs ==
  ASSUME DocsInv, [DocsNext]_docsVars
  PROVE  DocsInv'
  <1>1. CASE UNCHANGED <<parse, extracted>>
    BY <1>1 DEF DocsInv, ParsesTyped, AnsweredLast, ErrorStoresNothing
  <1>2. ASSUME NEW r \in Parses, FetchesOriginal(r) \/ Acquires(r) \/ Converts(r) \/ TimesOut(r)
        PROVE  DocsInv'
    <2>1. parse[r].at # "over" /\ extracted' = extracted
      BY <1>2 DEF FetchesOriginal, Acquires, Converts, TimesOut
    <2>2. \/ \E stage \in ParseStages \ {"over"} : ParseAt(r, stage)
          \/ \E word \in ParseAnswers : Replies(r, word)
      BY <1>2 DEF FetchesOriginal, Acquires, Converts, Converted, TimesOut, ParseStages, ParseAnswers
    <2> QED
      BY <2>1, <2>2, MovesKeepsDocs
  <1>3. ASSUME NEW r \in Parses, OrphanEnds(r)
        PROVE  UNCHANGED <<parse, extracted>>
    BY <1>3 DEF OrphanEnds
  <1>4. ASSUME NEW t \in Turns, TurnBegins(t) \/ TurnStep(t) \/ Rereads(t)
        PROVE  UNCHANGED <<parse, extracted>>
    BY <1>4, TurnsStoreNothing
  <1>5. DocsRest \/ UNCHANGED docsVars => UNCHANGED <<parse, extracted>>
    BY DEF DocsRest, docsVars
  <1> QED
    BY <1>1, <1>2, <1>3, <1>4, <1>5, AsksKeepsDocs, StoresKeepsDocs DEF DocsNext, ParseStep

-----------------------------------------------------------------------------
(* A text is in storage only if a request stored it and was answered so:   *)
(* one that answered "error" leaves nothing behind, however many threads   *)
(* its abandoned conversions still hold (parse_document_endpoint of        *)
(* router.py and parse_document of document_parser.py).                    *)
THEOREM ErrorsStoreNothing ==
  DocsSpec => []ErrorStoresNothing
  <1>1. DocsInit => DocsInv
    BY DEF DocsInit, NewParse, DocsInv, ParsesTyped, AnsweredLast, ErrorStoresNothing, ParseStages, ParseAnswers
  <1>2. DocsInv /\ [DocsNext]_docsVars => DocsInv'
    BY NextKeepsDocs
  <1>3. DocsInv => ErrorStoresNothing
    BY DEF DocsInv
  <1> QED
    BY <1>1, <1>2, <1>3, PTL DEF DocsSpec

-----------------------------------------------------------------------------
(* What a turn reads.                                                      *)

\* A request that was answered "ready" has stored its text.
ReadyStored == \A r \in Parses : parse[r].answer = "ready" => parse[r].doc \in extracted

LEMMA ReadyStaysStored ==
  ASSUME DocsInv, ReadyStored, [DocsNext]_docsVars
  PROVE  ReadyStored' /\ extracted \subseteq extracted'
  <1> USE DEF DocsInv, ParsesTyped, ReadyStored
  <1>1. CASE UNCHANGED <<parse, extracted>>
    BY <1>1
  <1>2. ASSUME NEW r \in Parses, AsksToParse(r)
        PROVE  ReadyStored' /\ extracted \subseteq extracted'
    <2>1. extracted' = extracted
      BY <1>2 DEF AsksToParse
    <2>2. parse[r].answer = "none"
      BY <1>2 DEF AsksToParse, AnsweredLast
    <2>3. CASE Replies(r, "unauthorised")
      BY <2>1, <2>3 DEF Replies
    <2>4. ASSUME NEW d \in Docs, parse' = [parse EXCEPT ![r].at = "fetching", ![r].doc = d]
          PROVE  ReadyStored'
      BY <2>1, <2>2, <2>4
    <2> QED
      BY <1>2, <2>1, <2>3, <2>4 DEF AsksToParse
  <1>3. ASSUME NEW r \in Parses, FetchesOriginal(r) \/ Acquires(r) \/ Converts(r) \/ TimesOut(r)
        PROVE  ReadyStored' /\ extracted \subseteq extracted'
    <2>1. extracted' = extracted
      BY <1>3 DEF FetchesOriginal, Acquires, Converts, TimesOut
    <2>2. Replies(r, "error") \/ \E stage \in ParseStages : ParseAt(r, stage)
      BY <1>3 DEF FetchesOriginal, Acquires, Converts, Converted, TimesOut, ParseStages
    <2>3. CASE Replies(r, "error")
      BY <2>1, <2>3 DEF Replies
    <2>4. ASSUME NEW stage \in ParseStages, ParseAt(r, stage)
          PROVE  ReadyStored'
      BY <2>1, <2>4 DEF ParseAt
    <2> QED
      BY <2>1, <2>2, <2>3, <2>4
  <1>4. ASSUME NEW r \in Parses, Stores(r)
        PROVE  ReadyStored' /\ extracted \subseteq extracted'
    <2>1. CASE Replies(r, "ready") /\ extracted' = extracted \union {parse[r].doc}
      BY <2>1 DEF Replies
    <2>2. CASE Replies(r, "raised") /\ extracted' \in {extracted, extracted \union {parse[r].doc}}
      BY <2>2 DEF Replies
    <2> QED
      BY <1>4, <2>1, <2>2 DEF Stores
  <1>5. ASSUME NEW r \in Parses, OrphanEnds(r)
        PROVE  UNCHANGED <<parse, extracted>>
    BY <1>5 DEF OrphanEnds
  <1>6. ASSUME NEW t \in Turns, TurnBegins(t) \/ TurnStep(t) \/ Rereads(t)
        PROVE  UNCHANGED <<parse, extracted>>
    BY <1>6, TurnsStoreNothing
  <1>7. DocsRest \/ UNCHANGED docsVars => UNCHANGED <<parse, extracted>>
    BY DEF DocsRest, docsVars
  <1> QED
    BY <1>1, <1>2, <1>3, <1>4, <1>5, <1>6, <1>7 DEF DocsNext, ParseStep

\* A record of a turn, whatever its values.
IsTurn(s) ==
  \E X : s \in [at : X, ids : X, n : X, ready : X, missed : X, text : X, left : X,
                length : X, kept : X, images : X, listed : X, said : X]

\* The text of document d is in the turn, or there is a reason why it is not.
InText(s, d) ==
    \/ s.left = 0
    \/ d \in s.missed \/ Chars[d] = 0
    \/ \E p \in ToSet(s.text) : p.doc = d

HasUpTo(s, n) == \A i \in 1 .. n : Attached(s)[i] \in s.ready => InText(s, Attached(s)[i])

Texts == Seq([doc : Docs, from : Nat, chars : Nat])

\* Every text lies within the joined ones.
Joined(s) == s.length \in Nat /\ \A p \in ToSet(s.text) : p.from + p.chars <= s.length

\* What wrap cuts off lies within a word of the budget.
Wrapped(s) ==
  \A p \in ToSet(s.text) :
    p.from < s.kept \/ p.chars = 0 \/ p.from + LongestWord >= DOC_CHAR_BUDGET

\* A turn goes through its documents one after the other.
Reads(s) ==
    /\ s.ids \in Seq(Docs) /\ s.left \in 0 .. DOC_CHAR_BUDGET /\ s.text \in Texts /\ Joined(s)
    /\ s.at = "reading" => /\ s.said = "none" /\ s.left > 0 /\ s.n \in 1 .. Len(Attached(s)) /\ HasUpTo(s, s.n - 1)
    /\ s.at \notin {"new", "reading", "looking"} /\ s.said = "none" =>
          HasUpTo(s, Len(Attached(s))) /\ Wrapped(s)

\* Only fields change that have nothing to do with the texts.
SameReads(s, r) ==
    /\ r.ids = s.ids /\ r.ready = s.ready /\ r.missed = s.missed /\ r.text = s.text
    /\ r.left = s.left /\ r.length = s.length

\* After the texts that is so of every step.
SameTexts(s, r) == SameReads(s, r) /\ r.kept = s.kept /\ r.said = s.said

LEMMA AttachedDocs ==
  ASSUME NEW s, s.ids \in Seq(Docs)
  PROVE  /\ Attached(s) \in Seq(Docs) /\ Len(Attached(s)) \in Nat /\ Len(Attached(s)) <= Len(s.ids)
         /\ \A i \in 1 .. Len(Attached(s)) : Attached(s)[i] = s.ids[i]
         /\ s.ids # <<>> => Len(Attached(s)) > 0
         /\ s.ids = <<>> => Len(Attached(s)) = 0
  <1>1. MAX_DOCS_PER_TURN \in Nat \ {0}
    BY DocsAssumption
  <1> DEFINE k == IF MAX_DOCS_PER_TURN < Len(s.ids) THEN MAX_DOCS_PER_TURN ELSE Len(s.ids)
  <1>2. k \in 0 .. Len(s.ids) /\ (s.ids # <<>> => k > 0) /\ (s.ids = <<>> => k = 0)
    BY <1>1
  <1>3. Attached(s) = SubSeq(s.ids, 1, k)
    BY DEF Attached, Take
  <1> HIDE DEF k
  <1>4. /\ SubSeq(s.ids, 1, k) \in Seq(Docs) /\ Len(SubSeq(s.ids, 1, k)) = k
        /\ \A i \in 1 .. k : SubSeq(s.ids, 1, k)[i] = s.ids[i]
    BY <1>2
  <1> QED
    BY <1>2, <1>3, <1>4

\* Fields that have nothing to do with the texts change.
AtOf(s, at) == [s EXCEPT !.at = at]
AtNth(s, at, n) == [s EXCEPT !.at = at, !.n = n]
WrappedAt(s, kept) == [s EXCEPT !.at = "typing", !.n = 1, !.kept = kept]
SaidOf(s, said) == [s EXCEPT !.said = said]
AtList(s, at, x) == [s EXCEPT !.at = at, !.listed = x]
PlaceOf(s, n) == [s EXCEPT !.n = n]
ImagesOf(s, x) == [s EXCEPT !.images = x]

LEMMA MovesTo ==
  ASSUME NEW s, IsTurn(s), NEW at, NEW r, r = AtOf(s, at)
  PROVE  IsTurn(r) /\ SameTexts(s, r) /\ r.at = at
  <1>1. PICK X : s \in [at : X, ids : X, n : X, ready : X, missed : X, text : X, left : X,
                        length : X, kept : X, images : X, listed : X, said : X]
    BY DEF IsTurn
  <1> DEFINE Y == X \union {at}
             Records == [at : Y, ids : Y, n : Y, ready : Y, missed : Y, text : Y, left : Y,
                         length : Y, kept : Y, images : Y, listed : Y, said : Y]
  <1>2. r \in Records
    BY <1>1 DEF AtOf
  <1>3. \A q \in Records : IsTurn(q)
    BY DEF IsTurn
  <1> HIDE DEF Records
  <1>4. SameTexts(s, r) /\ r.at = at
    BY <1>1 DEF SameTexts, SameReads, AtOf
  <1> QED
    BY <1>2, <1>3, <1>4

LEMMA MovesToNth ==
  ASSUME NEW s, IsTurn(s), NEW at, NEW n, NEW r, r = AtNth(s, at, n)
  PROVE  IsTurn(r) /\ SameTexts(s, r) /\ r.at = at /\ r.n = n
  <1>1. PICK X : s \in [at : X, ids : X, n : X, ready : X, missed : X, text : X, left : X,
                        length : X, kept : X, images : X, listed : X, said : X]
    BY DEF IsTurn
  <1> DEFINE Y == X \union {at, n}
             Records == [at : Y, ids : Y, n : Y, ready : Y, missed : Y, text : Y, left : Y,
                         length : Y, kept : Y, images : Y, listed : Y, said : Y]
  <1>2. r \in Records
    BY <1>1 DEF AtNth
  <1>3. \A q \in Records : IsTurn(q)
    BY DEF IsTurn
  <1> HIDE DEF Records
  <1>4. SameTexts(s, r) /\ r.at = at /\ r.n = n
    BY <1>1 DEF SameTexts, SameReads, AtNth
  <1> QED
    BY <1>2, <1>3, <1>4

LEMMA MovesToList ==
  ASSUME NEW s, IsTurn(s), NEW at, NEW x, NEW r, r = AtList(s, at, x)
  PROVE  IsTurn(r) /\ SameTexts(s, r) /\ r.at = at
  <1>1. PICK X : s \in [at : X, ids : X, n : X, ready : X, missed : X, text : X, left : X,
                        length : X, kept : X, images : X, listed : X, said : X]
    BY DEF IsTurn
  <1> DEFINE Y == X \union {at, x}
             Records == [at : Y, ids : Y, n : Y, ready : Y, missed : Y, text : Y, left : Y,
                         length : Y, kept : Y, images : Y, listed : Y, said : Y]
  <1>2. r \in Records
    BY <1>1 DEF AtList
  <1>3. \A q \in Records : IsTurn(q)
    BY DEF IsTurn
  <1> HIDE DEF Records
  <1>4. SameTexts(s, r) /\ r.at = at
    BY <1>1 DEF SameTexts, SameReads, AtList
  <1> QED
    BY <1>2, <1>3, <1>4

LEMMA Wraps ==
  ASSUME NEW s, IsTurn(s), NEW kept, NEW r, r = WrappedAt(s, kept)
  PROVE  IsTurn(r) /\ SameReads(s, r) /\ r.at = "typing" /\ r.kept = kept /\ r.said = s.said
  <1>1. PICK X : s \in [at : X, ids : X, n : X, ready : X, missed : X, text : X, left : X,
                        length : X, kept : X, images : X, listed : X, said : X]
    BY DEF IsTurn
  <1> DEFINE Y == X \union {"typing", 1, kept}
             Records == [at : Y, ids : Y, n : Y, ready : Y, missed : Y, text : Y, left : Y,
                         length : Y, kept : Y, images : Y, listed : Y, said : Y]
  <1>2. r \in Records
    BY <1>1 DEF WrappedAt
  <1>3. \A q \in Records : IsTurn(q)
    BY DEF IsTurn
  <1> HIDE DEF Records
  <1>4. SameReads(s, r) /\ r.at = "typing" /\ r.kept = kept /\ r.said = s.said
    BY <1>1 DEF SameReads, WrappedAt
  <1> QED
    BY <1>2, <1>3, <1>4

LEMMA Hangs ==
  ASSUME NEW s, IsTurn(s), NEW r, r = SaidOf(s, "hung")
  PROVE  IsTurn(r) /\ SameReads(s, r) /\ r.at = s.at
  <1>1. PICK X : s \in [at : X, ids : X, n : X, ready : X, missed : X, text : X, left : X,
                        length : X, kept : X, images : X, listed : X, said : X]
    BY DEF IsTurn
  <1> DEFINE Y == X \union {"hung"}
             Records == [at : Y, ids : Y, n : Y, ready : Y, missed : Y, text : Y, left : Y,
                         length : Y, kept : Y, images : Y, listed : Y, said : Y]
  <1>2. r \in Records
    BY <1>1 DEF SaidOf
  <1>3. \A q \in Records : IsTurn(q)
    BY DEF IsTurn
  <1> HIDE DEF Records
  <1>4. SameReads(s, r) /\ r.at = s.at
    BY <1>1 DEF SameReads, SaidOf
  <1> QED
    BY <1>2, <1>3, <1>4

LEMMA NextPlace ==
  ASSUME NEW s, IsTurn(s), NEW n, NEW r, r = PlaceOf(s, n)
  PROVE  IsTurn(r) /\ SameTexts(s, r) /\ r.at = s.at /\ r.n = n
  <1>1. PICK X : s \in [at : X, ids : X, n : X, ready : X, missed : X, text : X, left : X,
                        length : X, kept : X, images : X, listed : X, said : X]
    BY DEF IsTurn
  <1> DEFINE Y == X \union {n}
             Records == [at : Y, ids : Y, n : Y, ready : Y, missed : Y, text : Y, left : Y,
                         length : Y, kept : Y, images : Y, listed : Y, said : Y]
  <1>2. r \in Records
    BY <1>1 DEF PlaceOf
  <1>3. \A q \in Records : IsTurn(q)
    BY DEF IsTurn
  <1> HIDE DEF Records
  <1>4. SameTexts(s, r) /\ r.at = s.at /\ r.n = n
    BY <1>1 DEF SameTexts, SameReads, PlaceOf
  <1> QED
    BY <1>2, <1>3, <1>4

LEMMA MoreImages ==
  ASSUME NEW s, IsTurn(s), NEW x, NEW r, r = ImagesOf(s, x)
  PROVE  IsTurn(r) /\ SameTexts(s, r) /\ r.at = s.at
  <1>1. PICK X : s \in [at : X, ids : X, n : X, ready : X, missed : X, text : X, left : X,
                        length : X, kept : X, images : X, listed : X, said : X]
    BY DEF IsTurn
  <1> DEFINE Y == X \union {x}
             Records == [at : Y, ids : Y, n : Y, ready : Y, missed : Y, text : Y, left : Y,
                         length : Y, kept : Y, images : Y, listed : Y, said : Y]
  <1>2. r \in Records
    BY <1>1 DEF ImagesOf
  <1>3. \A q \in Records : IsTurn(q)
    BY DEF IsTurn
  <1> HIDE DEF Records
  <1>4. SameTexts(s, r) /\ r.at = s.at
    BY <1>1 DEF SameTexts, SameReads, ImagesOf
  <1> QED
    BY <1>2, <1>3, <1>4

LEMMA SameTextsRead ==
  ASSUME NEW s, NEW r, Reads(s), SameTexts(s, r),
         s.at \notin {"new", "reading", "looking"}, r.at \notin {"new", "reading", "looking"}
  PROVE  Reads(r)
  <1>1. Attached(r) = Attached(s)
    BY DEF Attached, SameTexts, SameReads
  <1>2. \A d : InText(s, d) => InText(r, d)
    BY DEF InText, SameTexts, SameReads
  <1>3. (Joined(s) => Joined(r)) /\ (Wrapped(s) => Wrapped(r))
    BY DEF Joined, Wrapped, SameTexts, SameReads
  <1> QED
    BY <1>1, <1>2, <1>3 DEF Reads, SameTexts, SameReads, HasUpTo

LEMMA NextImageMoves ==
  ASSUME NEW s, IsTurn(s), NEW n
  PROVE  /\ IsTurn(NextImage(s, n)) /\ SameTexts(s, NextImage(s, n))
         /\ NextImage(s, n).at \in {"listing", "imaging"}
  <1> DEFINE found == {i \in n .. Len(Attached(s)) : s.ids[i] \in Images}
             i == CHOOSE i \in found : \A j \in found : i <= j
  <1>1. NextImage(s, n) \in {[s EXCEPT !.at = "listing"], [s EXCEPT !.at = "imaging", !.n = i]}
    BY DEF NextImage
  <1> HIDE DEF i
  <1>2. ASSUME NEW r, r = [s EXCEPT !.at = "listing"]
        PROVE  IsTurn(r) /\ SameTexts(s, r) /\ r.at = "listing"
    BY <1>2, MovesTo DEF AtOf
  <1>3. ASSUME NEW r, r = [s EXCEPT !.at = "imaging", !.n = i]
        PROVE  IsTurn(r) /\ SameTexts(s, r) /\ r.at = "imaging"
    <2>1. r = AtNth(s, "imaging", i)
      BY <1>3 DEF AtNth
    <2> QED
      BY <2>1, MovesToNth
  <1> QED
    BY <1>1, <1>2, <1>3

LEMMA TextOf ==
  ASSUME NEW text \in Texts, NEW q \in ToSet(text)
  PROVE  q.from \in Nat /\ q.chars \in Nat
  <1> DEFINE T == [doc : Docs, from : Nat, chars : Nat]
  <1>1. PICK i \in DOMAIN text : q = text[i]
    BY DEF ToSet
  <1>2. text \in Seq(T)
    BY DEF Texts
  <1> HIDE DEF T
  <1>3. text[i] \in T
    BY <1>1, <1>2
  <1> QED
    BY <1>1, <1>3 DEF T

\* What wrap cuts off begins within a word of the budget.
LEMMA CutLate ==
  ASSUME NEW s, Joined(s), s.text \in Texts, NEW kept \in WrapKeeps(s)
  PROVE  \A p \in ToSet(s.text) :
            p.from < kept \/ p.chars = 0 \/ p.from + LongestWord >= DOC_CHAR_BUDGET
  <1> SUFFICES ASSUME NEW p \in ToSet(s.text), ~(p.from < kept), p.chars # 0
               PROVE  p.from + LongestWord >= DOC_CHAR_BUDGET
    OBVIOUS
  <1>1. p.from \in Nat /\ p.chars \in Nat
    BY TextOf
  <1>2. p.from + p.chars <= s.length /\ s.length \in Nat
    BY DEF Joined
  <1>3. DOC_CHAR_BUDGET \in Nat /\ LongestWord \in Nat
    BY DocsAssumption
  <1>4. kept # s.length
    BY <1>1, <1>2
  <1>5. kept \in Nat /\ kept + LongestWord >= DOC_CHAR_BUDGET
    BY <1>3, <1>4 DEF WrapKeeps
  <1> QED
    BY <1>1, <1>3, <1>5

LEMMA NextTextReads ==
  ASSUME NEW s, IsTurn(s), s.at = "reading", s.said = "none", NEW kept \in WrapKeeps(s),
         s.ids \in Seq(Docs), s.left \in 0 .. DOC_CHAR_BUDGET, s.text \in Texts, Joined(s),
         s.n \in 1 .. Len(Attached(s)), HasUpTo(s, s.n)
  PROVE  /\ IsTurn(NextText(s, kept)) /\ Reads(NextText(s, kept))
         /\ NextText(s, kept).ready = s.ready
  <1>1. CASE s.left = 0 \/ s.n >= Len(Attached(s))
    <2> DEFINE r == WrappedAt(s, kept)
    <2>1. NextText(s, kept) = r
      BY <1>1 DEF NextText, WrappedAt
    <2> HIDE DEF r
    <2>2. IsTurn(r) /\ SameReads(s, r) /\ r.at = "typing" /\ r.kept = kept /\ r.said = "none"
      BY Wraps DEF r
    <2>3. Attached(r) = Attached(s) /\ \A d : InText(s, d) <=> InText(r, d)
      BY <2>2 DEF Attached, SameReads, InText
    <2>4. HasUpTo(r, Len(Attached(r)))
      <3>1. CASE s.left = 0
        BY <2>2, <3>1 DEF HasUpTo, InText, SameReads
      <3>2. CASE s.n >= Len(Attached(s))
        <4>1. s.n = Len(Attached(s))
          BY <3>2, AttachedDocs
        <4> QED
          BY <2>2, <2>3, <4>1 DEF HasUpTo, SameReads
      <3> QED
        BY <1>1, <3>1, <3>2
    <2>5. Wrapped(r)
      BY <2>2, CutLate DEF Wrapped, SameReads
    <2>6. Joined(r)
      BY <2>2 DEF Joined, SameReads
    <2> QED
      BY <2>1, <2>2, <2>4, <2>5, <2>6 DEF Reads, SameReads
  <1>2. CASE ~(s.left = 0 \/ s.n >= Len(Attached(s)))
    <2> DEFINE r == [s EXCEPT !.n = s.n + 1]
    <2>1. NextText(s, kept) = r
      BY <1>2 DEF NextText
    <2>2. IsTurn(r) /\ SameTexts(s, r) /\ r.at = "reading" /\ r.n = s.n + 1
      <3>1. r = PlaceOf(s, s.n + 1)
        BY DEF PlaceOf
      <3> HIDE DEF r
      <3> QED
        BY <3>1, NextPlace
    <2> HIDE DEF r
    <2>3. Attached(r) = Attached(s) /\ \A d : InText(s, d) <=> InText(r, d)
      BY <2>2 DEF Attached, SameTexts, SameReads, InText
    <2>4. r.n \in 1 .. Len(Attached(r)) /\ r.left > 0 /\ r.n - 1 = s.n
      BY <1>2, <2>2, <2>3, AttachedDocs DEF SameTexts, SameReads
    <2>5. HasUpTo(r, r.n - 1)
      BY <2>2, <2>3, <2>4 DEF HasUpTo, SameTexts, SameReads
    <2>6. Joined(r)
      BY <2>2 DEF Joined, SameTexts, SameReads
    <2> QED
      BY <2>1, <2>2, <2>4, <2>5, <2>6 DEF Reads, SameTexts, SameReads
  <1> QED
    BY <1>1, <1>2

Continues(s, r) == IsTurn(r) /\ Reads(r) /\ r.ready = s.ready

\* A chunk of the text of the document whose turn it is, or a note that it is missed.
LEMMA TextRead ==
  ASSUME NEW s, IsTurn(s), Reads(s), s.at = "reading", NEW r,
         \/ Chars[s.ids[s.n]] > 0 /\ r = WithText(s, s.ids[s.n])
         \/ \E m \in SUBSET Docs : /\ r = [s EXCEPT !.missed = s.missed \union m]
                                   /\ s.ids[s.n] \in s.ready => s.ids[s.n] \in m
  PROVE  \A kept \in WrapKeeps(r) : Continues(s, NextText(r, kept))
  <1> DEFINE d == s.ids[s.n]
  <1>1. /\ s.ids \in Seq(Docs) /\ s.text \in Texts /\ Joined(s)
        /\ s.left \in 0 .. DOC_CHAR_BUDGET /\ s.left \in Nat /\ s.left > 0
        /\ s.n \in 1 .. Len(Attached(s)) /\ HasUpTo(s, s.n - 1) /\ s.said = "none"
    BY DocsAssumption DEF Reads
  <1>2. Attached(s)[s.n] = d /\ d \in Docs
    BY <1>1, AttachedDocs
  <1>3. PICK X : s \in [at : X, ids : X, n : X, ready : X, missed : X, text : X, left : X,
                        length : X, kept : X, images : X, listed : X, said : X]
    BY DEF IsTurn
  <1> HIDE DEF d
  <1>4. ASSUME IsTurn(r), r.at = "reading", r.said = "none", r.ids = s.ids, r.n = s.n, r.ready = s.ready,
               r.left \in 0 .. DOC_CHAR_BUDGET, r.text \in Texts, Joined(r), HasUpTo(r, s.n)
        PROVE  \A kept \in WrapKeeps(r) : Continues(s, NextText(r, kept))
    <2>1. Attached(r) = Attached(s)
      BY <1>4 DEF Attached
    <2> QED
      BY <1>1, <1>4, <2>1, NextTextReads DEF Continues
  <1>5. CASE Chars[d] > 0 /\ r = WithText(s, d)
    <2> DEFINE c == Chunk(s, d)
               seen == Normal[d][c]
               from == From(s)
               length == from + seen
               p == [doc |-> d, from |-> from, chars |-> seen]
               text == Append(s.text, p)
    <2>1. c \in Nat /\ c > 0 /\ c <= s.left
      <3>1. Chars[d] \in Nat
        BY <1>2, DocsAssumption
      <3> QED
        BY <1>1, <1>5, <3>1 DEF Chunk
    <2>2. r = [s EXCEPT !.text = text, !.left = s.left - c, !.length = length]
      BY <1>5 DEF WithText
    <2>a. seen \in Nat /\ from \in Nat /\ s.length \in Nat /\ (s.text # <<>> => s.length <= from)
      <3>1. c \in 0 .. DOC_CHAR_BUDGET
        BY <1>1, <2>1, DocsAssumption
      <3>2. Normal[d] \in [0 .. DOC_CHAR_BUDGET -> Nat]
        BY <1>2, DocsAssumption
      <3>3. Separator \in Nat
        BY DocsAssumption
      <3>4. seen \in Nat
        BY <3>1, <3>2
      <3>5. s.length \in Nat
        BY <1>1 DEF Joined
      <3>6. from \in Nat /\ (s.text # <<>> => s.length <= from)
        <4>1. CASE s.text = <<>>
          BY <4>1 DEF From
        <4>2. CASE s.text # <<>>
          BY <3>3, <3>5, <4>2 DEF From
        <4> QED
          BY <4>1, <4>2
      <3> QED
        BY <3>4, <3>5, <3>6
    <2> HIDE DEF c, seen, from
    <2>b. length \in Nat /\ from + seen <= length /\ from <= length
      BY <2>a
    <2> HIDE DEF length
    <2>3. p \in [doc : Docs, from : Nat, chars : Nat] /\ p.doc = d /\ p.from = from /\ p.chars = seen
      BY <1>2, <2>a
    <2> HIDE DEF p
    <2>4. /\ text \in Texts /\ p \in ToSet(text) /\ \A q \in ToSet(s.text) : q \in ToSet(text)
          /\ \A q \in ToSet(text) : q = p \/ (q \in ToSet(s.text) /\ s.text # <<>>)
      <3>1. /\ text \in Texts /\ Len(text) = Len(s.text) + 1 /\ text[Len(s.text) + 1] = p
            /\ \A i \in 1 .. Len(s.text) : text[i] = s.text[i]
            /\ DOMAIN text = 1 .. Len(s.text) + 1 /\ DOMAIN s.text = 1 .. Len(s.text) /\ Len(s.text) \in Nat
        BY <1>1, <2>3 DEF Texts
      <3> HIDE DEF text
      <3>2. p \in ToSet(text)
        BY <3>1 DEF ToSet
      <3>3. \A q \in ToSet(s.text) : q \in ToSet(text)
        BY <3>1 DEF ToSet
      <3>4. \A q \in ToSet(text) : q = p \/ (q \in ToSet(s.text) /\ s.text # <<>>)
        BY <3>1 DEF ToSet
      <3> QED
        BY <3>1, <3>2, <3>3, <3>4
    <2> HIDE DEF text
    <2>5. /\ r.text = text /\ r.left = s.left - c /\ r.length = length /\ r.ids = s.ids /\ r.n = s.n /\ r.ready = s.ready
          /\ r.missed = s.missed /\ r.at = s.at /\ r.said = s.said
      BY <1>3, <2>2
    <2>6. IsTurn(r)
      <3> DEFINE Y == X \union {text, s.left - c, length}
      <3>1. r \in [at : Y, ids : Y, n : Y, ready : Y, missed : Y, text : Y, left : Y,
                   length : Y, kept : Y, images : Y, listed : Y, said : Y]
        BY <1>3, <2>2
      <3> HIDE DEF Y
      <3> QED
        BY <3>1 DEF IsTurn
    <2>7. r.left \in 0 .. DOC_CHAR_BUDGET
      <3>1. DOC_CHAR_BUDGET \in Nat
        BY DocsAssumption
      <3>2. s.left - c \in 0 .. DOC_CHAR_BUDGET
        BY <1>1, <2>1, <3>1
      <3> QED
        BY <2>5, <3>2
    <2>c. Joined(r)
      <3> SUFFICES ASSUME NEW q \in ToSet(r.text)
                   PROVE  q.from + q.chars <= r.length
        BY <2>5, <2>b DEF Joined
      <3>1. CASE q = p
        BY <2>3, <2>5, <2>b, <3>1
      <3>2. CASE q \in ToSet(s.text) /\ s.text # <<>>
        <4>1. q.from + q.chars <= s.length
          BY <1>1, <3>2 DEF Joined
        <4>2. q.from \in Nat /\ q.chars \in Nat
          BY <1>1, <3>2, TextOf
        <4> QED
          BY <2>5, <2>a, <2>b, <3>2, <4>1, <4>2
      <3> QED
        BY <2>4, <2>5, <3>1, <3>2
    <2>8. HasUpTo(r, s.n)
      <3>1. Attached(r) = Attached(s)
        BY <2>5 DEF Attached
      <3>2. \A e : InText(s, e) => InText(r, e)
        BY <1>1, <2>4, <2>5 DEF InText
      <3>3. InText(r, d)
        BY <2>1, <2>3, <2>4, <2>5 DEF InText
      <3>4. \A i \in 1 .. s.n : i = s.n \/ i \in 1 .. s.n - 1
        BY <1>1
      <3> QED
        BY <1>1, <1>2, <2>5, <3>1, <3>2, <3>3, <3>4 DEF HasUpTo
    <2> QED
      BY <1>1, <1>4, <2>4, <2>5, <2>6, <2>7, <2>8, <2>c
  <1>6. ASSUME NEW m \in SUBSET Docs, r = [s EXCEPT !.missed = s.missed \union m], d \in s.ready => d \in m
        PROVE  \A kept \in WrapKeeps(r) : Continues(s, NextText(r, kept))
    <2>1. /\ r.missed = s.missed \union m /\ r.left = s.left /\ r.ids = s.ids /\ r.n = s.n
          /\ r.ready = s.ready /\ r.text = s.text /\ r.at = s.at /\ r.said = s.said
          /\ r.length = s.length
      BY <1>3, <1>6
    <2>2. IsTurn(r)
      <3> DEFINE Y == X \union {s.missed \union m}
      <3>1. r \in [at : Y, ids : Y, n : Y, ready : Y, missed : Y, text : Y, left : Y,
                   length : Y, kept : Y, images : Y, listed : Y, said : Y]
        BY <1>3, <1>6
      <3> HIDE DEF Y
      <3> QED
        BY <3>1 DEF IsTurn
    <2>3. HasUpTo(r, s.n)
      <3>1. Attached(r) = Attached(s)
        BY <2>1 DEF Attached
      <3>2. \A e : InText(s, e) => InText(r, e)
        BY <2>1 DEF InText
      <3>3. d \in s.ready => InText(r, d)
        BY <1>6, <2>1 DEF InText
      <3>4. \A i \in 1 .. s.n : i = s.n \/ i \in 1 .. s.n - 1
        BY <1>1
      <3> QED
        BY <1>1, <1>2, <2>1, <3>1, <3>2, <3>3, <3>4 DEF HasUpTo
    <2>4. Joined(r)
      BY <1>1, <2>1 DEF Joined
    <2> QED
      BY <1>1, <1>4, <2>1, <2>2, <2>3, <2>4
  <1>7. CASE \E m \in SUBSET Docs : r = [s EXCEPT !.missed = s.missed \union m] /\ (d \in s.ready => d \in m)
    <2>1. PICK m \in SUBSET Docs : r = [s EXCEPT !.missed = s.missed \union m] /\ (d \in s.ready => d \in m)
      BY <1>7
    <2> QED
      BY <1>6, <2>1
  <1>8. \/ Chars[d] > 0 /\ r = WithText(s, d)
        \/ \E m \in SUBSET Docs : r = [s EXCEPT !.missed = s.missed \union m] /\ (d \in s.ready => d \in m)
    BY DEF d
  <1> QED
    BY <1>5, <1>7, <1>8

(* The inductive invariant.                                                *)
ReadsInv ==
    /\ DocsInv /\ ReadyStored
    /\ prelude = [t \in Turns |-> prelude[t]]
    /\ \A t \in Turns : /\ IsTurn(prelude[t]) /\ Reads(prelude[t])
                        /\ prelude[t].ready \subseteq extracted

LEMMA OneTurn ==
  ASSUME ReadsInv, NEW t \in Turns, NEW s, prelude' = [prelude EXCEPT ![t] = s],
         IsTurn(s), Reads(s), s.ready \subseteq extracted, [DocsNext]_docsVars
  PROVE  ReadsInv'
  <1>1. DocsInv' /\ ReadyStored' /\ extracted \subseteq extracted'
    BY NextKeepsDocs, ReadyStaysStored DEF ReadsInv
  <1>2. \A u \in Turns : prelude'[u] = IF u = t THEN s ELSE prelude[u]
    BY DEF ReadsInv
  <1>3. prelude' = [u \in Turns |-> prelude'[u]]
    BY DEF ReadsInv
  <1> QED
    BY <1>1, <1>2, <1>3 DEF ReadsInv

Fresh(ids, ready, at) == [NewTurn EXCEPT !.ids = ids, !.ready = ready, !.at = at]

IsFresh(s, ids, ready, at) ==
    /\ s.length = 0
    /\ IsTurn(s) /\ s.ids = ids /\ s.ready = ready /\ s.at = at /\ s.n = 1
    /\ s.left = DOC_CHAR_BUDGET /\ s.text = <<>> /\ s.said = "none"

LEMMA Began ==
  ASSUME NEW s, NEW ids \in Seq(Docs), NEW ready, NEW at, s = Fresh(ids, ready, at)
  PROVE  IsFresh(s, ids, ready, at)
  <1>1. s = [at |-> at, ids |-> ids, n |-> 1, ready |-> ready, missed |-> {}, text |-> <<>>,
             left |-> DOC_CHAR_BUDGET, length |-> 0, kept |-> 0, images |-> <<>>, listed |-> {}, said |-> "none"]
    BY DEF NewTurn, Fresh
  <1> DEFINE Y == {at, ids, 0, 1, ready, {}, <<>>, DOC_CHAR_BUDGET, "none"}
  <1>2. s \in [at : Y, ids : Y, n : Y, ready : Y, missed : Y, text : Y, left : Y,
               length : Y, kept : Y, images : Y, listed : Y, said : Y]
    BY <1>1
  <1> HIDE DEF Y
  <1>3. IsTurn(s)
    BY <1>2 DEF IsTurn
  <1>4. s.ids = ids /\ s.ready = ready /\ s.at = at /\ s.left = DOC_CHAR_BUDGET /\ s.length = 0
    BY <1>1
  <1>5. s.n = 1
    BY <1>1
  <1>6. s.text = <<>>
    BY <1>1
  <1>7. s.said = "none"
    BY <1>1
  <1> QED
    BY <1>3, <1>4, <1>5, <1>6, <1>7 DEF IsFresh

LEMMA TurnBeginsReads ==
  ASSUME ReadsInv, NEW t \in Turns, TurnBegins(t), [DocsNext]_docsVars
  PROVE  ReadsInv'
  <1>1. PICK ids \in Lists :
          prelude' = [prelude EXCEPT ![t] = [NewTurn EXCEPT !.ids = ids, !.ready = Ready,
                                                !.at = IF ids = <<>> THEN "listing" ELSE "reading"]]
    BY DEF TurnBegins
  <1> DEFINE at == IF ids = <<>> THEN "listing" ELSE "reading"
             s == [NewTurn EXCEPT !.ids = ids, !.ready = Ready, !.at = at]
  <1>2. prelude' = [prelude EXCEPT ![t] = s]
    BY <1>1
  <1>3. ids \in Seq(Docs) /\ DOC_CHAR_BUDGET \in Nat \ {0}
    BY DocsAssumption
  <1>4. at = IF ids = <<>> THEN "listing" ELSE "reading"
    OBVIOUS
  <1> HIDE DEF at
  <1>5. /\ IsTurn(s) /\ s.ids = ids /\ s.ready = Ready /\ s.at = at /\ s.n = 1
        /\ s.left = DOC_CHAR_BUDGET /\ s.text = <<>> /\ s.said = "none" /\ s.length = 0
    <2>1. s = Fresh(ids, Ready, at)
      BY DEF Fresh
    <2> HIDE DEF s
    <2>2. IsFresh(s, ids, Ready, at)
      BY <1>3, <2>1, Began
    <2> QED
      BY <2>2 DEF IsFresh
  <1> HIDE DEF s
  <1>6. s.text \in Texts /\ Joined(s) /\ Wrapped(s)
    BY <1>5 DEF Texts, Joined, Wrapped, ToSet
  <1>7. Ready \subseteq extracted
    BY DEF Ready, ReadsInv, ReadyStored
  <1>8. CASE ids = <<>>
    <2>1. HasUpTo(s, Len(Attached(s)))
      <3>1. Len(Attached(s)) = 0
        BY <1>3, <1>5, <1>8, AttachedDocs
      <3> QED
        BY <3>1 DEF HasUpTo
    <2>2. Reads(s)
      BY <1>3, <1>4, <1>5, <1>6, <1>8, <2>1 DEF Reads
    <2> QED
      BY <1>2, <1>5, <1>7, <2>2, OneTurn
  <1>9. CASE ids # <<>>
    <2>1. Len(Attached(s)) \in Nat /\ Len(Attached(s)) > 0
      BY <1>3, <1>5, <1>9, AttachedDocs
    <2>2. HasUpTo(s, s.n - 1) /\ s.n \in 1 .. Len(Attached(s))
      BY <1>5, <2>1 DEF HasUpTo
    <2>3. Reads(s)
      BY <1>3, <1>4, <1>5, <1>6, <1>9, <2>2 DEF Reads
    <2> QED
      BY <1>2, <1>5, <1>7, <2>3, OneTurn
  <1> QED
    BY <1>8, <1>9

LEMMA ReadsTextReads ==
  ASSUME ReadsInv, NEW t \in Turns, ReadsText(t), [DocsNext]_docsVars
  PROVE  ReadsInv'
  <1> DEFINE s == prelude[t]
             d == s.ids[s.n]
  <1>1. IsTurn(s) /\ Reads(s) /\ s.at = "reading" /\ s.ready \subseteq extracted
    BY DEF ReadsInv, ReadsText
  <1>2. d \in Docs
    BY <1>1, AttachedDocs DEF Reads
  <1>3. ASSUME NEW r, GoesOn(t, r), \A kept \in WrapKeeps(r) : Continues(s, NextText(r, kept))
        PROVE  ReadsInv'
    <2>1. PICK kept \in WrapKeeps(r) : prelude' = [prelude EXCEPT ![t] = NextText(r, kept)]
      BY <1>3 DEF GoesOn
    <2>2. Continues(s, NextText(r, kept))
      BY <1>3
    <2> QED
      BY <1>1, <2>1, <2>2, OneTurn DEF Continues
  <1>4. CASE Chars[d] > 0 /\ GoesOn(t, WithText(s, d))
    <2> DEFINE r == WithText(s, d)
    <2>1. Chars[d] > 0 /\ r = WithText(s, d) /\ GoesOn(t, r)
      BY <1>4
    <2> HIDE DEF r
    <2>2. \A kept \in WrapKeeps(r) : Continues(s, NextText(r, kept))
      BY <1>1, <2>1, TextRead
    <2> QED
      BY <1>3, <2>1, <2>2
  <1>5. CASE GoesOn(t, [s EXCEPT !.missed = @ \union (IF d \in extracted THEN {d} ELSE {})])
    <2> DEFINE m == IF d \in extracted THEN {d} ELSE {}
               r == [s EXCEPT !.missed = s.missed \union m]
    <2>1. m \in SUBSET Docs /\ (d \in s.ready => d \in m)
      BY <1>1, <1>2
    <2>2. GoesOn(t, r)
      BY <1>5
    <2>3. r = [s EXCEPT !.missed = s.missed \union m]
      OBVIOUS
    <2> HIDE DEF m, r
    <2>4. \E x \in SUBSET Docs : r = [s EXCEPT !.missed = s.missed \union x] /\ (d \in s.ready => d \in x)
      BY <2>1, <2>3
    <2>5. \A kept \in WrapKeeps(r) : Continues(s, NextText(r, kept))
      <3> HIDE DEF s
      <3> QED
        BY <1>1, <2>4, TextRead
    <2> QED
      BY <1>3, <2>2, <2>5
  <1> QED
    BY <1>4, <1>5 DEF ReadsText

\* The steps after the texts.
LEMMA LaterStepsRead ==
  ASSUME ReadsInv, NEW t \in Turns, [DocsNext]_docsVars, NEW s,
         prelude' = [prelude EXCEPT ![t] = s], IsTurn(s), SameTexts(prelude[t], s),
         prelude[t].at \notin {"new", "reading", "looking"}, s.at \notin {"new", "reading", "looking"}
  PROVE  ReadsInv'
  <1>1. Reads(s)
    BY SameTextsRead DEF ReadsInv
  <1> QED
    BY <1>1, OneTurn DEF ReadsInv, SameTexts, SameReads

LEMMA LaterReads ==
  ASSUME ReadsInv, NEW t \in Turns, [DocsNext]_docsVars,
         KnowsTypes(t) \/ FetchesImage(t) \/ Shrinks(t) \/ ListsChat(t) \/ ListsAttached(t)
  PROVE  ReadsInv'
  <1> DEFINE s == prelude[t]
  <1>1. IsTurn(s)
    BY DEF ReadsInv
  <1>2. s.at \notin {"new", "reading", "looking"}
    BY DEF KnowsTypes, FetchesImage, Shrinks, ListsChat, ListsAttached
  <1>3. ASSUME NEW at, prelude' = [prelude EXCEPT ![t].at = at], at \notin {"new", "reading", "looking"}
        PROVE  ReadsInv'
    <2> DEFINE r == AtOf(s, at)
    <2>1. prelude' = [prelude EXCEPT ![t] = r]
      BY <1>3 DEF AtOf
    <2>2. IsTurn(r) /\ SameTexts(s, r) /\ r.at = at
      BY <1>1, MovesTo
    <2> HIDE DEF r
    <2> QED
      BY <1>2, <1>3, <2>1, <2>2, LaterStepsRead
  <1>4. ASSUME NEW n, prelude' = [prelude EXCEPT ![t] = NextImage(s, n)]
        PROVE  ReadsInv'
    BY <1>1, <1>2, <1>4, NextImageMoves, LaterStepsRead
  <1>5. CASE KnowsTypes(t)
    BY <1>3, <1>4, <1>5 DEF KnowsTypes
  <1>6. CASE FetchesImage(t)
    BY <1>3, <1>4, <1>6 DEF FetchesImage
  <1>7. CASE Shrinks(t)
    <2>1. PICK d : prelude' = [prelude EXCEPT ![t] = NextImage(
                      IF d \in Usable THEN [s EXCEPT !.images = Append(@, d)] ELSE s, s.n + 1)]
      BY <1>7 DEF Shrinks
    <2> DEFINE r == IF d \in Usable THEN [s EXCEPT !.images = Append(@, d)] ELSE s
    <2>2. IsTurn(r) /\ SameTexts(s, r)
      <3>1. r \in {s, ImagesOf(s, Append(s.images, d))}
        BY DEF ImagesOf
      <3>2. SameTexts(s, s)
        BY DEF SameTexts, SameReads
      <3> HIDE DEF r
      <3> QED
        BY <1>1, <3>1, <3>2, MoreImages
    <2> HIDE DEF r
    <2>3. IsTurn(NextImage(r, s.n + 1)) /\ SameTexts(r, NextImage(r, s.n + 1))
          /\ NextImage(r, s.n + 1).at \in {"listing", "imaging"}
      BY <2>2, NextImageMoves
    <2>4. SameTexts(s, NextImage(r, s.n + 1))
      BY <2>2, <2>3 DEF SameTexts, SameReads
    <2>5. prelude' = [prelude EXCEPT ![t] = NextImage(r, s.n + 1)]
      BY <2>1 DEF r
    <2> QED
      BY <1>2, <2>3, <2>4, <2>5, LaterStepsRead
  <1>8. ASSUME NEW x, prelude' = [prelude EXCEPT ![t].at = "ready", ![t].listed = x]
        PROVE  ReadsInv'
    <2> DEFINE r == AtList(s, "ready", x)
    <2>1. prelude' = [prelude EXCEPT ![t] = r]
      BY <1>8 DEF AtList, ReadsInv
    <2>2. IsTurn(r) /\ SameTexts(s, r) /\ r.at = "ready"
      BY <1>1, MovesToList
    <2> HIDE DEF r
    <2> QED
      BY <1>2, <2>1, <2>2, LaterStepsRead
  <1>9. CASE ListsChat(t)
    BY <1>3, <1>8, <1>9 DEF ListsChat
  <1>10. CASE ListsAttached(t)
    BY <1>8, <1>10 DEF ListsAttached
  <1> QED
    BY <1>5, <1>6, <1>7, <1>9, <1>10

\* Of a turn that is looking at an image, or has looked, nothing is promised.
LEMMA LooksReads ==
  ASSUME ReadsInv, NEW t \in Turns, [DocsNext]_docsVars, Rereads(t) \/ Looks(t) \/ VisionHangs(t)
  PROVE  ReadsInv'
  <1> DEFINE Look(s) == /\ s \in [at : {"looking", "ready"}, ids : Seq(Docs), n : {1}, ready : {{}}, missed : {{}},
                                   text : {<<>>}, left : {DOC_CHAR_BUDGET}, length : {0}, kept : {0},
                                   images : {<<>>}, listed : {{}}, said : {"none", "seen", "unseen"}]
                        /\ s.at = "looking" \/ s.said # "none"
  <1>1. ASSUME NEW s, Look(s), prelude' = [prelude EXCEPT ![t] = s]
        PROVE  ReadsInv'
    <2>1. IsTurn(s)
      <3> DEFINE Y == {"looking", "ready", 0, 1, {}, <<>>, DOC_CHAR_BUDGET, "none", "seen", "unseen"} \union Seq(Docs)
      <3>1. s \in [at : Y, ids : Y, n : Y, ready : Y, missed : Y, text : Y, left : Y,
                   length : Y, kept : Y, images : Y, listed : Y, said : Y]
        BY <1>1
      <3> HIDE DEF Y
      <3> QED
        BY <3>1 DEF IsTurn
    <2>2. /\ s.ids \in Seq(Docs) /\ s.left \in 0 .. DOC_CHAR_BUDGET /\ s.text = <<>> /\ s.ready = {}
          /\ s.at = "looking" \/ (s.at = "ready" /\ s.said # "none")
          /\ s.length = 0
      BY <1>1, DocsAssumption
    <2>3. Reads(s)
      BY <2>2 DEF Reads, Texts, Joined, ToSet
    <2> QED
      BY <1>1, <2>1, <2>2, <2>3, OneTurn
  <1>2. CASE Rereads(t)
    <2>1. PICK d \in Docs : prelude' = [prelude EXCEPT ![t] = [NewTurn EXCEPT !.at = "looking", !.ids = <<d>>]]
      BY <1>2 DEF Rereads
    <2> DEFINE s == [NewTurn EXCEPT !.at = "looking", !.ids = <<d>>]
    <2>2. <<d>> \in Seq(Docs)
      OBVIOUS
    <2>3. Look(s)
      BY <2>2 DEF NewTurn
    <2> HIDE DEF s, Look
    <2> QED
      BY <1>1, <2>1, <2>3 DEF s
  <1>3. CASE Looks(t)
    <2>1. PICK said \in {"seen", "unseen"} :
            prelude' = [prelude EXCEPT ![t] = [NewTurn EXCEPT !.at = "ready", !.said = said]]
      BY <1>3 DEF Looks
    <2> DEFINE s == [NewTurn EXCEPT !.at = "ready", !.said = said]
    <2>2. <<>> \in Seq(Docs)
      OBVIOUS
    <2>3. Look(s)
      BY <2>2 DEF NewTurn
    <2> HIDE DEF s, Look
    <2> QED
      BY <1>1, <2>1, <2>3 DEF s
  <1>4. CASE VisionHangs(t)
    <2> DEFINE s == prelude[t]
               r == SaidOf(s, "hung")
    <2>1. prelude' = [prelude EXCEPT ![t] = r] /\ s.at = "looking"
      BY <1>4 DEF VisionHangs, SaidOf
    <2>2. IsTurn(s) /\ Reads(s) /\ s.ready \subseteq extracted
      BY DEF ReadsInv
    <2> HIDE DEF s
    <2>3. IsTurn(r) /\ SameReads(s, r) /\ r.at = s.at
      BY <2>2, Hangs
    <2> HIDE DEF r
    <2>4. Reads(r)
      BY <2>1, <2>2, <2>3 DEF Reads, Joined, SameReads
    <2> QED
      BY <2>1, <2>2, <2>3, <2>4, OneTurn DEF SameReads
  <1> QED
    BY <1>2, <1>3, <1>4

LEMMA InitReads ==
  DocsInit => ReadsInv
  <1> SUFFICES ASSUME DocsInit
               PROVE  ReadsInv
    OBVIOUS
  <1>1. DocsInv /\ ReadyStored /\ prelude = [t \in Turns |-> prelude[t]]
    BY DEF DocsInit, NewParse, DocsInv, ParsesTyped, AnsweredLast, ErrorStoresNothing, ReadyStored,
           ParseStages, ParseAnswers
  <1>2. ASSUME NEW t \in Turns
        PROVE  IsTurn(prelude[t]) /\ Reads(prelude[t]) /\ prelude[t].ready \subseteq extracted
    <2> DEFINE s == prelude[t]
               Y == {"new", 0, 1, {}, <<>>, DOC_CHAR_BUDGET, "none"}
    <2>1. s = NewTurn
      BY DEF DocsInit
    <2>2. s \in [at : Y, ids : Y, n : Y, ready : Y, missed : Y, text : Y, left : Y,
                 length : Y, kept : Y, images : Y, listed : Y, said : Y]
      BY <2>1 DEF NewTurn
    <2>3. s.at = "new" /\ s.ids = <<>> /\ s.left = DOC_CHAR_BUDGET /\ s.text = <<>> /\ s.ready = {}
          /\ s.length = 0
      BY <2>1 DEF NewTurn
    <2> HIDE DEF Y, s
    <2>4. IsTurn(s)
      BY <2>2 DEF IsTurn
    <2>5. Reads(s)
      BY <2>3, DocsAssumption DEF Reads, Texts, Joined, ToSet
    <2> QED
      BY <2>3, <2>4, <2>5 DEF s
  <1> QED
    BY <1>1, <1>2 DEF ReadsInv

LEMMA NextReads ==
  ReadsInv /\ [DocsNext]_docsVars => ReadsInv'
  <1> SUFFICES ASSUME ReadsInv, [DocsNext]_docsVars
               PROVE  ReadsInv'
    OBVIOUS
  <1>1. ASSUME prelude' = prelude
        PROVE  ReadsInv'
    BY <1>1, NextKeepsDocs, ReadyStaysStored DEF ReadsInv
  <1>2. ASSUME NEW r \in Parses, AsksToParse(r) \/ ParseStep(r) \/ OrphanEnds(r)
        PROVE  prelude' = prelude
    BY <1>2 DEF AsksToParse, ParseStep, FetchesOriginal, Acquires, Converts, TimesOut, Stores, OrphanEnds
  <1>3. ASSUME NEW t \in Turns, TurnBegins(t) \/ TurnStep(t) \/ Rereads(t)
        PROVE  ReadsInv'
    BY <1>3, TurnBeginsReads, ReadsTextReads, LaterReads, LooksReads DEF TurnStep
  <1>4. DocsRest \/ UNCHANGED docsVars => prelude' = prelude
    BY DEF DocsRest, docsVars
  <1> QED
    BY <1>1, <1>2, <1>3, <1>4 DEF DocsNext

(* A text that was reported ready before a turn began is in what the model *)
(* is given, unless reading it failed, nothing of it is left to show, or   *)
(* the texts before it fill the budget, also while other requests parse,   *)
(* other turns read and vision requests hang (orchestrator.py's attached   *)
(* documents, services/documents.py, services/untrusted.py).               *)
THEOREM ReadyTextsAreRead ==
  DocsSpec => []ReadyIsRead
  <1>1. ReadsInv => ReadyIsRead
    <2> SUFFICES ASSUME ReadsInv, NEW t \in Turns,
                        prelude[t].at \notin {"new", "reading", "looking"}, prelude[t].said = "none",
                        NEW d \in ToSet(Attached(prelude[t])) \intersect prelude[t].ready
                 PROVE  \/ d \in prelude[t].missed \/ Chars[d] = 0 \/ Given(prelude[t], d)
                        \/ Crowded(prelude[t], d) \/ NotReached(prelude[t], d)
      BY DEF ReadyIsRead
    <2>1. /\ Reads(prelude[t]) /\ HasUpTo(prelude[t], Len(Attached(prelude[t])))
          /\ Wrapped(prelude[t])
      BY DEF ReadsInv, Reads
    <2>2. Attached(prelude[t]) \in Seq(Docs)
      BY <2>1, AttachedDocs DEF Reads
    <2>3. PICK i \in 1 .. Len(Attached(prelude[t])) : Attached(prelude[t])[i] = d
      BY <2>2 DEF ToSet
    <2>4. InText(prelude[t], d)
      BY <2>1, <2>3 DEF HasUpTo
    <2> QED
      BY <2>1, <2>4 DEF InText, Wrapped, Given, Crowded, NotReached
  <1> QED
    BY <1>1, InitReads, NextReads, PTL DEF DocsSpec

-----------------------------------------------------------------------------
(* The executor's queue.                                                   *)

\* A client's only job leaves the queue; the others stay, each in one place.
LEMMA WithoutClient ==
  ASSUME NEW S, NEW q \in Seq(S), IsInjective(q), NEW c
  PROVE  /\ Without(q, c) \in Seq(S) /\ IsInjective(Without(q, c))
         /\ c \notin ToSet(Without(q, c))
  <1> DEFINE n == Len(q)
             p == Without(q, c)
  <1>1. n \in Nat /\ q \in [1 .. n -> S] /\ DOMAIN q = 1 .. n
    OBVIOUS
  <1>2. CASE \A i \in 1 .. n : q[i] # c
    <2>1. p = q
      BY <1>2 DEF Without, RemoveFirst
    <2> QED
      BY <1>1, <1>2, <2>1 DEF ToSet
  <1>3. ASSUME NEW i \in 1 .. n, q[i] = c
        PROVE  p \in Seq(S) /\ IsInjective(p) /\ c \notin ToSet(p)
    <2>1. {j \in 1 .. n : q[j] = c} = {i}
      BY <1>1, <1>3 DEF IsInjective
    <2>2. Min({i}) = i
      BY DEF Min
    <2>3. SelectInSeq(q, LAMBDA v : v = c) = i
      BY <2>1, <2>2 DEF SelectInSeq
    <2>4. p = SubSeq(q, 1, i - 1) \o SubSeq(q, i + 1, n)
      BY <1>3, <2>3 DEF Without, RemoveFirst, RemoveAt
    <2>5. /\ SubSeq(q, 1, i - 1) \in Seq(S) /\ Len(SubSeq(q, 1, i - 1)) = i - 1
          /\ \A j \in 1 .. i - 1 : SubSeq(q, 1, i - 1)[j] = q[j]
      BY <1>1
    <2>6. /\ SubSeq(q, i + 1, n) \in Seq(S) /\ Len(SubSeq(q, i + 1, n)) = n - i
          /\ \A j \in 1 .. n - i : SubSeq(q, i + 1, n)[j] = q[i + j]
      <3>1. \A j \in (i + 1) .. n : q[j] \in S
        BY <1>1
      <3>2. SubSeq(q, i + 1, n) \in Seq(S)
        BY <1>1, <3>1
      <3>3. Len(SubSeq(q, i + 1, n)) = IF i + 1 <= n THEN n - (i + 1) + 1 ELSE 0
        BY <1>1
      <3>4. n - i = IF i + 1 <= n THEN n - (i + 1) + 1 ELSE 0
        <4>1. n \in Int /\ i \in Int /\ i <= n
          BY <1>1
        <4> HIDE DEF n
        <4> QED
          BY <4>1
      <3>5. SubSeq(q, i + 1, n) \in Seq(S) /\ Len(SubSeq(q, i + 1, n)) = n - i
        BY <3>2, <3>3, <3>4
      <3>6. ASSUME NEW j \in 1 .. n - i
            PROVE  SubSeq(q, i + 1, n)[j] = q[i + j]
        <4>1. j \in 1 .. n - (i + 1) + 1 /\ (i + 1) + j - 1 = i + j
          BY <1>1
        <4> QED
          BY <1>1, <4>1
      <3> QED
        BY <3>5, <3>6
    <2> DEFINE at(j) == IF j < i THEN j ELSE j + 1
    <2>7. /\ p \in Seq(S) /\ DOMAIN p = 1 .. n - 1
          /\ \A j \in 1 .. n - 1 : p[j] = q[at(j)]
      <3> DEFINE front == SubSeq(q, 1, i - 1)
                 back == SubSeq(q, i + 1, n)
      <3>1. front \in Seq(S) /\ back \in Seq(S) /\ Len(front) = i - 1 /\ Len(back) = n - i
        BY <2>5, <2>6
      <3>2. \A j \in 1 .. i - 1 : front[j] = q[j]
        BY <2>5
      <3>3. \A j \in 1 .. n - i : back[j] = q[i + j]
        BY <2>6
      <3>4. p = front \o back
        BY <2>4
      <3> HIDE DEF front, back, p
      <3>5. p \in Seq(S) /\ Len(p) = n - 1
        <4>1. p \in Seq(S)
          BY <3>1, <3>4
        <4>2. Len(p) = Len(front) + Len(back)
          BY <3>1, <3>4, ConcatProperties
        <4> QED
          BY <1>1, <3>1, <4>2, <4>1
      <3>6. ASSUME NEW j \in 1 .. n - 1
            PROVE  p[j] = q[at(j)]
        <4>1. CASE j < i
          BY <1>1, <3>1, <3>2, <3>4, <4>1
        <4>2. CASE ~(j < i)
          <5>1. j - (i - 1) \in 1 .. n - i /\ i + (j - (i - 1)) = j + 1
            BY <1>1, <4>2
          <5>2. j \in 1 .. Len(front) + Len(back) /\ ~(j <= Len(front)) /\ j - Len(front) = j - (i - 1)
            BY <1>1, <3>1, <4>2
          <5>3. p[j] = back[j - Len(front)]
            BY <3>1, <3>4, <5>2
          <5> QED
            BY <3>3, <4>2, <5>1, <5>2, <5>3
        <4> QED
          BY <4>1, <4>2
      <3> QED
        BY <1>1, <3>5, <3>6
    <2> HIDE DEF p
    <2>8. \A j \in 1 .. n - 1 : at(j) \in 1 .. n /\ at(j) # i
      BY <1>1
    <2>9. \A j, k \in 1 .. n - 1 : at(j) = at(k) => j = k
      BY <1>1
    <2> HIDE DEF at
    <2>10. IsInjective(p)
      <3>1. ASSUME NEW j \in 1 .. n - 1, NEW k \in 1 .. n - 1, p[j] = p[k]
            PROVE  j = k
        <4>1. q[at(j)] = q[at(k)] /\ at(j) \in DOMAIN q /\ at(k) \in DOMAIN q
          BY <1>1, <2>7, <2>8, <3>1
        <4>2. at(j) = at(k)
          BY <4>1 DEF IsInjective
        <4> QED
          BY <2>9, <4>2
      <3> QED
        BY <2>7, <3>1 DEF IsInjective
    <2>11. c \notin ToSet(p)
      BY <1>1, <1>3, <2>7, <2>8 DEF IsInjective, ToSet
    <2> QED
      BY <2>7, <2>10, <2>11
  <1> QED
    BY <1>2, <1>3

\* A new element at the end, and the first element gone.
LEMMA AppendNew ==
  ASSUME NEW S, NEW q \in Seq(S), IsInjective(q), NEW c \in S, c \notin ToSet(q)
  PROVE  /\ Append(q, c) \in Seq(S) /\ IsInjective(Append(q, c))
         /\ ToSet(Append(q, c)) = ToSet(q) \union {c}
  <1> DEFINE n == Len(q)
             p == Append(q, c)
  <1>1. n \in Nat /\ DOMAIN q = 1 .. n
    OBVIOUS
  <1>2. p \in Seq(S) /\ DOMAIN p = 1 .. n + 1 /\ p[n + 1] = c /\ \A i \in 1 .. n : p[i] = q[i]
    BY <1>1
  <1> HIDE DEF p
  <1>3. IsInjective(p)
    BY <1>1, <1>2 DEF IsInjective, ToSet
  <1>4. ToSet(p) = ToSet(q) \union {c}
    <2>1. \A i \in 1 .. n + 1 : i = n + 1 \/ i \in 1 .. n
      BY <1>1
    <2> QED
      BY <1>1, <1>2, <2>1 DEF ToSet
  <1> QED
    BY <1>2, <1>3, <1>4 DEF p

LEMMA TailOnce ==
  ASSUME NEW S, NEW q \in Seq(S), IsInjective(q), q # <<>>
  PROVE  Tail(q) \in Seq(S) /\ IsInjective(Tail(q)) /\ ToSet(Tail(q)) = ToSet(q) \ {Head(q)}
  <1> DEFINE n == Len(q)
             p == Tail(q)
  <1>1. n \in Nat \ {0} /\ DOMAIN q = 1 .. n /\ Head(q) = q[1]
    OBVIOUS
  <1>2. p \in Seq(S) /\ DOMAIN p = 1 .. n - 1 /\ \A i \in 1 .. n - 1 : p[i] = q[i + 1]
    BY <1>1
  <1> HIDE DEF p
  <1>3. \A i \in 1 .. n - 1 : i + 1 \in 1 .. n /\ i + 1 # 1
    BY <1>1
  <1>4. IsInjective(p)
    <2>1. ASSUME NEW i \in 1 .. n - 1, NEW j \in 1 .. n - 1, p[i] = p[j]
          PROVE  i = j
      <3>1. i + 1 = j + 1
        BY <1>1, <1>2, <1>3, <2>1 DEF IsInjective
      <3> QED
        BY <1>1, <3>1
    <2> QED
      BY <1>2, <2>1 DEF IsInjective
  <1>5. ToSet(p) = ToSet(q) \ {q[1]}
    <2>1. ASSUME NEW i \in 1 .. n - 1
          PROVE  p[i] \in ToSet(q) /\ p[i] # q[1]
      <3>1. 1 \in DOMAIN q /\ i + 1 \in DOMAIN q /\ i + 1 # 1
        BY <1>1, <1>3
      <3>2. q[i + 1] # q[1]
        BY <3>1 DEF IsInjective
      <3> QED
        BY <1>2, <3>1, <3>2 DEF ToSet
    <2>2. ASSUME NEW i \in 1 .. n, q[i] # q[1]
          PROVE  q[i] \in ToSet(p)
      <3> DEFINE k == i - 1
      <3>1. k \in 1 .. n - 1 /\ k + 1 = i
        BY <1>1, <2>2
      <3> HIDE DEF k
      <3> QED
        BY <1>2, <3>1 DEF ToSet
    <2>3. \A x \in ToSet(q) : x # q[1] => x \in ToSet(p)
      BY <1>1, <2>2 DEF ToSet
    <2>4. \A x \in ToSet(p) : x \in ToSet(q) /\ x # q[1]
      BY <1>2, <2>1 DEF ToSet
    <2> QED
      BY <2>3, <2>4
  <1> QED
    BY <1>1, <1>2, <1>4, <1>5 DEF p
-----------------------------------------------------------------------------
(* The types of requests, queues and preludes.                             *)

\* What a request is about, from its first step on.
HasDoc == \A r \in Parses : parse[r].at \notin {"new", "over"} => parse[r].doc \in Docs

\* Parses that wait for the slot have one place in its queue each.
InQueue ==
    /\ waiting \in Seq(Parses) /\ IsInjective(waiting)
    /\ ToSet(waiting) = {r \in Parses : parse[r].at = "waiting"}

\* A client has one job at most.
OneJobEach == jobs \in Seq(Parses \union Turns) /\ IsInjective(jobs)

OfParses == orphans \subseteq Parses /\ extracted \subseteq Docs

\* What the steps of a request do to its stage and its document.
LEMMA RequestMoves ==
  ASSUME DocsInv, HasDoc, NEW r \in Parses,
         AsksToParse(r) \/ ParseStep(r) \/ OrphanEnds(r)
  PROVE  /\ HasDoc'
         /\ \A s \in Parses \ {r} : parse'[s] = parse[s]
         /\ Acquires(r) \/ (parse'[r].at = "waiting" <=> parse[r].at = "waiting") \/ FetchesOriginal(r)
  <1> USE DEF DocsInv, ParsesTyped, HasDoc
  <1>1. ASSUME NEW d \in Docs, parse[r].at = "new",
               parse' = [parse EXCEPT ![r].at = "fetching", ![r].doc = d]
        PROVE  /\ HasDoc' /\ parse'[r].at = "fetching"
               /\ \A s \in Parses \ {r} : parse'[s] = parse[s]
    BY <1>1
  <1>2. ASSUME NEW word, Replies(r, word)
        PROVE  /\ HasDoc' /\ parse'[r].at = "over"
               /\ \A s \in Parses \ {r} : parse'[s] = parse[s]
    BY <1>2 DEF Replies
  <1>3. ASSUME NEW stage, ParseAt(r, stage), parse[r].at \notin {"new", "over"}
        PROVE  /\ HasDoc' /\ parse'[r].at = stage
               /\ \A s \in Parses \ {r} : parse'[s] = parse[s]
    BY <1>3 DEF ParseAt
  <1>4. CASE AsksToParse(r)
    BY <1>1, <1>2, <1>4 DEF AsksToParse
  <1>5. CASE FetchesOriginal(r)
    BY <1>2, <1>3, <1>5 DEF FetchesOriginal
  <1>6. CASE Acquires(r)
    BY <1>3, <1>6 DEF Acquires
  <1>7. CASE Converts(r)
    BY <1>2, <1>3, <1>7 DEF Converts, Converted
  <1>8. CASE TimesOut(r)
    BY <1>2, <1>8 DEF TimesOut
  <1>9. CASE Stores(r)
    BY <1>2, <1>9 DEF Stores
  <1>10. CASE OrphanEnds(r)
    BY <1>10 DEF OrphanEnds
  <1> QED
    BY <1>4, <1>5, <1>6, <1>7, <1>8, <1>9, <1>10 DEF ParseStep

LEMMA RequestKeepsQueue ==
  ASSUME DocsInv, HasDoc, InQueue, NEW r \in Parses,
         AsksToParse(r) \/ ParseStep(r) \/ OrphanEnds(r)
  PROVE  InQueue'
  <1>1. \A s \in Parses \ {r} : parse'[s] = parse[s]
    BY RequestMoves
  <1>2. CASE UNCHANGED waiting /\ (parse'[r].at = "waiting" <=> parse[r].at = "waiting")
    BY <1>1, <1>2 DEF InQueue
  <1>3. CASE FetchesOriginal(r)
    <2>1. parse[r].at = "fetching"
      BY <1>3 DEF FetchesOriginal
    <2>2. CASE UNCHANGED waiting /\ (Replies(r, "error") \/ ParseAt(r, "storing"))
      <3>1. parse'[r].at # "waiting"
        BY <2>2 DEF Replies, ParseAt, DocsInv, ParsesTyped
      <3> QED
        BY <1>2, <2>1, <2>2, <3>1
    <2>3. CASE ParseAt(r, "waiting") /\ waiting' = Append(waiting, r)
      <3>1. parse'[r].at = "waiting"
        BY <2>3 DEF ParseAt, DocsInv, ParsesTyped
      <3>2. r \notin ToSet(waiting)
        BY <2>1 DEF InQueue
      <3>3. /\ waiting' \in Seq(Parses) /\ IsInjective(waiting')
            /\ ToSet(waiting') = ToSet(waiting) \union {r}
        BY <2>3, <3>2, AppendNew DEF InQueue
      <3> QED
        BY <1>1, <3>1, <3>3 DEF InQueue
    <2> QED
      BY <1>3, <2>2, <2>3 DEF FetchesOriginal
  <1>4. CASE Acquires(r)
    <2>1. /\ parse[r].at = "waiting" /\ parse'[r].at = "parsing" /\ Head(waiting) = r
          /\ waiting' = Tail(waiting)
      BY <1>4 DEF Acquires, ParseAt, DocsInv, ParsesTyped
    <2>2. waiting # <<>>
      <3>1. r \in ToSet(waiting)
        BY <2>1 DEF InQueue
      <3> QED
        BY <3>1 DEF ToSet
    <2>3. /\ waiting' \in Seq(Parses) /\ IsInjective(waiting')
          /\ ToSet(waiting') = ToSet(waiting) \ {r}
      BY <2>1, <2>2, TailOnce DEF InQueue
    <2> QED
      BY <1>1, <2>1, <2>3 DEF InQueue
  <1>5. CASE ~FetchesOriginal(r) /\ ~Acquires(r)
    <2>1. parse'[r].at = "waiting" <=> parse[r].at = "waiting"
      BY <1>5, RequestMoves
    <2>2. UNCHANGED waiting
      BY <1>5 DEF AsksToParse, ParseStep, Converts, TimesOut, Stores, OrphanEnds
    <2> QED
      BY <1>2, <2>1, <2>2
  <1> QED
    BY <1>3, <1>4, <1>5

\* Every client's step takes its job from the queue, and may put another in.
LEMMA ClientsStep ==
  ASSUME OneJobEach, NEW c \in Parses \union Turns, UNCHANGED jobs \/ JobDone(c) \/ Resubmits(c)
  PROVE  OneJobEach'
  <1>1. /\ Without(jobs, c) \in Seq(Parses \union Turns) /\ IsInjective(Without(jobs, c))
        /\ c \notin ToSet(Without(jobs, c))
    BY WithoutClient DEF OneJobEach
  <1>2. CASE UNCHANGED jobs
    BY <1>2 DEF OneJobEach
  <1>3. CASE JobDone(c)
    BY <1>1, <1>3 DEF JobDone, OneJobEach
  <1>4. CASE Resubmits(c)
    <2>1. jobs' = Append(Without(jobs, c), c)
      BY <1>4 DEF Resubmits
    <2> QED
      BY <1>1, <2>1, AppendNew DEF OneJobEach
  <1> QED
    BY <1>2, <1>3, <1>4

LEMMA NextKeepsJobs ==
  ASSUME OneJobEach, [DocsNext]_docsVars
  PROVE  OneJobEach'
  <1>1. ASSUME NEW r \in Parses, AsksToParse(r) \/ ParseStep(r) \/ OrphanEnds(r)
        PROVE  OneJobEach'
    <2>1. UNCHANGED jobs \/ JobDone(r) \/ Resubmits(r)
      BY <1>1 DEF AsksToParse, ParseStep, FetchesOriginal, Acquires, Converts, TimesOut, Stores, OrphanEnds
    <2> QED
      BY <2>1, ClientsStep
  <1>2. ASSUME NEW t \in Turns, TurnBegins(t) \/ TurnStep(t) \/ Rereads(t)
        PROVE  OneJobEach'
    <2>1. UNCHANGED jobs \/ JobDone(t) \/ Resubmits(t)
      BY <1>2 DEF TurnBegins, TurnStep, Rereads, ReadsText, GoesOn, KnowsTypes, FetchesImage, Shrinks, ListsChat,
                  ListsAttached, Looks, VisionHangs
    <2> QED
      BY <2>1, ClientsStep
  <1>3. CASE DocsRest \/ UNCHANGED docsVars
    BY <1>3 DEF DocsRest, docsVars, OneJobEach
  <1> QED
    BY <1>1, <1>2, <1>3 DEF DocsNext

\* Threads are left to requests, and what is stored is a document.
LEMMA NextKeepsParses ==
  ASSUME DocsInv, HasDoc, InQueue, OfParses, [DocsNext]_docsVars
  PROVE  HasDoc' /\ InQueue' /\ OfParses'
  <1>1. ASSUME NEW r \in Parses, AsksToParse(r) \/ ParseStep(r) \/ OrphanEnds(r)
        PROVE  HasDoc' /\ InQueue' /\ OfParses'
    <2>1. orphans' \subseteq Parses
      BY <1>1 DEF OfParses, AsksToParse, ParseStep, FetchesOriginal, Acquires, Converts, TimesOut, Stores, OrphanEnds
    <2>2. extracted' \subseteq extracted \/ Stores(r)
      BY <1>1 DEF AsksToParse, ParseStep, FetchesOriginal, Acquires, Converts, TimesOut, OrphanEnds
    <2>3. Stores(r) => extracted' \subseteq Docs
      BY DEF Stores, HasDoc, OfParses
    <2> QED
      BY <1>1, <2>1, <2>2, <2>3, RequestMoves, RequestKeepsQueue DEF OfParses
  <1>2. ASSUME NEW t \in Turns, TurnBegins(t) \/ TurnStep(t) \/ Rereads(t)
        PROVE  UNCHANGED <<parse, waiting, orphans, extracted>>
    BY <1>2 DEF TurnBegins, TurnStep, Rereads, ReadsText, GoesOn, KnowsTypes, FetchesImage, Shrinks, ListsChat,
                ListsAttached, Looks, VisionHangs
  <1>3. CASE UNCHANGED <<parse, waiting, orphans, extracted>>
    BY <1>3 DEF HasDoc, InQueue, OfParses
  <1>4. DocsRest \/ UNCHANGED docsVars => UNCHANGED <<parse, waiting, orphans, extracted>>
    BY DEF DocsRest, docsVars
  <1> QED
    BY <1>1, <1>2, <1>3, <1>4 DEF DocsNext
(* Type correctness of documents, images and attachments: the slot's queue *)
(* holds the parses that wait for it, each once; a client has one job in   *)
(* the executor at most; and a turn never takes more text than its budget. *)
THEOREM DocumentsTyped == DocsSpec => []DocsTypeOK
  <1> DEFINE Inv == ReadsInv /\ HasDoc /\ InQueue /\ OneJobEach /\ OfParses
  <1>1. DocsInit => Inv
    <2> SUFFICES ASSUME DocsInit
                 PROVE  HasDoc /\ InQueue /\ OneJobEach /\ OfParses
      BY InitReads
    <2>1. HasDoc /\ OfParses
      BY DEF DocsInit, NewParse, HasDoc, OfParses
    <2>2. InQueue
      <3>1. waiting = <<>> /\ \A r \in Parses : parse[r].at = "new"
        BY DEF DocsInit, NewParse
      <3>2. waiting \in Seq(Parses) /\ IsInjective(waiting) /\ ToSet(waiting) = {}
        BY <3>1 DEF IsInjective, ToSet
      <3> QED
        BY <3>1, <3>2 DEF InQueue
    <2>3. OneJobEach
      BY DEF DocsInit, OneJobEach, IsInjective
    <2> QED
      BY <2>1, <2>2, <2>3
  <1>2. Inv /\ [DocsNext]_docsVars => Inv'
    BY NextReads, NextKeepsJobs, NextKeepsParses DEF ReadsInv
  <1>3. Inv => DocsTypeOK
    <2> SUFFICES ASSUME Inv
                 PROVE  DocsTypeOK
      OBVIOUS
    <2>1. ToSet(jobs) \subseteq Parses \union Turns
      BY DEF OneJobEach, ToSet
    <2>2. \A r \in Parses : /\ parse[r].at \in {"new", "fetching", "waiting", "parsing", "storing", "over"}
                            /\ parse[r].doc \in Docs \union {NoDoc}
                            /\ parse[r].answer \in {"none", "unauthorised", "error", "ready", "raised"}
      BY DEF ReadsInv, DocsInv, ParsesTyped, ParseStages, ParseAnswers
    <2>3. \A t \in Turns : prelude[t].left \in 0 .. DOC_CHAR_BUDGET
      BY DEF ReadsInv, Reads
    <2> QED
      BY <2>1, <2>2, <2>3 DEF InQueue, OneJobEach, OfParses, DocsTypeOK
  <1> HIDE DEF Inv
  <1> QED
    BY <1>1, <1>2, <1>3, PTL DEF DocsSpec
=============================================================================
