---------------------------- MODULE MCTurnGraph ----------------------------
(* TurnGraph with two reads, four creations and a deletion; r3 repeats r1  *)
(* and w3 repeats w1.                                                       *)
EXTENDS TurnGraph

CONSTANTS r1, r2, r3, w1, w2, w3, w4, d1

MCCalls == {r1, r2, r3, w1, w2, w3, w4, d1}
MCSignature == [c \in MCCalls |-> CASE c = r3 -> r1 [] c = w3 -> w1 [] OTHER -> c]
MCTool == [c \in MCCalls |-> CASE c \in {r1, r2, r3} -> "list_calendar_events"
                               [] c \in {w1, w2, w3, w4} -> "create_calendar_event"
                               [] OTHER -> "delete_calendar_event"]
MCWriteTools == {"create_calendar_event", "delete_calendar_event"}
MCAlwaysConfirm == {"delete_calendar_event"}

MCBatches == {{r1}, {r2}, {r1, r2, r3}, {w1}, {w2}, {w1, w3}, {w2, w4}, {r1, w1},
              {w1, w2, w3}, {d1}, {r2, d1}}
MCPlans == {{w1, w2, w3}, {d1}}

NewRequests == {i \in Intent : ~i.affirmation /\ ~i.attached /\ ~i.images}
YesMessages == {i \in Intent : i.affirmation /\ i.streaming /\ ~i.savedDocument /\ ~i.attached /\ ~i.images}
SomeRequests == NewRequests \union YesMessages \union
    {i \in Intent : i.images /\ i.attached /\ ~i.affirmation /\ ~i.savedDocument}
FreshTurn == {i \in NewRequests : i.streaming /\ ~i.savedDocument /\ ~i.assistantBefore}
SomeStructured == YesMessages \union FreshTurn \union
    {i \in Intent : i.savedDocument /\ i.streaming /\ ~i.affirmation /\ ~i.attached /\ ~i.images}
=============================================================================
