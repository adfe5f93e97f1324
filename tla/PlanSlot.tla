------------------------------ MODULE PlanSlot ------------------------------
(***************************************************************************)
(* What the propose/confirm handshake expects of its store, with no        *)
(* network, no second copy and no clock: one slot per conversation.  A     *)
(* proposal is put in the slot of its conversation, replacing the one that *)
(* was there; an approval takes it out for good; a discard empties the     *)
(* slot.  A plan that has left the slot never comes back.                  *)
(*                                                                         *)
(* PendingPlans implements this specification when the database answers    *)
(* (and, without durability, when no database is configured).              *)
(***************************************************************************)
CONSTANTS
    Plans,      \* proposals; each stands for one list of calls shown once
    Keys,       \* conversations: (user_id, chat_id or "_nochat")
    Clients,    \* turns in flight, each on a worker thread of its own
    Durable,    \* TRUE when a restart of the process must not empty a slot
    None

VARIABLES
    slot,       \* slot[k]: the plan awaiting approval in k, or None
    hand,       \* hand[c]: a plan c has taken out and not yet returned, or None
    released,   \* plans handed to a turn for execution
    seen        \* plans that were put in a slot, or abandoned before that

slotVars == <<slot, hand, released, seen>>

Init ==
    /\ slot = [k \in Keys |-> None]
    /\ hand = [c \in Clients |-> None]
    /\ released = {}
    /\ seen = {}

Put(k, p) ==
    /\ p \notin seen
    /\ slot' = [slot EXCEPT ![k] = p]
    /\ seen' = seen \union {p}
    /\ UNCHANGED <<hand, released>>

\* An approval takes the plan out; whoever comes next finds the slot empty.
Claim(c, k) ==
    /\ hand[c] = None
    /\ slot[k] # None
    /\ hand' = [hand EXCEPT ![c] = slot[k]]
    /\ slot' = [slot EXCEPT ![k] = None]
    /\ UNCHANGED <<released, seen>>

Deliver(c) ==
    /\ hand[c] # None
    /\ released' = released \union {hand[c]}
    /\ hand' = [hand EXCEPT ![c] = None]
    /\ UNCHANGED <<slot, seen>>

\* Claim and Deliver in one step.
Grant(k) ==
    /\ slot[k] # None
    /\ released' = released \union {slot[k]}
    /\ slot' = [slot EXCEPT ![k] = None]
    /\ UNCHANGED <<hand, seen>>

Discard(k) ==
    /\ slot' = [slot EXCEPT ![k] = None]
    /\ UNCHANGED <<hand, released, seen>>

\* A taken plan turns out to have expired.
Drop(c) ==
    /\ hand' = [hand EXCEPT ![c] = None]
    /\ UNCHANGED <<slot, released, seen>>

\* The process dies: what turns had taken out is gone, proposals that never
\* reached the slot are abandoned, and slots survive if they are durable.
Crash ==
    /\ hand' = [c \in Clients |-> None]
    /\ \E P \in SUBSET Plans : seen' = seen \union P
    /\ slot' = IF Durable THEN slot ELSE [k \in Keys |-> None]
    /\ UNCHANGED released

Next ==
    \/ \E k \in Keys, p \in Plans : Put(k, p)
    \/ \E c \in Clients, k \in Keys : Claim(c, k)
    \/ \E c \in Clients : Deliver(c)
    \/ \E k \in Keys : Grant(k)
    \/ \E k \in Keys : Discard(k)
    \/ \E c \in Clients : Drop(c)
    \/ Crash

Spec == Init /\ [][Next]_slotVars
=============================================================================
