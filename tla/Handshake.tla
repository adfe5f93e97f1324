----------------------------- MODULE Handshake -----------------------------
(***************************************************************************)
(* The propose/confirm handshake as the user lives it: chat turns of       *)
(* orchestrator.py over the plan store of services/pending_plans.py.       *)
(*                                                                         *)
(* A turn that wants a batch of writes saves it and shows it in its reply; *)
(* a later turn whose message is a bare yes takes it and runs it; any      *)
(* other routing step clears what is there.  Every store operation is the  *)
(* one of PendingPlans, taken step by step, so turns of other chats and    *)
(* restarts come in between.  Routing is reduced to what it does to the    *)
(* store: TurnGraph has the rest.                                          *)
(*                                                                         *)
(* The user is the environment: one message at a time in a chat, sent      *)
(* after the reply to the one before it.  A deployment has a database or   *)
(* it has none, so the store is instantiated both ways.                    *)
(***************************************************************************)
EXTENDS Naturals, FiniteSets

CONSTANTS
    Plans, Keys, Clients, Ttl, MaxClock, None,  \* as in PendingPlans
    Other,      \* an answer that shows no list
    Cut,        \* no answer: the reply was stopped, lost or an error notice
    Overlaps,   \* a message may be sent while another of its chat is being answered
    Cuts,       \* how a turn may end without its answer: "stop" the client
                \* disconnects while the reply is composed, "abandon" it does so
                \* earlier, "notice" composing fails, "restart" the gateway goes
                \* down, "unrouted" the routers fail and the gate is not reached
    MaxMessages \* bound on the messages the user sends

ASSUME OverlapsAssumption == Overlaps \in BOOLEAN
ASSUME CutsAssumption == Cuts \subseteq {"stop", "abandon", "notice", "restart", "unrouted"}
ASSUME MessagesAssumption == MaxMessages \in Nat
ASSUME RepliesAssumption == Other # Cut /\ {Other, Cut} \intersect (Plans \union {None}) = {}

VARIABLES
    mem, db, now, op, late, proposed, settled, retired, releases,  \* of the store
    durable,   \* a database is configured
    turn,      \* turn[c]: the turn that serves client c
    reply,     \* reply[k]: what the last reply in chat k showed, None before the first
    messages,  \* messages sent
    lost       \* history: plans proposed before a restart that emptied the store

store == <<mem, db, now, op, late, proposed, settled, retired, releases>>
chat == <<turn, reply, messages, lost>>
vars == <<store, durable, chat>>

Db == INSTANCE PendingPlans WITH Configured <- TRUE, Reachable <- TRUE, Faults <- {}
Mem == INSTANCE PendingPlans WITH Configured <- FALSE, Reachable <- TRUE, Faults <- {}

\* As in PendingPlans.
ASSUME StoreAssumption == /\ Ttl \in Nat \ {0} /\ MaxClock \in Nat
                          /\ None \notin Plans /\ None \notin Keys /\ None \notin Db!Kinds
                          /\ None \notin Db!Entry /\ None \notin Db!Proposal

TurnStages == {"idle", "routing", "approving", "storing", "replying"}
Turn == [stage : TurnStages, key : Keys \union {None}, yes : BOOLEAN, ran : BOOLEAN,
         plan : Plans \union {None}, gone : BOOLEAN]
Idle == [stage |-> "idle", key |-> None, yes |-> FALSE, ran |-> FALSE, plan |-> None, gone |-> FALSE]

Init ==
    /\ Db!Init
    /\ durable \in BOOLEAN
    /\ turn = [c \in Clients |-> Idle]
    /\ reply = [k \in Keys |-> None]
    /\ messages = 0
    /\ lost = {}

InFlight == {c \in Clients : turn[c] # Idle}

\* An abandoned turn is over as soon as its supervisor returns.
Moves(c, stage) ==
    turn' = [turn EXCEPT ![c] = IF @.gone /\ stage = "replying" THEN Idle ELSE [@ EXCEPT !.stage = stage]]

RoutedAgain(c) == ~turn[c].gone /\ turn' = [turn EXCEPT ![c].stage = "routing", ![c].ran = TRUE]

----------------------------------------------------------------------------
(* A turn begins, and its gate decides.                                    *)

\* _confirmation_given needs an assistant turn before the yes.
Message(c, k, yes) ==
    /\ turn[c] = Idle /\ op[c] = Db!NoOp
    /\ messages < MaxMessages
    /\ Overlaps \/ \A d \in InFlight : turn[d].key = k => turn[d].gone
    /\ yes => reply[k] # None
    /\ turn' = [turn EXCEPT ![c] = [Idle EXCEPT !.stage = "routing", !.key = k, !.yes = yes]]
    /\ messages' = messages + 1
    /\ UNCHANGED <<store, durable, reply, lost>>

Confirms(c) == turn[c].yes /\ ~turn[c].ran

Takes(c) ==
    /\ turn[c].stage = "routing" /\ Confirms(c)
    /\ IF durable THEN Db!TakeBegin(c, turn[c].key) ELSE Mem!TakeBegin(c, turn[c].key)
    /\ Moves(c, "approving")
    /\ UNCHANGED <<durable, reply, messages, lost>>

Granted == \E p \in Plans : releases'[p] # releases[p]

\* With a plan the batch runs.  Without one the turn says so, or runs calls the
\* router made of its own.
Approved(c) ==
    /\ turn[c].stage = "approving"
    /\ Db!TakeAnswered(c) \/ Db!TakeFallback(c)
    /\ \/ RoutedAgain(c)
       \/ (~Granted \/ turn[c].gone) /\ Moves(c, "replying")
    /\ UNCHANGED <<durable, reply, messages, lost>>

Proposes(c, p) ==
    /\ turn[c].stage = "routing" /\ ~Confirms(c)
    /\ IF durable THEN Db!SaveBegin(c, turn[c].key, p) ELSE Mem!SaveBegin(c, turn[c].key, p)
    /\ turn' = [turn EXCEPT ![c].stage = "storing", ![c].plan = p]
    /\ UNCHANGED <<durable, reply, messages, lost>>

\* Mutant: a routing step with nothing to propose leaves the store alone.
PassesOn(c) ==
    /\ turn[c].stage = "routing" /\ ~Confirms(c)
    /\ Moves(c, "storing")
    /\ UNCHANGED <<store, durable, reply, messages, lost>>

Clears(c) ==
    /\ turn[c].stage = "routing" /\ ~Confirms(c)
    /\ IF durable THEN Db!ClearBegin(c, turn[c].key) ELSE Mem!ClearBegin(c, turn[c].key)
    /\ Moves(c, "storing")
    /\ UNCHANGED <<durable, reply, messages, lost>>

\* Mutant: the turn goes on routing after it has proposed.
StoredAndOn(c) ==
    /\ turn[c].stage = "storing" /\ op[c] = Db!NoOp
    /\ \/ Moves(c, "replying")
       \/ RoutedAgain(c)
    /\ UNCHANGED <<store, durable, reply, messages, lost>>

\* The operation is over: a proposal is composed next; otherwise the turn
\* composes, or runs tools and is routed again.
Stored(c) ==
    /\ turn[c].stage = "storing" /\ op[c] = Db!NoOp
    /\ \/ Moves(c, "replying")
       \/ turn[c].plan = None /\ RoutedAgain(c)
    /\ UNCHANGED <<store, durable, reply, messages, lost>>

----------------------------------------------------------------------------
(* A turn ends.                                                            *)
Ends(c, shown) ==
    /\ reply' = [reply EXCEPT ![turn[c].key] = shown]
    /\ turn' = [turn EXCEPT ![c] = Idle]
    /\ UNCHANGED <<store, durable, messages, lost>>

Replies(c) ==
    /\ turn[c].stage = "replying"
    /\ Ends(c, IF turn[c].plan = None THEN Other ELSE turn[c].plan)

\* The notice of a composer that failed, or a client that went away meanwhile.
\* One that goes away during the supervisor leaves it running: it is on a worker
\* thread that no cancellation stops.
Breaks(c) ==
    /\ turn[c].stage # "idle" /\ ~turn[c].gone
    /\ \/ /\ turn[c].stage = "replying" /\ {"notice", "stop"} \intersect Cuts # {}
          /\ Ends(c, Cut)
       \/ /\ turn[c].stage # "replying" /\ "abandon" \in Cuts
          /\ turn' = [turn EXCEPT ![c].gone = TRUE]
          /\ reply' = [reply EXCEPT ![turn[c].key] = Cut]
          /\ UNCHANGED <<store, durable, messages, lost>>

\* No client or a failing router: an error reply, and the gate is not reached.
Unrouted(c) ==
    /\ "unrouted" \in Cuts /\ turn[c].stage = "routing" /\ ~turn[c].gone
    /\ Ends(c, Cut)

\* A restart cuts off every turn; without a database it empties the store.
Restart ==
    /\ durable /\ "restart" \notin Cuts => InFlight = {}
    /\ Db!Restart
    /\ turn' = [c \in Clients |-> Idle]
    /\ reply' = [k \in Keys |-> IF \E c \in InFlight : turn[c].key = k THEN Cut ELSE reply[k]]
    /\ lost' = IF durable THEN lost ELSE {p \in Plans : proposed[p] # None}
    /\ UNCHANGED <<durable, messages>>

\* What the store does meanwhile.
StoreStep ==
    /\ Db!Tick \/ \E c \in Clients : Db!DbApply(c) \/ Db!SaveEnds(c) \/ Db!ClearEnds(c)
    /\ UNCHANGED <<durable, chat>>

Done == messages = MaxMessages /\ InFlight = {} /\ UNCHANGED vars

Next ==
    \/ \E c \in Clients :
         \/ \E k \in Keys, yes \in BOOLEAN : Message(c, k, yes)
         \/ Takes(c) \/ Approved(c)
         \/ \E p \in Plans : Proposes(c, p)
         \/ Clears(c) \/ Stored(c)
         \/ Replies(c) \/ Breaks(c) \/ Unrouted(c)
    \/ Restart \/ StoreStep \/ Done

Spec == Init /\ [][Next]_vars

----------------------------------------------------------------------------
\* Every variable has its type; a turn that has proposed a batch is done routing.
TypeOK ==
    /\ Db!TypeOK
    /\ durable \in BOOLEAN
    /\ turn \in [Clients -> Turn]
    /\ \A c \in Clients : turn[c].plan # None => turn[c].stage \in {"storing", "replying"}
    /\ reply \in [Keys -> Plans \union {None, Other, Cut}]
    /\ messages \in 0 .. MaxMessages
    /\ lost \subseteq Plans

(* _finish_routing: "Run exactly what was shown and agreed to", and "a     *)
(* stale proposal must not linger and fire against a later, unrelated      *)
(* yes": a plan is handed to a turn only when the last answer in its chat  *)
(* showed that list; after any other answer nothing is left to release.    *)
(* Only a reply that was cut may leave a proposal behind.                  *)
ApprovedAsShown ==
    [][\A p \in Plans : releases'[p] # releases[p] => reply[proposed[p].key] \in {p, Cut}]_vars

(* _finish_routing: a yes to a list the last reply showed finds it, unless *)
(* it has expired or a restart emptied a store without a database; the     *)
(* user is never told there is no plan on record right after seeing one.   *)
ApprovalHonoured ==
    [][\A c \in Clients, p \in Plans \ lost :
          /\ turn[c].stage = "approving" /\ turn'[c].stage \in {"routing", "replying"}
          /\ reply[turn[c].key] = p
          /\ now < proposed[p].exp
          => releases'[p] # releases[p]]_vars
=============================================================================
