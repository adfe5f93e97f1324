------------------------------ MODULE Gateway ------------------------------
(***************************************************************************)
(* Who may do what: identity (auth.py) and the guards of the routes of     *)
(* router.py that serve the knowledge base, the upload folder and the      *)
(* uploaded documents, with the client of the KB service (services/kb.py). *)
(*                                                                         *)
(* Every request a handler makes is a step, and the profiles table changes *)
(* between any two.  The KB service and the stores are external: a request *)
(* to them says in whose scope it acts, which is all they know of the      *)
(* caller.                                                                 *)
(***************************************************************************)
EXTENDS Naturals

CONSTANTS
    Users,
    GateCalls,      \* requests to the gateway
    SANDBOX_USER_ID, GLOBAL_OWNER, Folder,  \* owners that are not users
    RETRY_ATTEMPTS,
    MaxChanges      \* bound on changes of profiles.is_admin

ASSUME GateAssumption ==
    /\ Users \intersect {SANDBOX_USER_ID, GLOBAL_OWNER, Folder} = {}
    /\ SANDBOX_USER_ID \notin {GLOBAL_OWNER, Folder} /\ GLOBAL_OWNER # Folder
    /\ RETRY_ATTEMPTS \in Nat \ {0} /\ MaxChanges \in Nat

VARIABLES
    admins,     \* users with profiles.is_admin
    changes,    \* how often that has changed
    request     \* request[c]

gateVars == <<admins, changes, request>>

Libraries == {"ingest", "delete", "documents", "chat"}  \* routes under /kb for signed-in users
Routes == Libraries \union {"job", "parse", "uploads"}
Writing == {"ingest", "delete"}

\* `who` holds the session the token was issued for; `allowed` (history) says
\* that they were an admin at some time of the call.
NoRequest == [at |-> "new", who |-> SANDBOX_USER_ID, user |-> SANDBOX_USER_ID, route |-> "none",
              shared |-> FALSE, owner |-> SANDBOX_USER_ID, tries |-> 0, allowed |-> FALSE, status |-> 0]

GateInit == admins = {} /\ changes = 0 /\ request = [c \in GateCalls |-> NoRequest]

-----------------------------------------------------------------------------
UnderWay == {c \in GateCalls : request[c].at \notin {"new", "over"}}

\* Somebody is made an admin, or no longer is one.
Changes(u) ==
    /\ changes < MaxChanges /\ changes' = changes + 1
    /\ admins' = IF u \in admins THEN admins \ {u} ELSE admins \union {u}
    /\ request' = [c \in GateCalls |-> IF c \in UnderWay /\ request[c].who \in admins'
                                   THEN [request[c] EXCEPT !.allowed = TRUE] ELSE request[c]]

RequestAt(c, stage) == request' = [request EXCEPT ![c].at = stage]
Responds(c, status) == request' = [request EXCEPT ![c].at = "over", ![c].status = status]

\* resolve_user_id: the token's user if the token verifies; the sandbox user
\* without a token, or when it has expired, is malformed, or no key is at hand.
Identities(who) == {who, SANDBOX_USER_ID}

\* A request arrives: `shared` is scope=global of a write, or the upload folder.
Arrives(c) ==
    /\ request[c].at = "new"
    /\ \E who \in Users, route \in Routes, shared \in BOOLEAN : \E user \in Identities(who) :
          /\ shared => route \in Writing \union {"uploads"}
          /\ route = "uploads" => shared
          /\ request' = [request EXCEPT ![c] = [NoRequest EXCEPT
                            !.at = "guard", !.who = who, !.user = user, !.route = route,
                            !.shared = shared, !.owner = user, !.allowed = who \in admins]]
    /\ UNCHANGED <<admins, changes>>

\* The handler's first lines.  The status of a job is served to anyone.
Guard(c) ==
    /\ request[c].at = "guard"
    /\ IF request[c].user = SANDBOX_USER_ID /\ request[c].route # "job" THEN Responds(c, 401)
       ELSE RequestAt(c, IF request[c].shared THEN "checking"
                         ELSE IF request[c].route \in {"ingest", "parse"} THEN "fetching" ELSE "sending")
    /\ UNCHANGED <<admins, changes>>

\* The scope a checked call acts in.
SharedOwner(c) == IF request[c].route = "uploads" THEN Folder ELSE GLOBAL_OWNER

\* mutant of Admits: a profiles table that does not answer lets the call pass
AdmitsUnknown(c) == {request[c].user \in admins, TRUE}

\* is_admin, fail-closed: what the table says, or FALSE when it cannot be read.
Admits(c) == {request[c].user \in admins, FALSE}

Checks(c) ==
    /\ request[c].at = "checking"
    /\ \E admin \in Admits(c) :
          IF admin
          THEN request' = [request EXCEPT ![c].owner = SharedOwner(c),
                              ![c].at = IF request[c].route = "ingest" THEN "fetching" ELSE "sending"]
          ELSE Responds(c, 403)
    /\ UNCHANGED <<admins, changes>>

\* fetch_original under the caller's own id.  A parse answers 200 whatever
\* comes of it, with the status "error" for an original that is missing or too
\* large (one it finds goes on in Documents); an ingestion tells 404 and 413.
FetchesFor(c) ==
    /\ request[c].at = "fetching"
    /\ \/ request[c].route = "parse" /\ Responds(c, 200)
       \/ /\ request[c].route = "ingest"
          /\ RequestAt(c, "sending") \/ \E status \in {404, 413} : Responds(c, status)
    /\ UNCHANGED <<admins, changes>>

\* One request to the KB service, or the folder, in the owner's scope.  Writes
\* are tried once, and 502 does not say whether they were made; 404 is a
\* deletion that found nothing.
Sends(c) ==
    /\ request[c].at = "sending" /\ request[c].route # "chat"
    /\ \E status \in CASE request[c].route = "uploads" -> {200, 400, 500}
                       [] request[c].route = "delete" -> {200, 404, 502}
                       [] OTHER -> {200, 502} : Responds(c, status)
    /\ UNCHANGED <<admins, changes>>

\* _request, for the searches of a chat: a failed transport and a 5xx are
\* tried again; an answer, a 404 and any other refusal are final.  The
\* status is the search's: the chat's own answer has begun long before.
SearchesKb(c) ==
    /\ request[c].at = "sending" /\ request[c].route = "chat"
    /\ \/ \E status \in {200, 404, 502} : Responds(c, status)
       \/ /\ request[c].tries + 1 < RETRY_ATTEMPTS
          /\ request' = [request EXCEPT ![c].tries = @ + 1]
    /\ UNCHANGED <<admins, changes>>

GateRest == (\A c \in GateCalls : request[c].at = "over") /\ UNCHANGED gateVars

GateNext == \/ \E u \in Users : Changes(u)
            \/ \E c \in GateCalls : \/ Arrives(c) \/ Guard(c) \/ Checks(c) \/ FetchesFor(c)
                                    \/ Sends(c) \/ SearchesKb(c)
            \/ GateRest

GateSpec == GateInit /\ [][GateNext]_gateVars

-----------------------------------------------------------------------------
(* Properties.                                                             *)

(* Requests and their scopes are of the right kinds.                       *)
GateTypeOK ==
    /\ admins \subseteq Users /\ changes \in 0 .. MaxChanges
    /\ \A c \in GateCalls :
          /\ request[c].at \in {"new", "guard", "checking", "fetching", "sending", "over"}
          /\ request[c].owner \in Users \union {SANDBOX_USER_ID, GLOBAL_OWNER, Folder}
          /\ request[c].tries \in 0 .. RETRY_ATTEMPTS - 1

(* What all users share is reached only for a caller who was an admin      *)
(* during the call, and anything else only in the caller's own scope: an   *)
(* unverified caller, an unreadable profile and a right withdrawn before   *)
(* the check fail closed, and one withdrawn after it covers no second call.*)
ScopesKept ==
    \A c \in GateCalls : request[c].at = "sending" =>
        IF request[c].owner \in {GLOBAL_OWNER, Folder} THEN request[c].allowed
        ELSE request[c].owner \in Identities(request[c].who)
=============================================================================
