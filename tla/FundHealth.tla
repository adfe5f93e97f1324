----------------------------- MODULE FundHealth -----------------------------
(***************************************************************************)
(* services/fund_pollers.py: what GET /health/fund-pollers reports of the  *)
(* one-shot pollers, from the rows they leave in the funds database.       *)
(*                                                                         *)
(* A check asks poller by poller: the funds, the newest snapshots, the     *)
(* unresolved failures, the revisions to review, then two questions per    *)
(* fund.  Answers are cut at a number of rows, and pollers write rows      *)
(* between any two questions.  A date is a day number.                     *)
(***************************************************************************)
EXTENDS Naturals, Sequences, FiniteSets, FiniteSetsExt

CONSTANTS
    Pollers,        \* 1 .. n, in the order the check asks for them
    Funds,          \* Funds[p]: the funds of a poller's tickers
    Absent,         \* tickers that have no row in funds
    StaleAfter,     \* StaleAfter[p], in days
    Published,      \* Published[p]: the days a poller's snapshots are dated
    Today,
    LastDay,        \* bound on the dates, which may be ahead of Today
    SnapshotRows,   \* rows asked for per fund: 50 snapshots,
    FailureRows,    \* 500 unresolved failures
    Statuses,       \* outcomes of an attempt that happen
    MaxAttempts     \* bound on what the pollers write

AllFunds == UNION {Funds[p] : p \in DOMAIN Funds}

FreshDays(p) == {d \in Published[p] : Today <= d + StaleAfter[p]}

\* A fund has one current snapshot for a date, and its fresh ones fit into its
\* share: daily funds are stale after 4 and 6 days, with a date or two ahead of
\* Today, and the monthly ones after 70, of 50 rows each.
ASSUME FundAssumption ==
    /\ \E n \in 1 .. Cardinality(Pollers) : Pollers = 1 .. n
    /\ DOMAIN Funds = Pollers /\ Absent \subseteq AllFunds
    /\ \A p, q \in Pollers : p # q => Funds[p] \intersect Funds[q] = {}
    /\ \A p \in Pollers : IsFiniteSet(Funds[p])
    /\ Today \in Nat /\ SnapshotRows \in Nat /\ StaleAfter \in [Pollers -> Nat] /\ MaxAttempts \in Nat
    /\ Statuses \subseteq {"success", "partial", "download_failed", "unchanged", "skipped"}
    /\ FailureRows \in Nat \ {0} /\ DOMAIN Published = Pollers
    /\ LastDay \in Nat /\ \A p \in Pollers : Published[p] \subseteq 1 .. LastDay
    /\ \A p \in Pollers : Cardinality(FreshDays(p)) <= SnapshotRows

VARIABLES
    snapshots,  \* snapshots[f]: the dates of f's accepted current snapshots
    attempts,   \* attempts[f]: f's poll attempts, newest first
    check,      \* the check under way
    report,     \* report[p]: the poller's entry of the answer
    truth       \* history: the funds that were fresh, and free of failures, when asked about

fundVars == <<snapshots, attempts, check, report, truth>>

Failures == {"partial", "download_failed"}     \* and five more that count alike
Successes == {"success", "partial"}

NoCheck == [poller |-> 0, at |-> "funds", newest |-> <<>>, failed |-> <<>>, todo |-> {}, streak |-> 0]

FundInit ==
    /\ snapshots = [f \in AllFunds |-> {}]
    /\ attempts = [f \in AllFunds |-> <<>>]
    /\ check = NoCheck
    /\ report = [p \in Pollers |-> "none"]
    /\ truth = [fresh |-> {}, clear |-> {}]

-----------------------------------------------------------------------------
(* The pollers and the operator who resolves what they left.               *)
Written == MapThenSumSet(LAMBDA f : Len(attempts[f]), AllFunds)

\* One check is followed: nothing it computes outlives it.
Over == check.poller = 0 /\ \E p \in Pollers : report[p] # "none"

Polls(f, status) ==
    /\ ~Over /\ f \notin Absent /\ Written < MaxAttempts
    /\ attempts' = [attempts EXCEPT ![f] = <<[status |-> status, resolved |-> FALSE]>> \o @]
    /\ IF status \in Successes
       THEN \E p \in Pollers : \E d \in Published[p] :
               f \in Funds[p] /\ snapshots' = [snapshots EXCEPT ![f] = @ \union {d}]
       ELSE UNCHANGED snapshots
    /\ UNCHANGED <<check, report, truth>>

Resolves(f) ==
    /\ ~Over
    /\ \E i \in DOMAIN attempts[f] :
          /\ ~attempts[f][i].resolved /\ attempts[f][i].status \in Failures
          /\ attempts' = [attempts EXCEPT ![f][i].resolved = TRUE]
    /\ UNCHANGED <<snapshots, check, report, truth>>

-----------------------------------------------------------------------------
(* The questions.  An answer holds at most `limit` rows, the newest if it  *)
(* is ordered, any otherwise.                                              *)
Known(p) == Funds[p] \ Absent
Fewest(n, m) == IF n < m THEN n ELSE m
Cut(rows, limit) == {R \in SUBSET rows : Cardinality(R) = Fewest(limit, Cardinality(rows))}
CutNewest(rows, limit) ==
    {R \in Cut(rows, limit) : \A x \in R, y \in rows \ R : x.date >= y.date}

CurrentOf(p) == {r \in [fund : Known(p), date : Published[p]] : r.date \in snapshots[r.fund]}
OpenFailures(F) ==
    {r \in [fund : F, nth : 1 .. MaxAttempts] :
        /\ r.nth \in DOMAIN attempts[r.fund]
        /\ ~attempts[r.fund][r.nth].resolved
        /\ attempts[r.fund][r.nth].status \in Failures}

\* mutant of Limit: one limit for all funds of the poller
LimitInAll(p, perFund) == perFund

Limit(p, perFund) == perFund * Cardinality(Known(p))

Stale(p, dates) == dates = {} \/ Today > Max(dates) + StaleAfter[p]
FreshFunds(p) == {f \in Known(p) : ~Stale(p, snapshots[f])}

p_ == check.poller
Enters(entry) == /\ report' = [report EXCEPT ![p_] = entry]
                 /\ check' = IF p_ + 1 \in Pollers THEN [NoCheck EXCEPT !.poller = p_ + 1] ELSE NoCheck

\* GET /health/fund-pollers
CheckBegins ==
    /\ p_ = 0 /\ ~Over
    /\ check' = [NoCheck EXCEPT !.poller = 1]
    /\ UNCHANGED <<snapshots, attempts, report, truth>>

\* No rows for any ticker is an unhealthy poller.
AsksFunds ==
    /\ p_ # 0 /\ check.at = "funds"
    /\ IF Known(p_) = {} THEN Enters("unhealthy")
       ELSE check' = [check EXCEPT !.at = "snapshots"] /\ UNCHANGED report
    /\ UNCHANGED <<snapshots, attempts, truth>>

AsksSnapshots ==
    /\ p_ # 0 /\ check.at = "snapshots"
    /\ \E R \in CutNewest(CurrentOf(p_), Limit(p_, SnapshotRows)) :
          check' = [check EXCEPT !.at = "failures",
                       !.newest = [f \in Known(p_) |-> {r.date : r \in {r \in R : r.fund = f}}]]
    /\ truth' = [truth EXCEPT !.fresh = (@ \ Funds[p_]) \union FreshFunds(p_)]
    /\ UNCHANGED <<snapshots, attempts, report>>

AsksFailures ==
    /\ p_ # 0 /\ check.at = "failures"
    /\ \E R \in Cut(OpenFailures(Known(p_)), Limit(p_, FailureRows)) :
          check' = [check EXCEPT !.at = "perFund", !.todo = Known(p_),
                       !.failed = [f \in Known(p_) |-> Cardinality({r \in R : r.fund = f})]]
    /\ truth' = [truth EXCEPT !.clear = (@ \ Funds[p_]) \union
                                 {f \in Known(p_) : OpenFailures({f}) = {}}]
    /\ UNCHANGED <<snapshots, attempts, report>>

\* Failures since the last attempt that proved the pipeline works; skips say nothing.
ConsecutiveFailures(log) ==
    Cardinality({i \in DOMAIN log : /\ log[i].status \in Failures
                                    /\ \A j \in 1 .. i : log[j].status \in Failures \union {"skipped"}})

\* _per_fund, on the threads of a pool: any order.
AsksFund(f) ==
    /\ p_ # 0 /\ check.at = "perFund" /\ f \in check.todo
    /\ LET streak == ConsecutiveFailures(attempts[f]) IN
          check' = [check EXCEPT !.todo = @ \ {f}, !.streak = IF streak > @ THEN streak ELSE @]
    /\ UNCHANGED <<snapshots, attempts, report, truth>>

\* The entry of one fund says healthy.
HealthyEntry(f) == ~Stale(p_, check.newest[f]) /\ check.failed[f] = 0

HealthyPoller(F) == \A f \in F : HealthyEntry(f)

Rollup ==
    /\ p_ # 0 /\ check.at = "perFund" /\ check.todo = {}
    /\ Enters(IF HealthyPoller(Known(p_)) THEN "healthy" ELSE "unhealthy")
    /\ UNCHANGED <<snapshots, attempts, truth>>

\* Any question may raise: the poller is unknown and the check goes on.
AskRaises == p_ # 0 /\ Enters("unknown") /\ UNCHANGED <<snapshots, attempts, truth>>

FundRest == Over /\ UNCHANGED fundVars

FundNext == \/ \E f \in AllFunds : Resolves(f) \/ AsksFund(f) \/ (\E s \in Statuses : Polls(f, s))
            \/ CheckBegins \/ AsksFunds \/ AsksSnapshots \/ AsksFailures \/ Rollup \/ AskRaises
            \/ FundRest

FundSpec == FundInit /\ [][FundNext]_fundVars

-----------------------------------------------------------------------------
(* Properties.                                                             *)

(* Rows, questions and answers are of the right kinds.                     *)
FundTypeOK ==
    /\ DOMAIN snapshots = AllFunds
    /\ \A p \in Pollers : \A f \in Funds[p] : snapshots[f] \subseteq Published[p]
    /\ \A f \in AllFunds : \A i \in DOMAIN attempts[f] : attempts[f][i].status \in Statuses
    /\ check.poller \in Pollers \union {0}
    /\ check.at \in {"funds", "snapshots", "failures", "perFund"}
    /\ report \in [Pollers -> {"none", "healthy", "unhealthy", "unknown"}]

(* A poller is healthy exactly if every one of its funds was fresh when    *)
(* the snapshots were read and had no open failure when those were read,   *)
(* although each answer covers all funds and is cut: a fund whose newest   *)
(* snapshot is cut off was stale, and a fund whose failures are cut off    *)
(* leaves room to another's (lines 181-216, 274-283).                      *)
ReportIsTrue ==
    \A p \in Pollers :
        /\ report[p] = "healthy" => Known(p) # {} /\ Known(p) \subseteq truth.fresh \intersect truth.clear
        /\ report[p] = "unhealthy" => Known(p) = {} \/ ~(Known(p) \subseteq truth.fresh \intersect truth.clear)
=============================================================================
