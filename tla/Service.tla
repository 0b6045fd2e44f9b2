------------------------------- MODULE Service -------------------------------
(***************************************************************************)
(* The requests of publishers as the coordinator serves them: dispatch and *)
(* the handlers of coordinator.cpp over the engine, and the publishers of  *)
(* publisher.cpp and tef_node.cpp that call them.                          *)
(*                                                                         *)
(* A request is several engine calls, each under the engine's lock, and a  *)
(* worker thread of another connection may run between any two of them.  A *)
(* handler step is one engine call.  The process may die at every step;    *)
(* every connection is then lost.  A reply may be lost, with its           *)
(* connection; the handler has run to its end by then, since a worker      *)
(* looks at its socket only to read a request and to write a reply.  A     *)
(* publisher that lost its connection is started again with the same       *)
(* arguments, so a request may be repeated at any time, also while the     *)
(* handler of the first one still runs.                                    *)
(*                                                                         *)
(* Abstractions.  Requests are decoded and their bindings have passed      *)
(* validate_binding (Registry).  Reads that only fill in the reply (the    *)
(* refreshed plan of a refusal, the explanation, the incumbent) are left   *)
(* out.  No append reports a failure, so there are never two committed     *)
(* plans (PlanEngine's OneCommitted) and every supersede_request is        *)
(* refused: a stuttering step.                                             *)
(***************************************************************************)
EXTENDS PlanEngine, Sequences

CONSTANTS
    Sessions,   \* connections, each with the publisher and the worker at its ends
    Workloads   \* what publishers do: each a set of scenarios, a scenario being
                \* the sequence of requests a publisher makes before it exits

\* What dispatch hands to a handler: a decoded request names one plan.
PublisherRequests ==
    [op : {"plan"}, plan : PlanIds, snapshot : Snapshots, request : Requests]
    \cup [op : {"commit"}, plan : PlanIds, commit : CommitIds]
    \cup [op : {"retire", "query"}, plan : PlanIds]

ASSUME ServiceAssumption ==
    /\ MaxFaults = 0
    /\ \A scenarios \in Workloads : \A scenario \in scenarios :
          scenario \in Seq(PublisherRequests) /\ scenario # << >>

VARIABLES
    workload,   \* the scenarios of this behaviour
    session,    \* what the two ends of each connection are doing
    planned,    \* history: plans a publisher has been told are solved
    promised    \* history: <<plan, commit>> pairs a publisher has been told of

serviceVars == <<vars, workload, session, planned, promised>>

\* todo: the request being served and those that follow it.
Idle == [pc |-> "idle", todo |-> << >>, code |-> "none"]
Request(s) == Head(session[s].todo)
At(s, pc) == session[s].pc = pc

OfRecord(p, c) == plans[p].state = "committed" /\ plans[p].commit = c

(***************************************************************************)
(* The publisher                                                           *)
(***************************************************************************)
\* dispatch
FirstStep(op) ==
    CASE op = "plan" -> "submit"
      [] op = "commit" -> "replay"
      [] OTHER -> op

\* The first request of a sequence is sent; after the last the publisher exits.
Calling(todo) ==
    IF todo = << >> THEN Idle
    ELSE [pc |-> FirstStep(Head(todo).op), todo |-> todo, code |-> "none"]

Connect(s, scenario) ==
    /\ At(s, "idle")
    /\ session' = [session EXCEPT ![s] = Calling(scenario)]
    /\ UNCHANGED <<vars, workload, planned, promised>>

\* A refused plan request names no plan, unless the plan had been declared:
\* what the publisher then sends for it has an empty reference and is refused.
NamesNoPlan == {"duplicate_identity", "limit_exceeded"}

Receive(s) ==
    LET r == Request(s)
        code == session[s].code
    IN  /\ At(s, "reply")
        /\ session' = [session EXCEPT ![s] =
                         IF code \in NamesNoPlan THEN Idle ELSE Calling(Tail(session[s].todo))]
        /\ planned' = IF r.op = "plan" /\ code = "ok" THEN planned \cup {r.plan} ELSE planned
        /\ promised' = IF r.op = "commit" /\ code = "ok"
                       THEN promised \cup {<<r.plan, r.commit>>} ELSE promised
        /\ UNCHANGED <<vars, workload>>

LoseReply(s) ==
    /\ At(s, "reply")
    /\ session' = [session EXCEPT ![s] = Idle]
    /\ UNCHANGED <<vars, workload, planned, promised>>

(***************************************************************************)
(* Handler steps.  An engine call in which the process died leaves no      *)
(* snapshot live, and no connection.                                       *)
(***************************************************************************)
Dropped == [s \in Sessions |-> Idle]
Goto(s, pc) == [session EXCEPT ![s].pc = pc]
Reply(s, code) == [session EXCEPT ![s].pc = "reply", ![s].code = code]

Unless(died, next) ==
    /\ session' = IF died THEN Dropped ELSE next
    /\ UNCHANGED <<workload, planned, promised>>
Then(next) == Unless(live' = NoSnapshot, next)

\* The engine's answer to a call, or a look at it, that changes nothing.
Unchanged(next) == UNCHANGED vars /\ Unless(FALSE, next)

\* handle_plan_request
Submit(s) ==
    /\ At(s, "submit")
    /\ SubmitSnapshot(Request(s).snapshot) /\ Then(Goto(s, "declare"))

\* Mutant: a plan that exists is taken for the one this request declared.
DeclarePlanAgain(s) ==
    LET p == Request(s).plan
    IN  /\ At(s, "declare")
        /\ \/ Declare(p, Request(s).request) /\ Then(Goto(s, "validate"))
           \/ Known(p) /\ Unchanged(IF plans[p].state = "proposed"
                                    THEN Reply(s, "ok") ELSE Goto(s, "validate"))

DeclarePlan(s) ==
    LET p == Request(s).plan
        full == Cardinality({q \in PlanIds : Known(q)}) >= MaxPlans
    IN  /\ At(s, "declare")
        /\ \/ Declare(p, Request(s).request) /\ Then(Goto(s, "validate"))
           \/ full /\ Unchanged(Reply(s, "limit_exceeded"))
           \/ ~full /\ Known(p) /\ Unchanged(Reply(s, "duplicate_identity"))

ValidatePlan(s) ==
    LET p == Request(s).plan
    IN  /\ At(s, "validate")
        /\ \/ /\ Validate(p)
              /\ Then(IF plans'[p].state = "validated" THEN Goto(s, "solve")
                                                       ELSE Reply(s, "stale_authority"))
           \/ /\ ~can_transition(plans[p].state, "validated")
              /\ Unchanged(Reply(s, "invalid_transition"))

\* A solver that fails leaves the plan REJECTED and not evaluated and is an
\* error; a proposal that was refused is a plan like any other.
\* Mutant: a plan that another thread has made STALE since is not expected.
SolvePlanAlone(s) ==
    LET p == Request(s).plan
    IN  /\ At(s, "solve")
        /\ Solve(p)
        /\ Then(Reply(s, IF plans'[p].state = "stale" THEN "stale_authority"
                         ELSE IF plans'[p].applicability = "not_evaluated" THEN "solver_error"
                         ELSE "ok"))

SolvePlan(s) ==
    LET p == Request(s).plan
    IN  /\ At(s, "solve")
        /\ \/ /\ Solve(p)
              /\ Then(Reply(s, IF plans'[p].state = "stale" THEN "stale_authority"
                               ELSE IF plans'[p].applicability = "not_evaluated" THEN "solver_error"
                               ELSE "ok"))
           \/ /\ ~can_transition(plans[p].state, "solving")
              /\ Unchanged(Reply(s, "invalid_transition"))

\* handle_commit_request: the plan is looked at for a replay, then again for
\* what to do with it; both looks may be out of date when they are acted on.
\* Mutant: the commit identity is not compared.
LookForReplayAny(s) ==
    /\ At(s, "replay")
    /\ Unchanged(IF plans[Request(s).plan].state = "committed"
                 THEN Reply(s, "ok") ELSE Goto(s, "look"))

LookForReplay(s) ==
    /\ At(s, "replay")
    /\ Unchanged(IF OfRecord(Request(s).plan, Request(s).commit)
                 THEN Reply(s, "ok") ELSE Goto(s, "look"))

Look(s) ==
    LET p == Request(s).plan
    IN  /\ At(s, "look")
        /\ Unchanged(IF ~Known(p) THEN Reply(s, "not_found")
                     ELSE IF plans[p].state \in {"proposed", "degraded"} THEN Goto(s, "authorize")
                     ELSE Goto(s, "commit"))

AuthorizePlan(s) ==
    LET p == Request(s).plan
    IN  /\ At(s, "authorize")
        /\ \/ /\ Authorize(p)
              /\ Then(IF plans'[p].state = "authorized" THEN Goto(s, "commit")
                                                        ELSE Reply(s, "stale_authority"))
           \/ /\ ~can_transition(plans[p].state, "authorized")
              /\ Unchanged(Reply(s, "invalid_transition"))
           \/ /\ can_transition(plans[p].state, "authorized")
              /\ plans[p].churn \in {"hold_incumbent", "reject_regression"}
              /\ identical(Delta(p))
              /\ plans[p].state = "degraded" => live.allow_degraded_commit
              /\ Unchanged(Reply(s, "churn_bound"))

\* Mutant: a plan that is committed already is a refusal.
CommitPlanOnce(s) ==
    LET p == Request(s).plan
        c == Request(s).commit
    IN  /\ At(s, "commit")
        /\ \/ /\ Commit(p, c)
              /\ Then(Reply(s, IF plans'[p].state = "committed" THEN "ok" ELSE "stale_authority"))
           \/ ~can_transition(plans[p].state, "committed") /\ Unchanged(Reply(s, "invalid_transition"))

CommitPlan(s) ==
    LET p == Request(s).plan
        c == Request(s).commit
    IN  /\ At(s, "commit")
        /\ \/ CommitReplay(p, c) /\ Then(Reply(s, "ok"))
           \/ /\ Commit(p, c)
              /\ Then(Reply(s, IF plans'[p].state = "committed" THEN "ok" ELSE "stale_authority"))
           \/ /\ plans[p].state = "committed" /\ plans[p].commit # c
              /\ Unchanged(Reply(s, "already_committed"))
           \/ /\ plans[p].state # "committed" /\ ~can_transition(plans[p].state, "committed")
              /\ Unchanged(Reply(s, "invalid_transition"))

\* retire_request and query_request.
\* A retirement needs no live snapshot.
RetirePlan(s) ==
    LET p == Request(s).plan
    IN  /\ At(s, "retire")
        /\ \/ Retire(p) /\ Unless(plans'[p].state # "retired", Reply(s, "ok"))
           \/ ~can_transition(plans[p].state, "retired") /\ Unchanged(Reply(s, "refused"))

QueryPlan(s) ==
    /\ At(s, "query")
    /\ Unchanged(Reply(s, IF Known(Request(s).plan) THEN "ok" ELSE "not_found"))

Crash == Restart /\ Unless(TRUE, Dropped)

(***************************************************************************)
(* Specification                                                           *)
(***************************************************************************)
ServiceInit ==
    /\ Init
    /\ workload \in Workloads /\ session = Dropped
    /\ planned = {} /\ promised = {}

Handle(s) ==
    \/ Submit(s) \/ DeclarePlan(s) \/ ValidatePlan(s) \/ SolvePlan(s)
    \/ LookForReplay(s) \/ Look(s) \/ AuthorizePlan(s) \/ CommitPlan(s)
    \/ RetirePlan(s) \/ QueryPlan(s)

ServiceNext ==
    \/ \E s \in Sessions : \/ \E scenario \in workload : Connect(s, scenario)
                           \/ Handle(s)
                           \/ Receive(s)
                           \/ LoseReply(s)
    \/ Crash

\* The operating system runs every worker; a publisher reads its reply or its
\* connection is lost.
ServiceSpec ==
    /\ ServiceInit /\ [][ServiceNext]_serviceVars
    /\ \A s \in Sessions : WF_serviceVars(Handle(s)) /\ WF_serviceVars(Receive(s) \/ LoseReply(s))

(***************************************************************************)
(* Properties                                                              *)
(***************************************************************************)
\* handle_commit_request: a commit a publisher has been told of is on disk
\* under exactly that commit identity and stays there, whichever of the two
\* looks or the engine's own replay answered, and however often it was sent.
PromisedCommitsStand ==
    \A x \in promised :
        /\ durable[x[1]] # Absent /\ durable[x[1]].commit = x[2]
        /\ durable[x[1]].state \in {"committed", "superseded", "stale", "retired"}

\* handle_plan_request: of all requests that name one plan, repeated, racing or
\* made again after a restart, at most one is answered with success.
PlannedOnce ==
    [][\A s \in Sessions :
         At(s, "reply") /\ Request(s).op = "plan" /\ session[s].code = "ok"
           => Request(s).plan \notin planned]_session

\* The handler answers commit request s in this step although the commit is
\* already of record.
AnswersDuplicate(s) ==
    LET r == Request(s)
    IN  /\ ~At(s, "idle") /\ ~At(s, "reply") /\ session'[s].pc = "reply"
        /\ r.op = "commit" /\ OfRecord(r.plan, r.commit)

\* A commit that is repeated, or made at the same time through another
\* connection, is answered with success wherever the handler finds it of
\* record: at either look, or when another thread got there first between the
\* second look and the engine's commit.
DuplicateFoundIsReplay ==
    [][\A s \in Sessions :
         AnswersDuplicate(s) /\ ~At(s, "authorize") => session'[s].code = "ok"]_serviceVars

\* Every request is answered, or its connection is lost: no interleaving of the
\* handlers leaves one in a state its engine calls did not expect.
Answered == \A s \in Sessions : ~At(s, "idle") ~> At(s, "idle")

\* "A duplicate commit frame carrying the same commit identity and generation
\* is an idempotent replay": a commit of record is not refused.
DuplicateCommitIsReplay ==
    [][\A s \in Sessions : AnswersDuplicate(s) => session'[s].code = "ok"]_serviceVars
==============================================================================
