--------------------------------- MODULE Proxy ---------------------------------
(***************************************************************************)
(* The reverse proxy: forward (src/proxy/mod.rs) as a process per request, *)
(* over what requests share: the priority limiter (src/priority.rs), the   *)
(* affinity map (src/router/affinity.rs), the circuits                     *)
(* (src/router/circuit.rs) and the resource reports (src/resources.rs).    *)
(*                                                                         *)
(* A step is what happens under one lock, on one counter, or between two   *)
(* awaits.  A client that goes away drops its request at any await.        *)
(***************************************************************************)
EXTENDS Resources, CircuitBreaker

CONSTANTS
    Requests,       \* requests at a time
    Kinds,          \* what clients send: [workload, priority, thread, origin]
    Threads,        \* x-fairlead-thread-id
    NoThread,       \* ... when there is no such header
    Limit,          \* priority_*_limit, by priority
    MayDisconnect   \* whether clients may go away

ASSUME RequestsAssumption == IsFiniteSet(Requests)

ASSUME LimitAssumption == Limit \in [DOMAIN Limit -> Nat]

ASSUME KindsAssumption ==
    \A kind \in Kinds : /\ kind.workload \in DOMAIN RequiredVram
                        /\ kind.priority \in DOMAIN Limit
                        /\ kind.thread \in Threads \cup {NoThread}

VARIABLES
    request,    \* what each request is doing
    permits,    \* PriorityBucket.semaphore, by priority
    in_flight,  \* PriorityBucket.in_flight, by priority
    affinity,   \* SessionAffinity.inner
    circuit     \* BackendState.circuit, by backend

proxyVars == <<request, permits, in_flight, affinity, circuit, reports>>

Priorities == DOMAIN Limit
Workloads == DOMAIN RequiredVram

Idle == [pc |-> "idle"]

\* The outcome label of record_request.
Outcome == {"completed", "retried_success", "upstream_5xx", "upstream_error", "unavailable",
            "resource_unavailable", "unsupported_workload"}

\* A request that was answered and recorded; what was recorded, and to how many backends
\* it was sent, are history.
Answered ==
    [pc : {"stream", "drop"}, priority : Priorities,
     outcome : Outcome, sent : 0..Cardinality(Backends)]

\* A request that holds nothing any more but its permit.
Leaving == [pc : {"drop", "release"}, priority : Priorities]

\* The local variables of forward and of the functions it calls; tried, refused and
\* on_trial are history.
Forwarding ==
    [pc : {"count", "affinity", "report", "node_report", "ask", "post",
           "failed", "succeeded", "remember", "give_up"},
     workload : Workloads,
     priority : Priorities,
     thread : Threads \cup {NoThread},
     origin : {kind.origin : kind \in Kinds},
     preferred : Backends \cup {NoBackend},
     attempted : SUBSET Backends,
     ineligible : SUBSET Backends,
     ranks : UNION {[S -> ResourceReport] : S \in SUBSET Backends},
     examined : 0..Cardinality(Backends),   \* backends whose reports were looked at
     plan : Seq([1..3 -> SUBSET Backends]), \* candidates not asked yet, by walk and group
     available : SUBSET Backends,           \* candidates of the group found available
     backend : Backends \cup {NoBackend},   \* idx
     failure : {"none", "connection_error", "server_error"},
     tried : SUBSET Backends,       \* backends this request was sent to
     refused : SUBSET Backends,     \* backends found unavailable in this selection
     on_trial : SUBSET Backends]    \* backends that were half-open when asked

ProxyTypeOK ==
    /\ \A r \in Requests : request[r] \in {Idle} \cup Answered \cup Leaving \cup Forwarding
    /\ \A p \in Priorities : permits[p] \in 0..Limit[p] /\ in_flight[p] \in Nat
    /\ affinity \in [Workloads \X Threads -> Backends \cup {NoBackend}]
    /\ circuit \in [Backends -> Circuit]
    /\ ResourcesTypeOK

ProxyInit ==
    /\ request = [r \in Requests |-> Idle]
    /\ permits = Limit
    /\ in_flight = [p \in Priorities |-> 0]
    /\ affinity = [key \in Workloads \X Threads |-> NoBackend]
    /\ circuit = [b \in Backends |-> NewCircuit]
    /\ InitResources

At(r, pc) == request[r].pc = pc
Becomes(r, q) == request' = [request EXCEPT ![r] = q]
Goes(r, pc) == Becomes(r, [request[r] EXCEPT !.pc = pc])

\* record_request, and forward returns.
Answers(q, pc, outcome) ==
    [pc |-> pc, priority |-> q.priority, outcome |-> outcome, sent |-> Cardinality(q.tried)]

\* Only the permit is left.
Leaves(q, pc) == [pc |-> pc, priority |-> q.priority]

--------------------------------------------------------------------------------
(* Admission *)

NewRequest(kind) ==
    [pc |-> "count", workload |-> kind.workload, priority |-> kind.priority,
     thread |-> kind.thread, origin |-> kind.origin, preferred |-> NoBackend,
     attempted |-> {}, ineligible |-> {}, ranks |-> <<>>, examined |-> 0,
     plan |-> <<>>, available |-> {}, backend |-> NoBackend, failure |-> "none",
     tried |-> {}, refused |-> {}, on_trial |-> {}]

\* try_acquire: the semaphore.  Without a permit the answer is 429 and nothing changes, and
\* so it is 503 when no backend is configured.
TakePermit(r, kind) ==
    /\ At(r, "idle")
    /\ Backends # {}
    /\ permits[kind.priority] > 0
    /\ permits' = [permits EXCEPT ![kind.priority] = @ - 1]
    /\ Becomes(r, NewRequest(kind))
    /\ UNCHANGED <<in_flight, affinity, circuit, reports>>

--------------------------------------------------------------------------------
(* Selection: select_backend_for_route, which asks one circuit after another. *)

\* The next group is asked, or the selection returns None.
Searching(q) == [q EXCEPT !.pc = IF Exhausted(q.plan) THEN "give_up" ELSE "ask"]

\* select_backend_for_route is called.
BeginSelection(q) ==
    Searching([q EXCEPT !.plan = Plan(q), !.refused = {}, !.on_trial = {}])

\* resource_selection_state: its loop goes on to the next backend, or ends.
BeginResources(q) ==
    IF ResourceAware /\ q.examined < Cardinality(Backends)
    THEN [q EXCEPT !.pc = "report"] ELSE BeginSelection(q)

\* It returns Some(b).
Selected(q, b) ==
    [q EXCEPT !.pc = "post", !.backend = b, !.plan = <<>>, !.available = {},
              !.tried = @ \cup {b}, !.on_trial = @ \cap {b}]

\* The circuit c of candidate b, in group g of walk n, answers.
Asks(q, n, g, b, c) ==
    [q EXCEPT !.plan = StrikeOut(@, n, g, b),
              !.available = IF IsAvailable(c) THEN @ \cup {b} ELSE @,
              !.refused = IF IsAvailable(c) THEN @ ELSE @ \cup {b},
              !.on_trial = IF c.state \in {"cooled", "half_open"} THEN @ \cup {b} ELSE @]

\* At the end of a group its best available candidate is selected.
AfterAnswer(q, n, g, b, c) ==
    LET asked == Asks(q, n, g, b, c)
    IN  CASE asked.plan[n][g] # {} -> asked
          [] asked.plan[n][g] = {} /\ asked.available # {} ->
                Selected(asked, BestOf(asked.available, asked.ranks))
          [] asked.plan[n][g] = {} /\ asked.available = {} -> Searching(asked)

\* Mutant: the circuit stays locked while its backend is asked.
AskCircuitLocked(r) ==
    /\ At(r, "ask")
    /\ \E n \in DOMAIN request[r].plan, g \in 1..3, b \in Backends :
           /\ IsNext(request[r].plan, n, g, b)
           /\ \A s \in Requests : ~(request[s].pc = "post" /\ request[s].backend = b)
           /\ Becomes(r, AfterAnswer(request[r], n, g, b, circuit[b]))
           /\ circuit' = [circuit EXCEPT ![b] = Asked(@)]
    /\ UNCHANGED <<permits, in_flight, affinity, reports>>

\* is_available under the circuit's lock.
AskCircuit(r) ==
    /\ At(r, "ask")
    /\ \E n \in DOMAIN request[r].plan, g \in 1..3, b \in Backends :
           /\ IsNext(request[r].plan, n, g, b)
           /\ Becomes(r, AfterAnswer(request[r], n, g, b, circuit[b]))
           /\ circuit' = [circuit EXCEPT ![b] = Asked(@)]
    /\ UNCHANGED <<permits, in_flight, affinity, reports>>

RouteIneligible(workload) == {b \in Backends : ~RouteAllows(workload, b)}

\* unavailable_outcome.
UnavailableOutcome(q) ==
    IF Backends # {} /\ RouteIneligible(q.workload) = Backends THEN "unsupported_workload"
    ELSE IF q.ineligible # {} THEN "resource_unavailable" ELSE "unavailable"

\* No backend: 503 before the first attempt and 502 after a connection error; after a
\* server error the last backend's answer is passed on.
GiveUp(r) ==
    /\ At(r, "give_up")
    /\ LET q == request[r]
       IN  Becomes(r, CASE q.failure = "none" -> Answers(q, "drop", UnavailableOutcome(q))
                        [] q.failure = "connection_error" -> Answers(q, "drop", "upstream_error")
                        [] q.failure = "server_error" -> Answers(q, "stream", "upstream_5xx"))
    /\ UNCHANGED <<permits, in_flight, affinity, circuit, reports>>

--------------------------------------------------------------------------------
(* Before the first attempt *)

\* try_acquire: the gauge.
CountIn(r) ==
    /\ At(r, "count")
    /\ in_flight' = [in_flight EXCEPT ![request[r].priority] = @ + 1]
    /\ Becomes(r, IF request[r].thread = NoThread THEN BeginResources(request[r])
                  ELSE [request[r] EXCEPT !.pc = "affinity"])
    /\ UNCHANGED <<permits, affinity, circuit, reports>>

\* Mutant: the same thread shares one entry among its workloads.
AffinityKeyUnscoped(q) == <<CHOOSE w \in Workloads : TRUE, q.thread>>

AffinityKey(q) == <<q.workload, q.thread>>

ReadAffinity(r) ==
    /\ At(r, "affinity")
    /\ Becomes(r, BeginResources([request[r] EXCEPT !.preferred = affinity[AffinityKey(request[r])]]))
    /\ UNCHANGED <<permits, in_flight, affinity, circuit, reports>>

\* One backend is judged.
NextReport(q) == BeginResources([q EXCEPT !.examined = @ + 1])

\* fresh_backend_report, first look: the backend's own report.
ReadBackendReport(r) ==
    /\ At(r, "report")
    /\ LET q    == request[r]
           b    == q.examined + 1
           node == BackendConfig[b].node
       IN  Becomes(r, IF node = NoNode THEN NextReport([q EXCEPT !.ineligible = @ \cup {b}])
                      ELSE IF HasFreshReport(<<node, b>>)
                           THEN NextReport(Judged(q, b, reports[<<node, b>>]))
                           ELSE [q EXCEPT !.pc = "node_report"])
    /\ UNCHANGED <<permits, in_flight, affinity, circuit, reports>>

\* fresh_backend_report, second look: the report of the node.
ReadNodeReport(r) ==
    /\ At(r, "node_report")
    /\ LET q   == request[r]
           b   == q.examined + 1
           key == <<BackendConfig[b].node, NoBackend>>
       IN  Becomes(r, NextReport(IF HasFreshReport(key) THEN Judged(q, b, reports[key])
                                 ELSE [q EXCEPT !.ineligible = @ \cup {b}]))
    /\ UNCHANGED <<permits, in_flight, affinity, circuit, reports>>

--------------------------------------------------------------------------------
(* The attempt *)

\* fallback_reason: why the backend passed over could not serve.
PassedOver(q, passed, otherwise) ==
    IF passed \cap RouteIneligible(q.workload) # {} THEN "workload_unavailable"
    ELSE IF passed \cap q.ineligible # {} THEN "resource_unavailable" ELSE otherwise

\* Mutant: the origin node is always blamed.
FallbackReasonOrigin(q, b) ==
    IF OnNode(Backends, q.origin) \notin {{}} /\ b \notin OnNode(Backends, q.origin)
    THEN "origin_unavailable" ELSE "none"

\* fallback_reason: the reason that record_fallback counts when b is selected.
FallbackReason(q, b) ==
    LET local == OnNode(Backends, q.origin)
    IN  CASE local # {} /\ b \notin local -> PassedOver(q, local, "origin_unavailable")
          [] (local = {} \/ b \in local) /\ q.preferred \notin {NoBackend, b} ->
                PassedOver(q, {q.preferred}, "affinity_unavailable")
          [] OTHER -> PassedOver(q, 1..(b - 1), "none")

\* The backend answers, with an error or not, or the connection fails.
Succeeds(r) ==
    /\ At(r, "post")
    /\ Goes(r, "succeeded")
    /\ UNCHANGED <<permits, in_flight, affinity, circuit, reports>>

Fails(r, failure) ==
    /\ At(r, "post")
    /\ Becomes(r, [request[r] EXCEPT !.pc = "failed", !.failure = failure])
    /\ UNCHANGED <<permits, in_flight, affinity, circuit, reports>>

\* Mutant: the failed backend stays a candidate.
RetryAgain(q) == BeginSelection(q)

\* attempted.push(idx), and a selection without it.
Retry(q) == BeginSelection([q EXCEPT !.attempted = @ \cup {q.backend}])

RecordFailure(r) ==
    /\ At(r, "failed")
    /\ circuit' = [circuit EXCEPT ![request[r].backend] = Failed(@)]
    /\ Becomes(r, Retry(request[r]))
    /\ UNCHANGED <<permits, in_flight, affinity, reports>>

\* Mutant: it looks at the backends that were excluded instead of those attempted.
SuccessOutcomeExcluded(q) == IF q.attempted \cup q.refused = {} THEN "completed" ELSE "retried_success"

SuccessOutcome(q) == IF q.attempted = {} THEN "completed" ELSE "retried_success"

RecordSuccess(r) ==
    /\ At(r, "succeeded")
    /\ circuit' = [circuit EXCEPT ![request[r].backend] = Succeeded(@)]
    /\ Becomes(r, IF request[r].thread = NoThread
                  THEN Answers(request[r], "stream", SuccessOutcome(request[r]))
                  ELSE [request[r] EXCEPT !.pc = "remember"])
    /\ UNCHANGED <<permits, in_flight, affinity, reports>>

RecordAffinity(r) ==
    /\ At(r, "remember")
    /\ affinity' = [affinity EXCEPT ![AffinityKey(request[r])] = request[r].backend]
    /\ Becomes(r, Answers(request[r], "stream", SuccessOutcome(request[r])))
    /\ UNCHANGED <<permits, in_flight, circuit, reports>>

--------------------------------------------------------------------------------
(* The end *)

\* upstream_response: the permit lives in the stream, until the body ends.
StreamEnds(r) ==
    /\ At(r, "stream")
    /\ Becomes(r, Leaves(request[r], "drop"))
    /\ UNCHANGED <<permits, in_flight, affinity, circuit, reports>>

\* Mutant: the semaphore first.
DropPermitSwapped(r) ==
    /\ \/ /\ At(r, "drop") /\ Becomes(r, Leaves(request[r], "release"))
          /\ permits' = [permits EXCEPT ![request[r].priority] = @ + 1]
          /\ UNCHANGED in_flight
       \/ /\ At(r, "release") /\ Becomes(r, Idle)
          /\ in_flight' = [in_flight EXCEPT ![request[r].priority] = @ - 1]
          /\ UNCHANGED permits
    /\ UNCHANGED <<affinity, circuit, reports>>

\* PriorityPermit is dropped: its drop lowers the gauge, and then its field _permit goes
\* back to the semaphore.
DropPermit(r) ==
    /\ \/ /\ At(r, "drop") /\ Becomes(r, Leaves(request[r], "release"))
          /\ in_flight' = [in_flight EXCEPT ![request[r].priority] = @ - 1]
          /\ UNCHANGED permits
       \/ /\ At(r, "release") /\ Becomes(r, Idle)
          /\ permits' = [permits EXCEPT ![request[r].priority] = @ + 1]
          /\ UNCHANGED in_flight
    /\ UNCHANGED <<affinity, circuit, reports>>

\* Mutant: the permit is given back here, and again when it is dropped.
ClientLeavesReleasing(r) ==
    /\ MayDisconnect
    /\ At(r, "stream")
    /\ permits' = [permits EXCEPT ![request[r].priority] = @ + 1]
    /\ Goes(r, "drop")
    /\ UNCHANGED <<in_flight, affinity, circuit, reports>>

\* The client goes away while forward, or the response's body, awaits something.
ClientLeaves(r) ==
    /\ MayDisconnect
    /\ request[r].pc \in {"affinity", "report", "node_report", "ask", "post",
                          "failed", "succeeded", "remember", "stream"}
    /\ Becomes(r, Leaves(request[r], "drop"))
    /\ UNCHANGED <<permits, in_flight, affinity, circuit, reports>>

--------------------------------------------------------------------------------
(* Everything else *)

\* A probe reports whether its backend answered, some time ago.
ProbeRecords(b) ==
    /\ \E c \in {Succeeded(circuit[b]), Failed(circuit[b])} : circuit' = [circuit EXCEPT ![b] = c]
    /\ UNCHANGED <<request, permits, in_flight, affinity, reports>>

CooldownElapses(b) ==
    /\ circuit[b].state = "open"
    /\ circuit' = [circuit EXCEPT ![b] = CooledCircuit(@)]
    /\ UNCHANGED <<request, permits, in_flight, affinity, reports>>

\* The part of a request that the proxy, and not the network, has to do.
ForwardStep(r) ==
    \/ CountIn(r)
    \/ ReadAffinity(r)
    \/ ReadBackendReport(r)
    \/ ReadNodeReport(r)
    \/ AskCircuit(r)
    \/ GiveUp(r)
    \/ RecordFailure(r)
    \/ RecordSuccess(r)
    \/ RecordAffinity(r)
    \/ DropPermit(r)

UpstreamStep(r) ==
    \/ Succeeds(r)
    \/ \E failure \in {"connection_error", "server_error"} : Fails(r, failure)
    \/ StreamEnds(r)

ProxyNext ==
    \/ \E r \in Requests :
           \/ \E kind \in Kinds : TakePermit(r, kind)
           \/ ForwardStep(r)
           \/ UpstreamStep(r)
           \/ ClientLeaves(r)
    \/ \E b \in Backends : ProbeRecords(b) \/ CooldownElapses(b)
    \/ ResourcesNext /\ UNCHANGED <<request, permits, in_flight, affinity, circuit>>

\* Handlers run on.  The client that posts has no timeout, so nothing makes a backend
\* answer, or the body of an answer end.
ProxyFairness == \A r \in Requests : WF_proxyVars(ForwardStep(r))

ProxySpec == ProxyInit /\ [][ProxyNext]_proxyVars /\ ProxyFairness

--------------------------------------------------------------------------------
(* Properties *)

Sending(r, b) == At(r, "post") /\ request[r].backend = b

\* Of the candidates a request knows, it is sent to one to which no other is preferred,
\* except those whose circuits it found open in this selection: the documented order of
\* pools, origin node, affinity and rank survives the walk over groups and the awaits
\* in between.
SentInPreferenceOrder ==
    \A r \in Requests : At(r, "post") =>
        LET q == request[r]
        IN  \A b \in Eligible(q) \ {q.backend} : PreferredTo(q, b, q.backend) => b \in q.refused

\* forward gives up only when every backend that serves the workload, and has the
\* resources, was tried or refused in the last selection.
GivesUpWhenExhausted ==
    \A r \in Requests : At(r, "give_up") =>
        LET q == request[r]
        IN  \A b \in Backends \ q.ineligible :
                RouteAllows(q.workload, b) => b \in q.tried \cup q.refused

\* No request is sent to the same backend twice, however its circuit changes.
NoBackendTriedTwice ==
    [][\A r \in Requests :
          At(r, "ask") /\ request'[r].pc = "post" => request'[r].backend \notin request[r].tried]_proxyVars

\* With resource routing, a request is only ever sent, first or as a retry, to a backend
\* for which it found a report with enough memory for its workload.
SentWhereItFits ==
    \A r \in Requests, b \in Backends : ResourceAware /\ Sending(r, b) =>
        LET q == request[r]
        IN  b \in DOMAIN q.ranks /\ q.ranks[b].available >= RequiredVram[q.workload]

\* The gauge that /metrics shows never exceeds the limit, although it and the semaphore
\* are two counters.
GaugeWithinLimit == \A p \in Priorities : in_flight[p] \in 0..Limit[p]

\* A thread's affinity for one workload never leads to a backend that only serves its
\* other workload.
AffinityServes ==
    \A w \in Workloads, t \in Threads :
        affinity[<<w, t>>] # NoBackend => RouteAllows(w, affinity[<<w, t>>])

\* Backends that never answer hold only the requests that wait for them: whatever the
\* others do, a request gets to the end, to a backend, or to the body of an answer.
OnlyBackendsDelay ==
    \A r \in Requests : []<>(request[r].pc \in {"idle", "post", "stream"})

\* If the backends that request r is sent to answer, and the body of an answer ends, r ends
\* after finitely many retries and gives back its permit, whatever happens to the others.
EndsIfAnswered(r) == WF_proxyVars(UpstreamStep(r)) => (~At(r, "idle") ~> At(r, "idle"))

\* The outcome that fairlead_requests_total counts is what happened to the request:
\* "completed" by the only backend it was sent to, "retried_success" after others,
\* nothing sent where no backend was available.
OutcomeTellsStory ==
    \A r \in Requests : "outcome" \in DOMAIN request[r] =>
        LET sent == request[r].sent
        IN  CASE request[r].outcome = "completed" -> sent = 1
              [] request[r].outcome = "retried_success" -> sent > 1
              [] request[r].outcome \in {"upstream_5xx", "upstream_error"} -> sent > 0
              [] request[r].outcome \in {"unavailable", "resource_unavailable",
                                         "unsupported_workload"} -> sent = 0

\* Without pools, a fallback that is counted as "origin_unavailable" really is one: every
\* backend of the origin node failed for this request or had its circuit open.
OriginFallbackIsReal ==
    \A r \in Requests, b \in Backends :
        Sending(r, b) /\ request[r].workload \notin DOMAIN WorkloadPools
            /\ FallbackReason(request[r], b) = "origin_unavailable"
        => OnNode(Backends, request[r].origin) \subseteq request[r].attempted \cup request[r].refused

\* A circuit that is not closed still remembers failure_threshold failures, whatever
\* late reports and probes did to it.
TrippedRemembers ==
    \A b \in Backends : circuit[b].state # "closed" => circuit[b].failures >= FailureThreshold

\* circuit.rs:19, HalfOpen -> (failure) -> Open: the first report on a half-open circuit
\* opens or closes it, although record_failure only compares the count.
TrialFailureReopens ==
    [][\A b \in Backends :
          circuit[b].state = "half_open" /\ circuit'[b] # circuit[b]
              => circuit'[b].state \in {"open", "closed"}]_proxyVars

\* circuit.rs:9, "Recovery probe: one request gets through.": of the requests that were
\* let through a half-open circuit, at most one is under way.
OneTrialAtATime ==
    \A b \in Backends : circuit[b].state = "half_open" =>
        Cardinality({r \in Requests : Sending(r, b) /\ b \in request[r].on_trial}) <= 1

================================================================================
