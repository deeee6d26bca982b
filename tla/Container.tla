------------------------------ MODULE Container ------------------------------
(***************************************************************************)
(* The dependency container (core/di/container.py), the start-up of the    *)
(* service that fills it (main.py) and the requests that FastAPI injects   *)
(* from it (interfaces/dependencies/inject.py).                            *)
(*                                                                         *)
(* Most injected dependencies are synchronous functions, which FastAPI     *)
(* runs on worker threads, so Container.resolve runs on several threads at *)
(* once and holds no lock: a thread may be anywhere between "not in        *)
(* _instances" and the assignment that caches what its factory made.       *)
(*                                                                         *)
(* An instance is known by its key and by who created it: a request, or    *)
(* the start-up.                                                           *)
(***************************************************************************)
EXTENDS Naturals, Sequences

CONSTANTS Requests,
          StartUp,  \* the start-up event, as the creator of an instance
          None

VARIABLES
    serving,    \* the start-up event has run, requests are accepted
    instances,  \* Container._instances: the creator of each cached instance
    checked,    \* creators of the health checkers that have checks registered
    kind,       \* what each request asks for
    stage,      \* where each request is
    next,       \* index of the dependency each request resolves next
    held,       \* the creator of what was injected into each request
    health      \* the status a probe was answered with

vars == <<serving, instances, checked, kind, stage, next, held, health>>

-----------------------------------------------------------------------------
(* Registrations                                                           *)

Keys == {"uow", "cache", "threat", "llm", "event", "health"}

MutSingleton(k) == TRUE

\* _register_core_dependencies: everything but the unit of work.
Singleton(k) == k # "uow"

\* The dependencies of each endpoint, in the order FastAPI solves them.
Needs(endpoint) ==
    [evaluate |-> <<"uow", "cache", "threat", "llm", "event">>,
     recalculate |-> <<"uow", "threat">>,
     decision |-> <<"uow">>,
     probe |-> <<"health">>][endpoint]

Endpoints == {"evaluate", "recalculate", "decision", "probe"}

ASSUME ContainerAssumption ==
    /\ StartUp \notin Requests
    /\ None \notin Requests \cup {StartUp} \cup Endpoints

\* The checks that start-up registers and what they answer (health.py).
CheckStatus ==
    [database |-> "healthy", redis |-> "healthy", groq |-> "degraded"]

MutReadiness(results) ==
    IF results \subseteq {"healthy"} THEN "ready" ELSE "not ready"

\* get_overall_status
Overall(results) ==
    IF "unhealthy" \in results THEN "unhealthy"
    ELSE IF "degraded" \in results THEN "degraded" ELSE "healthy"

\* run_all_checks of one health checker.
Results(checker) ==
    IF checker \in checked THEN {CheckStatus[c] : c \in DOMAIN CheckStatus}
                           ELSE {}

-----------------------------------------------------------------------------

Creators == Requests \cup {StartUp}

TypeOK ==
    /\ serving \in BOOLEAN
    /\ instances \in [Keys -> Creators \cup {None}]
    /\ checked \in SUBSET Creators
    /\ kind \in [Requests -> Endpoints \cup {None}]
    /\ stage \in [Requests -> {"idle", "lookup", "create", "injected",
                               "answered", "failed"}]
    /\ next \in [Requests -> 1..5]
    /\ held \in [Requests -> [Keys -> Creators \cup {None}]]
    /\ health \in [Requests -> {"healthy", "degraded", "unhealthy", None}]

Init ==
    /\ serving = FALSE
    /\ instances = [k \in Keys |-> None]
    /\ checked = {}
    /\ kind = [r \in Requests |-> None]
    /\ stage = [r \in Requests |-> "idle"]
    /\ next = [r \in Requests |-> 1]
    /\ held = [r \in Requests |-> [k \in Keys |-> None]]
    /\ health = [r \in Requests |-> None]

MutStartFresh ==
    /\ ~serving
    /\ serving' = TRUE
    /\ checked' = {StartUp}
    /\ UNCHANGED <<instances, kind, stage, next, held, health>>

\* startup_event: get_container() registers the factories, the health checker
\* is resolved and its checks are registered, all before the first request.
Start ==
    /\ ~serving
    /\ serving' = TRUE
    /\ instances' = [instances EXCEPT !["health"] = StartUp]
    /\ checked' = {StartUp}
    /\ UNCHANGED <<kind, stage, next, held, health>>

Arrive(r) ==
    /\ serving
    /\ stage[r] = "idle"
    /\ \E e \in Endpoints : kind' = [kind EXCEPT ![r] = e]
    /\ stage' = [stage EXCEPT ![r] = "lookup"]
    /\ UNCHANGED <<serving, instances, checked, next, held, health>>

Key(r) == Needs(kind[r])[next[r]]

\* The dependency that r was resolving is injected; on to the next one.
Inject(r, creator) ==
    /\ held' = [held EXCEPT ![r][Key(r)] = creator]
    /\ IF next[r] = Len(Needs(kind[r]))
       THEN stage' = [stage EXCEPT ![r] = "injected"] /\ UNCHANGED next
       ELSE /\ stage' = [stage EXCEPT ![r] = "lookup"]
            /\ next' = [next EXCEPT ![r] = @ + 1]

MutLookupAlwaysCreates(r) ==
    /\ stage[r] = "lookup"
    /\ stage' = [stage EXCEPT ![r] = "create"]
    /\ UNCHANGED <<next, held, serving, instances, checked, kind, health>>

\* resolve: "if key in self._instances".
Lookup(r) ==
    /\ stage[r] = "lookup"
    /\ \/ /\ instances[Key(r)] # None
          /\ Inject(r, instances[Key(r)])
       \/ /\ instances[Key(r)] = None
          /\ stage' = [stage EXCEPT ![r] = "create"]
          /\ UNCHANGED <<next, held>>
    /\ UNCHANGED <<serving, instances, checked, kind, health>>

\* resolve: the factory's instance, cached if the key is a singleton, whatever
\* another thread has cached since the lookup.
Create(r) ==
    /\ stage[r] = "create"
    /\ instances' = IF Singleton(Key(r))
                    THEN [instances EXCEPT ![Key(r)] = r] ELSE instances
    /\ Inject(r, r)
    /\ UNCHANGED <<serving, checked, kind, health>>

\* The factory raises: the request gets a 500, nothing is cached.
CreateFails(r) ==
    /\ stage[r] = "create"
    /\ stage' = [stage EXCEPT ![r] = "failed"]
    /\ UNCHANGED <<serving, instances, checked, kind, next, held, health>>

\* The endpoint runs; a probe answers with its checker's overall status.
Answer(r) ==
    /\ stage[r] = "injected"
    /\ stage' = [stage EXCEPT ![r] = "answered"]
    /\ health' = IF kind[r] = "probe"
                 THEN [health EXCEPT ![r] = Overall(Results(held[r]["health"]))]
                 ELSE health
    /\ UNCHANGED <<serving, instances, checked, kind, next, held>>

Step(r) == Lookup(r) \/ Create(r) \/ CreateFails(r) \/ Answer(r)

Next == Start \/ \E r \in Requests : Arrive(r) \/ Step(r)

Spec == Init /\ [][Next]_vars

-----------------------------------------------------------------------------
(* Properties                                                              *)

\* Concurrent requests never share a unit of work, and with it a session and
\* its transaction.
OwnUnitOfWork ==
    \A r, s \in Requests :
        r # s /\ held[r]["uow"] # None => held[r]["uow"] # held[s]["uow"]

\* A probe never reports a healthy service because its checker has no checks:
\* the checker it is given is the one that start-up registered the checks on.
ProbesSeeChecks ==
    \A r \in Requests :
        kind[r] = "probe" /\ stage[r] = "answered" => health[r] = "degraded"

\* The race for a singleton is possible on its first use only: once an
\* instance is cached and no thread is left between its lookup and its
\* assignment, the cached instance is never replaced and no other is created.
Resolving(r, k) == stage[r] = "create" /\ Key(r) = k

Settled(k) ==
    instances[k] # None /\ \A r \in Requests : ~Resolving(r, k)

SingletonsSettle ==
    [][\A k \in Keys : Settled(k) =>
          /\ instances'[k] = instances[k]
          /\ \A r \in Requests : ~Resolving(r, k)']_vars

\* From then on everybody is given that one instance: what is kept in a singleton,
\* the breaker of the AI orchestrator among it, is shared by all later requests.
SettledIsShared ==
    [][\A k \in Keys, r \in Requests :
          Settled(k) /\ held'[r][k] # held[r][k] => held'[r][k] = instances[k]]_vars
=============================================================================
