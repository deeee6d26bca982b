--------------------------- MODULE ContainerProofs ---------------------------
(***************************************************************************)
(* Proofs about module Container, for any set of requests.                 *)
(*                                                                         *)
(* The inductive invariant says where a request can be in the list of its  *)
(* dependencies (InOrder), that nobody ever caches a unit of work and each *)
(* request holds its own (Units), and that from start-up on the checker    *)
(* with the registered checks is the only one there is (Checkers).         *)
(***************************************************************************)
EXTENDS Container, TLAPS

InOrder ==
    \A r \in Requests :
        /\ kind[r] = None <=> stage[r] = "idle"
        /\ kind[r] = None => next[r] = 1
        /\ kind[r] # None => next[r] \in 1..Len(Needs(kind[r]))

Units ==
    /\ instances["uow"] = None
    /\ \A r \in Requests : held[r]["uow"] \in {None, r}

Checkers ==
    /\ ~serving => /\ \A k \in Keys : instances[k] = None
                   /\ \A r \in Requests : stage[r] = "idle"
    /\ serving => instances["health"] = StartUp /\ checked = {StartUp}
    /\ \A r \in Requests :
          /\ kind[r] = "probe" => stage[r] \notin {"create", "failed"}
          /\ kind[r] = "probe" /\ stage[r] \in {"injected", "answered"}
             => held[r]["health"] = StartUp
          /\ kind[r] = "probe" /\ stage[r] = "answered" => health[r] = "degraded"

IndInv == TypeOK /\ InOrder /\ Units /\ Checkers

-----------------------------------------------------------------------------
(* The dependency lists                                                    *)

\* Every entry is a key, and the health checker is what probes need, first and
\* last.
LEMMA NeedsKeys ==
    ASSUME NEW e \in Endpoints, NEW n \in 1..Len(Needs(e))
    PROVE  /\ n \in 1..5
           /\ Needs(e)[n] \in Keys
           /\ Needs(e)[n] = "health" <=> e = "probe"
           /\ e = "probe" => n = Len(Needs(e))
<1>1. CASE e = "evaluate"
      BY <1>1 DEF Needs, Keys
<1>2. CASE e = "recalculate"
      BY <1>2 DEF Needs, Keys
<1>3. CASE e = "decision"
      BY <1>3 DEF Needs, Keys
<1>4. CASE e = "probe"
      BY <1>4 DEF Needs, Keys
<1>5. QED
      BY <1>1, <1>2, <1>3, <1>4 DEF Endpoints

LEMMA NeedsSomething ==
    ASSUME NEW e \in Endpoints
    PROVE  Len(Needs(e)) \in 1..5
BY DEF Needs, Endpoints

\* An index short of the end can advance.
LEMMA NextIndex ==
    ASSUME NEW m \in 1..5, NEW n \in 1..m, n # m
    PROVE  n + 1 \in 1..m /\ n + 1 \in 1..5
OBVIOUS

\* A checker with the registered checks reports a degraded service.
LEMMA Degraded ==
    ASSUME NEW c \in checked
    PROVE  Overall(Results(c)) = "degraded"
<1>1. "degraded" \in Results(c)
  <2>1. "groq" \in DOMAIN CheckStatus /\ CheckStatus["groq"] = "degraded"
        BY DEF CheckStatus
  <2>2. QED
        BY <2>1 DEF Results
<1>2. "unhealthy" \notin Results(c)
      BY DEF Results, CheckStatus
<1>3. QED
      BY <1>1, <1>2 DEF Overall

\* What injecting one dependency does to the request.
LEMMA Injected ==
    ASSUME IndInv, NEW r \in Requests, NEW c \in Creators,
           stage[r] \in {"lookup", "create"}, Inject(r, c)
    PROVE  /\ Key(r) \in Keys
           /\ kind[r] \in Endpoints
           /\ Key(r) = "health" <=> kind[r] = "probe"
           /\ held' = [held EXCEPT ![r][Key(r)] = c]
           /\ held' \in [Requests -> [Keys -> Creators \cup {None}]]
           /\ held'[r][Key(r)] = c
           /\ \A s \in Requests, k \in Keys :
                 s # r \/ k # Key(r) => held'[s][k] = held[s][k]
           /\ next' \in [Requests -> 1..5]
           /\ \A s \in Requests : s # r => next'[s] = next[s] /\ stage'[s] = stage[s]
           /\ next'[r] \in 1..Len(Needs(kind[r]))
           /\ stage' \in [Requests -> {"idle", "lookup", "create", "injected",
                                       "answered", "failed"}]
           /\ stage'[r] \in {"lookup", "injected"}
           /\ kind[r] = "probe" => stage'[r] = "injected"
<1>1. /\ kind[r] \in Endpoints
      /\ next[r] \in 1..Len(Needs(kind[r]))
      BY DEF IndInv, TypeOK, InOrder
<1>2. /\ Key(r) \in Keys
      /\ Key(r) = "health" <=> kind[r] = "probe"
      /\ kind[r] = "probe" => next[r] = Len(Needs(kind[r]))
      /\ next[r] \in 1..5
      /\ Len(Needs(kind[r])) \in 1..5
      BY <1>1, NeedsKeys, NeedsSomething DEF Key
<1>3. held \in [Requests -> [Keys -> Creators \cup {None}]]
      BY DEF IndInv, TypeOK
<1>4. held' = [held EXCEPT ![r][Key(r)] = c]
      BY DEF Inject
<1>5. /\ held' \in [Requests -> [Keys -> Creators \cup {None}]]
      /\ held'[r][Key(r)] = c
      /\ \A s \in Requests, k \in Keys :
            s # r \/ k # Key(r) => held'[s][k] = held[s][k]
      BY <1>2, <1>3, <1>4
<1>6. /\ next' \in [Requests -> 1..5]
      /\ \A s \in Requests : s # r => next'[s] = next[s] /\ stage'[s] = stage[s]
      /\ next'[r] \in 1..Len(Needs(kind[r]))
      /\ stage' \in [Requests -> {"idle", "lookup", "create", "injected",
                                  "answered", "failed"}]
      /\ stage'[r] \in {"lookup", "injected"}
      /\ kind[r] = "probe" => stage'[r] = "injected"
  <2>1. /\ next \in [Requests -> 1..5]
        /\ stage \in [Requests -> {"idle", "lookup", "create", "injected",
                                   "answered", "failed"}]
        BY DEF IndInv, TypeOK
  <2>2. CASE next[r] = Len(Needs(kind[r]))
        BY <1>2, <2>1, <2>2 DEF Inject
  <2>3. CASE next[r] # Len(Needs(kind[r]))
    <3>1. /\ next' = [next EXCEPT ![r] = @ + 1]
          /\ stage' = [stage EXCEPT ![r] = "lookup"]
          BY <2>3 DEF Inject
    <3>2. next[r] + 1 \in 1..Len(Needs(kind[r])) /\ next[r] + 1 \in 1..5
          BY <1>1, <1>2, <2>3, NextIndex
    <3>3. QED
          BY <1>2, <2>1, <2>3, <3>1, <3>2
  <2>4. QED
        BY <2>2, <2>3
<1>7. QED
      BY <1>1, <1>2, <1>4, <1>5, <1>6

-----------------------------------------------------------------------------
(* The invariant                                                           *)

LEMMA InitInv == Init => IndInv
<1> SUFFICES ASSUME Init
             PROVE  IndInv
    OBVIOUS
<1>1. TypeOK
  <2>1. held \in [Requests -> [Keys -> Creators \cup {None}]]
        BY DEF Init
  <2>2. instances \in [Keys -> Creators \cup {None}]
        BY DEF Init
  <2>3. next \in [Requests -> 1..5]
        BY DEF Init
  <2>4. QED
        BY <2>1, <2>2, <2>3 DEF Init, TypeOK
<1>2. InOrder
      BY DEF Init, InOrder
<1>3. Units /\ Checkers
      BY ContainerAssumption DEF Init, Units, Checkers, Keys
<1>4. QED
      BY <1>1, <1>2, <1>3 DEF IndInv

\* Injecting the right instance keeps the invariant.
LEMMA InjectInv ==
    ASSUME IndInv, NEW r \in Requests, NEW c \in Creators,
           stage[r] \in {"lookup", "create"}, Inject(r, c),
           Key(r) = "uow" => c = r,
           Key(r) = "health" => c = StartUp,
           instances' \in [Keys -> Creators \cup {None}],
           instances'["uow"] = None,
           instances'["health"] = instances["health"],
           UNCHANGED <<serving, checked, kind, health>>
    PROVE  IndInv'
<1>1. TypeOK'
      BY Injected DEF IndInv, TypeOK
<1>2. InOrder'
  <2>1. ASSUME NEW s \in Requests
        PROVE  /\ kind'[s] = None <=> stage'[s] = "idle"
               /\ kind'[s] = None => next'[s] = 1
               /\ kind'[s] # None => next'[s] \in 1..Len(Needs(kind'[s]))
    <3>1. CASE s = r
          BY <3>1, Injected DEF IndInv, InOrder
    <3>2. CASE s # r
          BY <3>2, Injected DEF IndInv, InOrder
    <3>3. QED
          BY <3>1, <3>2
  <2>2. QED
        BY <2>1 DEF InOrder
<1>3. Units'
      BY Injected DEF IndInv, Units, Keys
<1>4. Checkers'
  <2>1. serving
        BY DEF IndInv, Checkers
  <2>2. ASSUME NEW s \in Requests, kind'[s] = "probe"
        PROVE  /\ stage'[s] \notin {"create", "failed"}
               /\ stage'[s] \in {"injected", "answered"}
                  => held'[s]["health"] = StartUp
               /\ stage'[s] = "answered" => health'[s] = "degraded"
    <3>1. CASE s = r
          BY <2>2, <3>1, Injected
    <3>2. CASE s # r
          BY <2>2, <3>2, Injected DEF IndInv, Checkers, Keys
    <3>3. QED
          BY <3>1, <3>2
  <2>3. QED
        BY <2>1, <2>2 DEF IndInv, Checkers
<1>5. QED
      BY <1>1, <1>2, <1>3, <1>4 DEF IndInv

LEMMA NextInv == IndInv /\ [Next]_vars => IndInv'
<1> SUFFICES ASSUME IndInv, [Next]_vars
             PROVE  IndInv'
    OBVIOUS
<1> USE ContainerAssumption DEF Creators
<1>0. "health" \in Keys /\ "uow" \in Keys
      BY DEF Keys
<1>1. CASE Start
      BY <1>0, <1>1 DEF Start, IndInv, TypeOK, InOrder, Units, Checkers
<1>2. ASSUME NEW r \in Requests, Arrive(r)
      PROVE  IndInv'
  <2>1. PICK e \in Endpoints : kind' = [kind EXCEPT ![r] = e]
        BY <1>2 DEF Arrive
  <2>2. TypeOK'
        BY <1>2, <2>1 DEF Arrive, IndInv, TypeOK
  <2>3. InOrder'
    <3>1. kind'[r] = e /\ stage'[r] = "lookup" /\ next'[r] = 1 /\ e # None
          BY <1>2, <2>1 DEF Arrive, IndInv, TypeOK, Endpoints, InOrder
    <3>2. 1 \in 1..Len(Needs(e))
          BY NeedsSomething
    <3>3. \A s \in Requests \ {r} : /\ kind'[s] = kind[s] /\ stage'[s] = stage[s]
                                   /\ next'[s] = next[s]
          BY <1>2, <2>1 DEF Arrive, IndInv, TypeOK
    <3>4. QED
          BY <3>1, <3>2, <3>3 DEF IndInv, InOrder
  <2>4. Units' /\ Checkers'
        BY <1>2, <2>1 DEF Arrive, IndInv, TypeOK, Units, Checkers
  <2>5. QED
        BY <2>2, <2>3, <2>4 DEF IndInv
<1>3. ASSUME NEW r \in Requests, Lookup(r)
      PROVE  IndInv'
  <2>1. /\ stage[r] = "lookup"
        /\ UNCHANGED <<serving, instances, checked, kind, health>>
        BY <1>3 DEF Lookup
  <2>2. /\ serving /\ instances["health"] = StartUp /\ instances["uow"] = None
        /\ instances \in [Keys -> Creators \cup {None}]
        BY <2>1 DEF IndInv, TypeOK, Checkers, Units
  <2>3. Key(r) \in Keys /\ (kind[r] = "probe" => Key(r) = "health")
    <3>1. kind[r] \in Endpoints /\ next[r] \in 1..Len(Needs(kind[r]))
          BY <2>1 DEF IndInv, TypeOK, InOrder
    <3>2. QED
          BY <3>1, NeedsKeys DEF Key
  <2>4. CASE instances[Key(r)] # None /\ Inject(r, instances[Key(r)])
    <3>1. instances[Key(r)] \in Creators
          BY <2>2, <2>3, <2>4
    <3>2. QED
          BY <2>1, <2>2, <2>4, <3>1, InjectInv
  <2>5. CASE /\ instances[Key(r)] = None
             /\ stage' = [stage EXCEPT ![r] = "create"]
             /\ UNCHANGED <<next, held>>
    <3>1. kind[r] # "probe"
          BY <2>2, <2>3, <2>5
    <3>2. TypeOK' /\ InOrder'
          BY <2>1, <2>5 DEF IndInv, TypeOK, InOrder
    <3>3. Units' /\ Checkers'
          BY <2>1, <2>2, <2>5, <3>1 DEF IndInv, TypeOK, Units, Checkers
    <3>4. QED
          BY <3>2, <3>3 DEF IndInv
  <2>6. QED
        BY <1>3, <2>4, <2>5 DEF Lookup
<1>4. ASSUME NEW r \in Requests, Create(r)
      PROVE  IndInv'
  <2>1. /\ stage[r] = "create" /\ Inject(r, r)
        /\ UNCHANGED <<serving, checked, kind, health>>
        BY <1>4 DEF Create
  <2>2. Key(r) \in Keys \ {"health"}
        BY <2>1, Injected DEF IndInv, Checkers
  <2>3. /\ instances' \in [Keys -> Creators \cup {None}]
        /\ instances'["uow"] = None
        /\ instances'["health"] = instances["health"]
        BY <1>0, <1>4, <2>2 DEF Create, Singleton, IndInv, TypeOK, Units
  <2>4. QED
        BY <2>1, <2>2, <2>3, InjectInv
<1>5. ASSUME NEW r \in Requests, CreateFails(r)
      PROVE  IndInv'
      BY <1>5 DEF CreateFails, IndInv, TypeOK, InOrder, Units, Checkers
<1>6. ASSUME NEW r \in Requests, Answer(r)
      PROVE  IndInv'
  <2>1. /\ stage[r] = "injected"
        /\ stage' = [stage EXCEPT ![r] = "answered"]
        /\ UNCHANGED <<serving, instances, checked, kind, next, held>>
        BY <1>6 DEF Answer
  <2>2. CASE kind[r] = "probe"
    <3>1. Overall(Results(held[r]["health"])) = "degraded"
          BY <2>1, <2>2, Degraded DEF IndInv, Checkers
    <3>2. health' = [health EXCEPT ![r] = "degraded"]
          BY <1>6, <2>2, <3>1 DEF Answer
    <3>3. TypeOK' /\ InOrder'
          BY <2>1, <3>2 DEF IndInv, TypeOK, InOrder
    <3>4. Units' /\ Checkers'
          BY <2>1, <3>2 DEF IndInv, TypeOK, Units, Checkers
    <3>5. QED
          BY <3>3, <3>4 DEF IndInv
  <2>3. CASE kind[r] # "probe"
    <3>1. health' = health
          BY <1>6, <2>3 DEF Answer
    <3>2. TypeOK' /\ InOrder'
          BY <2>1, <3>1 DEF IndInv, TypeOK, InOrder
    <3>3. Units' /\ Checkers'
          BY <2>1, <2>3, <3>1 DEF IndInv, TypeOK, Units, Checkers
    <3>4. QED
          BY <3>2, <3>3 DEF IndInv
  <2>4. QED
        BY <2>2, <2>3
<1>7. CASE UNCHANGED vars
      BY <1>7 DEF vars, IndInv, TypeOK, InOrder, Units, Checkers, Needs
<1>8. QED
      BY <1>1, <1>2, <1>3, <1>4, <1>5, <1>6, <1>7 DEF Next, Step

LEMMA Invariant == Spec => []IndInv
BY InitInv, NextInv, PTL DEF Spec

-----------------------------------------------------------------------------
(* The theorems                                                            *)

\* Type correctness of the container and of what it injects.
THEOREM TypeCorrect == Spec => []TypeOK
<1>1. IndInv => TypeOK
      BY DEF IndInv
<1>2. QED
      BY Invariant, <1>1, PTL

\* No two requests share a unit of work, however their threads overlap.
THEOREM UnitsOfWorkApart == Spec => []OwnUnitOfWork
<1>1. IndInv => OwnUnitOfWork
      BY ContainerAssumption DEF IndInv, Units, OwnUnitOfWork
<1>2. QED
      BY Invariant, <1>1, PTL

\* Probes are answered by the checker with the registered checks.
THEOREM ProbesNeverBlind == Spec => []ProbesSeeChecks
<1>1. IndInv => ProbesSeeChecks
      BY DEF IndInv, Checkers, ProbesSeeChecks
<1>2. QED
      BY Invariant, <1>1, PTL

\* A key is raced for on its first use only.
THEOREM RaceOnFirstUseOnly == Spec => SingletonsSettle
<1> DEFINE Step1 ==
        \A k \in Keys : Settled(k) =>
            /\ instances'[k] = instances[k]
            /\ \A r \in Requests : ~Resolving(r, k)'
<1>1. IndInv /\ [Next]_vars => [Step1]_vars
  <2> SUFFICES ASSUME IndInv, Next, NEW k \in Keys, Settled(k)
               PROVE  /\ instances'[k] = instances[k]
                      /\ \A s \in Requests : ~Resolving(s, k)'
      OBVIOUS
  <2> USE DEF Settled, Resolving
  <2>1. CASE Start
        BY <2>1 DEF Start, IndInv, Checkers
  <2>2. ASSUME NEW r \in Requests, Arrive(r)
        PROVE  /\ instances'[k] = instances[k]
               /\ \A s \in Requests : ~Resolving(s, k)'
        BY <2>2 DEF Arrive, Key, IndInv, TypeOK
  <2>3. ASSUME NEW r \in Requests, NEW c \in Creators,
               stage[r] \in {"lookup", "create"}, Inject(r, c), kind' = kind
        PROVE  \A s \in Requests : ~Resolving(s, k)'
    <3>1. stage'[r] # "create" /\ \A s \in Requests \ {r} : stage'[s] = stage[s] /\ next'[s] = next[s]
          BY <2>3, Injected
    <3>2. QED
          BY <2>3, <3>1 DEF Key
  <2>4. ASSUME NEW r \in Requests, Lookup(r)
        PROVE  /\ instances'[k] = instances[k]
               /\ \A s \in Requests : ~Resolving(s, k)'
    <3>1. CASE instances[Key(r)] # None /\ Inject(r, instances[Key(r)])
      <4>1. instances[Key(r)] \in Creators /\ stage[r] = "lookup"
        <5>1. kind[r] \in Endpoints /\ next[r] \in 1..Len(Needs(kind[r])) /\ stage[r] = "lookup"
              BY <2>4 DEF Lookup, IndInv, TypeOK, InOrder
        <5>2. Key(r) \in Keys
              BY <5>1, NeedsKeys DEF Key
        <5>3. QED
              BY <3>1, <5>1, <5>2 DEF IndInv, TypeOK
      <4>2. QED
            BY <2>3, <2>4, <3>1, <4>1 DEF Lookup
    <3>2. CASE /\ instances[Key(r)] = None
               /\ stage' = [stage EXCEPT ![r] = "create"]
               /\ UNCHANGED <<next, held>>
          BY <2>4, <3>2 DEF Lookup, Key, IndInv, TypeOK
    <3>3. QED
          BY <2>4, <3>1, <3>2 DEF Lookup
  <2>5. ASSUME NEW r \in Requests, Create(r)
        PROVE  /\ instances'[k] = instances[k]
               /\ \A s \in Requests : ~Resolving(s, k)'
        BY <2>3, <2>5 DEF Create, Creators, IndInv, TypeOK
  <2>6. ASSUME NEW r \in Requests, CreateFails(r) \/ Answer(r)
        PROVE  /\ instances'[k] = instances[k]
               /\ \A s \in Requests : ~Resolving(s, k)'
        BY <2>6 DEF CreateFails, Answer, Key, IndInv, TypeOK
  <2>7. QED
        BY <2>1, <2>2, <2>4, <2>5, <2>6 DEF Next, Step
<1>2. QED
      BY Invariant, <1>1, PTL DEF Spec, SingletonsSettle

\* After the race of its first use a singleton is one instance for everybody.
THEOREM OneInstance == Spec => SettledIsShared
<1> DEFINE Shared ==
        \A k \in Keys, r \in Requests :
            Settled(k) /\ held'[r][k] # held[r][k] => held'[r][k] = instances[k]
<1>1. ASSUME IndInv, [Next]_vars, NEW k \in Keys, NEW r \in Requests,
             Settled(k), held'[r][k] # held[r][k]
      PROVE  held'[r][k] = instances[k]
  <2>1. ASSUME NEW s \in Requests, NEW c \in Creators,
               stage[s] \in {"lookup", "create"}, Inject(s, c)
        PROVE  s = r /\ Key(s) = k /\ held'[r][k] = c
        BY <1>1, <2>1, Injected
  <2>2. ASSUME NEW s \in Requests, Lookup(s)
        PROVE  held'[r][k] = instances[k]
    <3>1. instances[Key(s)] # None /\ Inject(s, instances[Key(s)])
          BY <1>1, <2>2 DEF Lookup
    <3>2. Key(s) \in Keys
      <4>1. kind[s] \in Endpoints /\ next[s] \in 1..Len(Needs(kind[s]))
            BY <1>1, <2>2 DEF Lookup, IndInv, TypeOK, InOrder
      <4>2. QED
            BY <4>1, NeedsKeys DEF Key
    <3>3. instances[Key(s)] \in Creators
          BY <1>1, <3>1, <3>2 DEF IndInv, TypeOK
    <3>4. QED
          BY <2>1, <2>2, <3>1, <3>3 DEF Lookup
  <2>3. ASSUME NEW s \in Requests, Create(s)
        PROVE  FALSE
    <3>1. stage[s] = "create" /\ Inject(s, s) /\ s \in Creators
          BY <2>3 DEF Create, Creators
    <3>2. Resolving(s, k)
          BY <2>1, <3>1 DEF Resolving
    <3>3. QED
          BY <1>1, <3>2 DEF Settled
  <2>4. ~Start /\ ~UNCHANGED vars
        BY <1>1 DEF Start, vars
  <2>5. \A s \in Requests : ~Arrive(s) /\ ~CreateFails(s) /\ ~Answer(s)
        BY <1>1 DEF Arrive, CreateFails, Answer
  <2>6. QED
        BY <1>1, <2>2, <2>3, <2>4, <2>5 DEF Next, Step
<1>2. IndInv /\ [Next]_vars => [Shared]_vars
      BY <1>1
<1>3. QED
      BY Invariant, <1>2, PTL DEF Spec, SettledIsShared
=============================================================================
