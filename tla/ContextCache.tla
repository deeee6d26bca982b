---------------------------- MODULE ContextCache ----------------------------
(***************************************************************************)
(* The engine pipeline (engine/workflow.py) as far as it gets: it builds   *)
(* the contexts of a finding through the cache (engine/context_builder.py, *)
(* infrastructure/cache), computes the raw score and ends in an error of   *)
(* the priority engine, because no stage before it sets the risk score.    *)
(* Evaluations score; they write the same threat contexts into the cache   *)
(* but never use a hit.                                                    *)
(*                                                                         *)
(* A copy of a context is not known by its value but by whether its source *)
(* has replaced it since it was read, and for how long.  The sources are   *)
(* the asset inventory and the threat feeds; a feed that is down answers   *)
(* "nothing known", which is one more answer, cached like the others; one  *)
(* that is up may give an EPSS value that ThreatContext refuses.           *)
(***************************************************************************)
EXTENDS Naturals

CONSTANTS Runs,     \* executions in progress at a time
          Ttl,      \* time to live of each kind of context
          Latency,  \* longest time from a request to a source to its answer
          None

Contexts == {"business", "threat"}

ASSUME ContextCacheAssumption ==
    /\ Ttl \in [Contexts -> Nat \ {0}]
    /\ Latency \in Nat

VARIABLES
    backend,  \* the cache: MemoryCache in development, RedisCache elsewhere
    cache,    \* the copy of each context in the cache, with its time left
    kind,     \* what each run is
    cve,      \* the run's finding has a CVE
    stage,    \* where each run is
    wants,    \* the context each run is fetching
    sent,     \* time since it sent its request
    hand,     \* the copy it was answered with and has not stored yet
    got,      \* the contexts it has been given, as copies
    refused   \* history: runs for which a source had no usable answer

vars == <<backend, cache, kind, cve, stage, wants, sent, hand, got, refused>>

-----------------------------------------------------------------------------
(* Copies                                                                  *)

Copies == [replaced : BOOLEAN, age : Nat]

FreshCopy == [replaced |-> FALSE, age |-> 0]

\* What a copy becomes when time passes and when its source changes.
Older(c) == IF c # None /\ c.replaced THEN [c EXCEPT !.age = @ + 1] ELSE c
Replaced(c) == IF c # None THEN [c EXCEPT !.replaced = TRUE] ELSE c

Entries == [copy : Copies, left : Nat]

NoContexts == [c \in Contexts |-> None]

Running == {"lookup", "request", "store"}
Ended == {"idle", "rejected", "failed", "stopped", "scored"}

ASSUME NoCopyAssumption == None \notin Copies /\ None \notin Entries

TypeOK ==
    /\ backend \in {"memory", "redis"}
    /\ cache \in [Contexts -> Entries \cup {None}]
    /\ kind \in [Runs -> {"pipeline", "evaluate"}]
    /\ cve \in [Runs -> BOOLEAN]
    /\ stage \in [Runs -> Ended \cup Running]
    /\ wants \in [Runs -> Contexts]
    /\ sent \in [Runs -> 0..Latency]
    /\ hand \in [Runs -> Copies \cup {None}]
    /\ got \in [Runs -> [Contexts -> Copies \cup {None}]]
    /\ refused \in SUBSET Runs

Init ==
    /\ backend \in {"memory", "redis"}
    /\ cache = NoContexts
    /\ kind = [r \in Runs |-> "pipeline"]
    /\ cve = [r \in Runs |-> FALSE]
    /\ stage = [r \in Runs |-> "idle"]
    /\ wants = [r \in Runs |-> "business"]
    /\ sent = [r \in Runs |-> 0]
    /\ hand = [r \in Runs |-> None]
    /\ got = [r \in Runs |-> NoContexts]
    /\ refused = {}

-----------------------------------------------------------------------------
(* A run                                                                   *)

\* A pipeline starts with validation, which may reject the finding; the
\* evaluation of a finding with a CVE reaches its threat context.
Begin(r) ==
    /\ stage[r] \notin Running
    /\ \E k \in {"pipeline", "evaluate"}, hasCve \in BOOLEAN :
          /\ k = "evaluate" => hasCve
          /\ kind' = [kind EXCEPT ![r] = k]
          /\ cve' = [cve EXCEPT ![r] = hasCve]
          /\ wants' = [wants EXCEPT ![r] =
                          IF k = "pipeline" THEN "business" ELSE "threat"]
          /\ \E s \in {"lookup", "rejected"} :
                /\ k = "evaluate" => s = "lookup"
                /\ stage' = [stage EXCEPT ![r] = s]
    /\ got' = [got EXCEPT ![r] = NoContexts]
    /\ hand' = [hand EXCEPT ![r] = None]
    /\ sent' = [sent EXCEPT ![r] = 0]
    /\ refused' = refused \ {r}
    /\ UNCHANGED <<backend, cache>>

\* With a business context, a finding with a CVE needs its threat context.
AskThreat(r) ==
    /\ wants[r] = "business" /\ cve[r]
    /\ wants' = [wants EXCEPT ![r] = "threat"]
    /\ stage' = [stage EXCEPT ![r] = "lookup"]

\* Without a CVE an empty threat context is created, which ThreatContext
\* refuses: the context builder fails.
RefuseEmpty(r) ==
    /\ wants[r] = "business" /\ ~cve[r]
    /\ stage' = [stage EXCEPT ![r] = "failed"]
    /\ UNCHANGED wants

\* With both contexts a pipeline normalises the severity, computes the raw
\* score and is stopped by the priority engine ("Risk score is None"); an
\* evaluation scores.
Score(r) ==
    /\ wants[r] = "threat"
    /\ stage' = [stage EXCEPT ![r] = IF kind[r] = "pipeline" THEN "stopped"
                                                            ELSE "scored"]
    /\ UNCHANGED wants

\* Context wants[r] is there.
Deliver(r, copy) ==
    /\ got' = [got EXCEPT ![r][wants[r]] = copy]
    /\ AskThreat(r) \/ RefuseEmpty(r) \/ Score(r)

\* Redis keeps the text of a context, which is no context when it is read.
KeepsContexts == backend = "memory"

MutHitForEvaluate(r) == KeepsContexts /\ cache[wants[r]] # None

\* What the lookup returns is used; when it fails, it is a miss.
Hit(r) ==
    /\ kind[r] = "pipeline"
    /\ KeepsContexts
    /\ cache[wants[r]] # None

Lookup(r) ==
    /\ stage[r] = "lookup"
    /\ \/ /\ Hit(r)
          /\ Deliver(r, cache[wants[r]].copy)
          /\ UNCHANGED sent
       \/ /\ ~Hit(r)
          /\ stage' = [stage EXCEPT ![r] = "request"]
          /\ sent' = [sent EXCEPT ![r] = 0]
          /\ UNCHANGED <<wants, got>>
    /\ UNCHANGED <<backend, cache, kind, cve, hand, refused>>

\* The source answers; its answer is on the way.
SourceAnswers(r) ==
    /\ stage[r] = "request"
    /\ stage' = [stage EXCEPT ![r] = "store"]
    /\ hand' = [hand EXCEPT ![r] = FreshCopy]
    /\ UNCHANGED <<backend, cache, kind, cve, wants, sent, got, refused>>

\* The repository raises or does not know the asset; or the EPSS feed gives a
\* number outside 0..1, or no number at all (NaN), for which ThreatContext.create
\* raises outside the client's try.  Both kinds of run end in an error.
SourceFails(r) ==
    /\ stage[r] = "request"
    /\ stage' = [stage EXCEPT ![r] = "failed"]
    /\ refused' = refused \cup {r}
    /\ UNCHANGED <<backend, cache, kind, cve, wants, sent, hand, got>>

MutStoreErrorFails(r) ==
    /\ stage[r] = "store"
    /\ stage' = [stage EXCEPT ![r] = "failed"]
    /\ hand' = [hand EXCEPT ![r] = None]
    /\ UNCHANGED <<backend, cache, kind, cve, wants, sent, got, refused>>

MutStoreReadsBack(r) ==
    /\ stage[r] = "store"
    /\ stage' = [stage EXCEPT ![r] = "lookup"]
    /\ hand' = [hand EXCEPT ![r] = None]
    /\ UNCHANGED <<backend, cache, kind, cve, wants, sent, got, refused>>

\* The answer arrives and is put into the cache; where that fails it is used
\* all the same.
Store(r) ==
    /\ stage[r] = "store"
    /\ cache' = IF KeepsContexts
                THEN [cache EXCEPT ![wants[r]] =
                         [copy |-> hand[r], left |-> Ttl[wants[r]]]]
                ELSE cache
    /\ Deliver(r, hand[r])
    /\ hand' = [hand EXCEPT ![r] = None]
    /\ UNCHANGED <<backend, kind, cve, sent, refused>>

-----------------------------------------------------------------------------
(* The world                                                               *)

\* The inventory is edited, or a threat feed changes, fails or recovers.  Runs
\* that are over keep what they were scored with.
SourceChanges(c) ==
    /\ cache' = IF cache[c] = None THEN cache
                ELSE [cache EXCEPT ![c].copy = Replaced(@)]
    /\ hand' = [r \in Runs |-> IF wants[r] = c THEN Replaced(hand[r]) ELSE hand[r]]
    /\ got' = [r \in Runs |->
                  IF stage[r] \in Running
                  THEN [got[r] EXCEPT ![c] = Replaced(@)] ELSE got[r]]
    /\ UNCHANGED <<backend, kind, cve, stage, wants, sent, refused>>

MutExpired(e) == e = None

\* MemoryCache: "exp < now".
Expired(e) == e = None \/ e.left = 0

\* Time passes.  A lookup takes none, and an answer takes Latency at most.
Tick ==
    /\ \A r \in Runs : /\ stage[r] # "lookup"
                       /\ stage[r] \in {"request", "store"} => sent[r] < Latency
    /\ cache' = [c \in Contexts |->
                    IF Expired(cache[c]) THEN None
                    ELSE [copy |-> Older(cache[c].copy), left |-> cache[c].left - 1]]
    /\ sent' = [r \in Runs |->
                   IF stage[r] \in Running THEN sent[r] + 1 ELSE sent[r]]
    /\ hand' = [r \in Runs |-> Older(hand[r])]
    /\ got' = [r \in Runs |->
                  IF stage[r] \in Running
                  THEN [c \in Contexts |-> Older(got[r][c])] ELSE got[r]]
    /\ UNCHANGED <<backend, kind, cve, stage, wants, refused>>

Step(r) == Lookup(r) \/ SourceAnswers(r) \/ SourceFails(r) \/ Store(r)

Next ==
    \/ \E r \in Runs : Begin(r) \/ Step(r)
    \/ \E c \in Contexts : SourceChanges(c)
    \/ Tick

Spec == Init /\ [][Next]_vars

LiveSpec == Spec /\ \A r \in Runs : WF_vars(Step(r))

-----------------------------------------------------------------------------
(* Properties                                                              *)

\* How old a context of kind c may be when run r is scored: replaced in its
\* source for that long.  A hit may have been read Latency before it was stored
\* and be served until its last instant, and the pipeline's business context
\* ages while the threat context is fetched.
StaleBound(r, c) ==
    (IF kind[r] = "pipeline" /\ KeepsContexts THEN Ttl[c] ELSE 0) + Latency
    + (IF c = "business" THEN Latency ELSE 0)

\* However fetches, changes and stores interleave, no score, nor the raw score of
\* a pipeline that then stops, rests on a context that its source had replaced
\* longer ago than that; an evaluation's threat context never comes from the cache.
ScoredOnRecent ==
    \A r \in Runs : stage[r] \in {"scored", "stopped"} =>
        /\ got[r]["threat"] # None
        /\ kind[r] = "pipeline" => got[r]["business"] # None
        /\ \A c \in Contexts : got[r][c] # None => got[r][c].age <= StaleBound(r, c)

\* A run fails exactly when a source had no usable answer for it (no asset, a
\* refused EPSS value) or a pipeline's finding has no CVE: neither the state of the
\* cache, a store that fails, the outage of a feed nor another run's failure ever
\* makes one fail, and none goes on without a context it was refused.
FailsForSourcesOnly ==
    \A r \in Runs :
        stage[r] = "failed" <=>
            \/ r \in refused
            \/ got[r]["business"] # None /\ ~cve[r]

\* Every run ends, in a world that keeps changing.
RunsEnd ==
    \A r \in Runs : stage[r] \in Running ~> stage[r] \notin Running

\* Where a run is on its way: each context is looked up, requested and stored once.
Progress(r) ==
    (IF wants[r] = "business" THEN 0 ELSE 3)
    + (IF stage[r] = "lookup" THEN 1 ELSE IF stage[r] = "request" THEN 2 ELSE 3)

\* Why every run ends: each of its steps takes it further or is its last, and no
\* other run, change of a source or passing time sends it back to a lookup, not
\* even by dropping from the cache what it is waiting for.
RunsMoveForward ==
    [][\A r \in Runs : stage[r] \in Running /\ stage'[r] \in Running =>
          /\ Progress(r) <= Progress(r)' /\ Progress(r)' <= 6
          /\ Step(r) => Progress(r) < Progress(r)']_vars
=============================================================================
