------------------------- MODULE ContextCacheProofs -------------------------
(***************************************************************************)
(* Proofs about module ContextCache, for any number of runs, any times to  *)
(* live and any latency.                                                   *)
(*                                                                         *)
(* The invariant bounds the age of every copy by the time that can have    *)
(* passed since it was read: a copy in hand by the time since the request, *)
(* a cached one by the time it has already lived plus Latency, and the     *)
(* business context of a pipeline by what it was at its lookup plus the    *)
(* time since the request for the threat context.                          *)
(***************************************************************************)
EXTENDS ContextCache, TLAPS

\* How long a context may have been replaced when it is delivered.
DeliveryBound(r, c) ==
    (IF kind[r] = "pipeline" /\ KeepsContexts THEN Ttl[c] ELSE 0) + Latency

\* The copy in hand.
Hands ==
    \A r \in Runs :
        /\ stage[r] = "store" => hand[r] # None /\ hand[r].age <= sent[r]
        /\ stage[r] # "store" => hand[r] = None

\* The cached copies.
Cached ==
    \A c \in Contexts : cache[c] # None =>
        cache[c].left <= Ttl[c] /\ cache[c].copy.age + cache[c].left <= Ttl[c] + Latency

\* The contexts of a run that is not over: a pipeline has its business context
\* when it is after the threat context, and nothing else is there yet.
Given ==
    \A r \in Runs : stage[r] \in Running =>
        /\ got[r]["threat"] = None
        /\ kind[r] = "evaluate" => wants[r] = "threat" /\ cve[r] /\ got[r]["business"] = None
        /\ kind[r] = "pipeline" /\ wants[r] = "business" => got[r]["business"] = None
        /\ kind[r] = "pipeline" /\ wants[r] = "threat" =>
              /\ cve[r]
              /\ got[r]["business"] # None
              /\ got[r]["business"].age <= DeliveryBound(r, "business")
                    + (IF stage[r] = "lookup" THEN 0 ELSE sent[r])

IndInv == /\ TypeOK /\ Hands /\ Cached /\ Given
          /\ ScoredOnRecent /\ FailsForSourcesOnly

USE ContextCacheAssumption, NoCopyAssumption DEF KeepsContexts, Ended

-----------------------------------------------------------------------------
(* Copies                                                                  *)

\* Time makes a copy at most one older, a change of its source no older.
LEMMA CopyOps ==
    ASSUME NEW c \in Copies \cup {None}
    PROVE  /\ Older(c) \in Copies \cup {None}
           /\ Replaced(c) \in Copies \cup {None}
           /\ Older(c) = None <=> c = None
           /\ Replaced(c) = None <=> c = None
           /\ c # None => /\ c.age \in Nat
                          /\ Older(c).age \in Nat
                          /\ Older(c).age <= c.age + 1
                          /\ Replaced(c).age = c.age
<1>1. CASE c = None
      BY <1>1 DEF Older, Replaced
<1>2. CASE c \in Copies
  <2>1. c # None /\ c.age \in Nat /\ c.replaced \in BOOLEAN
        BY <1>2 DEF Copies
  <2>2. [c EXCEPT !.age = @ + 1] \in Copies /\ [c EXCEPT !.age = @ + 1].age = c.age + 1
    <3>1. c.age + 1 \in Nat
          BY <2>1
    <3>2. c = [replaced |-> c.replaced, age |-> c.age]
          BY <1>2 DEF Copies
    <3>3. [c EXCEPT !.age = @ + 1] = [replaced |-> c.replaced, age |-> c.age + 1]
          BY <3>2
    <3>4. QED
          BY <2>1, <3>1, <3>3 DEF Copies
  <2>3. [c EXCEPT !.replaced = TRUE] \in Copies
        /\ [c EXCEPT !.replaced = TRUE].age = c.age
        BY <1>2, <2>1 DEF Copies
  <2>4. Older(c) \in {c, [c EXCEPT !.age = @ + 1]}
        BY DEF Older
  <2>5. Replaced(c) = [c EXCEPT !.replaced = TRUE]
        BY <2>1 DEF Replaced
  <2>6. Older(c) \in Copies /\ Older(c).age \in Nat /\ Older(c).age <= c.age + 1
    <3>1. CASE Older(c) = c
          BY <1>2, <2>1, <3>1
    <3>2. CASE Older(c) = [c EXCEPT !.age = @ + 1]
      <4> DEFINE d == [c EXCEPT !.age = @ + 1]
      <4>1. d \in Copies /\ d.age = c.age + 1
            BY <2>2
      <4> HIDE DEF d
      <4>2. QED
            BY <2>1, <3>2, <4>1 DEF d
    <3>3. QED
          BY <2>4, <3>1, <3>2
  <2>7. Replaced(c) \in Copies /\ Replaced(c).age = c.age
        BY <2>3, <2>5
  <2>8. QED
        BY <1>2, <2>1, <2>6, <2>7
<1>3. QED
      BY <1>1, <1>2

LEMMA FreshIsCopy == FreshCopy \in Copies /\ FreshCopy # None /\ FreshCopy.age = 0
<1>1. FreshCopy \in Copies /\ FreshCopy.age = 0
      BY DEF FreshCopy, Copies
<1>2. QED
      BY <1>1

\* A cached entry can be handed out within the delivery bound.
LEMMA EntryParts ==
    ASSUME NEW e \in Entries
    PROVE  /\ e # None
           /\ e.copy \in Copies /\ e.copy # None
           /\ e.copy.age \in Nat
           /\ e.left \in Nat
BY DEF Entries, Copies

LEMMA BoundTypes ==
    ASSUME TypeOK, NEW r \in Runs, NEW c \in Contexts
    PROVE  /\ DeliveryBound(r, c) \in Nat
           /\ Latency <= DeliveryBound(r, c)
           /\ StaleBound(r, c) = DeliveryBound(r, c)
                 + (IF c = "business" THEN Latency ELSE 0)
BY DEF DeliveryBound, StaleBound, TypeOK

-----------------------------------------------------------------------------
(* The invariant                                                           *)

LEMMA InitInv == Init => IndInv
<1> SUFFICES ASSUME Init
             PROVE  IndInv
    OBVIOUS
<1>1. NoContexts \in [Contexts -> Entries \cup {None}]
      /\ NoContexts \in [Contexts -> Copies \cup {None}]
      BY DEF NoContexts
<1>2. TypeOK
      BY <1>1 DEF Init, TypeOK, Running, Contexts
<1>3. Hands /\ Given /\ ScoredOnRecent /\ FailsForSourcesOnly
      BY DEF Init, Hands, Given, Running, ScoredOnRecent, FailsForSourcesOnly,
         NoContexts, Contexts
<1>4. Cached
      BY DEF Init, Cached, NoContexts
<1>5. QED
      BY <1>2, <1>3, <1>4 DEF IndInv

\* Giving a run a context that is not too old.
LEMMA Delivered ==
    ASSUME IndInv, NEW r \in Runs, NEW copy \in Copies,
           stage[r] \in {"lookup", "store"}, Deliver(r, copy),
           copy.age <= DeliveryBound(r, wants[r]),
           UNCHANGED <<backend, kind, cve, sent, refused>>
    PROVE  /\ wants' \in [Runs -> Contexts]
           /\ stage' \in [Runs -> Ended \cup Running]
           /\ got' \in [Runs -> [Contexts -> Copies \cup {None}]]
           /\ stage'[r] # "store"
           /\ \A s \in Runs : s # r => stage'[s] = stage[s]
           /\ Given' /\ ScoredOnRecent' /\ FailsForSourcesOnly'
<1>1. TypeOK
      BY DEF IndInv
<1>2. /\ got' \in [Runs -> [Contexts -> Copies \cup {None}]]
      /\ got'[r][wants[r]] = copy
      /\ \A c \in Contexts : c # wants[r] => got'[r][c] = got[r][c]
      /\ \A s \in Runs : s # r => got'[s] = got[s]
      BY <1>1 DEF Deliver, AskThreat, RefuseEmpty, Score, TypeOK
<1>3. /\ wants' \in [Runs -> Contexts]
      /\ stage' \in [Runs -> Ended \cup Running]
      /\ stage'[r] # "store"
      /\ \A s \in Runs : s # r => stage'[s] = stage[s] /\ wants'[s] = wants[s]
      BY <1>1 DEF Deliver, AskThreat, RefuseEmpty, Score, TypeOK, Running, Contexts
<1>4. /\ copy # None /\ copy.age \in Nat
      BY DEF Copies
<1>5. /\ kind[r] \in {"pipeline", "evaluate"}
      /\ wants[r] \in Contexts
      /\ sent[r] \in 0..Latency
      /\ stage[r] \in Running
      BY <1>1 DEF TypeOK, Running
<1>6. Given' /\ ScoredOnRecent' /\ FailsForSourcesOnly'
  <2>1. ASSUME NEW s \in Runs, s # r
        PROVE  /\ stage'[s] = stage[s] /\ wants'[s] = wants[s] /\ got'[s] = got[s]
               /\ \A c \in Contexts : /\ DeliveryBound(s, c)' = DeliveryBound(s, c)
                                      /\ StaleBound(s, c)' = StaleBound(s, c)
        BY <1>2, <1>3, <2>1 DEF DeliveryBound, StaleBound
  <2>2. \A c \in Contexts : /\ DeliveryBound(r, c)' = DeliveryBound(r, c)
                            /\ StaleBound(r, c)' = StaleBound(r, c)
        BY DEF DeliveryBound, StaleBound
  <2>3. CASE wants[r] = "business" /\ cve[r]
    <3>1. /\ wants'[r] = "threat" /\ stage'[r] = "lookup" /\ kind[r] = "pipeline"
          BY <1>1, <1>5, <2>3 DEF Deliver, AskThreat, RefuseEmpty, Score, TypeOK, IndInv, Given
    <3>2. got'[r]["business"] = copy /\ got'[r]["threat"] = None
          BY <1>2, <1>5, <2>3 DEF IndInv, Given, Contexts
    <3>3. copy.age <= DeliveryBound(r, "business")'
          BY <2>2, <2>3 DEF Contexts
    <3>4. Given'
      <4>1. ASSUME NEW s \in Runs, s # r, (stage[s] \in Running)'
            PROVE  /\ (got[s]["threat"] = None)'
                   /\ (kind[s] = "evaluate" => wants[s] = "threat" /\ cve[s]
                                               /\ got[s]["business"] = None)'
                   /\ (kind[s] = "pipeline" /\ wants[s] = "business"
                         => got[s]["business"] = None)'
                   /\ (kind[s] = "pipeline" /\ wants[s] = "threat" =>
                         /\ cve[s]
                         /\ got[s]["business"] # None
                         /\ got[s]["business"].age <= DeliveryBound(s, "business")
                               + (IF stage[s] = "lookup" THEN 0 ELSE sent[s]))'
            BY <2>1, <4>1 DEF IndInv, Given, Contexts
      <4>2. DeliveryBound(r, "business")' \in Nat
            BY <1>1, <2>2, BoundTypes DEF Contexts
      <4>3. copy.age <= DeliveryBound(r, "business")' + 0
            BY <1>4, <3>3, <4>2
      <4>4. QED
            BY <1>4, <2>3, <3>1, <3>2, <4>1, <4>3 DEF Given
    <3>5. ScoredOnRecent' /\ FailsForSourcesOnly'
      <4>1. ScoredOnRecent'
            BY <2>1, <3>1 DEF IndInv, ScoredOnRecent, Contexts
      <4>2. r \notin refused' /\ cve'[r]
            BY <1>5, <2>3 DEF IndInv, FailsForSourcesOnly, Running
      <4>3. FailsForSourcesOnly'
            BY <2>1, <3>1, <4>2 DEF IndInv, FailsForSourcesOnly
      <4>4. QED
            BY <4>1, <4>3
    <3>6. QED
          BY <3>4, <3>5
  <2>4. CASE wants[r] = "business" /\ ~cve[r]
    <3>1. /\ stage'[r] = "failed" /\ kind[r] = "pipeline"
          BY <1>1, <1>5, <2>4 DEF Deliver, AskThreat, RefuseEmpty, Score, TypeOK, IndInv, Given
    <3>2. Given'
          BY <2>1, <3>1 DEF IndInv, Given, Contexts, Running
    <3>3. ScoredOnRecent' /\ FailsForSourcesOnly'
      <4>1. ScoredOnRecent'
            BY <2>1, <2>4, <3>1 DEF IndInv, ScoredOnRecent, Contexts
      <4>2. got'[r]["business"] # None /\ ~cve'[r]
            BY <1>2, <1>4, <2>4
      <4>3. FailsForSourcesOnly'
            BY <2>1, <3>1, <4>2 DEF IndInv, FailsForSourcesOnly
      <4>4. QED
            BY <4>1, <4>3
    <3>4. QED
          BY <3>2, <3>3
  <2>5. CASE wants[r] = "threat"
    <3>1. stage'[r] \in {"stopped", "scored"}
          BY <1>1, <2>5 DEF Deliver, AskThreat, RefuseEmpty, Score, TypeOK
    <3>2. got'[r]["threat"] = copy /\ got'[r]["business"] = got[r]["business"]
          BY <1>2, <2>5 DEF Contexts
    <3>3. copy.age <= StaleBound(r, "threat")'
          BY <1>1, <1>4, <2>2, <2>5, BoundTypes DEF Contexts
    <3>4. got[r]["business"] # None =>
             got[r]["business"].age <= StaleBound(r, "business")'
      <4>1. SUFFICES ASSUME got[r]["business"] # None
                     PROVE  got[r]["business"].age <= StaleBound(r, "business")'
            OBVIOUS
      <4>2. got[r]["business"].age <= DeliveryBound(r, "business")
                    + (IF stage[r] = "lookup" THEN 0 ELSE sent[r])
            BY <1>5, <2>5, <4>1 DEF IndInv, Given
      <4>3. got[r]["business"] \in Copies
            BY <1>1, <4>1 DEF TypeOK, Contexts
      <4>4. got[r]["business"].age \in Nat
            BY <4>3 DEF Copies
      <4>5. StaleBound(r, "business")' = DeliveryBound(r, "business") + Latency
            BY <1>1, <2>2, BoundTypes DEF Contexts
      <4>6. DeliveryBound(r, "business") \in Nat
            BY <1>1, BoundTypes DEF Contexts
      <4>7. QED
            BY <1>5, <4>2, <4>4, <4>5, <4>6
    <3>5. kind[r] = "pipeline" => got[r]["business"] # None
          BY <1>5, <2>5 DEF IndInv, Given
    <3>6. ScoredOnRecent'
          BY <1>4, <2>1, <3>1, <3>2, <3>3, <3>4, <3>5 DEF IndInv, ScoredOnRecent, Contexts
    <3>7. Given' /\ FailsForSourcesOnly'
      <4>1. Given'
            BY <2>1, <3>1 DEF IndInv, Given, Contexts, Running
      <4>2. r \notin refused' /\ cve'[r]
            BY <1>5, <2>5 DEF IndInv, Given, FailsForSourcesOnly, Running
      <4>3. FailsForSourcesOnly'
            BY <2>1, <3>1, <4>2 DEF IndInv, FailsForSourcesOnly
      <4>4. QED
            BY <4>1, <4>3
    <3>8. QED
          BY <3>6, <3>7
  <2>6. QED
        BY <1>5, <2>3, <2>4, <2>5 DEF Contexts
<1>7. QED
      BY <1>2, <1>3, <1>6

LEMMA BeginInv ==
    ASSUME IndInv, NEW r \in Runs, Begin(r)
    PROVE  IndInv'
<1>1. PICK k \in {"pipeline", "evaluate"}, hasCve \in BOOLEAN, s \in {"lookup", "rejected"} :
         /\ k = "evaluate" => hasCve /\ s = "lookup"
         /\ kind' = [kind EXCEPT ![r] = k]
         /\ cve' = [cve EXCEPT ![r] = hasCve]
         /\ wants' = [wants EXCEPT ![r] = IF k = "pipeline" THEN "business" ELSE "threat"]
         /\ stage' = [stage EXCEPT ![r] = s]
      BY DEF Begin
<1>2. /\ got' = [got EXCEPT ![r] = NoContexts]
      /\ hand' = [hand EXCEPT ![r] = None]
      /\ sent' = [sent EXCEPT ![r] = 0]
      /\ refused' = refused \ {r}
      /\ refused' = refused \ {r}
      /\ UNCHANGED <<backend, cache>>
      BY DEF Begin
<1>3. NoContexts \in [Contexts -> Copies \cup {None}]
      /\ NoContexts["business"] = None /\ NoContexts["threat"] = None
      BY DEF NoContexts, Contexts
<1>4. TypeOK'
      BY <1>1, <1>2, <1>3 DEF IndInv, TypeOK, Running, Contexts
<1>5. Hands' /\ Cached'
      BY <1>1, <1>2 DEF IndInv, TypeOK, Hands, Cached
<1>6. /\ kind'[r] = k /\ stage'[r] = s /\ got'[r] = NoContexts /\ cve'[r] = hasCve
      /\ wants'[r] = IF k = "pipeline" THEN "business" ELSE "threat"
      /\ \A t \in Runs : t # r =>
            /\ kind'[t] = kind[t] /\ stage'[t] = stage[t] /\ got'[t] = got[t]
            /\ cve'[t] = cve[t] /\ wants'[t] = wants[t] /\ sent'[t] = sent[t]
            /\ \A c \in Contexts : /\ DeliveryBound(t, c)' = DeliveryBound(t, c)
                                   /\ StaleBound(t, c)' = StaleBound(t, c)
      BY <1>1, <1>2 DEF IndInv, TypeOK, DeliveryBound, StaleBound
<1>7. Given'
      BY <1>1, <1>3, <1>6 DEF IndInv, Given, Contexts
<1>8. ScoredOnRecent' /\ FailsForSourcesOnly'
      BY <1>2, <1>3, <1>6 DEF IndInv, ScoredOnRecent, FailsForSourcesOnly
<1>9. QED
      BY <1>4, <1>5, <1>7, <1>8 DEF IndInv

LEMMA LookupInv ==
    ASSUME IndInv, NEW r \in Runs, Lookup(r)
    PROVE  IndInv'
<1>1. /\ stage[r] = "lookup"
      /\ UNCHANGED <<backend, cache, kind, cve, hand, refused>>
      /\ wants[r] \in Contexts
      /\ hand[r] = None
      BY DEF Lookup, IndInv, TypeOK, Hands
<1>2. CASE Hit(r) /\ Deliver(r, cache[wants[r]].copy) /\ UNCHANGED sent
  <2> DEFINE e == cache[wants[r]]
  <2>1. e \in Entries /\ kind[r] = "pipeline" /\ backend = "memory"
        BY <1>1, <1>2 DEF Hit, KeepsContexts, IndInv, TypeOK
  <2>2. e.left <= Ttl[wants[r]] /\ e.copy.age + e.left <= Ttl[wants[r]] + Latency
        BY <1>1, <2>1, EntryParts DEF IndInv, Cached
  <2>3. e.copy \in Copies /\ e.copy.age \in Nat /\ e.left \in Nat
        BY <2>1, EntryParts
  <2>4. DeliveryBound(r, wants[r]) = Ttl[wants[r]] + Latency /\ Ttl[wants[r]] \in Nat
        BY <1>1, <2>1 DEF DeliveryBound
  <2> HIDE DEF e
  <2>5. e.copy.age <= DeliveryBound(r, wants[r])
        BY <2>2, <2>3, <2>4
  <2>6. /\ wants' \in [Runs -> Contexts]
        /\ stage' \in [Runs -> Ended \cup Running]
        /\ got' \in [Runs -> [Contexts -> Copies \cup {None}]]
        /\ stage'[r] # "store"
        /\ \A s \in Runs : s # r => stage'[s] = stage[s]
        /\ Given' /\ ScoredOnRecent' /\ FailsForSourcesOnly'
        BY <1>1, <1>2, <2>3, <2>5, Delivered DEF e
  <2>7. TypeOK' /\ Hands' /\ Cached'
        BY <1>1, <1>2, <2>6 DEF IndInv, TypeOK, Hands, Cached
  <2>8. QED
        BY <2>6, <2>7 DEF IndInv
<1>3. CASE /\ stage' = [stage EXCEPT ![r] = "request"]
           /\ sent' = [sent EXCEPT ![r] = 0]
           /\ UNCHANGED <<wants, got>>
  <2>1. TypeOK' /\ Hands' /\ Cached'
        BY <1>1, <1>3 DEF IndInv, TypeOK, Running, Hands, Cached
  <2>2. /\ stage'[r] = "request" /\ sent'[r] = 0
        /\ \A s \in Runs : s # r => stage'[s] = stage[s] /\ sent'[s] = sent[s]
        /\ \A s \in Runs, c \in Contexts : /\ DeliveryBound(s, c)' = DeliveryBound(s, c)
                                           /\ StaleBound(s, c)' = StaleBound(s, c)
        BY <1>1, <1>3 DEF IndInv, TypeOK, DeliveryBound, StaleBound
  <2>3. Given'
        BY <1>1, <1>3, <2>2 DEF IndInv, Given, Running, Contexts
  <2>4. ScoredOnRecent' /\ FailsForSourcesOnly'
        BY <1>1, <1>3, <2>2 DEF IndInv, ScoredOnRecent, FailsForSourcesOnly
  <2>5. QED
        BY <2>1, <2>3, <2>4 DEF IndInv
<1>4. QED
      BY <1>2, <1>3 DEF Lookup

LEMMA AnswerInv ==
    ASSUME IndInv, NEW r \in Runs, SourceAnswers(r)
    PROVE  IndInv'
<1>1. /\ stage[r] = "request"
      /\ stage' = [stage EXCEPT ![r] = "store"]
      /\ hand' = [hand EXCEPT ![r] = FreshCopy]
      /\ UNCHANGED <<backend, cache, kind, cve, wants, sent, got, refused>>
      BY DEF SourceAnswers
<1>2. TypeOK'
      BY <1>1, FreshIsCopy DEF IndInv, TypeOK, Running
<1>3. Hands' /\ Cached'
      BY <1>1, FreshIsCopy DEF IndInv, TypeOK, Hands, Cached
<1>4. /\ stage'[r] = "store"
      /\ \A s \in Runs : s # r => stage'[s] = stage[s]
      /\ \A s \in Runs, c \in Contexts : /\ DeliveryBound(s, c)' = DeliveryBound(s, c)
                                         /\ StaleBound(s, c)' = StaleBound(s, c)
      BY <1>1 DEF IndInv, TypeOK, DeliveryBound, StaleBound
<1>5. Given'
      BY <1>1, <1>4 DEF IndInv, Given, Running, Contexts
<1>6. ScoredOnRecent' /\ FailsForSourcesOnly'
      BY <1>1, <1>4 DEF IndInv, ScoredOnRecent, FailsForSourcesOnly
<1>7. QED
      BY <1>2, <1>3, <1>5, <1>6 DEF IndInv

LEMMA FailsInv ==
    ASSUME IndInv, NEW r \in Runs, SourceFails(r)
    PROVE  IndInv'
<1>1. /\ stage[r] = "request"
      /\ stage' = [stage EXCEPT ![r] = "failed"]
      /\ refused' = refused \cup {r}
      /\ UNCHANGED <<backend, cache, kind, cve, wants, sent, hand, got>>
      BY DEF SourceFails
<1>2. TypeOK' /\ Hands' /\ Cached'
      BY <1>1 DEF IndInv, TypeOK, Hands, Cached
<1>3. /\ stage'[r] = "failed"
      /\ \A s \in Runs : s # r => stage'[s] = stage[s]
      /\ \A s \in Runs, c \in Contexts : /\ DeliveryBound(s, c)' = DeliveryBound(s, c)
                                         /\ StaleBound(s, c)' = StaleBound(s, c)
      BY <1>1 DEF IndInv, TypeOK, DeliveryBound, StaleBound
<1>4. Given'
      BY <1>1, <1>3 DEF IndInv, Given, Running, Contexts
<1>5. ScoredOnRecent' /\ FailsForSourcesOnly'
      BY <1>1, <1>3 DEF IndInv, ScoredOnRecent, FailsForSourcesOnly
<1>6. QED
      BY <1>2, <1>4, <1>5 DEF IndInv

LEMMA StoreInv ==
    ASSUME IndInv, NEW r \in Runs, Store(r)
    PROVE  IndInv'
<1>1. /\ stage[r] = "store"
      /\ Deliver(r, hand[r])
      /\ hand' = [hand EXCEPT ![r] = None]
      /\ UNCHANGED <<backend, kind, cve, sent, refused>>
      /\ wants[r] \in Contexts
      BY DEF Store, IndInv, TypeOK
<1>2. hand[r] \in Copies /\ hand[r].age <= sent[r] /\ sent[r] \in 0..Latency
      BY <1>1 DEF IndInv, Hands, TypeOK
<1>3. hand[r].age \in Nat
      BY <1>2 DEF Copies
<1>4. hand[r].age <= DeliveryBound(r, wants[r])
      BY <1>1, <1>2, <1>3, BoundTypes DEF IndInv
<1>5. /\ wants' \in [Runs -> Contexts]
      /\ stage' \in [Runs -> Ended \cup Running]
      /\ got' \in [Runs -> [Contexts -> Copies \cup {None}]]
      /\ stage'[r] # "store"
      /\ \A s \in Runs : s # r => stage'[s] = stage[s]
      /\ Given' /\ ScoredOnRecent' /\ FailsForSourcesOnly'
      BY <1>1, <1>2, <1>4, Delivered
<1>6. cache' \in [Contexts -> Entries \cup {None}] /\ Cached'
  <2> DEFINE e == [copy |-> hand[r], left |-> Ttl[wants[r]]]
  <2>1. /\ Ttl[wants[r]] \in Nat
        /\ e \in Entries
        /\ e.left = Ttl[wants[r]]
        /\ e.copy.age = hand[r].age
        BY <1>1, <1>2 DEF Entries
  <2>2. e.left <= Ttl[wants[r]] /\ e.copy.age + e.left <= Ttl[wants[r]] + Latency
        BY <1>2, <1>3, <2>1
  <2>3. CASE cache' = [cache EXCEPT ![wants[r]] = e]
    <3> HIDE DEF e
    <3>1. QED
          BY <1>1, <2>1, <2>2, <2>3 DEF IndInv, TypeOK, Cached
  <2>4. CASE cache' = cache
        BY <2>4 DEF IndInv, TypeOK, Cached
  <2>5. QED
        BY <2>3, <2>4 DEF Store
<1>7. TypeOK' /\ Hands'
      BY <1>1, <1>5, <1>6 DEF IndInv, TypeOK, Hands
<1>8. QED
      BY <1>5, <1>6, <1>7 DEF IndInv

LEMMA ChangeInv ==
    ASSUME IndInv, NEW c \in Contexts, SourceChanges(c)
    PROVE  IndInv'
<1>1. /\ UNCHANGED <<backend, kind, cve, stage, wants, sent, refused>>
      /\ hand' = [r \in Runs |-> IF wants[r] = c THEN Replaced(hand[r]) ELSE hand[r]]
      /\ got' = [r \in Runs |->
                    IF stage[r] \in Running
                    THEN [got[r] EXCEPT ![c] = Replaced(@)] ELSE got[r]]
      BY DEF SourceChanges
<1>2. /\ cache' \in [Contexts -> Entries \cup {None}]
      /\ Cached'
  <2>1. CASE cache[c] = None
        BY <2>1 DEF SourceChanges, IndInv, TypeOK, Cached
  <2>2. CASE cache[c] # None
    <3> DEFINE e == cache[c]
               f == [e EXCEPT !.copy = Replaced(@)]
    <3>1. e \in Entries
          BY <2>2 DEF IndInv, TypeOK
    <3>2. f \in Entries /\ f.left = e.left /\ f.copy.age = e.copy.age /\ f # None
          BY <3>1, EntryParts, CopyOps DEF Entries
    <3>3. cache' = [cache EXCEPT ![c] = f]
          BY <2>2 DEF SourceChanges
    <3>4. e.left <= Ttl[c] /\ e.copy.age + e.left <= Ttl[c] + Latency
          BY <2>2 DEF IndInv, Cached
    <3> HIDE DEF e, f
    <3>5. QED
          BY <3>2, <3>3, <3>4 DEF IndInv, TypeOK, Cached
  <2>3. QED
        BY <2>1, <2>2
<1>3. ASSUME NEW r \in Runs
      PROVE  /\ hand'[r] \in Copies \cup {None}
             /\ hand'[r] = None <=> hand[r] = None
             /\ hand[r] # None => hand'[r].age = hand[r].age
             /\ got'[r] \in [Contexts -> Copies \cup {None}]
             /\ \A d \in Contexts : /\ got'[r][d] = None <=> got[r][d] = None
                                    /\ got[r][d] # None => got'[r][d].age = got[r][d].age
             /\ \A d \in Contexts : /\ DeliveryBound(r, d)' = DeliveryBound(r, d)
                                    /\ StaleBound(r, d)' = StaleBound(r, d)
  <2>1. hand[r] \in Copies \cup {None} /\ got[r] \in [Contexts -> Copies \cup {None}]
        BY DEF IndInv, TypeOK
  <2>2. got'[r] = got[r] \/ got'[r] = [got[r] EXCEPT ![c] = Replaced(@)]
        BY <1>1
  <2>3. got[r][c] \in Copies \cup {None}
        BY <2>1
  <2>4. QED
        BY <1>1, <2>1, <2>2, <2>3, CopyOps DEF DeliveryBound, StaleBound
<1>4. TypeOK'
      BY <1>1, <1>2, <1>3 DEF IndInv, TypeOK
<1>5. Hands'
      BY <1>1, <1>3 DEF IndInv, Hands
<1>6. Given'
      BY <1>1, <1>3 DEF IndInv, Given, Contexts
<1>7. ScoredOnRecent' /\ FailsForSourcesOnly'
      BY <1>1, <1>3 DEF IndInv, ScoredOnRecent, FailsForSourcesOnly, Contexts
<1>8. QED
      BY <1>2, <1>4, <1>5, <1>6, <1>7 DEF IndInv

LEMMA TickInv ==
    ASSUME IndInv, Tick
    PROVE  IndInv'
<1>1. /\ UNCHANGED <<backend, kind, cve, stage, wants, refused>>
      /\ \A r \in Runs : stage[r] # "lookup"
      /\ sent' = [r \in Runs |->
                     IF stage[r] \in Running THEN sent[r] + 1 ELSE sent[r]]
      /\ \A r \in Runs : stage[r] \in Running => sent[r] < Latency
      BY DEF Tick, Running
<1>2. ASSUME NEW c \in Contexts
      PROVE  /\ cache'[c] \in Entries \cup {None}
             /\ cache'[c] # None =>
                   /\ cache'[c].left <= Ttl[c]
                   /\ cache'[c].copy.age + cache'[c].left <= Ttl[c] + Latency
  <2> DEFINE e == cache[c]
             f == [copy |-> Older(e.copy), left |-> e.left - 1]
  <2>1. CASE Expired(e)
        BY <2>1 DEF Tick
  <2>2. CASE ~Expired(e)
    <3>1. e \in Entries /\ e.left # 0 /\ cache'[c] = f
          BY <2>2 DEF Expired, Tick, IndInv, TypeOK
    <3>2. e.left <= Ttl[c] /\ e.copy.age + e.left <= Ttl[c] + Latency
          BY <3>1, EntryParts DEF IndInv, Cached
    <3>3. e.copy \in Copies /\ e.copy # None /\ e.copy.age \in Nat /\ e.left \in Nat
          BY <3>1, EntryParts
    <3>4. /\ Older(e.copy) \in Copies
          /\ Older(e.copy).age \in Nat
          /\ Older(e.copy).age <= e.copy.age + 1
          BY <3>3, CopyOps
    <3>5. e.left - 1 \in Nat
          BY <3>1, <3>3
    <3>6. f \in Entries /\ f.copy = Older(e.copy) /\ f.left = e.left - 1
          BY <3>4, <3>5 DEF Entries
    <3>7. Ttl[c] \in Nat
          OBVIOUS
    <3> HIDE DEF e, f
    <3>8. f.left <= Ttl[c] /\ f.copy.age + f.left <= Ttl[c] + Latency
          BY <3>2, <3>3, <3>4, <3>6, <3>7
    <3>9. QED
          BY <3>1, <3>6, <3>8
  <2>3. QED
        BY <2>1, <2>2
<1>3. ASSUME NEW r \in Runs
      PROVE  /\ sent'[r] \in 0..Latency
             /\ sent'[r] = sent[r] + (IF stage[r] \in Running THEN 1 ELSE 0)
             /\ hand'[r] \in Copies \cup {None}
             /\ hand'[r] = None <=> hand[r] = None
             /\ hand[r] # None => /\ hand[r].age \in Nat /\ hand'[r].age \in Nat
                                  /\ hand'[r].age <= hand[r].age + 1
  <2>1. hand[r] \in Copies \cup {None} /\ sent[r] \in 0..Latency
        BY DEF IndInv, TypeOK
  <2>2. hand'[r] = Older(hand[r])
        BY DEF Tick
  <2>3. QED
        BY <1>1, <2>1, <2>2, CopyOps
<1>4. ASSUME NEW r \in Runs
      PROVE  /\ got'[r] \in [Contexts -> Copies \cup {None}]
             /\ stage[r] \notin Running => got'[r] = got[r]
             /\ \A d \in Contexts : /\ got'[r][d] = None <=> got[r][d] = None
                                    /\ got[r][d] # None =>
                                          /\ got[r][d].age \in Nat /\ got'[r][d].age \in Nat
                                          /\ got'[r][d].age <= got[r][d].age + 1
  <2>1. got[r] \in [Contexts -> Copies \cup {None}]
        BY DEF IndInv, TypeOK
  <2>2. got'[r] = got[r] \/ got'[r] = [d \in Contexts |-> Older(got[r][d])]
        BY DEF Tick
  <2>3. stage[r] \notin Running => got'[r] = got[r]
        BY DEF Tick
  <2>4. QED
        BY <2>1, <2>2, <2>3, CopyOps
<1>5. TypeOK'
  <2>1. cache' = [c \in Contexts |-> cache'[c]]
        BY DEF Tick
  <2>2. /\ sent' = [r \in Runs |-> sent'[r]]
        /\ hand' = [r \in Runs |-> hand'[r]]
        /\ got' = [r \in Runs |-> got'[r]]
        BY DEF Tick
  <2>3. QED
        BY <1>1, <1>2, <1>3, <1>4, <2>1, <2>2 DEF IndInv, TypeOK
<1>6. Hands'
      BY <1>1, <1>3 DEF IndInv, TypeOK, Hands, Running
<1>7. Cached'
      BY <1>2 DEF Cached
<1>8. Given'
  <2>1. ASSUME NEW r \in Runs, stage[r] \in Running,
               kind[r] = "pipeline", wants[r] = "threat"
        PROVE  /\ got'[r]["business"] # None
               /\ got'[r]["business"].age <= DeliveryBound(r, "business")' + sent'[r]
    <3> DEFINE b == DeliveryBound(r, "business")
               m == got[r]["business"].age
               n == got'[r]["business"].age
    <3>1. /\ got[r]["business"] # None /\ m <= b + sent[r]
          BY <1>1, <2>1 DEF IndInv, Given
    <3>2. b \in Nat /\ b' = b
          BY <1>1, BoundTypes DEF IndInv, Contexts, DeliveryBound
    <3>3. /\ got'[r]["business"] # None
          /\ m \in Nat /\ n \in Nat /\ n <= m + 1
          BY <1>4, <3>1 DEF Contexts
    <3>4. sent'[r] = sent[r] + 1 /\ sent[r] \in Nat
          BY <1>1, <2>1 DEF IndInv, TypeOK
    <3> HIDE DEF b, m, n
    <3>5. n <= b + sent'[r]
          BY <3>1, <3>2, <3>3, <3>4
    <3>6. QED
          BY <3>2, <3>3, <3>5 DEF b, n
  <2>2. \A r \in Runs : /\ got'[r]["business"] = None <=> got[r]["business"] = None
                        /\ got'[r]["threat"] = None <=> got[r]["threat"] = None
        BY <1>4 DEF Contexts
  <2>3. QED
        BY <1>1, <2>1, <2>2 DEF IndInv, Given
<1>9. ScoredOnRecent' /\ FailsForSourcesOnly'
  <2>1. \A r \in Runs, c \in Contexts : StaleBound(r, c)' = StaleBound(r, c)
        BY <1>1 DEF StaleBound
  <2>2. \A r \in Runs : stage[r] \in {"scored", "stopped", "failed"} => got'[r] = got[r]
        BY <1>4 DEF Running
  <2>3. ScoredOnRecent'
        BY <1>1, <2>1, <2>2 DEF IndInv, ScoredOnRecent
  <2>4. \A r \in Runs : got'[r]["business"] = None <=> got[r]["business"] = None
        BY <1>4 DEF Contexts
  <2>5. FailsForSourcesOnly'
        BY <1>1, <2>4 DEF IndInv, FailsForSourcesOnly
  <2>6. QED
        BY <2>3, <2>5
<1>10. QED
      BY <1>5, <1>6, <1>7, <1>8, <1>9 DEF IndInv

LEMMA NextInv == IndInv /\ [Next]_vars => IndInv'
<1> SUFFICES ASSUME IndInv, [Next]_vars
             PROVE  IndInv'
    OBVIOUS
<1>1. ASSUME NEW r \in Runs, Begin(r) \/ Step(r)
      PROVE  IndInv'
      BY <1>1, BeginInv, LookupInv, AnswerInv, FailsInv, StoreInv DEF Step
<1>2. ASSUME NEW c \in Contexts, SourceChanges(c)
      PROVE  IndInv'
      BY <1>2, ChangeInv
<1>3. CASE Tick
      BY <1>3, TickInv
<1>4. CASE UNCHANGED vars
      BY <1>4 DEF vars, IndInv, TypeOK, Hands, Cached, Given, ScoredOnRecent,
                  FailsForSourcesOnly, DeliveryBound, StaleBound
<1>5. QED
      BY <1>1, <1>2, <1>3, <1>4 DEF Next

LEMMA Invariant == Spec => []IndInv
BY InitInv, NextInv, PTL DEF Spec

-----------------------------------------------------------------------------
(* The theorems                                                            *)

\* Type correctness of the cache and the runs.
THEOREM TypeCorrect == Spec => []TypeOK
<1>1. IndInv => TypeOK
      BY DEF IndInv
<1>2. QED
      BY Invariant, <1>1, PTL

\* Scores rest on contexts no older than the time to live and the latencies
\* allow, whatever fetches race for the cache.
THEOREM StalenessBounded == Spec => []ScoredOnRecent
<1>1. IndInv => ScoredOnRecent
      BY DEF IndInv
<1>2. QED
      BY Invariant, <1>1, PTL

\* Runs fail for an answer of a source they cannot use, or a missing CVE, and then
\* always; never for the cache, an outage of a feed or another run.
THEOREM OnlySourcesFail == Spec => []FailsForSourcesOnly
<1>1. IndInv => FailsForSourcesOnly
      BY DEF IndInv
<1>2. QED
      BY Invariant, <1>1, PTL

\* A run never goes back to a context it has looked up, requested or stored.
THEOREM RunsForward == Spec => RunsMoveForward
<1> DEFINE Forward ==
        \A r \in Runs : stage[r] \in Running /\ stage'[r] \in Running =>
            /\ Progress(r) <= Progress(r)' /\ Progress(r)' <= 6
            /\ Step(r) => Progress(r) < Progress(r)'
<1>1. ASSUME IndInv, [Next]_vars, NEW r \in Runs,
             stage[r] \in Running, stage'[r] \in Running
      PROVE  /\ Progress(r) <= Progress(r)' /\ Progress(r)' <= 6
             /\ Step(r) => Progress(r) < Progress(r)'
  <2>1. /\ stage \in [Runs -> Ended \cup Running]
        /\ wants \in [Runs -> Contexts]
        BY <1>1 DEF IndInv, TypeOK
  <2>2. Progress(r) \in 1..6 /\ Progress(r)' \in 1..6
        BY DEF Progress
  <2>3. CASE Step(r)
    <3>1. CASE stage[r] = "lookup" /\ stage'[r] = "request" /\ wants'[r] = wants[r]
          BY <3>1 DEF Progress
    <3>2. CASE stage[r] = "request" /\ stage'[r] = "store" /\ wants'[r] = wants[r]
          BY <3>2 DEF Progress
    <3>3. CASE wants[r] = "business" /\ wants'[r] = "threat" /\ stage'[r] = "lookup"
          BY <3>3 DEF Progress
    <3>4. ASSUME NEW copy, Deliver(r, copy)
          PROVE  wants[r] = "business" /\ wants'[r] = "threat" /\ stage'[r] = "lookup"
          BY <1>1, <2>1, <3>4 DEF Deliver, AskThreat, RefuseEmpty, Score, Running,
             Contexts
    <3>5. CASE Lookup(r)
          BY <2>1, <2>2, <3>1, <3>3, <3>4, <3>5 DEF Lookup
    <3>6. CASE SourceAnswers(r)
          BY <2>1, <2>2, <3>2, <3>6 DEF SourceAnswers
    <3>7. CASE SourceFails(r)
          BY <1>1, <2>1, <3>7 DEF SourceFails, Running
    <3>8. CASE Store(r)
          BY <2>2, <3>3, <3>4, <3>8 DEF Store
    <3>9. QED
          BY <2>3, <3>5, <3>6, <3>7, <3>8 DEF Step
  <2>4. CASE ~Step(r)
    <3>1. ~Begin(r)
          BY <1>1 DEF Begin
    <3>2. ASSUME NEW o \in Runs, o # r, Begin(o) \/ Step(o)
          PROVE  stage'[r] = stage[r] /\ wants'[r] = wants[r]
          BY <2>1, <3>2 DEF Begin, Step, Lookup, SourceAnswers, SourceFails, Store,
             Deliver, AskThreat, RefuseEmpty, Score
    <3>3. ASSUME Tick \/ UNCHANGED vars \/ \E c \in Contexts : SourceChanges(c)
          PROVE  stage'[r] = stage[r] /\ wants'[r] = wants[r]
          BY <3>3 DEF Tick, vars, SourceChanges
    <3>4. stage'[r] = stage[r] /\ wants'[r] = wants[r]
          BY <1>1, <2>4, <3>1, <3>2, <3>3 DEF Next
    <3>5. Progress(r)' = Progress(r)
          BY <3>4 DEF Progress
    <3>6. QED
          BY <2>2, <2>4, <3>5
  <2>5. QED
        BY <2>3, <2>4
<1>2. IndInv /\ [Next]_vars => [Forward]_vars
      BY <1>1
<1>3. QED
      BY Invariant, <1>2, PTL DEF Spec, RunsMoveForward
=============================================================================
