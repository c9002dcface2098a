------------------------- MODULE HealthCheckerProofs -------------------------
(***************************************************************************)
(* Proofs about the two watchers. First K8sHealthChecker, for any          *)
(* objects, callers, number of checks and changes of the cluster           *)
(* (HealthAssumption): how long the checker is blind, and what an answer   *)
(* in a settled cluster is worth. Then the machine manager, for any        *)
(* machines, observers and processes (ManagerAssumption): what an          *)
(* observer is told, and why.                                              *)
(***************************************************************************)
EXTENDS HealthChecker, MachineManager, Sequences, TLAPS

Condition == {"well", "sick", "gone"}

TypeOK ==
  /\ cluster \in [Object -> Condition] /\ indexer \in [Object -> Condition]
  /\ DOMAIN cache = {KeyOf[o] : o \in Object}
  /\ pc \in [Caller -> {"idle", "get", "nodes", "pods", "print", "answered"}]
  /\ visited \in [Caller -> SUBSET DOMAIN cache]
  /\ due \in [Caller -> SUBSET DOMAIN cache]
  /\ healthy \in [Caller -> BOOLEAN]
  /\ fresh \subseteq Place /\ settled \subseteq Caller
  /\ \A k \in BagToSet(checks) :
       /\ k.place \in Place
       /\ k.at = "write" => k.list \in [{o \in Object : PlaceOf[o] = k.place} -> Condition]

(* While no informer runs there is nothing to list, and so nothing to find *)
(* in the cache.                                                           *)
Blind ==
  /\ started \subseteq requested
  /\ started = {} =>
       /\ \A o \in Object : indexer[o] = "gone"
       /\ \A k \in BagToSet(checks) : k.at = "write" => Listed(k.list) = {}
       /\ \A n \in DOMAIN cache : cache[n] = "none"
       /\ \A c \in Caller : healthy[c]
       /\ crash # "map"

(* The entry of an object that the last check of its place has found as it *)
(* is: that of an object with its key, and one the same can be said of.    *)
Found(o)   == PlaceOf[o] \in fresh
Namesakes(o) == {p \in Object \ {o} : KeyOf[p] = KeyOf[o]}
CacheExplained ==
  /\ \A o \in Object : Found(o) /\ cluster[o] = "sick" =>
       \/ cache[KeyOf[o]] = "sick"
       \/ \E p \in Namesakes(o) : Found(p) => cluster[p] # "sick"
  /\ \A n \in DOMAIN cache : cache[n] = "sick" =>
       \E o \in Object : KeyOf[o] = n /\ (Found(o) => cluster[o] # "well")

(* As long as the cluster stays settled, no check can write anything else. *)
StaysSettled ==
  settled # {} =>
    /\ indexer = cluster /\ fresh = Place
    /\ \A k \in BagToSet(checks) : k.at = "write" => k.list = Of(cluster, k.place)

(* A key none of whose objects needs to be told of.                        *)
Excused(n) ==
  \A o \in Object : KeyOf[o] = n /\ cluster[o] = "sick" =>
    \E p \in Namesakes(o) : cluster[p] # "sick"

(* What a caller in a settled cluster has seen on its way.                 *)
Seen(c) ==
  /\ ~healthy[c] => \E o \in Object : cluster[o] # "well"
  /\ healthy[c] =>
       /\ pc[c] \in {"pods", "print", "answered"} => \A n \in Key("nodes") : Excused(n)
       /\ pc[c] \in {"print", "answered"} => \A n \in Key("pods") : Excused(n)
       /\ pc[c] \in {"nodes", "pods"} =>
            /\ \A n \in visited[c] : Excused(n)
            /\ \A n \in Key(pc[c]) : n \in due[c] \/ Excused(n)

HealthInv == TypeOK /\ Blind /\ CacheExplained /\ StaysSettled /\ \A c \in settled : Seen(c)

----------------------------------------------------------------------------
(* The checks under way after one has gone on, has ended, or some have     *)
(* begun.                                                                  *)
LEMMA GoneOn ==
  ASSUME NEW k, NEW next, Becomes(k, next)
  PROVE  BagToSet(checks') \subseteq BagToSet(checks) \cup {next}
BY DEF Becomes, BagToSet, SetToBag, (+), (-)

LEMMA Ended ==
  ASSUME NEW k, checks' = checks (-) SetToBag({k})
  PROVE  BagToSet(checks') \subseteq BagToSet(checks)
BY DEF BagToSet, SetToBag, (-)

LEMMA Begun ==
  ASSUME checks' = checks (+) NewChecks
  PROVE  \A k \in BagToSet(checks') :
           \/ k \in BagToSet(checks)
           \/ k.place \in Place /\ k.at # "write"
<1>1. BagToSet(checks') = BagToSet(checks) \cup BagToSet(NewChecks)
  BY DEF BagToSet, (+)
<1>2. \A k \in BagToSet(NewChecks) : k.place \in Place /\ k.at # "write"
  BY DEF NewChecks, BagToSet, SetToBag
<1>. QED BY <1>1, <1>2

LEMMA NoChecks == BagToSet(EmptyBag) = {}
BY DEF BagToSet, EmptyBag, SetToBag

(* What a step does to the checks.                                         *)
LEMMA ChecksOf ==
  ASSUME [Next]_vars
  PROVE  \A k \in BagToSet(checks') :
           \/ k \in BagToSet(checks)
           \/ k.place \in Place /\ k.at # "write"
           \/ \E c \in BagToSet(checks) : Lister(c) /\ k = [place |-> c.place, at |-> "list"]
           \/ \E c \in BagToSet(checks) :
                List(c) /\ k = [place |-> c.place, at |-> "write", list |-> Of(indexer, c.place)]
<1>1. CASE checks' = checks
  BY <1>1
<1>2. CASE checks' = EmptyBag
  BY <1>2, NoChecks
<1>3. CASE \E c \in Caller : UpdateCache(c)
  BY <1>3, Begun DEF UpdateCache
<1>4. ASSUME NEW c \in BagToSet(checks), Lister(c)
      PROVE  BagToSet(checks') \subseteq BagToSet(checks) \cup {[place |-> c.place, at |-> "list"]}
  BY <1>4, GoneOn DEF Lister
<1>5. ASSUME NEW c \in BagToSet(checks), List(c)
      PROVE  BagToSet(checks') \subseteq BagToSet(checks) \cup
               {[place |-> c.place, at |-> "write", list |-> Of(indexer, c.place)]}
  BY <1>5, GoneOn DEF List
<1>6. CASE \E c \in BagToSet(checks) : WriteCache(c)
  BY <1>6, Ended DEF WriteCache
<1>7. \/ checks' = checks \/ checks' = EmptyBag
      \/ \E c \in Caller : UpdateCache(c)
      \/ \E c \in BagToSet(checks) : Lister(c) \/ List(c) \/ WriteCache(c)
  BY DEF Next, vars, Environment, Change, Watch, StartInformers, StopInformers, Panic,
         Check, MapCrash, IsClusterHealthy, GetCachedHealthData, Look, LoopEnds, Answer
<1>. QED BY <1>1, <1>2, <1>3, <1>4, <1>5, <1>6, <1>7

LEMMA TypeStep == TypeOK /\ [Next]_vars => TypeOK'
<1>. SUFFICES ASSUME TypeOK, [Next]_vars PROVE TypeOK'
  OBVIOUS
<1>1. cluster' \in [Object -> Condition] /\ indexer' \in [Object -> Condition]
  <2>1. CASE Environment
    BY <2>1 DEF TypeOK, Condition, Environment, Change, Watch, informers
  <2>2. CASE StartInformers
    BY <2>2 DEF TypeOK, Condition, StartInformers
  <2>3. CASE ~Environment /\ ~StartInformers
    <3>1. cluster' = cluster /\ indexer' = indexer
      BY <2>3 DEF Next, vars, informers, StopInformers, Panic, Check, Lister, List,
                  WriteCache, MapCrash, IsClusterHealthy, UpdateCache,
                  GetCachedHealthData, Look, LoopEnds, Answer
    <3>. QED BY <3>1 DEF TypeOK
  <2>. QED BY <2>1, <2>2, <2>3
<1>2. DOMAIN cache' = {KeyOf[o] : o \in Object}
  BY DEF TypeOK, Next, vars, Environment, Change, Watch, StartInformers, StopInformers,
         Panic, Check, Lister, List, WriteCache, MapCrash, IsClusterHealthy, UpdateCache,
         GetCachedHealthData, Look, LoopEnds, Answer
<1>3. fresh' \subseteq Place /\ settled' \subseteq Caller
  BY DEF TypeOK, Next, vars, Environment, Change, Watch, StartInformers, StopInformers,
         Panic, Check, Lister, List, WriteCache, MapCrash, IsClusterHealthy, UpdateCache,
         GetCachedHealthData, Look, LoopEnds, Answer
<1>4. \A k \in BagToSet(checks') :
        /\ k.place \in Place
        /\ k.at = "write" => k.list \in [{o \in Object : PlaceOf[o] = k.place} -> Condition]
  <2>1. SUFFICES ASSUME NEW k \in BagToSet(checks')
                 PROVE  /\ k.place \in Place
                        /\ k.at = "write" =>
                             k.list \in [{o \in Object : PlaceOf[o] = k.place} -> Condition]
    OBVIOUS
  <2>2. ASSUME NEW c \in BagToSet(checks)
        PROVE  c.place \in Place /\
               Of(indexer, c.place) \in [{o \in Object : PlaceOf[o] = c.place} -> Condition]
    BY DEF TypeOK, Of
  <2>3. CASE k \in BagToSet(checks)
    BY <2>3 DEF TypeOK
  <2>4. CASE k.place \in Place /\ k.at # "write"
    BY <2>4
  <2>5. ASSUME NEW c \in BagToSet(checks), k = [place |-> c.place, at |-> "list"]
        PROVE  k.place \in Place /\ k.at # "write"
    BY <2>2, <2>5
  <2>6. ASSUME NEW c \in BagToSet(checks),
               k = [place |-> c.place, at |-> "write", list |-> Of(indexer, c.place)]
        PROVE  /\ k.place \in Place
               /\ k.list \in [{o \in Object : PlaceOf[o] = k.place} -> Condition]
    BY <2>2, <2>6
  <2>. QED BY <2>3, <2>4, <2>5, <2>6, ChecksOf
<1>5. pc' \in [Caller -> {"idle", "get", "nodes", "pods", "print", "answered"}]
  <2>1. \/ pc' = pc \/ pc' = [c \in Caller |-> "idle"]
        \/ \E c \in Caller, at \in {"get", "nodes", "pods", "print", "answered"} :
             pc' = [pc EXCEPT ![c] = at]
    BY DEF Next, vars, reading, Environment, Change, Watch, StartInformers,
           StopInformers, Panic, Check, Lister, List, WriteCache, MapCrash,
           IsClusterHealthy, UpdateCache, GetCachedHealthData, Look, LoopEnds, Answer,
           Leave, Enter
  <2>. QED BY <2>1 DEF TypeOK
<1>6. healthy' \in [Caller -> BOOLEAN]
  <2>1. \/ healthy' = healthy \/ healthy' = [c \in Caller |-> TRUE]
        \/ \E c \in Caller, b \in BOOLEAN : healthy' = [healthy EXCEPT ![c] = b]
    BY DEF Next, vars, reading, Environment, Change, Watch, StartInformers,
           StopInformers, Panic, Check, Lister, List, WriteCache, MapCrash,
           IsClusterHealthy, UpdateCache, GetCachedHealthData, Look, LoopEnds, Answer
  <2>. QED BY <2>1 DEF TypeOK
<1>7. \A resource : Present(resource) \subseteq DOMAIN cache
  BY DEF TypeOK, Present, Key
<1>8. visited' \in [Caller -> SUBSET DOMAIN cache] /\ due' \in [Caller -> SUBSET DOMAIN cache]
  <2>1. \/ UNCHANGED <<visited, due>>
        \/ visited' = [c \in Caller |-> {}] /\ due' = [c \in Caller |-> {}]
        \/ \E c \in Caller, r \in {"nodes", "pods"} : Enter(c, r)
        \/ \E c \in Caller : /\ visited' = [visited EXCEPT ![c] = {}]
                             /\ due' = [due EXCEPT ![c] = {}]
        \/ \E c \in Caller, k \in DOMAIN cache :
             /\ visited' = [visited EXCEPT ![c] = @ \cup {k}]
             /\ due' = due
    BY DEF Next, vars, reading, Environment, Change, Watch, StartInformers,
           StopInformers, Panic, Check, Lister, List, WriteCache, MapCrash,
           IsClusterHealthy, UpdateCache, GetCachedHealthData, Look, LoopEnds, Answer,
           Leave
  <2>2. ASSUME NEW c \in Caller, NEW r \in {"nodes", "pods"}, Enter(c, r)
        PROVE  /\ visited' \in [Caller -> SUBSET DOMAIN cache]
               /\ due' \in [Caller -> SUBSET DOMAIN cache]
    BY <1>7, <2>2 DEF Enter, TypeOK
  <2>. QED BY <2>1, <2>2 DEF TypeOK
<1>9. DOMAIN cache' = DOMAIN cache
  BY <1>2 DEF TypeOK
<1>. QED BY <1>1, <1>2, <1>3, <1>4, <1>5, <1>6, <1>8, <1>9 DEF TypeOK

(* An informer that does not run knows of nothing, so a check writes       *)
(* nothing, and a reader finds nothing.                                    *)
LEMMA BlindStep == TypeOK /\ Blind /\ [Next]_vars => Blind'
<1>. SUFFICES ASSUME TypeOK, Blind, [Next]_vars PROVE Blind'
  OBVIOUS
<1>1. started' \subseteq requested'
  BY DEF Blind, Next, vars, informers, Environment, Change, Watch, StartInformers,
         StopInformers, Panic, Check, Lister, List, WriteCache, MapCrash,
         IsClusterHealthy, UpdateCache, GetCachedHealthData, Look, LoopEnds, Answer
<1>. SUFFICES ASSUME started' = {}
              PROVE  /\ \A o \in Object : indexer'[o] = "gone"
                     /\ \A k \in BagToSet(checks') : k.at = "write" => Listed(k.list) = {}
                     /\ \A n \in DOMAIN cache' : cache'[n] = "none"
                     /\ \A c \in Caller : healthy'[c]
                     /\ crash' # "map"
  BY <1>1 DEF Blind
<1>2. started = {} /\ ~StartInformers
  BY DEF Blind, Next, vars, informers, Environment, Change, Watch, StartInformers,
         StopInformers, Panic, Check, Lister, List, WriteCache, MapCrash,
         IsClusterHealthy, UpdateCache, GetCachedHealthData, Look, LoopEnds, Answer
<1>3. /\ \A o \in Object : indexer[o] = "gone"
      /\ \A k \in BagToSet(checks) : k.at = "write" => Listed(k.list) = {}
      /\ \A n \in DOMAIN cache : cache[n] = "none"
      /\ \A c \in Caller : healthy[c]
      /\ crash # "map"
  BY <1>2 DEF Blind
<1>4. indexer' = indexer
  BY <1>2 DEF Next, vars, informers, Environment, Change, Watch, StopInformers, Panic,
         Check, Lister, List, WriteCache, MapCrash, IsClusterHealthy, UpdateCache,
         GetCachedHealthData, Look, LoopEnds, Answer
<1>5. \A q : Listed(Of(indexer, q)) = {}
  BY <1>3 DEF Of, Listed
<1>6. ASSUME NEW k \in BagToSet(checks'), k.at = "write"
      PROVE  Listed(k.list) = {}
  <2>1. CASE k \in BagToSet(checks)
    BY <2>1, <1>3, <1>6
  <2>2. ASSUME NEW c \in BagToSet(checks), k = [place |-> c.place, at |-> "list"]
        PROVE  FALSE
    BY <2>2, <1>6
  <2>3. ASSUME NEW c \in BagToSet(checks),
               k = [place |-> c.place, at |-> "write", list |-> Of(indexer, c.place)]
        PROVE  Listed(k.list) = {}
    BY <2>3, <1>5
  <2>. QED BY <2>1, <2>2, <2>3, <1>6, ChecksOf
<1>7. \A n \in DOMAIN cache' : cache'[n] = "none"
  <2>1. ASSUME NEW k \in BagToSet(checks), WriteCache(k)
        PROVE  \A n \in DOMAIN cache' : cache'[n] = "none"
    BY <2>1, <1>3 DEF WriteCache
  <2>2. cache' = cache \/ \E k \in BagToSet(checks) : WriteCache(k)
    BY DEF Next, vars, Environment, Change, Watch, StartInformers, StopInformers, Panic,
           Check, Lister, List, MapCrash, IsClusterHealthy, UpdateCache,
           GetCachedHealthData, Look, LoopEnds, Answer
  <2>. QED BY <2>1, <2>2, <1>3
<1>8. \A c \in Caller, k \in DOMAIN cache : ~Look(c, k)
  BY <1>3 DEF Look, Present
<1>9. \A c \in Caller : healthy'[c]
  <2>1. \/ healthy' = healthy \/ healthy' = [c \in Caller |-> TRUE]
        \/ \E c \in Caller : healthy' = [healthy EXCEPT ![c] = TRUE]
    BY <1>8 DEF Next, vars, reading, Environment, Change, Watch, StartInformers,
           StopInformers, Panic, Check, Lister, List, WriteCache, MapCrash,
           IsClusterHealthy, UpdateCache, GetCachedHealthData, LoopEnds, Answer
  <2>. QED BY <2>1, <1>3 DEF TypeOK
<1>10. crash' # "map"
  <2>1. \A k \in BagToSet(checks) : ~MapCrash(k)
    BY <1>3 DEF MapCrash
  <2>. QED
    BY <2>1, <1>3 DEF Next, vars, Environment, Change, Watch, StartInformers,
       StopInformers, Panic, Check, Lister, List, WriteCache, IsClusterHealthy,
       UpdateCache, GetCachedHealthData, Look, LoopEnds, Answer
<1>. QED BY <1>3, <1>4, <1>6, <1>7, <1>9, <1>10

(* A check that finds its place as it is leaves no entry there that is not *)
(* explained; one that does not, makes no claim of it.                     *)
LEMMA WriteExplains ==
  ASSUME TypeOK, CacheExplained, NEW k \in BagToSet(checks), WriteCache(k)
  PROVE  CacheExplained'
<1>. DEFINE L == Listed(k.list)
            Ch(n) == CHOOSE o \in L : KeyOf[o] = n
            Covered(n) == \E o \in L : KeyOf[o] = n
<1>1. /\ k.list \in [{o \in Object : PlaceOf[o] = k.place} -> Condition]
      /\ k.place \in Place
  BY DEF TypeOK, WriteCache
<1>2. \A o \in L : o \in Object /\ PlaceOf[o] = k.place
  BY <1>1 DEF Listed
<1>3. \A n : Covered(n) => Ch(n) \in L /\ KeyOf[Ch(n)] = n
  OBVIOUS
<1>4. /\ DOMAIN cache' = DOMAIN cache
      /\ \A n \in DOMAIN cache : cache'[n] = IF Covered(n) THEN k.list[Ch(n)] ELSE cache[n]
      /\ cluster' = cluster
  BY DEF WriteCache
<1>5. \A o \in Object : KeyOf[o] \in DOMAIN cache
  BY DEF TypeOK
<1>. HIDE DEF L, Ch, Covered
<1>6. CASE k.list = Of(cluster, k.place)
  <2>1. fresh' = fresh \cup {k.place}
    BY <1>6 DEF WriteCache
  <2>2. \A o \in Object : PlaceOf[o] = k.place /\ cluster[o] # "gone" => o \in L
    BY <1>6 DEF Of, Listed, L
  <2>3. \A o \in L : k.list[o] = cluster[o]
    BY <1>2, <1>6 DEF Of
  <2>4. \A o \in Object : PlaceOf[o] = k.place /\ cluster[o] # "gone" => Covered(KeyOf[o])
    BY <2>2 DEF Covered
  <2>5. ASSUME NEW o \in Object, Found(o)', cluster[o] = "sick"
        PROVE  \/ cache'[KeyOf[o]] = "sick"
               \/ \E p \in Namesakes(o) : Found(p)' => cluster[p] # "sick"
    <3>1. CASE Covered(KeyOf[o])
      <4>1. cache'[KeyOf[o]] = cluster[Ch(KeyOf[o])]
        BY <3>1, <1>3, <1>4, <1>5, <2>3
      <4>2. CASE cluster[Ch(KeyOf[o])] = "sick"
        BY <4>1, <4>2
      <4>3. CASE cluster[Ch(KeyOf[o])] # "sick"
        <5>1. Ch(KeyOf[o]) \in Namesakes(o)
          BY <4>3, <2>5, <3>1, <1>2, <1>3 DEF Namesakes
        <5>. QED BY <5>1, <4>3
      <4>. QED BY <4>2, <4>3
    <3>2. CASE ~Covered(KeyOf[o])
      <4>1. Found(o) /\ cache'[KeyOf[o]] = cache[KeyOf[o]]
        BY <3>2, <2>1, <2>4, <2>5, <1>4, <1>5 DEF Found
      <4>2. \A p \in Namesakes(o) : Found(p)' /\ cluster[p] = "sick" => Found(p)
        BY <3>2, <2>1, <2>4 DEF Found, Namesakes
      <4>. QED BY <4>1, <4>2, <2>5 DEF CacheExplained
    <3>. QED BY <3>1, <3>2
  <2>6. ASSUME NEW n \in DOMAIN cache, cache'[n] = "sick"
        PROVE  \E o \in Object : KeyOf[o] = n /\ (Found(o)' => cluster[o] # "well")
    <3>1. CASE Covered(n)
      <4>1. Ch(n) \in Object /\ KeyOf[Ch(n)] = n /\ cluster[Ch(n)] = "sick"
        BY <3>1, <2>3, <2>6, <1>2, <1>3, <1>4
      <4>. QED BY <4>1
    <3>2. CASE ~Covered(n)
      <4>1. PICK o \in Object : KeyOf[o] = n /\ (Found(o) => cluster[o] # "well")
        BY <3>2, <2>6, <1>4 DEF CacheExplained
      <4>2. Found(o)' => cluster[o] # "well"
        BY <3>2, <4>1, <2>1, <2>4 DEF Found
      <4>. QED BY <4>1, <4>2
    <3>. QED BY <3>1, <3>2
  <2>. QED BY <2>5, <2>6, <1>4 DEF CacheExplained, Namesakes
<1>7. CASE k.list # Of(cluster, k.place)
  <2>1. fresh' = fresh \ {k.place}
    BY <1>7 DEF WriteCache
  <2>2. \A o : Found(o)' => Found(o) /\ PlaceOf[o] # k.place
    BY <2>1 DEF Found
  <2>3. ASSUME NEW o \in Object, Found(o)', cluster[o] = "sick"
        PROVE  \/ cache'[KeyOf[o]] = "sick"
               \/ \E p \in Namesakes(o) : Found(p)' => cluster[p] # "sick"
    <3>1. CASE Covered(KeyOf[o])
      <4>1. Ch(KeyOf[o]) \in Namesakes(o) /\ ~Found(Ch(KeyOf[o]))'
        BY <3>1, <2>1, <2>2, <2>3, <1>2, <1>3 DEF Namesakes, Found
      <4>. QED BY <4>1
    <3>2. CASE ~Covered(KeyOf[o])
      BY <3>2, <2>2, <2>3, <1>4, <1>5 DEF CacheExplained
    <3>. QED BY <3>1, <3>2
  <2>4. ASSUME NEW n \in DOMAIN cache, cache'[n] = "sick"
        PROVE  \E o \in Object : KeyOf[o] = n /\ (Found(o)' => cluster[o] # "well")
    <3>1. CASE Covered(n)
      <4>1. Ch(n) \in Object /\ KeyOf[Ch(n)] = n /\ ~Found(Ch(n))'
        BY <3>1, <2>1, <1>2, <1>3 DEF Found
      <4>. QED BY <4>1
    <3>2. CASE ~Covered(n)
      BY <3>2, <2>2, <2>4, <1>4 DEF CacheExplained
    <3>. QED BY <3>1, <3>2
  <2>. QED BY <2>3, <2>4, <1>4 DEF CacheExplained, Namesakes
<1>. QED BY <1>6, <1>7

LEMMA ExplainedStep == TypeOK /\ CacheExplained /\ [Next]_vars => CacheExplained'
<1>. SUFFICES ASSUME TypeOK, CacheExplained, [Next]_vars PROVE CacheExplained'
  OBVIOUS
<1>1. ASSUME NEW o \in Object, Change(o) PROVE CacheExplained'
  <2>1. PICK s : cluster' = [cluster EXCEPT ![o] = s]
    BY <1>1 DEF Change
  <2>2. \A p \in Object : Found(p)' => Found(p) /\ cluster'[p] = cluster[p]
    BY <1>1, <2>1 DEF Change, Found, TypeOK
  <2>3. cache' = cache
    BY <1>1 DEF Change
  <2>4. \A p : Namesakes(p) \subseteq Object
    BY DEF Namesakes
  <2>5. \A p \in Object : Found(p)' /\ cluster'[p] = "sick" =>
          \/ cache[KeyOf[p]] = "sick"
          \/ \E q \in Namesakes(p) : Found(q)' => cluster'[q] # "sick"
    BY <2>2, <2>4 DEF CacheExplained
  <2>6. \A n \in DOMAIN cache : cache[n] = "sick" =>
          \E p \in Object : KeyOf[p] = n /\ (Found(p)' => cluster'[p] # "well")
    BY <2>2 DEF CacheExplained
  <2>. QED BY <2>3, <2>5, <2>6 DEF CacheExplained, Namesakes
<1>2. CASE UNCHANGED <<cluster, cache, fresh>>
  BY <1>2 DEF CacheExplained, Found, Namesakes
<1>3. \/ UNCHANGED <<cluster, cache, fresh>> \/ \E o \in Object : Change(o)
      \/ \E k \in BagToSet(checks) : WriteCache(k)
  BY DEF Next, vars, Environment, Watch, StartInformers, StopInformers, Panic, Check,
         Lister, List, MapCrash, IsClusterHealthy, UpdateCache, GetCachedHealthData,
         Look, LoopEnds, Answer
<1>. QED BY <1>1, <1>2, <1>3, WriteExplains

(* In a settled cluster a check lists what is there, and writes it again.  *)
LEMMA SettledStep == TypeOK /\ StaysSettled /\ [Next]_vars => StaysSettled'
<1>. SUFFICES ASSUME TypeOK, StaysSettled, [Next]_vars, settled' # {}
              PROVE  /\ indexer' = cluster' /\ fresh' = Place
                     /\ \A k \in BagToSet(checks') :
                          k.at = "write" => k.list = Of(cluster', k.place)
  BY DEF StaysSettled, Of
<1>1. cluster' = cluster
  BY DEF Next, vars, informers, Environment, Change, Watch, StartInformers, StopInformers,
         Panic, Check, Lister, List, WriteCache, MapCrash, IsClusterHealthy, UpdateCache,
         GetCachedHealthData, Look, LoopEnds, Answer
<1>2. /\ indexer = cluster /\ fresh = Place
      /\ \A k \in BagToSet(checks) : k.at = "write" => k.list = Of(cluster, k.place)
  <2>1. ASSUME NEW c \in Caller, UpdateCache(c), settled = {}
        PROVE  Settled
    BY <2>1 DEF UpdateCache
  <2>2. settled' = settled \/ \E c \in Caller : UpdateCache(c)
    BY DEF Next, vars, Environment, Change, Watch, StartInformers, StopInformers, Panic,
           Check, Lister, List, WriteCache, MapCrash, IsClusterHealthy,
           GetCachedHealthData, Look, LoopEnds, Answer
  <2>3. CASE Settled
    BY <2>3, NoChecks DEF Settled
  <2>4. CASE settled # {}
    BY <2>4 DEF StaysSettled
  <2>. QED BY <2>1, <2>2, <2>3, <2>4
<1>3. indexer' = cluster
  <2>1. ASSUME NEW o \in Object, Watch(o) PROVE indexer' = cluster
    BY <2>1, <1>2 DEF Watch
  <2>2. CASE StartInformers
    BY <2>2, <1>2 DEF StartInformers, TypeOK
  <2>3. indexer' = indexer \/ StartInformers \/ \E o \in Object : Watch(o)
    BY DEF Next, vars, informers, Environment, Change, StopInformers, Panic, Check,
           Lister, List, WriteCache, MapCrash, IsClusterHealthy, UpdateCache,
           GetCachedHealthData, Look, LoopEnds, Answer
  <2>. QED BY <2>1, <2>2, <2>3, <1>2
<1>4. fresh' = Place
  <2>1. ASSUME NEW k \in BagToSet(checks), WriteCache(k) PROVE fresh' = Place
    <3>1. k.list = Of(cluster, k.place) /\ k.place \in Place
      BY <2>1, <1>2 DEF WriteCache, TypeOK
    <3>. QED BY <2>1, <3>1, <1>2 DEF WriteCache
  <2>2. \A o \in Object : ~Change(o)
    BY DEF Change
  <2>3. fresh' = fresh \/ \E k \in BagToSet(checks) : WriteCache(k)
    BY <2>2 DEF Next, vars, Environment, Watch, StartInformers, StopInformers, Panic,
       Check, Lister, List, MapCrash, IsClusterHealthy, UpdateCache,
       GetCachedHealthData, Look, LoopEnds, Answer
  <2>. QED BY <2>1, <2>3, <1>2
<1>5. ASSUME NEW k \in BagToSet(checks'), k.at = "write"
      PROVE  k.list = Of(cluster, k.place)
  <2>1. CASE k \in BagToSet(checks)
    BY <2>1, <1>2, <1>5
  <2>2. ASSUME NEW c \in BagToSet(checks), k = [place |-> c.place, at |-> "list"]
        PROVE  FALSE
    BY <2>2, <1>5
  <2>3. ASSUME NEW c \in BagToSet(checks),
               k = [place |-> c.place, at |-> "write", list |-> Of(indexer, c.place)]
        PROVE  k.list = Of(cluster, k.place)
    BY <2>3, <1>2
  <2>. QED BY <2>1, <2>2, <2>3, <1>5, ChecksOf
<1>. QED BY <1>1, <1>3, <1>4, <1>5

----------------------------------------------------------------------------
(* What an entry of the cache says of a settled cluster.                   *)
LEMMA Entries ==
  ASSUME TypeOK, StaysSettled, CacheExplained, settled # {}
  PROVE  /\ \A n \in DOMAIN cache : cache[n] # "sick" => Excused(n)
         /\ \A n \in DOMAIN cache : cache[n] = "sick" => \E o \in Object : cluster[o] # "well"
<1>1. \A o \in Object : Found(o)
  BY HealthAssumption DEF StaysSettled, Found
<1>2. \A o : Namesakes(o) \subseteq Object
  BY DEF Namesakes
<1>3. ASSUME NEW n \in DOMAIN cache, cache[n] # "sick",
             NEW o \in Object, KeyOf[o] = n, cluster[o] = "sick"
      PROVE  \E p \in Namesakes(o) : cluster[p] # "sick"
  BY <1>1, <1>2, <1>3 DEF CacheExplained
<1>. QED BY <1>1, <1>3 DEF CacheExplained, Excused

(* What a caller has seen stays true as long as the cluster stays as it is *)
(* and the caller where it is.                                             *)
LEMMA StaysSeen ==
  ASSUME NEW c, Seen(c), cluster' = cluster,
         pc'[c] = pc[c], visited'[c] = visited[c], due'[c] = due[c],
         healthy'[c] = healthy[c]
  PROVE  Seen(c)'
BY DEF Seen, Excused, Namesakes

(* One who comes to a map owes it a look at what is there.                 *)
LEMMA EntersSeen ==
  ASSUME TypeOK, StaysSettled, CacheExplained, NEW c \in settled, cluster' = cluster,
         NEW r \in {"nodes", "pods"}, Enter(c, r), healthy'[c] \in BOOLEAN,
         ~healthy'[c] => \E o \in Object : cluster[o] # "well",
         healthy'[c] /\ r = "pods" => \A n \in Key("nodes") : Excused(n)
  PROVE  Seen(c)'
<1>1. c \in Caller
  BY DEF TypeOK
<1>2. pc'[c] = r /\ visited'[c] = {} /\ due'[c] = Present(r)
  BY <1>1 DEF Enter, TypeOK
<1>3. Key(r) \subseteq DOMAIN cache
  BY DEF Key, TypeOK
<1>4. \A n \in Key(r) : n \in Present(r) \/ Excused(n)
  BY <1>3, Entries DEF Present
<1>5. \A n : Excused(n)' <=> Excused(n)
  BY DEF Excused, Namesakes
<1>. QED BY <1>2, <1>4, <1>5 DEF Seen

(* One who leaves a map has found something, or nothing there to tell of.  *)
LEMMA LeavesSeen ==
  ASSUME TypeOK, StaysSettled, CacheExplained, NEW c \in settled, cluster' = cluster,
         Leave(c), healthy'[c] \in BOOLEAN,
         ~healthy'[c] => \E o \in Object : cluster[o] # "well",
         healthy'[c] => \A n \in Key(pc[c]) : Excused(n),
         healthy'[c] /\ pc[c] = "pods" => \A n \in Key("nodes") : Excused(n)
  PROVE  Seen(c)'
<1>1. CASE pc[c] = "nodes" /\ Enter(c, "pods")
  BY <1>1, EntersSeen
<1>2. CASE pc[c] = "pods" /\ pc' = [pc EXCEPT ![c] = "print"]
  <2>1. pc'[c] = "print"
    BY <1>2 DEF TypeOK
  <2>2. \A n : Excused(n)' <=> Excused(n)
    BY DEF Excused, Namesakes
  <2>. QED BY <1>2, <2>1, <2>2 DEF Seen
<1>. QED BY <1>1, <1>2 DEF Leave

(* What a step of the caller itself adds to what it has seen.              *)
LEMMA CallerSees ==
  ASSUME TypeOK, StaysSettled, CacheExplained, NEW c \in settled, Seen(c),
         IsClusterHealthy(c)
  PROVE  Seen(c)'
<1>1. c \in Caller /\ healthy[c] \in BOOLEAN
  BY DEF TypeOK
<1>2. cluster' = cluster
  BY DEF IsClusterHealthy, UpdateCache, GetCachedHealthData, Look, LoopEnds, Answer
<1>3. \A n : Excused(n)' <=> Excused(n)
  BY <1>2 DEF Excused, Namesakes
<1>4. CASE UpdateCache(c)
  <2>1. pc'[c] = "get" /\ healthy'[c] = TRUE
    BY <1>1, <1>4 DEF UpdateCache, TypeOK
  <2>. QED BY <2>1 DEF Seen
<1>5. CASE GetCachedHealthData(c)
  BY <1>1, <1>2, <1>5, EntersSeen DEF GetCachedHealthData, Seen
<1>6. ASSUME NEW k \in DOMAIN cache, Look(c, k)
      PROVE  Seen(c)'
  <2>1. CASE cache[k] = "sick"
    <3>1. healthy'[c] = FALSE /\ Leave(c)
      BY <1>1, <1>6, <2>1 DEF Look, TypeOK
    <3>2. \E o \in Object : cluster[o] # "well"
      BY <2>1, Entries
    <3>. QED BY <1>2, <3>1, <3>2, LeavesSeen
  <2>2. CASE cache[k] # "sick"
    <3>1. /\ visited'[c] = visited[c] \cup {k}
          /\ UNCHANGED <<pc, due, healthy>>
      BY <1>1, <1>6, <2>2 DEF Look, TypeOK
    <3>2. Excused(k)
      BY <2>2, Entries
    <3>. QED BY <1>2, <1>3, <3>1, <3>2 DEF Seen
  <2>. QED BY <2>1, <2>2
<1>7. CASE LoopEnds(c)
  <2>1. healthy' = healthy /\ due[c] \subseteq visited[c] /\ Leave(c)
    BY <1>7 DEF LoopEnds
  <2>2. pc[c] \in {"nodes", "pods"}
    BY <2>1 DEF Leave
  <2>3. healthy[c] => \A n \in Key(pc[c]) : Excused(n)
    BY <2>1, <2>2 DEF Seen
  <2>. QED BY <1>1, <1>2, <2>1, <2>3, LeavesSeen DEF Seen
<1>8. CASE Answer(c)
  <2>1. pc[c] = "print" /\ pc'[c] = "answered" /\ healthy' = healthy
    BY <1>1, <1>8 DEF Answer, TypeOK
  <2>. QED BY <1>2, <1>3, <2>1 DEF Seen
<1>. QED BY <1>4, <1>5, <1>6, <1>7, <1>8 DEF IsClusterHealthy

(* A caller's step is no other caller's.                                   *)
LEMMA OthersApart ==
  ASSUME TypeOK, NEW c \in Caller, NEW d \in Caller \ {c}, IsClusterHealthy(d)
  PROVE  /\ pc'[c] = pc[c] /\ visited'[c] = visited[c] /\ due'[c] = due[c]
         /\ healthy'[c] = healthy[c] /\ cluster' = cluster
BY DEF TypeOK, IsClusterHealthy, UpdateCache, GetCachedHealthData, Look, LoopEnds, Answer,
       Leave, Enter

LEMMA SeenStep == HealthInv /\ [Next]_vars => \A c \in settled' : Seen(c)'
<1>. SUFFICES ASSUME HealthInv, [Next]_vars, NEW c \in settled' PROVE Seen(c)'
  OBVIOUS
<1>. USE DEF HealthInv
<1>1. c \in Caller
  BY TypeStep DEF TypeOK
<1>2. ASSUME NEW o \in Object, Change(o) PROVE FALSE
  BY <1>2 DEF Change
<1>3. CASE Panic("map") \/ Panic("close")
  <2>1. pc'[c] = "idle" /\ healthy'[c] = TRUE
    BY <1>1, <1>3 DEF Panic
  <2>. QED BY <2>1 DEF Seen
<1>4. CASE UNCHANGED <<cluster, pc, visited, due, healthy, settled>>
  BY <1>4, StaysSeen
<1>5. ASSUME NEW d \in Caller, IsClusterHealthy(d) PROVE Seen(c)'
  <2>1. CASE c \in settled /\ c = d
    BY <1>5, <2>1, CallerSees
  <2>2. CASE c \in settled /\ c # d
    BY <1>1, <1>5, <2>2, OthersApart, StaysSeen
  <2>3. CASE c \notin settled
    <3>1. UpdateCache(d) /\ c = d
      BY <1>5, <2>3 DEF IsClusterHealthy, UpdateCache, GetCachedHealthData, Look,
         LoopEnds, Answer
    <3>2. pc'[c] = "get" /\ healthy'[c] = TRUE
      BY <1>1, <3>1 DEF UpdateCache, TypeOK
    <3>. QED BY <3>2 DEF Seen
  <2>. QED BY <2>1, <2>2, <2>3
<1>6. \/ \E o \in Object : Change(o)
      \/ Panic("map") \/ Panic("close")
      \/ UNCHANGED <<cluster, pc, visited, due, healthy, settled>>
      \/ \E d \in Caller : IsClusterHealthy(d)
  BY DEF Next, vars, reading, Environment, Watch, StartInformers, StopInformers, Check,
         Lister, List, WriteCache, MapCrash
<1>. QED BY <1>2, <1>3, <1>4, <1>5, <1>6

LEMMA HealthInit == Init => HealthInv
<1>. SUFFICES ASSUME Init PROVE HealthInv
  OBVIOUS
<1>1. TypeOK
  BY HealthAssumption, NoChecks DEF Init, TypeOK, Condition
<1>2. Blind /\ CacheExplained /\ StaysSettled
  BY NoChecks DEF Init, Blind, CacheExplained, StaysSettled, Found
<1>3. settled = {}
  BY DEF Init
<1>. QED BY <1>1, <1>2, <1>3 DEF HealthInv

LEMMA HealthHolds == Spec => []HealthInv
<1>1. HealthInv /\ [Next]_vars => HealthInv'
  BY TypeStep, BlindStep, ExplainedStep, SettledStep, SeenStep DEF HealthInv
<1>. QED BY <1>1, HealthInit, PTL DEF Spec

(* Until StartInformers is called once more after a check, every answer of *)
(* IsClusterHealthy is yes, and no map is written while it is read.        *)
THEOREM BlindTillThen == Spec => []BlindUntilStartedAgain
<1>1. HealthInv => BlindUntilStartedAgain
  BY DEF HealthInv, Blind, BlindUntilStartedAgain
<1>. QED BY <1>1, HealthHolds, PTL

(* What IsClusterHealthy answers, once its checks have seen the cluster as *)
(* it is and it stays so, is right but for namesakes and stale entries.    *)
THEOREM AnswerInSettled == Spec => []SettledAnswerIsRight
<1>1. ASSUME HealthInv PROVE SettledAnswerIsRight
  <2>. SUFFICES ASSUME NEW c \in settled, pc[c] = "answered", healthy[c],
                       NEW o \in Object, cluster[o] = "sick"
                PROVE  \E p \in Object \ {o} : KeyOf[p] = KeyOf[o] /\ cluster[p] # "sick"
    BY <1>1 DEF SettledAnswerIsRight, HealthInv, Seen
  <2>1. KeyOf[o] \in Key("nodes") \/ KeyOf[o] \in Key("pods")
    BY DEF Key, Resource
  <2>2. Excused(KeyOf[o])
    BY <1>1, <2>1 DEF HealthInv, Seen
  <2>. QED BY <2>2 DEF Excused, Namesakes
<1>. QED BY <1>1, HealthHolds, PTL

----------------------------------------------------------------------------
(* Watching machines (pkg/utils/machine): any machines, observers and      *)
(* processes, any number of ticks, and lists that change at any time.      *)

(* The list of the observer that is being asked, as long as nothing has    *)
(* moved in it: what it subscribes to stands where it stood, not yet       *)
(* passed by the loop; nothing else is there unless the list grew.         *)
Here(o, m, j) ==
  /\ j \in 1..Len(array[o]) /\ array[o][j] = m
  /\ owner[o].op = "append" => j < Len(array[o])
  /\ handler.at = "scan" => handler.i <= j /\ j <= handler.length

ListAsItWas ==
  handler.at \in {"check", "scan"} /\ ~handler.moved =>
    LET o == handler.observer
        m == handler.machine
    IN  /\ owner[o].op # "remove"
        /\ handler.subscribed => \E j \in Nat : Here(o, m, j)
        /\ ~handler.grew =>
             /\ owner[o].op = "none"
             /\ ~handler.subscribed => \A j \in DOMAIN array[o] : array[o][j] # m

LengthTaken ==
  /\ handler.at = "check" => handler.length = 0 /\ handler.i = 1
  /\ handler.at = "scan" =>
       /\ handler.i <= handler.length
       /\ ~handler.moved /\ ~handler.grew => handler.length = Len(array[handler.observer])

ManagerInv == ManagerTypeOK /\ ListAsItWas /\ LengthTaken /\ VerdictIsFair

LEMMA HandlerKinds ==
  ASSUME ManagerTypeOK
  PROVE  /\ handler.at \in {"recv", "range", "check", "scan", "decided"}
         /\ handler.at = "range" => handler \in Ranging
         /\ handler.at \in {"check", "scan", "decided"} => handler \in Asked
BY DEF ManagerTypeOK, Idle, Ranging, Asked

LEMMA ManagerInitInv ==
  ASSUME ManagerInit PROVE ManagerInv
<1> USE DEF ManagerInit
<1>1. array \in [Observer -> Seq(ID \cup {0})]
  <2>1. Lists \subseteq Seq(ID \cup {0})
    BY ManagerAssumption
  <2> QED BY <2>1
<1>2. reachable \subseteq Machine
  OBVIOUS
<1>3. handler = Idle /\ handler.at = "recv"
  BY DEF Idle
<1>4. owner \in [Observer -> Doing]
  BY DEF Doing, NoOp
<1>5. ManagerTypeOK
  BY <1>1, <1>2, <1>3, <1>4 DEF ManagerTypeOK
<1>6. ListAsItWas /\ LengthTaken /\ VerdictIsFair
  BY <1>3 DEF ListAsItWas, LengthTaken, VerdictIsFair
<1> QED BY <1>5, <1>6 DEF ManagerInv

Told == {"working", "stopped", "failed"}

(* What has been heard and is known of the machines, but for the lists.    *)
HistoryOK ==
  /\ ticks \in Nat /\ churn \in Nat /\ running \subseteq Machine
  /\ reachable \subseteq Machine /\ late \subseteq Machine
  /\ heard \in [Machine -> {"nothing"} \cup Told]
  /\ changedAt \in [Machine -> Nat]
  /\ sample \subseteq Reading \cup Update

LEMMA HistoryTyped ==
  ASSUME ManagerTypeOK PROVE HistoryOK
BY DEF ManagerTypeOK, HistoryOK, Told

LEMMA HistoryKept ==
  ASSUME ManagerTypeOK, ManagerNext
  PROVE  HistoryOK'
<1> USE DEF Counted
<1>1. HistoryOK
  BY HistoryTyped
<1>2. CASE NewMachineManager \/ Registration \/ Subscription
  <2>1. UNCHANGED <<reachable, runs, running, changedAt, samples, heard>>
        /\ churn' \in Nat
    BY <1>1, <1>2
    DEF NewMachineManager, Registration, RegisterObserver, RemoveObserver,
        Subscription, SubscribeMachine, UnsubscribeMachine, Appended, Shortened,
        world, HistoryOK
  <2> QED BY <1>1, <2>1 DEF HistoryOK, samples, Machine
<1>3. CASE MachineChange
  <2>1. PICK m \in Machine : ConnectionLost(m) \/ ProcessChange(m)
    BY <1>3 DEF MachineChange
  <2>2. /\ UNCHANGED <<samples, heard>> /\ churn' \in Nat
        /\ changedAt' = [changedAt EXCEPT ![m] = ticks]
        /\ running' \subseteq Machine /\ reachable' \subseteq Machine
    BY <1>1, <2>1 DEF ConnectionLost, ProcessChange, HistoryOK
  <2>3. changedAt' \in [Machine -> Nat]
    BY <1>1, <2>2 DEF HistoryOK
  <2> QED BY <1>1, <2>2, <2>3 DEF HistoryOK, samples
<1>4. CASE Tick
  <2>1. /\ ticks' = ticks + 1 /\ late' = {s.machine : s \in sample}
        /\ sample' = sample \cup
             {[machine |-> m, tick |-> ticks', at |-> "read"] : m \in Machine}
        /\ UNCHANGED <<reachable, running, changedAt, heard, churn>>
    BY <1>4 DEF Tick, world
  <2>2. ticks' \in Nat
    BY <1>1, <2>1 DEF HistoryOK
  <2>3. \A m \in Machine : [machine |-> m, tick |-> ticks', at |-> "read"] \in Reading
    BY <2>2 DEF Reading
  <2>4. late' \subseteq Machine
    BY <1>1, <2>1 DEF HistoryOK, Reading, Update
  <2> QED BY <1>1, <2>1, <2>2, <2>3, <2>4 DEF HistoryOK
<1>5. ASSUME NEW s \in sample, UpdateMachineStatus(s) PROVE HistoryOK'
  <2>1. PICK status \in Told :
          sample' = (sample \ {s}) \cup
            {[machine |-> s.machine, tick |-> s.tick, at |-> "send", status |-> status]}
    BY <1>5 DEF UpdateMachineStatus, Told
  <2>2. /\ s \in Reading
        /\ UNCHANGED <<ticks, late, reachable, running, changedAt, heard, churn>>
    BY <1>1, <1>5 DEF UpdateMachineStatus, HistoryOK, Update, world
  <2>3. [machine |-> s.machine, tick |-> s.tick, at |-> "send", status |-> status]
          \in Update
    BY <2>2 DEF Reading, Update, Told
  <2> QED BY <1>1, <2>1, <2>2, <2>3 DEF HistoryOK
<1>6. ASSUME NEW s \in sample, Receive(s) PROVE HistoryOK'
  <2>1. s \in Update
    BY <1>1, <1>6 DEF Receive, HistoryOK, Reading
  <2>2. /\ sample' \subseteq sample /\ heard' = [heard EXCEPT ![s.machine] = s.status]
        /\ UNCHANGED <<ticks, late, reachable, running, changedAt, churn>>
    BY <1>6 DEF Receive, TakeUp, world
  <2>3. s.status \in Told
    BY <2>1 DEF Update, Told
  <2>4. heard' \in [Machine -> {"nothing"} \cup Told]
    BY <1>1, <2>2, <2>3 DEF HistoryOK
  <2> QED BY <1>1, <2>2, <2>4 DEF HistoryOK
<1>7. CASE handleUpdates
  <2>1. UNCHANGED <<world, samples, heard, churn>>
    BY <1>7 DEF handleUpdates, Visit, RangeEnds, CheckEmpty, ScanList, Updated
  <2> QED BY <1>1, <2>1 DEF HistoryOK, world, samples
<1> QED BY <1>2, <1>3, <1>4, <1>5, <1>6, <1>7 DEF ManagerNext, Sampling

(* The samples, and everything that leaves lists and handler alone.        *)
LEMMA SampleStep ==
  ASSUME ManagerInv, ManagerNext,
         \/ NewMachineManager \/ MachineChange \/ Registration
         \/ Tick \/ (\E s \in sample : UpdateMachineStatus(s))
  PROVE  ManagerInv'
<1> USE DEF ManagerInv
<1>1. UNCHANGED <<array, owner, handler>>
  BY DEF NewMachineManager, MachineChange, Registration,
         Tick, UpdateMachineStatus, ConnectionLost, ProcessChange,
         RegisterObserver, RemoveObserver, lists
<1>2. registered' \in [Machine -> SUBSET Observer] /\ runs' = runs
  <2>1. CASE Registration
    <3>1. PICK o \in Observer, m \in Machine :
            RegisterObserver(o, m) \/ RemoveObserver(o, m)
      BY <2>1 DEF Registration
    <3>2. registered' \in [Machine -> SUBSET Observer]
      <4>1. registered \in [Machine -> SUBSET Observer]
        BY DEF ManagerTypeOK
      <4>2. \E S \in SUBSET Observer : registered' = [registered EXCEPT ![m] = S]
        BY <3>1, <4>1 DEF RegisterObserver, RemoveObserver
      <4> QED BY <4>1, <4>2
    <3> QED BY <3>1, <3>2 DEF RegisterObserver, RemoveObserver, world
  <2>2. CASE ~Registration
    BY <2>2 DEF NewMachineManager, MachineChange, ConnectionLost, ProcessChange,
                Tick, UpdateMachineStatus, ManagerTypeOK, world
  <2> QED BY <2>1, <2>2
<1>3. ManagerTypeOK'
  <2>1. HistoryOK'
    BY HistoryKept
  <2> QED BY <1>1, <1>2, <2>1 DEF ManagerTypeOK, HistoryOK, Told
<1>4. ListAsItWas' /\ LengthTaken' /\ VerdictIsFair'
  BY <1>1 DEF ListAsItWas, Here, LengthTaken, VerdictIsFair
<1> QED BY <1>3, <1>4

(* What a step of handleUpdates leaves alone; and what is left to show    *)
(* then of the types.                                                      *)
LEMMA HandlerAlone ==
  ASSUME handleUpdates \/ \E s \in sample : Receive(s)
  PROVE  UNCHANGED <<registered, array, owner>>
BY DEF handleUpdates, Receive, Visit, RangeEnds, CheckEmpty, ScanList, Updated, lists

LEMMA HandlerKept ==
  ASSUME ManagerInv, ManagerNext, UNCHANGED <<registered, array, owner>>,
         handler' \in {Idle} \cup Ranging \cup Asked
  PROVE  ManagerTypeOK'
<1>1. HistoryOK'
  BY HistoryKept DEF ManagerInv
<1> QED BY <1>1 DEF ManagerInv, ManagerTypeOK, HistoryOK, Told

(* A decision, or the next round, of a loop that the handler is in.        *)
LEMMA Decides ==
  ASSUME ManagerTypeOK, handler.at \in {"check", "scan"}, NEW b \in BOOLEAN,
         Decide(b)
  PROVE  /\ handler' \in Asked /\ handler'.at = "decided" /\ handler'.notified = b
         /\ handler'.machine = handler.machine /\ handler'.observer = handler.observer
         /\ handler'.subscribed = handler.subscribed /\ handler'.length = handler.length
         /\ handler'.moved = handler.moved /\ handler'.grew = handler.grew
<1>1. handler \in Asked
  BY HandlerKinds
<1>2. handler' = [handler EXCEPT !.at = "decided", !.notified = b]
  BY DEF Decide
<1> QED BY <1>1, <1>2 DEF Asked

LEMMA RangeStep ==
  ASSUME ManagerInv, ManagerNext,
         \/ \E s \in sample : Receive(s)
         \/ \E o \in Observer : Visit(o)
         \/ RangeEnds \/ Updated
  PROVE  ManagerInv'
<1> USE DEF ManagerInv
<1>1. UNCHANGED <<registered, array, owner>>
  BY HandlerAlone DEF handleUpdates
<1>2. ASSUME handler'.at \in {"recv", "range"}
      PROVE  ListAsItWas' /\ LengthTaken' /\ VerdictIsFair'
  BY <1>2 DEF ListAsItWas, LengthTaken, VerdictIsFair
<1>3. ASSUME NEW s \in sample, Receive(s) PROVE ManagerInv'
  <2>1. s \in Update
    <3>1. s.at = "send" /\ s \in Reading \cup Update
      BY <1>3 DEF Receive, ManagerTypeOK
    <3> QED BY <3>1 DEF Reading
  <2>2. handler' = [at |-> "range", machine |-> s.machine, visited |-> {},
                    due |-> registered[s.machine]]
    BY <1>3 DEF Receive, TakeUp
  <2>3. s.machine \in Machine /\ registered[s.machine] \in SUBSET Observer
    BY <2>1 DEF Update, ManagerTypeOK
  <2>4. handler' \in Ranging /\ handler'.at = "range"
    BY <2>1, <2>2, <2>3 DEF Ranging
  <2> QED BY <1>1, <1>2, <2>1, <2>4, HandlerKept
<1>4. CASE RangeEnds
  <2>1. handler' \in {Idle} /\ handler'.at = "recv"
    BY <1>4 DEF RangeEnds, Idle
  <2> QED BY <1>1, <1>2, <2>1, HandlerKept
<1>5. CASE Updated
  <2>1. handler \in Asked
    BY <1>5, HandlerKinds DEF Updated
  <2>2. handler' = [at |-> "range", machine |-> handler.machine, due |-> handler.due,
                    visited |-> handler.visited]
    BY <1>5 DEF Updated
  <2>3. handler' \in Ranging /\ handler'.at = "range" /\ handler'.machine = handler.machine
    BY <2>1, <2>2 DEF Ranging, Asked
  <2> QED BY <1>1, <1>2, <2>1, <2>3, HandlerKept
<1>6. ASSUME NEW o \in Observer, Visit(o) PROVE ManagerInv'
  <2>1. handler \in Ranging
    BY <1>6, HandlerKinds DEF Visit
  <2> DEFINE m == handler.machine
  <2>2. handler' =
          [at |-> "check", machine |-> handler.machine, due |-> handler.due,
           visited |-> handler.visited \cup {o}, observer |-> o,
           subscribed |-> m \in Subscribed(o),
           grew |-> owner[o].op = "append", moved |-> owner[o].op = "remove",
           length |-> 0, i |-> 1, notified |-> FALSE]
    BY <1>6 DEF Visit
  <2> DEFINE told == m \in Subscribed(o)
             more == owner[o].op = "append"
             less == owner[o].op = "remove"
  <2>3. /\ handler'.at = "check" /\ handler'.machine = handler.machine
        /\ handler'.observer = o /\ handler'.length = 0 /\ handler'.i = 1
        /\ handler'.subscribed <=> told
        /\ handler'.grew <=> more
        /\ handler'.moved <=> less
    BY <2>2
  <2>4. handler' \in Asked
    <3>1. told \in BOOLEAN /\ more \in BOOLEAN /\ less \in BOOLEAN
      OBVIOUS
    <3>2. /\ handler.machine \in Machine /\ handler.due \in SUBSET Observer
          /\ handler.visited \cup {o} \in SUBSET Observer
      BY <2>1 DEF Ranging
    <3>3. handler' =
            [at |-> "check", machine |-> handler.machine, due |-> handler.due,
             visited |-> handler.visited \cup {o}, observer |-> o, subscribed |-> told,
             grew |-> more, moved |-> less, length |-> 0, i |-> 1, notified |-> FALSE]
      BY <2>2
    <3> HIDE DEF told, more, less
    <3> QED BY <3>1, <3>2, <3>3 DEF Asked
  <2>5. owner[o] \in Doing /\ array[o] \in Seq(ID \cup {0})
    BY DEF ManagerTypeOK
  <2>6. ASSUME ~less
        PROVE  /\ told => \E j \in Nat : j \in 1..Len(array[o]) /\ array[o][j] = m
                                         /\ (more => j < Len(array[o]))
               /\ ~more => owner[o].op = "none"
               /\ ~more /\ ~told => \A j \in DOMAIN array[o] : array[o][j] # m
    <3>1. CASE more
      <4>1. owner[o] # NoOp
        BY <3>1 DEF NoOp
      <4>2. told => m \in Range(Front(array[o]))
        BY <4>1 DEF Subscribed
      <4>3. Front(array[o]) = SubSeq(array[o], 1, Len(array[o]) - 1)
        BY DEF Front
      <4>4. ASSUME told
            PROVE \E j \in 1..(Len(array[o]) - 1) : array[o][j] = m
        <5>1. PICK j \in DOMAIN SubSeq(array[o], 1, Len(array[o]) - 1) :
                SubSeq(array[o], 1, Len(array[o]) - 1)[j] = m
          BY <4>2, <4>3, <4>4 DEF Range
        <5> QED BY <2>5, <5>1
      <4> QED BY <2>5, <3>1, <4>4
    <3>2. CASE ~more
      <4>1. owner[o] = NoOp /\ owner[o].op = "none"
        BY <2>5, <2>6, <3>2 DEF Doing, NoOp
      <4>2. told <=> \E j \in DOMAIN array[o] : array[o][j] = m
        BY <4>1 DEF Subscribed, Range
      <4>3. DOMAIN array[o] = 1..Len(array[o]) /\ Len(array[o]) \in Nat
        BY <2>5
      <4> QED BY <3>2, <4>1, <4>2, <4>3
    <3> QED BY <3>1, <3>2
  <2> HIDE DEF told, more, less
  <2>7. ListAsItWas'
    <3>1. CASE less
      BY <2>3, <3>1 DEF ListAsItWas
    <3>2. CASE ~less
      <4>1. owner'[o].op # "remove" /\ (owner'[o].op = "append" => more)
        BY <1>1, <3>2 DEF less, more
      <4>2. told => \E j \in Nat : Here(o, m, j)'
        BY <1>1, <2>3, <2>6, <3>2, <4>1 DEF Here
      <4> QED BY <1>1, <2>3, <2>6, <3>2, <4>1, <4>2 DEF ListAsItWas, Here
    <3> QED BY <3>1, <3>2
  <2>8. LengthTaken' /\ VerdictIsFair'
    BY <2>3 DEF LengthTaken, VerdictIsFair
  <2> QED BY <1>1, <2>1, <2>3, <2>4, <2>7, <2>8, HandlerKept
<1> QED BY <1>3, <1>4, <1>5, <1>6

(* The loop of shouldNotify.                                               *)
LEMMA LoopStep ==
  ASSUME ManagerInv, ManagerNext, CheckEmpty \/ ScanList
  PROVE  ManagerInv'
<1> USE DEF ManagerInv
<1>1. UNCHANGED <<registered, array, owner>>
  BY HandlerAlone DEF handleUpdates
<1> DEFINE o == handler.observer
           m == handler.machine
<1>2. handler.at \in {"check", "scan"} /\ handler \in Asked
  BY HandlerKinds DEF CheckEmpty, ScanList
<1>3. /\ o \in Observer /\ array[o] \in Seq(ID \cup {0})
      /\ handler.length \in Nat /\ handler.i \in Nat \ {0}
      /\ handler.moved \in BOOLEAN /\ handler.grew \in BOOLEAN /\ handler.subscribed \in BOOLEAN
  BY <1>2 DEF Asked, ManagerTypeOK
(* What the invariant says of the list.                                    *)
<1>4. ~handler.moved =>
        /\ handler.subscribed => \E j \in Nat : Here(o, m, j)
        /\ ~handler.grew /\ ~handler.subscribed => \A j \in DOMAIN array[o] : array[o][j] # m
  BY <1>2 DEF ListAsItWas
<1>5. ASSUME NEW b \in BOOLEAN, Decide(b),
             \/ handler.moved
             \/ b = (handler.subscribed \/ handler.length = 0)
             \/ handler.grew /\ ~handler.subscribed
      PROVE  ManagerInv'
  <2>1. /\ handler' \in Asked /\ handler'.at = "decided" /\ handler'.notified = b
        /\ handler'.machine = handler.machine
        /\ handler'.subscribed = handler.subscribed /\ handler'.length = handler.length
        /\ handler'.moved = handler.moved /\ handler'.grew = handler.grew
    BY <1>2, <1>5, Decides
  <2>2. ListAsItWas' /\ LengthTaken' /\ VerdictIsFair'
    BY <1>5, <2>1 DEF ListAsItWas, LengthTaken, VerdictIsFair
  <2> QED BY <1>1, <1>2, <2>1, <2>2, HandlerKept
<1>6. CASE CheckEmpty
  <2>1. handler.at = "check" /\ handler.length = 0 /\ handler.i = 1
    BY <1>6 DEF CheckEmpty, LengthTaken
  <2>2. CASE array[o] = <<>>
    <3>1. Decide(TRUE)
      BY <1>6, <2>2 DEF CheckEmpty
    <3> QED BY <1>3, <1>5, <2>1, <3>1
  <2>3. CASE array[o] # <<>>
    <3>1. handler' = [handler EXCEPT !.at = "scan", !.length = Len(array[o])]
      BY <1>6, <2>3 DEF CheckEmpty
    <3>2. Len(array[o]) \in Nat /\ Len(array[o]) >= 1
      BY <1>3, <2>3
    <3>3. /\ handler' \in Asked /\ handler'.at = "scan" /\ handler'.length = Len(array[o])
          /\ handler'.i = 1 /\ handler'.machine = handler.machine /\ handler'.observer = o
          /\ handler'.subscribed = handler.subscribed
          /\ handler'.moved = handler.moved /\ handler'.grew = handler.grew
      BY <1>2, <2>1, <3>1, <3>2 DEF Asked
    <3>4. ASSUME NEW j \in Nat, Here(o, m, j) PROVE Here(o, m, j)'
      BY <1>1, <3>3, <3>4 DEF Here
    <3>5. ListAsItWas'
      BY <1>1, <1>2, <1>4, <3>3, <3>4 DEF ListAsItWas
    <3>6. LengthTaken' /\ VerdictIsFair'
      BY <1>1, <3>2, <3>3 DEF LengthTaken, VerdictIsFair
    <3> QED BY <1>1, <1>2, <3>3, <3>5, <3>6, HandlerKept
  <2> QED BY <2>2, <2>3
<1>7. CASE ScanList
  <2>1. handler.at = "scan" /\ handler.i <= handler.length
    BY <1>7 DEF ScanList, LengthTaken
  <2>2. PICK x \in ElementAt(o, handler.i) :
          IF x = m THEN Decide(TRUE)
          ELSE IF handler.i = handler.length THEN Decide(FALSE)
          ELSE handler' = [handler EXCEPT !.i = handler.i + 1]
    BY <1>7 DEF ScanList
  <2>3. handler.i \in DOMAIN array[o] => x = array[o][handler.i]
    BY <2>2 DEF ElementAt
  <2>4. CASE x = m
    <3>1. Decide(TRUE)
      BY <2>2, <2>4
    <3>2. handler.moved \/ handler.subscribed \/ handler.grew
      <4> SUFFICES ASSUME ~handler.moved, ~handler.grew, ~handler.subscribed PROVE FALSE
        OBVIOUS
      <4>1. handler.length = Len(array[o])
        BY <2>1 DEF LengthTaken
      <4>2. handler.i \in DOMAIN array[o]
        BY <1>3, <2>1, <4>1
      <4> QED BY <1>4, <2>3, <2>4, <4>2
    <3> QED BY <1>3, <1>5, <3>1, <3>2
  <2>5. ASSUME x # m, NEW j \in Nat, Here(o, m, j)
        PROVE  handler.i + 1 <= j
    <3>1. j \in 1..Len(array[o]) /\ array[o][j] = m /\ handler.i <= j
      BY <2>1, <2>5 DEF Here
    <3>2. handler.i \in DOMAIN array[o]
      BY <1>3, <3>1
    <3>3. handler.i # j
      BY <2>3, <2>5, <3>1, <3>2
    <3> QED BY <1>3, <3>1, <3>3
  <2>6. CASE x # m /\ handler.i = handler.length
    <3>1. Decide(FALSE)
      BY <2>2, <2>6
    <3>2. handler.moved \/ ~handler.subscribed
      <4> SUFFICES ASSUME ~handler.moved, handler.subscribed PROVE FALSE
        OBVIOUS
      <4>1. PICK j \in Nat : Here(o, m, j)
        BY <1>4
      <4>2. handler.i + 1 <= j
        BY <2>5, <2>6, <4>1
      <4>3. j <= handler.length
        BY <2>1, <4>1 DEF Here
      <4> QED BY <1>3, <2>6, <4>2, <4>3
    <3>3. handler.length # 0
      BY <1>3, <2>6
    <3> QED BY <1>3, <1>5, <3>1, <3>2, <3>3
  <2>7. CASE x # m /\ handler.i # handler.length
    <3>1. handler' = [handler EXCEPT !.i = handler.i + 1]
      BY <2>2, <2>7
    <3>2. /\ handler' \in Asked /\ handler'.at = "scan" /\ handler'.length = handler.length
          /\ handler'.i = handler.i + 1 /\ handler'.machine = handler.machine
          /\ handler'.observer = o /\ handler'.subscribed = handler.subscribed
          /\ handler'.moved = handler.moved /\ handler'.grew = handler.grew
      BY <1>2, <2>1, <3>1 DEF Asked
    <3>3. ASSUME NEW j \in Nat, Here(o, m, j) PROVE Here(o, m, j)'
      <4>1. handler.i + 1 <= j
        BY <2>5, <2>7, <3>3
      <4> QED BY <1>1, <2>1, <3>2, <3>3, <4>1 DEF Here
    <3>4. ListAsItWas'
      BY <1>1, <1>2, <1>4, <3>2, <3>3 DEF ListAsItWas
    <3>5. LengthTaken' /\ VerdictIsFair'
      BY <1>1, <1>3, <2>1, <2>7, <3>2 DEF LengthTaken, VerdictIsFair
    <3> QED BY <1>1, <1>2, <3>2, <3>4, <3>5, HandlerKept
  <2> QED BY <2>4, <2>6, <2>7
<1> QED BY <1>6, <1>7

(* A sequence is one still when an element is replaced.                    *)
LEMMA Replacing ==
  ASSUME NEW S, NEW s \in Seq(S), NEW n, NEW x \in S
  PROVE  /\ [s EXCEPT ![n] = x] \in Seq(S)
         /\ Len([s EXCEPT ![n] = x]) = Len(s)
         /\ \A i \in 1..Len(s) : i # n => [s EXCEPT ![n] = x][i] = s[i]
<1>1. DOMAIN s = 1..Len(s) /\ Len(s) \in Nat /\ s \in [1..Len(s) -> S]
  OBVIOUS
<1>2. [s EXCEPT ![n] = x] \in [1..Len(s) -> S]
  BY <1>1
<1>3. [s EXCEPT ![n] = x] \in Seq(S)
  BY <1>1, <1>2
<1>4. Len([s EXCEPT ![n] = x]) = Len(s)
  BY <1>1, <1>2, <1>3
<1> QED BY <1>1, <1>3, <1>4

(* What the owner of a list does to it.                                    *)
LEMMA OwnerSteps ==
  ASSUME ManagerTypeOK, NEW o \in Observer,
         \/ \E id \in ID : SubscribeMachine(o, id) \/ UnsubscribeMachine(o, id)
         \/ Appended(o) \/ Shortened(o)
  PROVE  /\ registered' = registered
         /\ array' \in [Observer -> Seq(ID \cup {0})] /\ owner' \in [Observer -> Doing]
         /\ \A q \in Observer \ {o} : array'[q] = array[q] /\ owner'[q] = owner[q]
<1> DEFINE S == ID \cup {0}
<1>1. array[o] \in Seq(S) /\ owner[o] \in Doing
  BY DEF ManagerTypeOK
<1>2. ASSUME NEW list \in Seq(S), array' = [array EXCEPT ![o] = list],
             NEW doing \in Doing, owner' = [owner EXCEPT ![o] = doing],
             registered' = registered
      PROVE  /\ registered' = registered
             /\ array' \in [Observer -> Seq(S)] /\ owner' \in [Observer -> Doing]
             /\ \A q \in Observer \ {o} : array'[q] = array[q] /\ owner'[q] = owner[q]
  <2>1. array \in [Observer -> Seq(S)] /\ owner \in [Observer -> Doing]
    BY DEF ManagerTypeOK
  <2> HIDE DEF S
  <2> QED BY <1>2, <2>1
<1>3. NoOp \in Doing
  BY DEF Doing, NoOp
<1>4. ASSUME NEW id \in ID, SubscribeMachine(o, id)
      PROVE  /\ \E list \in Seq(S) : array' = [array EXCEPT ![o] = list]
             /\ \E doing \in Doing : owner' = [owner EXCEPT ![o] = doing]
             /\ registered' = registered
  <2>1. PICK x \in S : array' = [array EXCEPT ![o] = Append(array[o], x)]
    BY <1>4 DEF SubscribeMachine
  <2>2. Append(array[o], x) \in Seq(S)
    <3> HIDE DEF S
    <3> QED BY <1>1
  <2>3. [op |-> "append", id |-> id] \in Doing
    BY DEF Doing
  <2> QED BY <1>4, <2>1, <2>2, <2>3 DEF SubscribeMachine, world
<1>5. ASSUME NEW id \in ID, UnsubscribeMachine(o, id)
      PROVE  /\ \E list \in Seq(S) : array' = [array EXCEPT ![o] = list]
             /\ \E doing \in Doing : owner' = [owner EXCEPT ![o] = doing]
             /\ registered' = registered
  <2>1. PICK i \in DOMAIN array[o] :
          array' = [array EXCEPT ![o] = Append(RemoveAt(array[o], i),
                                               Last(array[o]))]
    BY <1>5 DEF UnsubscribeMachine
  <2>2. Append(RemoveAt(array[o], i), Last(array[o])) \in Seq(S)
    <3>1. i \in 1..Len(array[o]) /\ Len(array[o]) \in Nat
      BY <1>1, <2>1
    <3>2. Last(array[o]) \in S
      BY <1>1, <3>1 DEF Last
    <3>3. RemoveAt(array[o], i) \in Seq(S)
      <4>1. SubSeq(array[o], 1, i - 1) \in Seq(S)
        BY <1>1, <3>1
      <4>2. SubSeq(array[o], i + 1, Len(array[o])) \in Seq(S)
        BY <1>1, <3>1
      <4> HIDE DEF S
      <4> QED BY <4>1, <4>2 DEF RemoveAt
    <3> HIDE DEF S
    <3> QED BY <3>2, <3>3
  <2>3. [op |-> "remove", id |-> id] \in Doing
    BY DEF Doing
  <2> QED BY <1>5, <2>1, <2>2, <2>3 DEF UnsubscribeMachine, world
<1>6. ASSUME Appended(o)
      PROVE  /\ \E list \in Seq(S) : array' = [array EXCEPT ![o] = list]
             /\ \E doing \in Doing : owner' = [owner EXCEPT ![o] = doing]
             /\ registered' = registered
  <2> DEFINE list == [array[o] EXCEPT ![Len(array[o])] = owner[o].id]
  <2>1. array' = [array EXCEPT ![o] = list] /\ owner[o].op = "append"
    BY <1>6 DEF Appended
  <2>2. owner[o].id \in S
    BY <1>1, <2>1 DEF Doing
  <2>3. list \in Seq(S)
    <3> HIDE DEF S
    <3> QED BY <1>1, <2>2, Replacing
  <2> HIDE DEF list
  <2> QED BY <1>3, <1>6, <2>1, <2>3 DEF Appended, world
<1>7. ASSUME Shortened(o)
      PROVE  /\ \E list \in Seq(S) : array' = [array EXCEPT ![o] = list]
             /\ \E doing \in Doing : owner' = [owner EXCEPT ![o] = doing]
             /\ registered' = registered
  <2>1. array' = [array EXCEPT ![o] = Front(array[o])]
    BY <1>7 DEF Shortened
  <2>2. Front(array[o]) \in Seq(S)
    <3> HIDE DEF S
    <3> QED BY <1>1 DEF Front
  <2> QED BY <1>3, <1>7, <2>1, <2>2 DEF Shortened, world
<1> HIDE DEF S
<1>8. /\ \E list \in Seq(S) : array' = [array EXCEPT ![o] = list]
      /\ \E doing \in Doing : owner' = [owner EXCEPT ![o] = doing]
      /\ registered' = registered
  BY <1>4, <1>5, <1>6, <1>7
<1> QED BY <1>2, <1>8 DEF S

(* The lists change, under the loop or elsewhere.                          *)
LEMMA ListStep ==
  ASSUME ManagerInv, Subscription
  PROVE  ManagerInv'
<1> USE DEF ManagerInv
<1>1. PICK o \in Observer :
        \/ \E id \in ID : SubscribeMachine(o, id) \/ UnsubscribeMachine(o, id)
        \/ Appended(o) \/ Shortened(o)
  BY DEF Subscription
<1>2. /\ registered' = registered
      /\ array' \in [Observer -> Seq(ID \cup {0})] /\ owner' \in [Observer -> Doing]
      /\ \A q \in Observer \ {o} : array'[q] = array[q] /\ owner'[q] = owner[q]
      /\ array[o] \in Seq(ID \cup {0}) /\ owner[o] \in Doing
  BY <1>1, OwnerSteps DEF ManagerTypeOK
<1>3. handler.at \in {"check", "scan"} =>
        /\ handler \in Asked /\ handler.observer \in Observer
        /\ handler.machine \in Machine
  BY HandlerKinds DEF Asked
(* The handler as it is: the types and explanations.                       *)
<1>4. ASSUME handler' \in {Idle} \cup Ranging \cup Asked,
             handler'.at = handler.at
      PROVE  ManagerTypeOK'
  <2>1. HistoryOK'
    BY HistoryKept DEF ManagerNext
  <2> QED BY <1>2, <1>4, <2>1 DEF ManagerTypeOK, HistoryOK, Told
(* Nobody looks at this list.                                              *)
<1>5. CASE ~Deciding(o)
  <2>1. handler' = handler
    BY <1>1, <1>5 DEF SubscribeMachine, UnsubscribeMachine,
                      Appended, Shortened
  <2>2. handler.at \in {"check", "scan"} =>
          handler.observer \in Observer \ {o}
    BY <1>3, <1>5 DEF Deciding
  <2>3. handler.at \in {"check", "scan"} =>
          array'[handler.observer] = array[handler.observer]
          /\ owner'[handler.observer] = owner[handler.observer]
    BY <1>2, <2>2
  <2>4. ListAsItWas' /\ LengthTaken' /\ VerdictIsFair'
    BY <2>1, <2>3 DEF ListAsItWas, Here, LengthTaken, VerdictIsFair
  <2> QED BY <1>4, <2>1, <2>4 DEF ManagerTypeOK
<1>6. CASE Deciding(o)
  <2>1. /\ handler.at \in {"check", "scan"} /\ handler.observer = o /\ handler \in Asked
        /\ handler.moved \in BOOLEAN /\ handler.grew \in BOOLEAN
        /\ handler.i \in Nat /\ handler.length \in Nat
    BY <1>3, <1>6 DEF Deciding, Asked
  <2> DEFINE m == handler.machine
  <2>2. ASSUME NEW id \in ID, SubscribeMachine(o, id)
        PROVE  ManagerInv'
    <3>1. PICK x \in ID \cup {0} : array' = [array EXCEPT ![o] = Append(array[o], x)]
      BY <2>2 DEF SubscribeMachine
    <3>2. /\ owner[o].op = "none" /\ owner'[o].op = "append"
          /\ handler' = [handler EXCEPT !.grew = TRUE]
      BY <1>6, <2>2 DEF SubscribeMachine, NoOp, ManagerTypeOK
    <3>3. /\ handler' \in Asked /\ handler'.at = handler.at /\ handler'.machine = handler.machine
          /\ handler'.observer = o /\ handler'.subscribed = handler.subscribed
          /\ handler'.moved = handler.moved /\ handler'.grew = TRUE
          /\ handler'.i = handler.i /\ handler'.length = handler.length
      BY <2>1, <3>2 DEF Asked
    <3>4. /\ Len(array'[o]) = Len(array[o]) + 1 /\ Len(array[o]) \in Nat
          /\ \A j \in 1..Len(array[o]) : array'[o][j] = array[o][j]
      <4>1. array'[o] = Append(array[o], x)
        BY <3>1 DEF ManagerTypeOK
      <4> QED BY <1>2, <4>1
    <3>5. ASSUME NEW j \in Nat, Here(o, m, j) PROVE Here(o, m, j)'
      BY <3>3, <3>4, <3>5 DEF Here
    <3>6. ListAsItWas'
      BY <2>1, <3>2, <3>3, <3>5 DEF ListAsItWas
    <3>7. LengthTaken' /\ VerdictIsFair'
      BY <2>1, <3>3 DEF LengthTaken, VerdictIsFair
    <3> QED BY <1>4, <3>3, <3>6, <3>7
  <2>3. ASSUME NEW id \in ID, UnsubscribeMachine(o, id)
        PROVE  ManagerInv'
    <3>1. handler' = [handler EXCEPT !.moved = TRUE]
      BY <1>6, <2>3 DEF UnsubscribeMachine
    <3>2. /\ handler' \in Asked /\ handler'.at = handler.at /\ handler'.machine = handler.machine
          /\ handler'.moved = TRUE
          /\ handler'.i = handler.i /\ handler'.length = handler.length
      BY <2>1, <3>1 DEF Asked
    <3>3. ListAsItWas' /\ LengthTaken' /\ VerdictIsFair'
      BY <2>1, <3>2 DEF ListAsItWas, LengthTaken, VerdictIsFair
    <3> QED BY <1>4, <3>2, <3>3
  <2>4. CASE Appended(o)
    <3> DEFINE list == [array[o] EXCEPT ![Len(array[o])] = owner[o].id]
    <3>1. /\ owner[o].op = "append" /\ array' = [array EXCEPT ![o] = list]
          /\ owner' = [owner EXCEPT ![o] = NoOp] /\ handler' = handler
      BY <2>4 DEF Appended
    <3>2. owner'[o].op = "none" /\ array'[o] = list
      BY <3>1 DEF ManagerTypeOK, NoOp
    <3>3. owner[o].id \in ID \cup {0}
      BY <1>2, <3>1 DEF Doing
    <3>4. /\ Len(list) = Len(array[o])
          /\ \A j \in 1..Len(array[o]) : j # Len(array[o]) => list[j] = array[o][j]
      BY <1>2, <3>3, Replacing
    <3>5. Len(array[o]) \in Nat
      BY <1>2
    <3> HIDE DEF list
    <3>6. ASSUME NEW j \in Nat, Here(o, m, j) PROVE Here(o, m, j)'
      BY <3>1, <3>2, <3>4, <3>5, <3>6 DEF Here
    <3>7. ~handler.moved => handler.grew
      BY <2>1, <3>1 DEF ListAsItWas
    <3>8. ListAsItWas'
      BY <2>1, <3>1, <3>2, <3>6, <3>7 DEF ListAsItWas
    <3>9. LengthTaken' /\ VerdictIsFair'
      BY <2>1, <3>1, <3>7 DEF LengthTaken, VerdictIsFair
    <3> QED BY <1>4, <3>1, <3>8, <3>9 DEF ManagerTypeOK
  <2>5. CASE Shortened(o)
    <3>1. owner[o].op = "remove" /\ handler' = handler
      BY <2>5 DEF Shortened
    <3>2. handler.moved
      BY <2>1, <3>1 DEF ListAsItWas
    <3>3. ListAsItWas' /\ LengthTaken' /\ VerdictIsFair'
      BY <2>1, <3>1, <3>2 DEF ListAsItWas, LengthTaken, VerdictIsFair
    <3> QED BY <1>4, <3>1, <3>3 DEF ManagerTypeOK
  <2> QED BY <1>1, <2>2, <2>3, <2>4, <2>5
<1> QED BY <1>5, <1>6

LEMMA ManagerStep == ManagerInv /\ [ManagerNext]_managerVars => ManagerInv'
<1> SUFFICES ASSUME ManagerInv, [ManagerNext]_managerVars PROVE ManagerInv'
  OBVIOUS
<1>1. CASE UNCHANGED managerVars
  <2>1. UNCHANGED <<world, samples, heard, registered, lists, churn, handler>>
    BY <1>1 DEF managerVars
  <2>2. ManagerTypeOK'
    BY <2>1 DEF ManagerInv, ManagerTypeOK, Update, Reading, Machine, Ranging, Asked,
                Idle, Doing, world, samples, lists
  <2>3. ListAsItWas' /\ LengthTaken' /\ VerdictIsFair'
    BY <2>1 DEF ManagerInv, ListAsItWas, Here, LengthTaken, VerdictIsFair, lists
  <2> QED BY <2>2, <2>3 DEF ManagerInv
<1>2. CASE ManagerNext
  BY <1>2, SampleStep, ListStep, RangeStep, LoopStep
     DEF ManagerNext, Sampling, handleUpdates
<1> QED BY <1>1, <1>2

LEMMA ManagerHolds == ManagerSpec => []ManagerInv
BY ManagerInitInv, ManagerStep, PTL DEF ManagerSpec

(* The lists, registrations and updates of the machine manager stay well   *)
(* typed, although SubscribeMachine and UnsubscribeMachine (observer.go)   *)
(* write the list that shouldNotify is reading.                            *)
THEOREM ManagerTypeCorrect == ManagerSpec => []ManagerTypeOK
<1>1. ManagerInv => ManagerTypeOK BY DEF ManagerInv
<1> QED BY <1>1, ManagerHolds, PTL

(* An observer is told of the machines it subscribes to, and of no others, *)
(* but for what its list does under the loop of shouldNotify               *)
(* (pkg/utils/machine), which takes no lock.                               *)
THEOREM FairVerdict == ManagerSpec => []VerdictIsFair
<1>1. ManagerInv => VerdictIsFair BY DEF ManagerInv
<1> QED BY <1>1, ManagerHolds, PTL

(* What has been given out of a machine, or is about to be, is how it is.  *)
TrueOf(m, status) ==
  /\ m \notin reachable => status = "failed"
  /\ \/ status \in {"failed", IF m \in running THEN "working" ELSE "stopped"}
     \/ runs[m] # Watched

(* Since the tick at which nothing of m was under way, and before which m  *)
(* changed last: m has been sampled once, and is yet to be sent or heard.  *)
SampledOnce(m) ==
  changedAt[m] < ticks /\ m \notin late =>
    /\ \A s, r \in sample : s.machine = m /\ r.machine = m => s = r
    /\ \A s \in sample : s.machine = m /\ s.at = "send" => TrueOf(m, s.status)
    /\ (\E s \in sample : s.machine = m) \/ TrueOf(m, heard[m])

HeardInv == ManagerInv /\ \A m \in Machine : SampledOnce(m)

LEMMA SampledOnceStep ==
  ASSUME ManagerInv, \A m \in Machine : SampledOnce(m), ManagerNext,
         NEW m \in Machine
  PROVE  SampledOnce(m)'
<1>1. HistoryOK /\ SampledOnce(m)
  BY HistoryTyped DEF ManagerInv
<1>2. ASSUME UNCHANGED <<reachable, running, runs, changedAt, ticks, late, sample, heard>>
      PROVE  SampledOnce(m)'
  BY <1>1, <1>2 DEF SampledOnce, TrueOf, Watched
<1>3. CASE NewMachineManager \/ Registration \/ Subscription \/ handleUpdates
  <2>1. UNCHANGED <<world, samples, heard>>
    BY <1>3
    DEF NewMachineManager, Registration, RegisterObserver, RemoveObserver, Subscription,
        SubscribeMachine, UnsubscribeMachine, Appended, Shortened, handleUpdates, Visit,
        RangeEnds, CheckEmpty, ScanList, Updated
  <2> QED BY <1>2, <2>1 DEF world, samples
<1>4. CASE MachineChange
  <2>1. PICK n \in Machine : ConnectionLost(n) \/ ProcessChange(n)
    BY <1>4 DEF MachineChange
  <2>2. /\ UNCHANGED <<runs, ticks, sample, late, heard>>
        /\ changedAt' = [changedAt EXCEPT ![n] = ticks]
    BY <2>1 DEF ConnectionLost, ProcessChange, samples
  <2>3. CASE n = m
    <3>1. changedAt'[m] = ticks' /\ ticks' \in Nat
      BY <1>1, <2>2, <2>3 DEF HistoryOK
    <3> QED BY <3>1 DEF SampledOnce
  <2>4. CASE n # m
    <3>1. /\ changedAt'[m] = changedAt[m] /\ (m \in reachable' <=> m \in reachable)
          /\ (m \in running' <=> m \in running)
      BY <1>1, <2>1, <2>2, <2>4 DEF HistoryOK, ConnectionLost, ProcessChange
    <3> QED BY <1>1, <2>2, <3>1 DEF SampledOnce, TrueOf, Watched
  <2> QED BY <2>3, <2>4
<1>5. CASE Tick
  <2> DEFINE new == [machine |-> m, tick |-> ticks', at |-> "read"]
  <2>1. /\ late' = {s.machine : s \in sample}
        /\ sample' = sample \cup
             {[machine |-> n, tick |-> ticks', at |-> "read"] : n \in Machine}
    BY <1>5 DEF Tick
  <2>2. SUFFICES ASSUME m \notin late' PROVE SampledOnce(m)'
    BY DEF SampledOnce
  <2>3. new \in sample' /\ new.machine = m /\ new.at = "read"
    BY <2>1
  <2>4. \A s \in sample' : s.machine = m => s = new
    BY <2>1, <2>2
  <2> HIDE DEF new
  <2> QED BY <2>3, <2>4 DEF SampledOnce
<1>6. ASSUME NEW s \in sample, UpdateMachineStatus(s) PROVE SampledOnce(m)'
  <2>1. PICK status \in Told :
          /\ s.machine \notin reachable => status = "failed"
          /\ runs[s.machine] = Watched =>
               status # (IF s.machine \in running THEN "stopped" ELSE "working")
          /\ sample' = (sample \ {s}) \cup
               {[machine |-> s.machine, tick |-> s.tick, at |-> "send", status |-> status]}
    BY <1>6 DEF UpdateMachineStatus, Told
  <2> DEFINE sent == [machine |-> s.machine, tick |-> s.tick, at |-> "send",
                      status |-> status]
  <2>2. UNCHANGED <<reachable, running, runs, changedAt, ticks, late, heard>>
    BY <1>6 DEF UpdateMachineStatus, world
  <2>3. TrueOf(s.machine, status)
    BY <2>1 DEF TrueOf, Told
  <2>4. /\ sample' = (sample \ {s}) \cup {sent} /\ sent.machine = s.machine
        /\ sent.status = status
    BY <2>1
  <2> HIDE DEF sent
  <2>5. CASE s.machine = m
    <3>1. changedAt[m] < ticks /\ m \notin late =>
            \A r \in sample' : r.machine = m => r = sent
      BY <1>1, <2>4, <2>5 DEF SampledOnce
    <3> QED BY <2>2, <2>3, <2>4, <2>5, <3>1 DEF SampledOnce, TrueOf, Watched
  <2>6. CASE s.machine # m
    <3>1. \A r : r.machine = m => (r \in sample' <=> r \in sample)
      BY <2>4, <2>6
    <3> QED BY <1>1, <2>2, <3>1 DEF SampledOnce, TrueOf, Watched
  <2> QED BY <2>5, <2>6
<1>7. ASSUME NEW s \in sample, Receive(s) PROVE SampledOnce(m)'
  <2>1. /\ s.at = "send" /\ sample' = sample \ {s}
        /\ heard' = [heard EXCEPT ![s.machine] = s.status]
        /\ UNCHANGED <<reachable, running, runs, changedAt, ticks, late>>
    BY <1>7 DEF Receive, TakeUp, world
  <2>2. CASE s.machine = m
    <3>1. heard'[m] = s.status
      BY <1>1, <2>1, <2>2 DEF HistoryOK
    <3> QED BY <1>1, <2>1, <2>2, <3>1 DEF SampledOnce, TrueOf, Watched
  <2>3. CASE s.machine # m
    <3>1. heard'[m] = heard[m]
      BY <1>1, <2>1, <2>3 DEF HistoryOK
    <3> QED BY <1>1, <2>1, <2>3, <3>1 DEF SampledOnce, TrueOf, Watched
  <2> QED BY <2>2, <2>3
<1> QED BY <1>3, <1>4, <1>5, <1>6, <1>7 DEF ManagerNext, Sampling

(* Whatever order the samples are taken and given out in                   *)
(* (UpdateMachineStatus, handleUpdates): what was given out last of a      *)
(* machine is how it is, once it has been quiet for a tick at which none   *)
(* of its samples was under way; but for commands that failed and for      *)
(* processes that are not looked for.                                      *)
THEOREM SettledIsHeard == ManagerSpec => []SettledStatusHeard
<1>1. ManagerInit => HeardInv
  <2>1. ASSUME ManagerInit PROVE \A m \in Machine : SampledOnce(m)
    BY <2>1 DEF ManagerInit, SampledOnce
  <2> QED BY <2>1, ManagerInitInv DEF HeardInv
<1>2. HeardInv /\ [ManagerNext]_managerVars => HeardInv'
  <2>1. SUFFICES ASSUME HeardInv, [ManagerNext]_managerVars PROVE HeardInv'
    OBVIOUS
  <2>2. CASE ManagerNext
    BY <2>1, <2>2, ManagerStep, SampledOnceStep DEF HeardInv, Machine
  <2>3. CASE UNCHANGED managerVars
    <3>1. ManagerInv'
      BY <2>1, <2>3, ManagerStep DEF HeardInv
    <3>2. UNCHANGED <<reachable, running, runs, changedAt, ticks, late, sample, heard>>
      BY <2>3 DEF managerVars, world, samples
    <3> QED BY <2>1, <3>1, <3>2 DEF HeardInv, SampledOnce, TrueOf, Watched, Machine
  <2> QED BY <2>1, <2>2, <2>3
<1>3. HeardInv => SettledStatusHeard
  BY DEF HeardInv, SampledOnce, TrueOf, Watched, SettledStatusHeard
<1> QED BY <1>1, <1>2, <1>3, PTL DEF ManagerSpec

=============================================================================
