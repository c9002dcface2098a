----------------------------- MODULE HealthChecker -----------------------------
(***************************************************************************)
(* K8sHealthChecker of pkg/utils/kubernetes/health.go.                     *)
(*                                                                         *)
(* IsClusterHealthy starts checks in goroutines of their own and answers   *)
(* from what earlier ones have left in the cache.  The checks list what    *)
(* the informers know; an informer exists once a check has asked for its   *)
(* lister, and runs from the next StartInformers on.  The checks write the *)
(* cache under a lock, its readers read it without.                        *)
(***************************************************************************)
EXTENDS Naturals, FiniteSets, Bags

CONSTANTS
  Object,     (* nodes and pods                                             *)
  PlaceOf,    (* [Object -> Place]                                          *)
  KeyOf,      (* an object's name: its key in the cache                     *)
  Caller,
  Clusters,   (* bound: what the cluster is like at first                   *)
  MaxChecks,  (* bound: checks under way                                    *)
  MaxChanges  (* bound: changes of the cluster                              *)

(* One check each: the nodes, and the pods of two namespaces.              *)
Place == {"nodes", "default", "kube-system"}

ASSUME HealthAssumption ==
  /\ IsFiniteSet(Object) /\ PlaceOf \in [Object -> Place]
  /\ \A o, p \in Object : KeyOf[o] = KeyOf[p] =>
       (PlaceOf[o] = "nodes" <=> PlaceOf[p] = "nodes")
  /\ Clusters \subseteq [Object -> {"well", "sick", "gone"}]
  /\ MaxChecks \in Nat /\ MaxChanges \in Nat

Resource(place) == IF place = "nodes" THEN "nodes" ELSE "pods"
Key(resource)   == {KeyOf[o] : o \in {p \in Object : Resource(PlaceOf[p]) = resource}}

VARIABLES
  cluster,    (* each object: "well", "sick" or "gone"                      *)
  changes,
  requested,  (* resources whose informer exists                            *)
  started,    (* resources whose informer runs                              *)
  stopped,    (* stopCh is closed                                           *)
  indexer,    (* the objects as the informers know them                     *)
  cache,      (* NodeHealth and PodHealth: "well", "sick", or no entry      *)
  checks,     (* checks under way, a bag                                    *)
  pc,         (* each caller in IsClusterHealthy                            *)
  visited,    (* the keys it has looked at in the map it is in              *)
  due,        (* the keys that were there when it came to the map           *)
  healthy,    (* its answer                                                 *)
  fresh,      (* places the last check to write found as they still are     *)
  settled,    (* callers whose call began, and stays, in a settled cluster  *)
  crash       (* the process has ended: "map", "close" or "no"              *)

informers == <<requested, started, stopped, indexer>>
reading   == <<pc, visited, due, healthy>>
vars == <<cluster, changes, informers, cache, checks, reading, fresh, settled, crash>>

Of(state, place) == [o \in {p \in Object : PlaceOf[p] = place} |-> state[o]]
Listed(list)     == {o \in DOMAIN list : list[o] # "gone"}

Init ==
  /\ cluster \in Clusters
  /\ changes = 0
  /\ requested = {} /\ started = {} /\ stopped = FALSE
  /\ indexer = [o \in Object |-> "gone"]
  /\ cache = [k \in {KeyOf[o] : o \in Object} |-> "none"]
  /\ checks = EmptyBag
  /\ pc = [c \in Caller |-> "idle"]
  /\ visited = [c \in Caller |-> {}]
  /\ due = [c \in Caller |-> {}]
  /\ healthy = [c \in Caller |-> TRUE]
  /\ fresh = {}
  /\ settled = {}
  /\ crash = "no"

Alive == crash = "no"

----------------------------------------------------------------------------
(* The cluster, and the watches that tell the informers of it.             *)
Change(o) ==
  /\ Alive /\ changes < MaxChanges
  /\ \E s \in {"well", "sick", "gone"} \ {cluster[o]} :
       cluster' = [cluster EXCEPT ![o] = s]
  /\ changes' = changes + 1
  /\ fresh' = fresh \ {PlaceOf[o]}
  /\ settled' = {}
  /\ UNCHANGED <<informers, cache, checks, reading, crash>>

Watch(o) ==
  /\ Alive /\ ~stopped
  /\ Resource(PlaceOf[o]) \in started
  /\ indexer[o] # cluster[o]
  /\ indexer' = [indexer EXCEPT ![o] = cluster[o]]
  /\ UNCHANGED <<cluster, changes, requested, started, stopped, cache, checks,
                 reading, fresh, settled, crash>>

(* The factory starts the informers that have been asked for, and waits    *)
(* until they have listed what there is.                                   *)
StartInformers ==
  /\ Alive /\ ~stopped /\ started # requested
  /\ started' = requested
  /\ indexer' = [o \in Object |->
       IF Resource(PlaceOf[o]) \in requested \ started THEN cluster[o] ELSE indexer[o]]
  /\ UNCHANGED <<cluster, changes, requested, stopped, cache, checks, reading,
                 fresh, settled, crash>>

(* The process ends, and all its goroutines with it.                       *)
Panic(why) ==
  /\ crash' = why
  /\ checks' = EmptyBag
  /\ pc' = [c \in Caller |-> "idle"]
  /\ visited' = [c \in Caller |-> {}] /\ due' = [c \in Caller |-> {}]
  /\ healthy' = [c \in Caller |-> TRUE]
  /\ UNCHANGED <<cluster, changes, informers, cache, fresh, settled>>

(* close(stopCh); a second time it panics.                                 *)
StopInformers ==
  /\ Alive
  /\ \/ stopped /\ Panic("close")
     \/ /\ ~stopped
        /\ stopped' = TRUE
        /\ UNCHANGED <<cluster, changes, requested, started, indexer, cache, checks,
                       reading, fresh, settled, crash>>

----------------------------------------------------------------------------
(* A check: its place and where it is.  Lister() does nothing any more     *)
(* once the informer exists.                                               *)
NewChecks ==
  SetToBag({[place |-> p, at |-> IF Resource(p) \in requested THEN "list" ELSE "lister"] :
            p \in Place})

Becomes(k, next) == checks' = (checks (-) SetToBag({k})) (+) SetToBag({next})

(* CheckNodeHealth, CheckPodHealth: Lister() makes the informer exist ...  *)
Lister(k) ==
  /\ Alive /\ k.at = "lister"
  /\ requested' = requested \cup {Resource(k.place)}
  /\ Becomes(k, [place |-> k.place, at |-> "list"])
  /\ UNCHANGED <<cluster, changes, started, stopped, indexer, cache, reading,
                 fresh, settled, crash>>

(* ... and List() is what it knows.                                        *)
List(k) ==
  /\ Alive /\ k.at = "list"
  /\ Becomes(k, [place |-> k.place, at |-> "write", list |-> Of(indexer, k.place)])
  /\ UNCHANGED <<cluster, changes, informers, cache, reading, fresh, settled, crash>>

(* The loop over the list with cacheMutex held: to those who want the lock *)
(* it is one step.  An object that is no longer listed keeps its entry.    *)
WriteCache(k) ==
  /\ Alive /\ k.at = "write"
  /\ cache' = [n \in DOMAIN cache |->
       IF \E o \in Listed(k.list) : KeyOf[o] = n
         THEN k.list[CHOOSE o \in Listed(k.list) : KeyOf[o] = n]
         ELSE cache[n]]
  /\ fresh' = IF k.list = Of(cluster, k.place)
                THEN fresh \cup {k.place} ELSE fresh \ {k.place}
  /\ checks' = checks (-) SetToBag({k})
  /\ UNCHANGED <<cluster, changes, informers, reading, settled, crash>>

(* Those who read the map do not: Go's runtime may notice that the map is  *)
(* written while it is iterated, and ends the process.                     *)
MapCrash(k) ==
  /\ Alive /\ k.at = "write" /\ Listed(k.list) # {}
  /\ \E c \in Caller : pc[c] \in {Resource(k.place), "print"}
  /\ Panic("map")

----------------------------------------------------------------------------
(* Nothing has happened in the cluster that a check has not written.       *)
Settled == checks = EmptyBag /\ indexer = cluster /\ fresh = Place

(* IsClusterHealthy: UpdateCache takes the lock and starts the checks.     *)
UpdateCache(c) ==
  /\ Alive /\ pc[c] \in {"idle", "answered"}
  /\ BagCardinality(checks) + Cardinality(Place) <= MaxChecks
  /\ checks' = checks (+) NewChecks
  /\ settled' = IF Settled THEN settled \cup {c} ELSE settled \ {c}
  /\ healthy' = [healthy EXCEPT ![c] = TRUE]
  /\ pc' = [pc EXCEPT ![c] = "get"]
  /\ UNCHANGED <<cluster, changes, informers, cache, visited, due, fresh, crash>>

Present(resource) == {k \in Key(resource) : cache[k] # "none"}

(* The loop over a map begins: what is in it now must be visited.          *)
Enter(c, resource) ==
  /\ pc' = [pc EXCEPT ![c] = resource]
  /\ visited' = [visited EXCEPT ![c] = {}]
  /\ due' = [due EXCEPT ![c] = Present(resource)]

(* The cached data are a pointer to the maps the checks write.             *)
GetCachedHealthData(c) ==
  /\ Alive /\ pc[c] = "get"
  /\ Enter(c, "nodes")
  /\ UNCHANGED <<cluster, changes, informers, cache, checks, healthy, fresh, settled, crash>>

(* After the nodes the pods are looked at in any case.                     *)
Leave(c) ==
  \/ pc[c] = "nodes" /\ Enter(c, "pods")
  \/ /\ pc[c] = "pods"
     /\ pc' = [pc EXCEPT ![c] = "print"]
     /\ visited' = [visited EXCEPT ![c] = {}]
     /\ due' = [due EXCEPT ![c] = {}]

(* Mutant of Look: the loop goes on, and its last entry counts.            *)
LookOn(c, k) ==
  /\ Alive /\ pc[c] \in {"nodes", "pods"}
  /\ k \in Present(pc[c]) \ visited[c]
  /\ healthy' = [healthy EXCEPT ![c] = cache[k] = "well"]
  /\ visited' = [visited EXCEPT ![c] = @ \cup {k}]
  /\ UNCHANGED <<cluster, changes, informers, cache, checks, pc, due, fresh,
                 settled, crash>>

(* The next entry of the map, in any order; the loop ends at the first     *)
(* that is not healthy.                                                    *)
Look(c, k) ==
  /\ Alive /\ pc[c] \in {"nodes", "pods"}
  /\ k \in Present(pc[c]) \ visited[c]
  /\ IF cache[k] = "sick"
       THEN healthy' = [healthy EXCEPT ![c] = FALSE] /\ Leave(c)
       ELSE /\ visited' = [visited EXCEPT ![c] = @ \cup {k}]
            /\ UNCHANGED <<pc, due, healthy>>
  /\ UNCHANGED <<cluster, changes, informers, cache, checks, fresh, settled, crash>>

(* Mutant of LoopEnds: a map without entries is not healthy.               *)
LoopEndsEmpty(c) ==
  /\ Alive
  /\ due[c] \subseteq visited[c]
  /\ healthy' = [healthy EXCEPT ![c] = @ /\ due[c] # {}]
  /\ Leave(c)
  /\ UNCHANGED <<cluster, changes, informers, cache, checks, fresh, settled, crash>>

LoopEnds(c) ==
  /\ Alive
  /\ due[c] \subseteq visited[c]
  /\ Leave(c)
  /\ UNCHANGED <<cluster, changes, informers, cache, checks, healthy, fresh,
                 settled, crash>>

(* Both maps are printed, and the answer is given.                         *)
Answer(c) ==
  /\ Alive /\ pc[c] = "print"
  /\ pc' = [pc EXCEPT ![c] = "answered"]
  /\ UNCHANGED <<cluster, changes, informers, cache, checks, visited, due, healthy,
                 fresh, settled, crash>>

----------------------------------------------------------------------------
Environment == \E o \in Object : Change(o) \/ Watch(o)

Check(k) == Lister(k) \/ List(k) \/ WriteCache(k) \/ MapCrash(k)

IsClusterHealthy(c) ==
  \/ UpdateCache(c) \/ GetCachedHealthData(c)
  \/ (\E k \in DOMAIN cache : Look(c, k)) \/ LoopEnds(c) \/ Answer(c)

Next == \/ Environment \/ StartInformers \/ StopInformers
        \/ \E k \in BagToSet(checks) : Check(k)
        \/ \E c \in Caller : IsClusterHealthy(c)

Spec == Init /\ [][Next]_vars

----------------------------------------------------------------------------
(* The checker is blind at first: StartInformers, called as usual before   *)
(* any check, starts nothing, since no check has asked for a lister yet.   *)
(* Until it is called once more after a check, every answer is yes,        *)
(* whatever the cluster is like, and no map is written while it is read.   *)
BlindUntilStartedAgain ==
  started = {} =>
    /\ \A c \in Caller : pc[c] = "answered" => healthy[c]
    /\ crash # "map"

(* What an answer is worth once earlier checks have seen the cluster as it *)
(* is, and it stays so during the call: yes means that all nodes and pods  *)
(* are healthy, but for those that share their name with one that is       *)
(* healthy or gone; no means that one is not healthy, or gone: its entry   *)
(* is never removed.                                                       *)
SettledAnswerIsRight ==
  \A c \in settled : pc[c] = "answered" =>
    IF healthy[c]
      THEN \A o \in Object : cluster[o] = "sick" =>
             \E p \in Object \ {o} : KeyOf[p] = KeyOf[o] /\ cluster[p] # "sick"
      ELSE \E o \in Object : cluster[o] # "well"
=============================================================================
