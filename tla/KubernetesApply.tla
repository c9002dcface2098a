--------------------------- MODULE KubernetesApply ---------------------------
(***************************************************************************)
(* Applying manifests: ApplyYAMLs and DeployYAMLs of                       *)
(* pkg/utils/kubernetes/apply.go, with the create-or-update and the retry  *)
(* of utils.go, against the Kubernetes API server.                         *)
(*                                                                         *)
(* A goroutine per manifest parses it, looks its object up, creates or     *)
(* updates it, and adds its result under a mutex.                          *)
(***************************************************************************)
EXTENDS Naturals, FiniteSets

CONSTANTS
  File,       (* the manifests of one call                                  *)
  Object,     (* [File -> the name of the object a manifest describes]      *)
  Steps,      (* wait.Backoff{Steps: ...}: attempts at one manifest         *)
  None        (* no manifest: the object does not exist                     *)

ASSUME ApplyAssumption ==
  /\ IsFiniteSet(File) /\ None \notin File
  /\ DOMAIN Object = File
  /\ Steps \in Nat \ {0}

(* What a manifest is: an object in a namespace, one without (of a         *)
(* cluster-wide kind), a namespaced kind that names no namespace, a kind   *)
(* that getGVR has no resource name for, one it rejects, no YAML at all,   *)
(* or an object without kind, apiVersion or name.                          *)
Kind     == {"namespaced", "cluster", "unplaced", "custom", "unsupported",
             "garbage", "incomplete"}
Storable == {"namespaced", "cluster"}

VARIABLES
  method,     (* ApplyYAMLs reads files, DeployYAMLs is given their text    *)
  kind,       (* what each manifest is                                      *)
  stored,     (* the API server: object -> the manifest it holds            *)
  pc,
  attempt,    (* attempts begun                                             *)
  wrote,      (* manifests the server has accepted                          *)
  unheard,    (* those whose acceptance the client was not told             *)
  outcome,    (* what ApplyYAML returned                                    *)
  success,    (* overallSuccess                                             *)
  results,    (* the results: manifests that are in it, with their outcome  *)
  returned,
  crashed     (* a goroutine panicked: nothing recovers it                  *)

vars == <<method, kind, stored, pc, attempt, wrote, unheard, outcome, success,
          results, returned, crashed>>

Key(f) == <<kind[f], Object[f]>>
Keys   == Storable \X {Object[f] : f \in File}

Init ==
  /\ method \in {"ApplyYAMLs", "DeployYAMLs"}
  /\ kind \in [File -> Kind]
  /\ \E there \in SUBSET Keys :      (* objects of an earlier call *)
       stored = [k \in Keys |-> IF k \in there THEN "earlier" ELSE None]
  /\ pc = [f \in File |-> "parse"]
  /\ attempt = [f \in File |-> 0]
  /\ wrote = {}
  /\ unheard = {}
  /\ outcome = [f \in File |-> "none"]
  /\ success = TRUE
  /\ results = {}
  /\ returned = FALSE
  /\ crashed = FALSE

Goto(f, l) == pc' = [pc EXCEPT ![f] = l]

(* ApplyYAML returns: an error first clears overallSuccess.                *)
Returns(f, o) ==
  /\ outcome' = [outcome EXCEPT ![f] = o]
  /\ Goto(f, IF o = "error" THEN "failed" ELSE "append")

----------------------------------------------------------------------------
ReadError(f) ==
  /\ ~crashed /\ pc[f] = "parse" /\ method = "ApplyYAMLs"
  /\ Returns(f, "error")
  /\ UNCHANGED <<method, kind, stored, attempt, wrote, unheard, success,
                 results, returned, crashed>>

(* Unmarshal, getGVR.                                                      *)
ParseError(f) ==
  /\ ~crashed /\ pc[f] = "parse" /\ kind[f] \in {"garbage", "unsupported"}
  /\ Returns(f, "error")
  /\ UNCHANGED <<method, kind, stored, attempt, wrote, unheard, success,
                 results, returned, crashed>>

(* obj["apiVersion"].(string), or that of the name, panics on a missing    *)
(* field; a missing kind is an error of yaml.Unmarshal's.                  *)
ParsePanics(f) ==
  /\ ~crashed /\ pc[f] = "parse" /\ kind[f] = "incomplete"
  /\ crashed' = TRUE
  /\ UNCHANGED <<method, kind, stored, pc, attempt, wrote, unheard, outcome,
                 success, results, returned>>

Parsed(f) ==
  /\ ~crashed /\ pc[f] = "parse"
  /\ kind[f] \in Storable \cup {"unplaced", "custom"}
  /\ attempt' = [attempt EXCEPT ![f] = 1]
  /\ Goto(f, "get")
  /\ UNCHANGED <<method, kind, stored, wrote, unheard, outcome, success,
                 results, returned, crashed>>

----------------------------------------------------------------------------
(* Mutant of Found: the lookup is in the manifest's namespace.             *)
FoundInNamespace(f) == kind[f] \in Storable /\ stored[Key(f)] # None

(* The lookup names no namespace: the API server finds what it asks for    *)
(* only if the kind is cluster-wide.                                       *)
Found(f) == kind[f] = "cluster" /\ stored[Key(f)] # None

(* resourceClient.Get                                                      *)
Get(f) ==
  /\ ~crashed /\ pc[f] = "get"
  /\ Goto(f, IF Found(f) THEN "update" ELSE "create")
  /\ UNCHANGED <<method, kind, stored, attempt, wrote, unheard, outcome,
                 success, results, returned, crashed>>

(* A request fails for good: a conflict, no connection, a refusal.         *)
RequestError(f) ==
  /\ ~crashed /\ pc[f] \in {"get", "create", "update"}
  /\ Returns(f, "error")
  /\ UNCHANGED <<method, kind, stored, attempt, wrote, unheard, success,
                 results, returned, crashed>>

(* Create is refused: the object exists (AlreadyExists is not temporary),  *)
(* or the path names no collection.                                        *)
CreateRefused(f) ==
  /\ ~crashed /\ pc[f] = "create"
  /\ kind[f] \in Storable => stored[Key(f)] # None
  /\ Returns(f, "error")
  /\ UNCHANGED <<method, kind, stored, attempt, wrote, unheard, success,
                 results, returned, crashed>>

(* The server accepts the create or the update.  Its answer arrives, or is *)
(* a timeout that isTemporaryError knows, or one that it does not know.    *)
Write(f) ==
  /\ ~crashed /\ pc[f] \in {"create", "update"}
  /\ kind[f] \in Storable
  /\ pc[f] = "create" => stored[Key(f)] = None
  /\ stored' = [stored EXCEPT ![Key(f)] = f]
  /\ wrote' = wrote \cup {f}
  /\ \/ UNCHANGED unheard /\ Returns(f, "nil")
     \/ unheard' = unheard \cup {f} /\ Goto(f, "retry") /\ UNCHANGED outcome
     \/ unheard' = unheard \cup {f} /\ Returns(f, "error")
  /\ UNCHANGED <<method, kind, attempt, success, results, returned, crashed>>

(* The server is too busy to do anything.                                  *)
ServerTimeout(f) ==
  /\ ~crashed /\ pc[f] \in {"get", "create", "update"}
  /\ Goto(f, "retry")
  /\ UNCHANGED <<method, kind, stored, attempt, wrote, unheard, outcome,
                 success, results, returned, crashed>>

(* Mutant of Backoff: running out of attempts is taken for success.        *)
BackoffSucceeds(f) ==
  /\ ~crashed /\ pc[f] = "retry"
  /\ IF attempt[f] < Steps
       THEN /\ attempt' = [attempt EXCEPT ![f] = @ + 1]
            /\ Goto(f, "get") /\ UNCHANGED outcome
       ELSE Returns(f, "nil") /\ UNCHANGED attempt
  /\ UNCHANGED <<method, kind, stored, wrote, unheard, success, results,
                 returned, crashed>>

(* Mutant of Backoff: the attempts are not counted.                        *)
BackoffUncounted(f) ==
  /\ ~crashed /\ pc[f] = "retry"
  /\ Goto(f, "get") /\ UNCHANGED outcome
  /\ UNCHANGED <<method, kind, stored, attempt, wrote, unheard, success,
                 results, returned, crashed>>

(* wait.ExponentialBackoff: the lookup again, or its own timeout error.    *)
Backoff(f) ==
  /\ ~crashed /\ pc[f] = "retry"
  /\ IF attempt[f] < Steps
       THEN /\ attempt' = [attempt EXCEPT ![f] = @ + 1]
            /\ Goto(f, "get") /\ UNCHANGED outcome
       ELSE Returns(f, "error") /\ UNCHANGED attempt
  /\ UNCHANGED <<method, kind, stored, wrote, unheard, success, results,
                 returned, crashed>>

----------------------------------------------------------------------------
(* mu.Lock(); overallSuccess = false; mu.Unlock()                          *)
ClearSuccess(f) ==
  /\ ~crashed /\ pc[f] = "failed"
  /\ success' = FALSE
  /\ Goto(f, "append")
  /\ UNCHANGED <<method, kind, stored, attempt, wrote, unheard, outcome,
                 results, returned, crashed>>

(* mu.Lock(); results = append(results, result); mu.Unlock(); wg.Done()    *)
AppendResult(f) ==
  /\ ~crashed /\ pc[f] = "append"
  /\ results' = results \cup {[file |-> f, ok |-> outcome[f] = "nil"]}
  /\ Goto(f, "done")
  /\ UNCHANGED <<method, kind, stored, attempt, wrote, unheard, outcome,
                 success, returned, crashed>>

(* wg.Wait()                                                               *)
Return ==
  /\ ~crashed /\ ~returned
  /\ \A f \in File : pc[f] = "done"
  /\ returned' = TRUE
  /\ UNCHANGED <<method, kind, stored, pc, attempt, wrote, unheard, outcome,
                 success, results, crashed>>

Stopped == (crashed \/ returned) /\ UNCHANGED vars

----------------------------------------------------------------------------
Parse(f) == ReadError(f) \/ ParseError(f) \/ ParsePanics(f) \/ Parsed(f)
CreateOrUpdate(f) ==
  \/ Get(f) \/ RequestError(f) \/ CreateRefused(f) \/ Write(f)
  \/ ServerTimeout(f)
Goroutine(f) ==
  \/ Parse(f) \/ CreateOrUpdate(f) \/ Backoff(f)
  \/ ClearSuccess(f) \/ AppendResult(f)

Next == (\E f \in File : Goroutine(f)) \/ Return \/ Stopped

Fairness == (\A f \in File : WF_vars(Goroutine(f))) /\ WF_vars(Return)

Spec     == Init /\ [][Next]_vars
FairSpec == Spec /\ Fairness

----------------------------------------------------------------------------
TypeOK ==
  /\ method \in {"ApplyYAMLs", "DeployYAMLs"}
  /\ kind \in [File -> Kind]
  /\ stored \in [Keys -> File \cup {None, "earlier"}]
  /\ pc \in [File -> {"parse", "get", "create", "update", "retry", "failed",
                      "append", "done"}]
  /\ attempt \in [File -> 0..Steps]
  /\ wrote \subseteq File /\ unheard \subseteq wrote
  /\ outcome \in [File -> {"none", "nil", "error"}]
  /\ success \in BOOLEAN
  /\ results \subseteq [file : File, ok : BOOLEAN]
  /\ returned \in BOOLEAN /\ crashed \in BOOLEAN

(* The answer has one result per manifest, OverallSuccess is that all of   *)
(* them succeeded, and each says what happened to the cluster: a success   *)
(* was accepted by the server; a failure left no trace, unless the server  *)
(* had accepted it and the client missed the answer.                       *)
AnswerIsTrue ==
  returned =>
    /\ Cardinality(results) = Cardinality(File)
    /\ success = \A r \in results : r.ok
    /\ \A r \in results : IF r.ok THEN r.file \in wrote
                          ELSE r.file \in wrote => r.file \in unheard

(* No apply ever changes an object that is in a namespace and exists, be   *)
(* it from an earlier call or from another manifest of this one: the       *)
(* lookup without a namespace leads to a create, which is refused.         *)
NamespacedNeverUpdated ==
  [][\A k \in Keys : k[1] = "namespaced" /\ stored[k] # None
                       => stored'[k] = stored[k]]_stored

(* The call returns, however often the server times out, unless a manifest *)
(* without a kind or a name has taken the process down.                    *)
ApplyReturns == <>(returned \/ crashed)

----------------------------------------------------------------------------
(* The call as its caller sees it: each manifest comes to one report, and  *)
(* the answer is made of all of them.                                      *)
report == [f \in File |->
  IF [file |-> f, ok |-> TRUE] \in results THEN "success"
  ELSE IF [file |-> f, ok |-> FALSE] \in results THEN "failure"
  ELSE "none"]

answer == IF ~returned THEN "none" ELSE IF success THEN "success" ELSE "failure"

Applying == INSTANCE ParallelCall WITH Worker <- File

(* The two locks, one for the flag and one for the list, lose no report,   *)
(* and the flag that is answered is that of the list.                      *)
ApplyImplementsCall == Applying!Spec
=============================================================================
