------------------------------- MODULE Rollout -------------------------------
(***************************************************************************)
(* Upgrading a Deployment and watching a cluster: UpgradeDeployment,       *)
(* waitForRollout, rollbackDeployment and the seven Check...Statuses of    *)
(* pkg/utils/kubernetes/apply.go.                                          *)
(*                                                                         *)
(* All of them poll: a select over a timer and a ticker.  The upgrade      *)
(* edits the Deployment and waits for its status; the Deployment           *)
(* controller follows the edit at its own pace, and somebody else may edit *)
(* the Deployment too.  Pods, and the objects a check watches, come and go *)
(* at any time, so that a look at them finds whatever they may be.  The    *)
(* seven checks are one loop over seven kinds of objects: Deployments,     *)
(* StatefulSets and DaemonSets have all their replicas ready, nodes, pods  *)
(* and volumes are in the right phase or condition, and the loop does not  *)
(* look at the difference.                                                 *)
(***************************************************************************)
EXTENDS Naturals, FiniteSets

CONSTANTS
  Interval,   (* the poll interval, in units of the clock                   *)
  Timeouts,   (* timeouts a poll is called with, in the same units          *)
  Horizon,    (* the clock stops here                                       *)
  Pods,       (* pods the Deployment has at a time, at most                 *)
  Good        (* images whose pods become ready                             *)

Image == {"old", "new", "other"}

ASSUME RolloutAssumption ==
  /\ Interval \in Nat \ {0}
  /\ Horizon \in Nat /\ \A t \in Timeouts : t \in 1..Horizon
  /\ Pods \in Nat
  /\ Good \subseteq Image

Poller == {"upgrade", "check"}

VARIABLES
  now,
  timeout,    (* each poll's timeout                                        *)
  start,      (* when it began                                              *)
  tick,       (* the ticker's channel (of capacity 1) holds a tick          *)
  place,
  result,     (* what UpgradeDeployment and the check returned              *)
  image,      (* the Deployment's image,                                    *)
  version,    (* its resourceVersion,                                       *)
  status,     (* and whose pods its status counts: the version and image of *)
              (* the last edit that the controller has taken up             *)
  labelled,   (* some ReplicaSet has just the labels of the selector        *)
  seen,       (* the resourceVersion the upgrade has read                   *)
  verdictOn   (* the status on which waitForRollout returned nil            *)

rolloutVars == <<now, timeout, start, tick, place, result, image, version, status,
                 labelled, seen, verdictOn>>

cluster == <<image, version, status, labelled>>

RolloutInit ==
  /\ now = 0
  /\ timeout \in [Poller -> Timeouts]
  /\ start = [p \in Poller |-> 0]
  /\ tick = [p \in Poller |-> FALSE]
  /\ place = [upgrade |-> "get", check |-> "poll"]
  /\ result = [p \in Poller |-> "none"]
  /\ image \in {"old", "new"}
  /\ version = 0
  /\ status = [observed |-> 0, of |-> image]
  /\ labelled \in BOOLEAN
  /\ seen = 0
  /\ verdictOn = [observed |-> 0, of |-> image,
                  updated |-> 0, replicas |-> 0, ready |-> 0]

GoTo(p, l) == place' = [place EXCEPT ![p] = l]

Answers(p, r) == /\ GoTo(p, "returned")
                /\ result' = [result EXCEPT ![p] = r]

----------------------------------------------------------------------------
(* Time passes; a polling goroutine's ticker fires, or drops the tick that *)
(* its channel has no room for.                                            *)
Clock ==
  /\ now < Horizon
  /\ now' = now + 1
  /\ tick' = [p \in Poller |->
       tick[p] \/ (place[p] = "poll" /\ (now' - start[p]) % Interval = 0)]
  /\ UNCHANGED <<timeout, start, place, result, cluster, seen, verdictOn>>

(* The Deployment controller takes up the last edit.                       *)
Observe ==
  /\ status.observed # version
  /\ status' = [observed |-> version, of |-> image]
  /\ UNCHANGED <<now, timeout, start, tick, place, result, image, version,
                 labelled, seen, verdictOn>>

(* One edit by somebody else.                                              *)
OtherEdit ==
  /\ image # "other" /\ version < 2
  /\ image' = "other"
  /\ version' = version + 1
  /\ UNCHANGED <<now, timeout, start, tick, place, result, status, labelled,
                 seen, verdictOn>>

----------------------------------------------------------------------------
(* The select of a poll: a timer that is due, or a tick; either, when both *)
(* are ready.                                                              *)
Due(p) == place[p] = "poll" /\ now - start[p] >= timeout[p]

Ticked(p) == place[p] = "poll" /\ tick[p]

Consume(p) == tick' = [tick EXCEPT ![p] = FALSE]

(* Mutant of CheckTimeout: the timer is made anew in every round.          *)
TimerRestarts ==
  /\ Due("check") /\ ~tick["check"]
  /\ start' = [start EXCEPT !.check = now]
  /\ UNCHANGED <<now, timeout, tick, place, result, cluster, seen, verdictOn>>

CheckTimeout ==
  /\ Due("check")
  /\ Answers("check", "false")
  /\ UNCHANGED <<now, timeout, start, tick, cluster, seen, verdictOn>>

CheckListError ==
  /\ Ticked("check")
  /\ Consume("check")
  /\ Answers("check", "error")        (* false, too *)
  /\ UNCHANGED <<now, timeout, start, cluster, seen, verdictOn>>

(* All objects of the list are healthy, or there are none; or not.         *)
CheckStatuses ==
  /\ Ticked("check")
  /\ Consume("check")
  /\ Answers("check", "true") \/ UNCHANGED <<place, result>>
  /\ UNCHANGED <<now, timeout, start, cluster, seen, verdictOn>>

----------------------------------------------------------------------------
(* UpgradeDeployment: read, and stop when there is nothing to change: the  *)
(* container has the image, or there is no container of that name.         *)
(* "unchanged", "rolledOut" and "rolledBack" are the same nil to a caller. *)
GetDeployment ==
  /\ place.upgrade = "get"
  /\ \/ Answers("upgrade", "error") /\ UNCHANGED seen
     \/ Answers("upgrade", "unchanged") /\ UNCHANGED seen
     \/ /\ image # "new" /\ seen' = version
        /\ GoTo("upgrade", "update") /\ UNCHANGED result
  /\ UNCHANGED <<now, timeout, start, tick, cluster, verdictOn>>

(* An update goes through unless somebody else's came first (a conflict).  *)
Update(i) == /\ seen = version
             /\ image' = i /\ version' = version + 1

Edited == seen + 1

(* Bound: it comes early enough for its timer to fire before the Horizon.  *)
UpdateDeployment ==
  /\ place.upgrade = "update"
  /\ now + timeout.upgrade <= Horizon
  /\ Update("new")
  /\ GoTo("upgrade", "poll") /\ start' = [start EXCEPT !.upgrade = now]
  /\ UNCHANGED <<now, timeout, tick, result, status, labelled, seen, verdictOn>>

(* A refused update, or one whose answer is lost.                          *)
UpdateError ==
  /\ place.upgrade = "update"
  /\ Update("new") \/ UNCHANGED <<image, version>>
  /\ Answers("upgrade", "error")
  /\ UNCHANGED <<now, timeout, start, tick, status, labelled, seen, verdictOn>>

(* What the status may count: pods of the image it is about (updated) and  *)
(* older ones, some of them ready, but none of an image whose pods never   *)
(* become ready.                                                           *)
Counts == {c \in [updated : 0..Pods, replicas : 0..Pods, ready : 0..Pods] :
            /\ c.updated <= c.replicas /\ c.ready <= c.replicas
            /\ status.of \notin Good => c.updated + c.ready <= c.replicas}

(* Mutant of RolledOut: old pods that are still ready will do.             *)
ReadyOnly(c) == c.ready = c.replicas

(* UpdatedReplicas = Replicas = ReadyReplicas; whether the status is about *)
(* this edit (observedGeneration) is not asked.                            *)
RolledOut(c) == c.updated = c.replicas /\ c.replicas = c.ready

WaitForRollout ==
  /\ Ticked("upgrade")
  /\ Consume("upgrade")
  /\ \E c \in Counts :
       IF RolledOut(c)
         THEN /\ Answers("upgrade", "rolledOut")
              /\ verdictOn' = [observed |-> status.observed, of |-> status.of,
                               updated |-> c.updated, replicas |-> c.replicas,
                               ready |-> c.ready]
         ELSE UNCHANGED <<place, result, verdictOn>>
  /\ UNCHANGED <<now, timeout, start, cluster, seen>>

(* The timer, or a failed read, ends the wait with an error.               *)
RolloutFailed ==
  /\ Due("upgrade") \/ Ticked("upgrade")
  /\ GoTo("upgrade", "rollback")
  /\ UNCHANGED <<now, timeout, start, tick, result, cluster, seen, verdictOn>>

----------------------------------------------------------------------------
(* rollbackDeployment reads the Deployment and its ReplicaSets.  A read, a *)
(* search or an update of it may fail; the update may have been made.      *)
RollbackRead ==
  /\ place.upgrade = "rollback"
  /\ seen' = version
  /\ GoTo("upgrade", "choose")
  /\ UNCHANGED <<now, timeout, start, tick, result, cluster, verdictOn>>

RollbackError ==
  /\ place.upgrade \in {"rollback", "choose", "restore"}
  /\ \/ place.upgrade = "restore" /\ \E i \in Image : Update(i)
     \/ UNCHANGED <<image, version>>
  /\ Answers("upgrade", "error")
  /\ UNCHANGED <<now, timeout, start, tick, status, labelled, seen, verdictOn>>

(* currentRS: a ReplicaSet whose labels are exactly the selector's.  Those *)
(* the controller makes carry a pod-template-hash on top.                  *)
CurrentFound == labelled

(* Without a current ReplicaSet, currentRS.Name is a nil dereference.      *)
ChooseReplicaSet ==
  /\ place.upgrade = "choose"
  /\ IF CurrentFound THEN GoTo("upgrade", "restore") /\ UNCHANGED result
                     ELSE Answers("upgrade", "panic")
  /\ UNCHANGED <<now, timeout, start, tick, cluster, seen, verdictOn>>

(* The image of another ReplicaSet, whichever has the shortest name: of an *)
(* earlier revision or of this one.                                        *)
Restore ==
  /\ place.upgrade = "restore"
  /\ \E i \in Image : Update(i)
  /\ Answers("upgrade", "rolledBack")
  /\ UNCHANGED <<now, timeout, start, tick, status, labelled, seen, verdictOn>>

PollsStopped == (\A p \in Poller : place[p] = "returned") /\ UNCHANGED rolloutVars

----------------------------------------------------------------------------
Check == CheckTimeout \/ CheckListError \/ CheckStatuses

UpgradeDeployment ==
  \/ GetDeployment \/ UpdateDeployment \/ UpdateError
  \/ WaitForRollout \/ RolloutFailed

RollbackDeployment ==
  RollbackRead \/ RollbackError \/ ChooseReplicaSet \/ Restore

Environment == Observe \/ OtherEdit

RolloutNext == Clock \/ Environment \/ Check \/ UpgradeDeployment \/ RollbackDeployment
        \/ PollsStopped

(* Requests are answered and goroutines run; nothing is assumed of the     *)
(* cluster.                                                                *)
RolloutFairness == /\ WF_rolloutVars(Clock)
            /\ WF_rolloutVars(Check)
            /\ WF_rolloutVars(UpgradeDeployment \/ RollbackDeployment)

RolloutSpec     == RolloutInit /\ [][RolloutNext]_rolloutVars
RolloutFairSpec == RolloutSpec /\ RolloutFairness

----------------------------------------------------------------------------
Status  == [observed : 0..4, of : Image]
Verdict == [observed : 0..4, of : Image,
            updated : 0..Pods, replicas : 0..Pods, ready : 0..Pods]

RolloutTypeOK ==
  /\ now \in 0..Horizon
  /\ timeout \in [Poller -> Timeouts]
  /\ start \in [Poller -> 0..Horizon]
  /\ tick \in [Poller -> BOOLEAN]
  /\ place \in [Poller -> {"get", "update", "poll", "rollback", "choose",
                        "restore", "returned"}]
  /\ result \in [Poller -> {"none", "rolledOut", "unchanged", "error", "panic",
                            "rolledBack", "true", "false"}]
  /\ image \in Image /\ version \in 0..4 /\ seen \in 0..4
  /\ status \in Status /\ verdictOn \in Verdict
  /\ labelled \in BOOLEAN

(* What "updated successfully" is worth (UpgradeDeployment after           *)
(* waitForRollout): the Deployment had pods, all of the new image and all  *)
(* ready, which no image has whose pods never become ready; but for three  *)
(* ways to be told so without: it had no pod at all (0 = 0 = 0), somebody  *)
(* else has edited it since, or the controller has left the edit alone for *)
(* a whole poll interval.                                                  *)
RolledOutMeansReady ==
  result.upgrade = "rolledOut" =>
    \/ /\ verdictOn.observed = Edited /\ verdictOn.of = "new" /\ "new" \in Good
       /\ verdictOn.updated = verdictOn.replicas
       /\ verdictOn.ready = verdictOn.replicas
    \/ verdictOn.replicas = 0
    \/ verdictOn.observed > Edited
    \/ verdictOn.observed < Edited /\ now >= start.upgrade + Interval

(* Both polls come to an end whatever the cluster does: the timer of the   *)
(* select is never reset by a tick.                                        *)
PollsEnd == \A p \in Poller : <>(place[p] = "returned")
=============================================================================
