---------------------------- MODULE ParallelCall ----------------------------
(***************************************************************************)
(* What a call that fans out promises its caller, with no goroutine, mutex *)
(* or channel in sight: every worker comes to one report, which never      *)
(* changes, and the call answers once, when all have, with "failure"       *)
(* exactly if one of them reported a failure.  The ...Parallel methods of  *)
(* pkg/utils/ssh_session_pool.go keep it for their hosts, CopyMultiFile of *)
(* remote.go for its files, ApplyYAMLs of kubernetes/apply.go for its      *)
(* manifests.                                                              *)
(***************************************************************************)
CONSTANT Worker

VARIABLES report, answer

callVars == <<report, answer>>

Init ==
  /\ report = [w \in Worker |-> "none"]
  /\ answer = "none"

Settle(w) ==
  /\ report[w] = "none"
  /\ \E r \in {"silent", "success", "failure"} :
       report' = [report EXCEPT ![w] = r]
  /\ UNCHANGED answer

Answer ==
  /\ answer = "none"
  /\ \A w \in Worker : report[w] # "none"
  /\ answer' = IF \E w \in Worker : report[w] = "failure"
                 THEN "failure" ELSE "success"
  /\ UNCHANGED report

Next == (\E w \in Worker : Settle(w)) \/ Answer

Spec == Init /\ [][Next]_callVars
=============================================================================
