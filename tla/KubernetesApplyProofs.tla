------------------------ MODULE KubernetesApplyProofs ------------------------
(***************************************************************************)
(* Proofs about apply.go. First, applying manifests: for any finite set    *)
(* of manifests, any objects they describe and any number of attempts      *)
(* (ApplyAssumption). Then rolling out an image and polling statuses: for  *)
(* any poll interval, timeouts and images (RolloutAssumption).             *)
(***************************************************************************)
EXTENDS KubernetesApply, Rollout, FiniteSetTheorems, TLAPS

(* A goroutine that updates has found its object, and so its kind is       *)
(* cluster-wide; ApplyYAML's outcome is there once it has returned, and    *)
(* only an error leads through the clearing of overallSuccess.             *)
Placed ==
  \A f \in File :
    /\ pc[f] = "update" => kind[f] = "cluster"
    /\ outcome[f] # "none" <=> pc[f] \in {"failed", "append", "done"}
    /\ pc[f] = "failed" => outcome[f] = "error"

(* A success is a write the server has accepted, and an accepted write is  *)
(* a success, or the client was not told.                                  *)
Booked ==
  \A f \in File :
    /\ outcome[f] = "nil" => f \in wrote
    /\ f \in wrote => f \in unheard \/ outcome[f] = "nil"

(* overallSuccess is cleared when the first error has passed its lock.     *)
Cleared ==
  success <=> \A f \in File : outcome[f] = "error" => pc[f] = "failed"

(* The results are those of the goroutines that are done, one each.        *)
ResultOf(f) == [file |-> f, ok |-> outcome[f] = "nil"]

Collected ==
  /\ \A f \in File : pc[f] = "done" => ResultOf(f) \in results
  /\ \A r \in results : pc[r.file] = "done" /\ r = ResultOf(r.file)

(* A call that has returned has waited for every goroutine.                *)
AllDone == returned => \A f \in File : pc[f] = "done"

ApplyInv == TypeOK /\ Placed /\ Booked /\ Cleared /\ Collected /\ AllDone

----------------------------------------------------------------------------
LEMMA InitInv == Init => ApplyInv
<1> SUFFICES ASSUME Init PROVE ApplyInv
  OBVIOUS
<1> USE ApplyAssumption DEF Init
<1>1. stored \in [Keys -> File \cup {None, "earlier"}]
  <2>1. PICK there \in SUBSET Keys :
          stored = [k \in Keys |-> IF k \in there THEN "earlier" ELSE None]
    OBVIOUS
  <2> QED BY <2>1
<1>2. attempt \in [File -> 0..Steps] OBVIOUS
<1>3. TypeOK BY <1>1, <1>2 DEF TypeOK
<1>4. Placed /\ Booked /\ Cleared /\ Collected /\ AllDone
  BY DEF Placed, Booked, Cleared, Collected, AllDone
<1> QED BY <1>3, <1>4 DEF ApplyInv

(* The type invariant at a step of f.                                      *)
LEMMA StepTypeOK ==
  ASSUME ApplyInv, NEW f \in File, Goroutine(f)
  PROVE  TypeOK'
<1> USE ApplyAssumption DEF TypeOK, ApplyInv, Goto, Returns
<1>1. CASE ReadError(f) BY <1>1 DEF ReadError
<1>2. CASE ParseError(f) BY <1>2 DEF ParseError
<1>3. CASE ParsePanics(f) BY <1>3 DEF ParsePanics
<1>4. CASE Parsed(f) BY <1>4 DEF Parsed
<1>5. CASE Get(f) BY <1>5 DEF Get
<1>6. CASE RequestError(f) BY <1>6 DEF RequestError
<1>7. CASE CreateRefused(f) BY <1>7 DEF CreateRefused
<1>8. CASE Write(f)
  <2>1. Key(f) \in Keys BY <1>8 DEF Write, Key, Keys
  <2> QED BY <1>8, <2>1 DEF Write
<1>9. CASE ServerTimeout(f) BY <1>9 DEF ServerTimeout
<1>10. CASE Backoff(f) BY <1>10 DEF Backoff
<1>11. CASE ClearSuccess(f) BY <1>11 DEF ClearSuccess
<1>12. CASE AppendResult(f)
  <2>1. [file |-> f, ok |-> outcome[f] = "nil"] \in [file : File, ok : BOOLEAN]
    OBVIOUS
  <2>2. results' \subseteq [file : File, ok : BOOLEAN]
    BY <1>12, <2>1 DEF AppendResult
  <2> QED BY <1>12, <2>2 DEF AppendResult
<1> QED BY <1>1, <1>2, <1>3, <1>4, <1>5, <1>6, <1>7, <1>8, <1>9, <1>10, <1>11,
           <1>12
        DEF Goroutine, Parse, CreateOrUpdate

(* Where f is, what is booked of it and whether overallSuccess is cleared, *)
(* at a step of f; the other manifests are left alone.                     *)
LEMMA StepBooks ==
  ASSUME ApplyInv, NEW f \in File, Goroutine(f)
  PROVE  Placed' /\ Booked' /\ Cleared'
<1> USE DEF TypeOK, ApplyInv, Placed, Booked, Cleared, Goto, Returns
<1>1. CASE ReadError(f) BY <1>1 DEF ReadError
<1>2. CASE ParseError(f) BY <1>2 DEF ParseError
<1>3. CASE ParsePanics(f) BY <1>3 DEF ParsePanics
<1>4. CASE Parsed(f) BY <1>4 DEF Parsed
<1>5. CASE Get(f) BY <1>5 DEF Get, Found
<1>6. CASE RequestError(f) BY <1>6 DEF RequestError
<1>7. CASE CreateRefused(f) BY <1>7 DEF CreateRefused
<1>8. CASE Write(f) BY <1>8 DEF Write
<1>9. CASE ServerTimeout(f) BY <1>9 DEF ServerTimeout
<1>10. CASE Backoff(f) BY <1>10 DEF Backoff
<1>11. CASE ClearSuccess(f) BY <1>11 DEF ClearSuccess
<1>12. CASE AppendResult(f) BY <1>12 DEF AppendResult
<1> QED BY <1>1, <1>2, <1>3, <1>4, <1>5, <1>6, <1>7, <1>8, <1>9, <1>10, <1>11,
           <1>12
        DEF Goroutine, Parse, CreateOrUpdate

(* The results at a step of f: its own is added when f is done, and what   *)
(* ApplyYAML returned for a manifest that is done does not change.         *)
LEMMA StepResults ==
  ASSUME ApplyInv, NEW f \in File, Goroutine(f)
  PROVE  Collected' /\ AllDone'
<1> USE DEF ApplyInv, TypeOK, Goto, Returns
<1>1. pc[f] # "done" /\ returned' = returned
  BY DEF Goroutine, Parse, CreateOrUpdate, ReadError, ParseError, ParsePanics,
         Parsed, Get, RequestError, CreateRefused, Write, ServerTimeout,
         Backoff, ClearSuccess, AppendResult
<1>2. AllDone' BY <1>1 DEF AllDone
<1>3. CASE AppendResult(f)
  <2>1. /\ results' = results \cup {ResultOf(f)} /\ outcome' = outcome
        /\ pc' = [pc EXCEPT ![f] = "done"]
    BY <1>3 DEF AppendResult, ResultOf
  <2>2. ASSUME NEW g \in File, pc'[g] = "done"
        PROVE  ResultOf(g)' \in results'
    <3>1. ResultOf(g)' = ResultOf(g) BY <2>1 DEF ResultOf
    <3>2. g = f \/ pc[g] = "done" BY <2>1, <2>2
    <3> QED BY <2>1, <3>1, <3>2 DEF Collected
  <2>3. ASSUME NEW r \in results'
        PROVE  pc'[r.file] = "done" /\ r = ResultOf(r.file)'
    <3>1. ResultOf(r.file)' = ResultOf(r.file) BY <2>1 DEF ResultOf
    <3>2. CASE r = ResultOf(f)
      <4>1. r.file = f BY <3>2 DEF ResultOf
      <4> QED BY <2>1, <3>1, <3>2, <4>1
    <3>3. CASE r \in results
      <4>1. pc[r.file] = "done" /\ r = ResultOf(r.file) /\ r.file \in File
        BY <3>3 DEF Collected
      <4> QED BY <2>1, <3>1, <4>1
    <3> QED BY <2>1, <2>3, <3>2, <3>3
  <2> QED BY <1>2, <2>2, <2>3 DEF Collected
<1>4. CASE ~AppendResult(f)
  <2>1. /\ results' = results /\ pc'[f] # "done"
        /\ \A g \in File \ {f} : pc'[g] = pc[g] /\ outcome'[g] = outcome[g]
    BY <1>4 DEF Goroutine, Parse, CreateOrUpdate, ReadError, ParseError,
         ParsePanics, Parsed, Get, RequestError, CreateRefused, Write,
         ServerTimeout, Backoff, ClearSuccess
  <2>2. ASSUME NEW g \in File, pc'[g] = "done"
        PROVE  ResultOf(g)' \in results'
    <3>1. g # f /\ pc[g] = "done" BY <2>1, <2>2
    <3>2. ResultOf(g)' = ResultOf(g) BY <2>1, <3>1 DEF ResultOf
    <3> QED BY <2>1, <3>1, <3>2 DEF Collected
  <2>3. ASSUME NEW r \in results'
        PROVE  pc'[r.file] = "done" /\ r = ResultOf(r.file)'
    <3>1. /\ r \in results /\ r.file \in File
          /\ pc[r.file] = "done" /\ r = ResultOf(r.file)
      BY <2>1, <2>3 DEF Collected
    <3>2. r.file \in File \ {f} BY <1>1, <3>1
    <3>3. ResultOf(r.file)' = ResultOf(r.file) BY <2>1, <3>2 DEF ResultOf
    <3> QED BY <2>1, <3>1, <3>2, <3>3
  <2> QED BY <1>2, <2>2, <2>3 DEF Collected
<1> QED BY <1>2, <1>3, <1>4

LEMMA Inductive == Spec => []ApplyInv
<1>1. ApplyInv /\ [Next]_vars => ApplyInv'
  <2> SUFFICES ASSUME ApplyInv, [Next]_vars PROVE ApplyInv'
    OBVIOUS
  <2>1. ASSUME NEW f \in File, Goroutine(f) PROVE ApplyInv'
    BY <2>1, StepTypeOK, StepBooks, StepResults DEF ApplyInv
  <2>2. CASE Return
    BY <2>2 DEF Return, ApplyInv, TypeOK, Placed, Booked, Cleared, Collected,
                ResultOf, AllDone
  <2>3. CASE Stopped \/ UNCHANGED vars
    BY <2>3 DEF Stopped, vars, ApplyInv, TypeOK, Placed, Booked, Cleared,
                Collected, ResultOf, AllDone
  <2> QED BY <2>1, <2>2, <2>3 DEF Next
<1> QED BY <1>1, InitInv, PTL DEF Spec

----------------------------------------------------------------------------
(* The manifests, the API server's objects and the results keep their type.*)
THEOREM ApplyTypeCorrect == Spec => []TypeOK
<1>1. ApplyInv => TypeOK BY DEF ApplyInv
<1> QED BY <1>1, Inductive, PTL

(* Once every goroutine is done there is one result per manifest.          *)
LEMMA OneResultEach ==
  ASSUME TypeOK, Collected, \A f \in File : pc[f] = "done"
  PROVE  Cardinality(results) = Cardinality(File)
<1> DEFINE answers == [f \in File |-> ResultOf(f)]
<1>1. answers \in [File -> results] BY DEF Collected
<1>2. \A f, g \in File : answers[f] = answers[g] => f = g BY DEF ResultOf
<1>3. \A r \in results : \E f \in File : answers[f] = r
  BY DEF Collected, TypeOK
<1> HIDE DEF answers
<1>4. answers \in Bijection(File, results)
  BY <1>1, <1>2, <1>3 DEF Bijection, Injection, Surjection, IsInjective
<1>5. ExistsBijection(File, results) BY <1>4 DEF ExistsBijection
<1> QED BY <1>5, ApplyAssumption, FS_Bijection

(* The answer of ApplyYAMLs and DeployYAMLs (apply.go) has one result per  *)
(* manifest, succeeds as a whole exactly if each of them does, and says of *)
(* each what happened to the cluster, unless an answer of the API server   *)
(* was missed.                                                             *)
THEOREM AnswerIsHonest == Spec => []AnswerIsTrue
<1>1. ApplyInv => AnswerIsTrue
  <2> SUFFICES ASSUME ApplyInv, returned PROVE AnswerIsTrue
    BY DEF AnswerIsTrue
  <2>1. \A f \in File : pc[f] = "done" BY DEF ApplyInv, AllDone
  <2>2. Cardinality(results) = Cardinality(File)
    BY <2>1, OneResultEach DEF ApplyInv
  <2>3. \A f \in File : outcome[f] \in {"nil", "error"}
    BY <2>1 DEF ApplyInv, TypeOK, Placed
  <2>4. success <=> \A f \in File : outcome[f] = "nil"
    BY <2>1, <2>3 DEF ApplyInv, Cleared
  <2>5. (\A f \in File : outcome[f] = "nil") <=> \A r \in results : r.ok
    <3>1. \A r \in results : r.file \in File /\ r.ok = (outcome[r.file] = "nil")
      BY DEF ApplyInv, TypeOK, Collected, ResultOf
    <3>2. \A f \in File : \E r \in results : r.file = f
      BY <2>1 DEF ApplyInv, Collected, ResultOf
    <3> QED BY <3>1, <3>2
  <2>6. \A r \in results : IF r.ok THEN r.file \in wrote
                           ELSE r.file \in wrote => r.file \in unheard
    BY DEF ApplyInv, TypeOK, Collected, ResultOf, Booked
  <2>7. success = \A r \in results : r.ok
    BY <2>4, <2>5 DEF ApplyInv, TypeOK
  <2> QED BY <2>2, <2>6, <2>7 DEF AnswerIsTrue
<1> QED BY <1>1, Inductive, PTL

(* The refinement of ParallelCall: a manifest settles when its result is   *)
(* appended; what the results say of it is what ApplyYAML returned.        *)
LEMMA ReportOfEach ==
  ASSUME ApplyInv
  PROVE  report = [f \in File |->
           IF pc[f] # "done" THEN "none"
           ELSE IF outcome[f] = "nil" THEN "success" ELSE "failure"]
<1>1. SUFFICES ASSUME NEW f \in File
               PROVE  report[f] = IF pc[f] # "done" THEN "none"
                        ELSE IF outcome[f] = "nil" THEN "success" ELSE "failure"
  BY DEF report
<1>2. ASSUME NEW b \in BOOLEAN, [file |-> f, ok |-> b] \in results
      PROVE  pc[f] = "done" /\ (b <=> outcome[f] = "nil")
  BY <1>2 DEF ApplyInv, Collected, ResultOf
<1>3. pc[f] = "done" => [file |-> f, ok |-> outcome[f] = "nil"] \in results
  BY DEF ApplyInv, Collected, ResultOf
<1> QED BY <1>1, <1>2, <1>3 DEF report

LEMMA ResultSettles ==
  ASSUME ApplyInv, NEW f \in File, AppendResult(f)
  PROVE  Applying!Settle(f)
<1> DEFINE b == outcome[f] = "nil"
           pushed == [file |-> f, ok |-> b]
           o == IF b THEN "success" ELSE "failure"
<1>1. /\ results' = results \cup {pushed} /\ b \in BOOLEAN /\ pc[f] # "done"
      /\ returned' = returned /\ success' = success
  BY DEF AppendResult
<1>2. report[f] = "none"
  BY <1>1, ReportOfEach
<1>3. \A g, s : [file |-> g, ok |-> s] \in results' <=>
                  [file |-> g, ok |-> s] \in results \/ (g = f /\ s = b)
  <2>1. \A g, s : [file |-> g, ok |-> s] = pushed <=> g = f /\ s = b
    BY Zenon
  <2> HIDE DEF pushed
  <2> QED BY <1>1, <2>1
<1> HIDE DEF pushed
<1>4. /\ [file |-> f, ok |-> TRUE] \notin results
      /\ [file |-> f, ok |-> FALSE] \notin results
  BY <1>2 DEF report
<1>5. report'[f] = o
  BY <1>1, <1>3, <1>4 DEF report
<1>6. \A g \in File \ {f} : report'[g] = report[g]
  BY <1>3 DEF report
<1>7. report' = [report EXCEPT ![f] = o]
  BY <1>5, <1>6 DEF report
<1> QED BY <1>1, <1>2, <1>7 DEF Applying!Settle, answer

LEMMA ReturnAnswers ==
  ASSUME ApplyInv, Return
  PROVE  Applying!Answer
<1>1. /\ ~returned /\ returned' = TRUE /\ success' = success /\ results' = results
      /\ \A f \in File : pc[f] = "done"
  BY DEF Return
<1>2. \A f \in File : outcome[f] \in {"nil", "error"}
  BY <1>1 DEF ApplyInv, TypeOK, Placed
<1>3. \A f \in File : report[f] = IF outcome[f] = "nil" THEN "success" ELSE "failure"
  BY <1>1, ReportOfEach
<1>4. success <=> \A f \in File : outcome[f] = "nil"
  BY <1>1, <1>2 DEF ApplyInv, Cleared
<1> QED BY <1>1, <1>2, <1>3, <1>4 DEF Applying!Answer, answer, report

(* ApplyYAMLs and DeployYAMLs implement the atomic call over their         *)
(* manifests: overallSuccess, which has a lock of its own and is cleared   *)
(* before the result is appended, is the failure of one of the results     *)
(* that are answered, and no result comes after the answer.                *)
THEOREM ApplyIsACall == Spec => ApplyImplementsCall
<1>1. Init => Applying!Init
  BY DEF Init, Applying!Init, report, answer
<1>2. ASSUME ApplyInv, [Next]_vars PROVE [Applying!Next]_(Applying!callVars)
  <2>1. ASSUME NEW f \in File, Goroutine(f), ~AppendResult(f)
        PROVE  UNCHANGED Applying!callVars
    <3>1. results' = results /\ returned' = returned
      BY <2>1
      DEF Goroutine, Parse, ReadError, ParseError, ParsePanics, Parsed, CreateOrUpdate,
          Get, RequestError, CreateRefused, Write, ServerTimeout, Backoff, ClearSuccess
    <3>2. returned => success' = success
      <4>1. returned => pc[f] = "done"
        BY <1>2 DEF ApplyInv, AllDone
      <4> QED BY <2>1, <4>1
          DEF Goroutine, Parse, ReadError, ParseError, ParsePanics, Parsed, CreateOrUpdate,
              Get, RequestError, CreateRefused, Write, ServerTimeout, Backoff, ClearSuccess
    <3> QED BY <3>1, <3>2 DEF Applying!callVars, report, answer
  <2>2. ASSUME NEW f \in File, AppendResult(f) PROVE Applying!Next
    BY <1>2, <2>2, ResultSettles DEF Applying!Next
  <2>3. ASSUME Return PROVE Applying!Next
    BY <1>2, <2>3, ReturnAnswers DEF Applying!Next
  <2>4. CASE Stopped \/ UNCHANGED vars
    BY <2>4 DEF Stopped, vars, Applying!callVars, report, answer
  <2> QED BY <1>2, <2>1, <2>2, <2>3, <2>4 DEF Next
<1> QED BY <1>1, <1>2, Inductive, PTL DEF Spec, ApplyImplementsCall, Applying!Spec

(* createOrUpdateResource (utils.go) looks its object up without a         *)
(* namespace: an object that is in one and exists is never changed.        *)
THEOREM NamespacedKept == Spec => NamespacedNeverUpdated
<1>1. ASSUME ApplyInv, [Next]_vars, NEW k \in Keys,
             k[1] = "namespaced", stored[k] # None
      PROVE  stored'[k] = stored[k]
  <2>1. CASE \E f \in File : Write(f)
    <3>1. PICK f \in File : Write(f) BY <2>1
    <3>2. Key(f) # k
      BY <1>1, <3>1 DEF Write, Key, ApplyInv, Placed, TypeOK
    <3> QED BY <1>1, <3>1, <3>2 DEF Write, ApplyInv, TypeOK
  <2>2. CASE ~\E f \in File : Write(f)
    <3>1. stored' = stored
      BY <1>1, <2>2 DEF Next, Goroutine, Parse, CreateOrUpdate, ReadError,
         ParseError, ParsePanics, Parsed, Get, RequestError, CreateRefused,
         ServerTimeout, Backoff, ClearSuccess, AppendResult, Return, Stopped,
         vars
    <3> QED BY <3>1
  <2> QED BY <2>1, <2>2
<1>2. ApplyInv /\ [Next]_vars =>
        [\A k \in Keys : k[1] = "namespaced" /\ stored[k] # None
                           => stored'[k] = stored[k]]_stored
  BY <1>1
<1> QED BY <1>2, Inductive, PTL DEF Spec, NamespacedNeverUpdated
----------------------------------------------------------------------------
(* Rollouts: the rest of apply.go, for any poll interval and timeouts, any *)
(* number of pods and any set of images that become ready.                 *)

(* A Deployment is edited once by the upgrade and once by its rollback,    *)
(* besides the edits of others.                                            *)
FewEdits ==
  /\ place["upgrade"] \in {"get", "update"} => version <= 2
  /\ place["upgrade"] # "returned" => version <= 3

(* The controller takes up what has been edited; while waitForRollout      *)
(* polls, its own edit is still there, or a later one of somebody else.    *)
Followed ==
  /\ status.observed <= version
  /\ place["upgrade"] = "poll" =>
       /\ Edited <= version
       /\ Edited = version => image = "new"
       /\ status.observed = Edited => status.of = "new"

(* The first tick of a poll is a poll interval after its start.            *)
Ripe ==
  /\ start["upgrade"] <= now
  /\ place["upgrade"] \in {"get", "update"} => ~tick["upgrade"]
  /\ place["upgrade"] = "poll" /\ tick["upgrade"] => start["upgrade"] + Interval <= now

(* The verdict is the last thing the upgrade comes to.                     *)
VerdictStands ==
  result["upgrade"] = "rolledOut" =>
    /\ place["upgrade"] = "returned"
    /\ RolledOutMeansReady

RolloutInv == RolloutTypeOK /\ FewEdits /\ Followed /\ Ripe /\ VerdictStands

LEMMA RolloutInitInv ==
  ASSUME RolloutInit PROVE RolloutInv
<1> USE DEF RolloutInit, Poller
<1>1. status \in Status /\ verdictOn \in Verdict /\ image \in Image
  BY RolloutAssumption DEF Status, Verdict, Image
<1>2. /\ place["upgrade"] = "get" /\ place["check"] = "poll"
      /\ place \in [{"upgrade", "check"} -> {"get", "poll"}]
  OBVIOUS
<1>3. RolloutTypeOK
  BY <1>1, <1>2, RolloutAssumption DEF RolloutTypeOK
<1>4. FewEdits /\ Followed
  <2>1. version = 0 /\ status.observed = 0
    OBVIOUS
  <2> QED BY <1>2, <2>1 DEF FewEdits, Followed
<1>5. Ripe
  <2>1. start["upgrade"] = 0 /\ now = 0 /\ tick["upgrade"] = FALSE
    OBVIOUS
  <2> QED BY <1>2, <2>1 DEF Ripe
<1>6. VerdictStands
  <2>1. result["upgrade"] = "none"
    OBVIOUS
  <2> QED BY <2>1 DEF VerdictStands
<1> QED BY <1>3, <1>4, <1>5, <1>6 DEF RolloutInv

(* What a poll that returns, or goes on, leaves of the types.              *)
LEMMA Places ==
  ASSUME RolloutTypeOK, NEW p \in Poller,
         NEW l \in {"get", "update", "poll", "rollback", "choose", "restore", "returned"},
         GoTo(p, l)
  PROVE  /\ place' \in [Poller -> {"get", "update", "poll", "rollback", "choose",
                                        "restore", "returned"}]
         /\ place'[p] = l
         /\ \A q \in Poller \ {p} : place'[q] = place[q]
BY DEF GoTo, RolloutTypeOK

LEMMA RolloutReturns ==
  ASSUME RolloutTypeOK, NEW p \in Poller,
         NEW r \in {"unchanged", "error", "panic", "rolledBack", "true", "false", "rolledOut"},
         Answers(p, r)
  PROVE  /\ result' \in [Poller -> {"none", "rolledOut", "unchanged", "error", "panic",
                                         "rolledBack", "true", "false"}]
         /\ result'[p] = r
         /\ \A q \in Poller \ {p} : result'[q] = result[q]
         /\ GoTo(p, "returned")
BY DEF Answers, RolloutTypeOK

(* A positive multiple of an interval is no less than it.                  *)
LEMMA FirstTick ==
  ASSUME NEW i \in Nat \ {0}, NEW d \in Nat, d # 0, d % i = 0
  PROVE  i <= d
BY SMT

(* A step that is neither the upgrade's nor an edit.                       *)
LEMMA UpgradeUntouched ==
  ASSUME RolloutInv, RolloutTypeOK', now <= now',
         UNCHANGED <<start, image, version, seen, verdictOn>>,
         place'["upgrade"] = place["upgrade"], result'["upgrade"] = result["upgrade"],
         status' = status, tick'["upgrade"] = tick["upgrade"]
  PROVE  RolloutInv'
<1>1. /\ now \in Nat /\ now' \in Nat /\ start["upgrade"] \in Nat /\ Interval \in Nat
  BY RolloutAssumption DEF RolloutInv, RolloutTypeOK, Poller
<1>2. FewEdits' /\ Followed' /\ Ripe'
  BY <1>1 DEF RolloutInv, FewEdits, Followed, Ripe, Edited
<1>3. VerdictStands'
  <2>1. now' >= now /\ Edited' = Edited
    BY <1>1 DEF Edited
  <2>2. now >= start["upgrade"] + Interval => now' >= start'["upgrade"] + Interval
    BY <1>1
  <2>3. RolledOutMeansReady => RolledOutMeansReady'
    BY <2>1, <2>2 DEF RolledOutMeansReady
  <2> QED BY <2>3 DEF RolloutInv, VerdictStands
<1> QED BY <1>2, <1>3 DEF RolloutInv

(* The clock and the cluster.                                              *)
LEMMA ClockStep ==
  ASSUME RolloutInv, Clock
  PROVE  RolloutInv'
<1>1. /\ now \in Nat /\ Horizon \in Nat /\ now <= Horizon /\ Interval \in Nat
      /\ start["upgrade"] \in Nat /\ "upgrade" \in Poller
  BY RolloutAssumption DEF RolloutInv, RolloutTypeOK, Poller
<1>2. /\ now' = now + 1 /\ now' \in 0..Horizon
      /\ UNCHANGED <<timeout, start, place, result, image, version, status, labelled,
                     seen, verdictOn>>
  BY <1>1 DEF Clock, cluster
<1>3. /\ tick' \in [Poller -> BOOLEAN]
      /\ tick'["upgrade"] <=> \/ tick["upgrade"]
                              \/ /\ place["upgrade"] = "poll"
                                 /\ (now' - start["upgrade"]) % Interval = 0
  <2>1. /\ tick' = [p \in Poller |->
             tick[p] \/ (place[p] = "poll" /\ (now' - start[p]) % Interval = 0)]
        /\ tick \in [Poller -> BOOLEAN]
    BY DEF Clock, RolloutInv, RolloutTypeOK
  <2> QED BY <1>1, <2>1
<1>4. RolloutTypeOK'
  BY <1>2, <1>3 DEF RolloutInv, RolloutTypeOK, Status, Verdict, Image
<1>5. Ripe'
  <2>1. start["upgrade"] <= now
    BY DEF RolloutInv, Ripe
  <2>2. now' - start["upgrade"] \in Nat /\ now' - start["upgrade"] # 0
    BY <1>1, <1>2, <2>1
  <2>3. (now' - start["upgrade"]) % Interval = 0 =>
           start["upgrade"] + Interval <= now'
    BY <1>1, <1>2, <2>2, FirstTick, RolloutAssumption
  <2> QED BY <1>1, <1>2, <1>3, <2>1, <2>3 DEF RolloutInv, Ripe
<1>6. FewEdits' /\ Followed'
  BY <1>2 DEF RolloutInv, FewEdits, Followed, Edited
<1>7. VerdictStands'
  BY <1>1, <1>2 DEF RolloutInv, VerdictStands, RolledOutMeansReady, Edited
<1> QED BY <1>4, <1>5, <1>6, <1>7 DEF RolloutInv

LEMMA WorldStep ==
  ASSUME RolloutInv, Environment
  PROVE  RolloutInv'
<1>1. UNCHANGED <<now, timeout, start, tick, place, result, labelled, seen, verdictOn>>
  BY DEF Environment, Observe, OtherEdit
<1>2. /\ version \in 0..4 /\ image \in Image /\ seen \in 0..4
      /\ status \in Status /\ status.observed \in 0..4
  BY DEF RolloutInv, RolloutTypeOK, Status
<1>3. Ripe' /\ VerdictStands'
  BY <1>1 DEF RolloutInv, Ripe, VerdictStands, RolledOutMeansReady, Edited
<1>4. CASE Observe
  <2>1. /\ status' = [observed |-> version, of |-> image]
        /\ status'.observed = version /\ status'.of = image
        /\ image' = image /\ version' = version
    BY <1>4 DEF Observe
  <2>2. status' \in Status
    BY <1>2, <2>1 DEF Status
  <2>3. RolloutTypeOK'
    BY <1>1, <2>1, <2>2 DEF RolloutInv, RolloutTypeOK, Verdict, Image
  <2>4. FewEdits' /\ Followed'
    BY <1>1, <1>2, <2>1 DEF RolloutInv, FewEdits, Followed, Edited
  <2> QED BY <1>3, <2>3, <2>4 DEF RolloutInv
<1>5. CASE OtherEdit
  <2>1. version < 2 /\ version' = version + 1 /\ image' = "other" /\ status' = status
    BY <1>5 DEF OtherEdit
  <2>2. RolloutTypeOK'
    BY <1>1, <1>2, <2>1 DEF RolloutInv, RolloutTypeOK, Verdict, Status, Image
  <2>3. FewEdits' /\ Followed'
    BY <1>1, <1>2, <2>1 DEF RolloutInv, FewEdits, Followed, Edited
  <2> QED BY <1>3, <2>2, <2>3 DEF RolloutInv
<1> QED BY <1>4, <1>5 DEF Environment

(* The check.                                                              *)
LEMMA CheckStep ==
  ASSUME RolloutInv, Check
  PROVE  RolloutInv'
<1>1. /\ UNCHANGED <<now, timeout, start, image, version, status, labelled, seen,
                     verdictOn>>
      /\ tick' \in [Poller -> BOOLEAN] /\ tick'["upgrade"] = tick["upgrade"]
  <2>1. tick \in [Poller -> BOOLEAN] /\ "upgrade" \in Poller
    BY DEF RolloutInv, RolloutTypeOK, Poller
  <2> QED BY <2>1 DEF Check, CheckTimeout, CheckListError, CheckStatuses, Consume, cluster
<1>2. now <= now'
  BY <1>1, RolloutAssumption DEF RolloutInv, RolloutTypeOK
<1>3. \/ \E r \in {"true", "false", "error"} : Answers("check", r)
      \/ UNCHANGED <<place, result>>
  BY DEF Check, CheckTimeout, CheckListError, CheckStatuses
<1>4. CASE UNCHANGED <<place, result>>
  <2>1. RolloutTypeOK'
    BY <1>1, <1>4 DEF RolloutInv, RolloutTypeOK, Status, Verdict, Image
  <2> QED BY <1>1, <1>2, <1>4, <2>1, UpgradeUntouched
<1>5. ASSUME NEW r \in {"true", "false", "error"}, Answers("check", r)
      PROVE  RolloutInv'
  <2>1. "check" \in Poller /\ "upgrade" \in Poller \ {"check"}
    BY DEF Poller
  <2>2. /\ result' \in [Poller -> {"none", "rolledOut", "unchanged", "error", "panic",
                                        "rolledBack", "true", "false"}]
        /\ result'["upgrade"] = result["upgrade"]
        /\ GoTo("check", "returned")
    BY <1>5, <2>1, RolloutReturns DEF RolloutInv
  <2>3. /\ place' \in [Poller -> {"get", "update", "poll", "rollback", "choose",
                                       "restore", "returned"}]
        /\ place'["upgrade"] = place["upgrade"]
    BY <2>1, <2>2, Places DEF RolloutInv
  <2>4. RolloutTypeOK'
    BY <1>1, <2>2, <2>3 DEF RolloutInv, RolloutTypeOK, Status, Verdict, Image
  <2> QED BY <1>1, <1>2, <2>2, <2>3, <2>4, UpgradeUntouched
<1> QED BY <1>3, <1>4, <1>5

(* A look that finds the three counts equal: the pods are of the new image *)
(* and ready, or there are none, or the status is of another edit.         *)
LEMMA EqualCounts ==
  ASSUME RolloutInv, Ticked("upgrade"), NEW c \in Counts, RolledOut(c),
         verdictOn' = [observed |-> status.observed, of |-> status.of,
                       updated |-> c.updated, replicas |-> c.replicas,
                       ready |-> c.ready],
         UNCHANGED <<now, start, seen>>
  PROVE  verdictOn' \in Verdict /\ RolledOutMeansReady'
<1>1. /\ status \in Status /\ status.observed \in 0..4 /\ seen \in 0..4 /\ Pods \in Nat
  BY RolloutAssumption DEF RolloutInv, RolloutTypeOK, Status
<1>2. /\ c.updated \in 0..Pods /\ c.replicas \in 0..Pods /\ c.ready \in 0..Pods
      /\ status.of \notin Good => c.updated + c.ready <= c.replicas
      /\ c.updated = c.replicas /\ c.ready = c.replicas
  BY DEF Counts, RolledOut
<1>3. /\ verdictOn'.observed = status.observed /\ verdictOn'.of = status.of
      /\ verdictOn'.updated = c.updated /\ verdictOn'.replicas = c.replicas
      /\ verdictOn'.ready = c.ready /\ verdictOn' \in Verdict
  BY <1>1, <1>2 DEF Verdict, Status
<1>4. status.observed = Edited => status.of = "new"
  BY DEF RolloutInv, Followed, Ticked
<1>5. c.replicas # 0 => status.of \in Good
  BY <1>1, <1>2
<1>6. start["upgrade"] + Interval <= now
  BY DEF RolloutInv, Ripe, Ticked
<1>7. now >= start["upgrade"] + Interval
  BY <1>6, RolloutAssumption DEF RolloutInv, RolloutTypeOK, Poller
<1> QED BY <1>1, <1>2, <1>3, <1>4, <1>5, <1>7 DEF RolledOutMeansReady, Edited

(* The upgrade and its rollback.                                           *)
LEMMA UpgradeStep ==
  ASSUME RolloutInv,
         UpgradeDeployment \/ RollbackDeployment
  PROVE  RolloutInv'
<1>1. /\ "upgrade" \in Poller /\ version \in 0..4 /\ seen \in 0..4
      /\ now \in 0..Horizon /\ Horizon \in Nat /\ Interval \in Nat /\ image \in Image
      /\ status \in Status /\ status.observed \in 0..4 /\ verdictOn \in Verdict
      /\ tick \in [Poller -> BOOLEAN] /\ start \in [Poller -> 0..Horizon]
      /\ timeout \in [Poller -> Timeouts]
      /\ place \in [Poller -> {"get", "update", "poll", "rollback", "choose",
                                    "restore", "returned"}]
      /\ result \in [Poller -> {"none", "rolledOut", "unchanged", "error", "panic",
                                     "rolledBack", "true", "false"}]
      /\ labelled \in BOOLEAN
  BY RolloutAssumption DEF RolloutInv, RolloutTypeOK, Poller, Status
<1>2. result["upgrade"] = "rolledOut" => place["upgrade"] = "returned"
  BY DEF RolloutInv, VerdictStands
(* It goes on to another place, or returns; the edits it makes.            *)
<1>3. ASSUME NEW l \in {"update", "poll", "rollback", "choose", "restore"},
             GoTo("upgrade", l), result' = result, place["upgrade"] # "returned",
             UNCHANGED <<timeout, now, status, labelled, verdictOn>>,
             start' \in [Poller -> 0..Horizon], tick' = tick,
             image' \in Image, seen' \in 0..4, version' \in 0..4,
             version' <= 3, l = "update" => version' <= 2,
             Followed', Ripe'
      PROVE  RolloutInv'
  <2>1. /\ place' \in [Poller -> {"get", "update", "poll", "rollback", "choose",
                                       "restore", "returned"}]
        /\ place'["upgrade"] = l
    BY <1>1, <1>3, Places DEF RolloutInv
  <2>2. RolloutTypeOK'
    BY <1>1, <1>3, <2>1 DEF RolloutTypeOK, Status, Verdict, Image, Poller
  <2>3. FewEdits' /\ VerdictStands'
    BY <1>2, <1>3, <2>1 DEF FewEdits, VerdictStands
  <2> QED BY <1>3, <2>2, <2>3 DEF RolloutInv
<1>4. ASSUME NEW r \in {"unchanged", "error", "panic", "rolledBack", "rolledOut"},
             Answers("upgrade", r),
             UNCHANGED <<now, timeout, start, status, labelled, seen>>,
             tick' \in [Poller -> BOOLEAN],
             image' \in Image, version' \in 0..4, version <= version',
             verdictOn' \in Verdict, r = "rolledOut" => RolledOutMeansReady'
      PROVE  RolloutInv'
  <2>1. /\ result' \in [Poller -> {"none", "rolledOut", "unchanged", "error", "panic",
                                        "rolledBack", "true", "false"}]
        /\ result'["upgrade"] = r /\ GoTo("upgrade", "returned")
    BY <1>1, <1>4, RolloutReturns DEF RolloutInv
  <2>2. /\ place' \in [Poller -> {"get", "update", "poll", "rollback", "choose",
                                       "restore", "returned"}]
        /\ place'["upgrade"] = "returned"
    BY <1>1, <2>1, Places DEF RolloutInv
  <2>3. RolloutTypeOK'
    BY <1>1, <1>4, <2>1, <2>2 DEF RolloutTypeOK, Status, Verdict, Image, Poller
  <2>4. FewEdits' /\ VerdictStands'
    BY <1>4, <2>1, <2>2 DEF FewEdits, VerdictStands
  <2>5. Followed' /\ Ripe'
    BY <1>1, <1>4, <2>2 DEF RolloutInv, Followed, Ripe
  <2> QED BY <2>3, <2>4, <2>5 DEF RolloutInv
<1>5. place["upgrade"] # "returned" => version <= 3
  BY DEF RolloutInv, FewEdits
<1>6. status.observed <= version /\ start["upgrade"] <= now
  BY DEF RolloutInv, Followed, Ripe
<1>7. CASE GetDeployment
  <2>1. /\ place["upgrade"] = "get"
        /\ UNCHANGED <<now, timeout, start, tick, image, version, status, labelled,
                       verdictOn>>
    BY <1>7 DEF GetDeployment, cluster
  <2>2. CASE /\ seen' = version /\ GoTo("upgrade", "update") /\ UNCHANGED result
    <3>1. version <= 2 /\ ~tick["upgrade"]
      BY <2>1 DEF RolloutInv, FewEdits, Ripe
    <3>2. place'["upgrade"] = "update"
      BY <1>1, <2>2, Places DEF RolloutInv
    <3>3. Followed' /\ Ripe'
      BY <1>1, <1>6, <2>1, <3>1, <3>2 DEF Followed, Ripe
    <3> QED BY <1>1, <1>3, <2>1, <2>2, <3>1, <3>3
  <2>3. CASE /\ Answers("upgrade", "error") \/ Answers("upgrade", "unchanged")
             /\ UNCHANGED seen
    BY <1>1, <1>4, <2>1, <2>3
  <2> QED BY <1>7, <2>2, <2>3 DEF GetDeployment
<1>8. CASE UpdateDeployment
  <2>1. /\ place["upgrade"] = "update" /\ seen = version
        /\ version' = version + 1 /\ image' = "new"
        /\ GoTo("upgrade", "poll") /\ start' = [start EXCEPT !["upgrade"] = now]
        /\ UNCHANGED <<timeout, now, tick, result, status, labelled, seen, verdictOn>>
    BY <1>8 DEF UpdateDeployment, Update
  <2>2. version <= 2 /\ ~tick["upgrade"]
    BY <2>1 DEF RolloutInv, FewEdits, Ripe
  <2>3. start' \in [Poller -> 0..Horizon] /\ start'["upgrade"] = now
    BY <1>1, <2>1
  <2>4. version' \in 0..4 /\ version' <= 3 /\ image' \in Image
    BY <1>1, <2>1, <2>2 DEF Image
  <2>5. place'["upgrade"] = "poll"
    BY <1>1, <2>1, Places DEF RolloutInv
  <2>6. Followed' /\ Ripe'
    BY <1>1, <1>6, <2>1, <2>2, <2>3, <2>5 DEF Followed, Ripe, Edited
  <2> QED BY <1>1, <1>3, <2>1, <2>3, <2>4, <2>6
<1>9. CASE UpdateError \/ RollbackError \/ Restore
  <2>1. /\ Answers("upgrade", "error") \/ Answers("upgrade", "rolledBack")
        /\ UNCHANGED <<now, timeout, start, tick, status, labelled, seen, verdictOn>>
        /\ place["upgrade"] # "returned"
    BY <1>9 DEF UpdateError, RollbackError, Restore
  <2>2. \/ UNCHANGED <<image, version>>
        \/ \E i \in Image : image' = i /\ version' = version + 1
    BY <1>9 DEF UpdateError, RollbackError, Restore, Update, Image
  <2>3. image' \in Image /\ version' \in 0..4 /\ version <= version'
    BY <1>1, <1>5, <2>1, <2>2
  <2> QED BY <1>1, <1>4, <2>1, <2>3
<1>10. CASE WaitForRollout
  <2>1. /\ tick' \in [Poller -> BOOLEAN] /\ Ticked("upgrade")
        /\ UNCHANGED <<now, timeout, start, image, version, status, labelled, seen>>
    BY <1>1, <1>10 DEF WaitForRollout, Consume, cluster
  <2>2. PICK c \in Counts :
          IF RolledOut(c)
            THEN /\ Answers("upgrade", "rolledOut")
                 /\ verdictOn' = [observed |-> status.observed, of |-> status.of,
                                  updated |-> c.updated, replicas |-> c.replicas,
                                  ready |-> c.ready]
            ELSE UNCHANGED <<place, result, verdictOn>>
    BY <1>10 DEF WaitForRollout
  <2>3. CASE RolledOut(c)
    <3>1. verdictOn' \in Verdict /\ RolledOutMeansReady'
      BY <2>1, <2>2, <2>3, EqualCounts
    <3> QED BY <1>1, <1>4, <2>1, <2>2, <2>3, <3>1
  <2>4. CASE ~RolledOut(c)
    <3>1. UNCHANGED <<place, result, verdictOn>>
      BY <2>2, <2>4
    <3>2. RolloutTypeOK'
      BY <1>1, <2>1, <3>1 DEF RolloutTypeOK, Status, Verdict, Image, Poller
    <3>3. ~tick'["upgrade"]
      BY <1>1, <1>10 DEF WaitForRollout, Consume
    <3> QED BY <2>1, <3>1, <3>2, <3>3
            DEF RolloutInv, FewEdits, Followed, Ripe, VerdictStands, RolledOutMeansReady,
                Edited
  <2> QED BY <2>3, <2>4
<1>11. CASE RolloutFailed \/ RollbackRead
  <2>1. /\ GoTo("upgrade", "rollback") \/ GoTo("upgrade", "choose")
        /\ place["upgrade"] # "returned" /\ seen' \in {seen, version}
        /\ UNCHANGED <<now, timeout, start, tick, result, image, version, status,
                       labelled, verdictOn>>
    BY <1>11 DEF RolloutFailed, RollbackRead, Due, Ticked, cluster
  <2>2. place'["upgrade"] \in {"rollback", "choose"}
    BY <1>1, <2>1, Places DEF RolloutInv
  <2>3. Followed' /\ Ripe'
    BY <1>6, <2>1, <2>2 DEF Followed, Ripe
  <2> QED BY <1>1, <1>3, <1>5, <2>1, <2>3
<1>12. CASE ChooseReplicaSet
  <2>1. /\ place["upgrade"] # "returned"
        /\ UNCHANGED <<now, timeout, start, tick, image, version, status, labelled,
                       seen, verdictOn>>
    BY <1>12 DEF ChooseReplicaSet, cluster
  <2>2. \/ GoTo("upgrade", "restore") /\ result' = result
        \/ Answers("upgrade", "panic")
    BY <1>12 DEF ChooseReplicaSet
  <2>3. ASSUME GoTo("upgrade", "restore") PROVE Followed' /\ Ripe'
    <3>1. place'["upgrade"] = "restore"
      BY <1>1, <2>3, Places DEF RolloutInv
    <3> QED BY <1>6, <2>1, <3>1 DEF Followed, Ripe
  <2> QED BY <1>1, <1>3, <1>4, <1>5, <2>1, <2>2, <2>3
<1> QED
  BY <1>7, <1>8, <1>9, <1>10, <1>11, <1>12
     DEF UpgradeDeployment, RollbackDeployment

LEMMA RolloutHolds == RolloutSpec => []RolloutInv
<1>1. RolloutInit => RolloutInv
  BY RolloutInitInv
<1>2. RolloutInv /\ [RolloutNext]_rolloutVars => RolloutInv'
  <2> SUFFICES ASSUME RolloutInv, [RolloutNext]_rolloutVars PROVE RolloutInv'
    OBVIOUS
  <2>1. CASE PollsStopped \/ UNCHANGED rolloutVars
    <3>1. UNCHANGED <<now, timeout, start, tick, place, result, image, version, status,
                      labelled, seen, verdictOn>>
      BY <2>1 DEF PollsStopped, rolloutVars
    <3>2. now <= now'
      BY <3>1, RolloutAssumption DEF RolloutInv, RolloutTypeOK
    <3>3. RolloutTypeOK'
      BY <3>1 DEF RolloutInv, RolloutTypeOK, Status, Verdict, Image
    <3> QED BY <3>1, <3>2, <3>3, UpgradeUntouched
  <2> QED BY <2>1, ClockStep, WorldStep, CheckStep, UpgradeStep DEF RolloutNext
<1> QED BY <1>1, <1>2, PTL DEF RolloutSpec

(* The Deployment, its status and the two polls stay well typed; it is     *)
(* edited at most four times (UpgradeDeployment, apply.go).                *)
THEOREM RolloutTypeCorrect == RolloutSpec => []RolloutTypeOK
<1>1. RolloutInv => RolloutTypeOK BY DEF RolloutInv
<1> QED BY <1>1, RolloutHolds, PTL

(* UpgradeDeployment says "updated successfully" only if waitForRollout    *)
(* has seen pods of the new image, all of them ready; or none at all, or   *)
(* somebody else's edit, or, a poll interval after the edit, the status of *)
(* an earlier one.                                                         *)
THEOREM ReadyWhenRolledOut == RolloutSpec => []RolledOutMeansReady
<1>1. RolloutInv => RolledOutMeansReady
  BY DEF RolloutInv, VerdictStands, RolledOutMeansReady
<1> QED BY <1>1, RolloutHolds, PTL

=============================================================================
