---------------------------- MODULE FileCopyProofs ----------------------------
(***************************************************************************)
(* Proofs about copies to one machine, for any calls, any files in them    *)
(* and any temporary names they share (CopyAssumption alone).              *)
(***************************************************************************)
EXTENDS FileCopy, FiniteSetTheorems, TLAPS

(* A temporary file belongs to the copy that has created it for as long as *)
(* no other copy touches it: empty, then that copy's content.              *)
Held ==
  \A c \in Copy :
    /\ pc[c] \in {"write", "cp"} => content[temp[c]] # None
    /\ pc[c] = "write" /\ c \notin disturbed => content[temp[c]] = "empty"
    /\ pc[c] = "cp" /\ c \notin disturbed => content[temp[c]] = c

(* A destination is changed by its own cp and by nothing else: it is as it *)
(* was, or truncated, or has its own content, or a disturbed one; and the  *)
(* content after a cp that is known to have succeeded.                     *)
Landed ==
  \A c \in Copy : c \notin disturbed =>
    /\ dest[c] \in {None, c, "partial"}
    /\ pc[c] \in {"succeeded", "copied"} => dest[c] = c

(* The results are those of the goroutines that are done.                  *)
Reported ==
  \A r \in results :
    pc[r.copy] = IF r.success THEN "copied" ELSE "givenUp"

(* No goroutine runs before its call has its sftp client, and a call       *)
(* answers success when all of them are done and have succeeded.           *)
Awaited ==
  /\ \A c \in Copy : call[CallOf[c]] = "sftp" => pc[c] = "none"
  /\ \A m \in Call : answer[m] = "success" =>
       /\ call[m] = "returned"
       /\ \A c \in Copies(m) : pc[c] = "copied"

CopyInv == TypeOK /\ Held /\ Landed /\ Reported /\ Awaited

----------------------------------------------------------------------------
LEMMA InitInv == Init => CopyInv
  BY CopyAssumption
     DEF Init, CopyInv, TypeOK, Contents, Held, Landed, Reported, Awaited, Done

(* The type invariant: at a step of a call, and of a goroutine.            *)
LEMMA CallTypeOK ==
  ASSUME CopyInv, NEW m \in Call, Start(m) \/ Answer(m)
  PROVE  TypeOK'
<1> USE CopyAssumption DEF TypeOK, CopyInv, Done
<1>1. CASE NewClient(m)
  <2>1. \A c \in Copy : Done(c)' <=> Done(c)
    BY <1>1 DEF NewClient, Awaited
  <2> QED BY <1>1, <2>1 DEF NewClient
<1>2. CASE NewClientError(m) BY <1>2 DEF NewClientError
<1>3. CASE Answer(m) BY <1>3 DEF Answer
<1> QED BY <1>1, <1>2, <1>3 DEF Start

LEMMA GoroutineTypeOK ==
  ASSUME CopyInv, NEW c \in Copy, Goroutine(c)
  PROVE  TypeOK'
<1> USE CopyAssumption DEF TypeOK, CopyInv, Goto, Contents, Done
<1>1. CASE OpenSource(c) BY <1>1 DEF OpenSource
<1>2. CASE CreateTemp(c) BY <1>2 DEF CreateTemp, Sharing
<1>3. CASE WriteTemp(c) BY <1>3 DEF WriteTemp, Sharing
<1>4. CASE CopyToDestination(c) BY <1>4 DEF CopyToDestination
<1>5. CASE CopyError(c) BY <1>5 DEF CopyError, Sharing
<1>6. CASE PushResult(c)
  <2> DEFINE result == [copy |-> c, success |-> pc[c] = "succeeded"]
  <2>1. result \in [copy : Copy, success : BOOLEAN] /\ result.copy = c
    OBVIOUS
  <2>2. {r.copy : r \in results'} = {r.copy : r \in results} \cup {c}
    <3>1. results' = results \cup {result} BY <1>6 DEF PushResult
    <3> HIDE DEF result
    <3> QED BY <2>1, <3>1
  <2>3. {d \in Copy : Done(d)'} = {d \in Copy : Done(d)} \cup {c}
    BY <1>6 DEF PushResult
  <2> QED BY <1>6, <2>1, <2>2, <2>3 DEF PushResult
<1> QED BY <1>1, <1>2, <1>3, <1>4, <1>5, <1>6 DEF Goroutine

(* The temporary files.  A step of another copy that touches c's temporary *)
(* file finds c sharing it.                                                *)
LEMMA GoroutineHeld ==
  ASSUME CopyInv, NEW c \in Copy, Goroutine(c)
  PROVE  Held'
<1> USE CopyAssumption DEF TypeOK, CopyInv, Goto, Contents, Held
<1>1. CASE OpenSource(c) BY <1>1 DEF OpenSource
<1>2. CASE CreateTemp(c) BY <1>2 DEF CreateTemp, Sharing
<1>3. CASE WriteTemp(c) BY <1>3 DEF WriteTemp, Sharing
<1>4. CASE CopyToDestination(c) BY <1>4 DEF CopyToDestination
<1>5. CASE CopyError(c) BY <1>5 DEF CopyError, Sharing
<1>6. CASE PushResult(c) BY <1>6 DEF PushResult
<1> QED BY <1>1, <1>2, <1>3, <1>4, <1>5, <1>6 DEF Goroutine

(* The destinations, the results and the answers given.                    *)
LEMMA GoroutineLanded ==
  ASSUME CopyInv, NEW c \in Copy, Goroutine(c)
  PROVE  Landed' /\ Reported' /\ Awaited'
<1> USE CopyAssumption
    DEF TypeOK, CopyInv, Goto, Landed, Reported, Awaited, Copies
<1>1. CASE OpenSource(c) BY <1>1 DEF OpenSource
<1>2. CASE CreateTemp(c) BY <1>2 DEF CreateTemp
<1>3. CASE WriteTemp(c) BY <1>3 DEF WriteTemp
<1>4. CASE CopyToDestination(c) BY <1>4 DEF CopyToDestination, Held
<1>5. CASE CopyError(c) BY <1>5 DEF CopyError, Held
<1>6. CASE PushResult(c)
  <2> DEFINE result == [copy |-> c, success |-> pc[c] = "succeeded"]
             end == IF pc[c] = "succeeded" THEN "copied" ELSE "givenUp"
  <2>1. result.copy = c /\ end = IF result.success THEN "copied" ELSE "givenUp"
    OBVIOUS
  <2>2. /\ results' = results \cup {result} /\ pc' = [pc EXCEPT ![c] = end]
        /\ UNCHANGED <<dest, disturbed, call, answer>>
        /\ pc[c] \notin {"none", "copied", "givenUp"}
    BY <1>6 DEF PushResult
  <2>3. end = "copied" => pc[c] = "succeeded"
    OBVIOUS
  <2>4. end \in {"copied", "givenUp"}
    OBVIOUS
  <2> HIDE DEF result, end
  <2>5. Landed' BY <2>2, <2>3, <2>4
  <2>6. Awaited' BY <2>2, <2>4
  <2>7. Reported' BY <2>1, <2>2
  <2> QED BY <2>5, <2>6, <2>7
<1> QED BY <1>1, <1>2, <1>3, <1>4, <1>5, <1>6 DEF Goroutine

(* A step of a call: the goroutines of an answered call are done, so there *)
(* is a result of each, and none of them is a failure.                     *)
LEMMA CallStepInv ==
  ASSUME CopyInv, NEW m \in Call, Start(m) \/ Answer(m)
  PROVE  Held' /\ Landed' /\ Reported' /\ Awaited'
<1> USE CopyAssumption
    DEF TypeOK, CopyInv, Held, Landed, Reported, Awaited, Copies
<1>1. CASE NewClient(m) BY <1>1 DEF NewClient
<1>2. CASE NewClientError(m) BY <1>2 DEF NewClientError
<1>3. CASE Answer(m)
  <2>1. ASSUME answer'[m] = "success", NEW c \in Copies(m)
        PROVE  pc[c] = "copied"
    <3>1. Done(c) BY <1>3, <2>1 DEF Answer
    <3>2. PICK r \in results : r.copy = c BY <2>1, <3>1
    <3>3. r.success BY <1>3, <2>1, <3>2 DEF Answer, ResultsOf
    <3> QED BY <3>1, <3>2, <3>3
  <2> QED BY <1>3, <2>1 DEF Answer
<1> QED BY <1>1, <1>2, <1>3 DEF Start

LEMMA Inductive == Spec => []CopyInv
<1>1. CopyInv /\ [Next]_vars => CopyInv'
  <2> SUFFICES ASSUME CopyInv, [Next]_vars PROVE CopyInv'
    OBVIOUS
  <2>1. ASSUME NEW m \in Call, Start(m) \/ Answer(m) PROVE CopyInv'
    BY <2>1, CallTypeOK, CallStepInv DEF CopyInv
  <2>2. ASSUME NEW c \in Copy, Goroutine(c) PROVE CopyInv'
    BY <2>2, GoroutineTypeOK, GoroutineHeld, GoroutineLanded DEF CopyInv
  <2>3. CASE Stopped \/ UNCHANGED vars
    BY <2>3 DEF Stopped, vars, CopyInv, TypeOK, Held, Landed, Reported, Awaited, Done
  <2> QED BY <2>1, <2>2, <2>3 DEF Next
<1> QED BY <1>1, InitInv, PTL DEF Spec

----------------------------------------------------------------------------
(* The files, the goroutines and the results keep their types; the results *)
(* are those of the goroutines that are done, no fewer and no more.        *)
THEOREM CopyTypeCorrect == Spec => []TypeOK
<1>1. CopyInv => TypeOK BY DEF CopyInv
<1> QED BY <1>1, Inductive, PTL

(* When CopyMultiFile or CopyFile (remote.go) answers success, each of its *)
(* files is at its destination, and so is each file it reports as a        *)
(* success, unless another copy has touched the same temporary file.  A    *)
(* failure leaves the old file, the new one or a truncated one.            *)
THEOREM SuccessCopied == Spec => []SuccessIsCopied
<1>1. CopyInv => SuccessIsCopied
  BY DEF CopyInv, TypeOK, Landed, Reported, Awaited, SuccessIsCopied, Copies
<1> QED BY <1>1, Inductive, PTL

----------------------------------------------------------------------------
(* A call implements ParallelCall over its files.  Its goroutines run once *)
(* it has its session; an answer that is not about a missing session is    *)
(* given when all of them are done, and says how they ended.               *)
Unheard(m) == /\ Copies(m) # {} /\ answer[m] # "success"
              /\ \A c \in Copies(m) : pc[c] = "none"

Heard(m) == /\ \A c \in Copies(m) : Done(c)
            /\ answer[m] = IF \E c \in Copies(m) : pc[c] = "givenUp"
                             THEN "failure" ELSE "success"

Answered ==
  \A m \in Call :
    /\ call[m] = "copying" => \A c \in Copies(m) : pc[c] # "none"
    /\ call[m] = "blocked" => Copies(m) = {}
    /\ IF call[m] = "returned" THEN Unheard(m) \/ Heard(m) ELSE answer[m] = "none"

(* What the results say of a file is what its goroutine came to.           *)
Outcome(c) == CASE pc[c] = "copied"   -> "success"
                [] pc[c] = "givenUp" -> "failure"
                [] OTHER              -> "none"

LEMMA ReportOfEach ==
  ASSUME CopyInv, NEW m \in Call
  PROVE  reports(m) = [c \in Copies(m) |-> Outcome(c)]
<1>1. SUFFICES ASSUME NEW c \in Copies(m)
               PROVE  reports(m)[c] = Outcome(c)
  BY DEF reports
<1>2. c \in Copy
  BY DEF Copies
<1>3. reports(m)[c] = IF [copy |-> c, success |-> TRUE] \in results THEN "success"
        ELSE IF [copy |-> c, success |-> FALSE] \in results THEN "failure" ELSE "none"
  BY <1>1 DEF reports
<1>4. ASSUME NEW b \in BOOLEAN, [copy |-> c, success |-> b] \in results
      PROVE  pc[c] = IF b THEN "copied" ELSE "givenUp"
  BY <1>4 DEF CopyInv, Reported
<1>5. ASSUME Done(c)
      PROVE  [copy |-> c, success |-> pc[c] = "copied"] \in results
  <2>1. PICK r \in results : r.copy = c
    BY <1>2, <1>5 DEF CopyInv, TypeOK
  <2>2. r \in [copy : Copy, success : BOOLEAN] /\ (r.success <=> pc[c] = "copied")
    BY <2>1 DEF CopyInv, TypeOK, Reported
  <2>3. r = [copy |-> c, success |-> pc[c] = "copied"]
    BY <2>1, <2>2
  <2> QED BY <2>1, <2>3
<1> QED BY <1>3, <1>4, <1>5 DEF Outcome, Done

(* The answers, at a step of a call and of a goroutine.                    *)
LEMMA AnsweredStep == CopyInv /\ Answered /\ [Next]_vars => Answered'
<1>1. SUFFICES ASSUME CopyInv, Answered, [Next]_vars PROVE Answered'
  OBVIOUS
<1>0. ASSUME NEW m \in Call, answer'[m] = answer[m],
             \A c \in Copies(m) : pc'[c] = pc[c]
      PROVE  (Unheard(m)' <=> Unheard(m)) /\ (Heard(m)' <=> Heard(m))
  BY <1>0 DEF Unheard, Heard, Done
<1>2. ASSUME NEW m \in Call, NewClient(m) PROVE Answered'
  <2>1. /\ \A k \in Call : \A c \in Copies(k) :
             pc'[c] = IF k = m THEN "open" ELSE pc[c]
        /\ \A k \in Call : call'[k] = IF k = m THEN "copying" ELSE call[k]
        /\ answer' = answer /\ call[m] = "sftp"
    BY <1>1, <1>2 DEF NewClient, Copies, CopyInv, TypeOK
  <2> QED BY <1>0, <1>1, <2>1 DEF Answered
<1>3. ASSUME NEW m \in Call, NewClientError(m) PROVE Answered'
  <2>1. m \in Single => Copies(m) # {}
    BY CopyAssumption, FS_EmptySet
  <2>2. \A c \in Copies(m) : pc[c] = "none"
    BY <1>1, <1>3 DEF NewClientError, CopyInv, Awaited, Copies
  <2>3. /\ pc' = pc
        /\ \A k \in Call \ {m} : call'[k] = call[k] /\ answer'[k] = answer[k]
    BY <1>1, <1>3 DEF NewClientError, CopyInv, TypeOK
  <2>4. CASE m \notin Single /\ Copies(m) = {}
    <3>1. call'[m] = "blocked" /\ answer' = answer /\ answer[m] = "none"
      BY <1>1, <1>3, <2>4 DEF NewClientError, Answered, CopyInv, TypeOK
    <3> QED BY <1>0, <1>1, <2>3, <2>4, <3>1 DEF Answered
  <2>5. CASE ~(m \notin Single /\ Copies(m) = {})
    <3>1. call'[m] = "returned" /\ answer'[m] # "success"
      BY <1>1, <1>3, <2>5 DEF NewClientError, CopyInv, TypeOK
    <3>2. Unheard(m)'
      BY <2>1, <2>2, <2>3, <2>5, <3>1 DEF Unheard
    <3> QED BY <1>0, <1>1, <2>3, <3>1, <3>2 DEF Answered
  <2> QED BY <2>4, <2>5
<1>4. ASSUME NEW m \in Call, Answer(m) PROVE Answered'
  <2>1. \A c \in Copies(m) : Done(c)
    BY <1>4 DEF Answer
  <2>2. (\E r \in ResultsOf(m) : ~r.success) <=> \E c \in Copies(m) : pc[c] = "givenUp"
    <3>1. ASSUME NEW r \in ResultsOf(m), ~r.success
          PROVE  \E c \in Copies(m) : pc[c] = "givenUp"
      BY <1>1, <3>1 DEF ResultsOf, Copies, CopyInv, TypeOK, Reported
    <3>2. ASSUME NEW c \in Copies(m), pc[c] = "givenUp"
          PROVE  \E r \in ResultsOf(m) : ~r.success
      BY <1>1, <2>1, <3>2 DEF ResultsOf, Copies, CopyInv, TypeOK, Reported, Done
    <3> QED BY <3>1, <3>2
  <2>3. Heard(m)'
    BY <1>1, <1>4, <2>1, <2>2 DEF Answer, Heard, Done, CopyInv, TypeOK
  <2>4. /\ pc' = pc /\ call'[m] = "returned"
        /\ \A k \in Call \ {m} : call'[k] = call[k] /\ answer'[k] = answer[k]
    BY <1>1, <1>4 DEF Answer, CopyInv, TypeOK
  <2> QED BY <1>0, <1>1, <2>3, <2>4 DEF Answered
<1>5. ASSUME NEW c \in Copy, Goroutine(c) PROVE Answered'
  <2>1. /\ pc[c] # "none" /\ ~Done(c) /\ pc'[c] # "none"
        /\ \A d \in Copy \ {c} : pc'[d] = pc[d]
        /\ call' = call /\ answer' = answer
    BY <1>1, <1>5
    DEF Goroutine, OpenSource, CreateTemp, WriteTemp, CopyToDestination, CopyError,
        PushResult, Goto, Done, CopyInv, TypeOK
  <2>2. ASSUME NEW m \in Call, call[m] = "returned" PROVE Unheard(m)' \/ Heard(m)'
    <3>1. c \notin Copies(m)
      BY <1>1, <2>1, <2>2 DEF Answered, Unheard, Heard
    <3>2. \A d \in Copies(m) : pc'[d] = pc[d]
      BY <2>1, <3>1 DEF Copies
    <3> QED BY <1>1, <2>1, <2>2, <3>2 DEF Answered, Unheard, Heard, Done
  <2> QED BY <1>1, <2>1, <2>2 DEF Answered, Copies
<1>6. CASE Stopped \/ UNCHANGED vars
  BY <1>1, <1>6 DEF Stopped, vars, Answered, Unheard, Heard, Done
<1> QED BY <1>1, <1>2, <1>3, <1>4, <1>5, <1>6 DEF Next, Start

LEMMA AnswersHold == Spec => [](CopyInv /\ Answered)
<1>1. Init => Answered
  BY DEF Init, Answered
<1> QED BY <1>1, AnsweredStep, Inductive, PTL DEF Spec

(* One goroutine's result is one report; the other steps are not seen, but *)
(* for the answer of the call itself.                                      *)
seen(m) == IF NoSession(m) THEN "none" ELSE answer[m]

LEMMA StartUnseen ==
  ASSUME CopyInv, Answered, NEW m \in Call, NEW n \in Call, Start(n)
  PROVE  UNCHANGED <<reports(m), seen(m)>>
<1>1. reports(m)' = reports(m)
  BY DEF Start, NewClient, NewClientError, reports
<1>2. \A k \in Call : call[k] = "sftp" => answer[k] = "none"
  BY DEF Answered
<1>3. CASE NewClient(n)
  <2>1. n # m => (NoSession(m)' <=> NoSession(m))
    BY <1>3 DEF NewClient, NoSession, Copies, CopyInv, TypeOK
  <2>2. n = m => answer[m] = "none"
    BY <1>2, <1>3 DEF NewClient
  <2> QED BY <1>1, <1>3, <2>1, <2>2 DEF NewClient, seen
<1>4. CASE NewClientError(n)
  <2>1. NoSession(m)' <=> NoSession(m)
    BY <1>4 DEF NewClientError, NoSession
  <2>2. n # m => answer'[m] = answer[m]
    BY <1>4 DEF NewClientError, CopyInv, TypeOK
  <2>3. n = m /\ Copies(m) = {} => answer' = answer
    BY <1>4, CopyAssumption, FS_EmptySet DEF NewClientError
  <2>4. n = m /\ Copies(m) # {} => NoSession(m)
    BY <1>4 DEF NewClientError, NoSession, CopyInv, Awaited, Copies
  <2> QED BY <1>1, <2>1, <2>2, <2>3, <2>4 DEF seen
<1> QED BY <1>1, <1>3, <1>4 DEF Start

LEMMA ResultSettles ==
  ASSUME CopyInv, NEW m \in Call, NEW c \in Copy, PushResult(c)
  PROVE  \/ reports(m)' = reports(m)
         \/ c \in Copies(m) /\ Copying(m)!Settle(c)
<1> DEFINE b == pc[c] = "succeeded"
           result == [copy |-> c, success |-> b]
           o == IF b THEN "success" ELSE "failure"
<1>1. results' = results \cup {result} /\ b \in BOOLEAN /\ Outcome(c) = "none"
  BY DEF PushResult, Outcome
<1>2. c \in Copies(m) => reports(m)[c] = "none"
  BY <1>1, ReportOfEach
<1>3. \A d, s : [copy |-> d, success |-> s] \in results' <=>
                  [copy |-> d, success |-> s] \in results \/ (d = c /\ s = b)
  <2>1. \A d, s : [copy |-> d, success |-> s] = result <=> d = c /\ s = b
    BY Zenon
  <2> HIDE DEF result
  <2> QED BY <1>1, <2>1
<1> HIDE DEF result
<1>4. CASE c \notin Copies(m)
  <2>1. \A d \in Copies(m), s \in BOOLEAN :
          [copy |-> d, success |-> s] \in results' <=> [copy |-> d, success |-> s] \in results
    BY <1>3, <1>4
  <2> QED BY <2>1 DEF reports
<1>5. CASE c \in Copies(m)
  <2>1. /\ [copy |-> c, success |-> TRUE] \notin results
        /\ [copy |-> c, success |-> FALSE] \notin results
    BY <1>2, <1>5 DEF reports
  <2>2. reports(m)'[c] = o
    BY <1>1, <1>3, <1>5, <2>1 DEF reports
  <2>3. \A d \in Copies(m) \ {c} : reports(m)'[d] = reports(m)[d]
    BY <1>3 DEF reports
  <2>4. reports(m)' = [reports(m) EXCEPT ![c] = o]
    BY <2>2, <2>3 DEF reports
  <2>5. seen(m)' = seen(m)
    <3>1. NoSession(m)' <=> NoSession(m)
      BY DEF PushResult, Goto, NoSession, Copies, CopyInv, TypeOK
    <3> QED BY <3>1 DEF PushResult, seen
  <2> QED BY <1>2, <1>5, <2>4, <2>5 DEF Copying!Settle, seen
<1> QED BY <1>4, <1>5

LEMMA AnswerAnswers ==
  ASSUME CopyInv, Answered, NEW m \in Call, Answer(m)
  PROVE  Copying(m)!Answer
<1>1. \A c \in Copies(m) : Done(c) /\ pc' = pc /\ results' = results
  BY DEF Answer
<1>2. \A c \in Copies(m) :
        reports(m)[c] = IF pc[c] = "givenUp" THEN "failure" ELSE "success"
  BY <1>1, ReportOfEach DEF Outcome, Done
<1>3. (\E r \in ResultsOf(m) : ~r.success) <=> \E c \in Copies(m) : pc[c] = "givenUp"
  BY <1>1 DEF ResultsOf, Copies, CopyInv, TypeOK, Reported, Done
<1>4. answer'[m] = IF \E c \in Copies(m) : reports(m)[c] = "failure"
                     THEN "failure" ELSE "success"
  BY <1>2, <1>3 DEF Answer, CopyInv, TypeOK
<1>5. seen(m) = "none" /\ seen(m)' = answer'[m] /\ reports(m)' = reports(m)
  BY <1>1 DEF Answer, Answered, seen, NoSession, reports, Done
<1> QED BY <1>2, <1>4, <1>5 DEF Copying!Answer, seen

LEMMA CallSeen ==
  ASSUME CopyInv, Answered, [Next]_vars, NEW m \in Call
  PROVE  [Copying(m)!Next]_(Copying(m)!callVars)
<1>1. ASSUME NEW n \in Call, Start(n)
      PROVE  UNCHANGED Copying(m)!callVars
  BY <1>1, StartUnseen DEF Copying!callVars, seen
<1>2. ASSUME NEW n \in Call, Answer(n), n # m
      PROVE  UNCHANGED Copying(m)!callVars
  BY <1>2 DEF Answer, Copying!callVars, reports, NoSession, CopyInv, TypeOK
<1>3. ASSUME Answer(m) PROVE Copying(m)!Next
  BY <1>3, AnswerAnswers DEF Copying!Next
<1>4. ASSUME NEW c \in Copy, Goroutine(c), ~PushResult(c)
      PROVE  UNCHANGED Copying(m)!callVars
  <2>1. /\ results' = results /\ answer' = answer
        /\ \E l : pc' = [pc EXCEPT ![c] = l] /\ pc[c] # "none" /\ l # "none"
    BY <1>4
    DEF Goroutine, OpenSource, CreateTemp, WriteTemp, CopyToDestination, CopyError, Goto
  <2>2. NoSession(m)' <=> NoSession(m)
    BY <2>1 DEF NoSession, Copies, CopyInv, TypeOK
  <2> QED BY <2>1, <2>2 DEF Copying!callVars, reports
<1>5. ASSUME NEW c \in Copy, PushResult(c)
      PROVE  [Copying(m)!Next]_(Copying(m)!callVars)
  <2>1. answer' = answer /\ (NoSession(m)' <=> NoSession(m))
    BY <1>5 DEF PushResult, Goto, NoSession, Copies, CopyInv, TypeOK
  <2> QED BY <1>5, <2>1, ResultSettles DEF Copying!Next, Copying!callVars
<1>6. CASE Stopped \/ UNCHANGED vars
  BY <1>6 DEF Stopped, vars, Copying!callVars, reports, NoSession
<1> QED BY <1>1, <1>2, <1>3, <1>4, <1>5, <1>6 DEF Next

(* Once it has its session, a CopyMultiFile or CopyFile implements the     *)
(* atomic call over its files: the goroutines of other calls, which may    *)
(* spoil its temporary files, add nothing to its results and take nothing  *)
(* from them, and its channel is read when the last one has been pushed.   *)
THEOREM CopyIsACall == Spec => CopyImplementsCall
<1>1. ASSUME NEW m \in Call PROVE Spec => Copying(m)!Spec
  <2>1. Init => Copying(m)!Init
    BY DEF Init, Copying!Init, reports, NoSession
  <2>2. CopyInv /\ Answered /\ [Next]_vars => [Copying(m)!Next]_(Copying(m)!callVars)
    BY CallSeen
  <2> QED BY <2>1, <2>2, AnswersHold, PTL DEF Spec, Copying!Spec
<1> QED BY <1>1 DEF CopyImplementsCall

(* What CopyMultiFileParallel is told of a host (by the callback, once per *)
(* file that arrived) is what the pool's ResultPerFile takes it to be: a   *)
(* number of successes, and no error exactly if that is the number of      *)
(* files.                                                                  *)
THEOREM FilesAreCounted == Spec => []OneResultPerFile
<1>1. CopyInv /\ Answered => OneResultPerFile
  <2>1. SUFFICES ASSUME CopyInv, Answered, NEW m \in Call, answer[m] # "none"
                 PROVE  /\ Cardinality(Arrived(m)) \in 0..Cardinality(Copies(m))
                        /\ answer[m] = "success" <=>
                             Cardinality(Arrived(m)) = Cardinality(Copies(m))
    BY DEF OneResultPerFile
  <2>2. Arrived(m) \subseteq Copies(m) /\ IsFiniteSet(Copies(m))
    BY CopyAssumption, FS_Subset DEF Arrived, Copies
  <2>3. /\ Cardinality(Arrived(m)) \in Nat /\ Cardinality(Copies(m)) \in Nat
        /\ Cardinality(Arrived(m)) <= Cardinality(Copies(m))
        /\ Cardinality(Arrived(m)) = Cardinality(Copies(m)) => Arrived(m) = Copies(m)
    BY <2>2, FS_Subset, FS_CardinalityType
  <2>4. \A c \in Copies(m) : c \in Arrived(m) <=> pc[c] = "copied"
    <3>1. ASSUME NEW c \in Copies(m)
          PROVE  reports(m)[c] = "success" <=> c \in Arrived(m)
      BY DEF reports, Arrived
    <3> QED BY <2>1, <3>1, ReportOfEach DEF Outcome
  <2>5. Unheard(m) \/ Heard(m)
    BY <2>1 DEF Answered
  <2>6. answer[m] = "success" <=> Arrived(m) = Copies(m)
    BY <2>1, <2>2, <2>4, <2>5 DEF Unheard, Heard, Done
  <2> QED BY <2>3, <2>6
<1> QED BY <1>1, AnswersHold, PTL
=============================================================================
