------------------------- MODULE ExecutorPoolProofs -------------------------
(***************************************************************************)
(* Proofs about the executor pool, for any host list, any names and        *)
(* addresses and any number of solo callers.                               *)
(***************************************************************************)
EXTENDS ExecutorPool, TLAPS

LEMMA NFilesIsNat == NFiles \in Nat
BY PoolAssumption

(* What a remote operation can come to: at most MaxSeq successes, and a    *)
(* returned error is pushed as a failure unless the method loses it.       *)
Sound(x, loses) ==
  /\ x.ok \in Nat /\ x.ok <= MaxSeq
  /\ x.err \in BOOLEAN
  /\ x.ret \in Returned
  /\ x.err => x.ret = "error"
  /\ x.ret = "error" => x.err \/ loses

(* The three ways the methods report are sound; only CopyMultiFileParallel *)
(* loses errors.                                                           *)
LEMMA OutcomesSound ==
  ASSUME NEW o \in Operation, NEW x \in o.outcomes
  PROVE  Sound(x, o = CopyMultiFileParallel)
<1>1. ASSUME x \in OneResult PROVE Sound(x, FALSE)
  <2>1. CASE x = [ok |-> 1, err |-> FALSE, ret |-> "nil"]
    BY <2>1, NFilesIsNat DEF Sound, MaxSeq, Returned
  <2>2. CASE x = [ok |-> 0, err |-> TRUE, ret |-> "error"]
    BY <2>2, NFilesIsNat DEF Sound, MaxSeq, Returned
  <2>3. QED BY <1>1, <2>1, <2>2 DEF OneResult
<1>2. ASSUME x \in OnlyFailures PROVE Sound(x, FALSE)
  <2>1. CASE x = [ok |-> 0, err |-> FALSE, ret |-> "nil"]
    BY <2>1, NFilesIsNat DEF Sound, MaxSeq, Returned
  <2>2. CASE x = [ok |-> 0, err |-> TRUE, ret |-> "error"]
    BY <2>2, NFilesIsNat DEF Sound, MaxSeq, Returned
  <2>3. QED BY <1>2, <2>1, <2>2 DEF OnlyFailures
<1>3. ASSUME x \in ResultPerFile PROVE Sound(x, TRUE)
  <2>1. PICK n \in 0..NFiles :
          x = [ok |-> n, err |-> FALSE,
               ret |-> IF n = NFiles THEN "nil" ELSE "error"]
    BY <1>3 DEF ResultPerFile
  <2>2. QED BY <2>1, NFilesIsNat DEF Sound, MaxSeq, Returned
<1>4. \/ o.outcomes = OneResult
      \/ o.outcomes = OnlyFailures
      \/ o.outcomes = ResultPerFile /\ o = CopyMultiFileParallel
  BY DEF Operation, Parallel, ExecuteCommandParallel,
         ExecuteCommandParallelWithoutPool, CopyFileParallel,
         CopyFileParallelWithoutPool, CopyMultiFileParallel,
         AddHostsParallel, AddHostsParallelWithoutPool,
         AddMultiHostsParallel, AddDNSParallel
<1>5. QED
  BY <1>1, <1>2, <1>3, <1>4 DEF Sound

(* The messages a worker pushes are messages of the channel.               *)
LEMMA PushedAreMessages ==
  ASSUME NEW w \in Worker, NEW n \in Nat, n <= MaxSeq
  PROVE  Failure(w) \in Message /\ Successes(w, n) \subseteq Message
<1>1. MaxSeq \in Nat /\ 0 <= MaxSeq
  BY NFilesIsNat DEF MaxSeq
<1>2. Failure(w) \in Message
  BY <1>1 DEF Failure, Message
<1>3. ASSUME NEW m \in Successes(w, n) PROVE m \in Message
  <2>1. PICK i \in 1..n : m = [from |-> w, seq |-> i, success |-> TRUE]
    BY <1>3 DEF Successes
  <2>2. i \in 0..MaxSeq
    BY <1>1
  <2>3. QED BY <2>1, <2>2 DEF Message
<1>4. QED BY <1>2, <1>3

----------------------------------------------------------------------------
(* Every variable keeps its type.                                          *)
THEOREM TypeCorrect == Spec => []TypeOK
<1> USE DEF Thread
<1>1. Init => TypeOK
  BY PoolAssumption DEF Init, TypeOK
<1>2. TypeOK /\ [Next]_vars => TypeOK'
  <2> SUFFICES ASSUME TypeOK, [Next]_vars PROVE TypeOK'
    OBVIOUS
  <2> USE DEF TypeOK
  <2>1. ASSUME NEW t \in Thread, Lock(t) PROVE TypeOK'
    BY <2>1 DEF Lock
  <2>2. ASSUME NEW t \in Thread, GetSSHExecutor(t) PROVE TypeOK'
    BY <2>2, PoolAssumption DEF GetSSHExecutor
  <2>3. ASSUME NEW t \in Thread, NewConnection(t) PROVE TypeOK'
    BY <2>3, PoolAssumption DEF NewConnection
  <2>4. ASSUME NEW t \in Thread, ConnectionError(t) PROVE TypeOK'
    BY <2>4 DEF ConnectionError
  <2>5. ASSUME NEW t \in Thread, Connected(t) PROVE TypeOK'
    BY <2>5 DEF Connected
  <2>6. ASSUME NEW t \in Thread, NotConnected(t) PROVE TypeOK'
    <3>1. t \in Worker => {Failure(t)} \subseteq Message
      BY PushedAreMessages, NFilesIsNat DEF MaxSeq
    <3>2. QED BY <2>6, <3>1 DEF NotConnected
  <2>7. ASSUME NEW w \in Worker, Run(w) PROVE TypeOK'
    <3> PICK o \in op.outcomes :
          /\ outcome' = [outcome EXCEPT ![w] = o.ret]
          /\ pending' = [pending EXCEPT ![w] =
               Successes(w, o.ok) \cup (IF o.err THEN {Failure(w)} ELSE {})]
      BY <2>7 DEF Run
    <3>1. o.ret \in Returned /\ o.ok \in Nat /\ o.ok <= MaxSeq
      BY OutcomesSound DEF Sound
    <3>2. Successes(w, o.ok) \cup (IF o.err THEN {Failure(w)} ELSE {})
            \in SUBSET Message
      BY <3>1, PushedAreMessages
    <3>3. QED BY <2>7, <3>1, <3>2 DEF Run
  <2>8. ASSUME NEW w \in Worker, Push(w) PROVE TypeOK'
    BY <2>8 DEF Push
  <2>9. ASSUME NEW w \in Worker, Finish(w) PROVE TypeOK'
    BY <2>9 DEF Finish
  <2>10. ASSUME NEW t \in Solo, RunSolo(t) PROVE TypeOK'
    BY <2>10 DEF RunSolo
  <2>11. CASE Close
    BY <2>11 DEF Close
  <2>12. CASE Collect
    BY <2>12 DEF Collect
  <2>13. CASE Return
    BY <2>13 DEF Return
  <2>14. CASE Terminated \/ UNCHANGED vars
    BY <2>14 DEF Terminated, vars
  <2>15. QED
    BY <2>1, <2>2, <2>3, <2>4, <2>5, <2>6, <2>7, <2>8, <2>9, <2>10, <2>11,
       <2>12, <2>13, <2>14 DEF Next, Connect, Proceed, Dial
<1>3. QED
  BY <1>1, <1>2, PTL DEF Spec

----------------------------------------------------------------------------
(* The pool: who holds the mutex, and that a name is dialled only while    *)
(* nothing is stored under it.                                             *)
InCritical(t) == \/ Pooled(t) /\ pc[t] \in {"get", "dial", "got"}
                 \/ pc[t] = "run" /\ HoldsWhileRunning(t)

PoolInv ==
  /\ \A t \in Thread : InCritical(t) => mutex = t
  /\ \A t \in Thread : pc[t] \in {"lock", "get", "dial"} => t \notin opened
  /\ \A t \in Thread : pc[t] = "dial" /\ Pooled(t) =>
                        executors[Name[t]] = None
  /\ \A t \in opened : Pooled(t) => executors[Name[t]] # None

(* The books: where a worker's messages are, and that its failure is among *)
(* them unless it is one of those that are lost.                           *)
Sent(w) == pending[w] \cup results \cup received

LedgerInv ==
  /\ \A w \in Worker : \A m \in pending[w] : m.from = w
  /\ \A w \in Worker : pc[w] \notin {"push", "done"} =>
                        \A m \in Sent(w) : m.from # w
  /\ \A w \in Worker : pc[w] # "push" => pending[w] = {}
  /\ \A w \in Worker : \A m \in Sent(w) : ~m.success => m = Failure(m.from)
  /\ \A w \in Worker : Failure(w) \in Sent(w) =>
                        outcome[w] \in {"unreached", "error"}
  /\ \A w \in Worker : pc[w] \in {"push", "done"} =>
       \/ outcome[w] = "nil"
       \/ Failure(w) \in Sent(w)
       \/ FailureIsLost(w)
  /\ \A w \in Worker : pc[w] \in {"lock", "get", "dial", "run"} =>
                        outcome[w] = "none"
  /\ \A w \in Worker : pc[w] = "got" =>
       outcome[w] = IF executor[w] = None THEN "unreached" ELSE "none"
  /\ \A w \in Worker : pc[w] \in {"lock", "get", "dial"} => executor[w] = None

(* The answer: given once everything sent has been received.               *)
AnswerInv ==
  /\ closed => \A w \in Worker : pc[w] = "done"
  /\ verdict # "none" =>
       /\ closed /\ results = {}
       /\ verdict = "failure" <=> \E m \in received : ~m.success

IInv == PoolInv /\ LedgerInv /\ AnswerInv

LEMMA PoolInvStep == TypeOK /\ PoolInv /\ [Next]_vars => PoolInv'
<1> SUFFICES ASSUME TypeOK, PoolInv, [Next]_vars PROVE PoolInv'
  OBVIOUS
<1> USE DEF PoolInv, InCritical, Pooled, HoldsWhileRunning, TypeOK, Thread
<1>0. \A t \in Thread : Address[t] # None /\ t # None
  BY PoolAssumption
<1>w. \A w \in Worker : w \notin Solo
  BY PoolAssumption
<1>1. ASSUME NEW t \in Thread, Lock(t) PROVE PoolInv'
  BY <1>1, <1>0 DEF Lock
<1>2. ASSUME NEW t \in Thread, GetSSHExecutor(t) PROVE PoolInv'
  BY <1>2 DEF GetSSHExecutor
<1>3. ASSUME NEW t \in Thread, NewConnection(t) PROVE PoolInv'
  BY <1>3, <1>0 DEF NewConnection
<1>4. ASSUME NEW t \in Thread, ConnectionError(t) PROVE PoolInv'
  BY <1>4 DEF ConnectionError
<1>5. ASSUME NEW t \in Thread, Connected(t) PROVE PoolInv'
  BY <1>5 DEF Connected
<1>6. ASSUME NEW t \in Thread, NotConnected(t) PROVE PoolInv'
  BY <1>6 DEF NotConnected
<1>7. ASSUME NEW w \in Worker, Run(w) PROVE PoolInv'
  BY <1>7, <1>w DEF Run
<1>8. ASSUME NEW w \in Worker, Push(w) PROVE PoolInv'
  BY <1>8 DEF Push
<1>9. ASSUME NEW w \in Worker, Finish(w) PROVE PoolInv'
  BY <1>9 DEF Finish
<1>10. ASSUME NEW t \in Solo, RunSolo(t) PROVE PoolInv'
  BY <1>10 DEF RunSolo
<1>11. CASE Close
  BY <1>11 DEF Close
<1>12. CASE Collect
  BY <1>12 DEF Collect
<1>13. CASE Return
  BY <1>13 DEF Return
<1>14. CASE Terminated \/ UNCHANGED vars
  BY <1>14 DEF Terminated, vars
<1>15. QED
  BY <1>1, <1>2, <1>3, <1>4, <1>5, <1>6, <1>7, <1>8, <1>9, <1>10, <1>11,
     <1>12, <1>13, <1>14 DEF Next, Connect, Proceed, Dial

(* Two callers never hold connections of their own under one name.         *)
THEOREM OneConnection == Spec => []OneConnectionPerName
<1>1. Init => PoolInv
  BY PoolAssumption
  DEF Init, PoolInv, InCritical, HoldsWhileRunning, Pooled, Thread
<1>2. TypeOK /\ PoolInv /\ [Next]_vars => PoolInv'
  BY PoolInvStep
<1>3. OneConnectionPerName /\ TypeOK /\ PoolInv /\ [Next]_vars =>
        OneConnectionPerName'
  <2> SUFFICES ASSUME OneConnectionPerName, TypeOK, PoolInv, [Next]_vars
               PROVE  OneConnectionPerName'
    OBVIOUS
  <2> USE DEF OneConnectionPerName, TypeOK, Pooled
  <2>1. op' = op /\ (opened' = opened \/ \E t \in Thread : NewConnection(t))
    BY DEF Next, Connect, Proceed, Dial, Lock, GetSSHExecutor, ConnectionError,
           Connected, NotConnected, Run, Push, Finish, RunSolo, Close, Collect,
           Return, Terminated, vars, NewConnection
  <2>2. CASE opened' = opened
    BY <2>1, <2>2
  <2>3. ASSUME NEW t \in Thread, NewConnection(t)
        PROVE  OneConnectionPerName'
    <3>1. Pooled(t) => \A s \in opened : Pooled(s) => Name[s] # Name[t]
      BY <2>3 DEF PoolInv, NewConnection
    <3>2. QED
      BY <2>1, <2>3, <3>1 DEF NewConnection
  <2>4. QED BY <2>1, <2>2, <2>3
<1>4. Init => OneConnectionPerName
  BY DEF Init, OneConnectionPerName
<1>5. QED
  BY <1>1, <1>2, <1>3, <1>4, TypeCorrect, PTL DEF Spec

----------------------------------------------------------------------------
LEMMA InitLedger == Init => LedgerInv /\ AnswerInv
BY DEF Init, LedgerInv, AnswerInv, Sent, Thread

(* A remote operation that answers puts the worker's messages, and no      *)
(* others, in its pending set.                                             *)
LEMMA RunLedger ==
  ASSUME TypeOK, LedgerInv, NEW w \in Worker, Run(w)
  PROVE  LedgerInv'
<1> USE DEF TypeOK, Thread
<1>1. PICK o \in op.outcomes :
        /\ outcome' = [outcome EXCEPT ![w] = o.ret]
        /\ pending' = [pending EXCEPT ![w] =
             Successes(w, o.ok) \cup (IF o.err THEN {Failure(w)} ELSE {})]
  BY DEF Run
<1>2. Sound(o, op = CopyMultiFileParallel)
  BY OutcomesSound
<1>3. /\ \A m \in Successes(w, o.ok) : m.from = w /\ m.success
      /\ \A v \in Worker : Failure(v).from = v /\ ~Failure(v).success
  BY DEF Successes, Failure
<1>4. /\ \A m \in pending'[w] : m.from = w
      /\ \A m \in pending'[w] : ~m.success => m = Failure(w) /\ o.err
      /\ o.err => Failure(w) \in pending'[w]
      /\ \A v \in Worker \ {w} : pending'[v] = pending[v]
      /\ results' = results /\ received' = received
  BY <1>1, <1>2, <1>3 DEF Run, Sound
<1>5. /\ \A v \in Worker \ {w} : Sent(v)' = Sent(v)
      /\ Sent(w)' = pending'[w] \cup results \cup received
      /\ \A m \in results \cup received : m.from # w
  BY <1>4 DEF Sent, Run, LedgerInv
<1>6. /\ pc' = [pc EXCEPT ![w] = "push"] /\ pc[w] = "run"
      /\ outcome' = [outcome EXCEPT ![w] = o.ret]
      /\ o.ret \in {"nil", "error"}
      /\ o.err => o.ret = "error"
      /\ o.ret = "error" => o.err \/ op = CopyMultiFileParallel
      /\ op' = op /\ executor' = executor
  BY <1>1, <1>2 DEF Run, Sound, Returned
<1>7. \A v \in Worker \ {w} : /\ pc'[v] = pc[v] /\ outcome'[v] = outcome[v]
                              /\ FailureIsLost(v)' = FailureIsLost(v)
  BY <1>6 DEF FailureIsLost, Pooled
<1>8. /\ pc'[w] = "push" /\ outcome'[w] = o.ret
      /\ o.ret = "error" => o.err \/ FailureIsLost(w)'
  BY <1>6 DEF FailureIsLost
<1>9. \A m \in results \cup received : ~m.success => m = Failure(m.from)
  BY DEF LedgerInv, Sent
<1>10. Failure(w) \in Sent(w)' => o.err
  BY <1>3, <1>4, <1>5
<1>11. QED
  BY <1>3, <1>4, <1>5, <1>6, <1>7, <1>8, <1>9, <1>10 DEF LedgerInv

LEMMA LedgerInvStep == TypeOK /\ LedgerInv /\ [Next]_vars => LedgerInv'
<1> SUFFICES ASSUME TypeOK, LedgerInv, [Next]_vars PROVE LedgerInv'
  OBVIOUS
<1> USE DEF LedgerInv, Sent, FailureIsLost, TypeOK, Thread
<1>0. \A v \in Worker : Failure(v).from = v /\ ~Failure(v).success
  BY DEF Failure
<1>a. \A t \in Thread : Address[t] # None
  BY PoolAssumption
<1>w. \A w \in Worker : w \notin Solo
  BY PoolAssumption
<1>1. ASSUME NEW t \in Thread, Lock(t) PROVE LedgerInv'
  BY <1>1 DEF Lock
<1>2. ASSUME NEW t \in Thread, GetSSHExecutor(t) PROVE LedgerInv'
  BY <1>2 DEF GetSSHExecutor
<1>3. ASSUME NEW t \in Thread, NewConnection(t) PROVE LedgerInv'
  BY <1>3, <1>a DEF NewConnection
<1>4. ASSUME NEW t \in Thread, ConnectionError(t) PROVE LedgerInv'
  BY <1>0, <1>4 DEF ConnectionError
<1>5. ASSUME NEW t \in Thread, Connected(t) PROVE LedgerInv'
  BY <1>5 DEF Connected
<1>6. ASSUME NEW t \in Thread, NotConnected(t) PROVE LedgerInv'
  <2>1. CASE t \in Worker /\ op.pooled
    BY <1>0, <1>6, <2>1 DEF NotConnected
  <2>2. CASE ~(t \in Worker /\ op.pooled)
    BY <1>6, <2>2 DEF NotConnected
  <2>3. QED BY <2>1, <2>2
<1>7. ASSUME NEW w \in Worker, Run(w) PROVE LedgerInv'
  BY <1>7, RunLedger
<1>8. ASSUME NEW w \in Worker, Push(w) PROVE LedgerInv'
  <2>1. PICK m \in pending[w] :
          /\ results' = results \cup {m}
          /\ pending' = [pending EXCEPT ![w] = @ \ {m}]
    BY <1>8 DEF Push
  <2>2. m.from = w /\ pc[w] = "push"
    BY <1>8 DEF Push
  <2>3. QED BY <1>0, <1>8, <2>1, <2>2 DEF Push
<1>9. ASSUME NEW w \in Worker, Finish(w) PROVE LedgerInv'
  BY <1>9 DEF Finish
<1>10. ASSUME NEW t \in Solo, RunSolo(t) PROVE LedgerInv'
  BY <1>10, <1>w DEF RunSolo
<1>11. CASE Close
  BY <1>11 DEF Close
<1>12. CASE Collect
  BY <1>12 DEF Collect
<1>13. CASE Return
  BY <1>13 DEF Return
<1>14. CASE Terminated \/ UNCHANGED vars
  BY <1>14 DEF Terminated, vars
<1>15. QED
  BY <1>1, <1>2, <1>3, <1>4, <1>5, <1>6, <1>7, <1>8, <1>9, <1>10, <1>11,
     <1>12, <1>13, <1>14 DEF Next, Connect, Proceed, Dial

LEMMA AnswerInvStep ==
  TypeOK /\ LedgerInv /\ AnswerInv /\ [Next]_vars => AnswerInv'
<1> SUFFICES ASSUME TypeOK, LedgerInv, AnswerInv, [Next]_vars
             PROVE  AnswerInv'
  OBVIOUS
<1> USE DEF AnswerInv, TypeOK, Thread
<1>w. \A w \in Worker : w \notin Solo
  BY PoolAssumption
<1>1. ASSUME NEW t \in Thread, Connect(t) PROVE AnswerInv'
  BY <1>1 DEF Connect, Proceed, Dial, Lock, GetSSHExecutor, NewConnection,
              ConnectionError, Connected, NotConnected
<1>2. ASSUME NEW w \in Worker, Run(w) \/ Push(w) \/ Finish(w)
      PROVE  AnswerInv'
  BY <1>2 DEF Run, Push, Finish
<1>3. ASSUME NEW t \in Solo, RunSolo(t) PROVE AnswerInv'
  BY <1>3, <1>w DEF RunSolo
<1>4. CASE Close
  BY <1>4 DEF Close
<1>5. CASE Collect
  BY <1>5 DEF Collect
<1>6. CASE Return
  BY <1>6 DEF Return
<1>7. CASE Terminated \/ UNCHANGED vars
  BY <1>7 DEF Terminated, vars
<1>8. QED
  BY <1>1, <1>2, <1>3, <1>4, <1>5, <1>6, <1>7 DEF Next

LEMMA Invariant == Spec => [](TypeOK /\ IInv)
<1>1. Init => PoolInv
  BY PoolAssumption
  DEF Init, PoolInv, InCritical, HoldsWhileRunning, Pooled, Thread
<1>2. Init => LedgerInv /\ AnswerInv
  BY InitLedger
<1>3. TypeOK /\ IInv /\ [Next]_vars => IInv'
  BY PoolInvStep, LedgerInvStep, AnswerInvStep DEF IInv
<1>4. QED
  BY <1>1, <1>2, <1>3, TypeCorrect, PTL DEF Spec, IInv

(* No goroutine sends on the closed channel.                               *)
THEOREM NoSendAfterClose == Spec => []NoSendOnClosed
<1>1. TypeOK /\ IInv => NoSendOnClosed
  BY DEF IInv, AnswerInv, NoSendOnClosed
<1>2. QED
  BY <1>1, Invariant, PTL

(* OverallSuccess means that every host succeeded, except for the two      *)
(* kinds of failure that the code loses; a failure means that one failed.  *)
THEOREM HonestAnswer == Spec => []SuccessIsHonest
<1>1. TypeOK /\ IInv => SuccessIsHonest
  <2> SUFFICES ASSUME TypeOK, IInv PROVE SuccessIsHonest
    OBVIOUS
  <2> USE DEF IInv, AnswerInv, LedgerInv, Sent
  <2>1. ASSUME verdict = "success", NEW w \in Worker
        PROVE  outcome[w] = "nil" \/ FailureIsLost(w)
    <3>1. pc[w] = "done" /\ results = {} /\ pending[w] = {}
      BY <2>1
    <3>2. Failure(w) \notin Sent(w)
      BY <2>1, <3>1 DEF Failure
    <3>3. QED BY <3>1, <3>2
  <2>2. ASSUME verdict = "failure"
        PROVE  \E w \in Worker : outcome[w] \in {"unreached", "error"}
    <3>1. PICK m \in received : ~m.success
      BY <2>2
    <3>2. m \in Message /\ m.from \in Worker
      BY DEF TypeOK, Message
    <3>3. Failure(m.from) \in Sent(m.from)
      BY <3>1, <3>2
    <3>4. QED BY <3>2, <3>3
  <2>3. QED BY <2>1, <2>2 DEF SuccessIsHonest
<1>2. QED
  BY <1>1, Invariant, PTL

----------------------------------------------------------------------------
(* Who dialled for whom: an opener works on its own machine, what is       *)
(* stored under a name was opened by a pooled caller of that name, and     *)
(* only pooled callers look names up.                                      *)
OpenerInv ==
  /\ \A t \in Thread : pc[t] \in {"lock", "get"} => Pooled(t)
  /\ \A t \in opened : executor[t] = Address[t]
  /\ \A t \in Thread : executors[Name[t]] # None =>
       \E s \in opened : /\ Pooled(s) /\ Name[s] = Name[t]
                         /\ executors[Name[t]] = Address[s]

MachineInv == OpenerInv /\ OwnMachineUnlessNameShared

(* A lookup gives the looker what an opener of its name has stored, if     *)
(* anything is stored; it has opened nothing itself.                       *)
LEMMA LookupMachine ==
  ASSUME TypeOK, PoolInv, MachineInv, NEW t \in Thread, GetSSHExecutor(t)
  PROVE  MachineInv'
<1> USE DEF MachineInv, OpenerInv, TypeOK
<1>1. /\ executor' = [executor EXCEPT ![t] = executors[Name[t]]]
      /\ \A s \in Thread : Pooled(s)' = Pooled(s)
      /\ \A s \in Thread : pc'[s] \in {"lock", "get"} =>
                             pc[s] \in {"lock", "get"}
      /\ opened' = opened /\ executors' = executors
      /\ t \notin opened
  BY DEF GetSSHExecutor, PoolInv, Pooled
<1>2. OpenerInv'
  BY <1>1
<1>3. Pooled(t)
  BY DEF GetSSHExecutor
<1>4. QED
  BY <1>1, <1>2, <1>3 DEF OwnMachineUnlessNameShared

(* A dial gives the caller its own machine; nothing was stored under its   *)
(* name, so that nobody else's entry is replaced.                          *)
LEMMA DialMachine ==
  ASSUME TypeOK, PoolInv, MachineInv, NEW t \in Thread, NewConnection(t)
  PROVE  MachineInv'
<1> USE DEF MachineInv, OpenerInv, TypeOK
<1>1. /\ executor' = [executor EXCEPT ![t] = Address[t]]
      /\ opened' = opened \cup {t}
      /\ \A s \in Thread : Pooled(s)' = Pooled(s)
      /\ executors' = IF Pooled(t)
                        THEN [executors EXCEPT ![Name[t]] = Address[t]]
                        ELSE executors
  BY DEF NewConnection, Pooled
<1>2. OpenerInv'
  <2>0. \A s \in Thread : pc'[s] \in {"lock", "get"} => Pooled(s)'
    BY <1>1 DEF NewConnection
  <2>1. \A s \in opened' : executor'[s] = Address[s]
    BY <1>1
  <2>2. ASSUME NEW u \in Thread, executors'[Name[u]] # None
        PROVE  \E s \in opened' : /\ Pooled(s)' /\ Name[s] = Name[u]
                                  /\ executors'[Name[u]] = Address[s]
    <3>1. CASE Pooled(t) /\ Name[u] = Name[t]
      BY <1>1, <3>1
    <3>2. CASE ~(Pooled(t) /\ Name[u] = Name[t])
      <4>1. executors'[Name[u]] = executors[Name[u]]
        BY <1>1, <3>2
      <4>2. QED BY <1>1, <2>2, <4>1
    <3>3. QED BY <3>1, <3>2
  <2>3. QED BY <2>0, <2>1, <2>2
<1>3. ASSUME NEW u \in Thread, executor'[u] # None
      PROVE  \/ executor'[u] = Address[u]
             \/ /\ Pooled(u)'
                /\ \E s \in opened' \ {u} : /\ Pooled(s)' /\ Name[s] = Name[u]
                                            /\ executor'[u] = Address[s]
  <2>1. CASE u = t
    BY <1>1, <2>1
  <2>2. CASE u # t
    BY <1>1, <1>3, <2>2 DEF OwnMachineUnlessNameShared
  <2>3. QED BY <2>1, <2>2
<1>4. QED
  BY <1>2, <1>3 DEF OwnMachineUnlessNameShared

(* A thread works on the machine of its own entry, or on that of another   *)
(* entry of the same name that connected first.                            *)
THEOREM OwnMachine == Spec => []OwnMachineUnlessNameShared
<1>1. Init => MachineInv
  BY PoolAssumption
  DEF Init, MachineInv, OpenerInv, OwnMachineUnlessNameShared, Pooled, Thread
<1>2. TypeOK /\ IInv /\ MachineInv /\ [Next]_vars => MachineInv'
  <2> SUFFICES ASSUME TypeOK, IInv, MachineInv, [Next]_vars
               PROVE  MachineInv'
    OBVIOUS
  <2>1. PoolInv
    BY DEF IInv
  <2>2. \/ \E t \in Thread : GetSSHExecutor(t)
        \/ \E t \in Thread : NewConnection(t)
        \/ /\ UNCHANGED <<op, executors, opened, executor>>
           /\ \A t \in Thread : pc'[t] \in {"lock", "get"} =>
                                  pc[t] \in {"lock", "get"}
    BY DEF Next, Connect, Proceed, Dial, Lock, ConnectionError, Connected,
           NotConnected, Run, Push, Finish, RunSolo, Close, Collect, Return,
           Terminated, vars, TypeOK, Thread
  <2>3. CASE /\ UNCHANGED <<op, executors, opened, executor>>
             /\ \A t \in Thread : pc'[t] \in {"lock", "get"} =>
                                    pc[t] \in {"lock", "get"}
    BY <2>3 DEF MachineInv, OpenerInv, OwnMachineUnlessNameShared, Pooled
  <2>4. QED
    BY <2>1, <2>2, <2>3, LookupMachine, DialMachine
<1>3. MachineInv => OwnMachineUnlessNameShared
  BY DEF MachineInv
<1>4. QED
  BY <1>1, <1>2, <1>3, Invariant, PTL DEF Spec

----------------------------------------------------------------------------
(* The refinement: a worker settles in the abstract call when it is done,  *)
(* and what it reported then never changes.                                *)
LEMMA ReportWhenDone ==
  ASSUME TypeOK, IInv, TypeOK', [Next]_vars, NEW w \in Worker, pc[w] = "done"
  PROVE  pc'[w] = "done" /\ Reported(w)' = Reported(w)
<1> USE DEF TypeOK, Thread
<1>1. pc'[w] = "done"
  BY PoolAssumption
  DEF Next, Connect, Proceed, Dial, Lock, GetSSHExecutor, NewConnection,
      ConnectionError, Connected, NotConnected, Run, Push, Finish, RunSolo,
      Close, Collect, Return, Terminated, vars
<1>2. ASSUME results' \cup received' = results \cup received
      PROVE  Reported(w)' = Reported(w)
  BY <1>2 DEF Reported
<1>3. ASSUME NEW v \in Worker, Push(v) PROVE Reported(w)' = Reported(w)
  <2>1. PICK m \in pending[v] : results' = results \cup {m}
    BY <1>3 DEF Push
  <2>2. m.from = v /\ v # w /\ received' = received
    BY <1>3 DEF Push, IInv, LedgerInv
  <2>3. QED BY <2>1, <2>2 DEF Reported
<1>4. \/ results' \cup received' = results \cup received
      \/ \E v \in Worker : Push(v)
  BY DEF Next, Connect, Proceed, Dial, Lock, GetSSHExecutor, NewConnection,
         ConnectionError, Connected, NotConnected, Run, Finish, RunSolo, Close,
         Collect, Return, Terminated, vars
<1>5. Reported(w)' = Reported(w)
  <2>1. ASSUME NEW v \in Worker, Push(v) PROVE Reported(w)' = Reported(w)
    BY <1>3, <2>1
  <2>2. QED BY <1>2, <1>4, <2>1
<1>6. QED BY <1>1, <1>5

(* At most one worker becomes done in a step, and none in a Return.        *)
LEMMA OneSettles ==
  ASSUME TypeOK, [Next]_vars
  PROVE  \/ \A w \in Worker : pc[w] # "done" => pc'[w] # "done"
         \/ \E v \in Worker :
              /\ pc[v] # "done" /\ pc'[v] = "done" /\ verdict' = verdict
              /\ \A w \in Worker \ {v} : pc'[w] = pc[w]
<1> USE PoolAssumption DEF TypeOK, Thread
<1>1. ASSUME NEW t \in Thread, NotConnected(t)
      PROVE  \/ \A w \in Worker : pc[w] # "done" => pc'[w] # "done"
             \/ \E v \in Worker :
                  /\ pc[v] # "done" /\ pc'[v] = "done" /\ verdict' = verdict
                  /\ \A w \in Worker \ {v} : pc'[w] = pc[w]
  BY <1>1 DEF NotConnected
<1>2. ASSUME NEW t \in Worker, Finish(t)
      PROVE  \E v \in Worker :
               /\ pc[v] # "done" /\ pc'[v] = "done" /\ verdict' = verdict
               /\ \A w \in Worker \ {v} : pc'[w] = pc[w]
  BY <1>2 DEF Finish
<1>3. \/ \E t \in Thread : NotConnected(t)
      \/ \E t \in Worker : Finish(t)
      \/ \A w \in Worker : pc[w] # "done" => pc'[w] # "done"
  <2> DEFINE NobodyDone == \A w \in Worker : pc[w] # "done" => pc'[w] # "done"
  <2>1. ASSUME NEW t \in Thread, Connect(t), ~NotConnected(t)
        PROVE  NobodyDone
    BY <2>1 DEF Connect, Proceed, Dial, Lock, GetSSHExecutor, NewConnection,
                ConnectionError, Connected
  <2>2. ASSUME NEW w \in Worker, Run(w) \/ Push(w) PROVE NobodyDone
    BY <2>2 DEF Run, Push
  <2>3. ASSUME NEW t \in Solo, RunSolo(t) PROVE NobodyDone
    BY <2>3 DEF RunSolo
  <2>4. CASE Close \/ Collect \/ Return \/ Terminated \/ UNCHANGED vars
    BY <2>4 DEF Close, Collect, Return, Terminated, vars
  <2>5. QED BY <2>1, <2>2, <2>3, <2>4 DEF Next
<1>4. QED BY <1>1, <1>2, <1>3

LEMMA StepRefines ==
  ASSUME TypeOK, IInv, TypeOK', IInv', [Next]_vars
  PROVE  [Call!Next]_(Call!callVars)
<1> USE DEF TypeOK, Thread
<1>1. \A w \in Worker :
        /\ report[w] = "none" <=> pc[w] # "done"
        /\ report'[w] = "none" <=> pc'[w] # "done"
        /\ pc[w] = "done" => report'[w] = report[w]
        /\ report'[w] \in {"none", "silent", "success", "failure"}
  BY ReportWhenDone DEF report
<1>2. /\ report = [w \in Worker |-> report[w]]
      /\ report' = [w \in Worker |-> report'[w]]
  BY DEF report
<1>3. CASE Return
  <2>1. /\ verdict = "none" /\ closed /\ results = {}
        /\ verdict' = IF \E m \in received : ~m.success
                        THEN "failure" ELSE "success"
        /\ pc' = pc /\ results' = results /\ received' = received
    BY <1>3 DEF Return
  <2>2. \A w \in Worker : pc[w] = "done" /\ pending[w] = {}
    BY <2>1 DEF IInv, AnswerInv, LedgerInv
  <2>3. report' = report
    BY <1>1, <1>2, <2>2
  <2>4. ASSUME NEW m \in received, ~m.success
        PROVE  \E w \in Worker : report[w] = "failure"
    <3>1. m.from \in Worker
      BY DEF Message
    <3>2. Failure(m.from) = m
      BY <2>4, <3>1 DEF IInv, LedgerInv, Sent
    <3>3. m \in Reported(m.from)
      BY <3>1 DEF Reported
    <3>4. QED BY <2>2, <3>1, <3>2, <3>3 DEF report
  <2>5. ASSUME NEW w \in Worker, report[w] = "failure"
        PROVE  \E m \in received : ~m.success
    <3>1. Failure(w) \in Reported(w)
      BY <2>2, <2>5 DEF report
    <3>2. QED BY <2>1, <3>1 DEF Reported, Failure
  <2>6. Call!Answer
    BY <1>1, <2>1, <2>2, <2>3, <2>4, <2>5 DEF Call!Answer
  <2>7. QED BY <2>6 DEF Call!Next
<1>4. CASE ~Return
  <2>1. verdict' = verdict
    BY <1>4 DEF Next, Connect, Proceed, Dial, Lock, GetSSHExecutor,
                NewConnection, ConnectionError, Connected, NotConnected, Run,
                Push, Finish, RunSolo, Close, Collect, Terminated, vars
  <2>2. CASE \A w \in Worker : pc[w] # "done" => pc'[w] # "done"
    <3>1. \A w \in Worker : report'[w] = report[w]
      BY <1>1, <2>2
    <3>2. report' = report
      BY <1>2, <3>1
    <3>3. QED BY <2>1, <3>2 DEF Call!callVars
  <2>3. ASSUME NEW v \in Worker, pc[v] # "done", pc'[v] = "done",
               \A w \in Worker \ {v} : pc'[w] = pc[w]
        PROVE  Call!Settle(v)
    <3>1. /\ report[v] = "none"
          /\ report'[v] \in {"silent", "success", "failure"}
      BY <1>1, <2>3
    <3>2. \A w \in Worker \ {v} : report'[w] = report[w]
      BY <1>1, <2>3
    <3>3. report' = [report EXCEPT ![v] = report'[v]]
      BY <1>2, <3>2
    <3>4. QED BY <2>1, <3>1, <3>3 DEF Call!Settle
  <2>4. QED BY <2>2, <2>3, OneSettles DEF Call!Next
<1>5. QED BY <1>3, <1>4

(* The concurrent call implements the abstract one.                        *)
THEOREM PoolImplementsCall == Spec => ImplementsCall
<1>1. Init => Call!Init
  <2> SUFFICES ASSUME Init PROVE Call!Init
    OBVIOUS
  <2>1. \A w \in Worker : pc[w] # "done"
    BY DEF Init, Thread
  <2>2. QED BY <2>1 DEF Init, Call!Init, report
<1>2. TypeOK /\ IInv /\ TypeOK' /\ IInv' /\ [Next]_vars =>
        [Call!Next]_(Call!callVars)
  BY StepRefines
<1>3. QED
  BY <1>1, <1>2, Invariant, PTL DEF Spec, ImplementsCall, Call!Spec
=============================================================================
