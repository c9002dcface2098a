---------------------------- MODULE ExecutorPool ----------------------------
(***************************************************************************)
(* The SSH executor pool of pkg/utils/ssh_session_pool.go: one call of one *)
(* of its ...Parallel methods over a list of hosts, sharing the pool with  *)
(* callers of its single-host methods.                                     *)
(*                                                                         *)
(* The fan-out starts a goroutine per entry of the host list.  A pooled    *)
(* one takes the pool's mutex, looks its host's name up in Executors and   *)
(* dials on a miss, gives the mutex back, runs the remote operation and    *)
(* pushes MachineResults into a channel of capacity len(hosts).  A closer  *)
(* goroutine closes the channel when the wait group is empty; the caller   *)
(* drains it and answers OverallSuccess.                                   *)
(***************************************************************************)
EXTENDS Naturals, FiniteSets

CONSTANTS
  Worker,     (* positions of the host list: one fan-out goroutine each     *)
  Solo,       (* callers of the pool's single-host methods                  *)
  Name,       (* [thread -> host.Name], the key of Executors                *)
  Address,    (* [thread -> host.Address], the machine that is dialled      *)
  NFiles,     (* files of a CopyMultiFileParallel call                      *)
  Hung,       (* addresses of the machines that may stop answering          *)
  None        (* nil: no executor, no mutex holder                          *)

Thread == Worker \cup Solo

ASSUME PoolAssumption ==
  /\ Worker \cap Solo = {}
  /\ NFiles \in Nat
  /\ DOMAIN Name = Thread /\ DOMAIN Address = Thread
  /\ None \notin Thread
  /\ \A t \in Thread : Address[t] # None
  /\ Hung \subseteq {Address[t] : t \in Thread}

VARIABLES
  op,         (* the ...Parallel method that was called                     *)
  soloOp,     (* the method each solo caller is in                          *)
  mutex,      (* pool.mutex: its holder                                     *)
  executors,  (* pool.Executors: host name -> machine it is connected to    *)
  opened,     (* threads that opened an SSH connection                      *)
  pc,
  executor,   (* each thread's local `executor`                             *)
  outcome,    (* what connecting and the remote operation came to           *)
  pending,    (* results a worker has yet to push                           *)
  results,    (* the results channel, unordered: its reader only counts     *)
  closed,     (* close(results) has run                                     *)
  received,   (* copyResult.Results                                         *)
  verdict     (* OverallSuccess, once the call has returned                 *)

vars == <<op, soloOp, mutex, executors, opened, pc, executor, outcome,
          pending, results, closed, received, verdict>>

----------------------------------------------------------------------------
(* The methods differ in whether they use the pool and in what their       *)
(* goroutines push once the executor's method has returned: `ok` success   *)
(* results, one per call of the output handler, then a failure if `err`.   *)

Returned == {"nil", "error"}
MaxSeq   == IF NFiles = 0 THEN 1 ELSE NFiles
Message  == [from : Worker, seq : 0..MaxSeq, success : BOOLEAN]

(* Mutant of OneResult: the goroutine forgets to report an error.          *)
ErrorNotReported == {[ok |-> 1, err |-> FALSE, ret |-> "nil"],
                     [ok |-> 0, err |-> FALSE, ret |-> "error"]}

OneResult == {[ok |-> 1, err |-> FALSE, ret |-> "nil"],
              [ok |-> 0, err |-> TRUE,  ret |-> "error"]}

(* CopyMultiFile's own CopyResult is dropped: only the files that arrived  *)
(* are reported, one success each.                                         *)
ResultPerFile ==
  {[ok |-> n, err |-> FALSE, ret |-> IF n = NFiles THEN "nil" ELSE "error"]
     : n \in 0..NFiles}

(* AddDNSParallel passes no output handler: a success reports nothing.     *)
OnlyFailures == {[ok |-> 0, err |-> FALSE, ret |-> "nil"],
                 [ok |-> 0, err |-> TRUE,  ret |-> "error"]}

Parallel(pooled, outcomes) == [pooled |-> pooled, outcomes |-> outcomes]

ExecuteCommandParallel == Parallel(TRUE, OneResult)
ExecuteCommandParallelWithoutPool ==
  Parallel(FALSE, OneResult)
CopyFileParallel == Parallel(TRUE, OneResult)
CopyFileParallelWithoutPool ==
  Parallel(FALSE, OneResult)
CopyMultiFileParallel ==
  Parallel(TRUE, ResultPerFile)
AddHostsParallel == Parallel(TRUE, OneResult)
AddHostsParallelWithoutPool ==
  Parallel(FALSE, OneResult)
AddMultiHostsParallel == Parallel(TRUE, OneResult)
AddDNSParallel == Parallel(TRUE, OnlyFailures)

Operation ==
  {ExecuteCommandParallel, ExecuteCommandParallelWithoutPool,
   CopyFileParallel, CopyFileParallelWithoutPool, CopyMultiFileParallel,
   AddHostsParallel, AddHostsParallelWithoutPool, AddMultiHostsParallel,
   AddDNSParallel}

(* The single-host methods either release the mutex before the remote      *)
(* operation or, with `defer pool.mutex.Unlock()`, hold it throughout.     *)
SingleHost(holds) == [holds |-> holds]

ExecuteShortCommand         == SingleHost(FALSE)
ExecuteShortCMD             == SingleHost(FALSE)
ExecuteCommand              == SingleHost(FALSE)
ExecuteCommandWithoutReturn == SingleHost(FALSE)
CopyFile                    == SingleHost(TRUE)
CopyMultiFile               == SingleHost(TRUE)
AddHosts                    == SingleHost(TRUE)
AddMultiHosts               == SingleHost(TRUE)

SoloOperation ==
  {ExecuteShortCommand, ExecuteShortCMD, ExecuteCommand,
   ExecuteCommandWithoutReturn, CopyFile, CopyMultiFile, AddHosts,
   AddMultiHosts}

(* A ...WithoutPool worker dials for itself and stores nothing.            *)
Pooled(t) == t \in Solo \/ op.pooled

(* Mutant of HoldsWhileRunning: every method defers its unlock.            *)
AlwaysHolds(t) == TRUE

(* The mutex goes back before the remote operation, or only after it.      *)
HoldsWhileRunning(t) == t \in Solo /\ soloOp[t].holds

(* Mutant of Successes: one callback too many.                             *)
OneTooMany(w, n) ==
  {[from |-> w, seq |-> i, success |-> TRUE] : i \in 1..(n + 1)}

Failure(w)      == [from |-> w, seq |-> 0, success |-> FALSE]
Successes(w, n) == {[from |-> w, seq |-> i, success |-> TRUE] : i \in 1..n}

----------------------------------------------------------------------------
Init ==
  /\ op \in Operation
  /\ soloOp \in [Solo -> SoloOperation]
  /\ mutex = None
  /\ executors = [n \in {Name[t] : t \in Thread} |-> None]
  /\ opened = {}
  /\ pc = [t \in Thread |->
             IF t \in Worker /\ ~op.pooled THEN "dial" ELSE "lock"]
  /\ executor = [t \in Thread |-> None]
  /\ outcome = [t \in Thread |-> "none"]
  /\ pending = [w \in Worker |-> {}]
  /\ results = {}
  /\ closed = FALSE
  /\ received = {}
  /\ verdict = "none"

(* Mutant of Lock: the lookup is not protected (the mutex is ignored).     *)
LockIgnored(t) ==
  /\ pc[t] = "lock"
  /\ mutex' = t
  /\ pc' = [pc EXCEPT ![t] = "get"]
  /\ UNCHANGED <<op, soloOp, executors, opened, executor, outcome, pending,
                 results, closed, received, verdict>>

(* pool.mutex.Lock()                                                       *)
Lock(t) ==
  /\ pc[t] = "lock"
  /\ mutex = None
  /\ mutex' = t
  /\ pc' = [pc EXCEPT ![t] = "get"]
  /\ UNCHANGED <<op, soloOp, executors, opened, executor, outcome, pending,
                 results, closed, received, verdict>>

(* GetSSHExecutor, with the mutex held: the executor stored under the      *)
(* host's name if there is one, else a dial.                               *)
GetSSHExecutor(t) ==
  /\ pc[t] = "get"
  /\ LET stored == executors[Name[t]] IN
       /\ executor' = [executor EXCEPT ![t] = stored]
       /\ pc' = [pc EXCEPT ![t] = IF stored # None THEN "got" ELSE "dial"]
  /\ UNCHANGED <<op, soloOp, mutex, executors, opened, outcome, pending,
                 results, closed, received, verdict>>

(* Mutant of NewConnection: the goroutine reads a shared loop variable and  *)
(* dials whatever host the loop has got to.                                *)
DialCapturedHost(t) ==
  /\ pc[t] = "dial"
  /\ opened' = opened \cup {t}
  /\ \E u \in Thread :
       /\ executor' = [executor EXCEPT ![t] = Address[u]]
       /\ executors' = [executors EXCEPT ![Name[t]] = Address[u]]
  /\ pc' = [pc EXCEPT ![t] = "got"]
  /\ UNCHANGED <<op, soloOp, mutex, outcome, pending, results, closed,
                 received, verdict>>

(* The dial gives a connection, which a pooled caller stores under the     *)
(* host's name.                                                            *)
NewConnection(t) ==
  /\ pc[t] = "dial"
  /\ opened' = opened \cup {t}
  /\ executor' = [executor EXCEPT ![t] = Address[t]]
  /\ executors' = IF Pooled(t)
                    THEN [executors EXCEPT ![Name[t]] = Address[t]]
                    ELSE executors
  /\ pc' = [pc EXCEPT ![t] = "got"]
  /\ UNCHANGED <<op, soloOp, mutex, outcome, pending, results, closed,
                 received, verdict>>

(* The dial, the key file or the handshake fails.                          *)
ConnectionError(t) ==
  /\ pc[t] = "dial"
  /\ outcome' = [outcome EXCEPT ![t] = "unreached"]
  /\ pc' = [pc EXCEPT ![t] = "got"]
  /\ UNCHANGED <<op, soloOp, mutex, executors, opened, executor, pending,
                 results, closed, received, verdict>>

(* With an executor: on to the remote operation.  A pooled caller unlocks  *)
(* first, unless its unlock is deferred.                                   *)
Connected(t) ==
  /\ pc[t] = "got"
  /\ executor[t] # None
  /\ mutex' = IF Pooled(t) /\ ~HoldsWhileRunning(t) THEN None ELSE mutex
  /\ pc' = [pc EXCEPT ![t] = "run"]
  /\ UNCHANGED <<op, soloOp, executors, opened, executor, outcome, pending,
                 results, closed, received, verdict>>

(* Mutant of NotConnected: the error path forgets to unlock.               *)
NotConnectedKeepsMutex(t) ==
  /\ pc[t] = "got"
  /\ executor[t] = None
  /\ IF t \in Worker /\ op.pooled
       THEN /\ pc' = [pc EXCEPT ![t] = "push"]
            /\ pending' = [pending EXCEPT ![t] = {Failure(t)}]
       ELSE /\ pc' = [pc EXCEPT ![t] = "done"]
            /\ UNCHANGED pending
  /\ UNCHANGED <<op, soloOp, mutex, executors, opened, executor, outcome,
                 results, closed, received, verdict>>

(* Without one: unlock; a pooled worker has a failure to push, one of a    *)
(* ...WithoutPool method returns without a result, a solo caller returns   *)
(* the error.                                                              *)
NotConnected(t) ==
  /\ pc[t] = "got"
  /\ executor[t] = None
  /\ mutex' = IF Pooled(t) THEN None ELSE mutex
  /\ IF t \in Worker /\ op.pooled
       THEN /\ pc' = [pc EXCEPT ![t] = "push"]
            /\ pending' = [pending EXCEPT ![t] = {Failure(t)}]
       ELSE /\ pc' = [pc EXCEPT ![t] = "done"]
            /\ UNCHANGED pending
  /\ UNCHANGED <<op, soloOp, executors, opened, executor, outcome, results,
                 closed, received, verdict>>

(* The remote operation answers, and its results are ready to be pushed.   *)
Run(w) ==
  /\ pc[w] = "run"
  /\ \E o \in op.outcomes :
       /\ outcome' = [outcome EXCEPT ![w] = o.ret]
       /\ pending' = [pending EXCEPT ![w] =
            Successes(w, o.ok) \cup (IF o.err THEN {Failure(w)} ELSE {})]
  /\ pc' = [pc EXCEPT ![w] = "push"]
  /\ UNCHANGED <<op, soloOp, mutex, executors, opened, executor, results,
                 closed, received, verdict>>

(* A solo caller's remote operation answers; a deferred unlock follows.    *)
RunSolo(t) ==
  /\ pc[t] = "run"
  /\ \E r \in Returned : outcome' = [outcome EXCEPT ![t] = r]
  /\ mutex' = IF HoldsWhileRunning(t) THEN None ELSE mutex
  /\ pc' = [pc EXCEPT ![t] = "done"]
  /\ UNCHANGED <<op, soloOp, executors, opened, executor, pending, results,
                 closed, received, verdict>>

(* results <- MachineResult{...}: blocks while the channel is full.        *)
Push(w) ==
  /\ pc[w] = "push"
  /\ Cardinality(results) < Cardinality(Worker)
  /\ \E m \in pending[w] :
       /\ results' = results \cup {m}
       /\ pending' = [pending EXCEPT ![w] = @ \ {m}]
  /\ UNCHANGED <<op, soloOp, mutex, executors, opened, pc, executor, outcome,
                 closed, received, verdict>>

(* defer wg.Done()                                                         *)
Finish(w) ==
  /\ pc[w] = "push"
  /\ pending[w] = {}
  /\ pc' = [pc EXCEPT ![w] = "done"]
  /\ UNCHANGED <<op, soloOp, mutex, executors, opened, executor, outcome,
                 pending, results, closed, received, verdict>>

(* Mutant of Close: the closer does not wait for every goroutine.          *)
CloseAfterFirst ==
  /\ ~closed
  /\ \E w \in Worker : pc[w] = "done"
  /\ closed' = TRUE
  /\ UNCHANGED <<op, soloOp, mutex, executors, opened, pc, executor, outcome,
                 pending, results, received, verdict>>

(* go func() { wg.Wait(); close(results) }()                               *)
Close ==
  /\ ~closed
  /\ \A w \in Worker : pc[w] = "done"
  /\ closed' = TRUE
  /\ UNCHANGED <<op, soloOp, mutex, executors, opened, pc, executor, outcome,
                 pending, results, received, verdict>>

(* for result := range results                                             *)
Collect ==
  /\ \E m \in results :
       /\ results' = results \ {m}
       /\ received' = received \cup {m}
  /\ UNCHANGED <<op, soloOp, mutex, executors, opened, pc, executor, outcome,
                 pending, closed, verdict>>

(* Mutant of Return: the caller answers once the channel is empty, closed   *)
(* or not.                                                                 *)
ReturnWhenEmpty ==
  /\ verdict = "none"
  /\ results = {} /\ received # {}
  /\ verdict' = IF \E m \in received : ~m.success THEN "failure"
                                                  ELSE "success"
  /\ UNCHANGED <<op, soloOp, mutex, executors, opened, pc, executor, outcome,
                 pending, results, closed, received>>

(* OverallSuccess is the absence of failure results.                       *)
Return ==
  /\ verdict = "none"
  /\ closed /\ results = {}
  /\ verdict' = IF \E m \in received : ~m.success THEN "failure"
                                                  ELSE "success"
  /\ UNCHANGED <<op, soloOp, mutex, executors, opened, pc, executor, outcome,
                 pending, results, closed, received>>

(* Every call has returned.                                                *)
Terminated ==
  /\ verdict # "none"
  /\ \A t \in Solo : pc[t] = "done"
  /\ UNCHANGED vars

Dial(t)    == NewConnection(t) \/ ConnectionError(t)
Proceed(t) == Lock(t) \/ GetSSHExecutor(t) \/ Connected(t) \/ NotConnected(t)
Connect(t) == Proceed(t) \/ Dial(t)

Next ==
  \/ \E t \in Thread : Connect(t)
  \/ \E w \in Worker : Run(w) \/ Push(w) \/ Finish(w)
  \/ \E t \in Solo : RunSolo(t)
  \/ Close \/ Collect \/ Return \/ Terminated

(* The Go scheduler runs every goroutine that can run.  A Hung machine may *)
(* never complete a handshake and never answer a remote operation, whoever *)
(* asks it: neither ssh.Dial, whose ClientConfig has no Timeout, nor       *)
(* session.Run has a deadline.                                             *)
Fairness ==
  /\ \A t \in Thread : WF_vars(Proceed(t))
  /\ \A t \in Thread : Address[t] \notin Hung => WF_vars(Dial(t))
  /\ \A w \in Worker : WF_vars(executor[w] \notin Hung /\ Run(w))
  /\ \A t \in Solo : WF_vars(executor[t] \notin Hung /\ RunSolo(t))
  /\ \A w \in Worker : WF_vars(Push(w) \/ Finish(w))
  /\ WF_vars(Close) /\ WF_vars(Collect) /\ WF_vars(Return)

Spec     == Init /\ [][Next]_vars
FairSpec == Spec /\ Fairness

----------------------------------------------------------------------------
TypeOK ==
  /\ op \in Operation
  /\ soloOp \in [Solo -> SoloOperation]
  /\ mutex \in Thread \cup {None}
  /\ executors \in [{Name[t] : t \in Thread} ->
                      {Address[t] : t \in Thread} \cup {None}]
  /\ opened \subseteq Thread
  /\ pc \in [Thread -> {"lock", "get", "dial", "got", "run", "push", "done"}]
  /\ executor \in [Thread -> {Address[t] : t \in Thread} \cup {None}]
  /\ outcome \in [Thread -> Returned \cup {"none", "unreached"}]
  /\ pending \in [Worker -> SUBSET Message]
  /\ results \subseteq Message
  /\ closed \in BOOLEAN
  /\ received \subseteq Message
  /\ verdict \in {"none", "success", "failure"}

(* Two callers never hold connections of their own under one name: the     *)
(* lookup, the dial and the store of a miss run under the pool's mutex.    *)
OneConnectionPerName ==
  \A s, t \in {u \in opened : Pooled(u)} : Name[s] = Name[t] => s = t

(* A thread works on the machine its host entry names, except when another *)
(* entry of the same pool has the same name and connected first: then, and *)
(* only then, it works on that entry's machine.                            *)
OwnMachineUnlessNameShared ==
  \A t \in Thread : executor[t] # None =>
    \/ executor[t] = Address[t]
    \/ /\ Pooled(t)
       /\ \E s \in opened \ {t} :
            Pooled(s) /\ Name[s] = Name[t] /\ executor[t] = Address[s]

(* Nobody is about to push once the channel is closed: a send would panic  *)
(* in a goroutine that nothing recovers, and end the server.               *)
NoSendOnClosed == closed => \A w \in Worker : pc[w] # "push"

(* What OverallSuccess promises: every host was reached and its operation  *)
(* returned nil, but for the two ways a failure is lost: the dial error of *)
(* a ...WithoutPool method, and a file CopyMultiFileParallel did not copy. *)
FailureIsLost(w) ==
  \/ outcome[w] = "unreached" /\ ~op.pooled
  \/ outcome[w] = "error" /\ op = CopyMultiFileParallel

SuccessIsHonest ==
  /\ verdict = "success" =>
       \A w \in Worker : outcome[w] = "nil" \/ FailureIsLost(w)
  /\ verdict = "failure" =>
       \E w \in Worker : outcome[w] \in {"unreached", "error"}

(* Waiting for a machine that may never answer.                            *)
OnHung(t) ==
  \/ pc[t] = "dial" /\ Address[t] \in Hung
  \/ pc[t] = "run" /\ executor[t] \in Hung

(* A machine that never answers stops the goroutines that work on it, but  *)
(* no other, unless it is asked with the mutex held.  That is so in a dial *)
(* of a pooled method, and throughout the remote operation of the four     *)
(* single-host methods that defer their unlock (CopyFile, CopyMultiFile,   *)
(* AddHosts, AddMultiHosts): then everything waits.                        *)
OthersFinish ==
  \A w \in Worker :
    \/ <>(pc[w] = "done")
    \/ <>[]OnHung(w)
    \/ \E t \in Thread :
         <>[](/\ OnHung(t) /\ mutex = t
              /\ \/ pc[t] = "dial"
                 \/ t \in Solo /\ soloOp[t].holds)

(* The call returns, unless one of its own hosts never answers or a caller *)
(* of a single-host method waits for a machine with the mutex held.        *)
ReturnsUnlessHung ==
  \/ <>(verdict # "none")
  \/ \E w \in Worker : <>[]OnHung(w)
  \/ \E t \in Solo : <>[](OnHung(t) /\ mutex = t)

----------------------------------------------------------------------------
(* The call as its caller sees it: each host comes to one report, and the  *)
(* answer is made of all of them.                                          *)
Reported(w) == {m \in results \cup received : m.from = w}

report == [w \in Worker |->
  IF pc[w] # "done" THEN "none"
  ELSE IF Failure(w) \in Reported(w) THEN "failure"
  ELSE IF Reported(w) # {} THEN "success" ELSE "silent"]

Call == INSTANCE ParallelCall WITH answer <- verdict

(* The channel, the closer and the collector lose no report and add none.  *)
ImplementsCall == Call!Spec
=============================================================================
