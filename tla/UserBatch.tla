------------------------------ MODULE UserBatch ------------------------------
(***************************************************************************)
(* A batch of Keycloak user operations: ProcessUsers of                    *)
(* pkg/utils/keycloak/userbatch.go, with the client of keycloak.go and the *)
(* Keycloak server as its environment.                                     *)
(*                                                                         *)
(* ProcessUsers starts a goroutine per user; a semaphore channel bounds    *)
(* how many work at once; each one asks for a token and sends its request, *)
(* again after a failure, up to MaxRetries times.                          *)
(***************************************************************************)
EXTENDS Naturals, FiniteSets

CONSTANTS
  Entry,      (* positions of the users slice                               *)
  Username,   (* [Entry -> user name]: two entries may name the same user   *)
  Limits,     (* the values Config.MaxConcurrent is tried with              *)
  Retries     (* the values Config.MaxRetries is tried with                 *)

ASSUME BatchAssumption ==
  /\ Entry # {} /\ IsFiniteSet(Entry)
  /\ DOMAIN Username = Entry
  /\ Limits \subseteq Nat /\ Retries \subseteq Nat

Known  == {"create", "delete", "update"}
Action == Known \cup {"other"}

VARIABLES
  action,         (* the action argument of ProcessUsers                    *)
  maxConcurrent,  (* Config.MaxConcurrent                                   *)
  maxRetries,     (* Config.MaxRetries                                      *)
  main,           (* the goroutine in ProcessUsers                          *)
  wg,             (* the wait group's counter                               *)
  sem,            (* tokens in the semaphore channel                        *)
  pc,             (* each user's goroutine                                  *)
  attempt,        (* failed attempts                                        *)
  outcome,        (* what performAction logs                                *)
  accounts,       (* names of the accounts the server has                   *)
  effective,      (* entries whose request changed the server               *)
  lost,           (* entries one of whose replies never arrived             *)
  crashed         (* a panic in a goroutine has ended the process           *)

vars == <<action, maxConcurrent, maxRetries, main, wg, sem, pc, attempt,
          outcome, accounts, effective, lost, crashed>>

config == <<action, maxConcurrent, maxRetries>>
server == <<accounts, effective>>

Init ==
  /\ action \in Action
  /\ maxConcurrent \in Limits
  /\ maxRetries \in Retries
  /\ main = "loop"
  /\ wg = 0
  /\ sem = 0
  /\ pc = [e \in Entry |-> "none"]
  /\ attempt = [e \in Entry |-> 0]
  /\ outcome = [e \in Entry |-> "none"]
  /\ accounts \in SUBSET {Username[e] : e \in Entry}
  /\ effective = {}
  /\ lost = {}
  /\ crashed = FALSE

Goto(e, l) == pc' = [pc EXCEPT ![e] = l]

(* One turn of ProcessUsers' loop: wg.Add(1) and, for a known action, the  *)
(* user's goroutine.                                                       *)
StartUser(e) ==
  /\ ~crashed /\ main = "loop"
  /\ pc[e] = "none"
  /\ wg' = wg + 1
  /\ Goto(e, IF action \in Known THEN "acquire" ELSE "skipped")
  /\ UNCHANGED <<config, main, sem, attempt, outcome, server, lost, crashed>>

(* wg.Wait(); the results channel is closed, empty: nothing is reported.   *)
ProcessUsers ==
  /\ ~crashed /\ main = "loop"
  /\ \A e \in Entry : pc[e] # "none"
  /\ wg = 0
  /\ main' = "returned"
  /\ UNCHANGED <<config, wg, sem, pc, attempt, outcome, server, lost, crashed>>

(* sem <- struct{}{}                                                       *)
Acquire(e) ==
  /\ ~crashed /\ pc[e] = "acquire"
  /\ sem < maxConcurrent
  /\ sem' = sem + 1
  /\ Goto(e, "attempt")
  /\ UNCHANGED <<config, main, wg, attempt, outcome, server, lost, crashed>>

(* The loop's head: while attempts are left, a token.                      *)
GetToken(e) ==
  /\ ~crashed /\ pc[e] = "attempt"
  /\ attempt[e] < maxRetries
  /\ Goto(e, "request")
  /\ UNCHANGED <<config, main, wg, sem, attempt, outcome, server, lost,
                 crashed>>

(* No token, or a body that is no JSON: performAction returns at once.     *)
TokenError(e) ==
  /\ ~crashed /\ pc[e] = "attempt"
  /\ attempt[e] < maxRetries
  /\ outcome' = [outcome EXCEPT ![e] = "abandoned"]
  /\ Goto(e, "release")
  /\ UNCHANGED <<config, main, wg, sem, attempt, server, lost, crashed>>

(* The server refuses the token with a JSON error: PostForm does not look  *)
(* at the status, and the type assertion on the missing access_token       *)
(* panics in a goroutine that recovers nothing.                            *)
TokenRefused(e) ==
  /\ ~crashed /\ pc[e] = "attempt"
  /\ attempt[e] < maxRetries
  /\ crashed' = TRUE
  /\ UNCHANGED <<config, main, wg, sem, pc, attempt, outcome, server, lost>>

(* The attempts are used up.                                               *)
GiveUp(e) ==
  /\ ~crashed /\ pc[e] = "attempt"
  /\ attempt[e] = maxRetries
  /\ outcome' = [outcome EXCEPT ![e] = "failed"]
  /\ Goto(e, "release")
  /\ UNCHANGED <<config, main, wg, sem, attempt, server, lost, crashed>>

----------------------------------------------------------------------------
(* The server's side of the three requests.                                *)
Accepts(e) == IF action = "create" THEN Username[e] \notin accounts
                                   ELSE Username[e] \in accounts

AccountsAfter(e) ==
  CASE action = "create" -> accounts \cup {Username[e]}
    [] action = "delete" -> accounts \ {Username[e]}
    [] action = "update" -> accounts

(* The request changes the server, and the client is told, or the reply    *)
(* misses its deadline (http.Client.Timeout) and is an error.              *)
Accepted(e) ==
  /\ ~crashed /\ pc[e] = "request"
  /\ Accepts(e)
  /\ accounts' = AccountsAfter(e)
  /\ effective' = effective \cup {e}
  /\ \/ Goto(e, "ok") /\ UNCHANGED lost
     \/ Goto(e, "err") /\ lost' = lost \cup {e}
  /\ UNCHANGED <<config, main, wg, sem, attempt, outcome, crashed>>

(* The request does not reach the server, or is refused (409, 404).        *)
Rejected(e) ==
  /\ ~crashed /\ pc[e] = "request"
  /\ Goto(e, "err")
  /\ UNCHANGED <<config, main, wg, sem, attempt, outcome, server, lost,
                 crashed>>

----------------------------------------------------------------------------
(* Mutant of Succeed: an error reply counts as success.                    *)
ErrorIsSuccess(e) ==
  /\ ~crashed /\ pc[e] \in {"ok", "err"}
  /\ outcome' = [outcome EXCEPT ![e] = "succeeded"]
  /\ Goto(e, "release")
  /\ UNCHANGED <<config, main, wg, sem, attempt, server, lost, crashed>>

(* respErr == nil                                                          *)
Succeed(e) ==
  /\ ~crashed /\ pc[e] = "ok"
  /\ outcome' = [outcome EXCEPT ![e] = "succeeded"]
  /\ Goto(e, "release")
  /\ UNCHANGED <<config, main, wg, sem, attempt, server, lost, crashed>>

(* Mutant of Retry: the semaphore is given back for the retry delay.       *)
RetryWithoutToken(e) ==
  /\ ~crashed /\ pc[e] = "err"
  /\ attempt' = [attempt EXCEPT ![e] = @ + 1]
  /\ sem' = sem - 1
  /\ Goto(e, "attempt")
  /\ UNCHANGED <<config, main, wg, outcome, server, lost, crashed>>

(* The retry delay, asleep with the semaphore held.                        *)
Retry(e) ==
  /\ ~crashed /\ pc[e] = "err"
  /\ attempt' = [attempt EXCEPT ![e] = @ + 1]
  /\ Goto(e, "attempt")
  /\ UNCHANGED <<config, main, wg, sem, outcome, server, lost, crashed>>

(* Mutant of Release: the semaphore is not given back.                     *)
KeepsToken(e) ==
  /\ ~crashed /\ pc[e] = "release"
  /\ wg' = wg - 1
  /\ Goto(e, "done")
  /\ UNCHANGED <<config, main, sem, attempt, outcome, server, lost, crashed>>

(* The deferred calls: <-sem, then wg.Done().                              *)
Release(e) ==
  /\ ~crashed /\ pc[e] = "release"
  /\ sem' = sem - 1
  /\ wg' = wg - 1
  /\ Goto(e, "done")
  /\ UNCHANGED <<config, main, attempt, outcome, server, lost, crashed>>

----------------------------------------------------------------------------
Request(e) == Accepted(e) \/ Rejected(e)

Work(e) == \/ GetToken(e) \/ TokenError(e) \/ TokenRefused(e) \/ GiveUp(e)
           \/ Request(e) \/ Succeed(e) \/ Retry(e) \/ Release(e)

Next == \/ \E e \in Entry : StartUser(e) \/ Acquire(e) \/ Work(e)
        \/ ProcessUsers

(* A waiting sender on the semaphore is in its queue: each that can enter  *)
(* again and again enters.                                                 *)
Fairness == /\ \A e \in Entry : /\ WF_vars(StartUser(e))
                                /\ SF_vars(Acquire(e))
                                /\ WF_vars(Work(e))
            /\ WF_vars(ProcessUsers)

Spec     == Init /\ [][Next]_vars
FairSpec == Spec /\ Fairness

----------------------------------------------------------------------------
TypeOK ==
  /\ action \in Action
  /\ maxConcurrent \in Limits
  /\ maxRetries \in Retries
  /\ main \in {"loop", "returned"}
  /\ wg \in 0..Cardinality(Entry)
  /\ sem \in 0..maxConcurrent
  /\ pc \in [Entry -> {"none", "skipped", "acquire", "attempt", "request",
                       "ok", "err", "release", "done"}]
  /\ attempt \in [Entry -> 0..maxRetries]
  /\ outcome \in [Entry -> {"none", "succeeded", "failed", "abandoned"}]
  /\ accounts \subseteq {Username[e] : e \in Entry}
  /\ effective \subseteq Entry
  /\ lost \subseteq effective
  /\ crashed \in BOOLEAN

(* At most MaxConcurrent users are worked on at once, retries and the      *)
(* delays between them included.                                           *)
Working == {e \in Entry : pc[e] \notin {"none", "skipped", "acquire", "done"}}
ConcurrencyBounded == Cardinality(Working) <= maxConcurrent

(* What the log says of a user is what happened: a success is a change of  *)
(* the server by this entry's own request, and a failure hides a change    *)
(* only if a reply was lost (the retry then meets its own account, 409).   *)
(* No two entries of a batch both create, or both delete, one user.        *)
OutcomeHonest ==
  /\ \A e \in Entry : outcome[e] = "succeeded" => e \in effective
  /\ \A e \in effective : outcome[e] \in {"failed", "abandoned"} => e \in lost
  /\ action # "update" =>
       \A e, f \in {d \in Entry : outcome[d] = "succeeded"} :
         Username[e] = Username[f] => e = f

(* In every other case it returns, whatever fails, unless a refused token  *)
(* ends the process.                                                       *)
BatchReturns ==
  action \in Known /\ maxConcurrent > 0 => <>(main = "returned" \/ crashed)
=============================================================================
