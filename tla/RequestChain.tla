---------------------------- MODULE RequestChain ----------------------------
(***************************************************************************)
(* A request on its way through gin's handler chain as pkg/router/router.go *)
(* builds it, with the middlewares of pkg/aop.                              *)
(*                                                                          *)
(* Every middleware calls c.Next(), a loop over the rest of the chain, so   *)
(* the handlers in execution form a stack.  Recovery runs its c.Next() in a *)
(* goroutine of its own and waits for it; Cors recovers panics too, and     *)
(* swallows them.  A panic in any other goroutine ends the process.         *)
(***************************************************************************)
EXTENDS Integers, Sequences, SequencesExt

CONSTANTS
  Request,
  Routes   (* bound: the kinds of routes the requests may go to             *)

ASSUME ChainAssumption == Routes \subseteq [Request -> {"http", "ws"}]

VARIABLES
  accessLog,  (* bind.print_access_log                                      *)
  route,      (* each request's kind of route                               *)
  index,      (* c.index                                                    *)
  stack,      (* handlers in execution, the innermost last                  *)
  panic,      (* the panic that is unwinding the stack                      *)
  panicked,   (* what the handler panicked with                             *)
  captured,   (* capturedErr of Recovery                                    *)
  response,   (* what has been written to the client                        *)
  logged,     (* middlewares that have logged the request                   *)
  child,      (* goroutines the handler has started                         *)
  answered,   (* the engine is through with the request                     *)
  crashed     (* an unrecovered panic has ended the process                 *)

vars == <<accessLog, route, index, stack, panic, panicked, captured, response,
          logged, child, answered, crashed>>

(* A page error of ginx.Dangerous, a broken connection, any other value.   *)
Panic == {"page", "pipe", "other"}

(* What the client gets: the handler's data, a page error as JSON with its *)
(* own code, a bare status, or the upgrade's answer.                       *)
Response == {"none", "data", "page", "empty", "switched", "refused"}
Status   == [data |-> 200, empty |-> 200, switched |-> 101, refused |-> 400]

(* r.Use(...) and the groups' handlers, in order.                          *)
Chain(r) ==
  <<"Recovery">> \o (IF accessLog THEN <<"Logrus">> ELSE <<>>)
    \o <<"LogRequest", "LoggerMiddleware">>
    \o (IF route[r] = "ws" THEN <<"Cors">> ELSE <<>>) \o <<"handler">>

Loggers == {"Logrus", "LogRequest", "LoggerMiddleware"}

(* c.Abort() moves the index beyond every handler.                         *)
Aborted == 63

Top(r) == Last(stack[r])
Pop(r) == stack' = [stack EXCEPT ![r] = Front(@)]

Running(r) == ~crashed /\ ~answered[r]

Init ==
  /\ accessLog \in BOOLEAN
  /\ route \in Routes
  /\ index = [r \in Request |-> 0]
  /\ stack = [r \in Request |-> <<"engine">>]
  /\ panic = [r \in Request |-> "none"]
  /\ panicked = [r \in Request |-> "none"]
  /\ captured = [r \in Request |-> "none"]
  /\ response = [r \in Request |-> "none"]
  /\ logged = [r \in Request |-> {}]
  /\ child = [r \in Request |-> "none"]
  /\ answered = [r \in Request |-> FALSE]
  /\ crashed = FALSE

----------------------------------------------------------------------------
(* c.Next() of the innermost middleware calls the next handler.            *)
CallNext(r) ==
  /\ Running(r) /\ panic[r] = "none" /\ captured[r] = "none"
  /\ Top(r) # "handler"
  /\ index[r] < Len(Chain(r))
  /\ index' = [index EXCEPT ![r] = @ + 1]
  /\ stack' = [stack EXCEPT ![r] = Append(@, Chain(r)[index[r] + 1])]
  /\ UNCHANGED <<accessLog, route, panic, panicked, captured, response, logged,
                 child, answered, crashed>>

(* c.Next() has nothing left to call: the middleware logs and returns.     *)
NextReturns(r) ==
  /\ Running(r) /\ panic[r] = "none" /\ captured[r] = "none"
  /\ Top(r) \notin {"handler", "engine"}
  /\ index[r] >= Len(Chain(r))
  /\ logged' = [logged EXCEPT ![r] = @ \cup ({Top(r)} \cap Loggers)]
  /\ Pop(r)
  /\ UNCHANGED <<accessLog, route, index, panic, panicked, captured, response,
                 child, answered, crashed>>

(* A websocket handler upgrades the connection, or the upgrade writes its  *)
(* own error; other handlers may start goroutines (ApplyYAMLs).            *)
Upgrade(r) ==
  /\ Running(r) /\ Top(r) = "handler" /\ panic[r] = "none"
  /\ route[r] = "ws" /\ response[r] = "none"
  /\ \E s \in {"switched", "refused"} : response' = [response EXCEPT ![r] = s]
  /\ UNCHANGED <<accessLog, route, index, stack, panic, panicked, captured,
                 logged, child, answered, crashed>>

StartChild(r) ==
  /\ Running(r) /\ Top(r) = "handler" /\ panic[r] = "none"
  /\ route[r] = "http" /\ child[r] = "none"
  /\ child' = [child EXCEPT ![r] = "running"]
  /\ UNCHANGED <<accessLog, route, index, stack, panic, panicked, captured,
                 response, logged, answered, crashed>>

ChildReturns(r) ==
  /\ Running(r) /\ child[r] = "running"
  /\ child' = [child EXCEPT ![r] = "done"]
  /\ UNCHANGED <<accessLog, route, index, stack, panic, panicked, captured,
                 response, logged, answered, crashed>>

ChildPanics(r) ==
  /\ Running(r) /\ child[r] = "running"
  /\ crashed' = TRUE
  /\ UNCHANGED <<accessLog, route, index, stack, panic, panicked, captured,
                 response, logged, child, answered>>

(* The handler renders its answer and returns.  After a failed upgrade it  *)
(* does not get this far.                                                  *)
HandlerReturns(r) ==
  /\ Running(r) /\ Top(r) = "handler" /\ panic[r] = "none"
  /\ child[r] # "running"
  /\ route[r] = "ws" => response[r] = "switched"
  /\ response' = [response EXCEPT ![r] = IF @ = "none" THEN "data" ELSE @]
  /\ Pop(r)
  /\ UNCHANGED <<accessLog, route, index, panic, panicked, captured, logged,
                 child, answered, crashed>>

(* ginx.Dangerous, a nil websocket, a type assertion, ...                  *)
HandlerPanics(r) ==
  /\ Running(r) /\ Top(r) = "handler" /\ panic[r] = "none"
  /\ child[r] # "running"
  /\ \E p \in Panic : /\ route[r] = "ws" => p = "other" /\ response[r] # "none"
                      /\ panic' = [panic EXCEPT ![r] = p]
                      /\ panicked' = [panicked EXCEPT ![r] = p]
  /\ UNCHANGED <<accessLog, route, index, stack, captured, response, logged,
                 child, answered, crashed>>

(* A frame that recovers nothing is unwound.                               *)
Unwind(r) ==
  /\ Running(r) /\ panic[r] # "none"
  /\ Top(r) \notin {"Recovery", "Cors"}
  /\ Pop(r)
  /\ UNCHANGED <<accessLog, route, index, panic, panicked, captured, response,
                 logged, child, answered, crashed>>

(* Mutant of CorsRecovers: Cors hands the panic on.                        *)
CorsPassesOn(r) ==
  /\ Running(r) /\ panic[r] # "none" /\ Top(r) = "Cors"
  /\ Pop(r)
  /\ UNCHANGED <<accessLog, route, index, panic, panicked, captured, response,
                 logged, child, answered, crashed>>

(* Cors prints the panic and returns as if nothing had happened.           *)
CorsRecovers(r) ==
  /\ Running(r) /\ panic[r] # "none" /\ Top(r) = "Cors"
  /\ panic' = [panic EXCEPT ![r] = "none"]
  /\ Pop(r)
  /\ UNCHANGED <<accessLog, route, index, panicked, captured, response, logged,
                 child, answered, crashed>>

(* Mutant of recoverPanic: done is closed only when nothing panicked, and  *)
(* the request waits for ever.                                             *)
recoverWithoutDone(r) ==
  /\ Running(r) /\ panic[r] # "none" /\ Top(r) = "Recovery"
  /\ UNCHANGED vars

(* The deferred recoverPanic of Recovery's goroutine keeps the panic and   *)
(* closes done, and the waiting request goroutine goes on.                 *)
recoverPanic(r) ==
  /\ Running(r) /\ panic[r] # "none" /\ Top(r) = "Recovery"
  /\ captured' = [captured EXCEPT ![r] = panic[r]]
  /\ panic' = [panic EXCEPT ![r] = "none"]
  /\ UNCHANGED <<accessLog, route, index, stack, panicked, response, logged,
                 child, answered, crashed>>

(* Mutant of HandleCaptured: the page error is not rendered.               *)
OnlyAbort(r) ==
  /\ Running(r) /\ Top(r) = "Recovery" /\ captured[r] # "none"
  /\ index' = [index EXCEPT ![r] = Aborted]
  /\ Pop(r)
  /\ captured' = [captured EXCEPT ![r] = "none"]
  /\ UNCHANGED <<accessLog, route, panic, panicked, response, logged, child,
                 answered, crashed>>

(* What Recovery does with the captured panic: a page error is rendered    *)
(* with its code (defaultHandleRecovery); in each case the chain aborts.   *)
HandleCaptured(r) ==
  /\ Running(r) /\ Top(r) = "Recovery" /\ captured[r] # "none"
  /\ response' = [response EXCEPT ![r] =
       IF captured[r] = "page" /\ @ = "none" THEN "page" ELSE @]
  /\ index' = [index EXCEPT ![r] = Aborted]
  /\ captured' = [captured EXCEPT ![r] = "none"]
  /\ Pop(r)
  /\ UNCHANGED <<accessLog, route, panic, panicked, logged, child, answered,
                 crashed>>

(* The engine writes the header: a bare 200 if nothing has been written.   *)
WriteHeaderNow(r) ==
  /\ Running(r) /\ Top(r) = "engine" /\ panic[r] = "none"
  /\ index[r] >= Len(Chain(r))
  /\ response' = [response EXCEPT ![r] = IF @ = "none" THEN "empty" ELSE @]
  /\ answered' = [answered EXCEPT ![r] = TRUE]
  /\ UNCHANGED <<accessLog, route, index, stack, panic, panicked, captured,
                 logged, child, crashed>>

Stopped == /\ crashed \/ \A r \in Request : answered[r]
           /\ UNCHANGED vars

----------------------------------------------------------------------------
Handler(r) == Upgrade(r) \/ StartChild(r) \/ HandlerReturns(r) \/ HandlerPanics(r)
Child(r)   == ChildReturns(r) \/ ChildPanics(r)
Gin(r) == \/ CallNext(r) \/ NextReturns(r) \/ Unwind(r) \/ CorsRecovers(r)
          \/ recoverPanic(r) \/ HandleCaptured(r) \/ WriteHeaderNow(r)

Next == \/ \E r \in Request : Handler(r) \/ Child(r) \/ Gin(r)
        \/ Stopped

Spec == Init /\ [][Next]_vars

----------------------------------------------------------------------------
TypeOK ==
  /\ accessLog \in BOOLEAN
  /\ route \in Routes
  /\ index \in [Request -> 0..Aborted]
  /\ \A r \in Request : IsPrefix(stack[r], <<"engine">> \o Chain(r))
  /\ panic \in [Request -> Panic \cup {"none"}]
  /\ panicked \in [Request -> Panic \cup {"none"}]
  /\ captured \in [Request -> Panic \cup {"none"}]
  /\ response \in [Request -> Response]
  /\ logged \in [Request -> SUBSET Loggers]
  /\ child \in [Request -> {"none", "running", "done"}]
  /\ answered \in [Request -> BOOLEAN]
  /\ crashed \in BOOLEAN

(* What the client can tell: on an http route a page error comes back as   *)
(* such, but any other panic is a bare 200, without a body; on a websocket *)
(* route a panic leaves what the upgrade had written.                      *)
OnlyPageErrorsAreTold ==
  \A r \in Request : answered[r] =>
    IF route[r] = "ws" THEN response[r] \in {"switched", "refused"}
    ELSE response[r] = CASE panicked[r] = "none" -> "data"
                         [] panicked[r] = "page" -> "page"
                         [] OTHER                -> "empty"

(* The access and operation logs have every answered request but those     *)
(* whose panic Recovery caught: there the loggers are unwound before they  *)
(* log.  A panic that Cors caught is logged as if the request had worked.  *)
UnloggedIffRecovered ==
  \A r \in Request : answered[r] =>
    /\ logged[r] = {} <=> route[r] = "http" /\ panicked[r] # "none"
    /\ logged[r] # {} => {"LogRequest", "LoggerMiddleware"} \subseteq logged[r]

(* The comments of Recovery: it recovers from any panic and writes a 500.  *)
PanicWrites500 ==
  \A r \in Request :
    answered[r] /\ route[r] = "http" /\ panicked[r] = "other"
      => Status[response[r]] = 500
=============================================================================
