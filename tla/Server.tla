------------------------------- MODULE Server -------------------------------
(***************************************************************************)
(* The server process: server.Run, the listener and the shutdown of         *)
(* httpx.Init, around the requests of RequestChain.                         *)
(*                                                                          *)
(* Signals come into a channel for one of them, which the runtime fills     *)
(* without waiting; net/http's Shutdown waits for the connections that are  *)
(* busy, of which a hijacked one is none.  The debug listener on :6060      *)
(* only logs its error and is left out.                                     *)
(***************************************************************************)
EXTENDS RequestChain

CONSTANT MaxSignals  (* bound: signals sent to the process                  *)

ASSUME ServerAssumption == MaxSignals \in Nat

VARIABLES
  main,      (* where the goroutine of Run is                               *)
  listener,  (* the goroutine that serves bind.port                         *)
  signal,    (* what is in signalChannel                                    *)
  sent,      (* signals sent                                                *)
  asked,     (* a signal that ends the server has come into the channel     *)
  accepted,  (* requests whose connection the listener has accepted         *)
  hung,      (* requests whose handler waits for something that never comes *)
  timedOut   (* the shutdown context has expired                            *)

process    == <<main, listener, signal, sent, asked, accepted, hung, timedOut>>
serverVars == <<vars, process>>

ServerInit ==
  /\ Init
  /\ main = "starting" /\ listener = "none"
  /\ signal = "none" /\ sent = 0 /\ asked = FALSE
  /\ accepted = {} /\ hung = {}
  /\ timedOut = FALSE

Ended        == crashed \/ main = "exited"
shuttingDown == main \in {"draining", "cleaned", "exited"}

----------------------------------------------------------------------------
(* The runtime drops a signal that finds the channel full.                 *)
Kill ==
  /\ ~Ended /\ sent < MaxSignals
  /\ sent' = sent + 1
  /\ \E s \in {"HUP", "TERM"} :
       /\ signal' = IF signal = "none" THEN s ELSE signal
       /\ asked' = (asked \/ signal' = "TERM")
  /\ UNCHANGED <<vars, main, listener, accepted, hung, timedOut>>

(* ReadConfig, whose error is dropped, and initialize.  Signals have been  *)
(* caught since the beginning of Run.                                      *)
initialize ==
  /\ ~Ended /\ main = "starting"
  /\ main' = "waiting"
  /\ listener' = "starting"
  /\ UNCHANGED <<vars, signal, sent, asked, accepted, hung, timedOut>>

(* SIGHUP is read and ignored, the others end the loop.                    *)
ReceiveSignal ==
  /\ ~Ended /\ main = "waiting" /\ signal # "none"
  /\ signal' = "none"
  /\ main' = IF signal = "HUP" THEN "waiting" ELSE "cleaning"
  /\ UNCHANGED <<vars, listener, sent, asked, accepted, hung, timedOut>>

(* cleanFunc: Shutdown closes the listener ...                             *)
Shutdown ==
  /\ ~Ended /\ main = "cleaning"
  /\ main' = "draining"
  /\ listener' = IF listener = "listening" THEN "closed" ELSE listener
  /\ UNCHANGED <<vars, signal, sent, asked, accepted, hung, timedOut>>

(* Mutant of Drained: connections whose handler has written its answer are *)
(* not waited for, nor those that have not begun.                          *)
DrainedEarly ==
  /\ ~Ended /\ main = "draining"
  /\ \A r \in accepted : index[r] = 0 \/ response[r] # "none"
  /\ main' = "cleaned"
  /\ UNCHANGED <<vars, listener, signal, sent, asked, accepted, hung, timedOut>>

(* ... and waits for the connections that are busy ...                     *)
Drained ==
  /\ ~Ended /\ main = "draining"
  /\ \A r \in accepted : answered[r] \/ response[r] = "switched"
  /\ main' = "cleaned"
  /\ UNCHANGED <<vars, listener, signal, sent, asked, accepted, hung, timedOut>>

(* Mutant of ShutdownTimeout: the context has no deadline.                 *)
NoDeadline == FALSE /\ UNCHANGED serverVars

(* ... until bind.shutdown_timeout.                                        *)
ShutdownTimeout ==
  /\ ~Ended /\ main = "draining"
  /\ timedOut' = TRUE
  /\ main' = "cleaned"
  /\ UNCHANGED <<vars, listener, signal, sent, asked, accepted, hung>>

(* os.Exit ends all goroutines.                                            *)
Exit ==
  /\ ~Ended /\ main = "cleaned"
  /\ main' = "exited"
  /\ UNCHANGED <<vars, listener, signal, sent, asked, accepted, hung, timedOut>>

----------------------------------------------------------------------------
(* ListenAndServe: ErrServerClosed if the shutdown has begun by then.      *)
ListenAndServe ==
  /\ ~Ended /\ listener = "starting"
  /\ listener' = IF shuttingDown THEN "closed" ELSE "binding"
  /\ UNCHANGED <<vars, main, signal, sent, asked, accepted, hung, timedOut>>

(* Any other error, an address in use, is a panic in this goroutine.       *)
Bind ==
  /\ ~Ended /\ listener = "binding"
  /\ \/ /\ listener' = IF shuttingDown THEN "closed" ELSE "listening"
        /\ UNCHANGED vars
     \/ /\ crashed' = TRUE
        /\ UNCHANGED <<accessLog, route, index, stack, panic, panicked, captured,
                       response, logged, child, answered, listener>>
  /\ UNCHANGED <<main, signal, sent, asked, accepted, hung, timedOut>>

Accept(r) ==
  /\ ~Ended /\ listener = "listening" /\ r \notin accepted /\ index[r] = 0
  /\ accepted' = accepted \cup {r}
  /\ UNCHANGED <<vars, main, listener, signal, sent, asked, hung, timedOut>>

(* A connection without a request for five seconds is not busy to Shutdown.*)
CloseIdle(r) ==
  /\ ~Ended /\ main = "draining" /\ r \in accepted /\ index[r] = 0
  /\ accepted' = accepted \ {r}
  /\ UNCHANGED <<vars, main, listener, signal, sent, asked, hung, timedOut>>

(* A command on a remote host that never comes back.                       *)
Hang(r) ==
  /\ ~Ended /\ Running(r) /\ r \in accepted \ hung
  /\ Top(r) = "handler" /\ panic[r] = "none" /\ child[r] # "running"
  /\ hung' = hung \cup {r}
  /\ UNCHANGED <<vars, main, listener, signal, sent, asked, accepted, timedOut>>

(* The request's own steps.                                                *)
Serve(r) ==
  /\ ~Ended /\ r \in accepted \ hung
  /\ Handler(r) \/ Child(r) \/ Gin(r)
  /\ UNCHANGED process

----------------------------------------------------------------------------
Run == initialize \/ ReceiveSignal \/ Shutdown \/ Drained \/ ShutdownTimeout \/ Exit

httpServer == ListenAndServe \/ Bind

ServerNext ==
  \/ Kill \/ Run \/ httpServer
  \/ \E r \in Request : Accept(r) \/ CloseIdle(r) \/ Hang(r) \/ Serve(r)

(* Goroutines that can run do; a handler may hang (Hang), and nobody is    *)
(* made to send signals or requests.                                       *)
ServerFairness ==
  /\ WF_serverVars(Run) /\ WF_serverVars(httpServer)
  /\ \A r \in Request : WF_serverVars(Serve(r))

ServerSpec == ServerInit /\ [][ServerNext]_serverVars /\ ServerFairness

----------------------------------------------------------------------------
(* The process never ends on a request it has accepted, unless the request *)
(* is a websocket (kk may be running for it), or the shutdown timeout is   *)
(* over, or a goroutine without a recover has panicked.                    *)
DrainedOrTimedOut ==
  main = "exited" /\ ~timedOut =>
    \A r \in accepted : answered[r] \/ response[r] = "switched"

(* A SIGTERM that has come into the channel ends the process, whatever the *)
(* requests, their handlers and other signals do.  One that has not - it   *)
(* came while a SIGHUP lay there unread - is lost.                         *)
TermEnds == asked ~> Ended

(* A panic in one request is contained: every request the server accepts   *)
(* is answered, unless its own handler hangs, the process ends, or the     *)
(* shutdown closes the connection before the request has come.             *)
EveryRequestAnswered ==
  \A r \in Request :
    r \in accepted ~> (answered[r] \/ r \in hung \/ Ended \/ r \notin accepted)
=============================================================================
