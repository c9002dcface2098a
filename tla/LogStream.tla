------------------------------ MODULE LogStream ------------------------------
(***************************************************************************)
(* A command whose output is streamed to a websocket: ExecuteCommand and    *)
(* ExecuteCommandNew of pkg/utils/remote.go, the local ExecuteCommand of    *)
(* pkg/utils/local.go, and the consumer that the handlers of                *)
(* pkg/controller/kubekey.go start.                                         *)
(*                                                                          *)
(* Two goroutines scan stdout and stderr and send each line into the        *)
(* unbuffered logChan; the calling goroutine waits for the command and, if  *)
(* it is a remote one, sends a terminal message.  A consumer writes what it *)
(* receives to the websocket.  Nobody waits for the scanners.               *)
(***************************************************************************)
EXTENDS Naturals, Sequences, SequencesExt

CONSTANTS
  MaxLines,   (* lines a command prints on one stream, at most              *)
  Window      (* unread lines a stream holds before the command must wait   *)

ASSUME StreamAssumption ==
  /\ MaxLines \in Nat
  /\ Window \in Nat \ {0}

Stream == {"stdout", "stderr"}

(* A line is scanned and sent, or is a [yes/no] question that a remote     *)
(* command has answered and dropped, or exceeds the scanner's buffer.      *)
Kind == {"text", "prompt", "long"}

VARIABLES
  mode,       (* which of the three methods runs                            *)
  line,       (* the lines the command prints on each stream                *)
  emitted,    (* how many of them it has printed                            *)
  proc,       (* the remote command                                         *)
  main,       (* the calling goroutine                                      *)
  failed,     (* the error it is about to report or has reported            *)
  scanner,    (* each scanner goroutine                                     *)
  scanned,    (* lines it has consumed                                      *)
  closed,     (* close(logChan) has run                                     *)
  consumer,
  delivered   (* what was written to the websocket                          *)

vars == <<mode, line, emitted, proc, main, failed, scanner, scanned, closed,
          consumer, delivered>>

Mode == {"ExecuteCommand", "ExecuteCommandNew", "LocalExecutor"}

Init ==
  /\ mode \in Mode
  /\ line \in [Stream -> UNION {[1..n -> Kind] : n \in 0..MaxLines}]
  /\ emitted = [s \in Stream |-> 0]
  /\ proc = "none"
  /\ main = "session"
  /\ failed = FALSE
  /\ scanner = [s \in Stream |-> "none"]
  /\ scanned = [s \in Stream |-> 0]
  /\ closed = FALSE
  /\ consumer = "recv"
  /\ delivered = <<>>

----------------------------------------------------------------------------
(* The calling goroutine.                                                  *)

(* NewSession or one of the pipes fails.  Only ExecuteCommandNew says so.  *)
SessionError ==
  /\ main = "session"
  /\ failed' = TRUE
  /\ main' = IF mode = "ExecuteCommandNew" THEN "report" ELSE "returned"
  /\ UNCHANGED <<mode, line, emitted, proc, scanner, scanned, closed, consumer,
                 delivered>>

(* The session and its pipes are there: the scanners start.                *)
OpenSession ==
  /\ main = "session"
  /\ scanner' = [s \in Stream |-> "scan"]
  /\ main' = "start"
  /\ UNCHANGED <<mode, line, emitted, proc, failed, scanned, closed, consumer,
                 delivered>>

(* The local method only returns what the others report.                   *)
Told == IF mode = "LocalExecutor" THEN "returned" ELSE "report"

(* session.Start, cmd.Start                                                *)
Start ==
  /\ main = "start"
  /\ \/ proc' = "running" /\ main' = "wait" /\ UNCHANGED failed
     \/ proc' = "ended" /\ main' = Told /\ failed' = TRUE
  /\ UNCHANGED <<mode, line, emitted, scanner, scanned, closed, consumer,
                 delivered>>

(* session.Wait, cmd.Wait: the exit status.  The scanners may still have   *)
(* lines to read.                                                          *)
Wait ==
  /\ main = "wait"
  /\ proc = "ended"
  /\ failed' \in BOOLEAN
  /\ main' = Told
  /\ UNCHANGED <<mode, line, emitted, proc, scanner, scanned, closed, consumer,
                 delivered>>

(* Mutant of Report: the terminal message is skipped on an error.          *)
ReportOnlySuccess ==
  /\ main = "report"
  /\ IF failed
       THEN UNCHANGED <<delivered, consumer>>
       ELSE /\ consumer = "recv"
            /\ delivered' = Append(delivered, [from |-> "main", n |-> 0])
            /\ consumer' = "write"
  /\ main' = "returned"
  /\ UNCHANGED <<mode, line, emitted, proc, failed, scanner, scanned, closed>>

(* The terminal message: "Pipeline Done", or "Pipeline Success" and        *)
(* "Pipeline Failed".  After a success ExecuteCommandNew closes logChan.   *)
Report ==
  /\ main = "report"
  /\ consumer = "recv"
  /\ delivered' = Append(delivered, [from |-> "main", n |-> 0])
  /\ consumer' = "write"
  /\ main' = IF mode = "ExecuteCommandNew" /\ ~failed THEN "close"
                                                       ELSE "returned"
  /\ UNCHANGED <<mode, line, emitted, proc, failed, scanner, scanned, closed>>

CloseLogChan ==
  /\ main = "close"
  /\ closed' = TRUE
  /\ main' = "returned"
  /\ UNCHANGED <<mode, line, emitted, proc, failed, scanner, scanned, consumer,
                 delivered>>

----------------------------------------------------------------------------
(* The remote command prints while its streams have room, and ends.        *)
Emit(s) ==
  /\ proc = "running"
  /\ emitted[s] < Len(line[s])
  /\ emitted[s] - scanned[s] < Window
  /\ emitted' = [emitted EXCEPT ![s] = @ + 1]
  /\ UNCHANGED <<mode, line, proc, main, failed, scanner, scanned, closed,
                 consumer, delivered>>

Exit ==
  /\ proc = "running"
  /\ \A s \in Stream : emitted[s] = Len(line[s])
  /\ proc' = "ended"
  /\ UNCHANGED <<mode, line, emitted, main, failed, scanner, scanned, closed,
                 consumer, delivered>>

----------------------------------------------------------------------------
(* A scanner goroutine.                                                    *)

IsSent(kind) == kind = "text" \/ (kind = "prompt" /\ mode = "LocalExecutor")

(* Mutant of Scan: a prompt ends the loop instead of continuing it.        *)
ScanStopsAtPrompt(s) ==
  /\ scanner[s] = "scan"
  /\ scanned[s] < emitted[s]
  /\ LET kind == line[s][scanned[s] + 1] IN
       /\ scanner' = [scanner EXCEPT ![s] =
            IF IsSent(kind) THEN "send" ELSE "ended"]
       /\ scanned' = [scanned EXCEPT ![s] = @ + 1]
  /\ UNCHANGED <<mode, line, emitted, proc, main, failed, closed, consumer,
                 delivered>>

(* scanner.Scan(): a text line is held until it is sent, a prompt is       *)
(* skipped, and a line beyond the buffer ends the scan with the rest of it *)
(* unread.                                                                 *)
Scan(s) ==
  /\ scanner[s] = "scan"
  /\ scanned[s] < emitted[s]
  /\ LET kind == line[s][scanned[s] + 1] IN
       /\ scanner' = [scanner EXCEPT ![s] =
            CASE IsSent(kind)  -> "send"
              [] kind = "long" -> "ended"
              [] OTHER         -> "scan"]
       /\ scanned' = [scanned EXCEPT ![s] = IF kind = "long" THEN @ ELSE @ + 1]
  /\ UNCHANGED <<mode, line, emitted, proc, main, failed, closed, consumer,
                 delivered>>

EndOfStream(s) ==
  /\ scanner[s] = "scan"
  /\ proc = "ended"
  /\ scanned[s] = emitted[s]
  /\ scanner' = [scanner EXCEPT ![s] = "ended"]
  /\ UNCHANGED <<mode, line, emitted, proc, main, failed, scanned, closed,
                 consumer, delivered>>

(* cmd.Wait has closed the pipes: a scanner still gets the lines that were *)
(* in its buffer by then, and none of the rest.                            *)
PipeClosed(s) ==
  /\ scanner[s] = "scan"
  /\ mode = "LocalExecutor" /\ main = "returned"
  /\ scanner' = [scanner EXCEPT ![s] = "ended"]
  /\ UNCHANGED <<mode, line, emitted, proc, main, failed, scanned, closed,
                 consumer, delivered>>

(* Mutant of SendLine: the line is dropped when the consumer is busy.      *)
SendOrDrop(s) ==
  /\ scanner[s] = "send" /\ ~closed
  /\ IF consumer = "recv"
       THEN /\ delivered' = Append(delivered, [from |-> s, n |-> scanned[s]])
            /\ consumer' = "write"
       ELSE UNCHANGED <<delivered, consumer>>
  /\ scanner' = [scanner EXCEPT ![s] = "scan"]
  /\ UNCHANGED <<mode, line, emitted, proc, main, failed, scanned, closed>>

(* logChan <- LogEntry: meets the consumer at its receive.  (The select of *)
(* ExecuteCommandNew also listens on a channel that only this goroutine    *)
(* closes, when it is over.)                                               *)
SendLine(s) ==
  /\ scanner[s] = "send"
  /\ ~closed
  /\ consumer = "recv"
  /\ delivered' = Append(delivered, [from |-> s, n |-> scanned[s]])
  /\ consumer' = "write"
  /\ scanner' = [scanner EXCEPT ![s] = "scan"]
  /\ UNCHANGED <<mode, line, emitted, proc, main, failed, scanned, closed>>

(* A send on the closed channel panics; the goroutine recovers and ends.   *)
SendPanics(s) ==
  /\ scanner[s] = "send"
  /\ closed
  /\ scanner' = [scanner EXCEPT ![s] = "ended"]
  /\ UNCHANGED <<mode, line, emitted, proc, main, failed, scanned, closed,
                 consumer, delivered>>

----------------------------------------------------------------------------
(* The consumer: for logEntry := range logChan { ws.WriteMessage(...) }.   *)
WriteMessage ==
  /\ consumer = "write"
  /\ consumer' = "recv"
  /\ UNCHANGED <<mode, line, emitted, proc, main, failed, scanner, scanned,
                 closed, delivered>>

RangeEnds ==
  /\ consumer = "recv"
  /\ closed
  /\ consumer' = "ended"
  /\ UNCHANGED <<mode, line, emitted, proc, main, failed, scanner, scanned,
                 closed, delivered>>

----------------------------------------------------------------------------
Main == SessionError \/ OpenSession \/ Start \/ Wait \/ Report \/ CloseLogChan
Scanner(s) == \/ Scan(s) \/ EndOfStream(s) \/ PipeClosed(s)
              \/ SendLine(s) \/ SendPanics(s)
Consumer == WriteMessage \/ RangeEnds

Next ==
  \/ Main
  \/ Exit
  \/ \E s \in Stream : Emit(s) \/ Scanner(s)
  \/ Consumer

(* Goroutines that can run do; the command prints and exits when it can;   *)
(* a websocket write ends, with or without an error.  A goroutine blocked  *)
(* at a send is in the channel's FIFO queue of senders, so a consumer that *)
(* keeps receiving reaches it: strong fairness for the senders.            *)
Fairness ==
  /\ WF_vars(SessionError \/ OpenSession \/ Start \/ Wait \/ CloseLogChan)
  /\ SF_vars(Report)
  /\ WF_vars(Exit)
  /\ WF_vars(Consumer)
  /\ \A s \in Stream :
       /\ WF_vars(Emit(s))
       /\ WF_vars(Scan(s) \/ EndOfStream(s) \/ PipeClosed(s) \/ SendPanics(s))
       /\ SF_vars(SendLine(s))

Spec     == Init /\ [][Next]_vars
FairSpec == Spec /\ Fairness

----------------------------------------------------------------------------
Sources == Stream \cup {"main"}

TypeOK ==
  /\ mode \in Mode
  /\ \A s \in Stream : line[s] \in Seq(Kind) /\ Len(line[s]) <= MaxLines
  /\ emitted \in [Stream -> 0..MaxLines]
  /\ scanned \in [Stream -> 0..MaxLines]
  /\ \A s \in Stream : scanned[s] <= emitted[s]
  /\ proc \in {"none", "running", "ended"}
  /\ main \in {"session", "start", "wait", "report", "close", "returned"}
  /\ failed \in BOOLEAN
  /\ scanner \in [Stream -> {"none", "scan", "send", "ended"}]
  /\ closed \in BOOLEAN
  /\ consumer \in {"recv", "write", "ended"}
  /\ delivered \in Seq([from : Sources, n : 0..MaxLines])

(* The i-th line of a stream has been written to the websocket, as the j-th *)
(* message or as any.                                                       *)
WrittenAs(j, s, i) == j \in DOMAIN delivered /\ delivered[j] = [from |-> s, n |-> i]
Written(s, i) == \E j \in DOMAIN delivered : WrittenAs(j, s, i)

Sent(s, i) == i \in 1..Len(line[s]) /\ IsSent(line[s][i])

(* The client sees each stream's lines in the order they were printed,     *)
(* without a gap and without a repetition, whatever the scanners' races: a *)
(* message is a line that is sent, it comes later than all those before it *)
(* and earlier than all those after it.                                    *)
StreamsInOrder ==
  \A s \in Stream, i \in 0..MaxLines, j \in DOMAIN delivered :
    WrittenAs(j, s, i) =>
      /\ Sent(s, i) /\ i <= emitted[s]
      /\ \A h \in 1..(i - 1) : Sent(s, h) => \E k \in 1..(j - 1) : WrittenAs(k, s, h)
      /\ \A h \in i..MaxLines, k \in 1..(j - 1) : ~WrittenAs(k, s, h)

(* A scanner that is over has sent every line of its stream, unless a line *)
(* was too long for it, or ExecuteCommandNew closed the channel or cmd.Wait *)
(* the pipe before it was through: nothing else loses output.              *)
LossesExplained ==
  \A s \in Stream : scanner[s] = "ended" =>
    \/ \A i \in 1..emitted[s] : Sent(s, i) => Written(s, i)
    \/ closed
    \/ mode = "LocalExecutor" /\ main = "returned"
    \/ \E i \in 1..Len(line[s]) : line[s][i] = "long"

(* A line too long for the scanner leaves the stream unread, and the       *)
(* command stuck when it goes on printing.                                 *)
Stuck == \E s \in Stream : \E i \in 1..Len(line[s]) :
           line[s][i] = "long" /\ i + Window <= Len(line[s])

(* The client is told that a remote command is over, whether it could not  *)
(* be started, failed or succeeded, unless it is stuck.  Only a session     *)
(* that could not be opened, before there is any command, may go untold,   *)
(* and only by ExecuteCommand.                                             *)
TerminalMessage ==
  ~Stuck /\ mode # "LocalExecutor" =>
    <>(\/ \E i \in DOMAIN delivered : delivered[i].from = "main"
       \/ mode = "ExecuteCommand" /\ main = "returned" /\ proc = "none")

(* Every line reaches the client of an ExecuteCommand in the end, be it    *)
(* after "Pipeline Done": its channel stays open.                          *)
NoLineLost ==
  \A s \in Stream :
    [](/\ mode = "ExecuteCommand" /\ proc = "running"
       /\ \A i \in 1..Len(line[s]) : line[s][i] # "long"
       /\ ~Stuck
       => <>(\A i \in 1..Len(line[s]) : Sent(s, i) => Written(s, i)))

----------------------------------------------------------------------------
(* The command as its client follows it, the lines left aside: they come   *)
(* as StreamsInOrder says, before the terminal message or after it.        *)
Terminal == {i \in DOMAIN delivered : delivered[i].from = "main"}

Streaming == INSTANCE StreamedCommand WITH
  stage <- CASE main \in {"session", "start"} -> "session"
             [] main = "returned"             -> "returned"
             [] OTHER                         -> "command",
  messages <- Cardinality(Terminal)

StreamImplementsCommand == mode = "ExecuteCommand" => Streaming!Spec
=============================================================================
