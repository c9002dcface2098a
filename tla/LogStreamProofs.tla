---------------------------- MODULE LogStreamProofs ----------------------------
(***************************************************************************)
(* Proofs about remote commands. First the streamed command, for outputs   *)
(* of any length and any window (StreamAssumption): what reaches the       *)
(* websocket of each stream, and what a scanner that is over may have      *)
(* lost. Then the cluster jobs, whose kk is such a command, for any jobs   *)
(* and host lists (JobAssumption): whose configuration it runs with.       *)
(***************************************************************************)
EXTENDS LogStream, ClusterJob, FiniteSetTheorems, SequenceTheorems,
        WellFoundedInduction, TLAPS

Message == [from : Sources, n : 0..MaxLines]

(* A command prints after it has been started, and the scanners start      *)
(* before it.                                                              *)
Started == /\ main \in {"session", "start"} => proc = "none"
           /\ main = "session" => \A s \in Stream : scanner[s] = "none"
           /\ \A s \in Stream : emitted[s] <= Len(line[s])

(* A scanner has written the lines it has consumed, but for the one it     *)
(* holds, and no others; it holds a line that is sent.                     *)
Behind == \A s \in Stream, i \in 0..MaxLines, j \in DOMAIN delivered :
            WrittenAs(j, s, i) =>
              i <= scanned[s] /\ (scanner[s] = "send" => i < scanned[s])
Holds  == \A s \in Stream : scanner[s] = "send" => Sent(s, scanned[s])
Ahead  == \A s \in Stream : \A i \in 1..scanned[s] : Sent(s, i) =>
            \/ Written(s, i)
            \/ i = scanned[s] /\ scanner[s] = "send"
            \/ scanner[s] = "ended" /\ closed

(* Why a scanner is over.                                                  *)
Over == \A s \in Stream : scanner[s] = "ended" =>
          \/ proc = "ended" /\ scanned[s] = emitted[s]
          \/ closed
          \/ mode = "LocalExecutor" /\ main = "returned"
          \/ \E i \in 1..Len(line[s]) : line[s][i] = "long"

StreamInv == TypeOK /\ Started /\ Behind /\ Holds /\ Ahead /\ Over /\ StreamsInOrder

----------------------------------------------------------------------------
(* The command's lines and the method are fixed, and so is what is sent.   *)
LEMMA Fixed ==
  ASSUME [Next]_vars
  PROVE  /\ mode' = mode /\ line' = line
         /\ \A s \in Stream : \A i : Sent(s, i)' <=> Sent(s, i)
<1>1. mode' = mode /\ line' = line
  BY DEF Next, vars, Main, SessionError, OpenSession, Start, Wait, Report, CloseLogChan,
         Exit, Emit, Scanner, Scan, EndOfStream, PipeClosed, SendLine, SendPanics,
         Consumer, WriteMessage, RangeEnds
<1>. QED BY <1>1 DEF Sent, IsSent

(* What is written when a message is.                                      *)
LEMMA AppendWrites ==
  ASSUME TypeOK, NEW e \in Message, delivered' = Append(delivered, e)
  PROVE  /\ delivered' \in Seq(Message) /\ Len(delivered) \in Nat
         /\ DOMAIN delivered = 1..Len(delivered)
         /\ DOMAIN delivered' = 1..(Len(delivered) + 1)
         /\ \A j, s, i : WrittenAs(j, s, i)' <=>
              \/ WrittenAs(j, s, i)
              \/ j = Len(delivered) + 1 /\ e = [from |-> s, n |-> i]
<1>1. delivered \in Seq(Message)
  BY DEF TypeOK, Message
<1>2. /\ delivered' \in Seq(Message) /\ Len(delivered') = Len(delivered) + 1
      /\ Len(delivered) \in Nat /\ DOMAIN delivered = 1..Len(delivered)
      /\ DOMAIN delivered' = 1..(Len(delivered) + 1)
      /\ \A j \in 1..Len(delivered) : delivered'[j] = delivered[j]
      /\ delivered'[Len(delivered) + 1] = e
  BY <1>1, AppendProperties, LenProperties
<1>. QED BY <1>2 DEF WrittenAs

LEMMA StillWritten ==
  ASSUME delivered' = delivered
  PROVE  /\ \A j, s, i : WrittenAs(j, s, i)' <=> WrittenAs(j, s, i)
         /\ \A s, i : Written(s, i)' <=> Written(s, i)
BY DEF WrittenAs, Written

----------------------------------------------------------------------------
LEMMA TypeStep == TypeOK /\ Started /\ [Next]_vars => TypeOK'
<1>. SUFFICES ASSUME TypeOK, Started, [Next]_vars PROVE TypeOK'
  OBVIOUS
<1>1. /\ mode' \in Mode
      /\ \A s \in Stream : line'[s] \in Seq(Kind) /\ Len(line'[s]) <= MaxLines
  BY Fixed DEF TypeOK
<1>2. /\ emitted' \in [Stream -> 0..MaxLines] /\ scanned' \in [Stream -> 0..MaxLines]
      /\ \A s \in Stream : scanned'[s] <= emitted'[s]
  <2>1. ASSUME NEW s \in Stream, Emit(s)
        PROVE  /\ emitted' \in [Stream -> 0..MaxLines] /\ scanned' = scanned
               /\ \A q \in Stream : scanned[q] <= emitted'[q]
    <3>1. emitted[s] + 1 \in 0..MaxLines
      <4>1. /\ Len(line[s]) \in Nat /\ Len(line[s]) <= MaxLines
            /\ emitted[s] \in 0..MaxLines /\ emitted[s] < Len(line[s])
        BY <2>1, LenProperties DEF Emit, TypeOK
      <4>. QED BY <4>1, StreamAssumption
    <3>. QED BY <2>1, <3>1 DEF Emit, TypeOK
  <2>2. ASSUME NEW s \in Stream, Scan(s)
        PROVE  /\ scanned' \in [Stream -> 0..MaxLines] /\ emitted' = emitted
               /\ \A q \in Stream : scanned'[q] <= emitted[q]
    <3>1. /\ scanned[s] + 1 \in 0..MaxLines /\ scanned[s] + 1 <= emitted[s]
      <4>1. scanned[s] \in Nat /\ emitted[s] \in 0..MaxLines /\ scanned[s] < emitted[s]
        BY <2>2 DEF Scan, TypeOK
      <4>. QED BY <4>1, StreamAssumption
    <3>2. PICK n \in {scanned[s], scanned[s] + 1} :
            scanned' = [scanned EXCEPT ![s] = n] /\ emitted' = emitted
      BY <2>2 DEF Scan
    <3>. QED BY <3>1, <3>2 DEF TypeOK
  <2>3. CASE UNCHANGED <<emitted, scanned>>
    BY <2>3 DEF TypeOK
  <2>4. \/ UNCHANGED <<emitted, scanned>>
        \/ \E s \in Stream : Emit(s) \/ Scan(s)
    BY DEF Next, vars, Main, SessionError, OpenSession, Start, Wait, Report,
           CloseLogChan, Exit, Scanner, EndOfStream, PipeClosed, SendLine, SendPanics,
           Consumer, WriteMessage, RangeEnds
  <2>. QED BY <2>1, <2>2, <2>3, <2>4 DEF TypeOK
<1>3. /\ proc' \in {"none", "running", "ended"}
      /\ main' \in {"session", "start", "wait", "report", "close", "returned"}
      /\ consumer' \in {"recv", "write", "ended"}
  <2>1. CASE Main \/ Exit
    BY <2>1 DEF TypeOK, Told, Main, SessionError, OpenSession, Start, Wait, Report,
                CloseLogChan, Exit
  <2>2. ASSUME NEW s \in Stream, Emit(s) \/ Scanner(s)
        PROVE  UNCHANGED <<proc, main>> /\ consumer' \in {consumer, "write"}
    BY <2>2 DEF Emit, Scanner, Scan, EndOfStream, PipeClosed, SendLine, SendPanics
  <2>3. CASE Consumer \/ UNCHANGED vars
    BY <2>3 DEF TypeOK, Consumer, WriteMessage, RangeEnds, vars
  <2>. QED BY <2>1, <2>2, <2>3 DEF TypeOK, Next
<1>4. failed' \in BOOLEAN /\ closed' \in BOOLEAN
  <2>1. failed' \in {failed, TRUE} \/ failed' \in BOOLEAN
    BY DEF Next, vars, Main, SessionError, OpenSession, Start, Wait, Report,
           CloseLogChan, Exit, Emit, Scanner, Scan, EndOfStream, PipeClosed, SendLine,
           SendPanics, Consumer, WriteMessage, RangeEnds
  <2>2. closed' = closed \/ closed' = TRUE
    BY DEF Next, vars, Main, SessionError, OpenSession, Start, Wait, Report,
           CloseLogChan, Exit, Emit, Scanner, Scan, EndOfStream, PipeClosed, SendLine,
           SendPanics, Consumer, WriteMessage, RangeEnds
  <2>. QED BY <2>1, <2>2, Zenon DEF TypeOK
<1>5. delivered' \in Seq(Message)
  <2>1. ASSUME NEW s \in Stream, SendLine(s) PROVE delivered' \in Seq(Message)
    <3>1. [from |-> s, n |-> scanned[s]] \in Message
      BY DEF TypeOK, Message, Sources
    <3>. QED BY <2>1, <3>1, AppendWrites DEF SendLine
  <2>2. CASE Report
    <3>1. [from |-> "main", n |-> 0] \in Message
      BY StreamAssumption DEF Message, Sources
    <3>. QED BY <2>2, <3>1, AppendWrites DEF Report
  <2>3. CASE delivered' = delivered
    BY <2>3 DEF TypeOK, Message
  <2>4. delivered' = delivered \/ Report \/ \E s \in Stream : SendLine(s)
    BY DEF Next, vars, Main, SessionError, OpenSession, Start, Wait, CloseLogChan, Exit,
           Emit, Scanner, Scan, EndOfStream, PipeClosed, SendPanics, Consumer,
           WriteMessage, RangeEnds
  <2>. QED BY <2>1, <2>2, <2>3, <2>4
<1>6. scanner' \in [Stream -> {"none", "scan", "send", "ended"}]
  <2>1. \/ scanner' = scanner \/ scanner' = [s \in Stream |-> "scan"]
        \/ \E s \in Stream, v \in {"scan", "send", "ended"} :
             scanner' = [scanner EXCEPT ![s] = v]
    BY DEF Next, vars, Main, SessionError, OpenSession, Start, Wait, Report,
           CloseLogChan, Exit, Emit, Scanner, Scan, EndOfStream, PipeClosed, SendLine,
           SendPanics, Consumer, WriteMessage, RangeEnds
  <2>. QED BY <2>1 DEF TypeOK
<1>. QED BY <1>1, <1>2, <1>3, <1>4, <1>5, <1>6 DEF TypeOK, Message

LEMMA StartedStep == TypeOK /\ Started /\ [Next]_vars => Started'
<1>. SUFFICES ASSUME TypeOK, Started, [Next]_vars PROVE Started'
  OBVIOUS
<1>1. \A s \in Stream : emitted'[s] <= Len(line'[s])
  <2>1. CASE emitted' = emitted
    BY <2>1, Fixed DEF Started
  <2>2. ASSUME NEW s \in Stream, Emit(s) PROVE \A q \in Stream : emitted'[q] <= Len(line'[q])
    <3>1. Len(line[s]) \in Nat /\ emitted[s] \in Nat /\ emitted[s] < Len(line[s])
      BY <2>2, LenProperties DEF Emit, TypeOK
    <3>. QED BY <2>2, <3>1 DEF Emit, Started, TypeOK
  <2>3. emitted' = emitted \/ \E s \in Stream : Emit(s)
    BY DEF Next, vars, Main, SessionError, OpenSession, Start, Wait, Report,
           CloseLogChan, Exit, Scanner, Scan, EndOfStream, PipeClosed, SendLine,
           SendPanics, Consumer, WriteMessage, RangeEnds
  <2>. QED BY <2>1, <2>2, <2>3
<1>2. /\ main' \in {"session", "start"} => proc' = "none"
      /\ main' = "session" => \A s \in Stream : scanner'[s] = "none"
  BY DEF TypeOK, Started, Told, Next, vars, Main, SessionError, OpenSession, Start, Wait,
         Report, CloseLogChan, Exit, Emit, Scanner, Scan, EndOfStream, PipeClosed,
         SendLine, SendPanics, Consumer, WriteMessage, RangeEnds
<1>. QED BY <1>1, <1>2 DEF Started

(* What a scanner makes of the next line.                                  *)
LEMMA ScanResult ==
  ASSUME TypeOK, Started, NEW s \in Stream, Scan(s)
  PROVE  LET n == scanned[s] + 1 IN
         /\ n \in 1..MaxLines /\ n \in 1..Len(line[s])
         /\ \/ /\ Sent(s, n) /\ scanner' = [scanner EXCEPT ![s] = "send"]
               /\ scanned' = [scanned EXCEPT ![s] = n]
            \/ /\ line[s][n] = "long" /\ scanner' = [scanner EXCEPT ![s] = "ended"]
               /\ scanned' = scanned
            \/ /\ ~Sent(s, n) /\ scanner' = [scanner EXCEPT ![s] = "scan"]
               /\ scanned' = [scanned EXCEPT ![s] = n]
<1>. DEFINE n == scanned[s] + 1
            found == line[s][n]
<1>1. n \in 1..MaxLines /\ n \in 1..Len(line[s])
  <2>1. /\ scanned[s] \in 0..MaxLines /\ emitted[s] \in 0..MaxLines
        /\ Len(line[s]) \in Nat /\ scanned[s] < emitted[s] /\ emitted[s] <= Len(line[s])
    BY LenProperties DEF TypeOK, Started, Scan
  <2>. QED BY <2>1, StreamAssumption
<1>2. /\ scanner' = [scanner EXCEPT ![s] = CASE IsSent(found)  -> "send"
                                             [] found = "long" -> "ended"
                                             [] OTHER          -> "scan"]
      /\ scanned' = [scanned EXCEPT ![s] = IF found = "long" THEN scanned[s] ELSE n]
  BY DEF Scan
<1>3. CASE IsSent(found)
  <2>1. found # "long"
    BY <1>3 DEF IsSent
  <2>2. Sent(s, n)
    BY <1>1, <1>3 DEF Sent
  <2>. QED BY <1>1, <1>2, <1>3, <2>1, <2>2
<1>4. CASE ~IsSent(found) /\ found = "long"
  <2>1. scanned' = scanned
    BY <1>2, <1>4 DEF TypeOK
  <2>. QED BY <1>1, <1>2, <1>4, <2>1
<1>5. CASE ~IsSent(found) /\ found # "long"
  <2>1. ~Sent(s, n)
    BY <1>5 DEF Sent
  <2>. QED BY <1>1, <1>2, <1>5, <2>1
<1>. QED BY <1>3, <1>4, <1>5

(* What is written to the websocket stays in order.                        *)
Order == Behind /\ Holds /\ Ahead /\ StreamsInOrder

LEMMA ScanOrder ==
  ASSUME TypeOK, Started, Order, NEW s \in Stream, Scan(s), [Next]_vars
  PROVE  Order'
<1>. DEFINE n == scanned[s] + 1
<1>1. /\ n \in 1..MaxLines /\ scanned[s] \in 0..MaxLines /\ n = scanned[s] + 1
      /\ \/ /\ Sent(s, n) /\ scanner' = [scanner EXCEPT ![s] = "send"]
            /\ scanned' = [scanned EXCEPT ![s] = n]
         \/ /\ scanner' = [scanner EXCEPT ![s] = "ended"] /\ scanned' = scanned
         \/ /\ ~Sent(s, n) /\ scanner' = [scanner EXCEPT ![s] = "scan"]
            /\ scanned' = [scanned EXCEPT ![s] = n]
  BY ScanResult DEF TypeOK
<1>2. /\ scanner[s] = "scan" /\ closed' = closed /\ emitted' = emitted
      /\ delivered' = delivered
  BY DEF Scan
<1>3. /\ \A j, q, i : WrittenAs(j, q, i)' <=> WrittenAs(j, q, i)
      /\ \A q, i : Written(q, i)' <=> Written(q, i)
      /\ \A q \in Stream : \A i : Sent(q, i)' <=> Sent(q, i)
  BY <1>2, StillWritten, Fixed
<1>. HIDE DEF n
<1>4. Behind'
  <2>1. SUFFICES ASSUME NEW q \in Stream, NEW i \in 0..MaxLines, NEW j \in DOMAIN delivered,
                        WrittenAs(j, q, i)
                 PROVE  i <= scanned'[q] /\ (scanner'[q] = "send" => i < scanned'[q])
    BY <1>2, <1>3 DEF Behind
  <2>2. i <= scanned[q] /\ (scanner[q] = "send" => i < scanned[q])
    BY <2>1, StreamAssumption DEF Order, Behind
  <2>3. scanned[q] \in Nat /\ i \in Nat
    BY StreamAssumption DEF TypeOK
  <2>4. CASE q = s
    BY <1>1, <2>2, <2>3, <2>4 DEF TypeOK
  <2>5. CASE q # s
    BY <1>1, <2>2, <2>5 DEF TypeOK
  <2>. QED BY <2>4, <2>5
<1>5. Holds'
  BY <1>1, <1>3 DEF Order, Holds, TypeOK
<1>6. Ahead'
  <2>1. SUFFICES ASSUME NEW q \in Stream, NEW i \in 1..scanned'[q], Sent(q, i)
                 PROVE  \/ Written(q, i)
                        \/ i = scanned'[q] /\ scanner'[q] = "send"
                        \/ scanner'[q] = "ended" /\ closed
    BY <1>2, <1>3 DEF Ahead
  <2>2. CASE i \in 1..scanned[q]
    <3>1. \/ Written(q, i)
          \/ i = scanned[q] /\ scanner[q] = "send"
          \/ scanner[q] = "ended" /\ closed
      BY <2>1, <2>2 DEF Order, Ahead
    <3>. QED BY <1>1, <1>2, <3>1 DEF TypeOK
  <2>3. CASE i \notin 1..scanned[q]
    <3>1. q = s /\ i = n /\ scanned'[q] = n
      BY <1>1, <2>3 DEF TypeOK
    <3>2. scanner'[q] = "send"
      BY <1>1, <2>1, <3>1 DEF TypeOK
    <3>. QED BY <3>1, <3>2
  <2>. QED BY <2>2, <2>3
<1>7. StreamsInOrder'
  BY <1>2, <1>3 DEF Order, StreamsInOrder
<1>. QED BY <1>4, <1>5, <1>6, <1>7 DEF Order

LEMMA SendOrder ==
  ASSUME TypeOK, Started, Order, NEW s \in Stream, SendLine(s), [Next]_vars
  PROVE  Order'
<1>. DEFINE n == scanned[s]
            len == Len(delivered)
            e == [from |-> s, n |-> n]
<1>1. e \in Message /\ n \in 0..MaxLines /\ MaxLines \in Nat /\ s \in Stream
  BY StreamAssumption DEF TypeOK, Message, Sources
<1>2. /\ delivered' = Append(delivered, e) /\ scanned' = scanned /\ emitted' = emitted
      /\ closed' = closed /\ scanner[s] = "send" /\ ~closed
      /\ scanner' = [scanner EXCEPT ![s] = "scan"]
  BY DEF SendLine
<1>3. /\ len \in Nat /\ DOMAIN delivered = 1..len /\ DOMAIN delivered' = 1..(len + 1)
      /\ \A j, q, i : WrittenAs(j, q, i)' <=>
           WrittenAs(j, q, i) \/ (j = len + 1 /\ q = s /\ i = n)
  BY <1>1, <1>2, AppendWrites
<1>4. \A q \in Stream : \A i : Sent(q, i)' <=> Sent(q, i)
  BY Fixed
<1>5. \A j, q, i : WrittenAs(j, q, i) => j \in 1..len
  BY <1>3 DEF WrittenAs
<1>6. Sent(s, n) /\ n <= emitted[s]
  BY <1>2 DEF Order, Holds, TypeOK
<1>. HIDE DEF n, len, e
<1>7. \A q, i : Written(q, i)' <=> Written(q, i) \/ (q = s /\ i = n)
  <2>1. \A q, i : Written(q, i) <=> \E j \in 1..len : WrittenAs(j, q, i)
    BY <1>3 DEF Written
  <2>2. \A q, i : Written(q, i)' <=> \E j \in 1..(len + 1) : WrittenAs(j, q, i)'
    BY <1>3 DEF Written
  <2>. QED BY <1>3, <1>5, <2>1, <2>2
<1>8. Behind'
  <2>1. SUFFICES ASSUME NEW q \in Stream, NEW i \in 0..MaxLines, NEW j,
                        WrittenAs(j, q, i)'
                 PROVE  i <= scanned[q] /\ (scanner'[q] = "send" => i < scanned[q])
    BY <1>2 DEF Behind
  <2>2. CASE WrittenAs(j, q, i)
    <3>1. j \in DOMAIN delivered
      BY <1>3, <1>5, <2>2
    <3>2. i <= scanned[q] /\ (scanner[q] = "send" => i < scanned[q])
      BY <2>2, <3>1 DEF Order, Behind
    <3>. QED BY <1>2, <3>2 DEF TypeOK
  <2>3. CASE q = s /\ i = n
    BY <1>1, <1>2, <2>3 DEF TypeOK, n
  <2>. QED BY <1>3, <2>1, <2>2, <2>3
<1>9. Holds'
  BY <1>2, <1>4 DEF Order, Holds, TypeOK
<1>10. Ahead'
  BY <1>2, <1>4, <1>7 DEF Order, Ahead, TypeOK, n
<1>11. StreamsInOrder'
  <2>1. SUFFICES ASSUME NEW q \in Stream, NEW i \in 0..MaxLines, NEW j \in 1..(len + 1),
                        WrittenAs(j, q, i)'
                 PROVE  /\ Sent(q, i) /\ i <= emitted[q]
                        /\ \A h \in 1..(i - 1) : Sent(q, h) =>
                             \E k \in 1..(j - 1) : WrittenAs(k, q, h)'
                        /\ \A h \in i..MaxLines, k \in 1..(j - 1) : ~WrittenAs(k, q, h)'
    BY <1>2, <1>3, <1>4 DEF StreamsInOrder
  <2>2. CASE WrittenAs(j, q, i)
    <3>1. j \in 1..len
      BY <1>5, <2>2
    <3>2. /\ Sent(q, i) /\ i <= emitted[q]
          /\ \A h \in 1..(i - 1) : Sent(q, h) =>
               \E k \in 1..(j - 1) : WrittenAs(k, q, h)
          /\ \A h \in i..MaxLines, k \in 1..(j - 1) : ~WrittenAs(k, q, h)
      BY <1>3, <2>2, <3>1 DEF Order, StreamsInOrder
    <3>3. \A k \in 1..(j - 1) : k # len + 1
      BY <1>3, <3>1
    <3>. QED BY <1>3, <3>2, <3>3
  <2>3. CASE j = len + 1 /\ q = s /\ i = n
    <3>1. Sent(q, i) /\ i <= emitted[q]
      BY <1>6, <2>3
    <3>2. ASSUME NEW h \in 1..(i - 1), Sent(q, h)
          PROVE  \E k \in 1..(j - 1) : WrittenAs(k, q, h)'
      <4>1. h \in 1..scanned[s] /\ h # scanned[s]
        BY <1>1, <2>3 DEF n
      <4>2. Written(s, h)
        BY <1>2, <2>3, <3>2, <4>1 DEF Order, Ahead
      <4>3. PICK k \in DOMAIN delivered : WrittenAs(k, s, h)
        BY <4>2 DEF Written
      <4>4. k \in 1..(j - 1)
        BY <1>3, <2>3, <4>3
      <4>. QED BY <1>3, <2>3, <4>3, <4>4
    <3>3. ASSUME NEW h \in i..MaxLines, NEW k \in 1..(j - 1) PROVE ~WrittenAs(k, q, h)'
      <4>1. k \in 1..len /\ k # len + 1
        BY <1>3, <2>3
      <4>2. WrittenAs(k, q, h) => h < scanned[s]
        BY <1>1, <1>2, <1>3, <2>3, <4>1 DEF Order, Behind
      <4>3. ~(h < scanned[s])
        BY <1>1, <2>3 DEF n
      <4>. QED BY <1>3, <4>1, <4>2, <4>3
    <3>. QED BY <3>1, <3>2, <3>3
  <2>. QED BY <1>3, <2>1, <2>2, <2>3
<1>. QED BY <1>8, <1>9, <1>10, <1>11 DEF Order

(* The terminal message belongs to neither stream.                         *)
LEMMA ReportOrder ==
  ASSUME TypeOK, Started, Order, Report, [Next]_vars
  PROVE  Order'
<1>. DEFINE len == Len(delivered)
            e == [from |-> "main", n |-> 0]
<1>1. e \in Message
  BY StreamAssumption DEF Message, Sources
<1>2. /\ delivered' = Append(delivered, e)
      /\ scanned' = scanned /\ emitted' = emitted /\ closed' = closed /\ scanner' = scanner
  BY DEF Report
<1>3. /\ len \in Nat /\ DOMAIN delivered = 1..len /\ DOMAIN delivered' = 1..(len + 1)
      /\ \A j, q, i : WrittenAs(j, q, i)' <=>
           WrittenAs(j, q, i) \/ (j = len + 1 /\ e = [from |-> q, n |-> i])
  BY <1>1, <1>2, AppendWrites
<1>4. \A q \in Stream : \A i : e # [from |-> q, n |-> i]
  BY DEF Stream
<1>. HIDE DEF len, e
<1>5. \A q \in Stream : \A j, i : WrittenAs(j, q, i)' <=> WrittenAs(j, q, i)
  BY <1>3, <1>4
<1>6. \A j, q, i : WrittenAs(j, q, i) => j \in 1..len
  BY <1>3 DEF WrittenAs
<1>7. \A q \in Stream : \A i : Written(q, i)' <=> Written(q, i)
  <2>1. \A q, i : Written(q, i) <=> \E j \in 1..len : WrittenAs(j, q, i)
    BY <1>3 DEF Written
  <2>2. \A q, i : Written(q, i)' <=> \E j \in 1..(len + 1) : WrittenAs(j, q, i)'
    BY <1>3 DEF Written
  <2>. QED BY <1>3, <1>5, <1>6, <2>1, <2>2
<1>8. \A q \in Stream : \A i : Sent(q, i)' <=> Sent(q, i)
  BY Fixed
<1>9. Behind'
  <2>1. SUFFICES ASSUME NEW q \in Stream, NEW i \in 0..MaxLines, NEW j \in DOMAIN delivered',
                        WrittenAs(j, q, i)'
                 PROVE  i <= scanned'[q] /\ (scanner'[q] = "send" => i < scanned'[q])
    BY StreamAssumption DEF Behind
  <2>2. WrittenAs(j, q, i)
    BY <1>5, <2>1
  <2>3. j \in DOMAIN delivered
    BY <1>3, <1>6, <2>2
  <2>4. i <= scanned[q] /\ (scanner[q] = "send" => i < scanned[q])
    BY <2>2, <2>3 DEF Order, Behind
  <2>. QED BY <1>2, <2>4
<1>10. Holds'
  BY <1>2, <1>8 DEF Order, Holds
<1>11. Ahead'
  BY <1>2, <1>7, <1>8 DEF Order, Ahead
<1>12. StreamsInOrder'
  BY <1>2, <1>3, <1>5, <1>6, <1>8 DEF Order, StreamsInOrder
<1>. QED BY <1>9, <1>10, <1>11, <1>12 DEF Order

(* A scanner that ends, and every other step, write nothing.               *)
LEMMA SilentOrder ==
  ASSUME TypeOK, Started, Order, [Next]_vars,
         UNCHANGED <<delivered, scanned>>,
         \A q \in Stream : emitted[q] <= emitted'[q],
         closed' = closed \/ closed' = TRUE,
         \/ scanner' = scanner
         \/ main = "session" /\ scanner' = [q \in Stream |-> "scan"]
         \/ \E s \in Stream : /\ scanner[s] = "scan" \/ closed
                              /\ scanner' = [scanner EXCEPT ![s] = "ended"]
  PROVE  Order'
<1>1. /\ \A j, q, i : WrittenAs(j, q, i)' <=> WrittenAs(j, q, i)
      /\ \A q, i : Written(q, i)' <=> Written(q, i)
      /\ \A q \in Stream : \A i : Sent(q, i)' <=> Sent(q, i)
  BY StillWritten, Fixed
<1>2. \A q \in Stream :
        \/ scanner'[q] = scanner[q]
        \/ scanner[q] \in {"none", "scan"} /\ scanner'[q] \in {"scan", "ended"}
        \/ closed /\ scanner'[q] = "ended"
  BY DEF TypeOK, Started
<1>3. Behind' /\ Holds'
  BY <1>1, <1>2 DEF Order, Behind, Holds
<1>4. Ahead'
  BY <1>1, <1>2 DEF Order, Ahead
<1>5. StreamsInOrder'
  <2>1. \A q \in Stream, i \in 0..MaxLines : i <= emitted[q] => i <= emitted'[q]
    BY StreamAssumption, TypeStep DEF TypeOK
  <2>. QED BY <1>1, <2>1 DEF Order, StreamsInOrder
<1>. QED BY <1>3, <1>4, <1>5 DEF Order

LEMMA OrderStep ==
  ASSUME TypeOK, Started, Order, [Next]_vars
  PROVE  Order'
<1>1. CASE \E s \in Stream : Scan(s)
  BY <1>1, ScanOrder
<1>2. CASE \E s \in Stream : SendLine(s)
  BY <1>2, SendOrder
<1>3. CASE Report
  BY <1>3, ReportOrder
<1>4. CASE ~Report /\ \A s \in Stream : ~Scan(s) /\ ~SendLine(s)
  <2>1. UNCHANGED <<delivered, scanned>>
    BY <1>4
    DEF Next, vars, Main, SessionError, OpenSession, Start, Wait, CloseLogChan, Exit,
        Emit, Scanner, EndOfStream, PipeClosed, SendPanics, Consumer, WriteMessage,
        RangeEnds
  <2>2. \A q \in Stream : emitted[q] <= emitted'[q]
    <3>1. emitted' = emitted \/ \E s \in Stream : Emit(s)
      BY DEF Next, vars, Main, SessionError, OpenSession, Start, Wait, Report,
             CloseLogChan, Exit, Scanner, Scan, EndOfStream, PipeClosed, SendLine,
             SendPanics, Consumer, WriteMessage, RangeEnds
    <3>2. \A q \in Stream : emitted[q] \in Nat
      BY StreamAssumption DEF TypeOK
    <3>3. \A s, q \in Stream : Emit(s) =>
            emitted'[q] = IF q = s THEN emitted[q] + 1 ELSE emitted[q]
      BY DEF Emit, TypeOK
    <3>. QED BY <3>1, <3>2, <3>3
  <2>3. closed' = closed \/ closed' = TRUE
    BY DEF Next, vars, Main, SessionError, OpenSession, Start, Wait, Report,
           CloseLogChan, Exit, Emit, Scanner, Scan, EndOfStream, PipeClosed, SendLine,
           SendPanics, Consumer, WriteMessage, RangeEnds
  <2>4. \/ scanner' = scanner
        \/ main = "session" /\ scanner' = [q \in Stream |-> "scan"]
        \/ \E s \in Stream : /\ scanner[s] = "scan" \/ closed
                             /\ scanner' = [scanner EXCEPT ![s] = "ended"]
    BY <1>4
    DEF Next, vars, Main, SessionError, OpenSession, Start, Wait, CloseLogChan, Exit,
        Emit, Scanner, EndOfStream, PipeClosed, SendPanics, Consumer, WriteMessage,
        RangeEnds
  <2>. QED BY <2>1, <2>2, <2>3, <2>4, SilentOrder
<1>. QED BY <1>1, <1>2, <1>3, <1>4

(* A reason for the end of a scanner stays one.                            *)
LEMMA OverStep == TypeOK /\ Started /\ Over /\ [Next]_vars => Over'
<1>. SUFFICES ASSUME TypeOK, Started, Over, [Next]_vars,
                     NEW s \in Stream, scanner'[s] = "ended"
              PROVE  \/ proc' = "ended" /\ scanned'[s] = emitted'[s]
                     \/ closed'
                     \/ mode' = "LocalExecutor" /\ main' = "returned"
                     \/ \E i \in 1..Len(line'[s]) : line'[s][i] = "long"
  BY DEF Over
<1>1. mode' = mode /\ line' = line
  BY Fixed
<1>2. closed => closed'
  <2>1. closed' = closed \/ closed' = TRUE
    BY DEF Next, vars, Main, SessionError, OpenSession, Start, Wait, Report,
           CloseLogChan, Exit, Emit, Scanner, Scan, EndOfStream, PipeClosed, SendLine,
           SendPanics, Consumer, WriteMessage, RangeEnds
  <2>. QED BY <2>1
<1>3. main = "returned" => main' = "returned"
  BY DEF Next, vars, Main, SessionError, OpenSession, Start, Wait, Report, CloseLogChan,
         Exit, Emit, Scanner, Scan, EndOfStream, PipeClosed, SendLine, SendPanics,
         Consumer, WriteMessage, RangeEnds
<1>4. CASE scanner[s] = "ended"
  <2>1. proc = "ended" => proc' = "ended" /\ emitted' = emitted
    BY DEF Started, Next, vars, Main, SessionError, OpenSession, Start, Wait, Report,
           CloseLogChan, Exit, Emit, Scanner, Scan, EndOfStream, PipeClosed, SendLine,
           SendPanics, Consumer, WriteMessage, RangeEnds
  <2>2. scanned'[s] = scanned[s]
    <3>1. scanned' = scanned \/ \E q \in Stream : Scan(q)
      BY DEF Next, vars, Main, SessionError, OpenSession, Start, Wait, Report,
             CloseLogChan, Exit, Emit, Scanner, EndOfStream, PipeClosed, SendLine,
             SendPanics, Consumer, WriteMessage, RangeEnds
    <3>. QED BY <1>4, <3>1 DEF Scan, TypeOK
  <2>. QED BY <1>1, <1>2, <1>3, <1>4, <2>1, <2>2 DEF Over
<1>5. CASE scanner[s] # "ended"
  <2>1. Scan(s) \/ EndOfStream(s) \/ PipeClosed(s) \/ SendPanics(s)
    <3>1. CASE Main
      BY <1>5, <3>1 DEF TypeOK, Main, SessionError, OpenSession, Start, Wait, Report,
                        CloseLogChan
    <3>2. ASSUME NEW q \in Stream, Emit(q) \/ Scanner(q)
          PROVE  Scan(s) \/ EndOfStream(s) \/ PipeClosed(s) \/ SendPanics(s)
      <4>1. CASE Emit(q)
        BY <1>5, <4>1 DEF Emit
      <4>2. CASE Scanner(q) /\ q # s
        BY <1>5, <4>2 DEF TypeOK, Scanner, Scan, EndOfStream, PipeClosed, SendLine,
                          SendPanics
      <4>3. CASE SendLine(q)
        BY <1>5, <4>3 DEF TypeOK, SendLine
      <4>. QED BY <3>2, <4>1, <4>2, <4>3 DEF Scanner
    <3>3. CASE Exit \/ Consumer \/ UNCHANGED vars
      BY <1>5, <3>3 DEF Exit, Consumer, WriteMessage, RangeEnds, vars
    <3>. QED BY <3>1, <3>2, <3>3 DEF Next
  <2>2. CASE Scan(s)
    <3>1. scanned[s] + 1 \in 1..Len(line[s]) /\ line[s][scanned[s] + 1] = "long"
      BY <1>5, <2>2, ScanResult DEF TypeOK
    <3>. QED BY <1>1, <3>1
  <2>3. CASE EndOfStream(s)
    BY <2>3 DEF EndOfStream
  <2>4. CASE PipeClosed(s)
    BY <2>4 DEF PipeClosed
  <2>5. CASE SendPanics(s)
    BY <2>5 DEF SendPanics
  <2>. QED BY <2>1, <2>2, <2>3, <2>4, <2>5
<1>. QED BY <1>4, <1>5

LEMMA StreamInit == Init => StreamInv
<1>. SUFFICES ASSUME Init PROVE StreamInv
  OBVIOUS
<1>1. \A s \in Stream : line[s] \in Seq(Kind) /\ Len(line[s]) \in 0..MaxLines
  BY StreamAssumption DEF Init
<1>2. TypeOK
  <2>1. delivered \in Seq([from : Sources, n : 0..MaxLines])
    BY EmptySeq DEF Init
  <2>2. failed \in BOOLEAN /\ closed \in BOOLEAN
    BY Zenon DEF Init
  <2>3. /\ emitted \in [Stream -> 0..MaxLines] /\ scanned \in [Stream -> 0..MaxLines]
        /\ \A s \in Stream : scanned[s] <= emitted[s]
    BY StreamAssumption DEF Init
  <2>. QED BY <1>1, <2>1, <2>2, <2>3, StreamAssumption DEF Init, TypeOK
<1>3. Started
  BY <1>1 DEF Init, Started
<1>4. DOMAIN delivered = {}
  BY EmptySeq DEF Init
<1>5. Behind /\ StreamsInOrder
  BY <1>4 DEF Behind, StreamsInOrder
<1>6. Holds /\ Ahead /\ Over
  BY DEF Init, Holds, Ahead, Over
<1>. QED BY <1>2, <1>3, <1>5, <1>6 DEF StreamInv

LEMMA StreamStep == StreamInv /\ [Next]_vars => StreamInv'
BY TypeStep, StartedStep, OrderStep, OverStep DEF StreamInv, Order

(* The variables of the streamed command always have their types.          *)
THEOREM StreamTypeCorrect == Spec => []TypeOK
<1>1. StreamInv => TypeOK
  BY DEF StreamInv
<1>. QED BY <1>1, StreamInit, StreamStep, PTL DEF Spec

(* For outputs of any length: the lines of each stream arrive in the order *)
(* they were printed, without a gap or a repetition, although the two      *)
(* scanners and the calling goroutine race for the unbuffered channel.     *)
THEOREM LinesInOrder == Spec => []StreamsInOrder
<1>1. StreamInv => StreamsInOrder
  BY DEF StreamInv
<1>. QED BY <1>1, StreamInit, StreamStep, PTL DEF Spec

(* Output is lost for no other reason than an overlong line, the closed    *)
(* channel of ExecuteCommandNew and the closed pipes of the local method.  *)
THEOREM NothingElseIsLost == Spec => []LossesExplained
<1>1. StreamInv => LossesExplained
  <2>1. SUFFICES ASSUME StreamInv, NEW s \in Stream, scanner[s] = "ended",
                        scanned[s] = emitted[s], ~closed,
                        NEW i \in 1..emitted[s], Sent(s, i)
                 PROVE  Written(s, i)
    BY DEF StreamInv, Over, LossesExplained
  <2>. QED BY <2>1 DEF StreamInv, Ahead
<1>. QED BY <1>1, StreamInit, StreamStep, PTL DEF Spec

----------------------------------------------------------------------------
(* The refinement of StreamedCommand: only Report adds to the terminal     *)
(* messages, and one.                                                      *)
LEMMA OneTerminalMore ==
  ASSUME TypeOK, NEW e \in Message, delivered' = Append(delivered, e)
  PROVE  /\ e.from # "main" => Terminal' = Terminal
         /\ e.from = "main" => Cardinality(Terminal') = Cardinality(Terminal) + 1
<1> DEFINE len == Len(delivered)
<1>1. delivered \in Seq(Message)
  BY DEF TypeOK, Message
<1>2. /\ len \in Nat /\ DOMAIN delivered = 1..len /\ DOMAIN delivered' = 1..(len + 1)
      /\ \A j \in 1..len : delivered'[j] = delivered[j]
      /\ delivered'[len + 1] = e
  BY <1>1, AppendProperties, LenProperties
<1> HIDE DEF len
<1>3. len + 1 \notin 1..len /\ 1..(len + 1) = 1..len \cup {len + 1}
  BY <1>2
<1>4. Terminal \subseteq 1..len /\ len + 1 \notin Terminal
  BY <1>2, <1>3 DEF Terminal
<1>5. Terminal' = Terminal \cup (IF e.from = "main" THEN {len + 1} ELSE {})
  BY <1>2, <1>3 DEF Terminal
<1>6. IsFiniteSet(Terminal)
  <2>1. IsFiniteSet(1..len)
    BY <1>2, 1 \in Int, len \in Int, FS_Interval
  <2> QED BY <1>4, <2>1, FS_Subset
<1>7. Cardinality(Terminal \cup {len + 1}) = Cardinality(Terminal) + 1
  BY <1>4, <1>6, FS_AddElement
<1> QED BY <1>5, <1>7

(* ExecuteCommand never closes its channel.                                *)
LeftOpen == mode = "ExecuteCommand" => main # "close"

LEMMA StepOfCommand ==
  ASSUME TypeOK, LeftOpen, mode = "ExecuteCommand", [Next]_vars
  PROVE  LeftOpen' /\ [Streaming!Next]_(Streaming!commandVars)
<1>1. ASSUME delivered' = delivered, main' = main
      PROVE  UNCHANGED Streaming!commandVars
  BY <1>1 DEF Streaming!commandVars, Terminal
<1>2. mode' = mode
  BY Fixed
<1>3. ASSUME SessionError PROVE main' # "close" /\ Streaming!NoSession
  BY <1>3 DEF SessionError, Streaming!NoSession, Terminal
<1>4. ASSUME OpenSession \/ Wait
      PROVE  main' # "close" /\ UNCHANGED Streaming!commandVars
  BY <1>4 DEF OpenSession, Wait, Told, Streaming!commandVars, Terminal
<1>5. ASSUME Start PROVE main' # "close" /\ Streaming!Begin
  BY <1>5 DEF Start, Told, Streaming!Begin, Terminal
<1>6. ASSUME Report PROVE main' # "close" /\ Streaming!Over
  <2>1. [from |-> "main", n |-> 0] \in Message
    BY StreamAssumption DEF Message, Sources
  <2>2. delivered' = Append(delivered, [from |-> "main", n |-> 0])
    BY <1>6 DEF Report
  <2>3. Cardinality(Terminal') = Cardinality(Terminal) + 1
    BY <2>1, <2>2, OneTerminalMore
  <2>4. main = "report" /\ main' = "returned"
    BY <1>6 DEF Report
  <2> QED BY <2>3, <2>4 DEF Streaming!Over
<1>7. ~CloseLogChan
  BY DEF LeftOpen, CloseLogChan
<1>8. ASSUME NEW s \in Stream, SendLine(s)
      PROVE  main' = main /\ UNCHANGED Streaming!commandVars
  <2>1. [from |-> s, n |-> scanned[s]] \in Message /\ s # "main"
    BY DEF TypeOK, Message, Sources, Stream
  <2>2. /\ delivered' = Append(delivered, [from |-> s, n |-> scanned[s]])
        /\ main' = main
    BY <1>8 DEF SendLine
  <2>3. Terminal' = Terminal
    BY <2>1, <2>2, OneTerminalMore
  <2> QED BY <2>2, <2>3 DEF Streaming!commandVars
<1>9. ASSUME NEW s \in Stream,
             Emit(s) \/ Scan(s) \/ EndOfStream(s) \/ PipeClosed(s) \/ SendPanics(s)
      PROVE  main' = main /\ delivered' = delivered
  BY <1>9 DEF Emit, Scan, EndOfStream, PipeClosed, SendPanics
<1>10. ASSUME Exit \/ Consumer \/ UNCHANGED vars
       PROVE  main' = main /\ delivered' = delivered
  BY <1>10 DEF Exit, Consumer, WriteMessage, RangeEnds, vars
<1>11. \/ SessionError \/ OpenSession \/ Wait \/ Start \/ Report
       \/ \E s \in Stream : SendLine(s)
       \/ main' = main /\ delivered' = delivered
  BY <1>7, <1>9, <1>10 DEF Next, Main, Scanner
<1> QED BY <1>1, <1>2, <1>3, <1>4, <1>5, <1>6, <1>8, <1>11
        DEF LeftOpen, Streaming!Next

(* ExecuteCommand (remote.go) sends "Pipeline Done" once, as its last act, *)
(* if and only if it had a session, whatever its scanners and the client   *)
(* do in the meantime.                                                     *)
THEOREM StreamIsACommand == Spec => StreamImplementsCommand
<1>1. Init => LeftOpen
  BY DEF Init, LeftOpen
<1>2. Init => Streaming!Init
  <2>1. Init => Terminal = {}
    BY EmptySeq DEF Init, Terminal
  <2> QED BY <2>1, FS_EmptySet DEF Init, Streaming!Init
<1>3. TypeOK /\ LeftOpen /\ [Next]_vars => LeftOpen'
  BY StepOfCommand, Fixed DEF LeftOpen
<1>4. TypeOK /\ LeftOpen /\ mode = "ExecuteCommand" /\ [Next]_vars =>
        [Streaming!Next]_(Streaming!commandVars)
  BY StepOfCommand
<1>5. mode = "ExecuteCommand" /\ [Next]_vars => (mode = "ExecuteCommand")'
  BY Fixed
<1> QED BY <1>1, <1>2, <1>3, <1>4, <1>5, StreamTypeCorrect, PTL
        DEF Spec, StreamImplementsCommand, Streaming!Spec

----------------------------------------------------------------------------
(* Cluster jobs, whose kk is such a command: for any jobs, host lists and  *)
(* cluster names.                                                          *)

(* Induction over the numbers, for sets in the place of predicates.        *)
LEMMA Least ==
  ASSUME NEW T \in SUBSET Nat, T # {}
  PROVE  \E n \in T : \A m \in T : n <= m
<1> DEFINE Less == {p \in Nat \X Nat : p[1] < p[2]}
<1>1. IsWellFoundedOn(Less, Nat)
  BY NatLessThanWellFounded, Zenon DEF OpToRel
<1>2. PICK n \in T : \A m \in T : <<m, n>> \notin Less
  <2> HIDE DEF Less
  <2> QED BY <1>1, WFMin
<1>3. \A m \in T : m \in Nat /\ n \in Nat
  OBVIOUS
<1>4. \A m \in T : ~(m < n)
  BY <1>2, <1>3
<1> QED BY <1>3, <1>4

LEMMA Induction ==
  ASSUME NEW T \in SUBSET Nat, 0 \in T, \A n \in T : n + 1 \in T
  PROVE  T = Nat
<1> SUFFICES ASSUME Nat \ T # {} PROVE FALSE
  OBVIOUS
<1>1. PICK n \in Nat \ T : \A m \in Nat \ T : n <= m
  <2> Nat \ T \in SUBSET Nat
    OBVIOUS
  <2> QED BY Least
<1>2. n # 0
  OBVIOUS
<1>3. n - 1 \in T
  BY <1>1, <1>2
<1> QED BY <1>3

(* The text after n hosts, as ParseToTemplate's loop has it.               *)
Writes(list, n, text) ==
  IF /\ list[n].registry /\ list[n].insecure # None
     /\ text # Panics
  THEN AppendRegistries(text, list[n].insecure)
  ELSE text

IsLoop(list, N, f) ==
  f = [n \in 0..N |-> IF n = 0 THEN <<>> ELSE Writes(list, n, f[n - 1])]

LEMMA LoopExists ==
  ASSUME NEW list, NEW N \in Nat PROVE \E f : IsLoop(list, N, f)
<1> DEFINE T == {k \in Nat : \E f : IsLoop(list, k, f)}
<1>1. 0 \in T
  <2> DEFINE f == [n \in 0..0 |-> <<>>]
  <2>1. IsLoop(list, 0, f)
    BY DEF IsLoop
  <2> QED BY <2>1
<1>2. ASSUME NEW k \in T PROVE k + 1 \in T
  <2>1. PICK f : IsLoop(list, k, f)
    OBVIOUS
  <2> DEFINE g == [n \in 0..(k + 1) |-> IF n = k + 1 THEN Writes(list, n, f[k]) ELSE f[n]]
  <2>2. g[k + 1] = Writes(list, k + 1, f[k]) /\ \A n \in 0..k : g[n] = f[n]
    OBVIOUS
  <2>3. \A n \in 0..k : f[n] = IF n = 0 THEN <<>> ELSE Writes(list, n, f[n - 1])
    BY <2>1 DEF IsLoop
  <2>4. DOMAIN g = 0..(k + 1) /\ g = [n \in 0..(k + 1) |-> g[n]]
    OBVIOUS
  <2> HIDE DEF g
  <2>5. ASSUME NEW n \in 0..(k + 1)
        PROVE  g[n] = IF n = 0 THEN <<>> ELSE Writes(list, n, g[n - 1])
    <3>1. CASE n = k + 1
      <4>1. n - 1 = k /\ k \in 0..k /\ n # 0
        BY <3>1
      <4>2. g[n - 1] = f[k]
        BY <2>2, <4>1
      <4> QED BY <2>2, <3>1, <4>1, <4>2
    <3>2. CASE n \in 0..k /\ n # 0
      <4>1. n - 1 \in 0..k
        BY <3>2
      <4>2. g[n] = f[n] /\ g[n - 1] = f[n - 1]
        BY <2>2, <3>2, <4>1
      <4> QED BY <2>3, <3>2, <4>2
    <3>3. CASE n = 0
      BY <2>2, <2>3, <3>3
    <3> QED BY <3>1, <3>2, <3>3
  <2>6. IsLoop(list, k + 1, g)
    BY <2>4, <2>5 DEF IsLoop
  <2> QED BY <2>6
<1>3. T = Nat
  <2> HIDE DEF T
  <2> T \in SUBSET Nat
    BY DEF T
  <2> QED BY <1>1, <1>2, Induction
<1> QED BY <1>3

LEMMA Loop ==
  ASSUME NEW list, Len(list) \in Nat
  PROVE  \E f : IsLoop(list, Len(list), f) /\ InsecureRegistry(list) = f[Len(list)]
<1> DEFINE text == CHOOSE f : IsLoop(list, Len(list), f)
<1>1. InsecureRegistry(list) = text[Len(list)]
  BY DEF InsecureRegistry, IsLoop, Writes
<1>2. \E f : IsLoop(list, Len(list), f)
  BY LoopExists
<1>3. IsLoop(list, Len(list), text)
  BY <1>2
<1> HIDE DEF text
<1> QED BY <1>1, <1>3

(* One host's registries, onto an empty text.                              *)
LEMMA Alternate ==
  ASSUME NEW n \in Nat
  PROVE  /\ (2 * n) % 2 = 0 /\ (2 * n + 1) % 2 = 1 /\ ((2 * n + 1) + 1) \div 2 = n + 1
         /\ n % 2 = 1 => (n + 1) \div 2 \in Nat /\ 2 * ((n + 1) \div 2) = n + 1
         /\ n % 2 = 0 \/ n % 2 = 1
OBVIOUS

LEMMA OneHost ==
  ASSUME NEW L, NEW S, L \in Seq(S), L # <<>>
  PROVE  LET text == AppendRegistries(<<>>, L)
         IN  /\ Len(text) = 2 * Len(L) - 1 /\ DOMAIN text = 1..(2 * Len(L) - 1)
             /\ \A n \in DOMAIN L : text[2 * n - 1] = L[n]
             /\ \A n \in DOMAIN text : n % 2 = 0 => text[n] = ","
<1> DEFINE K == Len(L)
           longer == [n \in 1..2 * K |-> IF n % 2 = 1 THEN L[(n + 1) \div 2] ELSE ","]
           text == SubSeq(longer, 1, 2 * K - 1)
           A == S \cup {","}
<1>1. K \in Nat /\ K > 0 /\ DOMAIN L = 1..K /\ \A n \in 1..K : L[n] \in S
  <2>1. K \in Nat /\ DOMAIN L = 1..K /\ \A n \in 1..K : L[n] \in S
    BY ElementOfSeq, LenProperties
  <2>2. K # 0
    BY EmptySeq
  <2> HIDE DEF K
  <2> QED BY <2>1, <2>2
<1> HIDE DEF K
<1>2. \A n \in 1..2 * K : longer[n] = IF n % 2 = 1 THEN L[(n + 1) \div 2] ELSE ","
  BY <1>1
<1>3. DOMAIN longer = 1..2 * K /\ longer = [n \in 1..2 * K |-> longer[n]]
  OBVIOUS
<1> HIDE DEF longer
<1>4. \A n \in 1..K : longer[2 * n - 1] = L[n]
  <2> SUFFICES ASSUME NEW n \in 1..K PROVE longer[2 * n - 1] = L[n]
    OBVIOUS
  <2>1. 2 * n - 1 \in 1..2 * K /\ n - 1 \in Nat /\ 2 * n - 1 = 2 * (n - 1) + 1
    BY <1>1
  <2>2. (2 * n - 1) % 2 = 1 /\ ((2 * n - 1) + 1) \div 2 = n
    BY <2>1, Alternate
  <2> QED BY <1>2, <2>1, <2>2
<1>5. \A n \in 1..2 * K : n % 2 = 0 => longer[n] = ","
  <2> SUFFICES ASSUME NEW n \in 1..2 * K, n % 2 = 0 PROVE longer[n] = ","
    OBVIOUS
  <2>1. n % 2 # 1
    OBVIOUS
  <2> QED BY <1>2, <2>1
<1>6. \A n \in 1..2 * K : longer[n] \in A
  <2> SUFFICES ASSUME NEW n \in 1..2 * K PROVE longer[n] \in A
    OBVIOUS
  <2>2. CASE n % 2 # 1
    BY <1>2, <2>2
  <2>3. CASE n % 2 = 1
    <3>1. (n + 1) \div 2 \in 1..K
      BY <1>1, <2>3, Alternate
    <3> QED BY <1>1, <1>2, <2>3, <3>1
  <2> QED BY <2>2, <2>3
<1> HIDE DEF A
<1>7. longer \in Seq(A) /\ Len(longer) = 2 * K
  <2>1. longer \in [1..2 * K -> A]
    BY <1>3, <1>6
  <2>2. 2 * K \in Nat
    BY <1>1
  <2> QED BY <2>1, <2>2, SeqDef, LenProperties
<1>8. <<>> \o longer = longer /\ longer # <<>>
  BY <1>1, <1>7, EmptySeq, ConcatEmptySeq
<1>9. Last(longer) = ","
  <2>1. 2 * K \in 1..2 * K /\ (2 * K) % 2 = 0
    BY <1>1, Alternate
  <2> QED BY <1>5, <1>7, <2>1 DEF Last
<1>10. AppendRegistries(<<>>, L) = text
  <2>1. AppendRegistries(<<>>, L) =
          IF <<>> \o longer = <<>> THEN Panics
          ELSE IF Last(<<>> \o longer) = "," THEN Front(<<>> \o longer)
          ELSE Append(Front(<<>> \o longer), "cut")
    BY DEF AppendRegistries, longer, K
  <2> QED BY <1>7, <1>8, <1>9, <2>1 DEF Front
<1>11. /\ Len(text) = 2 * K - 1 /\ DOMAIN text = 1..(2 * K - 1)
       /\ \A n \in 1..(2 * K - 1) : text[n] = longer[n]
  <2> DEFINE m == 2 * K - 1
  <2>1. m \in Int /\ 1 <= m /\ \A n \in 1..m : n \in 1..2 * K
    BY <1>1
  <2> HIDE DEF m
  <2>2. /\ text \in Seq(A) /\ Len(text) = m - 1 + 1
        /\ \A n \in 1..(m - 1 + 1) : text[n] = longer[1 + n - 1]
    <3>1. text = SubSeq(longer, 1, m)
      BY DEF m
    <3>2. \A n \in 1..m : longer[n] \in A
      BY <1>6, <2>1
    <3> HIDE DEF text
    <3> QED BY <2>1, <3>1, <3>2, SubSeqProperties
  <2>3. Len(text) = m /\ \A n \in 1..m : text[n] = longer[n]
    BY <2>1, <2>2
  <2> USE DEF m
  <2> HIDE DEF text
  <2> QED BY <2>2, <2>3, LenProperties
<1> HIDE DEF text
<1>12. \A n \in 1..K : text[2 * n - 1] = L[n]
  <2> SUFFICES ASSUME NEW n \in 1..K PROVE text[2 * n - 1] = L[n]
    OBVIOUS
  <2>1. 2 * n - 1 \in 1..(2 * K - 1)
    BY <1>1
  <2> QED BY <1>4, <1>11, <2>1
<1>13. \A n \in 1..(2 * K - 1) : n % 2 = 0 => text[n] = ","
  <2>1. \A n \in 1..(2 * K - 1) : n \in 1..2 * K
    BY <1>1
  <2> QED BY <1>5, <1>11, <2>1
<1> QED BY <1>1, <1>10, <1>11, <1>12, <1>13 DEF K

(* The loop leaves the text of the only host that lists some registries.   *)
LEMMA AsGiven ==
  ASSUME NEW list \in Hosts
  PROVE  RegistriesAsGiven(InsecureRegistry(list), list)
<1> SUFFICES ASSUME NEW i \in DOMAIN list, Listing(list) = {i},
                    list[i].insecure # <<>>
             PROVE  LET text == InsecureRegistry(list)
                        L    == list[i].insecure
                    IN  /\ Len(text) = 2 * Len(L) - 1
                        /\ \A n \in DOMAIN L : text[2 * n - 1] = L[n]
                        /\ \A n \in DOMAIN text : n % 2 = 0 => text[n] = ","
  BY DEF RegistriesAsGiven
<1> DEFINE L == list[i].insecure
           M == Len(list)
           text == AppendRegistries(<<>>, L)
<1>1. M \in Nat /\ DOMAIN list = 1..M /\ i \in 1..M
  BY JobAssumption
<1>2. /\ list[i].registry /\ list[i].insecure # None /\ L \in Seq(Range(L))
      /\ \A n \in 1..M : list[n].registry /\ list[n].insecure # None => n = i
  BY <1>1, JobAssumption DEF Listing
<1>3. PICK f : IsLoop(list, M, f) /\ InsecureRegistry(list) = f[M]
  BY <1>1, Loop
<1>4. f[0] = <<>> /\ \A n \in 1..M : f[n] = Writes(list, n, f[n - 1])
  BY <1>1, <1>3 DEF IsLoop
<1>5. \A n \in 1..M : n # i => f[n] = f[n - 1]
  BY <1>2, <1>4 DEF Writes
<1>6. f[i - 1] = <<>> => f[i] = text
  <2>1. <<>> # Panics
    BY DEF Panics
  <2> QED BY <1>1, <1>2, <1>4, <2>1 DEF Writes
<1> DEFINE T == {n \in Nat : n <= M => f[n] = IF n < i THEN <<>> ELSE text}
<1> HIDE DEF text, L, M
<1>7. 0 \in T
  BY <1>1, <1>4
<1>8. ASSUME NEW n \in T PROVE n + 1 \in T
  <2> SUFFICES ASSUME n + 1 <= M PROVE f[n + 1] = IF n + 1 < i THEN <<>> ELSE text
    OBVIOUS
  <2>1. f[n] = IF n < i THEN <<>> ELSE text
    BY <1>1
  <2>2. n + 1 \in 1..M /\ (n + 1) - 1 = n
    BY <1>1
  <2>3. CASE n + 1 = i
    <3>1. f[i - 1] = <<>>
      BY <1>1, <2>1, <2>2, <2>3
    <3> QED BY <1>1, <1>6, <2>3, <3>1
  <2>4. CASE n + 1 # i
    <3>1. f[n + 1] = f[n]
      BY <1>5, <2>2, <2>4
    <3> QED BY <1>1, <2>1, <2>4, <3>1
  <2> QED BY <2>3, <2>4
<1>9. T = Nat
  <2> HIDE DEF T
  <2> T \in SUBSET Nat
    BY DEF T
  <2> QED BY <1>7, <1>8, Induction
<1>10. f[M] = text
  BY <1>1, <1>9
<1>11. L # <<>> /\ L \in Seq(Range(L))
  BY <1>2 DEF L
<1>12. /\ Len(text) = 2 * Len(L) - 1
       /\ \A n \in DOMAIN L : text[2 * n - 1] = L[n]
       /\ \A n \in DOMAIN text : n % 2 = 0 => text[n] = ","
  BY <1>11, OneHost DEF text
<1> QED BY <1>3, <1>10, <1>12 DEF L

(* Once a job has its file open it is far enough, and only kk's reading    *)
(* makes it something that ran.                                            *)
JobPlaces ==
  \A j \in Job :
    /\ generated[j] => pc[j] \in {"launch", "running", "returned"}
    /\ ran[j] # "nothing" => pc[j] \in {"running", "returned"}

(* A job that is done with its template has its own registries in it.      *)
Rendered(k) ==
  /\ insecure[k] = InsecureRegistry(hosts[k])
  /\ insecure[k] # Panics

AllRendered ==
  \A j \in Job : pc[j] \in {"mkdir", "truncate", "write"} => Rendered(j)

(* A text in a file, or read from one, was written to it by its own job.   *)
WrittenBy(k, j) ==
  /\ File(k) = File(j) /\ Rendered(k)
  /\ pc[k] \in {"launch", "running", "returned"}

OwnFile ==
  \A f \in Files, k \in Job : content[f] = k =>
    /\ File(k) = f /\ Rendered(k)
    /\ pc[k] \in {"launch", "running", "returned"}

OwnText ==
  \A j \in Job : pc[j] = "launch" /\ generated[j] /\ j \notin disturbed =>
    content[File(j)] = j

ReadOwn ==
  \A j \in Job : ran[j] # "nothing" =>
    /\ ran[j] = j \/ ~generated[j] \/ j \in disturbed
    /\ \A k \in Job : ran[j] = k => WrittenBy(k, j)

JobInv == /\ JobTypeOK /\ DOMAIN insecure = Job /\ JobPlaces /\ AllRendered
          /\ OwnFile /\ OwnText /\ ReadOwn

LEMMA FileOf ==
  ASSUME JobTypeOK, NEW j \in Job PROVE File(j) \in Files
BY DEF JobTypeOK, File, Files

LEMMA JobInitInv ==
  ASSUME JobInit PROVE JobInv
<1> USE DEF JobInit
<1>1. JobTypeOK
  BY DEF JobTypeOK
<1>2. DOMAIN insecure = Job /\ JobPlaces /\ AllRendered /\ OwnText /\ ReadOwn
  BY DEF JobPlaces, AllRendered, OwnText, ReadOwn
<1>3. OwnFile
  BY JobAssumption DEF OwnFile
<1> QED BY <1>1, <1>2, <1>3 DEF JobInv

(* What every step of a job leaves alone.                                  *)
LEMMA JobStep ==
  ASSUME JobTypeOK, DOMAIN insecure = Job, NEW j \in Job, Step(j)
  PROVE  /\ UNCHANGED <<kind, cluster, hosts>> /\ DOMAIN insecure' = Job
         /\ \A k \in Job : File(k)' = File(k)
         /\ \A k \in Job \ {j} : /\ pc'[k] = pc[k] /\ insecure'[k] = insecure[k]
                                /\ generated'[k] = generated[k] /\ ran'[k] = ran[k]
         /\ disturbed \subseteq disturbed'
<1>1. UNCHANGED <<kind, cluster, hosts>>
  BY DEF Step, Dial, DialError, GenerateConfig, ParseToTemplate,
         MkDirALL, Truncate, Write, GenerateError, Launch,
         StartError, LaunchError, Finish, conf
<1>2. \A k \in Job : File(k)' = File(k)
  BY <1>1 DEF File
<1>3. PICK l \in {"render", "mkdir", "truncate", "write", "launch", "running", "returned"} :
        pc' = [pc EXCEPT ![j] = l]
  BY DEF Step, Dial, DialError, GenerateConfig, ParseToTemplate,
         MkDirALL, Truncate, Write, GenerateError, Launch,
         StartError, LaunchError, Finish, Goto
<1>4. /\ insecure' = insecure \/ \E x : insecure' = [insecure EXCEPT ![j] = x]
      /\ generated' = generated \/ generated' = [generated EXCEPT ![j] = TRUE]
      /\ ran' = ran \/ \E x : ran' = [ran EXCEPT ![j] = x]
  BY DEF Step, Dial, DialError, GenerateConfig, ParseToTemplate,
         MkDirALL, Truncate, Write, GenerateError, Launch,
         StartError, LaunchError, Finish
<1>5. disturbed \subseteq disturbed'
  BY DEF Step, Dial, DialError, GenerateConfig, ParseToTemplate,
         MkDirALL, Truncate, Write, GenerateError, Launch,
         StartError, LaunchError, Finish
<1>6. \A k \in Job \ {j} : pc'[k] = pc[k]
  BY <1>3 DEF JobTypeOK
<1>7. \A k \in Job \ {j} : /\ insecure'[k] = insecure[k]
                           /\ generated'[k] = generated[k] /\ ran'[k] = ran[k]
  <2>1. DOMAIN generated = Job /\ DOMAIN ran = Job
    BY DEF JobTypeOK
  <2> QED BY <1>4, <2>1
<1>8. DOMAIN insecure' = Job
  BY <1>4
<1> QED BY <1>1, <1>2, <1>5, <1>6, <1>7, <1>8

JobPlace == {"dial", "render", "mkdir", "truncate", "write", "launch", "running", "returned"}

LEMMA JobTypeStep ==
  ASSUME JobInv, NEW j \in Job, Step(j)
  PROVE  JobTypeOK'
<1> USE DEF JobInv
<1>1. /\ UNCHANGED <<kind, cluster, hosts>>
      /\ \A k \in Job \ {j} : pc'[k] = pc[k] /\ ran'[k] = ran[k]
  BY JobStep
<1>2. /\ kind \in [Job -> JobKind] /\ cluster \in [Job -> Cluster] /\ hosts \in [Job -> Hosts]
      /\ pc \in [Job -> JobPlace]
      /\ content \in [Files -> Job \cup {None, "empty", "mixed"}]
      /\ generated \in [Job -> BOOLEAN]
      /\ ran \in [Job -> Job \cup {"nothing", None, "empty", "mixed"}]
      /\ disturbed \subseteq Job /\ told \subseteq Job
      /\ \A k \in told : pc[k] = "returned"
  BY DEF JobTypeOK, JobPlace
<1>3. File(j) \in Files
  BY FileOf
<1>4. pc' \in [Job -> JobPlace]
  <2>1. PICK l \in JobPlace : pc' = [pc EXCEPT ![j] = l]
    BY DEF Step, Dial, DialError, GenerateConfig, ParseToTemplate,
           MkDirALL, Truncate, Write, GenerateError, Launch,
           StartError, LaunchError, Finish, Goto, JobPlace
  <2> QED BY <1>2, <2>1
<1>5. /\ content' \in [Files -> Job \cup {None, "empty", "mixed"}]
      /\ generated' \in [Job -> BOOLEAN]
      /\ disturbed' \subseteq Job
  <2>1. CASE Truncate(j)
    <3>1. /\ content' = [content EXCEPT ![File(j)] = "empty"]
          /\ disturbed' = disturbed \cup Sharing(j) /\ generated' = generated
      BY <2>1 DEF Truncate
    <3> QED BY <1>2, <3>1 DEF Sharing
  <2>2. CASE Write(j)
    <3>1. PICK c \in Job \cup {"mixed"} : content' = [content EXCEPT ![File(j)] = c]
      BY <2>2 DEF Write
    <3>2. /\ generated' = [generated EXCEPT ![j] = TRUE]
          /\ disturbed' \subseteq disturbed \cup Sharing(j) \cup {j}
      BY <2>2 DEF Write
    <3>3. Sharing(j) \subseteq Job
      BY DEF Sharing
    <3> QED BY <1>2, <3>1, <3>2, <3>3
  <2>3. CASE ~Truncate(j) /\ ~Write(j)
    <3>1. UNCHANGED <<content, generated, disturbed>>
      BY <2>3
      DEF Step, Dial, DialError, GenerateConfig, ParseToTemplate,
          MkDirALL, GenerateError, Launch, StartError, LaunchError, Finish
    <3> QED BY <1>2, <3>1
  <2> QED BY <2>1, <2>2, <2>3
<1>6. ran' \in [Job -> Job \cup {"nothing", None, "empty", "mixed"}]
  <2>1. CASE Launch(j)
    <3>1. ran' = [ran EXCEPT ![j] = content[File(j)]]
      BY <2>1 DEF Launch
    <3> QED BY <1>2, <1>3, <3>1
  <2>2. CASE ~Launch(j)
    <3>1. ran' = ran
      BY <2>2
      DEF Step, Dial, DialError, GenerateConfig, ParseToTemplate,
          MkDirALL, Truncate, Write, GenerateError, StartError, LaunchError,
          Finish
    <3> QED BY <1>2, <3>1
  <2> QED BY <2>1, <2>2
<1>7. told' \subseteq {k \in Job : pc'[k] = "returned"}
  <2>1. CASE Finish(j)
    <3>1. pc' = [pc EXCEPT ![j] = "returned"] /\ told' = told \cup {j}
      BY <2>1 DEF Finish, Goto
    <3>2. pc'[j] = "returned"
      BY <1>2, <3>1
    <3> QED BY <1>1, <1>2, <3>1, <3>2
  <2>2. CASE ~Finish(j)
    <3>1. told' = told /\ pc[j] # "returned"
      BY <2>2
      DEF Step, Dial, DialError, GenerateConfig, ParseToTemplate,
          MkDirALL, Truncate, Write, GenerateError, Launch,
          StartError, LaunchError
    <3> QED BY <1>1, <1>2, <3>1
  <2> QED BY <2>1, <2>2
<1> QED BY <1>1, <1>2, <1>4, <1>5, <1>6, <1>7 DEF JobTypeOK, JobPlace, Files

(* Where a step of a job takes it, and its template with it.               *)
LEMMA JobMoves ==
  ASSUME JobInv, NEW j \in Job, Step(j)
  PROVE  /\ JobPlaces' /\ AllRendered'
         /\ \A k \in Job : pc[k] \in {"launch", "running", "returned"} =>
              /\ pc'[k] \in {"launch", "running", "returned"}
              /\ Rendered(k) => Rendered(k)'
<1> USE DEF JobInv
<1>1. /\ UNCHANGED <<kind, cluster, hosts>>
      /\ \A k \in Job \ {j} : /\ pc'[k] = pc[k] /\ insecure'[k] = insecure[k]
                             /\ generated'[k] = generated[k] /\ ran'[k] = ran[k]
  BY JobStep
<1>2. /\ DOMAIN pc = Job /\ DOMAIN insecure = Job /\ DOMAIN ran = Job /\ DOMAIN generated = Job
      /\ pc \in [Job -> JobPlace]
  BY DEF JobTypeOK, JobPlace
<1>3. CASE ParseToTemplate(j)
  <2>1. /\ pc[j] = "render" /\ generated' = generated /\ ran' = ran
        /\ insecure'[j] = InsecureRegistry(hosts[j])
        /\ pc'[j] = IF insecure'[j] = Panics THEN "returned" ELSE "mkdir"
    BY <1>2, <1>3 DEF ParseToTemplate, Goto
  <2>2. JobPlaces'
    BY <1>1, <2>1 DEF JobPlaces
  <2>3. AllRendered'
    <3>1. pc'[j] = "mkdir" => Rendered(j)'
      BY <1>1, <2>1 DEF Rendered
    <3>2. \A k \in Job \ {j} : Rendered(k) => Rendered(k)'
      BY <1>1 DEF Rendered
    <3> QED BY <1>1, <2>1, <3>1, <3>2 DEF AllRendered
  <2> QED BY <1>1, <2>1, <2>2, <2>3 DEF Rendered
<1>4. CASE ~ParseToTemplate(j)
  <2>1. insecure' = insecure
    BY <1>4
    DEF Step, Dial, DialError, GenerateConfig, MkDirALL,
        Truncate, Write, GenerateError, Launch, StartError, LaunchError,
        Finish
  <2>2. \A k \in Job : Rendered(k)' <=> Rendered(k)
    BY <1>1, <2>1 DEF Rendered
  <2>3. /\ pc'[j] \in {"render", "truncate", "write", "launch", "running", "returned"}
        /\ pc'[j] \in {"truncate", "write"} => pc[j] \in {"mkdir", "truncate"}
        /\ pc[j] \in {"launch", "running", "returned"} => pc'[j] \in {"running", "returned"}
    BY <1>2, <1>4
    DEF Step, Dial, DialError, GenerateConfig, MkDirALL,
        Truncate, Write, GenerateError, Launch, StartError, LaunchError,
        Finish, Goto
  <2>4. AllRendered'
    BY <1>1, <2>2, <2>3 DEF AllRendered
  <2>5. JobPlaces'
    <3>1. CASE Launch(j)
      <4>1. /\ pc'[j] = "running" /\ generated' = generated
            /\ ran'[j] = content[File(j)]
        BY <1>2, <3>1 DEF Launch, Goto
      <4> QED BY <1>1, <4>1 DEF JobPlaces
    <3>2. CASE Write(j)
      <4>1. pc[j] = "write" /\ pc'[j] = "launch" /\ ran' = ran
        BY <1>2, <3>2 DEF Write, Goto
      <4> QED BY <1>1, <4>1 DEF JobPlaces
    <3>3. CASE ~Launch(j) /\ ~Write(j)
      <4>1. generated' = generated /\ ran' = ran
        BY <1>2, <1>4, <3>3
        DEF Step, Dial, DialError, GenerateConfig, MkDirALL,
            Truncate, GenerateError, StartError, LaunchError, Finish, Goto
      <4>2. ran[j] # "nothing" => pc'[j] \in {"running", "returned"}
        BY <2>3 DEF JobPlaces
      <4>3. generated[j] => pc'[j] \in {"launch", "running", "returned"}
        BY <2>3 DEF JobPlaces
      <4> QED BY <1>1, <4>1, <4>2, <4>3 DEF JobPlaces
    <3> QED BY <3>1, <3>2, <3>3
  <2> QED BY <1>1, <2>2, <2>3, <2>4, <2>5
<1> QED BY <1>3, <1>4

(* The files: of two jobs that have one open, the later one disturbs the   *)
(* earlier.                                                                *)
LEMMA FileStep ==
  ASSUME JobInv, NEW j \in Job, Step(j)
  PROVE  OwnFile' /\ OwnText' /\ ReadOwn'
<1> USE DEF JobInv
<1>1. /\ UNCHANGED <<kind, cluster, hosts>>
      /\ \A k \in Job : File(k)' = File(k)
      /\ \A k \in Job \ {j} : /\ pc'[k] = pc[k] /\ generated'[k] = generated[k]
                             /\ ran'[k] = ran[k]
      /\ disturbed \subseteq disturbed'
      /\ Files' = Files
  BY JobStep DEF Files
<1>2. /\ DOMAIN pc = Job /\ DOMAIN content = Files /\ DOMAIN generated = Job
      /\ DOMAIN ran = Job
      /\ \A k \in Job : File(k) \in Files
  BY FileOf DEF JobTypeOK
<1>3. \A k \in Job : pc[k] \in {"launch", "running", "returned"} =>
        /\ pc'[k] \in {"launch", "running", "returned"}
        /\ Rendered(k) => Rendered(k)'
  BY JobMoves
<1>4. \A k, q \in Job : WrittenBy(k, q) => WrittenBy(k, q)'
  BY <1>1, <1>3 DEF WrittenBy
<1>5. CASE Write(j)
  <2>1. /\ pc[j] = "write" /\ pc'[j] = "launch" /\ ran' = ran
        /\ generated'[j] = TRUE /\ insecure' = insecure
        /\ disturbed' = disturbed \cup Sharing(j)
                     \cup (IF content[File(j)] = "empty" THEN {} ELSE {j})
    BY <1>2, <1>5 DEF Write, Goto
  <2>2. PICK c \in {j, "mixed"} : content' = [content EXCEPT ![File(j)] = c]
    BY <1>5 DEF Write
  <2>3. c = j \/ content[File(j)] # "empty"
    <3>1. CASE content' = [content EXCEPT ![File(j)] = j]
      <4>1. content'[File(j)] = j /\ content'[File(j)] = c
        BY <1>2, <2>2, <3>1
      <4> QED BY <4>1
    <3>2. CASE content[File(j)] \in Job \cup {"mixed"}
      BY <3>2, JobAssumption
    <3> QED BY <1>5, <3>1, <3>2 DEF Write
  <2>4. /\ content'[File(j)] = c
        /\ \A f \in Files \ {File(j)} : content'[f] = content[f]
    BY <1>2, <2>2
  <2>5. Rendered(j)'
    BY <1>1, <2>1 DEF AllRendered, Rendered
  <2>6. OwnFile'
    <3> SUFFICES ASSUME NEW f \in Files, NEW k \in Job, content'[f] = k
                 PROVE  /\ File(k) = f /\ Rendered(k)'
                        /\ pc'[k] \in {"launch", "running", "returned"}
      BY <1>1 DEF OwnFile
    <3>1. CASE f = File(j)
      <4>1. k = j
        BY <2>4, <3>1, JobAssumption
      <4> QED BY <1>1, <2>1, <2>5, <3>1, <4>1
    <3>2. CASE f # File(j)
      BY <1>1, <1>3, <2>4, <3>2 DEF OwnFile
    <3> QED BY <3>1, <3>2
  <2>7. OwnText'
    <3> SUFFICES ASSUME NEW k \in Job, pc'[k] = "launch", generated'[k], k \notin disturbed'
                 PROVE  content'[File(k)] = k
      BY <1>1 DEF OwnText
    <3>1. CASE k = j
      BY <2>1, <2>3, <2>4, <3>1
    <3>2. CASE k # j
      <4>1. pc[k] = "launch" /\ generated[k] /\ k \notin disturbed
        BY <1>1, <3>2
      <4>2. File(k) # File(j)
        BY <2>1, <3>2, <4>1 DEF Sharing
      <4> QED BY <1>2, <2>4, <4>1, <4>2 DEF OwnText
    <3> QED BY <3>1, <3>2
  <2>8. ReadOwn'
    <3> SUFFICES ASSUME NEW k \in Job, ran'[k] # "nothing"
                 PROVE  /\ ran'[k] = k \/ ~generated'[k] \/ k \in disturbed'
                        /\ \A q \in Job : ran'[k] = q => WrittenBy(q, k)'
      BY DEF ReadOwn
    <3>1. k # j
      BY <2>1 DEF JobPlaces
    <3> QED BY <1>1, <1>4, <2>1, <3>1 DEF ReadOwn
  <2> QED BY <2>6, <2>7, <2>8
<1>6. CASE Truncate(j)
  <2>1. /\ content' = [content EXCEPT ![File(j)] = "empty"]
        /\ disturbed' = disturbed \cup Sharing(j)
        /\ generated' = generated /\ ran' = ran /\ insecure' = insecure
        /\ pc[j] = "truncate" /\ pc'[j] = "write"
    BY <1>2, <1>6 DEF Truncate, Goto
  <2>2. /\ content'[File(j)] = "empty" /\ "empty" \notin Job
        /\ \A f \in Files \ {File(j)} : content'[f] = content[f]
    BY <1>2, <2>1, JobAssumption
  <2>3. OwnFile'
    <3> SUFFICES ASSUME NEW f \in Files, NEW k \in Job, content'[f] = k
                 PROVE  /\ File(k) = f /\ Rendered(k)'
                        /\ pc'[k] \in {"launch", "running", "returned"}
      BY <1>1 DEF OwnFile
    <3>1. f # File(j) /\ content'[f] = content[f]
      BY <2>2
    <3> QED BY <1>1, <1>3, <3>1 DEF OwnFile
  <2>4. OwnText'
    <3> SUFFICES ASSUME NEW k \in Job, pc'[k] = "launch", generated'[k], k \notin disturbed'
                 PROVE  content'[File(k)] = k
      BY <1>1 DEF OwnText
    <3>1. k # j /\ pc[k] = "launch" /\ generated[k] /\ k \notin disturbed
      BY <1>1, <2>1
    <3>2. File(k) # File(j)
      BY <2>1, <3>1 DEF Sharing
    <3> QED BY <1>2, <2>2, <3>1, <3>2 DEF OwnText
  <2>5. ReadOwn'
    BY <1>4, <2>1 DEF ReadOwn
  <2> QED BY <2>3, <2>4, <2>5
<1>7. CASE Launch(j)
  <2>1. /\ pc[j] = "launch" /\ pc'[j] = "running" /\ ran'[j] = content[File(j)]
        /\ UNCHANGED <<content, generated, disturbed, insecure>>
    BY <1>2, <1>7 DEF Launch, Goto
  <2>2. OwnFile'
    BY <1>1, <1>3, <2>1 DEF OwnFile
  <2>3. OwnText'
    BY <1>1, <2>1 DEF OwnText
  <2>4. ReadOwn'
    <3> SUFFICES ASSUME NEW k \in Job, ran'[k] # "nothing"
                 PROVE  /\ ran'[k] = k \/ ~generated'[k] \/ k \in disturbed'
                        /\ \A q \in Job : ran'[k] = q => WrittenBy(q, k)'
      BY DEF ReadOwn
    <3>1. CASE k = j
      <4>1. ran'[j] = j \/ ~generated[j] \/ j \in disturbed
        BY <2>1 DEF OwnText
      <4>2. \A q \in Job : ran'[j] = q => WrittenBy(q, j)
        BY <1>2, <2>1 DEF OwnFile, WrittenBy
      <4> QED BY <1>1, <1>4, <2>1, <3>1, <4>1, <4>2
    <3>2. CASE k # j
      BY <1>1, <1>4, <2>1, <3>2 DEF ReadOwn
    <3> QED BY <3>1, <3>2
  <2> QED BY <2>2, <2>3, <2>4
<1>8. CASE ~Write(j) /\ ~Truncate(j) /\ ~Launch(j)
  <2>1. /\ UNCHANGED <<content, generated, ran, disturbed>>
        /\ pc'[j] = "launch" => pc[j] \in {"mkdir", "truncate", "write"}
    BY <1>2, <1>8
    DEF Step, Dial, DialError, GenerateConfig, ParseToTemplate,
        MkDirALL, GenerateError, StartError, LaunchError, Finish, Goto
  <2>2. OwnFile'
    BY <1>1, <1>3, <2>1 DEF OwnFile
  <2>3. OwnText'
    <3>1. pc'[j] = "launch" => ~generated[j]
      BY <2>1 DEF JobPlaces
    <3> QED BY <1>1, <2>1, <3>1 DEF OwnText
  <2>4. ReadOwn'
    BY <1>4, <2>1 DEF ReadOwn
  <2> QED BY <2>2, <2>3, <2>4
<1> QED BY <1>5, <1>6, <1>7, <1>8

LEMMA JobHolds == JobSpec => []JobInv
<1>1. JobInit => JobInv
  BY JobInitInv
<1>2. JobInv /\ [JobNext]_jobVars => JobInv'
  <2> SUFFICES ASSUME JobInv, [JobNext]_jobVars PROVE JobInv'
    OBVIOUS
  <2>1. CASE \E j \in Job : Step(j)
    <3> PICK j \in Job : Step(j)
      BY <2>1
    <3>1. JobTypeOK'
      BY JobTypeStep
    <3>2. DOMAIN insecure' = Job
      BY JobStep DEF JobInv
    <3>3. JobPlaces' /\ AllRendered'
      BY JobMoves
    <3>4. OwnFile' /\ OwnText' /\ ReadOwn'
      BY FileStep
    <3> QED BY <3>1, <3>2, <3>3, <3>4 DEF JobInv
  <2>2. CASE UNCHANGED jobVars
    <3>1. UNCHANGED <<kind, cluster, hosts, pc, content, insecure, generated, ran, node,
                      disturbed, told>>
      BY <2>2 DEF jobVars, conf
    <3>2. \A j \in Job : File(j)' = File(j)
      BY <3>1 DEF File
    <3>3. JobTypeOK'
      BY <3>1 DEF JobInv, JobTypeOK, Files
    <3>4. JobPlaces' /\ AllRendered'
      BY <3>1 DEF JobInv, JobPlaces, AllRendered, Rendered
    <3>5. OwnFile' /\ OwnText' /\ ReadOwn'
      BY <3>1, <3>2
      DEF JobInv, OwnFile, OwnText, ReadOwn, Rendered, WrittenBy, Files
    <3> QED BY <3>1, <3>3, <3>4, <3>5 DEF JobInv
  <2> QED BY <2>1, <2>2 DEF JobNext, Stopped
<1> QED BY <1>1, <1>2, PTL DEF JobSpec

(* The variables of the cluster jobs always have their types, and a client *)
(* that got a terminal message is one whose kk has run.                    *)
THEOREM JobTypeCorrect == JobSpec => []JobTypeOK
<1>1. JobInv => JobTypeOK
  BY DEF JobInv
<1> QED BY <1>1, JobHolds, PTL

(* For any jobs and any host lists: kk runs on the configuration of its    *)
(* own request, with its own registries, unless that was not written or    *)
(* another job of the same file came in between; and never on that of      *)
(* another cluster or host.                                                *)
THEOREM OwnConfiguration == JobSpec => []RunsOwnConfiguration
<1>1. JobInv => RunsOwnConfiguration
  <2> SUFFICES ASSUME JobInv, NEW j \in Job, ran[j] # "nothing"
               PROVE  /\ ran[j] = j \/ ~generated[j] \/ j \in disturbed
                      /\ ran[j] \in Job =>
                           /\ File(ran[j]) = File(j)
                           /\ RegistriesAsGiven(insecure[ran[j]], hosts[ran[j]])
    BY DEF RunsOwnConfiguration
  <2>1. ran[j] = j \/ ~generated[j] \/ j \in disturbed
    BY DEF JobInv, ReadOwn
  <2>2. ASSUME NEW k \in Job, ran[j] = k
        PROVE  /\ File(k) = File(j)
               /\ RegistriesAsGiven(insecure[k], hosts[k])
    <3>1. WrittenBy(k, j)
      BY <2>2 DEF JobInv, ReadOwn
    <3>2. hosts[k] \in Hosts
      BY DEF JobInv, JobTypeOK
    <3>3. RegistriesAsGiven(InsecureRegistry(hosts[k]), hosts[k])
      BY <3>2, AsGiven
    <3> QED BY <3>1, <3>3 DEF WrittenBy, Rendered
  <2> QED BY <2>1, <2>2
<1> QED BY <1>1, JobHolds, PTL

----------------------------------------------------------------------------
(* A step of a job is a step of its own command, or none is seen.          *)
LEMMA StepOfJob ==
  ASSUME JobInv, NEW j \in Job, NEW k \in Job, Step(j)
  PROVE  [Streamed(k)!Next]_(Streamed(k)!commandVars)
<1>1. pc \in [Job -> JobPlace] /\ told \subseteq {q \in Job : pc[q] = "returned"}
  BY DEF JobInv, JobTypeOK, JobPlace
<1>2. CASE j # k
  <2>1. pc'[k] = pc[k]
    BY <1>2, JobStep DEF JobInv
  <2>2. k \in told' <=> k \in told
    BY <1>2
    DEF Step, Dial, DialError, GenerateConfig, ParseToTemplate, MkDirALL, Truncate,
        Write, GenerateError, Launch, StartError, LaunchError, Finish
  <2> QED BY <2>1, <2>2 DEF Streamed!commandVars
<1>3. CASE j = k
  <2>1. CASE Finish(j)
    <3>1. /\ pc[j] = "running" /\ pc'[j] = "returned" /\ told' = told \cup {j}
          /\ j \notin told
      BY <1>1, <2>1 DEF Finish, Goto
    <3> QED BY <1>3, <3>1 DEF Streamed!Next, Streamed!Over
  <2>2. CASE ~Finish(j)
    <3>1. /\ told' = told /\ pc[j] \notin {"running", "returned"}
          /\ pc'[j] \in JobPlace
      BY <1>1, <2>2
      DEF Step, Dial, DialError, GenerateConfig, ParseToTemplate, MkDirALL, Truncate,
          Write, GenerateError, Launch, StartError, LaunchError, Goto, JobPlace
    <3> QED BY <1>3, <3>1
        DEF Streamed!Next, Streamed!NoSession, Streamed!Begin, Streamed!commandVars
  <2> QED BY <2>1, <2>2
<1> QED BY <1>2, <1>3

(* A cluster job (kubekey.go) treats its client as ExecuteCommand does,    *)
(* however far it comes before: one terminal message, after kk or after a  *)
(* refused start, and not a word if it does not come to kk's session.      *)
THEOREM JobIsACommand == JobSpec => JobsImplementCommand
<1>1. ASSUME NEW j \in Job PROVE JobSpec => Streamed(j)!Spec
  <2>1. JobInit => Streamed(j)!Init
    BY DEF JobInit, Streamed!Init
  <2>2. JobInv /\ [JobNext]_jobVars => [Streamed(j)!Next]_(Streamed(j)!commandVars)
    <3>1. (Stopped \/ UNCHANGED jobVars) => UNCHANGED Streamed(j)!commandVars
      BY DEF Stopped, jobVars, Streamed!commandVars
    <3> QED BY <3>1, StepOfJob DEF JobNext
  <2> QED BY <2>1, <2>2, JobHolds, PTL DEF JobSpec, Streamed!Spec
<1> QED BY <1>1 DEF JobsImplementCommand
=============================================================================
