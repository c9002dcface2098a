----------------------------- MODULE ServerProofs -----------------------------
(***************************************************************************)
(* Proofs about the server and the requests in its handler chain, for any  *)
(* set of requests, any routes they go to and any number of signals        *)
(* (ChainAssumption and ServerAssumption alone).                           *)
(***************************************************************************)
EXTENDS Server, SequenceTheorems, TLAPS

(* The stack of a request is always the engine and some of the chain's     *)
(* handlers, in the chain's order.                                         *)
Frames(r) == <<"engine">> \o Chain(r)
Depth(r)  == Len(stack[r])
Nested(r) == /\ Depth(r) \in 1..Len(Frames(r))
             /\ stack[r] = SubSeq(Frames(r), 1, Depth(r))

(* A request on its way: up the chain to its handler, in the handler,      *)
(* unwinding from a panic, caught by Recovery, returning through the       *)
(* middlewares, or aborted by Recovery.                                    *)
Untold(r) == route[r] = "http" => response[r] = "none"
Upgraded(r) == route[r] = "ws" => response[r] \in {"switched", "refused"}

Climbing(r) ==
  /\ Depth(r) < Len(Frames(r)) /\ index[r] = Depth(r) - 1
  /\ panic[r] = "none" /\ panicked[r] = "none" /\ captured[r] = "none"
  /\ response[r] = "none" /\ logged[r] = {} /\ ~answered[r]

AtHandler(r) ==
  /\ Depth(r) = Len(Frames(r)) /\ index[r] = Len(Chain(r))
  /\ panic[r] = panicked[r] /\ captured[r] = "none"
  /\ Untold(r) /\ (panic[r] # "none" => Upgraded(r))
  /\ route[r] = "ws" => response[r] \in {"none", "switched", "refused"}
  /\ logged[r] = {} /\ ~answered[r]

Unwinding(r) ==
  /\ Depth(r) > 1 /\ Depth(r) < Len(Frames(r)) /\ index[r] = Len(Chain(r))
  /\ route[r] = "ws" => Depth(r) = Len(Frames(r)) - 1
  /\ panic[r] = panicked[r] /\ panic[r] # "none" /\ captured[r] = "none"
  /\ Untold(r) /\ Upgraded(r)
  /\ logged[r] = {} /\ ~answered[r]

Caught(r) ==
  /\ route[r] = "http" /\ Depth(r) = 2 /\ index[r] = Len(Chain(r))
  /\ panic[r] = "none" /\ captured[r] = panicked[r] /\ captured[r] # "none"
  /\ Untold(r) /\ logged[r] = {} /\ ~answered[r]

Returning(r) ==
  /\ Depth(r) < Len(Frames(r)) /\ index[r] = Len(Chain(r))
  /\ panic[r] = "none" /\ captured[r] = "none"
  /\ route[r] = "http" => panicked[r] = "none" /\ response[r] = "data"
  /\ Upgraded(r)
  /\ logged[r] = {Frames(r)[i] : i \in (Depth(r) + 1)..Len(Frames(r))} \cap Loggers
  /\ answered[r] => Depth(r) = 1

AbortedByRecovery(r) ==
  /\ route[r] = "http" /\ Depth(r) = 1 /\ index[r] = Aborted
  /\ panic[r] = "none" /\ captured[r] = "none" /\ panicked[r] # "none"
  /\ response[r] = IF panicked[r] = "page" THEN "page"
                   ELSE IF answered[r] THEN "empty" ELSE "none"
  /\ logged[r] = {}

OnItsWay(r) == \/ Climbing(r) \/ AtHandler(r) \/ Unwinding(r) \/ Caught(r)
               \/ Returning(r) \/ AbortedByRecovery(r)

ChainInv == /\ TypeOK /\ DOMAIN stack = Request
            /\ \A r \in Request : Nested(r) /\ OnItsWay(r)

(* No connection is accepted once the shutdown has begun: a listener that  *)
(* is not listening yet will not.  So those that are busy become fewer.    *)
Busy(r) == ~answered[r] /\ response[r] # "switched"

DrainInv ==
  /\ accepted \subseteq Request
  /\ shuttingDown => listener # "listening"
  /\ main \in {"cleaned", "exited"} /\ ~timedOut => \A r \in accepted : ~Busy(r)

----------------------------------------------------------------------------
Frame == {"engine", "Recovery", "Logrus", "LogRequest", "LoggerMiddleware", "Cors",
          "handler"}

(* Where the handlers stand in the chain that Router builds.               *)
LEMMA FramesShape ==
  ASSUME NEW r \in Request, accessLog \in BOOLEAN, route[r] \in {"http", "ws"}
  PROVE  LET F == Frames(r)
             L == Len(F)
         IN
         /\ F \in Seq(Frame) /\ L \in 5..7 /\ Len(Chain(r)) = L - 1
         /\ \A i \in 1..(L - 1) : Chain(r)[i] = F[i + 1]
         /\ \A i \in 1..L : /\ F[i] = "engine" <=> i = 1
                            /\ F[i] = "Recovery" <=> i = 2
                            /\ F[i] = "handler" <=> i = L
                            /\ F[i] = "Cors" <=> route[r] = "ws" /\ i = L - 1
         /\ \E i \in 3..L : F[i] = "LogRequest"
         /\ \E i \in 3..L : F[i] = "LoggerMiddleware"
<1>. DEFINE F == Frames(r)
            L == Len(F)
            logrus == IF accessLog THEN <<"Logrus">> ELSE <<>>
            loggers == <<"LogRequest", "LoggerMiddleware">>
            cors == IF route[r] = "ws" THEN <<"Cors">> ELSE <<>>
            a == IF accessLog THEN 1 ELSE 0
            c == IF route[r] = "ws" THEN 1 ELSE 0
<1>1. logrus \in Seq(Frame) /\ Len(logrus) = a /\ (a = 1 => logrus[1] = "Logrus")
  <2>1. CASE accessLog
    BY <2>1 DEF Frame
  <2>2. CASE ~accessLog
    BY <2>2, EmptySeq
  <2>. QED BY <2>1, <2>2
<1>2. cors \in Seq(Frame) /\ Len(cors) = c /\ (c = 1 => cors[1] = "Cors")
  <2>1. CASE route[r] = "ws"
    BY <2>1 DEF Frame
  <2>2. CASE route[r] # "ws"
    BY <2>2, EmptySeq
  <2>. QED BY <2>1, <2>2
<1>3. loggers \in Seq(Frame) /\ Len(loggers) = 2
      /\ loggers[1] = "LogRequest" /\ loggers[2] = "LoggerMiddleware"
  BY DEF Frame
<1>4. \A f \in Frame : <<f>> \in Seq(Frame) /\ Len(<<f>>) = 1 /\ <<f>>[1] = f
  OBVIOUS
<1>5. {"engine", "Recovery", "handler"} \subseteq Frame
  BY DEF Frame
<1>6. a \in 0..1 /\ c \in 0..1 /\ (route[r] = "ws" <=> c = 1)
  OBVIOUS
<1>. HIDE DEF logrus, loggers, cors, a, c
<1>. DEFINE s1 == <<"Recovery">> \o logrus
            s2 == s1 \o loggers
            s3 == s2 \o cors
            s4 == s3 \o <<"handler">>
            s5 == <<"engine">> \o s4
<1>7. /\ s1 \in Seq(Frame) /\ Len(s1) = 1 + a
      /\ s1[1] = "Recovery" /\ (a = 1 => s1[2] = "Logrus")
  BY <1>1, <1>4, <1>5, <1>6, ConcatProperties
<1>. HIDE DEF s1
<1>8. /\ s2 \in Seq(Frame) /\ Len(s2) = 3 + a
      /\ s2[1] = "Recovery" /\ (a = 1 => s2[2] = "Logrus")
      /\ s2[2 + a] = "LogRequest" /\ s2[3 + a] = "LoggerMiddleware"
  BY <1>3, <1>6, <1>7, ConcatProperties
<1>. HIDE DEF s2
<1>9. /\ s3 \in Seq(Frame) /\ Len(s3) = 3 + a + c
      /\ s3[1] = "Recovery" /\ (a = 1 => s3[2] = "Logrus")
      /\ s3[2 + a] = "LogRequest" /\ s3[3 + a] = "LoggerMiddleware"
      /\ c = 1 => s3[4 + a] = "Cors"
  BY <1>2, <1>6, <1>8, ConcatProperties
<1>. HIDE DEF s3
<1>10. /\ s4 \in Seq(Frame) /\ Len(s4) = 4 + a + c
       /\ s4[1] = "Recovery" /\ (a = 1 => s4[2] = "Logrus")
       /\ s4[2 + a] = "LogRequest" /\ s4[3 + a] = "LoggerMiddleware"
       /\ c = 1 => s4[4 + a] = "Cors"
       /\ s4[4 + a + c] = "handler"
  BY <1>4, <1>5, <1>6, <1>9, ConcatProperties
<1>. HIDE DEF s4
<1>11. /\ s5 \in Seq(Frame) /\ Len(s5) = 5 + a + c /\ s5[1] = "engine"
       /\ \A i \in 1..(4 + a + c) : s5[i + 1] = s4[i]
  BY <1>4, <1>5, <1>6, <1>10, ConcatProperties
<1>12. Chain(r) = s4 /\ F = s5 /\ L = 5 + a + c
  BY <1>11 DEF Chain, Frames, logrus, loggers, cors, s1, s2, s3, s4
<1>. HIDE DEF s5, F, L
<1>13. /\ F[1] = "engine" /\ F[2] = "Recovery" /\ (a = 1 => F[3] = "Logrus")
       /\ F[3 + a] = "LogRequest" /\ F[4 + a] = "LoggerMiddleware"
       /\ c = 1 => F[5 + a] = "Cors"
       /\ F[5 + a + c] = "handler"
  BY <1>6, <1>10, <1>11, <1>12
<1>14. \A i \in 1..L : /\ F[i] = "engine" <=> i = 1
                       /\ F[i] = "Recovery" <=> i = 2
                       /\ F[i] = "handler" <=> i = L
                       /\ F[i] = "Cors" <=> route[r] = "ws" /\ i = L - 1
  <2>1. CASE a = 0 /\ c = 0
    <3>1. /\ L = 5 /\ route[r] = "http"
          /\ F[1] = "engine" /\ F[2] = "Recovery" /\ F[3] = "LogRequest"
          /\ F[4] = "LoggerMiddleware" /\ F[5] = "handler"
      BY <1>6, <1>12, <1>13, <2>1
    <3>2. 1..L = 1..5 /\ \A i \in 1..5 : i \in {1, 2, 3, 4, 5}
      BY <3>1
    <3>. QED BY <3>1, <3>2
  <2>2. CASE a = 0 /\ c = 1
    <3>1. /\ L = 6 /\ route[r] = "ws"
          /\ F[1] = "engine" /\ F[2] = "Recovery" /\ F[3] = "LogRequest"
          /\ F[4] = "LoggerMiddleware" /\ F[5] = "Cors" /\ F[6] = "handler"
      BY <1>6, <1>12, <1>13, <2>2
    <3>2. 1..L = 1..6 /\ \A i \in 1..6 : i \in {1, 2, 3, 4, 5, 6}
      BY <3>1
    <3>. QED BY <3>1, <3>2
  <2>3. CASE a = 1 /\ c = 0
    <3>1. /\ L = 6 /\ route[r] = "http"
          /\ F[1] = "engine" /\ F[2] = "Recovery" /\ F[3] = "Logrus"
          /\ F[4] = "LogRequest" /\ F[5] = "LoggerMiddleware"
          /\ F[6] = "handler"
      BY <1>6, <1>12, <1>13, <2>3
    <3>2. 1..L = 1..6 /\ \A i \in 1..6 : i \in {1, 2, 3, 4, 5, 6}
      BY <3>1
    <3>. QED BY <3>1, <3>2
  <2>4. CASE a = 1 /\ c = 1
    <3>1. /\ L = 7 /\ route[r] = "ws"
          /\ F[1] = "engine" /\ F[2] = "Recovery" /\ F[3] = "Logrus"
          /\ F[4] = "LogRequest" /\ F[5] = "LoggerMiddleware" /\ F[6] = "Cors"
          /\ F[7] = "handler"
      BY <1>6, <1>12, <1>13, <2>4
    <3>2. 1..L = 1..7 /\ \A i \in 1..7 : i \in {1, 2, 3, 4, 5, 6, 7}
      BY <3>1
    <3>. QED BY <3>1, <3>2
  <2>. QED BY <1>6, <2>1, <2>2, <2>3, <2>4
<1>15. /\ F \in Seq(Frame) /\ L \in 5..7 /\ Len(Chain(r)) = L - 1
       /\ \A i \in 1..(L - 1) : Chain(r)[i] = F[i + 1]
  BY <1>6, <1>10, <1>11, <1>12
<1>16. 3 + a \in 3..L /\ 4 + a \in 3..L
  BY <1>6, <1>12
<1>. QED BY <1>13, <1>14, <1>15, <1>16 DEF F, L

(* A stack that is a prefix of the frames: its top, what is left when its  *)
(* top returns, and what it is when the next handler is called.            *)
LEMMA PrefixStack ==
  ASSUME NEW S, NEW F \in Seq(S), NEW d \in 1..Len(F)
  PROVE  /\ Len(SubSeq(F, 1, d)) = d /\ Last(SubSeq(F, 1, d)) = F[d]
         /\ d > 1 => Front(SubSeq(F, 1, d)) = SubSeq(F, 1, d - 1)
         /\ d < Len(F) => Append(SubSeq(F, 1, d), F[d + 1]) = SubSeq(F, 1, d + 1)
         /\ IsPrefix(SubSeq(F, 1, d), F)
<1>. DEFINE s == SubSeq(F, 1, d)
<1>1. Len(s) = d /\ s \in Seq(S) /\ \A i \in 1..d : s[i] = F[i]
  BY SubSeqProperties
<1>2. d > 1 => SubSeq(s, 1, d - 1) = SubSeq(F, 1, d - 1)
  BY SubSeqProperties
<1>3. ASSUME d < Len(F) PROVE Append(s, F[d + 1]) = SubSeq(F, 1, d + 1)
  <2>1. SubSeq(F, 1, d + 1) = SubSeq(F, 1, d) \o <<F[d + 1]>>
    BY <1>3, SubSeqRecursiveSecond, d + 1 \in 1..Len(F), d + 1 - 1 = d
  <2>. QED BY <1>1, <1>3, <2>1, AppendIsConcat, ElementOfSeq, d + 1 \in 1..Len(F)
<1>4. SubSeq(s, 1, Len(s)) = s
  BY <1>1, SubSeqFull
<1>5. IsPrefix(s, F)
  <2>. HIDE DEF s
  <2>1. Len(s) = d /\ SubSeq(s, 1, Len(s)) = s
    BY <1>1, <1>4
  <2>2. s = SubSeq(F, 1, d)
    BY DEF s
  <2>. QED BY <2>1, <2>2 DEF IsPrefix
<1>. QED BY <1>1, <1>2, <1>3, <1>5 DEF Last, Front

(* What OnItsWay and Nested say of a request depends on its own part of    *)
(* the state alone.                                                        *)
Unchanged(q) ==
  /\ accessLog' = accessLog /\ route' = route
  /\ index'[q] = index[q] /\ stack'[q] = stack[q] /\ panic'[q] = panic[q]
  /\ panicked'[q] = panicked[q] /\ captured'[q] = captured[q]
  /\ response'[q] = response[q] /\ logged'[q] = logged[q]
  /\ answered'[q] = answered[q]

LEMMA OthersKept ==
  ASSUME NEW q \in Request, Nested(q), OnItsWay(q), Unchanged(q)
  PROVE  Nested(q)' /\ OnItsWay(q)'
<1>1. Frames(q)' = Frames(q) /\ Chain(q)' = Chain(q)
  BY DEF Unchanged, Frames, Chain
<1>2. Nested(q)'
  BY <1>1 DEF Unchanged, Nested, Depth
<1>3. CASE Climbing(q)
  BY <1>1, <1>2, <1>3 DEF Unchanged, Climbing, Depth, OnItsWay
<1>4. CASE AtHandler(q)
  BY <1>1, <1>2, <1>4 DEF Unchanged, AtHandler, Depth, Untold, Upgraded, OnItsWay
<1>5. CASE Unwinding(q)
  BY <1>1, <1>2, <1>5 DEF Unchanged, Unwinding, Depth, Untold, Upgraded, OnItsWay
<1>6. CASE Caught(q)
  BY <1>1, <1>2, <1>6 DEF Unchanged, Caught, Depth, Untold, OnItsWay
<1>7. CASE Returning(q)
  BY <1>1, <1>2, <1>7 DEF Unchanged, Returning, Depth, Upgraded, OnItsWay
<1>8. CASE AbortedByRecovery(q)
  BY <1>1, <1>2, <1>8 DEF Unchanged, AbortedByRecovery, Depth, OnItsWay
<1>. QED BY <1>2, <1>3, <1>4, <1>5, <1>6, <1>7, <1>8 DEF OnItsWay

(* The handler on top of a request's stack, and what is left under it.     *)
LEMMA TopOfStack ==
  ASSUME ChainInv, NEW r \in Request
  PROVE  /\ route[r] \in {"http", "ws"} /\ accessLog \in BOOLEAN
         /\ Depth(r) \in 1..Len(Frames(r)) /\ Len(Frames(r)) \in 5..7
         /\ Len(Chain(r)) = Len(Frames(r)) - 1
         /\ Top(r) = Frames(r)[Depth(r)]
         /\ Top(r) = "engine" <=> Depth(r) = 1
         /\ Top(r) = "Recovery" <=> Depth(r) = 2
         /\ Top(r) = "handler" <=> Depth(r) = Len(Frames(r))
         /\ Top(r) = "Cors" <=> route[r] = "ws" /\ Depth(r) = Len(Frames(r)) - 1
<1>1. route[r] \in {"http", "ws"} /\ accessLog \in BOOLEAN
  BY ChainAssumption DEF ChainInv, TypeOK
<1>2. Nested(r)
  BY DEF ChainInv
<1>3. /\ Frames(r) \in Seq(Frame) /\ Len(Frames(r)) \in 5..7
      /\ Len(Chain(r)) = Len(Frames(r)) - 1
      /\ \A i \in 1..Len(Frames(r)) :
           /\ Frames(r)[i] = "engine" <=> i = 1
           /\ Frames(r)[i] = "Recovery" <=> i = 2
           /\ Frames(r)[i] = "handler" <=> i = Len(Frames(r))
           /\ Frames(r)[i] = "Cors" <=> route[r] = "ws" /\ i = Len(Frames(r)) - 1
  BY <1>1, FramesShape
<1>4. Top(r) = Frames(r)[Depth(r)]
  BY <1>2, <1>3, PrefixStack DEF Top, Nested
<1>. QED BY <1>1, <1>2, <1>3, <1>4 DEF Nested

(* A call pushes the next frame, a return pops the last.                   *)
LEMMA Popped ==
  ASSUME ChainInv, NEW r \in Request, Pop(r), Depth(r) > 1,
         accessLog' = accessLog, route' = route
  PROVE  Nested(r)' /\ Depth(r)' = Depth(r) - 1
<1>1. Frames(r)' = Frames(r)
  BY DEF Frames, Chain
<1>2. Nested(r) /\ DOMAIN stack = Request /\ Frames(r) \in Seq(Frame)
  BY TopOfStack, FramesShape DEF ChainInv
<1>3. stack'[r] = SubSeq(Frames(r), 1, Depth(r) - 1)
  BY <1>2, PrefixStack DEF Pop, Nested
<1>4. Len(stack'[r]) = Depth(r) - 1
  BY <1>2, <1>3, PrefixStack, Depth(r) - 1 \in 1..Len(Frames(r)) DEF Nested
<1>5. Depth(r)' = Depth(r) - 1
  BY <1>4 DEF Depth
<1>6. Depth(r)' \in 1..Len(Frames(r))
  BY <1>2, <1>5 DEF Nested
<1>. QED BY <1>1, <1>3, <1>5, <1>6 DEF Nested

LEMMA Pushed ==
  ASSUME ChainInv, NEW r \in Request, CallNext(r)
  PROVE  Nested(r)' /\ Depth(r)' = Depth(r) + 1 /\ Climbing(r)
<1>1. Frames(r)' = Frames(r)
  BY DEF CallNext, Frames, Chain
<1>2. Nested(r) /\ DOMAIN stack = Request /\ OnItsWay(r)
  BY DEF ChainInv
<1>3. Climbing(r)
  <2>. DEFINE n == Len(Chain(r))
              m == Len(Frames(r))
  <2>1. m \in 5..7 /\ n = m - 1
    BY TopOfStack
  <2>2. index[r] < n
    BY DEF CallNext
  <2>. HIDE DEF n, m
  <2>3. n \in 4..6
    BY <2>1
  <2>4. index[r] \in 0..63 /\ index[r] < n
    BY <2>2 DEF ChainInv, TypeOK, Aborted
  <2>5. index[r] # n /\ index[r] # Aborted
    BY <2>3, <2>4 DEF Aborted
  <2>. QED
    BY <1>2, <2>5 DEF n, OnItsWay, AtHandler, Unwinding, Caught, Returning, AbortedByRecovery
<1>4. /\ Frames(r) \in Seq(Frame) /\ Len(Chain(r)) = Len(Frames(r)) - 1
      /\ \A i \in 1..(Len(Frames(r)) - 1) : Chain(r)[i] = Frames(r)[i + 1]
  BY TopOfStack, FramesShape
<1>5. stack'[r] = Append(stack[r], Chain(r)[index[r] + 1])
  BY <1>2 DEF CallNext
<1>6. Chain(r)[index[r] + 1] = Frames(r)[Depth(r) + 1]
  BY <1>2, <1>3, <1>4 DEF Climbing, Nested
<1>7. stack'[r] = SubSeq(Frames(r), 1, Depth(r) + 1)
  BY <1>2, <1>3, <1>4, <1>5, <1>6, PrefixStack DEF Nested, Climbing
<1>8. Len(stack'[r]) = Depth(r) + 1 /\ Depth(r) + 1 \in 1..Len(Frames(r))
  BY <1>2, <1>3, <1>4, <1>7, PrefixStack, Depth(r) + 1 \in 1..Len(Frames(r)) DEF Nested, Climbing
<1>. QED BY <1>1, <1>3, <1>7, <1>8 DEF Nested, Depth

----------------------------------------------------------------------------
(* Each step of a request leaves it on its way, and leaves the others      *)
(* alone.                                                                  *)
LEMMA HandlerStep ==
  ASSUME ChainInv, NEW r \in Request, Handler(r)
  PROVE  Nested(r)' /\ OnItsWay(r)'
<1>1. Nested(r) /\ OnItsWay(r) /\ TypeOK
  BY DEF ChainInv
<1>2. Frames(r)' = Frames(r) /\ Chain(r)' = Chain(r)
  <2>1. accessLog' = accessLog /\ route' = route
    BY DEF Handler, Upgrade, StartChild, HandlerReturns, HandlerPanics
  <2>. QED BY <2>1 DEF Frames, Chain
<1>3. /\ AtHandler(r) /\ panic[r] = "none" /\ Depth(r) = Len(Frames(r))
      /\ accessLog' = accessLog /\ route' = route
  <2>1. /\ Running(r) /\ Top(r) = "handler" /\ panic[r] = "none"
        /\ accessLog' = accessLog /\ route' = route
    BY DEF Handler, Upgrade, StartChild, HandlerReturns, HandlerPanics
  <2>2. Depth(r) = Len(Frames(r))
    BY <1>1, <2>1, TopOfStack
  <2>3. Len(Frames(r)) > 2
    BY <1>1, <2>1, TopOfStack
  <2>4. AtHandler(r)
    BY <1>1, <2>2, <2>3
    DEF OnItsWay, Climbing, Unwinding, Caught, Returning, AbortedByRecovery
  <2>. QED BY <2>1, <2>2, <2>4
<1>4. CASE Upgrade(r)
  <2>1. AtHandler(r)'
    BY <1>1, <1>2, <1>3, <1>4 DEF Upgrade, AtHandler, Depth, Untold, Upgraded, TypeOK
  <2>2. Nested(r)'
    BY <1>1, <1>2, <1>4 DEF Upgrade, Nested, Depth
  <2>. QED BY <2>1, <2>2 DEF OnItsWay
<1>5. CASE StartChild(r)
  BY <1>1, <1>5, OthersKept DEF StartChild, Unchanged
<1>6. CASE HandlerReturns(r)
  <2>1. Nested(r)' /\ Depth(r)' = Depth(r) - 1
    BY <1>3, <1>6, TopOfStack, Popped DEF HandlerReturns
  <2>2. response'[r] = (IF response[r] = "none" THEN "data" ELSE response[r])
    BY <1>1, <1>6 DEF HandlerReturns, TypeOK
  <2>3. /\ route[r] = "http" => response'[r] = "data"
        /\ route[r] = "ws" => response'[r] \in {"switched", "refused"}
    BY <1>3, <1>6, <2>2 DEF HandlerReturns, AtHandler, Untold
  <2>4. {Frames(r)[i] : i \in (Depth(r) - 1 + 1)..Len(Frames(r))} \cap Loggers = {}
    <3>1. (Depth(r) - 1 + 1)..Len(Frames(r)) = {Len(Frames(r))}
      BY <1>3, TopOfStack
    <3>2. Frames(r)[Len(Frames(r))] = "handler"
      BY <1>3, TopOfStack
    <3>. QED BY <3>1, <3>2 DEF Loggers
  <2>5. Depth(r) - 1 < Len(Frames(r)) /\ Depth(r) - 1 # 1
    BY <1>3, TopOfStack
  <2>6. /\ index'[r] = Len(Chain(r)) /\ panic'[r] = "none" /\ captured'[r] = "none"
        /\ panicked'[r] = "none" /\ logged'[r] = {} /\ ~answered'[r]
    BY <1>3, <1>6 DEF HandlerReturns, AtHandler
  <2>7. Returning(r)'
    BY <1>2, <1>3, <2>1, <2>3, <2>4, <2>5, <2>6 DEF Returning, Upgraded
  <2>. QED BY <2>1, <2>7 DEF OnItsWay
<1>7. CASE HandlerPanics(r)
  <2>1. /\ panic'[r] = panicked'[r] /\ stack' = stack
        /\ route[r] = "ws" => response[r] # "none"
    BY <1>1, <1>7 DEF HandlerPanics, TypeOK
  <2>2. AtHandler(r)'
    BY <1>2, <1>3, <1>7, <2>1 DEF HandlerPanics, AtHandler, Depth, Untold, Upgraded
  <2>3. Nested(r)'
    BY <1>1, <1>2, <2>1 DEF Nested, Depth
  <2>. QED BY <2>2, <2>3 DEF OnItsWay
<1>. QED BY <1>4, <1>5, <1>6, <1>7 DEF Handler

LEMMA ChildStep ==
  ASSUME ChainInv, NEW r \in Request, Child(r)
  PROVE  Nested(r)' /\ OnItsWay(r)'
BY OthersKept DEF Child, ChildReturns, ChildPanics, Unchanged, ChainInv

(* What is above a frame once it has returned: the frame too.              *)
LEMMA OneMoreAbove ==
  ASSUME NEW f, NEW l \in Nat, NEW d \in 1..l
  PROVE  {f[i] : i \in (d - 1 + 1)..l} = {f[d]} \cup {f[i] : i \in (d + 1)..l}
<1>1. (d - 1 + 1)..l = {d} \cup (d + 1)..l
  OBVIOUS
<1>. QED BY <1>1, Zenon

(* What a frame that returns to the one below adds to the log.             *)
LEMMA OneMoreLogged ==
  ASSUME ChainInv, NEW r \in Request, Returning(r), Depth(r) > 1
  PROVE  logged[r] \cup ({Top(r)} \cap Loggers)
           = {Frames(r)[i] : i \in (Depth(r) - 1 + 1)..Len(Frames(r))} \cap Loggers
<1>1. /\ Depth(r) \in 1..Len(Frames(r)) /\ Len(Frames(r)) \in Nat
      /\ Top(r) = Frames(r)[Depth(r)]
  BY TopOfStack
<1>2. logged[r] = {Frames(r)[i] : i \in (Depth(r) + 1)..Len(Frames(r))} \cap Loggers
  BY DEF Returning
<1>3. {Frames(r)[i] : i \in (Depth(r) - 1 + 1)..Len(Frames(r))}
        = {Frames(r)[Depth(r)]} \cup {Frames(r)[i] : i \in (Depth(r) + 1)..Len(Frames(r))}
  BY <1>1, OneMoreAbove
<1>. QED BY <1>1, <1>2, <1>3, Zenon

LEMMA GinStep ==
  ASSUME ChainInv, NEW r \in Request, Gin(r)
  PROVE  Nested(r)' /\ OnItsWay(r)'
<1>1. Nested(r) /\ OnItsWay(r) /\ TypeOK /\ Running(r)
  BY DEF ChainInv, Gin, CallNext, NextReturns, Unwind, CorsRecovers, recoverPanic,
         HandleCaptured, WriteHeaderNow
<1>2. /\ Frames(r)' = Frames(r) /\ Chain(r)' = Chain(r)
      /\ accessLog' = accessLog /\ route' = route
  <2>1. accessLog' = accessLog /\ route' = route
    BY DEF Gin, CallNext, NextReturns, Unwind, CorsRecovers, recoverPanic,
           HandleCaptured, WriteHeaderNow
  <2>. QED BY <2>1 DEF Frames, Chain
<1>. DEFINE d == Depth(r)
            L == Len(Frames(r))
            n == Len(Chain(r))
<1>3. /\ d \in 1..L /\ L \in 5..7 /\ n = L - 1
      /\ Top(r) = "engine" <=> d = 1
      /\ Top(r) = "Recovery" <=> d = 2
      /\ Top(r) = "handler" <=> d = L
      /\ Top(r) = "Cors" <=> route[r] = "ws" /\ d = L - 1
      /\ route[r] \in {"http", "ws"}
  BY TopOfStack
<1>4. L' = L /\ n' = n
  BY <1>2
<1>5. n \in 4..6
  <2>. HIDE DEF L, n
  <2>. QED BY <1>3
<1>6. CASE CallNext(r)
  <2>1. Nested(r)' /\ d' = d + 1 /\ Climbing(r)
    BY <1>6, Pushed
  <2>2. index'[r] = d /\ d < L
    <3>1. index'[r] = index[r] + 1
      BY <1>1, <1>6 DEF CallNext, TypeOK
    <3>2. index[r] = d - 1 /\ d < L
      BY <2>1 DEF Climbing
    <3>. HIDE DEF d, L
    <3>. QED BY <1>3, <3>1, <3>2
  <2>3. CASE d + 1 = L
    <3>1. d = n
      BY <1>3, <2>3
    <3>2. AtHandler(r)'
      BY <1>2, <1>6, <2>1, <2>2, <2>3, <3>1
      DEF CallNext, Climbing, AtHandler, Untold, Upgraded
    <3>. QED BY <2>1, <3>2 DEF OnItsWay
  <2>4. CASE d + 1 # L
    <3>1. d + 1 < L /\ d = d + 1 - 1
      BY <1>3, <2>2, <2>4
    <3>2. d' < L' /\ index'[r] = d' - 1
      <4>1. d' = d + 1 /\ L' = L /\ index'[r] = d
        BY <1>4, <2>1, <2>2
      <4>. HIDE DEF d, L
      <4>. QED BY <1>3, <3>1, <4>1
    <3>3. Climbing(r)'
      BY <1>6, <2>1, <3>2 DEF CallNext, Climbing
    <3>. QED BY <2>1, <3>3 DEF OnItsWay
  <2>. QED BY <2>3, <2>4
<1>7. CASE NextReturns(r)
  <2>1. d # 1 /\ d # L /\ panic[r] = "none" /\ captured[r] = "none" /\ index[r] >= n
    BY <1>3, <1>7 DEF NextReturns
  <2>2. ~Climbing(r)
    BY <1>1, <1>3, <2>1 DEF Climbing, TypeOK
  <2>3. Returning(r)
    BY <1>1, <2>1, <2>2 DEF OnItsWay, AtHandler, Unwinding, Caught, AbortedByRecovery
  <2>4. Nested(r)' /\ d' = d - 1
    BY <1>2, <1>3, <1>7, <2>1, Popped DEF NextReturns
  <2>5. logged'[r] = {Frames(r)[i] : i \in (d - 1 + 1)..L} \cap Loggers
    <3>1. logged'[r] = logged[r] \cup ({Top(r)} \cap Loggers)
      BY <1>1, <1>7 DEF NextReturns, TypeOK
    <3>2. d > 1
      BY <1>3, <2>1
    <3>3. ChainInv
      OBVIOUS
    <3>. HIDE DEF d, L
    <3>4. logged[r] \cup ({Top(r)} \cap Loggers)
            = {Frames(r)[i] : i \in (Depth(r) - 1 + 1)..Len(Frames(r))} \cap Loggers
      BY <2>3, <3>2, <3>3, OneMoreLogged DEF d
    <3>. QED BY <3>1, <3>4 DEF d, L
  <2>6. d - 1 < L /\ ~answered[r]
    BY <1>1, <1>3 DEF Running
  <2>7. /\ index'[r] = index[r] /\ panic'[r] = panic[r] /\ captured'[r] = captured[r]
        /\ panicked'[r] = panicked[r] /\ response'[r] = response[r]
        /\ answered'[r] = answered[r]
    BY <1>7 DEF NextReturns
  <2>8. /\ index[r] = n /\ panic[r] = "none" /\ captured[r] = "none" /\ Upgraded(r)
        /\ route[r] = "http" => panicked[r] = "none" /\ response[r] = "data"
    BY <2>3 DEF Returning
  <2>9. d' < L' /\ (answered'[r] => d' = 1) /\ Upgraded(r)'
    BY <1>2, <1>4, <2>4, <2>6, <2>7, <2>8 DEF Upgraded
  <2>10. logged'[r] = {Frames(r)'[i] : i \in (d' + 1)..L'} \cap Loggers
    BY <1>2, <1>4, <2>4, <2>5
  <2>11. Returning(r)'
    BY <1>2, <1>4, <2>7, <2>8, <2>9, <2>10 DEF Returning
  <2>. QED BY <2>4, <2>11 DEF OnItsWay
<1>8. CASE Unwind(r)
  <2>1. panic[r] # "none" /\ d # 2 /\ ~(route[r] = "ws" /\ d = L - 1)
    BY <1>3, <1>8 DEF Unwind
  <2>2. AtHandler(r) \/ Unwinding(r)
    BY <1>1, <2>1 DEF OnItsWay, Climbing, Caught, Returning, AbortedByRecovery
  <2>3. d > 2 /\ (route[r] = "ws" => d = L)
    BY <1>3, <2>1, <2>2 DEF AtHandler, Unwinding
  <2>4. Nested(r)' /\ d' = d - 1
    BY <1>2, <1>3, <1>8, <2>3, Popped DEF Unwind
  <2>5. d - 1 > 1 /\ d - 1 < L /\ (route[r] = "ws" => d - 1 = L - 1)
    BY <1>3, <2>3
  <2>6. /\ index[r] = n /\ panic[r] = panicked[r] /\ captured[r] = "none"
        /\ Untold(r) /\ Upgraded(r) /\ logged[r] = {} /\ ~answered[r]
    BY <2>1, <2>2 DEF AtHandler, Unwinding
  <2>7. Unwinding(r)'
    BY <1>2, <1>8, <2>1, <2>4, <2>5, <2>6 DEF Unwind, Unwinding, Untold, Upgraded
  <2>. QED BY <2>4, <2>7 DEF OnItsWay
<1>9. CASE CorsRecovers(r)
  <2>1. panic[r] # "none" /\ route[r] = "ws" /\ d = L - 1
    BY <1>3, <1>9 DEF CorsRecovers
  <2>2. Unwinding(r)
    BY <1>1, <1>3, <2>1
    DEF OnItsWay, AtHandler, Climbing, Caught, Returning, AbortedByRecovery
  <2>3. Nested(r)' /\ d' = d - 1
    BY <1>2, <1>3, <1>9, <2>1, Popped DEF CorsRecovers
  <2>4. {Frames(r)[i] : i \in (d - 1 + 1)..L} \cap Loggers = {}
    <3>1. (d - 1 + 1)..L = {L - 1, L}
      BY <1>3, <2>1
    <3>2. Frames(r)[L - 1] = "Cors" /\ Frames(r)[L] = "handler"
      <4>1. route[r] \in {"http", "ws"} /\ accessLog \in BOOLEAN /\ L \in 5..7
        BY TopOfStack
      <4>2. \A i \in 1..L : /\ Frames(r)[i] = "handler" <=> i = L
                            /\ Frames(r)[i] = "Cors" <=> route[r] = "ws" /\ i = L - 1
        BY <4>1, FramesShape
      <4>3. \A k \in 5..7 : k - 1 \in 1..k /\ k \in 1..k
        OBVIOUS
      <4>4. L - 1 \in 1..L /\ L \in 1..L
        BY <4>1, <4>3
      <4>. QED BY <2>1, <4>2, <4>4
    <3>. QED BY <3>1, <3>2 DEF Loggers
  <2>5. d - 1 < L /\ panic'[r] = "none"
    BY <1>1, <1>3, <1>9 DEF CorsRecovers, TypeOK
  <2>6. Returning(r)'
    BY <1>2, <1>9, <2>1, <2>2, <2>3, <2>4, <2>5
    DEF CorsRecovers, Unwinding, Returning, Upgraded
  <2>. QED BY <2>3, <2>6 DEF OnItsWay
<1>10. CASE recoverPanic(r)
  <2>1. panic[r] # "none" /\ d = 2
    BY <1>3, <1>10 DEF recoverPanic
  <2>2. Unwinding(r)
    BY <1>1, <1>3, <2>1
    DEF OnItsWay, AtHandler, Climbing, Caught, Returning, AbortedByRecovery
  <2>3. route[r] = "http"
    BY <1>3, <2>1, <2>2 DEF Unwinding
  <2>4. captured'[r] = panic[r] /\ panic'[r] = "none" /\ stack' = stack
    BY <1>1, <1>10 DEF recoverPanic, TypeOK
  <2>5. Caught(r)'
    BY <1>2, <1>10, <2>1, <2>2, <2>3, <2>4 DEF recoverPanic, Unwinding, Caught, Depth, Untold
  <2>6. Nested(r)'
    BY <1>1, <1>2, <2>4 DEF Nested, Depth
  <2>. QED BY <2>5, <2>6 DEF OnItsWay
<1>11. CASE HandleCaptured(r)
  <2>1. captured[r] # "none" /\ d = 2
    BY <1>3, <1>11 DEF HandleCaptured
  <2>2. Caught(r)
    BY <1>1, <2>1
    DEF OnItsWay, AtHandler, Climbing, Unwinding, Returning, AbortedByRecovery
  <2>3. Nested(r)' /\ d' = d - 1
    BY <1>2, <1>3, <1>11, <2>1, Popped DEF HandleCaptured
  <2>4. /\ response'[r] = IF panicked[r] = "page" THEN "page" ELSE "none"
        /\ index'[r] = Aborted /\ captured'[r] = "none"
    BY <1>1, <1>11, <2>2 DEF HandleCaptured, Caught, Untold, TypeOK
  <2>5. AbortedByRecovery(r)'
    BY <1>2, <1>11, <2>1, <2>2, <2>3, <2>4 DEF HandleCaptured, Caught, AbortedByRecovery
  <2>. QED BY <2>3, <2>5 DEF OnItsWay
<1>12. CASE WriteHeaderNow(r)
  <2>1. d = 1 /\ panic[r] = "none" /\ index[r] >= n /\ stack' = stack
    BY <1>3, <1>12 DEF WriteHeaderNow
  <2>2. ~Climbing(r)
    BY <1>3, <1>5, <2>1 DEF Climbing
  <2>3. Returning(r) \/ AbortedByRecovery(r)
    BY <1>1, <1>3, <2>1, <2>2 DEF OnItsWay, AtHandler, Unwinding, Caught
  <2>4. /\ response'[r] = IF response[r] = "none" THEN "empty" ELSE response[r]
        /\ answered'[r] = TRUE /\ ~answered[r]
    BY <1>1, <1>12 DEF WriteHeaderNow, TypeOK, Running
  <2>5. Nested(r)'
    BY <1>1, <1>2, <2>1 DEF Nested, Depth
  <2>6. CASE Returning(r)
    <3>1. Returning(r)'
      BY <1>2, <1>3, <1>12, <2>1, <2>4, <2>6 DEF WriteHeaderNow, Returning, Depth, Upgraded
    <3>. QED BY <2>5, <3>1 DEF OnItsWay
  <2>7. CASE AbortedByRecovery(r)
    <3>1. AbortedByRecovery(r)'
      BY <1>2, <1>12, <2>1, <2>4, <2>7 DEF WriteHeaderNow, AbortedByRecovery, Depth
    <3>. QED BY <2>5, <3>1 DEF OnItsWay
  <2>. QED BY <2>3, <2>6, <2>7
<1>. QED BY <1>6, <1>7, <1>8, <1>9, <1>10, <1>11, <1>12 DEF Gin

(* A step of one request keeps the invariant of them all.                  *)
LEMMA RequestStep ==
  ASSUME ChainInv, NEW r \in Request, Handler(r) \/ Child(r) \/ Gin(r)
  PROVE  ChainInv'
<1>1. Nested(r)' /\ OnItsWay(r)'
  BY HandlerStep, ChildStep, GinStep
<1>2. DOMAIN stack' = Request /\ accessLog' = accessLog /\ route' = route
  BY DEF ChainInv, Handler, Child, Gin, Upgrade, StartChild, ChildReturns, ChildPanics,
         HandlerReturns, HandlerPanics, CallNext, NextReturns, Unwind, CorsRecovers,
         recoverPanic, HandleCaptured, WriteHeaderNow, Pop
<1>3. ASSUME NEW q \in Request, q # r PROVE Nested(q)' /\ OnItsWay(q)'
  <2>1. Nested(q) /\ OnItsWay(q) /\ TypeOK /\ DOMAIN stack = Request
    BY DEF ChainInv
  <2>2. Unchanged(q)
    <3>1. CASE Handler(r)
      BY <1>3, <2>1, <3>1
      DEF Handler, Upgrade, StartChild, HandlerReturns, HandlerPanics, Pop, Unchanged, TypeOK
    <3>2. CASE Child(r)
      BY <3>2 DEF Child, ChildReturns, ChildPanics, Unchanged
    <3>3. CASE Gin(r)
      BY <1>3, <2>1, <3>3
      DEF Gin, CallNext, NextReturns, Unwind, CorsRecovers, recoverPanic, HandleCaptured,
          WriteHeaderNow, Pop, Unchanged, TypeOK
    <3>. QED BY <3>1, <3>2, <3>3
  <2>. QED BY <2>1, <2>2, OthersKept
<1>4. \A q \in Request : Nested(q)' /\ OnItsWay(q)'
  BY <1>1, <1>3
<1>5. \A q \in Request : IsPrefix(stack[q], <<"engine">> \o Chain(q))'
  <2>1. TAKE q \in Request
  <2>2. Frames(q)' = Frames(q)
    BY <1>2 DEF Frames, Chain
  <2>3. Frames(q) \in Seq(Frame)
    BY TopOfStack, FramesShape
  <2>4. IsPrefix(stack'[q], Frames(q))
    BY <1>4, <2>2, <2>3, PrefixStack DEF Nested
  <2>. QED BY <2>2, <2>4 DEF Frames
<1>6. index' \in [Request -> 0..Aborted]
  <2>1. CASE CallNext(r)
    <3>1. Climbing(r) /\ Depth(r) \in 1..Len(Frames(r)) /\ Len(Frames(r)) \in 5..7
      BY <2>1, Pushed, TopOfStack
    <3>2. index[r] + 1 \in 0..Aborted
      <4>. DEFINE d == Depth(r)
                  L == Len(Frames(r))
      <4>1. d \in 1..L /\ L \in 5..7 /\ d < L /\ index[r] = d - 1
        BY <3>1 DEF Climbing
      <4>. HIDE DEF d, L
      <4>. QED BY <4>1 DEF Aborted
    <3>. QED BY <2>1, <3>2 DEF ChainInv, TypeOK, CallNext
  <2>2. CASE HandleCaptured(r)
    BY <2>2 DEF ChainInv, TypeOK, HandleCaptured, Aborted
  <2>3. CASE ~CallNext(r) /\ ~HandleCaptured(r)
    <3>1. index' = index
      BY <2>3
      DEF Handler, Child, Gin, Upgrade, StartChild, ChildReturns, ChildPanics,
          HandlerReturns, HandlerPanics, NextReturns, Unwind, CorsRecovers, recoverPanic,
          WriteHeaderNow
    <3>. QED BY <3>1 DEF ChainInv, TypeOK
  <2>. QED BY <2>1, <2>2, <2>3
<1>7. /\ accessLog' \in BOOLEAN /\ route' \in Routes
      /\ panic' \in [Request -> Panic \cup {"none"}]
      /\ panicked' \in [Request -> Panic \cup {"none"}]
      /\ captured' \in [Request -> Panic \cup {"none"}]
      /\ response' \in [Request -> Response]
      /\ logged' \in [Request -> SUBSET Loggers]
      /\ child' \in [Request -> {"none", "running", "done"}]
      /\ answered' \in [Request -> BOOLEAN]
      /\ crashed' \in BOOLEAN
  <2>1. TypeOK
    BY DEF ChainInv
  <2>2. CASE Handler(r)
    BY <2>1, <2>2
    DEF TypeOK, Handler, Upgrade, StartChild, HandlerReturns, HandlerPanics, Response
  <2>3. CASE Child(r)
    BY <2>1, <2>3 DEF TypeOK, Child, ChildReturns, ChildPanics
  <2>4. CASE Gin(r)
    <3>1. CASE CallNext(r) \/ Unwind(r)
      BY <2>1, <3>1 DEF TypeOK, CallNext, Unwind
    <3>2. CASE NextReturns(r)
      BY <2>1, <3>2 DEF TypeOK, NextReturns
    <3>3. CASE CorsRecovers(r) \/ recoverPanic(r)
      BY <2>1, <3>3 DEF TypeOK, CorsRecovers, recoverPanic, Panic
    <3>4. CASE HandleCaptured(r)
      BY <2>1, <3>4 DEF TypeOK, HandleCaptured, Response
    <3>5. CASE WriteHeaderNow(r)
      BY <2>1, <3>5 DEF TypeOK, WriteHeaderNow, Response
    <3>. QED BY <2>4, <3>1, <3>2, <3>3, <3>4, <3>5 DEF Gin
  <2>. QED BY <2>2, <2>3, <2>4
<1>. QED BY <1>2, <1>4, <1>5, <1>6, <1>7 DEF ChainInv, TypeOK

LEMMA ChainInit == Init => ChainInv
<1>. SUFFICES ASSUME Init PROVE ChainInv
  OBVIOUS
<1>1. route \in [Request -> {"http", "ws"}] /\ accessLog \in BOOLEAN
  BY ChainAssumption DEF Init
<1>2. ASSUME NEW r \in Request
      PROVE  Nested(r) /\ OnItsWay(r) /\ IsPrefix(stack[r], <<"engine">> \o Chain(r))
  <2>. DEFINE F == Frames(r)
  <2>1. F \in Seq(Frame) /\ Len(F) \in 5..7 /\ F[1] = "engine"
    BY <1>1, FramesShape
  <2>2. Len(SubSeq(F, 1, 1)) = 1 /\ SubSeq(F, 1, 1)[1] = "engine"
    BY <2>1, SubSeqProperties
  <2>3. SubSeq(F, 1, 1) = <<"engine">>
    <3>1. SubSeq(F, 1, 1) \in Seq(Frame) /\ <<"engine">> \in Seq(Frame)
      BY <2>1, PrefixStack, SubSeqProperties DEF Frame
    <3>2. Len(<<"engine">>) = 1 /\ <<"engine">>[1] = "engine"
      OBVIOUS
    <3>3. \A i \in 1..1 : SubSeq(F, 1, 1)[i] = <<"engine">>[i]
      BY <2>2, <3>2
    <3>. HIDE DEF F
    <3>. QED BY <2>2, <3>1, <3>2, <3>3, SeqEqual
  <2>4. stack[r] = SubSeq(F, 1, 1) /\ Depth(r) = 1
    BY <2>3 DEF Init, Depth
  <2>5. IsPrefix(stack[r], F)
    BY <2>1, <2>4, PrefixStack, 1 \in 1..Len(F)
  <2>6. Climbing(r)
    <3>1. index[r] = 0 /\ Depth(r) = 1
      BY <2>4 DEF Init
    <3>2. 1 < Len(F)
      <4>. DEFINE L == Len(F)
      <4>1. L \in 5..7
        BY <2>1
      <4>. HIDE DEF L
      <4>2. 1 < L
        BY <4>1
      <4>. QED BY <4>2 DEF L
    <3>3. 0 = 1 - 1
      OBVIOUS
    <3>. QED BY <3>1, <3>2, <3>3 DEF Climbing, Init
  <2>. QED BY <2>1, <2>4, <2>5, <2>6 DEF Nested, OnItsWay, Frames
<1>3. TypeOK
  <2>1. accessLog \in BOOLEAN /\ route \in Routes /\ crashed \in BOOLEAN
    BY Zenon DEF Init
  <2>2. index \in [Request -> 0..Aborted]
    BY DEF Init, Aborted
  <2>3. /\ panic \in [Request -> Panic \cup {"none"}]
        /\ panicked \in [Request -> Panic \cup {"none"}]
        /\ captured \in [Request -> Panic \cup {"none"}]
        /\ response \in [Request -> Response]
        /\ child \in [Request -> {"none", "running", "done"}]
    BY DEF Init, Response
  <2>4. logged \in [Request -> SUBSET Loggers] /\ answered \in [Request -> BOOLEAN]
    BY DEF Init
  <2>. QED BY <1>2, <2>1, <2>2, <2>3, <2>4 DEF TypeOK
<1>. QED BY <1>2, <1>3 DEF ChainInv, Init

(* Stopped, and every step of the server but Serve, leave the requests as  *)
(* they are.                                                               *)
LEMMA ChainKept ==
  ASSUME ChainInv,
         UNCHANGED <<accessLog, route, index, stack, panic, panicked, captured,
                     response, logged, child, answered>>,
         crashed' \in BOOLEAN
  PROVE  ChainInv'
<1>1. ASSUME NEW q \in Request PROVE Nested(q)' /\ OnItsWay(q)'
  BY <1>1, OthersKept DEF ChainInv, Unchanged
<1>2. TypeOK'
  BY DEF ChainInv, TypeOK, Chain
<1>. QED BY <1>1, <1>2 DEF ChainInv

LEMMA ServerStep == ChainInv /\ [ServerNext]_serverVars => ChainInv'
<1>. SUFFICES ASSUME ChainInv, [ServerNext]_serverVars PROVE ChainInv'
  OBVIOUS
<1>1. CASE \E r \in Request : Serve(r)
  BY <1>1, RequestStep DEF Serve
<1>2. CASE Bind
  <2>1. UNCHANGED <<accessLog, route, index, stack, panic, panicked, captured, response,
                    logged, child, answered>>
    BY <1>2 DEF Bind, vars
  <2>2. crashed' \in BOOLEAN
    BY <1>2, Zenon DEF Bind, vars, ChainInv, TypeOK
  <2>. QED BY <2>1, <2>2, ChainKept
<1>3. CASE UNCHANGED vars
  <2>1. crashed' \in BOOLEAN
    BY <1>3, Zenon DEF vars, ChainInv, TypeOK
  <2>. QED BY <1>3, <2>1, ChainKept DEF vars
<1>4. UNCHANGED vars \/ Bind \/ \E r \in Request : Serve(r)
  BY DEF ServerNext, serverVars, Kill, Run, httpServer, initialize, ReceiveSignal,
         Shutdown, Drained, ShutdownTimeout, Exit, ListenAndServe, Accept, CloseIdle, Hang
<1>. QED BY <1>1, <1>2, <1>3, <1>4

(* The requests a server handles have the state the chain's own variables  *)
(* say they have, and go through it as the chain of Router makes them.     *)
THEOREM ServedAsChained == ServerSpec => []ChainInv
<1>1. ServerInit => ChainInv
  BY ChainInit DEF ServerInit
<1>. QED BY <1>1, ServerStep, PTL DEF ServerSpec

(* The same of the chain alone, whatever the server around it does.        *)
THEOREM ChainCorrect == Spec => []ChainInv
<1>1. ASSUME ChainInv, [Next]_vars PROVE ChainInv'
  <2>1. CASE UNCHANGED vars
    <3>1. crashed' \in BOOLEAN
      BY <1>1, <2>1, Zenon DEF vars, ChainInv, TypeOK
    <3>. QED BY <1>1, <2>1, <3>1, ChainKept DEF vars
  <2>. QED BY <1>1, <2>1, RequestStep DEF Next, Stopped
<1>. QED BY <1>1, ChainInit, PTL DEF Spec

(* Whatever the handlers of router.go do, the client of an http route can  *)
(* tell a page error by its answer and no other panic, and a websocket's   *)
(* client has the upgrade's answer.                                        *)
THEOREM ToldByTheChain == ServerSpec => []OnlyPageErrorsAreTold
<1>1. ASSUME ChainInv PROVE OnlyPageErrorsAreTold
  <2>1. SUFFICES ASSUME NEW r \in Request, answered[r]
                 PROVE IF route[r] = "ws" THEN response[r] \in {"switched", "refused"}
                       ELSE response[r] = CASE panicked[r] = "none" -> "data"
                                            [] panicked[r] = "page" -> "page"
                                            [] OTHER                -> "empty"
    BY DEF OnlyPageErrorsAreTold
  <2>2. route[r] \in {"http", "ws"}
    BY <1>1, TopOfStack
  <2>3. Returning(r) \/ AbortedByRecovery(r)
    BY <1>1, <2>1 DEF ChainInv, OnItsWay, Climbing, AtHandler, Unwinding, Caught
  <2>4. CASE Returning(r)
    BY <2>2, <2>4 DEF Returning, Upgraded
  <2>5. CASE AbortedByRecovery(r)
    BY <2>1, <2>5 DEF AbortedByRecovery
  <2>. QED BY <2>3, <2>4, <2>5
<1>. QED BY <1>1, ServedAsChained, PTL

(* The access and operation logs miss exactly the requests whose panic     *)
(* Recovery has caught.                                                    *)
THEOREM MissingFromTheLogs == ServerSpec => []UnloggedIffRecovered
<1>1. ASSUME ChainInv PROVE UnloggedIffRecovered
  <2>1. SUFFICES ASSUME NEW r \in Request, answered[r]
                 PROVE /\ logged[r] = {} <=> route[r] = "http" /\ panicked[r] # "none"
                       /\ logged[r] # {} =>
                            {"LogRequest", "LoggerMiddleware"} \subseteq logged[r]
    BY DEF UnloggedIffRecovered
  <2>2. route[r] \in {"http", "ws"} /\ accessLog \in BOOLEAN
    BY <1>1, TopOfStack
  <2>3. Returning(r) \/ AbortedByRecovery(r)
    BY <1>1, <2>1 DEF ChainInv, OnItsWay, Climbing, AtHandler, Unwinding, Caught
  <2>4. CASE Returning(r)
    <3>. DEFINE F == Frames(r)
    <3>1. PICK i \in 3..Len(F), j \in 3..Len(F) :
            F[i] = "LogRequest" /\ F[j] = "LoggerMiddleware"
      BY <2>2, FramesShape
    <3>2. Len(F) \in 5..7 /\ Depth(r) = 1
      BY <2>1, <2>2, <2>4, FramesShape DEF Returning
    <3>3. logged[r] = {F[k] : k \in 2..Len(F)} \cap Loggers
      BY <2>4, <3>2 DEF Returning
    <3>4. i \in 2..Len(F) /\ j \in 2..Len(F)
      BY <3>1, <3>2
    <3>5. "LogRequest" \in logged[r] /\ "LoggerMiddleware" \in logged[r]
      BY <3>1, <3>3, <3>4 DEF Loggers
    <3>. QED BY <2>2, <2>4, <3>5 DEF Returning
  <2>5. CASE AbortedByRecovery(r)
    BY <2>5 DEF AbortedByRecovery
  <2>. QED BY <2>3, <2>4, <2>5
<1>. QED BY <1>1, ServedAsChained, PTL

(* Once the listener is closed no request is accepted, so the connections  *)
(* a shutdown has waited for stay idle until the end.                      *)
LEMMA DrainStep == ChainInv /\ DrainInv /\ [ServerNext]_serverVars => DrainInv'
<1>. SUFFICES ASSUME ChainInv, DrainInv, [ServerNext]_serverVars PROVE DrainInv'
  OBVIOUS
<1>. USE DEF DrainInv, Busy, shuttingDown, Ended
<1>1. CASE UNCHANGED serverVars
  BY <1>1 DEF serverVars, process, vars
<1>2. CASE Kill
  BY <1>2 DEF Kill, vars
<1>3. CASE initialize
  BY <1>3 DEF initialize, vars
<1>4. CASE ReceiveSignal
  BY <1>4 DEF ReceiveSignal, vars
<1>5. CASE Shutdown
  BY <1>5 DEF Shutdown, vars
<1>6. CASE Drained
  BY <1>6 DEF Drained, vars
<1>7. CASE ShutdownTimeout
  BY <1>7 DEF ShutdownTimeout, vars
<1>8. CASE Exit
  BY <1>8 DEF Exit, vars
<1>9. CASE ListenAndServe
  BY <1>9 DEF ListenAndServe, vars
<1>10. CASE Bind
  BY <1>10 DEF Bind, vars
<1>11. ASSUME NEW r \in Request, Accept(r) PROVE DrainInv'
  BY <1>11 DEF Accept, vars
<1>12. ASSUME NEW r \in Request, CloseIdle(r) PROVE DrainInv'
  BY <1>12 DEF CloseIdle, vars
<1>13. ASSUME NEW r \in Request, Hang(r) PROVE DrainInv'
  BY <1>13 DEF Hang, vars
<1>14. ASSUME NEW r \in Request, Serve(r) PROVE DrainInv'
  <2>1. UNCHANGED process /\ Running(r) /\ TypeOK
    BY <1>14
    DEF Serve, Handler, Child, Gin, Upgrade, StartChild, HandlerReturns, HandlerPanics,
        ChildReturns, ChildPanics, CallNext, NextReturns, Unwind, CorsRecovers,
        recoverPanic, HandleCaptured, WriteHeaderNow, ChainInv
  <2>2. ASSUME NEW q \in Request, ~Busy(q) PROVE ~Busy(q)'
    <3>1. CASE Handler(r)
      BY <2>1, <2>2, <3>1
      DEF Handler, Upgrade, StartChild, HandlerReturns, HandlerPanics, TypeOK
    <3>2. CASE Child(r)
      BY <2>2, <3>2 DEF Child, ChildReturns, ChildPanics
    <3>3. CASE Gin(r)
      <4>1. response[q] = "switched" => response'[q] = "switched"
        BY <2>1, <2>2, <3>3
        DEF Gin, CallNext, NextReturns, Unwind, CorsRecovers, recoverPanic,
            HandleCaptured, WriteHeaderNow, TypeOK
      <4>2. answered' = answered \/ answered' = [answered EXCEPT ![r] = TRUE]
        BY <3>3
        DEF Gin, CallNext, NextReturns, Unwind, CorsRecovers, recoverPanic,
            HandleCaptured, WriteHeaderNow
      <4>3. answered[q] => answered'[q]
        BY <2>1, <2>2, <4>2 DEF TypeOK
      <4>. QED BY <2>2, <4>1, <4>3
    <3>. QED BY <1>14, <3>1, <3>2, <3>3 DEF Serve
  <2>. QED BY <2>1, <2>2 DEF process
<1>. QED
  BY <1>1, <1>2, <1>3, <1>4, <1>5, <1>6, <1>7, <1>8, <1>9, <1>10, <1>11, <1>12, <1>13,
     <1>14
  DEF ServerNext, Run, httpServer

(* The process (server.Run) never ends on a request it has accepted,       *)
(* unless the request has become a websocket, the shutdown timeout is over *)
(* or a goroutine without a recover has panicked.                          *)
THEOREM DrainedBeforeExit == ServerSpec => []DrainedOrTimedOut
<1>1. ServerInit => DrainInv
  BY DEF ServerInit, DrainInv, shuttingDown
<1>2. DrainInv => DrainedOrTimedOut
  BY DEF DrainInv, DrainedOrTimedOut, Busy
<1>. QED BY <1>1, <1>2, ServedAsChained, DrainStep, PTL DEF ServerSpec
=============================================================================
