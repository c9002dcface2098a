--------------------------- MODULE UserBatchProofs ---------------------------
(***************************************************************************)
(* Proofs about a batch of user operations, for any users, names, limits   *)
(* and retries (BatchAssumption alone).                                    *)
(***************************************************************************)
EXTENDS UserBatch, FiniteSetTheorems, TLAPS

(* The goroutines wg.Wait() waits for.                                     *)
Waited == {e \in Entry : pc[e] \notin {"none", "done"}}

(* The two counters count: every goroutine between its acquisition and its *)
(* release holds one token of the semaphore, and every one that has been   *)
(* started and has not ended holds one of the wait group.                  *)
Counted == sem = Cardinality(Working) /\ wg = Cardinality(Waited)

(* Where a goroutine is, and what that says: an unknown action does not    *)
(* get beyond the loop, a request is only sent while attempts are left,    *)
(* and a user is logged just before the goroutine ends.                    *)
Placed ==
  \A e \in Entry :
    /\ action \notin Known => pc[e] \in {"none", "skipped"}
    /\ pc[e] \in {"request", "ok", "err"} => attempt[e] < maxRetries
    /\ outcome[e] # "none" <=> pc[e] \in {"release", "done"}

(* A success is a change of the server, and a change is a success, soon    *)
(* one, or its reply is lost.                                              *)
Booked ==
  \A e \in Entry :
    /\ pc[e] = "ok" \/ outcome[e] = "succeeded" => e \in effective
    /\ e \in effective => e \in lost \/ pc[e] = "ok" \/ outcome[e] = "succeeded"

(* What has been created is there, what has been deleted is not: the       *)
(* server refuses the same change a second time, to a retry as to another  *)
(* entry of that name.                                                     *)
OneChange ==
  /\ action = "create" => \A e \in effective : Username[e] \in accounts
  /\ action = "delete" => \A e \in effective : Username[e] \notin accounts
  /\ action \in {"create", "delete"} =>
       \A e, f \in effective : Username[e] = Username[f] => e = f

BatchInv == TypeOK /\ Counted /\ Placed /\ Booked /\ OneChange

----------------------------------------------------------------------------
(* Counting the goroutines of a set, when one joins it and when one leaves *)
LEMMA CountJoined ==
  ASSUME NEW S \in SUBSET Entry, NEW e \in Entry \ S
  PROVE  /\ Cardinality(S) \in Nat
         /\ Cardinality(S \cup {e}) = Cardinality(S) + 1
         /\ Cardinality(S \cup {e}) <= Cardinality(Entry)
<1>1. IsFiniteSet(Entry) BY BatchAssumption
<1>2. IsFiniteSet(S) BY <1>1, FS_Subset
<1>3. Cardinality(S) \in Nat BY <1>2, FS_CardinalityType
<1>4. Cardinality(S \cup {e}) = Cardinality(S) + 1 BY <1>2, FS_AddElement
<1>5. S \cup {e} \in SUBSET Entry OBVIOUS
<1>6. Cardinality(S \cup {e}) <= Cardinality(Entry) BY <1>1, <1>5, FS_Subset
<1> QED BY <1>3, <1>4, <1>6

LEMMA CountLeft ==
  ASSUME NEW S \in SUBSET Entry, NEW e \in S
  PROVE  /\ Cardinality(S) \in Nat /\ Cardinality(S) > 0
         /\ Cardinality(S \ {e}) = Cardinality(S) - 1
<1>1. IsFiniteSet(S) BY BatchAssumption, FS_Subset
<1>2. Cardinality(S) \in Nat BY <1>1, FS_CardinalityType
<1>3. Cardinality(S) # 0 BY <1>1, FS_EmptySet
<1>4. Cardinality(S \ {e}) = Cardinality(S) - 1 BY <1>1, FS_RemoveElement
<1> QED BY <1>2, <1>3, <1>4

----------------------------------------------------------------------------
LEMMA InitInv == Init => BatchInv
<1> SUFFICES ASSUME Init PROVE BatchInv
  OBVIOUS
<1> USE BatchAssumption DEF Init
<1>1. Working = {} /\ Waited = {} BY DEF Working, Waited
<1>2. Counted BY <1>1, FS_EmptySet DEF Counted
<1>3. TypeOK
  <2>1. Cardinality(Entry) \in Nat BY FS_CardinalityType
  <2>2. maxConcurrent \in Nat /\ maxRetries \in Nat OBVIOUS
  <2>3. attempt \in [Entry -> 0..maxRetries] BY <2>2
  <2>4. wg \in 0..Cardinality(Entry) /\ sem \in 0..maxConcurrent BY <2>1, <2>2
  <2> QED BY <2>3, <2>4 DEF TypeOK
<1>4. Placed /\ Booked /\ OneChange BY DEF Placed, Booked, OneChange
<1> QED BY <1>2, <1>3, <1>4 DEF BatchInv

(* The counters at a step of e: it may leave the two sets as they are,     *)
(* join one of them or leave both.                                         *)
LEMMA StepCounts ==
  ASSUME TypeOK, Counted, NEW e \in Entry
  PROVE  /\ StartUser(e) \/ Acquire(e) \/ Work(e) => Counted'
         /\ StartUser(e) => wg' \in 0..Cardinality(Entry)
         /\ Release(e) => sem > 0 /\ wg > 0
<1> USE DEF TypeOK, Counted, Goto
<1>1. ASSUME StartUser(e) PROVE Counted' /\ wg' \in 0..Cardinality(Entry)
  <2>1. e \in Entry \ Waited /\ Waited' = Waited \cup {e} /\ Working' = Working
    BY <1>1 DEF StartUser, Waited, Working
  <2>2. Waited \in SUBSET Entry BY DEF Waited
  <2> QED BY <1>1, <2>1, <2>2, CountJoined DEF StartUser
<1>2. ASSUME Acquire(e) PROVE Counted'
  <2>1. e \in Entry \ Working /\ Working' = Working \cup {e} /\ Waited' = Waited
    BY <1>2 DEF Acquire, Waited, Working
  <2>2. Working \in SUBSET Entry BY DEF Working
  <2> QED BY <1>2, <2>1, <2>2, CountJoined DEF Acquire
<1>3. ASSUME Release(e) PROVE Counted' /\ sem > 0 /\ wg > 0
  <2>1. /\ e \in Working /\ Working' = Working \ {e}
        /\ e \in Waited /\ Waited' = Waited \ {e}
    BY <1>3 DEF Release, Waited, Working
  <2>2. Working \in SUBSET Entry /\ Waited \in SUBSET Entry
    BY DEF Working, Waited
  <2> QED BY <1>3, <2>1, <2>2, CountLeft DEF Release
<1>4. ASSUME Work(e), ~Release(e) PROVE Counted'
  <2>1. sem' = sem /\ wg' = wg /\ Working' = Working /\ Waited' = Waited
    BY <1>4 DEF Work, Request, GetToken, TokenError, TokenRefused, GiveUp,
                Accepted, Rejected, Succeed, Retry, Working, Waited
  <2> QED BY <2>1
<1> QED BY <1>1, <1>2, <1>3, <1>4

----------------------------------------------------------------------------
(* The type invariant at a step of e.                                      *)
LEMMA StepTypeOK ==
  ASSUME BatchInv, NEW e \in Entry, StartUser(e) \/ Acquire(e) \/ Work(e)
  PROVE  TypeOK'
<1> USE DEF TypeOK, BatchInv, Goto, config, server
<1>1. maxConcurrent \in Nat /\ maxRetries \in Nat /\ Cardinality(Entry) \in Nat
  BY BatchAssumption, FS_CardinalityType
<1>2. CASE StartUser(e)
  <2>1. wg' \in 0..Cardinality(Entry) BY <1>2, StepCounts
  <2> QED BY <1>2, <2>1 DEF StartUser
<1>3. CASE Acquire(e)
  <2>1. sem' \in 0..maxConcurrent' BY <1>1, <1>3 DEF Acquire
  <2> QED BY <1>3, <2>1 DEF Acquire
<1>4. CASE GetToken(e) BY <1>4 DEF GetToken
<1>5. CASE TokenError(e) BY <1>5 DEF TokenError
<1>6. CASE TokenRefused(e) BY <1>6 DEF TokenRefused
<1>7. CASE GiveUp(e) BY <1>7 DEF GiveUp
<1>8. CASE Accepted(e)
  <2>1. action \in Known BY <1>8 DEF Accepted, Placed
  <2>2. AccountsAfter(e) \subseteq {Username[d] : d \in Entry}
    BY <2>1 DEF AccountsAfter, Known
  <2> QED BY <1>8, <2>2 DEF Accepted
<1>9. CASE Rejected(e) BY <1>9 DEF Rejected
<1>10. CASE Succeed(e) BY <1>10 DEF Succeed
<1>11. CASE Retry(e)
  <2>1. attempt[e] + 1 \in 0..maxRetries BY <1>1, <1>11 DEF Retry, Placed
  <2> QED BY <1>11, <2>1 DEF Retry
<1>12. CASE Release(e)
  <2>1. sem > 0 /\ wg > 0 BY <1>12, StepCounts
  <2>2. sem - 1 \in 0..maxConcurrent /\ wg - 1 \in 0..Cardinality(Entry)
    BY <1>1, <2>1
  <2> QED BY <1>12, <2>2 DEF Release
<1> QED BY <1>2, <1>3, <1>4, <1>5, <1>6, <1>7, <1>8, <1>9, <1>10, <1>11, <1>12
        DEF Work, Request

(* Where e is and what is booked of it, at a step of e; the other entries  *)
(* are left alone.                                                         *)
LEMMA StepBooks ==
  ASSUME BatchInv, NEW e \in Entry, StartUser(e) \/ Acquire(e) \/ Work(e)
  PROVE  Placed' /\ Booked'
<1> USE DEF TypeOK, BatchInv, Placed, Booked, Goto, config, server
<1>1. CASE StartUser(e) BY <1>1 DEF StartUser
<1>2. CASE Acquire(e) BY <1>2 DEF Acquire
<1>3. CASE GetToken(e) BY <1>3 DEF GetToken
<1>4. CASE TokenError(e) BY <1>4 DEF TokenError
<1>5. CASE TokenRefused(e) BY <1>5 DEF TokenRefused
<1>6. CASE GiveUp(e) BY <1>6 DEF GiveUp
<1>7. CASE Accepted(e) BY <1>7 DEF Accepted
<1>8. CASE Rejected(e) BY <1>8 DEF Rejected
<1>9. CASE Succeed(e) BY <1>9 DEF Succeed
<1>10. CASE Retry(e) BY <1>10 DEF Retry
<1>11. CASE Release(e) BY <1>11 DEF Release
<1> QED BY <1>1, <1>2, <1>3, <1>4, <1>5, <1>6, <1>7, <1>8, <1>9, <1>10, <1>11
        DEF Work, Request

(* Only an accepted request changes the server.                            *)
LEMMA StepOneChange ==
  ASSUME BatchInv, NEW e \in Entry, StartUser(e) \/ Acquire(e) \/ Work(e)
  PROVE  OneChange'
<1>1. CASE Accepted(e)
  <2> USE <1>1 DEF Accepted, Accepts, AccountsAfter, OneChange, config
  <2>1. action' = action /\ effective' = effective \cup {e}
    OBVIOUS
  <2>2. CASE action = "create"
    <3>1. /\ Username[e] \notin accounts
          /\ accounts' = accounts \cup {Username[e]}
      BY <2>2
    <3>2. \A f \in effective : Username[f] \in accounts BY <2>2 DEF BatchInv
    <3> QED BY <2>1, <2>2, <3>1, <3>2 DEF BatchInv
  <2>3. CASE action = "delete"
    <3>1. /\ Username[e] \in accounts
          /\ accounts' = accounts \ {Username[e]}
      BY <2>3
    <3>2. \A f \in effective : Username[f] \notin accounts BY <2>3 DEF BatchInv
    <3> QED BY <2>1, <2>3, <3>1, <3>2 DEF BatchInv
  <2> QED BY <2>1, <2>2, <2>3
<1>2. CASE ~Accepted(e)
  <2>1. UNCHANGED <<action, server>>
    BY <1>2 DEF StartUser, Acquire, Work, Request, GetToken, TokenError,
                TokenRefused, GiveUp, Rejected, Succeed, Retry, Release, config
  <2> QED BY <2>1 DEF OneChange, BatchInv, server
<1> QED BY <1>1, <1>2

----------------------------------------------------------------------------
LEMMA Inductive == Spec => []BatchInv
<1>1. BatchInv /\ [Next]_vars => BatchInv'
  <2> SUFFICES ASSUME BatchInv, [Next]_vars PROVE BatchInv'
    OBVIOUS
  <2>1. ASSUME NEW e \in Entry, StartUser(e) \/ Acquire(e) \/ Work(e)
        PROVE  BatchInv'
    <3>1. Counted' BY <2>1, StepCounts DEF BatchInv
    <3> QED BY <2>1, <3>1, StepTypeOK, StepBooks, StepOneChange DEF BatchInv
  <2>2. ASSUME ProcessUsers \/ UNCHANGED vars PROVE BatchInv'
    <3>1. /\ UNCHANGED <<config, wg, sem, pc, attempt, outcome, server, lost, crashed>>
          /\ main' \in {"loop", "returned"}
      BY <2>2 DEF ProcessUsers, vars, config, server, BatchInv, TypeOK
    <3>2. Counted' BY <3>1 DEF BatchInv, Counted, Working, Waited
    <3> QED BY <3>1, <3>2 DEF BatchInv, TypeOK, Placed, Booked, OneChange,
                              config, server
  <2> QED BY <2>1, <2>2 DEF Next
<1> QED BY <1>1, InitInv, PTL DEF Spec

(* The goroutines, the two counters and the server's accounts keep their   *)
(* types: the semaphore is never released without a token, nor the wait    *)
(* group below zero (Go panics there).                                     *)
THEOREM BatchTypeCorrect == Spec => []TypeOK
<1>1. BatchInv => TypeOK BY DEF BatchInv
<1> QED BY <1>1, Inductive, PTL

(* At most MaxConcurrent users are worked on at once (ProcessUsers, sem).  *)
THEOREM BatchIsBounded == Spec => []ConcurrencyBounded
<1>1. BatchInv => ConcurrencyBounded
  <2> SUFFICES ASSUME BatchInv PROVE Cardinality(Working) <= maxConcurrent
    BY DEF ConcurrencyBounded
  <2>1. maxConcurrent \in Nat BY BatchAssumption DEF BatchInv, TypeOK
  <2> QED BY <2>1 DEF BatchInv, TypeOK, Counted
<1> QED BY <1>1, Inductive, PTL

(* What performAction logs of a user is what happened to the user, but for *)
(* lost replies; and of two entries that create or delete one user, only   *)
(* one is logged as a success.                                             *)
THEOREM LogIsHonest == Spec => []OutcomeHonest
<1>1. BatchInv => OutcomeHonest
  <2> SUFFICES ASSUME BatchInv PROVE OutcomeHonest
    OBVIOUS
  <2>1. \A e \in Entry : outcome[e] = "succeeded" => e \in effective
    BY DEF BatchInv, Booked
  <2>2. \A e \in effective : outcome[e] \in {"failed", "abandoned"} => e \in lost
    BY DEF BatchInv, TypeOK, Booked, Placed
  <2>3. ASSUME action # "update",
               NEW e \in {d \in Entry : outcome[d] = "succeeded"},
               NEW f \in {d \in Entry : outcome[d] = "succeeded"},
               Username[e] = Username[f]
        PROVE  e = f
    <3>1. action \in Known BY DEF BatchInv, Placed
    <3>2. action \in {"create", "delete"} BY <2>3, <3>1 DEF Known
    <3> QED BY <2>1, <2>3, <3>2 DEF BatchInv, OneChange
  <2> QED BY <2>1, <2>2, <2>3 DEF OutcomeHonest
<1> QED BY <1>1, Inductive, PTL
=============================================================================
