------------------------- MODULE IdempotencyProofs --------------------------
(***************************************************************************)
(* Theorems about Idempotency for any number of workers, keys,             *)
(* fingerprints and reserve() attempts.                                    *)
(***************************************************************************)
EXTENDS Idempotency, TLAPS

\* The tries of a worker inside reserve()'s loop stay below the bound: the loop
\* is left when the last attempt fails.
TriesInLoop ==
  \A w \in Workers:
    pc[w] \in {"insert", "takeover", "getClaimed", "getLost"} =>
      tries[w] < ReserveAttempts

\* How many commits a holder has made, told by where it is.
HolderEffects ==
  \A w \in Workers:
    /\ pc[w] \in {"getClaimed", "view", "completeRefused"} => effects[key[w]] = 0
    /\ pc[w] \in {"committed", "completeOk"} => effects[key[w]] = 1

\* The inductive invariant: a claim is exclusive because a holder's row is
\* reserved, live and its own, so neither INSERT nor takeover can succeed
\* beside it; and what complete() caches is true because of HolderEffects.
IInv ==
  /\ OneHolder
  /\ HolderOwnsRow
  /\ HolderEffects
  /\ CachedVerdictIsTrue

-----------------------------------------------------------------------------

\* Type correctness, with the bound on the loop of reserve() that it needs.
LEMMA TypeInvariant == Spec => [](TypeOK /\ TriesInLoop)
<1>1. Init => TypeOK /\ TriesInLoop
  BY ReserveAttemptsAssumption DEF Init, TypeOK, TriesInLoop, Steps
<1>2. TypeOK /\ TriesInLoop /\ [Next]_vars => (TypeOK /\ TriesInLoop)'
  <2> SUFFICES ASSUME TypeOK, TriesInLoop, [Next]_vars
               PROVE  TypeOK' /\ TriesInLoop'
    OBVIOUS
  <2> USE ReserveAttemptsAssumption
  <2> USE DEF TypeOK, TriesInLoop, Steps, Answers, AnswerKinds, Goto, Reply
  <2>1. ASSUME NEW w \in Workers, NEW k \in Keys, NEW f \in Fingerprints,
               Receive(w, k, f)
        PROVE  TypeOK' /\ TriesInLoop'
    BY <2>1 DEF Receive
  <2>2. ASSUME NEW w \in Workers, InsertReservation(w)
        PROVE  TypeOK' /\ TriesInLoop'
    BY <2>2 DEF InsertReservation, Reservation, Row
  <2>3. ASSUME NEW w \in Workers, InsertCollides(w)
        PROVE  TypeOK' /\ TriesInLoop'
    BY <2>3 DEF InsertCollides
  <2>4. ASSUME NEW w \in Workers, TakeOverExpired(w)
        PROVE  TypeOK' /\ TriesInLoop'
    BY <2>4 DEF TakeOverExpired, Reservation, Row
  <2>5. ASSUME NEW w \in Workers, TakeOverNothing(w)
        PROVE  TypeOK' /\ TriesInLoop'
    BY <2>5 DEF TakeOverNothing
  <2>6. ASSUME NEW w \in Workers, GetClaimed(w)
        PROVE  TypeOK' /\ TriesInLoop'
    BY <2>6 DEF GetClaimed
  <2>7. ASSUME NEW w \in Workers, GetLost(w)
        PROVE  TypeOK' /\ TriesInLoop'
    BY <2>7 DEF GetLost, ResolveLostClaim, MatchesFingerprint, Row
  <2>8. ASSUME NEW w \in Workers, GetMissing(w)
        PROVE  TypeOK' /\ TriesInLoop'
    BY <2>8 DEF GetMissing
  <2>9. ASSUME NEW w \in Workers, RunView(w)
        PROVE  TypeOK' /\ TriesInLoop'
    BY <2>9 DEF RunView, ViewCommits, ViewAnswers, ViewFails
  <2>10. ASSUME NEW w \in Workers, Complete(w)
         PROVE  TypeOK' /\ TriesInLoop'
    BY <2>10, ZenonT(60) DEF Complete, Row
  <2>11. ASSUME NEW w \in Workers, Release(w)
         PROVE  TypeOK' /\ TriesInLoop'
    BY <2>11 DEF Release
  <2>12. ASSUME NEW w \in Workers, Crash(w)
         PROVE  TypeOK' /\ TriesInLoop'
    BY <2>12 DEF Crash
  <2>13. ASSUME NEW k \in Keys, Expire(k)
         PROVE  TypeOK' /\ TriesInLoop'
    BY <2>13 DEF Expire, Row
  <2>14. CASE UNCHANGED vars
    BY <2>14 DEF vars
  <2> QED
    BY <2>1, <2>2, <2>3, <2>4, <2>5, <2>6, <2>7, <2>8, <2>9, <2>10, <2>11,
       <2>12, <2>13, <2>14 DEF Next, Handle, Reserve, Settle
<1>3. QED
  BY <1>1, <1>2, PTL DEF Spec

-----------------------------------------------------------------------------

\* Every step of the middleware preserves the inductive invariant.
LEMMA InductiveStep ==
  ASSUME TypeOK, TriesInLoop, IInv, [Next]_vars
  PROVE  IInv'
<1> USE NoRowAssumption
<1> USE DEF TypeOK, Steps, HolderSteps, Goto
<1> USE DEF IInv, OneHolder, HolderOwnsRow, HolderEffects, CachedVerdictIsTrue
<1>1. ASSUME NEW w \in Workers, NEW k \in Keys, NEW f \in Fingerprints,
             Receive(w, k, f)
      PROVE  IInv'
  BY <1>1 DEF Receive
<1>2. ASSUME NEW w \in Workers, InsertReservation(w)
      PROVE  IInv'
  BY <1>2 DEF InsertReservation, Reservation, Row
<1>3. ASSUME NEW w \in Workers, InsertCollides(w)
      PROVE  IInv'
  BY <1>3 DEF InsertCollides, Row
<1>4. ASSUME NEW w \in Workers, TakeOverExpired(w)
      PROVE  IInv'
  BY <1>4 DEF TakeOverExpired, Reservation, Row
<1>5. ASSUME NEW w \in Workers, TakeOverNothing(w)
      PROVE  IInv'
  BY <1>5 DEF TakeOverNothing, Row
<1>6. ASSUME NEW w \in Workers, GetClaimed(w)
      PROVE  IInv'
  BY <1>6 DEF GetClaimed, Row
<1>7. ASSUME NEW w \in Workers, GetLost(w)
      PROVE  IInv'
  BY <1>7 DEF GetLost, Reply, Row
<1>8. ASSUME NEW w \in Workers, GetMissing(w)
      PROVE  IInv'
  BY <1>8 DEF GetMissing, Reply, Row
<1>9. ASSUME NEW w \in Workers, ViewCommits(w)
      PROVE  IInv'
  BY <1>9 DEF ViewCommits, Row
<1>10. ASSUME NEW w \in Workers, ViewAnswers(w)
      PROVE  IInv'
  BY <1>10 DEF ViewAnswers, Row
<1>11. ASSUME NEW w \in Workers, ViewFails(w)
      PROVE  IInv'
  BY <1>11 DEF ViewFails, Row
<1>12. ASSUME NEW w \in Workers, Complete(w)
      PROVE  IInv'
  BY <1>12 DEF Complete, Reply, Row
<1>13. ASSUME NEW w \in Workers, Release(w)
      PROVE  IInv'
  BY <1>13 DEF Release, Reply, Row
<1>14. ASSUME NEW w \in Workers, Crash(w)
      PROVE  IInv'
  BY <1>14 DEF Crash, Row
<1>15. ASSUME NEW k \in Keys, Expire(k)
      PROVE  IInv'
  BY <1>15 DEF Expire, Holds, Row
<1>16. CASE UNCHANGED vars
  BY <1>16 DEF vars
<1> QED
  BY <1>1, <1>2, <1>3, <1>4, <1>5, <1>6, <1>7, <1>8, <1>9,
     <1>10, <1>11, <1>12, <1>13, <1>14, <1>15, <1>16
  DEF Next, Handle, Reserve, RunView, Settle

\* The inductive invariant holds of every behaviour.
LEMMA Inductive == Spec => []IInv
<1>1. Init => IInv
  BY DEF Init, IInv, OneHolder, HolderOwnsRow, HolderEffects,
         CachedVerdictIsTrue, HolderSteps
<1>2. TypeOK /\ TriesInLoop /\ IInv /\ [Next]_vars => IInv'
  BY InductiveStep
<1>3. QED
  BY <1>1, <1>2, TypeInvariant, PTL DEF Spec

-----------------------------------------------------------------------------

\* Type correctness of the middleware and its table.
THEOREM TypeCorrect == Spec => []TypeOK
<1> QED
  BY TypeInvariant, PTL

\* No two requests are ever past reserve() with the same key: the claim is
\* exclusive (the at-most-once guarantee reserve()'s docstring states).
THEOREM ClaimIsExclusive == Spec => []OneHolder
<1>1. IInv => OneHolder
  BY DEF IInv
<1> QED
  BY <1>1, Inductive, PTL

\* complete() and release(), which check no owner, always find the row the
\* request reserved.
THEOREM HolderKeepsItsRow == Spec => []HolderOwnsRow
<1>1. IInv => HolderOwnsRow
  BY DEF IInv
<1> QED
  BY <1>1, Inductive, PTL

\* A cached 2xx stands for one commit and a cached refusal for none.
THEOREM CacheIsTrue == Spec => []CachedVerdictIsTrue
<1>1. IInv => CachedVerdictIsTrue
  BY DEF IInv
<1> QED
  BY <1>1, Inductive, PTL

\* A row leaves the table only by the release of the request that reserved it.
THEOREM FreedByHolder == Spec => OnlyItsHolderFreesAKey
<1> DEFINE Freed ==
      \A k \in Keys:
        row[k] # NoRow /\ row'[k] = NoRow =>
          /\ row[k].status = "RESERVED"
          /\ \E w \in Workers: /\ pc[w] = "release"
                              /\ key[w] = k
                              /\ fp[w] = row[k].fp
<1>1. TypeOK /\ IInv /\ [Next]_vars => [Freed]_vars
  <2> SUFFICES ASSUME TypeOK, IInv, Next, NEW k \in Keys,
                      row[k] # NoRow, row'[k] = NoRow
               PROVE  /\ row[k].status = "RESERVED"
                      /\ \E w \in Workers: /\ pc[w] = "release"
                                          /\ key[w] = k
                                          /\ fp[w] = row[k].fp
    OBVIOUS
  <2> USE NoRowAssumption DEF TypeOK
  <2>1. ASSUME NEW w \in Workers, InsertReservation(w)
        PROVE  row'[k] # NoRow
    BY <2>1 DEF InsertReservation, Reservation, Row
  <2>2. ASSUME NEW w \in Workers, TakeOverExpired(w)
        PROVE  row'[k] # NoRow
    BY <2>2 DEF TakeOverExpired, Reservation, Row
  <2>3. ASSUME NEW w \in Workers, Complete(w)
        PROVE  row'[k] # NoRow
    <3> DEFINE done == [row[key[w]] EXCEPT
                          !.status = "COMPLETED",
                          !.response = IF pc[w] = "completeOk" THEN "ok"
                                                               ELSE "refused",
                          !.age = "live"]
    <3>1. row[key[w]] \in Row
      BY <2>3 DEF Complete
    <3>2. done \in Row
      BY <3>1 DEF Row
    <3>3. row' = [row EXCEPT ![key[w]] = done]
      BY <2>3 DEF Complete
    <3> QED
      BY <3>2, <3>3
  <2>4. ASSUME NEW j \in Keys, Expire(j)
        PROVE  row'[k] # NoRow
    BY <2>4 DEF Expire, Row
  <2>5. ASSUME NEW w \in Workers, Release(w)
        PROVE  /\ row[k].status = "RESERVED"
               /\ pc[w] = "release" /\ key[w] = k /\ fp[w] = row[k].fp
    BY <2>5 DEF Release, IInv, HolderOwnsRow, HolderSteps
  <2>6. CASE UNCHANGED row
    BY <2>6
  <2> QED
    BY <2>1, <2>2, <2>3, <2>4, <2>5, <2>6
    DEF Next, Handle, Reserve, RunView, Settle, Receive, InsertCollides,
        TakeOverNothing, GetClaimed, GetLost, GetMissing, ViewCommits,
        ViewAnswers, ViewFails, Crash
<1>2. QED
  BY <1>1, TypeInvariant, Inductive, PTL DEF Spec, OnlyItsHolderFreesAKey

-----------------------------------------------------------------------------

\* The middleware implements the at-most-once window of AtMostOnce: every
\* statement it runs is a step of the window or changes nothing of it.
THEOREM Refinement == Spec => ImplementsAtMostOnce
<1> USE NoRowAssumption
<1>1. Init => Abstract!Init
  BY DEF Init, Abstract!Init, Abstract!FreeWindow, windowOf
<1>2. TypeOK /\ IInv /\ [Next]_vars => [Abstract!Next]_(Abstract!vars)
  <2> SUFFICES ASSUME TypeOK, IInv, [Next]_vars
               PROVE  Abstract!Next \/ UNCHANGED Abstract!vars
    OBVIOUS
  <2> USE DEF TypeOK, windowOf, Abstract!vars
  <2>1. ASSUME NEW w \in Workers, NEW k \in Keys, NEW f \in Fingerprints,
               Receive(w, k, f)
        PROVE  UNCHANGED Abstract!vars
    BY <2>1 DEF Receive
  <2>2. ASSUME NEW w \in Workers, InsertReservation(w)
        PROVE  Abstract!Open(key[w], fp[w])
    BY <2>2 DEF InsertReservation, Reservation, Row, Abstract!Open
  <2>3. ASSUME NEW w \in Workers, TakeOverExpired(w)
        PROVE  Abstract!Open(key[w], fp[w])
    BY <2>3 DEF TakeOverExpired, Reservation, Row, Abstract!Open
  <2>4. ASSUME NEW w \in Workers,
               \/ InsertCollides(w) \/ TakeOverNothing(w) \/ GetClaimed(w)
               \/ ViewAnswers(w) \/ ViewFails(w) \/ Crash(w)
        PROVE  UNCHANGED Abstract!vars
    BY <2>4 DEF InsertCollides, TakeOverNothing, GetClaimed, ViewAnswers,
                ViewFails, Crash
  <2>5. ASSUME NEW w \in Workers, GetLost(w)
        PROVE  \/ Abstract!Replay(key[w])
               \/ \E kind \in Abstract!TurnedAway:
                    Abstract!TurnAway(key[w], fp[w], kind)
    BY <2>5 DEF GetLost, Reply, ResolveLostClaim, MatchesFingerprint, Row,
                Abstract!Replay, Abstract!TurnAway, Abstract!Reply,
                Abstract!TurnedAway, Abstract!Verdicts
  <2>6. ASSUME NEW w \in Workers, GetMissing(w)
        PROVE  \/ UNCHANGED Abstract!vars
               \/ Abstract!TurnAway(key[w], fp[w], "in_flight")
    BY <2>6 DEF GetMissing, Reply, Abstract!TurnAway, Abstract!Reply
  <2>7. ASSUME NEW w \in Workers, ViewCommits(w)
        PROVE  Abstract!Commit(key[w])
    <3>1. /\ key[w] \in Keys
          /\ row[key[w]] # NoRow
          /\ row[key[w]].status = "RESERVED"
          /\ effects[key[w]] = 0
      BY <2>7 DEF ViewCommits, IInv, HolderOwnsRow, HolderEffects, HolderSteps
    <3>2. effects' = [effects EXCEPT ![key[w]] = 1]
      BY <2>7, <3>1 DEF ViewCommits
    <3>3. UNCHANGED <<windowOf, answer>>
      BY <2>7 DEF ViewCommits
    <3>4. windowOf[key[w]].phase = "running"
      BY <3>1
    <3> QED
      BY <3>1, <3>2, <3>3, <3>4 DEF Abstract!Commit
  <2>8. ASSUME NEW w \in Workers, Complete(w)
        PROVE  \/ Abstract!Close(key[w], "ok")
               \/ Abstract!Close(key[w], "refused")
    <3> DEFINE k == key[w]
               v == IF pc[w] = "completeOk" THEN "ok" ELSE "refused"
    <3>1. /\ k \in Keys
          /\ row[k] \in Row
          /\ row[k].status = "RESERVED"
          /\ row[k].fp = fp[w]
      BY <2>8 DEF Complete, IInv, HolderOwnsRow, HolderSteps
    <3>2. v = IF effects[k] = 1 THEN "ok" ELSE "refused"
      BY <2>8 DEF Complete, IInv, HolderEffects
    <3>3. row' = [row EXCEPT ![k] = [row[k] EXCEPT !.status = "COMPLETED",
                                                   !.response = v,
                                                   !.age = "live"]]
      BY <2>8 DEF Complete
    <3>4. /\ row'[k] # NoRow
          /\ row'[k].status = "COMPLETED"
          /\ row'[k].response = v
          /\ row'[k].fp = row[k].fp
          /\ row'[k].age = "live"
      <4>1. [row[k] EXCEPT !.status = "COMPLETED", !.response = v,
                           !.age = "live"] \in Row
        BY <3>1 DEF Row
      <4> QED
        BY <3>1, <3>3, <4>1 DEF Row
    <3>5. windowOf[k].phase = "running" /\ windowOf[k].owner = fp[w]
      BY <3>1
    <3>6. windowOf' = [windowOf EXCEPT ![k].phase = v, ![k].age = "live"]
      BY <3>1, <3>3, <3>4
    <3>7. answer' = [key |-> k, fp |-> fp[w], kind |-> v]
      BY <2>8 DEF Complete, Reply
    <3>8. UNCHANGED effects
      BY <2>8 DEF Complete
    <3>9. CASE v = "ok"
      <4>1. Abstract!Close(k, "ok")
        BY <3>2, <3>5, <3>6, <3>7, <3>8, <3>9 DEF Abstract!Close, Abstract!Reply
      <4> QED
        BY <4>1
    <3>10. CASE v = "refused"
      <4>1. Abstract!Close(k, "refused")
        BY <3>2, <3>5, <3>6, <3>7, <3>8, <3>10 DEF Abstract!Close, Abstract!Reply
      <4> QED
        BY <4>1
    <3> QED
      BY <3>9, <3>10
  <2>9. ASSUME NEW w \in Workers, Release(w)
        PROVE  Abstract!Abandon(key[w])
    BY <2>9 DEF Release, Reply, IInv, HolderOwnsRow, HolderSteps, Row,
                Abstract!Abandon, Abstract!Reply, Abstract!FreeWindow
  <2>10. ASSUME NEW k \in Keys, Expire(k)
         PROVE  Abstract!Age(k)
    BY <2>10, ZenonT(60) DEF Expire, Row, Abstract!Age
  <2>11. CASE UNCHANGED vars
    BY <2>11 DEF vars
  <2>12. ASSUME NEW w \in Workers, Handle(w)
         PROVE  Abstract!Next \/ UNCHANGED Abstract!vars
    <3>1. key[w] \in Keys /\ fp[w] \in Fingerprints
      OBVIOUS
    <3> HIDE DEF TypeOK, windowOf, Abstract!vars
    <3>2. CASE InsertReservation(w) \/ TakeOverExpired(w)
      BY <2>2, <2>3, <3>1, <3>2 DEF Abstract!Next
    <3>3. CASE GetLost(w)
      BY <2>5, <3>1, <3>3 DEF Abstract!Next
    <3>4. CASE GetMissing(w)
      BY <2>6, <3>1, <3>4 DEF Abstract!Next, Abstract!TurnedAway
    <3>5. CASE ViewCommits(w)
      BY <2>7, <3>1, <3>5 DEF Abstract!Next
    <3>6. CASE Complete(w)
      BY <2>8, <3>1, <3>6 DEF Abstract!Next, Abstract!Verdicts
    <3>7. CASE Release(w)
      BY <2>9, <3>1, <3>7 DEF Abstract!Next
    <3> QED
      BY <2>4, <2>12, <3>2, <3>3, <3>4, <3>5, <3>6, <3>7
      DEF Handle, Reserve, RunView, Settle
  <2>13. ASSUME NEW k \in Keys, Expire(k)
         PROVE  Abstract!Next
    BY <2>10, <2>13 DEF Abstract!Next
  <2> QED
    BY <2>1, <2>4, <2>11, <2>12, <2>13 DEF Next
<1>3. QED
  BY <1>1, <1>2, TypeInvariant, Inductive, PTL
  DEF Spec, ImplementsAtMostOnce, Abstract!Spec

=============================================================================
