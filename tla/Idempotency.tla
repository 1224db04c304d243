---------------------------- MODULE Idempotency -----------------------------
(***************************************************************************)
(* IdempotencyMiddleware (apps/core/idempotency.py) and the                *)
(* IdempotencyRecord row it claims (apps/core/models.py), as web workers   *)
(* run them: each database statement is one step, and a worker can die     *)
(* between any two of them.  A request that the middleware passes through  *)
(* (no key, ill-formed key, exempt path, GET) touches no record and is     *)
(* not modelled.                                                           *)
(***************************************************************************)
EXTENDS Naturals

CONSTANTS
  Workers,          \* web workers; each handles one request at a time
  Keys,             \* well-formed Idempotency-Key values
  Fingerprints,     \* (method, path, principal, body hash)
  ReserveAttempts,  \* _RESERVE_ATTEMPTS
  NoRow,            \* the key has no IdempotencyRecord
  NoOwner,
  NoAnswer

\* A stored row, with "age" for expires_at against now: a reservation has no
\* response, a completed row has one.
Row ==
  [status: {"RESERVED"}, fp: Fingerprints, response: {"none"},
   age: {"live", "expired"}]
  \cup
  [status: {"COMPLETED"}, fp: Fingerprints, response: {"ok", "refused"},
   age: {"live", "expired"}]

ASSUME ReserveAttemptsAssumption == ReserveAttempts \in Nat \ {0}
ASSUME NoRowAssumption == NoRow \notin Row
ASSUME NoOwnerAssumption == NoOwner \notin Fingerprints

VARIABLES
  row,      \* [Keys -> Row or NoRow]: the idempotency table
  pc,       \* per worker: where its request is
  key,      \* per worker: the key of its request
  fp,       \* per worker: the fingerprint of its request
  tries,    \* per worker: passes through reserve()'s loop
  effects,  \* history, per key: commits of the view since the key was claimed
  answer    \* history: the last answer sent to a client

vars == <<row, pc, key, fp, tries, effects, answer>>

Steps == {"idle", "insert", "takeover", "getClaimed", "getLost", "view",
          "committed", "completeOk", "completeRefused", "release"}

\* The steps of a worker whose claim on its key succeeded and is not settled.
HolderSteps == {"getClaimed", "view", "committed", "completeOk",
                "completeRefused", "release"}

Holds(w, k) == pc[w] \in HolderSteps /\ key[w] = k

AnswerKinds == {"ok", "refused", "error", "in_flight", "key_reused"}
Answers == [key: Keys, fp: Fingerprints, kind: AnswerKinds]

TypeOK ==
  /\ row \in [Keys -> Row \cup {NoRow}]
  /\ pc \in [Workers -> Steps]
  /\ key \in [Workers -> Keys]
  /\ fp \in [Workers -> Fingerprints]
  /\ tries \in [Workers -> 0..ReserveAttempts]
  /\ effects \in [Keys -> Nat]
  /\ answer \in Answers \cup {NoAnswer}

Init ==
  /\ row = [k \in Keys |-> NoRow]
  /\ pc = [w \in Workers |-> "idle"]
  /\ key \in [Workers -> Keys]
  /\ fp \in [Workers -> Fingerprints]
  /\ tries = [w \in Workers |-> 0]
  /\ effects = [k \in Keys |-> 0]
  /\ answer = NoAnswer

-----------------------------------------------------------------------------
(* Helpers *)

\* The row reserve() writes, whether it inserts or takes over an expired one.
Reservation(f) ==
  [status |-> "RESERVED", fp |-> f, response |-> "none", age |-> "live"]

MatchesFingerprint(r, f) == r.fp = f

\* Fault: the cached response is replayed before the fingerprint is compared.
ResolveStatusFirst(r, f) ==
  IF r.status = "COMPLETED" THEN r.response
  ELSE IF ~MatchesFingerprint(r, f) THEN "key_reused"
  ELSE "in_flight"

\* _resolve_lost_claim on the row get() returned: the fingerprint is compared
\* before the status, so a reused key is never replayed.
ResolveLostClaim(r, f) ==
  IF ~MatchesFingerprint(r, f) THEN "key_reused"
  ELSE IF r.status = "RESERVED" THEN "in_flight"
  ELSE r.response

Goto(w, step) == pc' = [pc EXCEPT ![w] = step]

Reply(w, kind) ==
  /\ answer' = [key |-> key[w], fp |-> fp[w], kind |-> kind]
  /\ Goto(w, "idle")

-----------------------------------------------------------------------------
(* reserve() *)

(* A keyed, state-changing request reaches the middleware.                 *)
Receive(w, k, f) ==
  /\ pc[w] = "idle"
  /\ key' = [key EXCEPT ![w] = k]
  /\ fp' = [fp EXCEPT ![w] = f]
  /\ tries' = [tries EXCEPT ![w] = 0]
  /\ Goto(w, "insert")
  /\ UNCHANGED <<row, effects, answer>>

(* The INSERT succeeds: the caller owns the reservation.                   *)
InsertReservation(w) ==
  /\ pc[w] = "insert"
  /\ row[key[w]] = NoRow
  /\ row' = [row EXCEPT ![key[w]] = Reservation(fp[w])]
  /\ effects' = [effects EXCEPT ![key[w]] = 0]
  /\ Goto(w, "view")
  /\ UNCHANGED <<key, fp, tries, answer>>

(* The INSERT hits the unique key.                                         *)
InsertCollides(w) ==
  /\ pc[w] = "insert"
  /\ row[key[w]] # NoRow
  /\ Goto(w, "takeover")
  /\ UNCHANGED <<row, key, fp, tries, effects, answer>>

\* Fault: the conditional UPDATE has lost its expires_at predicate.
TakeOverAny(w) ==
  /\ pc[w] = "takeover"
  /\ row[key[w]] # NoRow
  /\ row' = [row EXCEPT ![key[w]] = Reservation(fp[w])]
  /\ effects' = [effects EXCEPT ![key[w]] = 0]
  /\ Goto(w, "getClaimed")
  /\ UNCHANGED <<key, fp, tries, answer>>

(* UPDATE ... WHERE key = k AND expires_at <= now matches the row, or no   *)
(* row.                                                                    *)
TakeOverExpired(w) ==
  /\ pc[w] = "takeover"
  /\ row[key[w]] # NoRow
  /\ row[key[w]].age = "expired"
  /\ row' = [row EXCEPT ![key[w]] = Reservation(fp[w])]
  /\ effects' = [effects EXCEPT ![key[w]] = 0]
  /\ Goto(w, "getClaimed")
  /\ UNCHANGED <<key, fp, tries, answer>>

TakeOverNothing(w) ==
  /\ pc[w] = "takeover"
  /\ row[key[w]] # NoRow => row[key[w]].age = "live"
  /\ Goto(w, "getLost")
  /\ UNCHANGED <<row, key, fp, tries, effects, answer>>

(* get(key) after an UPDATE that matched: run the view.                    *)
GetClaimed(w) ==
  /\ pc[w] = "getClaimed"
  /\ row[key[w]] # NoRow
  /\ Goto(w, "view")
  /\ UNCHANGED <<row, key, fp, tries, effects, answer>>

\* Fault: a loser of the claim releases on its way out, as a "finally" would.
GetLostReleases(w) ==
  /\ pc[w] = "getLost"
  /\ row[key[w]] # NoRow
  /\ row' = [row EXCEPT ![key[w]] =
               IF @.status = "RESERVED" THEN NoRow ELSE @]
  /\ Reply(w, ResolveLostClaim(row[key[w]], fp[w]))
  /\ UNCHANGED <<key, fp, tries, effects>>

(* get(key) after an UPDATE that did not match: answer from the row that   *)
(* is there now, which need not be the one the INSERT collided with.       *)
GetLost(w) ==
  /\ pc[w] = "getLost"
  /\ row[key[w]] # NoRow
  /\ Reply(w, ResolveLostClaim(row[key[w]], fp[w]))
  /\ UNCHANGED <<row, key, fp, tries, effects>>

\* Fault: the loop of reserve() is unbounded.
GetMissingForever(w) ==
  /\ pc[w] \in {"getClaimed", "getLost"}
  /\ row[key[w]] = NoRow
  /\ Goto(w, "insert")
  /\ UNCHANGED <<row, key, fp, tries, effects, answer>>

\* Fault: the loop of reserve() makes one pass too many.
GetMissingOnceMore(w) ==
  /\ pc[w] \in {"getClaimed", "getLost"}
  /\ row[key[w]] = NoRow
  /\ tries' = [tries EXCEPT ![w] = @ + 1]
  /\ IF tries[w] + 1 <= ReserveAttempts
       THEN /\ Goto(w, "insert")
            /\ UNCHANGED answer
       ELSE Reply(w, "in_flight")
  /\ UNCHANGED <<row, key, fp, effects>>

(* get(key) raises DoesNotExist, the holder having released: go round the  *)
(* loop, or give up and have the client retry.                             *)
GetMissing(w) ==
  /\ pc[w] \in {"getClaimed", "getLost"}
  /\ row[key[w]] = NoRow
  /\ tries' = [tries EXCEPT ![w] = @ + 1]
  /\ IF tries[w] + 1 < ReserveAttempts
       THEN /\ Goto(w, "insert")
            /\ UNCHANGED answer
       ELSE Reply(w, "in_flight")
  /\ UNCHANGED <<row, key, fp, effects>>

-----------------------------------------------------------------------------
(* The view, and what the middleware does with its response *)

(* The view's write commits.  There is no ATOMIC_REQUESTS, so what follows *)
(* in the view or in an inner middleware can still fail.                   *)
ViewCommits(w) ==
  /\ pc[w] = "view"
  /\ effects' = [effects EXCEPT ![key[w]] = @ + 1]
  /\ Goto(w, "committed")
  /\ UNCHANGED <<row, key, fp, tries, answer>>

(* A view refuses (3xx, 4xx) before its write, and answers 2xx after it.   *)
ViewAnswers(w) ==
  /\ \/ pc[w] = "view" /\ Goto(w, "completeRefused")
     \/ pc[w] = "committed" /\ Goto(w, "completeOk")
  /\ UNCHANGED <<row, key, fp, tries, effects, answer>>

\* Fault: a 5xx is cached like any other answer.
ViewFailureCached(w) ==
  /\ pc[w] \in {"view", "committed"}
  /\ Goto(w, "completeRefused")
  /\ UNCHANGED <<row, key, fp, tries, effects, answer>>

(* The view raises, answers 5xx or streams, before or after its write.     *)
ViewFails(w) ==
  /\ pc[w] \in {"view", "committed"}
  /\ Goto(w, "release")
  /\ UNCHANGED <<row, key, fp, tries, effects, answer>>

(* complete(): an UPDATE of the row the holder read, by primary key.       *)
Complete(w) ==
  /\ pc[w] \in {"completeOk", "completeRefused"}
  /\ row[key[w]] # NoRow
  /\ LET response == IF pc[w] = "completeOk" THEN "ok" ELSE "refused"
     IN  /\ row' = [row EXCEPT ![key[w]] =
                      [@ EXCEPT !.status = "COMPLETED",
                                !.response = response,
                                !.age = "live"]]
         /\ Reply(w, response)
  /\ UNCHANGED <<key, fp, tries, effects>>

(* release(): DELETE ... WHERE pk = row AND status = RESERVED.             *)
Release(w) ==
  /\ pc[w] = "release"
  /\ row' = IF row[key[w]] # NoRow /\ row[key[w]].status = "RESERVED"
              THEN [row EXCEPT ![key[w]] = NoRow]
              ELSE row
  /\ Reply(w, "error")
  /\ UNCHANGED <<key, fp, tries, effects>>

-----------------------------------------------------------------------------
(* The environment *)

(* The worker process dies, and its request with it.  A reservation it     *)
(* held stays in the table.                                                *)
Crash(w) ==
  /\ pc[w] # "idle"
  /\ Goto(w, "idle")
  /\ UNCHANGED <<row, key, fp, tries, effects, answer>>

(* expires_at passes.  A request is answered or killed long before the     *)
(* 24 h retention of its own reservation ends.                             *)
Expire(k) ==
  /\ row[k] # NoRow
  /\ row[k].age = "live"
  /\ \A w \in Workers: ~Holds(w, k)
  /\ row' = [row EXCEPT ![k].age = "expired"]
  /\ UNCHANGED <<pc, key, fp, tries, effects, answer>>

-----------------------------------------------------------------------------

Reserve(w) ==
  \/ InsertReservation(w) \/ InsertCollides(w)
  \/ TakeOverExpired(w) \/ TakeOverNothing(w)
  \/ GetClaimed(w) \/ GetLost(w) \/ GetMissing(w)

RunView(w) == ViewCommits(w) \/ ViewAnswers(w) \/ ViewFails(w)

Settle(w) == Complete(w) \/ Release(w)

Handle(w) == Reserve(w) \/ RunView(w) \/ Settle(w)

Next ==
  \/ \E w \in Workers:
       \/ \E k \in Keys, f \in Fingerprints: Receive(w, k, f)
       \/ Handle(w)
       \/ Crash(w)
  \/ \E k \in Keys: Expire(k)

Spec == Init /\ [][Next]_vars

\* A worker that is handling a request keeps running it: a view returns or is
\* killed by the server's request timeout.
FairSpec == Spec /\ \A w \in Workers: WF_vars(Handle(w))

-----------------------------------------------------------------------------
(* Properties *)

\* The reservation is exclusive: two requests never both hold a claim on one
\* key, whatever the order of their INSERT, conditional UPDATE and get, and
\* across a crash, a release and an expiry (IdempotencyRecordManager.reserve).
OneHolder ==
  \A w1, w2 \in Workers:
    /\ pc[w1] \in HolderSteps
    /\ pc[w2] \in HolderSteps
    /\ key[w1] = key[w2]
    => w1 = w2

\* A holder's row is still its own when it settles it: complete() and
\* release() address it by primary key and check no owner, so they rely on
\* nobody having taken it over, released it or completed it meanwhile.
HolderOwnsRow ==
  \A w \in Workers:
    pc[w] \in HolderSteps =>
      /\ row[key[w]] # NoRow
      /\ row[key[w]].status = "RESERVED"
      /\ row[key[w]].fp = fp[w]
      /\ row[key[w]].age = "live"

\* What is cached for replay is the truth about the effect: a stored 2xx stands
\* for exactly one commit, a stored refusal for none (_is_cacheable,
\* IdempotencyRecord.complete).
CachedVerdictIsTrue ==
  \A k \in Keys:
    row[k] # NoRow /\ row[k].status = "COMPLETED" =>
      effects[k] = IF row[k].response = "ok" THEN 1 ELSE 0

\* A row leaves the table only when the request that reserved it releases it:
\* a loser of the claim, or a late release, never frees a key somebody else
\* holds or a response somebody may still need (IdempotencyRecord.release).
OnlyItsHolderFreesAKey ==
  [][\A k \in Keys:
       row[k] # NoRow /\ row'[k] = NoRow =>
         /\ row[k].status = "RESERVED"
         /\ \E w \in Workers: /\ pc[w] = "release"
                             /\ key[w] = k
                             /\ fp[w] = row[k].fp]_vars

\* Every request is answered, even when other requests keep reserving and
\* releasing its key between its INSERT and its get: reserve() gives up after
\* _RESERVE_ATTEMPTS passes.
EveryRequestAnswered ==
  \A w \in Workers: pc[w] # "idle" ~> pc[w] = "idle"

\* The middleware implements the at-most-once window of AtMostOnce.tla.
windowOf ==
  [k \in Keys |->
    IF row[k] = NoRow
      THEN [phase |-> "free", owner |-> NoOwner, age |-> "live"]
      ELSE [phase |-> IF row[k].status = "RESERVED" THEN "running"
                                                   ELSE row[k].response,
            owner |-> row[k].fp,
            age |-> row[k].age]]

Abstract == INSTANCE AtMostOnce WITH window <- windowOf, Refusals <- {"refused"}

ImplementsAtMostOnce == Abstract!Spec

=============================================================================
