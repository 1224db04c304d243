---------------------------- MODULE OfflineReplay ----------------------------
(***************************************************************************)
(* The mutation queue (MutationQueue.tla) against the server that answers  *)
(* its replays: the at-most-once windows of apps/core/idempotency.py       *)
(* (AtMostOnce.tla, which Idempotency.tla implements) around a view that   *)
(* stores something, such as route_create_drawn (apps/routes/views.py).    *)
(*                                                                         *)
(* Between them is a network that loses requests and answers.  A page that *)
(* closes, a worker that is killed and a fetch that times out leave their  *)
(* request behind, and the server may still run it.  A key always comes    *)
(* with the same method, path and body (enqueue() stores them with it), so *)
(* the account is all that varies in a request's fingerprint.              *)
(***************************************************************************)
EXTENDS MutationQueue

CONSTANTS
  Nobody,    \* waits for the answer to a request left behind
  NoAnswer

ASSUME NobodyAssumption == Nobody \notin Passes \cup {Worker}

VARIABLES
  requests,  \* the requests that are on their way or in the view
  window, effects, answer,  \* the server, see AtMostOnce.tla
  \* history
  total,     \* per key: commits of the view ever, two standing for more
  excuse     \* per key: why a later request may commit again

serverVars == <<window, effects, answer>>
netVars == <<requests, serverVars, total, excuse>>
allVars == <<vars, netVars>>

\* What the view answers below 500 without storing anything: a refusal (400,
\* 403, 404, 409), or a 429 of the rate limiter.
Refusals == {"refused", "throttled"}

Server == INSTANCE AtMostOnce
            WITH Fingerprints <- Principals, NoOwner <- Unset

Requests == [key: Keys, fp: Principals, from: Drainers \cup {Nobody},
             at: {"network", "view"}]

OfflineTypeOK ==
  /\ TypeOK
  /\ Server!TypeOK
  /\ requests \subseteq Requests
  /\ total \in [Keys -> 0..2]
  /\ excuse \in [Keys -> SUBSET {"expired", "failed"}]

OfflineInit ==
  /\ Init
  /\ Server!Init
  /\ requests = {}
  /\ total = [k \in Keys |-> 0]
  /\ excuse = [k \in Keys |-> {}]

-----------------------------------------------------------------------------
(* Helpers *)

\* The answers of the server, as the queue's classifyStatus sees them.
ResponseOf(kind) ==
  CASE kind = "ok" -> "success"
    [] kind = "key_reused" -> "refused"
    [] kind = "error" -> "server_error"
    [] OTHER -> kind

\* The answer goes to the drain that waits for it, if one still does.
Deliver(r, response) ==
  IF r.from = Nobody THEN UNCHANGED vars ELSE Answer(r.from, response)

Finished(r) == requests' = requests \ {r}

\* The requests of these drains stay behind.  Of two alike on the network one
\* is taken to be lost.
Orphaned(ds) ==
  requests' = {[r EXCEPT !.from = IF @ \in ds THEN Nobody ELSE @] : r \in requests}

-----------------------------------------------------------------------------
(* The client's steps *)

(* A drain posts a replay: the key is in the row, the account in the       *)
(* session cookie.                                                         *)
PostReplay(d) ==
  /\ Post(d)
  /\ requests' = requests \cup {[key |-> batch[d][cur'[d]].key, fp |-> session,
                                 from |-> d, at |-> "network"]}
  /\ UNCHANGED <<serverVars, total, excuse>>

(* The request or its answer is lost, or takes longer than the fetch's     *)
(* timeout.                                                                *)
GetsNoAnswer(r) ==
  /\ r.from # Nobody
  /\ Answer(r.from, "no_answer")
  /\ Orphaned({r.from}) \/ (r.at = "network" /\ Finished(r))
  /\ UNCHANGED <<serverVars, total, excuse>>

CloseTabMidRequest(t) ==
  /\ CloseTab(t)
  /\ Orphaned({d \in Passes : TabOf[d] = t})
  /\ UNCHANGED <<serverVars, total, excuse>>

KillWorkerMidRequest ==
  /\ KillWorker
  /\ Orphaned({Worker})
  /\ UNCHANGED <<serverVars, total, excuse>>

-----------------------------------------------------------------------------
(* The server's steps *)

(* The middleware lets the request into the view.                          *)
LetIn(r) ==
  /\ r.at = "network"
  /\ Server!Open(r.key, r.fp)
  /\ requests' = (requests \ {r}) \cup {[r EXCEPT !.at = "view"]}
  /\ UNCHANGED <<vars, total, excuse>>

(* It replays the cached response of an earlier request...                 *)
ReplayCached(r) ==
  /\ r.at = "network"
  /\ Server!Replay(r.key)
  /\ window[r.key].owner = r.fp
  /\ Deliver(r, ResponseOf(window[r.key].phase))
  /\ Finished(r)
  /\ UNCHANGED <<total, excuse>>

(* ... or turns the request away.                                          *)
TurnAway(r) ==
  /\ r.at = "network"
  /\ \E kind \in Server!TurnedAway :
       /\ Server!TurnAway(r.key, r.fp, kind)
       /\ Deliver(r, ResponseOf(kind))
  /\ Finished(r)
  /\ UNCHANGED <<total, excuse>>

ViewCommits(r) ==
  /\ r.at = "view"
  /\ Server!Commit(r.key)
  /\ total' = [total EXCEPT ![r.key] = IF @ = 2 THEN 2 ELSE @ + 1]
  /\ UNCHANGED <<vars, requests, excuse>>

ViewAnswers(r) ==
  /\ r.at = "view"
  /\ \E kind \in Server!Verdicts :
       /\ Server!Close(r.key, kind)
       /\ Deliver(r, ResponseOf(kind))
  /\ Finished(r)
  /\ UNCHANGED <<total, excuse>>

(* A 5xx, before or after the commit.                                      *)
ViewFails(r) ==
  /\ r.at = "view"
  /\ Server!Abandon(r.key)
  /\ Deliver(r, ResponseOf("error"))
  /\ Finished(r)
  /\ excuse' = [excuse EXCEPT ![r.key] =
                  IF effects[r.key] = 1 THEN @ \cup {"failed"} ELSE @]
  /\ UNCHANGED total

(* The web worker dies; its reservation stays.                             *)
ServerCrashes(r) ==
  /\ r.at = "view"
  /\ Deliver(r, "no_answer")
  /\ Finished(r)
  /\ UNCHANGED <<serverVars, total, excuse>>

(* The 24 hours end; no request takes that long.                           *)
RetentionEnds(k) ==
  /\ \A r \in requests : r.at = "view" => r.key # k
  /\ Server!Age(k)
  /\ excuse' = [excuse EXCEPT ![k] = @ \cup {"expired"}]
  /\ UNCHANGED <<vars, requests, total>>

-----------------------------------------------------------------------------

ServerSteps ==
  \/ \E r \in requests : \/ LetIn(r) \/ ReplayCached(r) \/ TurnAway(r)
                         \/ ViewCommits(r) \/ ViewAnswers(r) \/ ViewFails(r)
                         \/ ServerCrashes(r)
  \/ \E k \in Keys : RetentionEnds(k)

OfflineNext ==
  \/ Local /\ UNCHANGED netVars
  \/ \E d \in Drainers : PostReplay(d)
  \/ \E r \in requests : GetsNoAnswer(r)
  \/ \E t \in Tabs : CloseTabMidRequest(t)
  \/ KillWorkerMidRequest
  \/ ServerSteps

OfflineSpec == OfflineInit /\ [][OfflineNext]_allVars

-----------------------------------------------------------------------------
(* Properties *)

\* An acknowledgement means the thing was stored, whichever drain, retry or
\* cached response it came from ("the save landed", acknowledged() in
\* mutation_queue.js): nobody throws a draft away for nothing.
AcknowledgedHasLanded == \A k \in acks : total[k] > 0

\* A key is stored once, however many drains, retries and requests left behind
\* carry it, unless its retention ended or the view failed after its commit
\* (docs/mutation-queue.md, "The 24 h window").
LandsOnce == \A k \in Keys : total[k] = 2 => excuse[k] # {}

\* A drain that is told "refused" is told the truth: nothing was stored under
\* its key, so offering the draft for another save duplicates nothing (edit()
\* in route_draw.js).  The same two exceptions.
RefusedHasNotLanded ==
  \A d \in Drainers :
    verdict[d] = "permanent" =>
      LET k == batch[d][cur[d]].key IN total[k] = 0 \/ excuse[k] # {}

\* An answer the queue retries is not one the server keeps: the retry "gets a
\* fresh execution" (classifyStatus: 408, 429 and 5xx are "transient"; and
\* _is_cacheable, of a 5xx).
TransientIsNotKept ==
  \A k \in Keys :
    window[k].phase \in Server!Verdicts
      => ClassifyStatus(ResponseOf(window[k].phase)) # "retry"

=============================================================================
