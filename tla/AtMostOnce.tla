----------------------------- MODULE AtMostOnce -----------------------------
(***************************************************************************)
(* What the idempotency layer of apps/core promises about a key, without   *)
(* workers, reservations or database rows.  A key has a WINDOW: free,      *)
(* running (one request has been let into the view), or closed with a      *)
(* cached verdict.  Within one window the view's effect lands at most      *)
(* once, and only the request the window belongs to is answered from it.   *)
(* Idempotency.tla implements this module; OfflineReplay.tla uses it as    *)
(* the server the client's mutation queue talks to.                        *)
(***************************************************************************)
EXTENDS Naturals

CONSTANTS
  Keys,           \* Idempotency-Key values
  Fingerprints,   \* (method, path, principal, body hash) of a request
  Refusals,       \* cached answers other than the view's 2xx; none of them
                  \* is named as a phase or as another answer
  NoOwner,        \* the owner of a free window, not a fingerprint
  NoAnswer        \* no request has been answered yet

VARIABLES
  window,   \* per key: its phase, the fingerprint it belongs to, its age
  effects,  \* per key: commits of the view since the window was opened
  answer    \* the last answer sent to a client

vars == <<window, effects, answer>>

\* A verdict that is cached: the view's 2xx, or a refusal (any other status
\* below 500).
Verdicts == {"ok"} \cup Refusals
TurnedAway == {"in_flight", "key_reused"}

Window == [phase: {"free", "running"} \cup Verdicts,
           owner: Fingerprints \cup {NoOwner},
           age: {"live", "expired"}]

Answers == [key: Keys, fp: Fingerprints,
            kind: Verdicts \cup TurnedAway \cup {"error"}]

FreeWindow == [phase |-> "free", owner |-> NoOwner, age |-> "live"]

TypeOK ==
  /\ window \in [Keys -> Window]
  /\ effects \in [Keys -> Nat]
  /\ answer \in Answers \cup {NoAnswer}

Init ==
  /\ window = [k \in Keys |-> FreeWindow]
  /\ effects = [k \in Keys |-> 0]
  /\ answer = NoAnswer

Reply(k, f, kind) == answer' = [key |-> k, fp |-> f, kind |-> kind]

-----------------------------------------------------------------------------

\* Fault: a second request is let in beside the first.
OpenRunning(k, f) ==
  /\ window[k].phase \in {"free", "running"} \/ window[k].age = "expired"
  /\ window' = [window EXCEPT
       ![k] = [phase |-> "running", owner |-> f, age |-> "live"]]
  /\ effects' = [effects EXCEPT ![k] = 0]
  /\ UNCHANGED answer

(* One request is let into the view: the key is free, or its window is     *)
(* past its retention.                                                     *)
Open(k, f) ==
  /\ window[k].phase = "free" \/ window[k].age = "expired"
  /\ window' = [window EXCEPT
       ![k] = [phase |-> "running", owner |-> f, age |-> "live"]]
  /\ effects' = [effects EXCEPT ![k] = 0]
  /\ UNCHANGED answer

(* The view's transaction commits, once.                                   *)
Commit(k) ==
  /\ window[k].phase = "running"
  /\ effects[k] = 0
  /\ effects' = [effects EXCEPT ![k] = 1]
  /\ UNCHANGED <<window, answer>>

(* The view answers something cacheable: "ok" means the effect landed, a   *)
(* refusal that it did not.                                                *)
Close(k, verdict) ==
  /\ window[k].phase = "running"
  /\ verdict = "ok" <=> effects[k] = 1
  /\ window' = [window EXCEPT ![k].phase = verdict, ![k].age = "live"]
  /\ Reply(k, window[k].owner, verdict)
  /\ UNCHANGED effects

(* The view raised, or answered 5xx: the key is free again, whether or not *)
(* the effect landed.                                                      *)
Abandon(k) ==
  /\ window[k].phase = "running"
  /\ window' = [window EXCEPT ![k] = FreeWindow]
  /\ Reply(k, window[k].owner, "error")
  /\ UNCHANGED effects

(* The retention of the key ends.                                          *)
Age(k) ==
  /\ window[k].phase # "free"
  /\ window[k].age = "live"
  /\ window' = [window EXCEPT ![k].age = "expired"]
  /\ UNCHANGED <<effects, answer>>

(* A later request with the same key and fingerprint gets the same verdict. *)
Replay(k) ==
  /\ window[k].phase \in Verdicts
  /\ Reply(k, window[k].owner, window[k].phase)
  /\ UNCHANGED <<window, effects>>

(* A request that may neither run nor be replayed: another one is running,  *)
(* or the key belongs to a different request.                               *)
TurnAway(k, f, kind) ==
  /\ \/ /\ kind = "in_flight"
        /\ window[k].phase \in {"free", "running"}
     \/ /\ kind = "key_reused"
        /\ window[k].phase # "free"
        /\ window[k].owner # f
  /\ Reply(k, f, kind)
  /\ UNCHANGED <<window, effects>>

Next ==
  \E k \in Keys:
    \/ \E f \in Fingerprints:
         \/ Open(k, f)
         \/ \E kind \in TurnedAway: TurnAway(k, f, kind)
    \/ Commit(k)
    \/ \E verdict \in Verdicts: Close(k, verdict)
    \/ Abandon(k)
    \/ Age(k)
    \/ Replay(k)

Spec == Init /\ [][Next]_vars

=============================================================================
