------------------------------ MODULE MCAlerts ------------------------------
(***************************************************************************)
(* Model-checking instances of Alerts.                                     *)
(***************************************************************************)
EXTENDS Alerts, TLC

CONSTANTS r1, r2, calm, calmer, storm

\* Two states a reader cannot tell apart, and one that differs.
NoticeOf == [s \in States |-> s = storm]

\* Bounds: one trip; a bulletin less for each of a trip, alerts turned on in the
\* first day and the simpler mode; as many as there may be only of one day; the
\* region that is not pinned has bulletins once a trip crosses it.
Focused ==
  LET trips == {d \in Days : trip[d] # {}}
      issued == {c \in Cells : bulletin[c] # NoState}
  IN  /\ Cardinality(trips) <= 1
      /\ issues + Cardinality(trips) + enabledOn
           + (IF mode = "NEW_BULLETIN" THEN 1 ELSE 0) <= MaxIssues
      /\ issues = MaxIssues => Cardinality(issued) = 1
      /\ \A c \in issued : c[1] \in Pins \cup UNION {trip[d] : d \in trips}
=============================================================================
