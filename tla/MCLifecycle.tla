----------------------------- MODULE MCLifecycle -----------------------------
(* Small instances of Lifecycle for TLC. *)
EXTENDS Lifecycle

CONSTANTS c1, s1

\* s1 calls Stop from a reconciler of c1, s2 from outside the child.
MCStopsFrom == [s \in Stoppers |-> IF s = s1 THEN c1 ELSE NoController]

(***************************************************************************)
(* For liveness a behaviour has the inner stopper or the waiters, not      *)
(* both.  Nobody has to make these calls, so no fairness is cut short.     *)
(***************************************************************************)
LiveNext == Next /\ (stop'[s1] = "idle" \/ \A w \in Waiters : wait'[w] = "idle" /\ w \notin waitCtx')

LiveSpec == Init /\ [][LiveNext]_vars /\ Fairness
==============================================================================
