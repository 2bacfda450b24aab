------------------------------ MODULE WatchOnce ------------------------------
(***************************************************************************)
(* What Watcher.Watch promises its callers (pkg/reconciler/watch/watch.go: *)
(* "watches register once per GVK"), without locks, fast path or failures: *)
(* a kind is given one source at most and keeps it, a kind that is off is  *)
(* given none, and a caller is told nil only about a kind that is settled. *)
(* This is the Watch that Wakeups takes as one step of a reconcile pass.   *)
(***************************************************************************)
EXTENDS Naturals, Sequences

CONSTANT Kinds

VARIABLES sources, off, told

onceVars == <<sources, off, told>>

Init == sources = [k \in Kinds |-> <<>>] /\ off \subseteq Kinds /\ told = {}

Start(k) ==
  /\ sources[k] = <<>> /\ k \notin off
  /\ Len(sources'[k]) = 1
  /\ \A j \in Kinds \ {k} : sources'[j] = sources[j]
  /\ told' = told \union {k} /\ UNCHANGED off

TurnOff(k) == off' = off \union {k} /\ told' = told \union {k} /\ UNCHANGED sources

Answer(k) ==
  /\ sources[k] # <<>> \/ k \in off
  /\ told' = told \union {k} /\ UNCHANGED <<sources, off>>

Next == \E k \in Kinds : Start(k) \/ TurnOff(k) \/ Answer(k)

Spec == Init /\ [][Next]_onceVars
==============================================================================
