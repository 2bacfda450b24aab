------------------------------ MODULE MCWatcher ------------------------------
(***************************************************************************)
(* Two reconcilers, a GVK with a pre-configured handler and one without,   *)
(* and calls with each kind of option.                                     *)
(***************************************************************************)
EXTENDS Watcher

CONSTANTS g1, g2, p1, h1

MCConfigured == [g \in {g2} |-> [EmptyConfig EXCEPT !.handler = h1]]

Bare(g) == [gvk |-> g, partial |-> FALSE, opts |-> EmptyConfig]

MCCalls ==
  {<<Bare(g1), Bare(g2)>>, <<Bare(g2)>>,
   <<[Bare(g1) EXCEPT !.opts.preds = <<p1>>]>>,
   <<[Bare(g1) EXCEPT !.opts.disabled = TRUE]>>,
   <<[Bare(g2) EXCEPT !.opts.partial = TRUE]>>,
   <<[Bare(g2) EXCEPT !.partial = TRUE]>>}
==============================================================================
