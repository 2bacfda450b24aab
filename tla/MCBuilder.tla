------------------------------ MODULE MCBuilder ------------------------------
(***************************************************************************)
(* A program that gives For a typed predicate besides a plain one.         *)
(***************************************************************************)
EXTENDS Builder

MCCalls ==
  {[method |-> "For", gvk |-> "primary",
    opts |-> <<[NoOptions EXCEPT !.preds = {[type |-> "generation"]}],
               [NoOptions EXCEPT !.typed = {"typed"}]>>],
   [method |-> "Owns", gvk |-> "deployment", opts |-> <<[NoOptions EXCEPT !.typed = {"typed"}]>>]}

Object(fits, gen, note) ==
  [form |-> "unstructured", fits |-> fits, ns |-> "ns", name |-> "x", gen |-> gen, rv |-> gen,
   labels |-> <<>>, annotations |-> note,
   refs |-> <<[ours |-> TRUE, controller |-> TRUE, name |-> "a"]>>]

MCReports ==
  [type : {"update"}, old : {Object(TRUE, 1, "on")},
   new : {Object(f, g, n) : f \in BOOLEAN, g \in {1, 2}, n \in {"on", "off"}}]
==============================================================================
