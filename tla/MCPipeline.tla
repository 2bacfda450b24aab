------------------------------ MODULE MCPipeline ------------------------------
(***************************************************************************)
(* Option sets for checking Pipeline.                                      *)
(***************************************************************************)
EXTENDS Pipeline

Base == [finalizer |-> TRUE, fieldOwner |-> "set", ownership |-> FALSE,
         entry |-> <<"yes", "default">>, tracking |-> TRUE, status |-> TRUE, requeue |-> FALSE]

\* A finalizer, with an owned child beside an unowned one; no finalizer, with an unowned child
\* beside an owned one; neither finalizer nor name to apply with.
MCConfigs ==
  {Base,
   [Base EXCEPT !.finalizer = FALSE, !.ownership = TRUE, !.entry[1] = "no",
                !.fieldOwner = "context", !.requeue = TRUE],
   [Base EXCEPT !.finalizer = FALSE, !.fieldOwner = "none", !.tracking = FALSE]}
==============================================================================
