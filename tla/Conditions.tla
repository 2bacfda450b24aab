----------------------------- MODULE Conditions ------------------------------
(***************************************************************************)
(* The conditions of one status (pkg/conditions): conditions are set and   *)
(* removed one at a time, and a Manager computes the target condition from *)
(* its contributors.                                                       *)
(*                                                                         *)
(* The slice of conditions is a function on the types that are present; a  *)
(* reason stands for reason and message.                                   *)
(***************************************************************************)
EXTENDS Naturals, Sequences, TLC

CONSTANTS
  Target,         \* m.target
  Contributors,   \* m.contributors, a sequence of [type, negative]
  Reasons,        \* the reasons callers give
  Gens,           \* generations
  MaxNow          \* bound on the clock

Contributing == {Contributors[i].type : i \in DOMAIN Contributors}

(***************************************************************************)
(* The target is no contributor of its own: NewManager does not look, but  *)
(* Compute would overwrite what it was computed from.                      *)
(***************************************************************************)
ASSUME ConditionsAssumption ==
  /\ Contributors \in Seq([type : Contributing, negative : BOOLEAN])
  /\ Target \notin Contributing
  /\ MaxNow \in Nat

VARIABLES
  conds,      \* accessor.GetConditions()
  now,        \* the clock
  computed    \* Compute was the last call that changed conds

condVars == <<conds, now, computed>>

Statuses == {"True", "False", "Unknown"}

CondInit == conds = <<>> /\ now = 0 /\ computed = FALSE

(***************************************************************************)
(* meta.SetStatusCondition (external): the time of the last transition     *)
(* moves only with the status; everything else is overwritten.             *)
(***************************************************************************)
SetStatusCondition(type, new) ==
  LET same == type \in DOMAIN conds /\ conds[type].status = new.status
  IN conds' = [t \in DOMAIN conds \union {type} |->
                 IF t = type
                 THEN [status |-> new.status, reason |-> new.reason, gen |-> new.gen,
                       since |-> IF same THEN conds[type].since ELSE now]
                 ELSE conds[t]]

\* Set, behind MarkTrue, MarkFalse, MarkUnknown and the helpers; an option left out is "" or 0.
Set(type, status, reason, gen) ==
  /\ SetStatusCondition(type, [status |-> status, reason |-> reason, gen |-> gen])
  /\ computed' = FALSE /\ UNCHANGED now

Remove(type) ==
  /\ conds' = [t \in DOMAIN conds \ {type} |-> conds[t]]
  /\ computed' = FALSE /\ UNCHANGED now

Healthy(c) == conds[c.type].status = IF c.negative THEN "False" ELSE "True"

AllMet     == [status |-> "True", reason |-> "Ready"]
Missing    == [status |-> "Unknown", reason |-> "ConditionMissing"]

Unhealthy(c) == [status |-> "False", reason |-> conds[c.type].reason]

\* Seeded fault: an unhealthy contributor does not end the loop, and a later one overwrites it.
VerdictOfLast ==
  LET from[i \in 1 .. Len(Contributors) + 1] ==
        IF i > Len(Contributors) THEN AllMet
        ELSE IF Contributors[i].type \notin DOMAIN conds THEN Missing
        ELSE IF Healthy(Contributors[i]) \/ from[i + 1] # AllMet THEN from[i + 1]
        ELSE Unhealthy(Contributors[i])
  IN from[1]

\* The loop of Compute: the first contributor that is missing or unhealthy ends it.
Verdict ==
  LET from[i \in 1 .. Len(Contributors) + 1] ==
        IF i > Len(Contributors) THEN AllMet
        ELSE IF Contributors[i].type \notin DOMAIN conds THEN Missing
        ELSE IF Healthy(Contributors[i]) THEN from[i + 1]
        ELSE Unhealthy(Contributors[i])
  IN from[1]

\* Seeded fault: the target is removed and set anew.
ComputeAnew(gen) ==
  /\ conds' = [t \in DOMAIN conds \union {Target} |->
                IF t = Target THEN Verdict @@ [gen |-> gen, since |-> now] ELSE conds[t]]
  /\ computed' = TRUE /\ UNCHANGED now

Compute(gen) ==
  /\ SetStatusCondition(Target, [status |-> Verdict.status, reason |-> Verdict.reason, gen |-> gen])
  /\ computed' = TRUE /\ UNCHANGED now

Tick == now < MaxNow /\ now' = now + 1 /\ UNCHANGED <<conds, computed>>

CondNext ==
  \/ \E type \in Contributing, status \in Statuses, reason \in Reasons, gen \in Gens :
       Set(type, status, reason, gen)
  \/ \E type \in Contributing \union {Target} : Remove(type)
  \/ \E gen \in Gens : Compute(gen)
  \/ Tick

CondSpec == CondInit /\ [][CondNext]_condVars
------------------------------------------------------------------------------
(***************************************************************************)
(* manager.go on Compute: with every contributor healthy the target is     *)
(* True; otherwise it tells of the first that is not: Unknown when that    *)
(* one is missing, False with its reason when it is unhealthy.             *)
(***************************************************************************)
TargetIsVerdict ==
  LET bad(i)   == Contributors[i].type \notin DOMAIN conds \/ ~Healthy(Contributors[i])
      first(i) == bad(i) /\ \A j \in 1 .. i - 1 : ~bad(j)
  IN computed =>
       /\ conds[Target].status = "True" <=> \A i \in DOMAIN Contributors : ~bad(i)
       /\ \A i \in DOMAIN Contributors : first(i) =>
            LET type == Contributors[i].type
            IN IF type \in DOMAIN conds
               THEN /\ conds[Target].status = "False"
                    /\ conds[Target].reason = conds[type].reason
               ELSE /\ conds[Target].status = "Unknown"
                    /\ conds[Target].reason = "ConditionMissing"

(***************************************************************************)
(* manager.go on Compute, which runs in every pass: the target's           *)
(* LastTransitionTime is when its status last changed, also when another   *)
(* contributor is to blame by now or its reason and generation move.       *)
(***************************************************************************)
TargetKeepsItsTime ==
  [][(Target \in DOMAIN conds \cap DOMAIN conds') =>
       conds'[Target].since =
         IF conds'[Target].status = conds[Target].status THEN conds[Target].since ELSE now]_condVars
==============================================================================
