------------------------------- MODULE MCUnits -------------------------------
(***************************************************************************)
(* Units of the library that share no state, explored side by side: the    *)
(* child's cache routing (HierarchicalCache), the condition manager        *)
(* (Conditions), the controller builder (Builder) and the configuration    *)
(* loader (Config).  In a behaviour one of them moves and the others rest. *)
(***************************************************************************)
EXTENDS HierarchicalCache, Builder, Conditions, Config, TLC

CONSTANTS a, b

VARIABLE unit

\* An item with a plain name, and one whose own name ends in "List".
MCItems == {[name |-> a, lists |-> 0], [name |-> b, lists |-> 1]}

MCContributors == <<[type |-> a, negative |-> FALSE], [type |-> b, negative |-> TRUE]>>
------------------------------------------------------------------------------
Options(handler, mapper, preds, typed, partial) ==
  <<[handler |-> handler, mapper |-> mapper, preds |-> preds, typed |-> typed, partial |-> partial, full |-> FALSE]>>

WatchFull == <<[NoOptions EXCEPT !.full = TRUE]>>

Generation == [type |-> "generation"]
DefaultOf  == [type |-> "default"]

\* Each way to be accepted, to be refused, and to be wrapped; For with plain predicates only, and
\* typed predicates that take what the watch or the mapper sees.
MCCalls ==
  [method : {"For"}, gvk : {"primary"},
   opts : {<<>>, Options(FALSE, "none", {Generation}, {}, FALSE) \o Options(FALSE, "none", {DefaultOf}, {}, FALSE),
           Options(FALSE, "typed", {}, {}, FALSE), Options(FALSE, "none", {}, {}, TRUE)}]
  \union
  [method : {"Owns"}, gvk : {"deployment"},
   opts : {<<>>, Options(TRUE, "none", {[type |-> "created"]}, {"typed", "object"}, FALSE),
           Options(FALSE, "none", {[type |-> "rv"]}, {"partial"}, TRUE)}]
  \union
  [method : {"Watches"}, gvk : {"secret"},
   opts : {<<>>, Options(FALSE, "typed", {DefaultOf}, {"typed"}, FALSE),
           Options(FALSE, "partial", {}, {}, TRUE), Options(FALSE, "unstructured", {}, {}, TRUE),
           Options(FALSE, "unstructured", {}, {}, TRUE) \o WatchFull,
           Options(FALSE, "unstructured", {Generation}, {"unstructured"}, FALSE)}]
  \union
  [method : {"Owns"}, gvk : {"noKind"}, opts : {<<>>}]

ASSUME MCCallsAreProper == \A c \in Calls : Proper(c)

Object(fits, gen, labels, refs) ==
  [form |-> "unstructured", fits |-> fits, ns |-> "ns", name |-> "x", gen |-> gen, rv |-> gen,
   labels |-> labels, annotations |-> IF gen = 2 THEN "off" ELSE "on",
   refs |-> refs]

Ref(n) == [ours |-> TRUE, controller |-> TRUE, name |-> n]

Seen ==
  {Object(TRUE, 1, <<>>, <<Ref("a")>>), Object(TRUE, 2, [owner |-> "b"], <<Ref("a")>>),
   Object(TRUE, 3, [owner |-> ""], <<Ref("b")>>), Object(FALSE, 3, [owner |-> "b"], <<Ref("a")>>),
   Object(TRUE, 0, [owner |-> "b", ownerNs |-> "other"], <<[Ref("a") EXCEPT !.controller = FALSE]>>)}

MCReports == [type : {"create", "delete"}, old : {Nil}, new : Seen] \union [type : {"update"}, old : Seen, new : Seen]
------------------------------------------------------------------------------
Field(prefix, words, type, init) ==
  [path |-> prefix, words |-> words, tagged |-> TRUE, flag |-> words, type |-> type, init |-> init]

Name == Field(<<>>, <<"name">>, "string", "default")
Port == Field(<<<<"server">>>>, <<"port">>, "number", "zero")

\* Nested fields, a clash of flag names, types that bind otherwise or not at all, tags left out,
\* a tag that does not parse.
MCStructs ==
  {<<Name, Port, Field(<<>>, <<"when">>, "time", "zero")>>,
   <<Port, Field(<<>>, <<"server", "port">>, "number", "zero")>>,
   <<Field(<<>>, <<"limit">>, "pointer", "zero"), [Port EXCEPT !.init = "default", !.flag = <<"-">>],
     [Field(<<>>, <<"log", "level">>, "string", "default") EXCEPT !.tagged = FALSE]>>,
   <<Name, Field(<<>>, <<"ip">>, "ip", "zero"), Field(<<>>, <<"tags">>, "other", "zero"),
     [Field(<<>>, <<"bad">>, "string", "zero") EXCEPT !.flag = <<"bad tag">>]>>}

\* A FlagSet as it is made, and one where the program has a flag of its own called name.
MCFlagSets == {{}, {<<"name">>}}

Key(words) == [words |-> words, sep |-> ""]
NameKey    == <<Key(<<"name">>)>>
PortKey    == <<Key(<<"server">>), Key(<<"port">>)>>

MCEnvs == {<<>>, <<"name">> :> "env", <<"server", "port">> :> "env", <<"server", "port">> :> "bad"}

File(type, values) == [type |-> type, values |-> values]

MCPaths ==
  {[type |-> "unset"], [type |-> "missing"], File("file", NameKey :> "file"), File("file", PortKey :> "file"),
   [type |-> "dir", entries |-> <<File("structured", NameKey :> "file" @@ PortKey :> "file"),
                                  File("structured", NameKey :> "later")>>],
   [type |-> "dir", entries |-> <<File("simple", NameKey :> "simple"), File("structured", NameKey :> "file")>>],
   [type |-> "dir", entries |-> <<File("hidden", <<>>)>>]}
------------------------------------------------------------------------------
UnitsInit ==
  /\ unit \in {"cache", "conditions", "builder", "config"}
  /\ Init /\ Cardinality(forced) <= 2
  /\ CondInit /\ BuildInit /\ ConfInit
  /\ unit # "cache" => child = parent /\ forced = {} /\ DOMAIN child = {}
  /\ unit # "builder" => known /\ named
  /\ unit # "config" => struct = <<Name, Port, Field(<<>>, <<"when">>, "time", "zero")>> 
                          /\ fs = {} /\ env = <<>> /\ path.type = "unset"

UnitsNext ==
  \/ unit = "cache" /\ Next /\ UNCHANGED <<unit, condVars, buildVars, confVars>>
  \/ unit = "conditions" /\ CondNext /\ UNCHANGED <<unit, vars, buildVars, confVars>>
  \/ unit = "builder" /\ BuildNext /\ UNCHANGED <<unit, vars, condVars, confVars>>
  \/ unit = "config" /\ ConfNext /\ UNCHANGED <<unit, vars, condVars, buildVars>>

UnitsSpec == UnitsInit /\ [][UnitsNext]_<<unit, vars, condVars, buildVars, confVars>>
==============================================================================
