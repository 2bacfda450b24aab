-------------------------------- MODULE Config --------------------------------
(***************************************************************************)
(* The configuration loader (pkg/config, pkg/config/flags): For reads the  *)
(* defaults out of the program's struct and binds its fields to the        *)
(* environment and to flags; Load reads the files and decodes all sources  *)
(* into the struct.  A program may Load again, or make a new loader.       *)
(*                                                                         *)
(* A value is named after the source that gave it; "zero" is Go's zero     *)
(* value, "empty" a pointer to one, "bad" a text that is no number, IP or  *)
(* time.  A name is its sequence of words and a key its sequence of        *)
(* segments, so that camel, kebab and snake case are the same words with   *)
(* other separators.                                                       *)
(***************************************************************************)
EXTENDS Naturals, Sequences, FiniteSets

CONSTANTS
  Structs,   \* the config structs: sequences of fields in declaration order
  Envs,      \* the environments: values by name
  Paths,     \* what CONTROLLER_CONFIGURATION_PATH may point to
  FlagSets,  \* the flags a program may have defined itself before it hands its FlagSet to WithFlags
  MaxFors, MaxLoads

\* A directory's entries all have values: none but the keys of a file that is loaded.
ASSUME ConfigAssumption ==
  /\ \A s \in Structs : s \in Seq({s[i] : i \in DOMAIN s})
  /\ \A p \in Paths :
       /\ p.type \in {"unset", "missing", "unparsable", "file", "dir"}
       /\ p.type = "file" => p.values = [k \in DOMAIN p.values |-> p.values[k]]
       /\ p.type = "dir"  => /\ p.entries \in Seq({p.entries[i] : i \in DOMAIN p.entries})
                             /\ \A i \in DOMAIN p.entries :
                                  p.entries[i].values = [k \in DOMAIN p.entries[i].values |-> p.entries[i].values[k]]
  /\ MaxFors \in Nat /\ MaxLoads \in Nat

VARIABLES
  struct,    \* the struct's type
  cfg,       \* the struct's fields
  loader,    \* the Loader with its viper, or NoLoader
  fs,        \* the flags of the program's FlagSet
  given,     \* the flags set on the command line
  env, path, \* the environment, and what the configured path points to
  outcome,   \* of the last For or Load, until the files change
  fors       \* how many For calls there were

confVars == <<struct, cfg, loader, fs, given, env, path, outcome, fors>>

None       == [k \in {} |-> ""]
Over(f, g) == [k \in DOMAIN f \union DOMAIN g |-> IF k \in DOMAIN f THEN f[k] ELSE g[k]]
NoLoader   == [live |-> FALSE]

\* A flat field: its name, its tags and its type.
Segment(words, sep) == [words |-> words, sep |-> IF Len(words) = 1 THEN "" ELSE sep]
ToSnakeCase(words)  == Segment(words, "_")
ToKebabCase(words)  == Segment(words, "-")

\* The key of setDefaults and bindEnvVars: the mapstructure tags down to the field.
Prefix(f)    == [i \in DOMAIN f.path |-> ToSnakeCase(f.path[i])]
ConfigKey(f) == Append(Prefix(f), ToSnakeCase(f.words))

\* What mapstructure looks for: the tag, or the field's name in whatever case.
DecodeKey(f) == IF f.tagged THEN ConfigKey(f) ELSE Append(Prefix(f), Segment(f.words, ""))

\* nestedPrefix: the names from the outermost struct to the innermost, one after the other.
Joined(names) ==
  LET prefix[i \in 0 .. Len(names)] == IF i = 0 THEN <<>> ELSE prefix[i - 1] \o names[i]
  IN prefix[Len(names)]

\* GetConfigKey as bindStructWithTracking calls it: the prefix is the one of the flag's name.
GetConfigKey(f) ==
  LET key == <<ToSnakeCase(f.words)>>
  IN IF f.path = <<>> THEN key ELSE <<ToKebabCase(Joined(f.path))>> \o key

\* GetFlagName: a given name or the field's, after the names of the structs around it.
GetFlagName(f) == Joined(f.path) \o f.flag

\* SetEnvKeyReplacer: every separator becomes an underscore.
EnvName(key) == Joined([i \in DOMAIN key |-> key[i].words])
------------------------------------------------------------------------------
\* Registry.Get: all the types but those of a slice, map or struct of the program's own.
CanBind(f) == f.type # "other"

\* The binders: the flag's default is the text of the field; a nil pointer binds as a zero value
\* and a nil IP as the text "<nil>".
FlagDefault(f, v) ==
  CASE v # "zero"          -> v
    [] f.type = "pointer"  -> "empty"
    [] f.type = "ip"       -> "bad"
    [] OTHER               -> v

\* bindStructWithTracking recurses into time.Time, a struct without exported fields.
WantsFlag(f) == f.flag # <<"-">> /\ f.type # "time"

\* Seeded fault: names that are taken are not noticed.
BindErrorNoDuplicates(i) == WantsFlag(struct[i]) /\ struct[i].flag = <<"bad tag">>

\* A tag that does not parse, or the name of an earlier flag.
BindError(i) ==
  /\ WantsFlag(struct[i])
  /\ \/ struct[i].flag = <<"bad tag">>
     \/ \E j \in 1 .. i - 1 :
          WantsFlag(struct[j]) /\ GetFlagName(struct[j]) = GetFlagName(struct[i])

\* BindStruct goes field by field and stops at the first error; what it bound before stays.
Reached == {i \in DOMAIN struct : \A j \in 1 .. i : ~BindError(j)}
Bound   == {i \in Reached : WantsFlag(struct[i]) /\ CanBind(struct[i])}
Names   == {GetFlagName(struct[i]) : i \in Bound}

\* pflag panics when a flag is defined twice; bindStructWithTracking knows the struct's own flags
\* and does not ask the FlagSet.
Redefines == fs \intersect Names # {} \/ Cardinality(Names) < Cardinality(Bound)

Flags ==
  [k \in {GetConfigKey(struct[i]) : i \in Bound} |->
     LET f == CHOOSE i \in Bound : GetConfigKey(struct[i]) = k
     IN [name |-> GetFlagName(struct[f]), default |-> FlagDefault(struct[f], cfg[f])]]

\* setDefaultsRecursive: the fields that are not zero and have a tag.
Defaults ==
  LET set == {i \in DOMAIN struct : struct[i].tagged /\ cfg[i] # "zero"}
  IN [k \in {ConfigKey(struct[i]) : i \in set} |-> cfg[CHOOSE i \in set : ConfigKey(struct[i]) = k]]

\* bindEnvVarsRecursive: every field with a tag.
EnvKeys == {ConfigKey(struct[i]) : i \in {j \in DOMAIN struct : struct[j].tagged}}

ConfInit ==
  /\ struct \in Structs
  /\ cfg = [i \in DOMAIN struct |-> struct[i].init]
  /\ loader = NoLoader /\ fs \in FlagSets /\ given = {}
  /\ env \in Envs /\ path \in Paths
  /\ outcome = "none" /\ fors = 0

(***************************************************************************)
(* For with AutomaticEnv and with or without WithFlags; it refuses what is *)
(* no pointer to a struct, and gives no loader when the flags do not bind. *)
(***************************************************************************)
LoaderFor(valid, automatic, flags) ==
  /\ outcome # "panic" /\ fors < MaxFors
  /\ fors' = fors + 1
  /\ fs' = IF valid /\ flags THEN fs \union Names ELSE fs
  /\ outcome' = IF ~valid THEN "error"
                ELSE IF flags /\ Redefines THEN "panic"
                ELSE IF flags /\ Reached # DOMAIN struct THEN "error"
                ELSE "ok"
  /\ loader' = IF outcome' # "ok" THEN NoLoader
               ELSE [live |-> TRUE, automatic |-> automatic,
                     defaults |-> Defaults, envKeys |-> IF automatic THEN EnvKeys ELSE {},
                     flags |-> IF flags THEN Flags ELSE None,
                     config |-> None, override |-> None,
                     base |-> cfg, loads |-> 0, merged |-> FALSE]
  /\ UNCHANGED <<struct, cfg, given, env, path>>

\* The command line is parsed once, after the flags are bound.
Parse(names) ==
  /\ loader.live /\ given = {} /\ loader.loads = 0 /\ names # {}
  /\ given' = names
  /\ UNCHANGED <<struct, cfg, loader, fs, env, path, outcome, fors>>

\* What the path points to changes between two loads; the process keeps its environment.
FilesChange(p) ==
  /\ loader.live /\ loader.loads > 0
  /\ path # p /\ "unset" \notin {path.type, p.type}
  /\ path' = p /\ outcome' = "none"
  /\ UNCHANGED <<struct, cfg, loader, fs, given, env, fors>>
------------------------------------------------------------------------------
\* Seeded fault: the first file of a directory wins.
LoadEntryFirst(l, x) ==
  CASE x.type = "structured" -> [l EXCEPT !.config = Over(@, x.values)]
    [] x.type = "simple"     -> [l EXCEPT !.override = Over(x.values, @)]
    [] OTHER                 -> l

\* One entry of a directory: a config file is merged into the earlier ones, anything else that can
\* be read is a simple key file and goes to v.Set; directories and hidden files are skipped.
LoadEntry(l, x) ==
  CASE x.type = "structured" -> [l EXCEPT !.config = Over(x.values, @)]
    [] x.type = "simple"     -> [l EXCEPT !.override = Over(x.values, @)]
    [] OTHER                 -> l

IsLoaded(x) == x.type \in {"structured", "simple"}

\* The entries in lexical order.
loadFromDirectory(l, entries) ==
  LET loaded[i \in 0 .. Len(entries)] == IF i = 0 THEN l ELSE LoadEntry(loaded[i - 1], entries[i])
  IN [loaded[Len(entries)] EXCEPT !.merged = TRUE]

\* loadFromPath: a single file replaces what viper read before.
loadFromPath(l) ==
  CASE path.type = "file" -> [l EXCEPT !.config = path.values]
    [] path.type = "dir"  -> loadFromDirectory(l, path.entries)
    [] OTHER              -> l

PathError ==
  \/ path.type \in {"missing", "unparsable"}
  \/ path.type = "dir" /\ ~\E i \in DOMAIN path.entries : IsLoaded(path.entries[i])

\* viper, find: an explicit Set, a flag that was given, the environment, the files, the defaults,
\* and the default of a flag; AllKeys holds what any of them mentions.
Settings(l) ==
  LET keys    == DOMAIN l.override \union DOMAIN l.flags \union l.envKeys
                   \union DOMAIN l.config \union DOMAIN l.defaults
      changed == [k \in {k \in DOMAIN l.flags : l.flags[k].name \in given} |-> "flag"]
      fromEnv == [k \in {k \in keys : l.automatic /\ EnvName(k) \in DOMAIN env} |-> env[EnvName(k)]]
      unset   == [k \in DOMAIN l.flags |-> l.flags[k].default]
  IN Over(l.override, Over(changed, Over(fromEnv, Over(l.config, Over(l.defaults, unset)))))

\* DefaultDecodeHook and mapstructure: what is no string must parse.
Decodes(f, v) == v # "bad" \/ f.type = "string"

\* Unmarshal writes the fields it has a setting for and leaves the others as they are.
Unmarshal(l) ==
  LET set == Settings(l) IN
  [i \in DOMAIN struct |->
     LET k == DecodeKey(struct[i])
     IN IF k \in DOMAIN set /\ Decodes(struct[i], set[k]) THEN set[k] ELSE cfg[i]]

UnmarshalError(l) ==
  \E i \in DOMAIN struct :
    LET k == DecodeKey(struct[i])
    IN k \in DOMAIN Settings(l) /\ ~Decodes(struct[i], Settings(l)[k])

\* Load: the path, Unmarshal, and the struct's own Validate, which may refuse what is loaded by then.
Load ==
  /\ loader.live /\ loader.loads < MaxLoads
  /\ LET l == loadFromPath(loader) IN
       /\ loader' = IF PathError THEN [loader EXCEPT !.loads = @ + 1] ELSE [l EXCEPT !.loads = @ + 1]
       /\ cfg' = IF PathError THEN cfg ELSE Unmarshal(l)
       /\ outcome' \in IF PathError \/ UnmarshalError(l) THEN {"error"} ELSE {"loaded", "invalid"}
  /\ UNCHANGED <<struct, fs, given, env, path, fors>>

ConfNext ==
  \/ \E valid, automatic, flags \in BOOLEAN : LoaderFor(valid, automatic, flags)
  \/ \E names \in SUBSET fs : Parse(names)
  \/ \E p \in Paths : FilesChange(p)
  \/ Load

ConfSpec == ConfInit /\ [][ConfNext]_confVars
------------------------------------------------------------------------------
\* The documented order, of what the world says at the time of a Load.
FlagGiven(i) == loader.flags # None /\ i \in Bound /\ GetFlagName(struct[i]) \in given

InEnv(i) == loader.automatic /\ EnvName(ConfigKey(struct[i])) \in DOMAIN env

\* The files of a directory that have a key; the last of them counts.
Having(entries, type, k, n) == {i \in 1 .. n : entries[i].type = type /\ k \in DOMAIN entries[i].values}

Merged(entries, type, n) ==
  [k \in {k \in UNION {DOMAIN entries[i].values : i \in 1 .. n} : Having(entries, type, k, n) # {}} |->
     entries[CHOOSE i \in Having(entries, type, k, n) : \A j \in Having(entries, type, k, n) : j <= i].values[k]]

Files(type) ==
  CASE path.type = "file" /\ type = "structured" -> path.values
    [] path.type = "dir" -> Merged(path.entries, type, Len(path.entries))
    [] OTHER -> None

InFiles(i, type) == ConfigKey(struct[i]) \in DOMAIN Files(type)

Provided(i) == FlagGiven(i) \/ InEnv(i) \/ InFiles(i, "structured") \/ InFiles(i, "simple")

Documented(i) ==
  IF FlagGiven(i) THEN "flag"
  ELSE IF InEnv(i) THEN env[EnvName(ConfigKey(struct[i]))]
  ELSE IF InFiles(i, "structured") THEN Files("structured")[ConfigKey(struct[i])]
  ELSE IF InFiles(i, "simple") THEN "simple"
  ELSE loader.base[i]

IsFresh == outcome \in {"loaded", "invalid"}

\* A field the property speaks of: it has a tag, its flag is bound under the tag's key, and no other
\* field has that key.
Regular(i) ==
  /\ struct[i].tagged /\ GetConfigKey(struct[i]) = ConfigKey(struct[i])
  /\ \A j \in DOMAIN struct \ {i} : ConfigKey(struct[i]) \notin {ConfigKey(struct[j]), GetConfigKey(struct[j])}

\* Nobody provides the field, and what it is reset to is known: it was never loaded, or viper has a
\* default for it and no file of a directory.
FallsBack(i) ==
  /\ ~Provided(i)
  /\ loader.flags = None \/ struct[i].type \notin {"pointer", "ip"} \/ loader.base[i] # "zero"
  /\ \/ loader.loads = 1
     \/ ~loader.merged /\ (ConfigKey(struct[i]) \in DOMAIN loader.defaults \/ (loader.flags # None /\ i \in Bound))

(***************************************************************************)
(* config.go, Load: defaults, then files, then the environment, then       *)
(* flags.  However often the files change and Load is called, a field       *)
(* holds the value of its strongest present source, and falls back to its  *)
(* default when no source has it any more.  The property is about          *)
(* structured files: a simple key file outranks all of them.               *)
(***************************************************************************)
StrongestSourceWins ==
  IsFresh /\ loader.override = None =>
    \A i \in DOMAIN struct : Regular(i) /\ (Provided(i) \/ FallsBack(i)) => cfg[i] = Documented(i)

(***************************************************************************)
(* flags.go, BindStruct: "Duplicate flag names are detected".  That holds  *)
(* among the struct's own fields, whatever their names, tags and nesting:  *)
(* a For ends in a panic of pflag only where the FlagSet had one of the    *)
(* names before, from the program itself or from an earlier For.           *)
(***************************************************************************)
OnlyTakenNamesPanic == [][outcome' = "panic" => fs \intersect Names # {}]_confVars

(***************************************************************************)
(* The order as docs/design/configuration.md states it, for every field    *)
(* that carries tags: "Flags override everything".                         *)
(***************************************************************************)
DocumentedOrder ==
  IsFresh => \A i \in DOMAIN struct : struct[i].tagged /\ Provided(i) => cfg[i] = Documented(i)
==============================================================================
