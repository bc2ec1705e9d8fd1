-------------------------- MODULE RegistryBuilder --------------------------
(***************************************************************************)
(* DBConnectionExtensionBuilder, the ConnectionRegistry it assembles, the  *)
(* declarative configurations and the plugins it applies.  The host calls  *)
(* the builder in any order and builds from it any number of times; a      *)
(* build is a sequence of steps, each of which may raise and abandon it.   *)
(* Between builds the host registers into its own registry, the one it     *)
(* gave to the builder, and into those it has built.                       *)
(*                                                                         *)
(* A registration's `from` stands for all of the spec that no lookup       *)
(* depends on.  What the other with_ methods set is handed through.        *)
(***************************************************************************)
EXTENDS Integers, Sequences, SequencesExt

CONSTANTS
  KindNames, TypeNames, Drivers, Origins,
  HostKinds, HostTypes,   \* registrations offered to with_kind and with_type
  HostCalls,              \* registrations the host makes by itself
  Configs,                \* the DSL configurations that load
  Requests,               \* plugin names asked for; None asks for all
  Installed,              \* the installed entry points, in the order of their names
  Limits, MaxCalls, MaxBuilds,
  None, Unset, Defaults

Given == 0         \* the registry the host keeps
Copy == -1         \* the copy with_registry takes of it
Builds == 1..MaxBuilds
Registries == {Given, Copy} \cup Builds

(* What TypeSpec is constructed with.  `declared` are the names of its     *)
(* driver_specs, `supported` the older way to name drivers; `resolves`     *)
(* whether the references of a DSL type can be imported.                   *)
RawTypes ==
  [kind : KindNames, default : Drivers \cup {None}, declared : SUBSET Drivers,
   supported : SUBSET Drivers, resolves : BOOLEAN, from : Origins]

TypeSpecs ==
  [kind : KindNames, default : Drivers \cup {None}, drivers : SUBSET Drivers, from : Origins]

KindCalls == [what : {"kind"}, name : KindNames, spec : Origins, overwrite : BOOLEAN]
TypeCalls == [what : {"type"}, name : TypeNames, spec : RawTypes, overwrite : BOOLEAN]
Calls == KindCalls \cup TypeCalls

ConnectionRegistry(reg) ==
  /\ reg = [kinds |-> reg.kinds, types |-> reg.types]
  /\ DOMAIN reg.kinds \subseteq KindNames /\ reg.kinds \in [DOMAIN reg.kinds -> Origins]
  /\ DOMAIN reg.types \subseteq TypeNames /\ reg.types \in [DOMAIN reg.types -> TypeSpecs]

\* TypeSpec.__post_init__, and _build_driver_specs of the DSL.
DriversOf(raw) ==
  IF raw.declared # {} THEN raw.declared ELSE raw.supported \cup ({raw.default} \ {None})

Constructs(raw) == raw.default \in DriversOf(raw) \cup {None}

TypeSpec(raw) ==
  [kind |-> raw.kind, default |-> raw.default, drivers |-> DriversOf(raw), from |-> raw.from]

ASSUME BuilderAssumption ==
  /\ MaxCalls \in Nat /\ MaxBuilds \in Nat
  /\ None \notin Drivers \cup Limits /\ None \notin {Given, Copy}
  /\ Unset \notin Limits \cup {None}
  /\ Defaults \in Origins
  /\ {"sql", "queue", "file"} \subseteq KindNames
  /\ {"postgres", "mysql", "clickhouse", "mssql", "oracle", "mongodb",
      "kafka", "s3", "ftp", "sftp"} \subseteq TypeNames
  /\ {"psycopg", "psycopg2", "asyncpg", "pymysql", "aiomysql", "native", "http",
      "pyodbc", "aioodbc", "oracledb"} \subseteq Drivers
  /\ HostKinds \subseteq KindCalls
  /\ HostTypes \subseteq TypeCalls
  /\ HostCalls \subseteq Calls
  /\ \A c \in HostKinds \cup HostTypes : ~c.overwrite
  /\ \A c \in HostTypes : Constructs(c.spec)
  /\ \A c \in HostCalls : c.what = "type" => Constructs(c.spec)
  /\ Configs \subseteq [max : Limits \cup {None}, kinds : Seq(KindCalls), types : Seq(TypeCalls),
                        plugins : Seq(STRING)]
  /\ Requests \subseteq SUBSET STRING \cup {None}
  /\ Installed \in Seq([name : STRING, loads : BOOLEAN, calls : Seq(Calls), raises : BOOLEAN])

-----------------------------------------------------------------------------
(* ConnectionRegistry.                                                     *)

Nothing == [kinds |-> [k \in {} |-> Defaults], types |-> [t \in {} |-> Defaults]]

Type(kind, default, drivers) ==
  [kind |-> kind, default |-> default, drivers |-> drivers, from |-> Defaults]

\* build_default_registry
DefaultRegistry ==
  [kinds |-> [k \in {"sql", "queue", "file"} |-> Defaults],
   types |->
     [postgres   |-> Type("sql", "psycopg", {"psycopg", "psycopg2", "asyncpg"}),
      mysql      |-> Type("sql", "pymysql", {"pymysql", "aiomysql"}),
      clickhouse |-> Type("sql", "native", {"native", "http"}),
      mssql      |-> Type("sql", "pyodbc", {"pyodbc", "aioodbc"}),
      oracle     |-> Type("sql", "oracledb", {"oracledb"}),
      mongodb    |-> Type("sql", None, {}),
      kafka      |-> Type("queue", None, {}),
      s3         |-> Type("file", None, {}),
      ftp        |-> Type("file", None, {}),
      sftp       |-> Type("file", None, {})]]

With(f, k, v) == [x \in DOMAIN f \cup {k} |-> IF x = k THEN v ELSE f[x]]
Over(f, g) == [x \in DOMAIN f \cup DOMAIN g |-> IF x \in DOMAIN f THEN f[x] ELSE g[x]]

\* Mutant: register_type does not look the kind up.
FitsAnyKind(reg, c) ==
  IF c.what = "kind" THEN c.overwrite \/ c.name \notin DOMAIN reg.kinds
  ELSE c.overwrite \/ c.name \notin DOMAIN reg.types

\* register_kind and register_type raise unless this holds.
Fits(reg, c) ==
  IF c.what = "kind" THEN c.overwrite \/ c.name \notin DOMAIN reg.kinds
  ELSE /\ c.spec.kind \in DOMAIN reg.kinds
       /\ c.overwrite \/ c.name \notin DOMAIN reg.types

\* Mutant: the spec is stored before its drivers are worked out.
RegisteredRaw(reg, c) ==
  IF c.what = "kind" THEN [reg EXCEPT !.kinds = With(reg.kinds, c.name, c.spec)]
  ELSE [reg EXCEPT !.types = With(reg.types, c.name, c.spec)]

Registered(reg, c) ==
  IF c.what = "kind" THEN [reg EXCEPT !.kinds = With(reg.kinds, c.name, c.spec)]
  ELSE [reg EXCEPT !.types = With(reg.types, c.name, TypeSpec(c.spec))]

\* Mutant: what is registered already is kept.
MergedUnder(target, source) ==
  [kinds |-> Over(target.kinds, source.kinds), types |-> Over(target.types, source.types)]

\* _merge_registry
Merged(target, source) ==
  [kinds |-> Over(source.kinds, target.kinds), types |-> Over(source.types, target.types)]

\* Registering the types of source over those of target raises for none.
MergeFits(target, source) ==
  \A t \in DOMAIN source.types :
    source.types[t].kind \in DOMAIN source.kinds \cup DOMAIN target.kinds

-----------------------------------------------------------------------------
VARIABLES
  builder,  \* what the with_ methods stored
  calls,    \* how many of them were called
  regs,     \* the contents of each registry
  todo,     \* the steps the running build has left
  build,    \* the running build, 0 when there is none
  results   \* of each build, what it ended with

vars == <<builder, calls, regs, todo, build, results>>

Builders ==
  [uow : BOOLEAN, registry : {None, Given, Copy}, defaults : BOOLEAN,
   kinds : Seq(KindCalls), types : Seq(TypeCalls), dsl : Seq(Configs),
   requests : Seq(Requests), settings : Limits \cup {None, Unset},
   max : Limits \cup {None, Unset}]

Result(o, max, reg) == [calls |-> calls, outcome |-> o, max |-> max, registry |-> reg]

Outcomes == {"ok", "validation", "infrastructure", "value_error"}

Steps ==
  [step : {"merge", "raise"}] \cup [step : {"config", "config_plugins"}, config : Configs]
  \cup [step : {"plugins"}, names : SUBSET STRING \cup {None}]
  \cup [step : {"load"}, left : SUBSET (DOMAIN Installed)]
  \cup [step : {"register"}, by : {"builder", "config", "plugin"}, call : Calls]

RegistryTypeOK ==
  /\ builder \in Builders
  /\ calls \in 0..MaxCalls
  /\ DOMAIN regs = Registries
  /\ \A id \in Registries : ConnectionRegistry(regs[id])
  /\ todo \in Seq(Steps)
  /\ build \in {0} \cup Builds
  /\ Len(results) <= MaxBuilds
  /\ \A n \in DOMAIN results :
       /\ results[n].outcome \in Outcomes
       /\ results[n].calls \in 0..calls
       /\ ConnectionRegistry(results[n].registry)

-----------------------------------------------------------------------------
(* The with_ methods.                                                      *)

Call(b) ==
  /\ build = 0 /\ calls < MaxCalls
  /\ builder' = b
  /\ calls' = calls + 1
  /\ UNCHANGED <<todo, build, results>>

WithUowFactory == Call([builder EXCEPT !.uow = TRUE]) /\ UNCHANGED regs

WithSettings == UNCHANGED regs /\
  \E limit \in Limits \cup {None} : Call([builder EXCEPT !.settings = limit])

WithMaxConnections == UNCHANGED regs /\
  \E limit \in Limits \cup {None} : Call([builder EXCEPT !.max = limit])

\* Mutant: the registry is taken as it is.
WithRegistryShared == Call([builder EXCEPT !.registry = Given]) /\ UNCHANGED regs

\* The copy registers the kinds before the types that name them.
WithRegistry ==
  /\ Call([builder EXCEPT !.registry = Copy])
  /\ MergeFits(Nothing, regs[Given])
  /\ regs' = [regs EXCEPT ![Copy] = regs[Given]]

WithDefaultTypes == UNCHANGED regs /\
  \E enabled \in BOOLEAN : Call([builder EXCEPT !.defaults = enabled])

WithKind == UNCHANGED regs /\
  \E c \in HostKinds : Call([builder EXCEPT !.kinds = Append(@, c)])

WithType == UNCHANGED regs /\
  \E c \in HostTypes : Call([builder EXCEPT !.types = Append(@, c)])

\* with_dsl_data and with_dsl_file: one that cannot be read, parsed or
\* validated raises and leaves the builder as it was.
WithDsl == UNCHANGED regs /\
  \E config \in Configs : Call([builder EXCEPT !.dsl = Append(@, config)])

WithPluginEntrypoints == UNCHANGED regs /\
  \E names \in Requests : Call([builder EXCEPT !.requests = Append(@, names)])

Configure ==
  \/ WithUowFactory \/ WithSettings \/ WithMaxConnections \/ WithRegistry
  \/ WithDefaultTypes \/ WithKind \/ WithType \/ WithDsl \/ WithPluginEntrypoints

\* register_kind and register_type of a registry the host holds; one that does
\* not fit raises and changes nothing.  build() does not return to the host in
\* between; after the last of MaxBuilds builds nothing is looked at any more.
HostRegisters ==
  /\ build = 0 /\ Len(results) < MaxBuilds
  /\ \E id \in {Given} \cup {n \in DOMAIN results : results[n].outcome = "ok"}, c \in HostCalls :
       /\ Fits(regs[id], c)
       /\ regs' = [regs EXCEPT ![id] = Registered(@, c)]
  /\ UNCHANGED <<builder, calls, todo, build, results>>

-----------------------------------------------------------------------------
(* build().                                                                *)

Register(by, cs) == [i \in DOMAIN cs |-> [step |-> "register", by |-> by, call |-> cs[i]]]
EachConfig(s, configs) == [i \in DOMAIN configs |-> [step |-> s, config |-> configs[i]]]

\* _build_registry of a builder b.
Plan(b) ==
  (IF b.registry = None THEN << >> ELSE <<[step |-> "merge"]>>)
  \o EachConfig("config", b.dsl) \o EachConfig("config_plugins", b.dsl)
  \o [i \in DOMAIN b.requests |-> [step |-> "plugins", names |-> b.requests[i]]]
  \o Register("builder", b.kinds) \o Register("builder", b.types)

\* apply_dsl_settings: an absent limit is no None.
DslLimit(configs) ==
  LET limit[i \in 0..Len(configs)] ==
        IF i = 0 THEN None
        ELSE IF configs[i].max # None THEN configs[i].max ELSE limit[i - 1]
  IN  limit[Len(configs)]

\* Mutant: with_settings comes last.
MaxConnectionsSettingsLast(b) ==
  IF b.settings # Unset THEN b.settings
  ELSE IF b.max # Unset THEN b.max ELSE DslLimit(b.dsl)

\* _build_settings
MaxConnections(b) ==
  IF b.max # Unset THEN b.max
  ELSE IF b.settings # Unset THEN b.settings ELSE DslLimit(b.dsl)

\* Without a unit of work factory build() raises before it does anything.
StartBuild ==
  /\ build = 0 /\ Len(results) < MaxBuilds
  /\ builder.uow
  /\ build' = Len(results) + 1
  /\ regs' = [regs EXCEPT ![build'] = IF builder.defaults THEN DefaultRegistry ELSE Nothing]
  /\ todo' = Plan(builder)
  /\ UNCHANGED <<builder, calls, results>>

At(s) == build # 0 /\ todo # << >> /\ Head(todo).step = s

Replace(steps) ==
  /\ todo' = steps \o Tail(todo)
  /\ UNCHANGED <<builder, calls, regs, build, results>>

\* The half-built registry is dropped with the exception.
Fail(o) ==
  /\ results' = Append(results, Result(o, None, Nothing))
  /\ build' = 0 /\ todo' = << >>
  /\ regs' = [regs EXCEPT ![build] = Nothing]
  /\ UNCHANGED <<builder, calls>>

Advance(reg) ==
  /\ regs' = [regs EXCEPT ![build] = reg]
  /\ todo' = Tail(todo)
  /\ UNCHANGED <<builder, calls, build, results>>

MergeRegistry ==
  /\ At("merge")
  /\ IF MergeFits(regs[build], regs[builder.registry])
     THEN Advance(Merged(regs[build], regs[builder.registry]))
     ELSE Fail("validation")

\* apply_dsl_registry: a type is constructed, its references imported, when the
\* loop comes to it.
ApplyConfig ==
  /\ At("config")
  /\ LET config == Head(todo).config IN
       Replace(Register("config", config.kinds) \o Register("config", config.types))

\* _plugin_requests_from_dsl: one request per named plugin.
ConfigPlugins ==
  /\ At("config_plugins")
  /\ LET named == Head(todo).config.plugins IN
       Replace([i \in DOMAIN named |-> [step |-> "plugins", names |-> {named[i]}]])

\* _select_entry_points
SelectPlugins ==
  /\ At("plugins")
  /\ LET names == Head(todo).names
         selected == {i \in DOMAIN Installed : names = None \/ Installed[i].name \in names}
     IN  IF names # None /\ ~names \subseteq {Installed[i].name : i \in selected}
         THEN Fail("infrastructure")
         ELSE Replace(<<[step |-> "load", left |-> selected]>>)

\* One turn of the loop of load_registry_plugins.
LoadPlugin ==
  /\ At("load")
  /\ LET left == Head(todo).left IN
       \/ left = {} /\ Replace(<< >>)
       \/ \E i \in left :
            /\ \A j \in left : i <= j
            /\ IF ~Installed[i].loads THEN Fail("infrastructure")
               ELSE Replace(Register("plugin", Installed[i].calls)
                            \o (IF Installed[i].raises THEN <<[step |-> "raise"]>> ELSE << >>)
                            \o <<[step |-> "load", left |-> left \ {i}]>>)

\* A plugin raises an exception of its own; a DBConnectionError would keep its
\* code, and the properties ask only whether the call succeeded.
PluginRaises == At("raise") /\ Fail("infrastructure")

\* What importing the references of a type, constructing the spec and
\* registering it raise, in this order.
Error(reg, by, c) ==
  IF c.what = "type" /\ by = "config" /\ ~c.spec.resolves THEN "validation"
  ELSE IF c.what = "type" /\ ~Constructs(c.spec)
       THEN IF by = "plugin" THEN "infrastructure" ELSE "value_error"
       ELSE IF Fits(reg, c) THEN "ok" ELSE "validation"

RegisterOne ==
  /\ At("register")
  /\ LET c == Head(todo).call
         e == Error(regs[build], Head(todo).by, c)
     IN  IF e = "ok" THEN Advance(Registered(regs[build], c)) ELSE Fail(e)

FinishBuild ==
  /\ build # 0 /\ todo = << >>
  /\ results' = Append(results, Result("ok", MaxConnections(builder), regs[build]))
  /\ build' = 0
  /\ UNCHANGED <<builder, calls, regs, todo>>

Build ==
  \/ StartBuild \/ MergeRegistry \/ ApplyConfig \/ ConfigPlugins \/ SelectPlugins
  \/ LoadPlugin \/ PluginRaises \/ RegisterOne \/ FinishBuild

RegistryInit ==
  /\ builder = [uow |-> FALSE, registry |-> None, defaults |-> TRUE, kinds |-> << >>, types |-> << >>,
                dsl |-> << >>, requests |-> << >>, settings |-> Unset, max |-> Unset]
  /\ calls = 0
  /\ regs = [id \in Registries |-> Nothing]
  /\ todo = << >> /\ build = 0 /\ results = << >>

RegistryNext == Configure \/ HostRegisters \/ Build

RegistrySpec == RegistryInit /\ [][RegistryNext]_vars

-----------------------------------------------------------------------------
(* Properties.                                                             *)

Consistent(reg) ==
  \A t \in DOMAIN reg.types :
    /\ reg.types[t].kind \in DOMAIN reg.kinds
    /\ reg.types[t].default \in reg.types[t].drivers \cup {None}

\* In every registry, a half-built one, a merged one and the host's own
\* included, a type's kind is registered and its default driver is one of its
\* drivers: whatever listing, validation and the connector look up is there.
TypesHaveKinds ==
  /\ \A id \in Registries : Consistent(regs[id])
  /\ \A n \in DOMAIN results : Consistent(results[n].registry)

(* What a builder asks for, read off without building.                     *)

\* The registrations of the entry points a request selects, in their order.
CallsOf(names) ==
  FlattenSeq([i \in DOMAIN Installed |->
                IF names = None \/ Installed[i].name \in names THEN Installed[i].calls ELSE << >>])

\* All registrations asked for.
Asked ==
  FlattenSeq([i \in DOMAIN builder.dsl |-> builder.dsl[i].kinds \o builder.dsl[i].types])
  \o FlattenSeq([i \in DOMAIN builder.dsl |->
                   LET named == builder.dsl[i].plugins IN
                   FlattenSeq([j \in DOMAIN named |-> CallsOf({named[j]})])])
  \o FlattenSeq([i \in DOMAIN builder.requests |-> CallsOf(builder.requests[i])])
  \o builder.kinds \o builder.types

\* What does not depend on the registrations before: the types of the
\* configurations resolve, the plugins named are installed, and they work.
Resolves(config) == \A j \in DOMAIN config.types : config.types[j].spec.resolves

Works(names) ==
  /\ names = None \/ names \subseteq {Installed[k].name : k \in DOMAIN Installed}
  /\ \A k \in DOMAIN Installed :
       names = None \/ Installed[k].name \in names => Installed[k].loads /\ ~Installed[k].raises

PartsWork ==
  /\ \A i \in DOMAIN builder.dsl :
       /\ Resolves(builder.dsl[i])
       /\ \A j \in DOMAIN builder.dsl[i].plugins : Works({builder.dsl[i].plugins[j]})
  /\ \A i \in DOMAIN builder.requests : Works(builder.requests[i])

\* The registry the registrations are made in.
Base(what) ==
  LET Part(reg) == IF what = "kind" THEN reg.kinds ELSE reg.types
      mine == Part(IF builder.registry = None THEN Nothing ELSE regs[builder.registry])
      base == Part(IF builder.defaults THEN DefaultRegistry ELSE Nothing)
  IN  [n \in DOMAIN mine \cup DOMAIN base |-> IF n \in DOMAIN mine THEN mine[n] ELSE base[n]]

\* Whether a name is taken before the i-th registration.
Taken(what, name, asked, i) ==
  \/ name \in DOMAIN Base(what)
  \/ \E j \in 1..(i - 1) : asked[j].what = what /\ asked[j].name = name

CanRegister(asked, i) ==
  LET c == asked[i] IN
  /\ c.overwrite \/ ~Taken(c.what, c.name, asked, i)
  /\ c.what = "type" => Constructs(c.spec) /\ Taken("kind", c.spec.kind, asked, i)

CanBeBuilt == PartsWork /\ \A i \in DOMAIN Asked : CanRegister(Asked, i)

\* Each name as the last of the registrations that has it says, or as it was.
IsWhatWasAsked(what, asked, entries) ==
  LET naming(name) == {i \in DOMAIN asked : asked[i].what = what /\ asked[i].name = name} IN
  /\ DOMAIN entries = DOMAIN Base(what) \cup {asked[i].name : i \in {j \in DOMAIN asked : asked[j].what = what}}
  /\ \A name \in DOMAIN entries :
       \/ naming(name) = {} /\ entries[name] = Base(what)[name]
       \/ \E i \in naming(name) :
            /\ \A j \in naming(name) : j <= i
            /\ entries[name] = IF what = "kind" THEN asked[i].spec ELSE TypeSpec(asked[i].spec)

LimitIsAsked(max) ==
  LET limiting == {i \in DOMAIN builder.dsl : builder.dsl[i].max # None} IN
  IF builder.max # Unset THEN max = builder.max
  ELSE IF builder.settings # Unset THEN max = builder.settings
  ELSE \/ limiting = {} /\ max = None
       \/ \E i \in limiting : (\A j \in limiting : j <= i) /\ max = builder.dsl[i].max

\* A build succeeds exactly when what was asked for can be built, and then it
\* is that: the host's registry over the default types, then configurations,
\* plugins, kinds and types, none of which replaces another's registration but
\* a plugin that says so; and the limit of the last one entitled to set it.
BuiltAsDeclared ==
  [][Len(results') > Len(results) =>
       LET r == results'[Len(results')] IN
       /\ r.outcome = "ok" <=> CanBeBuilt
       /\ r.outcome = "ok" =>
            /\ IsWhatWasAsked("kind", Asked, r.registry.kinds)
            /\ IsWhatWasAsked("type", Asked, r.registry.types)
            /\ LimitIsAsked(r.max)]_vars

\* A builder that is not called between two builds builds the same twice, in
\* the same way when it fails: neither what the host registered meanwhile in
\* its registry or in the first extension nor a plugin that got halfway is in
\* the second.
BuildIsRepeatable ==
  \A m, n \in DOMAIN results : results[m].calls = results[n].calls => results[m] = results[n]
=============================================================================
