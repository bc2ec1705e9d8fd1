--------------------------- MODULE RegistryProofs ---------------------------
(***************************************************************************)
(* Every registry is well typed and consistent, builds repeat as long as   *)
(* nobody calls the builder, and a build makes exactly what was declared,  *)
(* for any kinds, types, configurations and plugins, any order of calls    *)
(* and any number of builds.                                               *)
(***************************************************************************)
EXTENDS RegistryBuilder, WellFoundedInduction, SequenceTheorems, TLAPS

Good(reg) == ConnectionRegistry(reg) /\ Consistent(reg)

\* A merge is planned only by a builder that was given a registry.
MergeHasSource ==
  (\E i \in DOMAIN todo : todo[i].step = "merge") => builder.registry # None

\* The running build is the next to have a result.
NextResult ==
  /\ \E S : results \in Seq(S)
  /\ build # 0 => build = Len(results) + 1

RegistryInv ==
  /\ RegistryTypeOK
  /\ TypesHaveKinds
  /\ MergeHasSource
  /\ NextResult

-----------------------------------------------------------------------------
(* Registries.                                                             *)

LEMMA NothingIsGood == Good(Nothing)
BY DEF Good, Nothing, ConnectionRegistry, Consistent

LEMMA DefaultsAreGood == Good(DefaultRegistry)
<1> DEFINE types == DefaultRegistry.types
<1>1. DOMAIN types = {"postgres", "mysql", "clickhouse", "mssql", "oracle", "mongodb",
                      "kafka", "s3", "ftp", "sftp"}
  BY DEF DefaultRegistry
<1>2. DOMAIN types \subseteq TypeNames
  BY <1>1, BuilderAssumption
<1> DEFINE Sound(spec) == /\ spec \in TypeSpecs
                          /\ spec.kind \in {"sql", "queue", "file"}
                          /\ spec.default \in spec.drivers \cup {None}
<1>3. \A t \in DOMAIN types : Sound(types[t])
  <2>0. {"psycopg", "psycopg2", "asyncpg", "pymysql", "aiomysql", "native", "http",
         "pyodbc", "aioodbc", "oracledb"} \subseteq Drivers
    BY BuilderAssumption
  <2>1. ASSUME NEW kind \in {"sql", "queue", "file"}, NEW drivers \in SUBSET Drivers,
               NEW default \in drivers \cup {None}
        PROVE  Sound(Type(kind, default, drivers))
    BY BuilderAssumption DEF Type, TypeSpecs
  <2>2. Sound(types["postgres"])
    <3>1. types["postgres"] = Type("sql", "psycopg", {"psycopg", "psycopg2", "asyncpg"})
      BY DEF DefaultRegistry
    <3>2. {"psycopg", "psycopg2", "asyncpg"} \in SUBSET Drivers
      BY <2>0
    <3>3. "psycopg" \in {"psycopg", "psycopg2", "asyncpg"} \cup {None} /\ "sql" \in {"sql", "queue", "file"}
      OBVIOUS
    <3> HIDE DEF types, Sound
    <3> QED
      BY <2>1, <3>1, <3>2, <3>3
  <2>3. Sound(types["mysql"])
    <3>1. types["mysql"] = Type("sql", "pymysql", {"pymysql", "aiomysql"})
      BY DEF DefaultRegistry
    <3>2. {"pymysql", "aiomysql"} \in SUBSET Drivers
      BY <2>0
    <3>3. "pymysql" \in {"pymysql", "aiomysql"} \cup {None} /\ "sql" \in {"sql", "queue", "file"}
      OBVIOUS
    <3> HIDE DEF types, Sound
    <3> QED
      BY <2>1, <3>1, <3>2, <3>3
  <2>4. Sound(types["clickhouse"])
    <3>1. types["clickhouse"] = Type("sql", "native", {"native", "http"})
      BY DEF DefaultRegistry
    <3>2. {"native", "http"} \in SUBSET Drivers
      BY <2>0
    <3>3. "native" \in {"native", "http"} \cup {None} /\ "sql" \in {"sql", "queue", "file"}
      OBVIOUS
    <3> HIDE DEF types, Sound
    <3> QED
      BY <2>1, <3>1, <3>2, <3>3
  <2>5. Sound(types["mssql"])
    <3>1. types["mssql"] = Type("sql", "pyodbc", {"pyodbc", "aioodbc"})
      BY DEF DefaultRegistry
    <3>2. {"pyodbc", "aioodbc"} \in SUBSET Drivers
      BY <2>0
    <3>3. "pyodbc" \in {"pyodbc", "aioodbc"} \cup {None} /\ "sql" \in {"sql", "queue", "file"}
      OBVIOUS
    <3> HIDE DEF types, Sound
    <3> QED
      BY <2>1, <3>1, <3>2, <3>3
  <2>6. Sound(types["oracle"])
    <3>1. types["oracle"] = Type("sql", "oracledb", {"oracledb"})
      BY DEF DefaultRegistry
    <3>2. {"oracledb"} \in SUBSET Drivers
      BY <2>0
    <3>3. "oracledb" \in {"oracledb"} \cup {None} /\ "sql" \in {"sql", "queue", "file"}
      OBVIOUS
    <3> HIDE DEF types, Sound
    <3> QED
      BY <2>1, <3>1, <3>2, <3>3
  <2>7. Sound(types["mongodb"])
    <3>1. types["mongodb"] = Type("sql", None, {})
      BY DEF DefaultRegistry
    <3>2. {} \in SUBSET Drivers
      BY <2>0
    <3>3. None \in {} \cup {None} /\ "sql" \in {"sql", "queue", "file"}
      OBVIOUS
    <3> HIDE DEF types, Sound
    <3> QED
      BY <2>1, <3>1, <3>2, <3>3
  <2>8. Sound(types["kafka"])
    <3>1. types["kafka"] = Type("queue", None, {})
      BY DEF DefaultRegistry
    <3>2. {} \in SUBSET Drivers
      BY <2>0
    <3>3. None \in {} \cup {None} /\ "queue" \in {"sql", "queue", "file"}
      OBVIOUS
    <3> HIDE DEF types, Sound
    <3> QED
      BY <2>1, <3>1, <3>2, <3>3
  <2>9. Sound(types["s3"])
    <3>1. types["s3"] = Type("file", None, {})
      BY DEF DefaultRegistry
    <3>2. {} \in SUBSET Drivers
      BY <2>0
    <3>3. None \in {} \cup {None} /\ "file" \in {"sql", "queue", "file"}
      OBVIOUS
    <3> HIDE DEF types, Sound
    <3> QED
      BY <2>1, <3>1, <3>2, <3>3
  <2>10. Sound(types["ftp"])
    <3>1. types["ftp"] = Type("file", None, {})
      BY DEF DefaultRegistry
    <3>2. {} \in SUBSET Drivers
      BY <2>0
    <3>3. None \in {} \cup {None} /\ "file" \in {"sql", "queue", "file"}
      OBVIOUS
    <3> HIDE DEF types, Sound
    <3> QED
      BY <2>1, <3>1, <3>2, <3>3
  <2>11. Sound(types["sftp"])
    <3>1. types["sftp"] = Type("file", None, {})
      BY DEF DefaultRegistry
    <3>2. {} \in SUBSET Drivers
      BY <2>0
    <3>3. None \in {} \cup {None} /\ "file" \in {"sql", "queue", "file"}
      OBVIOUS
    <3> HIDE DEF types, Sound
    <3> QED
      BY <2>1, <3>1, <3>2, <3>3
  <2> HIDE DEF types, Sound
  <2> QED
    BY <1>1, <2>2, <2>3, <2>4, <2>5, <2>6, <2>7, <2>8, <2>9, <2>10, <2>11
<1>4. types = [t \in DOMAIN types |-> types[t]]
  BY DEF DefaultRegistry
<1>5. types \in [DOMAIN types -> TypeSpecs]
  BY <1>3, <1>4
<1>6. /\ DefaultRegistry.kinds = [k \in {"sql", "queue", "file"} |-> Defaults]
      /\ DefaultRegistry = [kinds |-> DefaultRegistry.kinds, types |-> DefaultRegistry.types]
  BY DEF DefaultRegistry
<1>7. /\ DOMAIN DefaultRegistry.kinds = {"sql", "queue", "file"}
      /\ DefaultRegistry.kinds \in [DOMAIN DefaultRegistry.kinds -> Origins]
      /\ DOMAIN DefaultRegistry.kinds \subseteq KindNames
  BY <1>6, BuilderAssumption
<1> HIDE DEF types
<1>8. ConnectionRegistry(DefaultRegistry)
  BY <1>2, <1>5, <1>6, <1>7 DEF ConnectionRegistry, types
<1>9. Consistent(DefaultRegistry)
  BY <1>3, <1>7 DEF Consistent, types
<1> QED
  BY <1>8, <1>9 DEF Good

\* What a registration leaves is consistent: a kind is never taken away, and a
\* type comes with its kind and its default driver.
LEMMA RegisteringIsGood ==
  ASSUME NEW reg, Good(reg), NEW c \in Calls, Fits(reg, c),
         c.what = "type" => Constructs(c.spec)
  PROVE  Good(Registered(reg, c))
<1> DEFINE new == Registered(reg, c)
<1>1. CASE c.what = "kind"
  <2>1. c \in KindCalls
    BY <1>1 DEF Calls, TypeCalls
  <2>2. new = [kinds |-> With(reg.kinds, c.name, c.spec), types |-> reg.types]
    BY <1>1 DEF Registered, Good, ConnectionRegistry
  <2>3. /\ DOMAIN With(reg.kinds, c.name, c.spec) = DOMAIN reg.kinds \cup {c.name}
        /\ With(reg.kinds, c.name, c.spec) \in [DOMAIN reg.kinds \cup {c.name} -> Origins]
    BY <2>1 DEF With, KindCalls, Good, ConnectionRegistry
  <2>4. c.name \in KindNames
    BY <2>1 DEF KindCalls
  <2> QED
    BY <2>2, <2>3, <2>4 DEF Good, ConnectionRegistry, Consistent
<1>2. CASE c.what = "type"
  <2>1. c \in TypeCalls
    BY <1>2 DEF Calls, KindCalls
  <2>2. new = [kinds |-> reg.kinds, types |-> With(reg.types, c.name, TypeSpec(c.spec))]
    BY <1>2 DEF Registered, Good, ConnectionRegistry
  <2>3. c.name \in TypeNames /\ c.spec \in RawTypes
    BY <2>1 DEF TypeCalls
  <2>4. TypeSpec(c.spec) \in TypeSpecs
    BY <2>3 DEF TypeSpec, TypeSpecs, RawTypes, DriversOf
  <2>5. /\ TypeSpec(c.spec).kind \in DOMAIN reg.kinds
        /\ TypeSpec(c.spec).default \in TypeSpec(c.spec).drivers \cup {None}
    BY <1>2 DEF TypeSpec, Fits, Constructs
  <2>6. /\ DOMAIN With(reg.types, c.name, TypeSpec(c.spec)) = DOMAIN reg.types \cup {c.name}
        /\ With(reg.types, c.name, TypeSpec(c.spec)) \in [DOMAIN reg.types \cup {c.name} -> TypeSpecs]
        /\ \A t \in DOMAIN reg.types \cup {c.name} :
             With(reg.types, c.name, TypeSpec(c.spec))[t] =
               IF t = c.name THEN TypeSpec(c.spec) ELSE reg.types[t]
    BY <2>4 DEF With, Good, ConnectionRegistry
  <2> HIDE DEF new
  <2>7. ConnectionRegistry(new)
    BY <2>2, <2>3, <2>6 DEF Good, ConnectionRegistry
  <2>8. Consistent(new)
    BY <2>2, <2>5, <2>6 DEF Good, Consistent
  <2> QED
    BY <2>7, <2>8 DEF Good, new
<1> QED
  BY <1>1, <1>2 DEF Calls, KindCalls, TypeCalls

\* A merge keeps both registries' kinds, so each type finds its own.
LEMMA MergingIsGood ==
  ASSUME NEW target, NEW source, Good(target), Good(source)
  PROVE  Good(Merged(target, source)) /\ MergeFits(target, source)
<1> DEFINE kinds == Over(source.kinds, target.kinds)
           types == Over(source.types, target.types)
<1>1. /\ DOMAIN kinds = DOMAIN source.kinds \cup DOMAIN target.kinds
      /\ kinds \in [DOMAIN kinds -> Origins]
  BY DEF Over, Good, ConnectionRegistry
<1>2. /\ DOMAIN types = DOMAIN source.types \cup DOMAIN target.types
      /\ types \in [DOMAIN types -> TypeSpecs]
      /\ \A t \in DOMAIN types :
           types[t] = IF t \in DOMAIN source.types THEN source.types[t] ELSE target.types[t]
  BY DEF Over, Good, ConnectionRegistry
<1>3. Merged(target, source) = [kinds |-> kinds, types |-> types]
  BY DEF Merged
<1> HIDE DEF kinds, types
<1>4. ConnectionRegistry(Merged(target, source))
  BY <1>1, <1>2, <1>3 DEF Good, ConnectionRegistry
<1>5. Consistent(Merged(target, source))
  BY <1>1, <1>2, <1>3 DEF Good, Consistent
<1>6. MergeFits(target, source)
  BY DEF MergeFits, Good, Consistent
<1> QED
  BY <1>4, <1>5, <1>6 DEF Good

\* The copy with_registry takes raises for no registry the host can hold.
LEMMA CopyFits ==
  ASSUME NEW reg, Good(reg)
  PROVE  MergeFits(Nothing, reg)
BY DEF MergeFits, Good, Consistent

-----------------------------------------------------------------------------
(* Steps of a build.                                                       *)

LEMMA StepKinds ==
  /\ [step |-> "merge"] \in Steps /\ [step |-> "raise"] \in Steps
  /\ \A s \in {"config", "config_plugins"}, c \in Configs : [step |-> s, config |-> c] \in Steps
  /\ \A r \in SUBSET STRING \cup {None} : [step |-> "plugins", names |-> r] \in Steps
  /\ \A l \in SUBSET (DOMAIN Installed) : [step |-> "load", left |-> l] \in Steps
<1>1. [step |-> "merge"] \in Steps /\ [step |-> "raise"] \in Steps
  BY DEF Steps
<1>2. \A s \in {"config", "config_plugins"}, c \in Configs : [step |-> s, config |-> c] \in Steps
  BY DEF Steps
<1>3. ASSUME NEW r \in SUBSET STRING \cup {None}
      PROVE  [step |-> "plugins", names |-> r] \in Steps
  BY Zenon DEF Steps
<1>4. ASSUME NEW l \in SUBSET (DOMAIN Installed)
      PROVE  [step |-> "load", left |-> l] \in Steps
  BY DEF Steps
<1> QED
  BY <1>1, <1>2, <1>3, <1>4

LEMMA RegisterSteps ==
  ASSUME NEW cs \in Seq(Calls), NEW by \in {"builder", "config", "plugin"}
  PROVE  /\ Register(by, cs) \in Seq(Steps)
         /\ \A i \in DOMAIN Register(by, cs) : Register(by, cs)[i].step = "register"
<1>1. \A i \in DOMAIN cs : cs[i] \in Calls
  OBVIOUS
<1>2. \A i \in DOMAIN cs : [step |-> "register", by |-> by, call |-> cs[i]] \in Steps
  BY <1>1 DEF Steps
<1> QED
  BY <1>2 DEF Register

\* No step before the merge is put back, none that is put in is a merge.
LEMMA Replacing ==
  ASSUME RegistryInv, todo # << >>, NEW steps \in Seq(Steps), Replace(steps),
         \A i \in DOMAIN steps : steps[i].step # "merge"
  PROVE  RegistryInv'
<1>1. todo \in Seq(Steps) /\ Tail(todo) \in Seq(Steps)
  BY DEF RegistryInv, RegistryTypeOK
<1>2. todo' \in Seq(Steps)
  BY <1>1 DEF Replace
<1>3. \A i \in DOMAIN todo' : todo'[i].step = "merge" => builder.registry # None
  <2>1. \A i \in DOMAIN todo' :
          \/ i \in DOMAIN steps /\ todo'[i] = steps[i]
          \/ i - Len(steps) + 1 \in DOMAIN todo /\ todo'[i] = todo[i - Len(steps) + 1]
    BY <1>1 DEF Replace
  <2> QED
    BY <2>1 DEF RegistryInv, MergeHasSource
<1> QED
  BY <1>2, <1>3 DEF Replace, RegistryInv, RegistryTypeOK, TypesHaveKinds, MergeHasSource, NextResult

\* What every change of a registry and of the results has to show.
LEMMA RegistriesStayGood ==
  ASSUME RegistryInv, NEW id \in Registries, NEW reg, Good(reg),
         regs' = [regs EXCEPT ![id] = reg]
  PROVE  /\ DOMAIN regs' = Registries
         /\ \A n \in Registries : Good(regs'[n])
BY DEF RegistryInv, RegistryTypeOK, TypesHaveKinds, Good

LEMMA OneMoreResult ==
  ASSUME RegistryInv, Len(results) < MaxBuilds, calls' = calls,
         NEW o \in Outcomes, NEW max, NEW reg, Good(reg),
         results' = Append(results, Result(o, max, reg))
  PROVE  /\ Len(results') = Len(results) + 1 /\ Len(results') <= MaxBuilds
         /\ \E S : results' \in Seq(S)
         /\ \A n \in DOMAIN results' :
              /\ results'[n].outcome \in Outcomes
              /\ results'[n].calls \in 0..calls'
              /\ Good(results'[n].registry)
<1> DEFINE r == Result(o, max, reg)
<1>1. PICK S : results \in Seq(S)
  BY DEF RegistryInv, NextResult
<1>2. /\ Len(results) \in Nat
      /\ results' \in Seq(S \cup {r})
      /\ Len(results') = Len(results) + 1
      /\ DOMAIN results' = DOMAIN results \cup {Len(results) + 1}
      /\ \A n \in DOMAIN results' : results'[n] = IF n \in DOMAIN results THEN results[n] ELSE r
  BY <1>1
<1>3. /\ r.outcome \in Outcomes
      /\ r.calls \in 0..calls
      /\ Good(r.registry)
  BY DEF Result, RegistryInv, RegistryTypeOK
<1>4. \A n \in DOMAIN results :
        /\ results[n].outcome \in Outcomes
        /\ results[n].calls \in 0..calls
        /\ Good(results[n].registry)
  BY DEF RegistryInv, RegistryTypeOK, TypesHaveKinds, Good
<1> HIDE DEF r
<1>5. MaxBuilds \in Nat
  BY BuilderAssumption
<1>6. \E T : results' \in Seq(T)
  BY <1>2
<1> QED
  BY <1>2, <1>3, <1>4, <1>5, <1>6

LEMMA Failing ==
  ASSUME RegistryInv, build # 0, NEW o \in Outcomes, Fail(o)
  PROVE  RegistryInv'
<1>1. build \in Builds /\ build \in Registries
  BY DEF RegistryInv, RegistryTypeOK, Registries
<1>2. Len(results) < MaxBuilds
  <2>1. PICK S : results \in Seq(S)
    BY DEF RegistryInv, NextResult
  <2> QED
    BY <1>1, <2>1, BuilderAssumption DEF RegistryInv, NextResult, Builds
<1>3. /\ DOMAIN regs' = Registries
      /\ \A n \in Registries : Good(regs'[n])
  BY <1>1, RegistriesStayGood, NothingIsGood DEF Fail
<1>4. /\ Len(results') <= MaxBuilds
      /\ \E S : results' \in Seq(S)
      /\ \A n \in DOMAIN results' :
           /\ results'[n].outcome \in Outcomes
           /\ results'[n].calls \in 0..calls'
           /\ Good(results'[n].registry)
  BY <1>2, OneMoreResult, NothingIsGood DEF Fail
<1>5. /\ builder' = builder /\ calls' = calls /\ build' = 0 /\ todo' = << >>
  BY DEF Fail
<1>6. RegistryTypeOK'
  BY <1>3, <1>4, <1>5 DEF RegistryTypeOK, RegistryInv, Good
<1>7. TypesHaveKinds'
  BY <1>3, <1>4 DEF TypesHaveKinds, Good
<1>8. MergeHasSource' /\ NextResult'
  BY <1>4, <1>5 DEF MergeHasSource, NextResult
<1> QED
  BY <1>6, <1>7, <1>8 DEF RegistryInv

LEMMA Advancing ==
  ASSUME RegistryInv, build # 0, todo # << >>, NEW reg, Good(reg), Advance(reg)
  PROVE  RegistryInv'
<1>1. build \in Registries
  BY DEF RegistryInv, RegistryTypeOK, Registries
<1>2. /\ DOMAIN regs' = Registries
      /\ \A n \in Registries : Good(regs'[n])
  BY <1>1, RegistriesStayGood DEF Advance
<1>3. /\ todo' \in Seq(Steps)
      /\ \A i \in DOMAIN todo' : i + 1 \in DOMAIN todo /\ todo'[i] = todo[i + 1]
  BY DEF Advance, RegistryInv, RegistryTypeOK
<1>4. MergeHasSource'
  BY <1>3 DEF Advance, MergeHasSource, RegistryInv
<1> QED
  BY <1>2, <1>3, <1>4
     DEF Advance, RegistryInv, RegistryTypeOK, TypesHaveKinds, NextResult, Good

-----------------------------------------------------------------------------
(* The actions.                                                            *)

LEMMA InitIsGood == RegistryInit => RegistryInv
<1> SUFFICES ASSUME RegistryInit PROVE RegistryInv
  OBVIOUS
<1>1. \A id \in Registries : Good(regs[id])
  BY NothingIsGood DEF RegistryInit
<1>2. builder \in Builders
  BY DEF RegistryInit, Builders
<1>3. results = << >> /\ results \in Seq({}) /\ todo = << >> /\ build = 0 /\ calls = 0
      /\ DOMAIN regs = Registries
  BY DEF RegistryInit
<1> QED
  BY <1>1, <1>2, <1>3, BuilderAssumption
     DEF RegistryInv, RegistryTypeOK, TypesHaveKinds, MergeHasSource, NextResult, Good

\* No with_ method takes the registry away again.
LEMMA Calling ==
  ASSUME RegistryInv, NEW b \in Builders, Call(b), DOMAIN regs' = Registries,
         \A id \in Registries : Good(regs'[id]),
         builder.registry # None => b.registry # None
  PROVE  RegistryInv'
<1>1. /\ calls \in 0..MaxCalls /\ calls < MaxCalls /\ calls' = calls + 1 /\ MaxCalls \in Nat
      /\ builder' = b /\ todo' = todo /\ build' = build /\ results' = results
  BY BuilderAssumption DEF Call, RegistryInv, RegistryTypeOK
<1>2. calls' \in 0..MaxCalls /\ \A n \in 0..calls : n \in 0..calls'
  BY <1>1
<1> QED
  BY <1>1, <1>2 DEF RegistryInv, RegistryTypeOK, TypesHaveKinds, MergeHasSource, NextResult, Good

LEMMA ConfiguringIsGood == RegistryInv /\ Configure => RegistryInv'
<1> SUFFICES ASSUME RegistryInv, Configure PROVE RegistryInv'
  OBVIOUS
<1>1. /\ DOMAIN regs = Registries
      /\ \A id \in Registries : Good(regs[id])
      /\ builder \in Builders
  BY DEF RegistryInv, RegistryTypeOK, TypesHaveKinds, Good
<1>2. CASE WithUowFactory
  BY <1>1, <1>2, Calling DEF WithUowFactory, Builders
<1>3. CASE WithSettings
  BY <1>1, <1>3, Calling DEF WithSettings, Builders
<1>4. CASE WithMaxConnections
  BY <1>1, <1>4, Calling DEF WithMaxConnections, Builders
<1>5. CASE WithRegistry
  <2>1. /\ DOMAIN regs' = Registries
        /\ \A id \in Registries : Good(regs'[id])
    BY <1>1, <1>5 DEF WithRegistry, Registries
  <2>2. [builder EXCEPT !.registry = Copy] \in Builders
    BY <1>1 DEF Builders
  <2>3. [builder EXCEPT !.registry = Copy].registry # None
    BY <1>1, BuilderAssumption DEF Builders
  <2> QED
    BY <1>5, <2>1, <2>2, <2>3, Calling DEF WithRegistry
<1>6. CASE WithDefaultTypes
  BY <1>1, <1>6, Calling DEF WithDefaultTypes, Builders
<1>7. CASE WithKind
  <2>1. PICK c \in HostKinds : Call([builder EXCEPT !.kinds = Append(@, c)])
    BY <1>7 DEF WithKind
  <2>2. Append(builder.kinds, c) \in Seq(KindCalls)
    BY <1>1, BuilderAssumption DEF Builders
  <2> QED
    BY <1>1, <1>7, <2>1, <2>2, Calling DEF WithKind, Builders
<1>8. CASE WithType
  <2>1. PICK c \in HostTypes : Call([builder EXCEPT !.types = Append(@, c)])
    BY <1>8 DEF WithType
  <2>2. Append(builder.types, c) \in Seq(TypeCalls)
    BY <1>1, BuilderAssumption DEF Builders
  <2> QED
    BY <1>1, <1>8, <2>1, <2>2, Calling DEF WithType, Builders
<1>9. CASE WithDsl
  <2>1. PICK config \in Configs : Call([builder EXCEPT !.dsl = Append(@, config)])
    BY <1>9 DEF WithDsl
  <2>2. Append(builder.dsl, config) \in Seq(Configs)
    BY <1>1 DEF Builders
  <2> QED
    BY <1>1, <1>9, <2>1, <2>2, Calling DEF WithDsl, Builders
<1>10. CASE WithPluginEntrypoints
  <2>1. PICK names \in Requests : Call([builder EXCEPT !.requests = Append(@, names)])
    BY <1>10 DEF WithPluginEntrypoints
  <2>2. Append(builder.requests, names) \in Seq(Requests)
    BY <1>1 DEF Builders
  <2> QED
    BY <1>1, <1>10, <2>1, <2>2, Calling DEF WithPluginEntrypoints, Builders
<1> QED
  BY <1>2, <1>3, <1>4, <1>5, <1>6, <1>7, <1>8, <1>9, <1>10 DEF Configure

LEMMA HostRegisteringIsGood == RegistryInv /\ HostRegisters => RegistryInv'
<1> SUFFICES ASSUME RegistryInv, HostRegisters PROVE RegistryInv'
  OBVIOUS
<1>1. PICK id \in {Given} \cup DOMAIN results, c \in HostCalls :
        /\ Fits(regs[id], c)
        /\ regs' = [regs EXCEPT ![id] = Registered(regs[id], c)]
  BY DEF HostRegisters
<1>2. id \in Registries
  <2>1. PICK S : results \in Seq(S)
    BY DEF RegistryInv, NextResult
  <2> QED
    BY <1>1, <2>1, BuilderAssumption DEF RegistryInv, RegistryTypeOK, Registries, Builds
<1>3. Good(Registered(regs[id], c))
  <2>1. Good(regs[id])
    BY <1>2 DEF RegistryInv, RegistryTypeOK, TypesHaveKinds, Good
  <2> QED
    BY <1>1, <2>1, RegisteringIsGood, BuilderAssumption
<1>4. /\ DOMAIN regs' = Registries
      /\ \A n \in Registries : Good(regs'[n])
  BY <1>1, <1>2, <1>3, RegistriesStayGood
<1> QED
  BY <1>4 DEF HostRegisters, RegistryInv, RegistryTypeOK, TypesHaveKinds, MergeHasSource, NextResult, Good

LEMMA PlanIsGood ==
  ASSUME RegistryInv
  PROVE  /\ Plan(builder) \in Seq(Steps)
         /\ (\E i \in DOMAIN Plan(builder) : Plan(builder)[i].step = "merge") => builder.registry # None
<1> DEFINE first == IF builder.registry = None THEN << >> ELSE <<[step |-> "merge"]>>
           requests == [i \in DOMAIN builder.requests |->
                          [step |-> "plugins", names |-> builder.requests[i]]]
           NoMerge(s) == \A i \in DOMAIN s : s[i].step # "merge"
<1>1. builder \in Builders
  BY DEF RegistryInv, RegistryTypeOK
<1>2. ASSUME NEW s \in {"config", "config_plugins"}
      PROVE  EachConfig(s, builder.dsl) \in Seq(Steps) /\ NoMerge(EachConfig(s, builder.dsl))
  <2>1. \A i \in DOMAIN builder.dsl : [step |-> s, config |-> builder.dsl[i]] \in Steps
    BY <1>1, StepKinds DEF Builders
  <2>2. s # "merge"
    OBVIOUS
  <2> QED
    BY <1>1, <2>1, <2>2 DEF EachConfig, Builders
<1>3. requests \in Seq(Steps) /\ NoMerge(requests)
  <2>1. \A i \in DOMAIN builder.requests :
          [step |-> "plugins", names |-> builder.requests[i]] \in Steps
    <3>1. \A i \in DOMAIN builder.requests : builder.requests[i] \in Requests
      BY <1>1 DEF Builders
    <3>2. Requests \subseteq SUBSET STRING \cup {None}
      BY BuilderAssumption
    <3> QED
      BY <3>1, <3>2, StepKinds, Zenon
  <2> QED
    BY <1>1, <2>1 DEF Builders
<1>4. builder.kinds \in Seq(Calls) /\ builder.types \in Seq(Calls)
  BY <1>1 DEF Builders, Calls
<1>5. /\ Register("builder", builder.kinds) \in Seq(Steps)
      /\ Register("builder", builder.types) \in Seq(Steps)
      /\ NoMerge(Register("builder", builder.kinds)) /\ NoMerge(Register("builder", builder.types))
  BY <1>4, RegisterSteps
<1>6. first \in Seq(Steps) /\ (builder.registry = None => NoMerge(first))
  <2>1. CASE builder.registry = None
    BY <2>1
  <2>2. CASE builder.registry # None
    BY <2>2, StepKinds
  <2> QED
    BY <2>1, <2>2
<1>7. Plan(builder) = first \o EachConfig("config", builder.dsl) \o EachConfig("config_plugins", builder.dsl) \o requests
             \o Register("builder", builder.kinds) \o Register("builder", builder.types)
  BY DEF Plan
<1> HIDE DEF first, requests
<1>8. ASSUME NEW s \in Seq(Steps), NEW t \in Seq(Steps)
      PROVE  s \o t \in Seq(Steps) /\ (NoMerge(s) /\ NoMerge(t) => NoMerge(s \o t))
  OBVIOUS
<1> HIDE DEF NoMerge
<1> DEFINE p1 == first \o EachConfig("config", builder.dsl)
           p2 == p1 \o EachConfig("config_plugins", builder.dsl)
           p3 == p2 \o requests
           p4 == p3 \o Register("builder", builder.kinds)
<1>9. p1 \in Seq(Steps) /\ (builder.registry = None => NoMerge(p1))
  BY <1>2, <1>6, <1>8
<1> HIDE DEF p1
<1>10. p2 \in Seq(Steps) /\ (builder.registry = None => NoMerge(p2))
  BY <1>2, <1>8, <1>9
<1> HIDE DEF p2
<1>11. p3 \in Seq(Steps) /\ (builder.registry = None => NoMerge(p3))
  BY <1>3, <1>8, <1>10
<1> HIDE DEF p3
<1>12. p4 \in Seq(Steps) /\ (builder.registry = None => NoMerge(p4))
  BY <1>5, <1>8, <1>11
<1> HIDE DEF p4
<1>13. Plan(builder) = p4 \o Register("builder", builder.types)
  BY <1>7 DEF p1, p2, p3, p4
<1>14. Plan(builder) \in Seq(Steps) /\ (builder.registry = None => NoMerge(Plan(builder)))
  BY <1>5, <1>8, <1>12, <1>13
<1> QED
  BY <1>14 DEF NoMerge

LEMMA StartingIsGood == RegistryInv /\ StartBuild => RegistryInv'
<1> SUFFICES ASSUME RegistryInv, StartBuild PROVE RegistryInv'
  OBVIOUS
<1>1. Len(results) \in Nat /\ Len(results) < MaxBuilds /\ MaxBuilds \in Nat
  <2>1. PICK S : results \in Seq(S)
    BY DEF RegistryInv, NextResult
  <2> QED
    BY <2>1, BuilderAssumption DEF StartBuild
<1> DEFINE reg == IF builder.defaults THEN DefaultRegistry ELSE Nothing
<1>2. /\ build' = Len(results) + 1 /\ build' \in Builds /\ build' \in Registries
      /\ regs' = [regs EXCEPT ![build'] = reg]
      /\ todo' = Plan(builder)
      /\ builder' = builder /\ calls' = calls /\ results' = results
  BY <1>1 DEF StartBuild, Builds, Registries
<1>3. Good(reg)
  BY DefaultsAreGood, NothingIsGood
<1> HIDE DEF reg
<1>4. /\ DOMAIN regs' = Registries
      /\ \A n \in Registries : Good(regs'[n])
  BY <1>2, <1>3, RegistriesStayGood
<1>5. todo' \in Seq(Steps) /\ MergeHasSource'
  BY <1>2, PlanIsGood DEF MergeHasSource
<1> QED
  BY <1>2, <1>4, <1>5 DEF RegistryInv, RegistryTypeOK, TypesHaveKinds, NextResult, Good

LEMMA BuildStepIsGood ==
  ASSUME RegistryInv, build # 0, todo # << >>,
         \/ MergeRegistry \/ ApplyConfig \/ ConfigPlugins \/ SelectPlugins
         \/ LoadPlugin \/ PluginRaises \/ RegisterOne
  PROVE  RegistryInv'
<1> DEFINE step == Head(todo)
<1>1. /\ step \in Steps /\ step = todo[1] /\ 1 \in DOMAIN todo
      /\ build \in Registries
      /\ \A id \in Registries : Good(regs[id])
  BY DEF RegistryInv, RegistryTypeOK, TypesHaveKinds, Registries, Good
<1>2. CASE MergeRegistry
  <2>1. builder.registry \in Registries
    BY <1>1, <1>2 DEF MergeRegistry, At, RegistryInv, MergeHasSource, RegistryTypeOK, Builders, Registries
  <2>2. /\ Good(Merged(regs[build], regs[builder.registry]))
        /\ MergeFits(regs[build], regs[builder.registry])
    BY <1>1, <2>1, MergingIsGood
  <2> QED
    BY <1>2, <2>2, Advancing DEF MergeRegistry
<1>3. CASE ApplyConfig
  <2>1. /\ step.step = "config" /\ step.config \in Configs
        /\ Replace(Register("config", step.config.kinds) \o Register("config", step.config.types))
    BY <1>1, <1>3 DEF ApplyConfig, At, Steps
  <2>2. step.config.kinds \in Seq(Calls) /\ step.config.types \in Seq(Calls)
    BY <2>1, BuilderAssumption DEF Calls
  <2> DEFINE ks == Register("config", step.config.kinds)
             ts == Register("config", step.config.types)
  <2>3. /\ ks \in Seq(Steps) /\ ts \in Seq(Steps)
        /\ \A i \in DOMAIN ks : ks[i].step = "register"
        /\ \A i \in DOMAIN ts : ts[i].step = "register"
    BY <2>2, RegisterSteps
  <2>4. Replace(ks \o ts)
    BY <2>1
  <2> HIDE DEF ks, ts
  <2>5. /\ ks \o ts \in Seq(Steps)
        /\ \A i \in DOMAIN (ks \o ts) : (ks \o ts)[i].step # "merge"
    BY <2>3
  <2> QED
    BY <2>4, <2>5, Replacing
<1>4. CASE ConfigPlugins
  <2> DEFINE named == step.config.plugins
             requests == [i \in DOMAIN named |-> [step |-> "plugins", names |-> {named[i]}]]
  <2>1. step.config \in Configs /\ Replace(requests)
    BY <1>1, <1>4 DEF ConfigPlugins, At, Steps
  <2>2. named \in Seq(STRING)
    BY <2>1, BuilderAssumption
  <2>3. \A i \in DOMAIN named : [step |-> "plugins", names |-> {named[i]}] \in Steps
    <3>1. \A i \in DOMAIN named : {named[i]} \in SUBSET STRING
      BY <2>2
    <3> QED
      BY <3>1, StepKinds, Zenon
  <2> HIDE DEF named
  <2>4. requests \in Seq(Steps) /\ \A i \in DOMAIN requests : requests[i].step # "merge"
    BY <2>2, <2>3
  <2> QED
    BY <2>1, <2>4, Replacing
<1>5. CASE SelectPlugins
  <2> DEFINE selected == {i \in DOMAIN Installed : step.names = None \/ Installed[i].name \in step.names}
             load == <<[step |-> "load", left |-> selected]>>
  <2>1. Fail("infrastructure") \/ Replace(load)
    BY <1>5 DEF SelectPlugins
  <2>2. [step |-> "load", left |-> selected] \in Steps
    BY StepKinds
  <2> HIDE DEF selected
  <2>3. load \in Seq(Steps) /\ \A i \in DOMAIN load : load[i].step # "merge"
    BY <2>2
  <2> QED
    BY <2>1, <2>3, Replacing, Failing DEF Outcomes
<1>6. CASE LoadPlugin
  <2> DEFINE left == step.left
             after(i) == Register("plugin", Installed[i].calls)
                         \o (IF Installed[i].raises THEN <<[step |-> "raise"]>> ELSE << >>)
                         \o <<[step |-> "load", left |-> left \ {i}]>>
  <2>1. left \in SUBSET (DOMAIN Installed)
    BY <1>1, <1>6 DEF LoadPlugin, At, Steps
  <2>2. \/ Replace(<< >>) \/ Fail("infrastructure")
        \/ \E i \in left : Replace(after(i))
    BY <1>6, Zenon DEF LoadPlugin
  <2>3. ASSUME NEW i \in left
        PROVE  after(i) \in Seq(Steps) /\ \A j \in DOMAIN after(i) : after(i)[j].step # "merge"
    <3> DEFINE regd == Register("plugin", Installed[i].calls)
               raise == IF Installed[i].raises THEN <<[step |-> "raise"]>> ELSE << >>
               load == <<[step |-> "load", left |-> left \ {i}]>>
    <3>1. Installed[i].calls \in Seq(Calls)
      <4>1. i \in DOMAIN Installed
        BY <2>1
      <4> DEFINE EntryPoints == [name : STRING, loads : BOOLEAN, calls : Seq(Calls), raises : BOOLEAN]
      <4>2. Installed \in Seq(EntryPoints)
        BY BuilderAssumption
      <4> HIDE DEF EntryPoints, left
      <4>3. Installed[i] \in EntryPoints
        BY <4>1, <4>2
      <4> QED
        BY <4>3, Zenon DEF EntryPoints
    <3>2. regd \in Seq(Steps) /\ \A j \in DOMAIN regd : regd[j].step = "register"
      BY <3>1, RegisterSteps
    <3>3. raise \in Seq(Steps) /\ \A j \in DOMAIN raise : raise[j].step # "merge"
      <4>1. CASE Installed[i].raises
        BY <4>1, StepKinds
      <4>2. CASE ~Installed[i].raises
        BY <4>2
      <4> QED
        BY <4>1, <4>2
    <3>4. load \in Seq(Steps) /\ \A j \in DOMAIN load : load[j].step # "merge"
      <4>1. [step |-> "load", left |-> left \ {i}] \in Steps
        BY <2>1, StepKinds
      <4> HIDE DEF left
      <4> QED
        BY <4>1
    <3>5. after(i) = regd \o raise \o load
      OBVIOUS
    <3> HIDE DEF regd, raise, load, after
    <3> QED
      BY <3>2, <3>3, <3>4, <3>5
  <2> HIDE DEF after
  <2>4. << >> \in Seq(Steps) /\ DOMAIN << >> = {}
    OBVIOUS
  <2>5. CASE Replace(<< >>)
    BY <2>4, <2>5, Replacing
  <2>6. CASE Fail("infrastructure")
    BY <2>6, Failing DEF Outcomes
  <2>7. CASE \E i \in left : Replace(after(i))
    BY <2>3, <2>7, Replacing
  <2> QED
    BY <2>2, <2>5, <2>6, <2>7
<1>7. CASE PluginRaises
  BY <1>7, Failing DEF PluginRaises, Outcomes
<1>8. CASE RegisterOne
  <2> DEFINE c == step.call
             e == Error(regs[build], step.by, c)
  <2>1. c \in Calls
    BY <1>1, <1>8 DEF RegisterOne, At, Steps
  <2>2. /\ e \in Outcomes
        /\ e = "ok" => Fits(regs[build], c) /\ (c.what = "type" => Constructs(c.spec))
    BY DEF Error, Outcomes
  <2>3. CASE e = "ok"
    <3>1. Good(Registered(regs[build], c))
      BY <1>1, <2>1, <2>2, <2>3, RegisteringIsGood
    <3>2. Advance(Registered(regs[build], c))
      BY <1>8, <2>3 DEF RegisterOne
    <3> QED
      BY <3>1, <3>2, Advancing
  <2>4. CASE e # "ok"
    <3>1. Fail(e)
      BY <1>8, <2>4 DEF RegisterOne
    <3> QED
      BY <2>2, <3>1, Failing
  <2> QED
    BY <2>3, <2>4
<1> QED
  BY <1>2, <1>3, <1>4, <1>5, <1>6, <1>7, <1>8

LEMMA FinishingIsGood == RegistryInv /\ FinishBuild => RegistryInv'
<1> SUFFICES ASSUME RegistryInv, FinishBuild PROVE RegistryInv'
  OBVIOUS
<1>1. /\ build \in Registries /\ Good(regs[build])
      /\ Len(results) < MaxBuilds
  <2>1. PICK S : results \in Seq(S)
    BY DEF RegistryInv, NextResult
  <2> QED
    BY <2>1, BuilderAssumption
       DEF FinishBuild, RegistryInv, RegistryTypeOK, TypesHaveKinds, NextResult, Registries, Builds, Good
<1>2. /\ results' = Append(results, Result("ok", MaxConnections(builder), regs[build]))
      /\ build' = 0 /\ regs' = regs /\ todo' = todo /\ builder' = builder /\ calls' = calls
  BY DEF FinishBuild
<1>3. /\ Len(results') <= MaxBuilds
      /\ \E S : results' \in Seq(S)
      /\ \A n \in DOMAIN results' :
           /\ results'[n].outcome \in Outcomes
           /\ results'[n].calls \in 0..calls'
           /\ Good(results'[n].registry)
  BY <1>1, <1>2, OneMoreResult DEF Outcomes
<1> QED
  BY <1>2, <1>3
     DEF RegistryInv, RegistryTypeOK, TypesHaveKinds, MergeHasSource, NextResult, Good

LEMMA BuildingIsGood == RegistryInv /\ Build => RegistryInv'
<1> SUFFICES ASSUME RegistryInv, Build PROVE RegistryInv'
  OBVIOUS
<1>1. CASE StartBuild
  BY <1>1, StartingIsGood
<1>2. CASE FinishBuild
  BY <1>2, FinishingIsGood
<1>3. CASE \/ MergeRegistry \/ ApplyConfig \/ ConfigPlugins \/ SelectPlugins
           \/ LoadPlugin \/ PluginRaises \/ RegisterOne
  <2>1. build # 0 /\ todo # << >>
    BY <1>3 DEF MergeRegistry, ApplyConfig, ConfigPlugins, SelectPlugins, LoadPlugin,
                PluginRaises, RegisterOne, At
  <2> QED
    BY <1>3, <2>1, BuildStepIsGood
<1> QED
  BY <1>1, <1>2, <1>3 DEF Build

-----------------------------------------------------------------------------
(* A build as a run of one function: what it does next depends on the      *)
(* builder, its copy of the host's registry and the build itself.          *)

\* The registry merged over the default types.
Source == IF builder.registry = None THEN Nothing ELSE regs[builder.registry]

State(steps, reg) == [todo |-> steps, reg |-> reg]
Ending(n, o, max, reg) == [calls |-> n, outcome |-> o, max |-> max, registry |-> reg]
IsOver(x) == "outcome" \in DOMAIN x

LEMMA StatesAreNotOver == \A steps, reg : ~IsOver(State(steps, reg))
BY DEF IsOver, State

LEMMA EndingsAreOver == \A n, o, max, reg : 
  IsOver(Ending(n, o, max, reg)) /\ Ending(n, o, max, reg).calls = n
BY DEF IsOver, Ending

Opening(b) == State(Plan(b), IF b.defaults THEN DefaultRegistry ELSE Nothing)

First(left) == CHOOSE i \in left : \A j \in left : i <= j

\* What a build in state x is after its next step, for a builder b that was
\* called n times and has the registry source.
After(b, source, n, x) ==
  LET head == Head(x.todo)
      Replaced(steps) == State(steps \o Tail(x.todo), x.reg)
      Advanced(reg) == State(Tail(x.todo), reg)
      Failed(o) == Ending(n, o, None, Nothing)
  IN  IF x.todo = << >> THEN Ending(n, "ok", MaxConnections(b), x.reg)
      ELSE CASE head.step = "merge" ->
                  IF MergeFits(x.reg, source) THEN Advanced(Merged(x.reg, source))
                  ELSE Failed("validation")
             [] head.step = "config" ->
                  Replaced(Register("config", head.config.kinds) \o Register("config", head.config.types))
             [] head.step = "config_plugins" ->
                  Replaced([i \in DOMAIN head.config.plugins |->
                              [step |-> "plugins", names |-> {head.config.plugins[i]}]])
             [] head.step = "plugins" ->
                  LET selected == {i \in DOMAIN Installed :
                                     head.names = None \/ Installed[i].name \in head.names}
                  IN  IF /\ head.names # None
                         /\ ~head.names \subseteq {Installed[i].name : i \in selected}
                      THEN Failed("infrastructure")
                      ELSE Replaced(<<[step |-> "load", left |-> selected]>>)
             [] head.step = "load" ->
                  IF head.left = {} THEN Replaced(<< >>)
                  ELSE LET i == First(head.left)
                       IN  IF ~Installed[i].loads THEN Failed("infrastructure")
                           ELSE Replaced(Register("plugin", Installed[i].calls)
                                         \o (IF Installed[i].raises THEN <<[step |-> "raise"]>> ELSE << >>)
                                         \o <<[step |-> "load", left |-> head.left \ {i}]>>)
             [] head.step = "raise" -> Failed("infrastructure")
             [] head.step = "register" ->
                  LET e == Error(x.reg, head.by, head.call)
                  IN  IF e = "ok" THEN Advanced(Registered(x.reg, head.call)) ELSE Failed(e)

\* A build in state x comes to y.
ComesTo(b, source, n, x, y) ==
  \E k, run :
    /\ k \in Nat /\ run[0] = x /\ run[k] = y
    /\ \A i \in 0..(k - 1) : ~IsOver(run[i]) /\ run[i + 1] = After(b, source, n, run[i])

LEMMA ComesToItself ==
  ASSUME NEW b, NEW source, NEW n, NEW x
  PROVE  ComesTo(b, source, n, x, x)
<1> DEFINE run == [i \in 0..0 |-> x]
<1>1. run[0] = x /\ 0 \in Nat /\ 0..(0 - 1) = {}
  OBVIOUS
<1> QED BY <1>1 DEF ComesTo

LEMMA ComesFurther ==
  ASSUME NEW b, NEW source, NEW n, NEW x, NEW y, ComesTo(b, source, n, x, y), ~IsOver(y)
  PROVE  ComesTo(b, source, n, x, After(b, source, n, y))
<1>1. PICK k, run :
        /\ k \in Nat /\ run[0] = x /\ run[k] = y
        /\ \A i \in 0..(k - 1) : ~IsOver(run[i]) /\ run[i + 1] = After(b, source, n, run[i])
  BY DEF ComesTo
<1> DEFINE next == After(b, source, n, y)
           longer == [i \in 0..(k + 1) |-> IF i = k + 1 THEN next ELSE run[i]]
<1> HIDE DEF next
<1>2. k + 1 \in Nat /\ longer[0] = x /\ longer[k + 1] = next
  BY <1>1
<1>3. ASSUME NEW i \in 0..k
      PROVE  ~IsOver(longer[i]) /\ longer[i + 1] = After(b, source, n, longer[i])
  <2>1. CASE i = k
    <3>1. longer[i] = y /\ longer[i + 1] = next
      BY <1>1, <2>1
    <3> QED BY <3>1 DEF next
  <2>2. CASE i # k
    <3>1. i \in 0..(k - 1) /\ longer[i] = run[i] /\ longer[i + 1] = run[i + 1]
      BY <1>1, <2>2
    <3> QED BY <1>1, <3>1
  <2> QED BY <2>1, <2>2
<1>4. (k + 1) - 1 = k
  BY <1>1
<1> HIDE DEF longer
<1> QED BY <1>2, <1>3, <1>4 DEF ComesTo, next

LEMMA ComesOnFrom ==
  ASSUME NEW b, NEW source, NEW n, NEW x, NEW y, ComesTo(b, source, n, x, y),
         ~IsOver(x), IsOver(y)
  PROVE  ComesTo(b, source, n, After(b, source, n, x), y)
<1>1. PICK k, run :
        /\ k \in Nat /\ run[0] = x /\ run[k] = y
        /\ \A i \in 0..(k - 1) : ~IsOver(run[i]) /\ run[i + 1] = After(b, source, n, run[i])
  BY DEF ComesTo
<1>2. k # 0
  BY <1>1
<1>3. k - 1 \in Nat /\ 0 \in 0..(k - 1)
  BY <1>1, <1>2
<1> DEFINE rest == [i \in 0..(k - 1) |-> run[i + 1]]
<1>4. rest[0] = After(b, source, n, x) /\ rest[k - 1] = y
  BY <1>1, <1>3
<1>5. ASSUME NEW i \in 0..((k - 1) - 1)
      PROVE  ~IsOver(rest[i]) /\ rest[i + 1] = After(b, source, n, rest[i])
  <2>1. i + 1 \in 0..(k - 1) /\ rest[i] = run[i + 1] /\ rest[i + 1] = run[(i + 1) + 1]
    BY <1>3
  <2> QED BY <1>1, <2>1
<1> HIDE DEF rest
<1> QED BY <1>3, <1>4, <1>5 DEF ComesTo

LEMMA OverIsTheEnd ==
  ASSUME NEW b, NEW source, NEW n, NEW x, NEW y, ComesTo(b, source, n, x, y), IsOver(x)
  PROVE  x = y
<1>1. PICK k, run :
        /\ k \in Nat /\ run[0] = x /\ run[k] = y
        /\ \A i \in 0..(k - 1) : ~IsOver(run[i]) /\ run[i + 1] = After(b, source, n, run[i])
  BY DEF ComesTo
<1>2. k = 0
  <2>1. k # 0 => 0 \in 0..(k - 1)
    BY <1>1
  <2> QED BY <1>1, <2>1
<1> QED BY <1>1, <1>2

BuildState == State(todo, regs[build])

\* The builder is given its own copy of a registry and no other.
OwnCopy == builder.registry \in {None, Copy}

\* A step of a build takes it to the next state, or to its result.
FollowsAfter ==
  LET next == After(builder, Source, calls, BuildState) IN
  \/ build' = build /\ results' = results /\ BuildState' = next
  \/ build' = 0 /\ results' = Append(results, next) /\ IsOver(next) /\ next.calls = calls

\* What a step of a build leaves as it is.
BuildKeeps == builder' = builder /\ calls' = calls /\ Source' = Source

LEMMA StepsByForm ==
  ASSUME RegistryInv, OwnCopy, build # 0
  PROVE  /\ \A steps : Replace(steps) =>
              /\ BuildKeeps /\ build' = build /\ results' = results
              /\ BuildState' = State(steps \o Tail(todo), regs[build])
         /\ \A reg : Advance(reg) =>
              /\ BuildKeeps /\ build' = build /\ results' = results
              /\ BuildState' = State(Tail(todo), reg)
         /\ \A o : Fail(o) =>
              /\ BuildKeeps /\ build' = 0
              /\ results' = Append(results, Ending(calls, o, None, Nothing))
<1>1. build \in DOMAIN regs /\ Copy \in DOMAIN regs /\ build # Copy
  BY DEF RegistryInv, RegistryTypeOK, Registries, Builds, Copy
<1>2. ASSUME NEW steps, Replace(steps)
      PROVE  /\ BuildKeeps /\ build' = build /\ results' = results
             /\ BuildState' = State(steps \o Tail(todo), regs[build])
  BY <1>2 DEF Replace, BuildKeeps, Source, BuildState
<1>3. ASSUME NEW reg, Advance(reg)
      PROVE  /\ BuildKeeps /\ build' = build /\ results' = results
             /\ BuildState' = State(Tail(todo), reg)
  <2>1. regs'[build] = reg /\ regs'[Copy] = regs[Copy]
    BY <1>1, <1>3 DEF Advance
  <2> QED BY <1>3, <2>1 DEF Advance, BuildKeeps, Source, BuildState, OwnCopy
<1>4. ASSUME NEW o, Fail(o)
      PROVE  /\ BuildKeeps /\ build' = 0
             /\ results' = Append(results, Ending(calls, o, None, Nothing))
  <2>1. regs'[Copy] = regs[Copy]
    BY <1>1, <1>4 DEF Fail
  <2> QED BY <1>4, <2>1 DEF Fail, BuildKeeps, Source, OwnCopy, Result, Ending
<1> QED BY <1>2, <1>3, <1>4

LEMMA StepFollows ==
  ASSUME RegistryInv, OwnCopy, build # 0, todo # << >>,
         \/ MergeRegistry \/ ApplyConfig \/ ConfigPlugins \/ SelectPlugins
         \/ LoadPlugin \/ PluginRaises \/ RegisterOne
  PROVE  BuildKeeps /\ FollowsAfter
<1> DEFINE head == Head(todo)
           next == After(builder, Source, calls, BuildState)
           Replaced(steps) == State(steps \o Tail(todo), regs[build])
           Advanced(reg) == State(Tail(todo), reg)
           Failed(o) == Ending(calls, o, None, Nothing)
<1>1. BuildState.todo = todo /\ BuildState.reg = regs[build]
  BY DEF BuildState, State
<1>2. /\ \A steps : Replace(steps) /\ next = Replaced(steps) => BuildKeeps /\ FollowsAfter
      /\ \A reg : Advance(reg) /\ next = Advanced(reg) => BuildKeeps /\ FollowsAfter
      /\ \A o : Fail(o) /\ next = Failed(o) => BuildKeeps /\ FollowsAfter
  BY StepsByForm, EndingsAreOver DEF FollowsAfter
<1>3. CASE MergeRegistry
  <2>1. head.step = "merge" /\ regs[builder.registry] = Source
    <3>1. 1 \in DOMAIN todo /\ todo[1].step = "merge" /\ head = todo[1]
      BY <1>3 DEF MergeRegistry, At, RegistryInv, RegistryTypeOK
    <3> QED BY <3>1 DEF Source, RegistryInv, MergeHasSource
  <2>2. next = IF MergeFits(regs[build], Source) THEN Advanced(Merged(regs[build], Source))
               ELSE Failed("validation")
    BY <1>1, <2>1 DEF After
  <2> HIDE DEF next
  <2> QED BY <1>2, <1>3, <2>1, <2>2 DEF MergeRegistry
<1>4. CASE ApplyConfig
  <2>1. head.step = "config"
    BY <1>4 DEF ApplyConfig, At
  <2>2. next = Replaced(Register("config", head.config.kinds) \o Register("config", head.config.types))
    BY <1>1, <2>1 DEF After
  <2> HIDE DEF next
  <2> QED BY <1>2, <1>4, <2>2 DEF ApplyConfig
<1>5. CASE ConfigPlugins
  <2>1. head.step = "config_plugins"
    BY <1>5 DEF ConfigPlugins, At
  <2>2. next = Replaced([i \in DOMAIN head.config.plugins |->
                           [step |-> "plugins", names |-> {head.config.plugins[i]}]])
    BY <1>1, <2>1 DEF After
  <2> HIDE DEF next
  <2> QED BY <1>2, <1>5, <2>2 DEF ConfigPlugins
<1>6. CASE SelectPlugins
  <2> DEFINE selected == {i \in DOMAIN Installed : head.names = None \/ Installed[i].name \in head.names}
             Unknown == head.names # None /\ ~head.names \subseteq {Installed[i].name : i \in selected}
  <2>1. head.step = "plugins"
    BY <1>6 DEF SelectPlugins, At
  <2>2. next = IF Unknown THEN Failed("infrastructure")
               ELSE Replaced(<<[step |-> "load", left |-> selected]>>)
    BY <1>1, <2>1 DEF After
  <2>3. IF Unknown THEN Fail("infrastructure") ELSE Replace(<<[step |-> "load", left |-> selected]>>)
    BY <1>6 DEF SelectPlugins
  <2> HIDE DEF next, selected, Unknown
  <2> QED BY <1>2, <2>2, <2>3
<1>7. CASE LoadPlugin
  <2> DEFINE left == head.left
             After1(i) == Register("plugin", Installed[i].calls)
                          \o (IF Installed[i].raises THEN <<[step |-> "raise"]>> ELSE << >>)
                          \o <<[step |-> "load", left |-> left \ {i}]>>
             Least(i) == i \in left /\ \A j \in left : i <= j
  <2>1. head.step = "load"
    BY <1>7 DEF LoadPlugin, At
  <2>2. CASE left = {}
    <3>1. next = Replaced(<< >>)
      BY <1>1, <2>1, <2>2 DEF After
    <3>2. Replace(<< >>)
      BY <1>7, <2>2 DEF LoadPlugin
    <3> HIDE DEF next
    <3> QED BY <1>2, <3>1, <3>2
  <2>3. CASE left # {}
    <3>1. PICK i \in left : /\ Least(i)
                            /\ IF ~Installed[i].loads THEN Fail("infrastructure") ELSE Replace(After1(i))
      BY <1>7, <2>3 DEF LoadPlugin
    <3>2. left \subseteq Nat
      <4>1. head \in Steps
        BY DEF RegistryInv, RegistryTypeOK
      <4>2. left \subseteq DOMAIN Installed
        BY <2>1, <4>1 DEF Steps
      <4> QED BY <4>2, BuilderAssumption
    <3>3. First(left) = i
      <4>1. First(left) \in left /\ \A j \in left : First(left) <= j
        BY <3>1 DEF First
      <4> QED BY <3>1, <3>2, <4>1
    <3>4. next = IF ~Installed[i].loads THEN Failed("infrastructure") ELSE Replaced(After1(i))
      BY <1>1, <2>1, <2>3, <3>3 DEF After
    <3> HIDE DEF next, After1
    <3> QED BY <1>2, <3>1, <3>4
  <2> QED BY <2>2, <2>3
<1>8. CASE PluginRaises
  <2>1. head.step = "raise"
    BY <1>8 DEF PluginRaises, At
  <2>2. next = Failed("infrastructure")
    BY <1>1, <2>1 DEF After
  <2> HIDE DEF next
  <2> QED BY <1>2, <1>8, <2>2 DEF PluginRaises
<1>9. CASE RegisterOne
  <2> DEFINE e == Error(regs[build], head.by, head.call)
  <2>1. head.step = "register"
    BY <1>9 DEF RegisterOne, At
  <2>2. next = IF e = "ok" THEN Advanced(Registered(regs[build], head.call)) ELSE Failed(e)
    BY <1>1, <2>1 DEF After
  <2>3. IF e = "ok" THEN Advance(Registered(regs[build], head.call)) ELSE Fail(e)
    BY <1>9 DEF RegisterOne
  <2> HIDE DEF next, e
  <2> QED BY <1>2, <2>2, <2>3
<1> QED BY <1>3, <1>4, <1>5, <1>6, <1>7, <1>8, <1>9

-----------------------------------------------------------------------------
(* Two builds of a builder nobody called in between make the same steps.   *)

\* The builds from the builder as it is.
Latest == {n \in DOMAIN results : results[n].calls = calls}

\* Each of them was a run from the opening state, and the running one is on the
\* way of each.
RepeatInv ==
  LET Comes(x, y) == ComesTo(builder, Source, calls, x, y) IN
  /\ OwnCopy
  /\ BuildIsRepeatable
  /\ \A n \in Latest : IsOver(results[n]) /\ Comes(Opening(builder), results[n])
  /\ build # 0 => /\ Comes(Opening(builder), BuildState)
                  /\ \A n \in Latest : Comes(BuildState, results[n])

LEMMA InitRepeats == RegistryInit => RepeatInv
<1> SUFFICES ASSUME RegistryInit PROVE RepeatInv
  OBVIOUS
<1>1. builder.registry = None /\ DOMAIN results = {} /\ build = 0
  BY DEF RegistryInit
<1> QED BY <1>1 DEF RepeatInv, OwnCopy, BuildIsRepeatable, Latest

\* Who calls the builder starts anew.
LEMMA CallingRepeats ==
  ASSUME RegistryInv, RepeatInv, Configure
  PROVE  RepeatInv'
<1>1. /\ calls' = calls + 1 /\ results' = results /\ build' = 0
      /\ builder'.registry \in {builder.registry, Copy}
  <2>1. builder \in Builders
    BY DEF RegistryInv, RegistryTypeOK
  <2>2. \A b \in Builders : Call(b) => calls' = calls + 1 /\ results' = results /\ build' = 0 /\ builder' = b
    BY DEF Call
  <2>3. CASE WithRegistry
    BY <2>1, <2>3 DEF WithRegistry, Call, Builders
  <2>4. CASE WithUowFactory \/ WithSettings \/ WithMaxConnections
    BY <2>1, <2>4 DEF WithUowFactory, WithSettings, WithMaxConnections, Call, Builders
  <2>5. CASE WithDefaultTypes \/ WithKind \/ WithType
    BY <2>1, <2>5 DEF WithDefaultTypes, WithKind, WithType, Call, Builders
  <2>6. CASE WithDsl \/ WithPluginEntrypoints
    BY <2>1, <2>6 DEF WithDsl, WithPluginEntrypoints, Call, Builders
  <2> QED BY <2>3, <2>4, <2>5, <2>6 DEF Configure
<1>2. Latest' = {}
  <2>1. \A n \in DOMAIN results : results[n].calls \in 0..calls /\ calls \in Nat
    BY BuilderAssumption DEF RegistryInv, RegistryTypeOK
  <2>2. \A n \in DOMAIN results' : results'[n].calls # calls'
    BY <1>1, <2>1
  <2> QED BY <2>2 DEF Latest
<1>3. OwnCopy'
  BY <1>1 DEF RepeatInv, OwnCopy
<1>4. BuildIsRepeatable'
  BY <1>1 DEF RepeatInv, BuildIsRepeatable
<1> QED BY <1>1, <1>2, <1>3, <1>4 DEF RepeatInv

\* What the host registers by itself is not in the copy.
LEMMA HostLeavesCopy ==
  ASSUME RegistryInv, RepeatInv, HostRegisters
  PROVE  RepeatInv'
<1>1. PICK id, reg :
        id \in {Given} \cup DOMAIN results /\ regs' = [regs EXCEPT ![id] = reg]
  BY DEF HostRegisters
<1>2. id # Copy
  <2>1. PICK S : results \in Seq(S)
    BY DEF RegistryInv, NextResult
  <2> QED BY <1>1, <2>1 DEF Given, Copy
<1>3. builder' = builder /\ calls' = calls /\ build' = 0 /\ build = 0 /\ results' = results
  BY DEF HostRegisters
<1>4. Source' = Source
  <2>1. regs'[Copy] = regs[Copy]
    BY <1>1, <1>2
  <2> QED BY <1>3, <2>1 DEF Source, RepeatInv, OwnCopy
<1>5. Latest' = Latest
  BY <1>3 DEF Latest
<1>6. BuildIsRepeatable' /\ OwnCopy'
  BY <1>3 DEF RepeatInv, BuildIsRepeatable, OwnCopy
<1> QED BY <1>3, <1>4, <1>5, <1>6 DEF RepeatInv

LEMMA StartRepeats ==
  ASSUME RegistryInv, RepeatInv, StartBuild
  PROVE  RepeatInv'
<1>1. /\ builder' = builder /\ calls' = calls /\ results' = results
      /\ todo' = Plan(builder)
      /\ regs' = [regs EXCEPT ![build'] = IF builder.defaults THEN DefaultRegistry ELSE Nothing]
      /\ build' \in Nat \ {0}
  <2>1. PICK S : results \in Seq(S)
    BY DEF RegistryInv, NextResult
  <2> QED BY <2>1 DEF StartBuild
<1>2. build' \in DOMAIN regs
  <2>1. PICK S : results \in Seq(S)
    BY DEF RegistryInv, NextResult
  <2> QED BY <2>1, BuilderAssumption DEF StartBuild, RegistryInv, RegistryTypeOK, Registries, Builds
<1>3. BuildState' = Opening(builder)
  BY <1>1, <1>2 DEF BuildState, Opening
<1>4. Source' = Source
  <2>1. regs'[Copy] = regs[Copy]
    BY <1>1 DEF Copy
  <2> QED BY <1>1, <2>1 DEF Source, RepeatInv, OwnCopy
<1>5. Latest' = Latest
  BY <1>1 DEF Latest
<1>6. BuildIsRepeatable' /\ OwnCopy'
  BY <1>1 DEF RepeatInv, BuildIsRepeatable, OwnCopy
<1>7. ComesTo(builder, Source, calls, Opening(builder), Opening(builder))
  BY ComesToItself
<1> QED BY <1>1, <1>3, <1>4, <1>5, <1>6, <1>7 DEF RepeatInv

\* A step along the way, or the last one.
LEMMA StepRepeats ==
  ASSUME RegistryInv, RepeatInv, build # 0, BuildKeeps, FollowsAfter
  PROVE  RepeatInv'
<1> DEFINE next == After(builder, Source, calls, BuildState)
           Comes(x, y) == ComesTo(builder, Source, calls, x, y)
<1>1. ~IsOver(BuildState)
  BY StatesAreNotOver DEF BuildState
<1>2. Comes(Opening(builder), next)
  BY <1>1, ComesFurther DEF RepeatInv
<1>3. \A n \in Latest : IsOver(results[n]) /\ Comes(next, results[n])
  BY <1>1, ComesOnFrom DEF RepeatInv
<1> HIDE DEF next
<1>4. builder' = builder /\ calls' = calls /\ Source' = Source
  BY DEF BuildKeeps
<1>5. OwnCopy'
  BY <1>4 DEF RepeatInv, OwnCopy
<1>6. CASE build' = build /\ results' = results /\ BuildState' = next
  <2>1. Latest' = Latest
    BY <1>4, <1>6 DEF Latest
  <2>2. BuildIsRepeatable'
    BY <1>6 DEF RepeatInv, BuildIsRepeatable
  <2> QED BY <1>2, <1>3, <1>4, <1>5, <1>6, <2>1, <2>2 DEF RepeatInv
<1>7. CASE build' = 0 /\ results' = Append(results, next) /\ IsOver(next) /\ next.calls = calls
  <2>1. \A n \in Latest : results[n] = next
    BY <1>3, <1>7, OverIsTheEnd
  <2>2. /\ DOMAIN results' = DOMAIN results \cup {Len(results) + 1}
        /\ \A n \in DOMAIN results' : results'[n] = IF n \in DOMAIN results THEN results[n] ELSE next
    <3>1. PICK S : results \in Seq(S)
      BY DEF RegistryInv, NextResult
    <3>2. results \in Seq(S \cup {next})
      BY <3>1
    <3> QED BY <1>7, <3>2
  <2>3. \A n \in Latest' : results'[n] = next
    BY <1>4, <2>1, <2>2 DEF Latest
  <2>4. BuildIsRepeatable'
    <3> SUFFICES ASSUME NEW m \in DOMAIN results', NEW n \in DOMAIN results',
                        results'[m].calls = results'[n].calls
                 PROVE  results'[m] = results'[n]
      BY DEF BuildIsRepeatable
    <3>1. CASE results'[m].calls = calls
      BY <1>4, <2>3, <3>1 DEF Latest
    <3>2. CASE results'[m].calls # calls
      <4>1. m \in DOMAIN results /\ n \in DOMAIN results
        BY <1>7, <2>2, <3>2
      <4> QED BY <2>2, <4>1 DEF RepeatInv, BuildIsRepeatable
    <3> QED BY <3>1, <3>2
  <2> QED BY <1>2, <1>4, <1>5, <1>7, <2>3, <2>4 DEF RepeatInv
<1> QED BY <1>6, <1>7 DEF FollowsAfter, next

LEMMA FinishRepeats ==
  ASSUME RegistryInv, RepeatInv, FinishBuild
  PROVE  RepeatInv'
<1> DEFINE next == After(builder, Source, calls, BuildState)
<1>1. BuildState.todo = << >> /\ BuildState.reg = regs[build] /\ build # 0
  BY DEF FinishBuild, BuildState, State
<1>2. next = Ending(calls, "ok", MaxConnections(builder), regs[build])
  BY <1>1 DEF After
<1>3. IsOver(next) /\ next.calls = calls
  BY <1>2, EndingsAreOver
<1>4. build' = 0 /\ results' = Append(results, next)
  <2> HIDE DEF next
  <2> QED BY <1>2 DEF FinishBuild, Result, Ending
<1>5. BuildKeeps
  BY DEF BuildKeeps, FinishBuild, Source
<1>6. FollowsAfter
  BY <1>3, <1>4 DEF FollowsAfter
<1> QED BY <1>1, <1>5, <1>6, StepRepeats

LEMMA NextRepeats == RegistryInv /\ RepeatInv /\ [RegistryNext]_vars => RepeatInv'
<1> SUFFICES ASSUME RegistryInv, RepeatInv, [RegistryNext]_vars
             PROVE  RepeatInv'
  OBVIOUS
<1>1. CASE Configure
  BY <1>1, CallingRepeats
<1>2. CASE HostRegisters
  BY <1>2, HostLeavesCopy
<1>3. CASE StartBuild
  BY <1>3, StartRepeats
<1>4. CASE FinishBuild
  BY <1>4, FinishRepeats
<1>5. CASE \/ MergeRegistry \/ ApplyConfig \/ ConfigPlugins \/ SelectPlugins
           \/ LoadPlugin \/ PluginRaises \/ RegisterOne
  <2>1. build # 0 /\ todo # << >>
    BY <1>5 DEF MergeRegistry, ApplyConfig, ConfigPlugins, SelectPlugins, LoadPlugin,
                PluginRaises, RegisterOne, At
  <2>2. BuildKeeps /\ FollowsAfter
    BY <1>5, <2>1, StepFollows DEF RepeatInv
  <2> QED BY <2>1, <2>2, StepRepeats
<1>6. CASE UNCHANGED vars
  BY <1>6 DEF vars, RepeatInv, OwnCopy, BuildIsRepeatable, Latest, Source, BuildState
<1> QED BY <1>1, <1>2, <1>3, <1>4, <1>5, <1>6 DEF RegistryNext, Build

-----------------------------------------------------------------------------
(* Sequences.                                                             *)

LEMMA LeastNat ==
  ASSUME NEW T \in SUBSET Nat, T # {}
  PROVE  \E x \in T : \A y \in T : x <= y
<1> DEFINE R == OpToRel(<, Nat)
<1>1. IsWellFoundedOn(R, Nat)
  BY NatLessThanWellFounded
<1>2. \A i, j \in Nat : i < j => <<i, j>> \in R
  BY DEF OpToRel
<1> HIDE DEF R
<1>3. PICK x \in T : \A y \in T : ~(<<y, x>> \in R)
  BY <1>1, WFMin
<1>4. \A y \in T : ~(y < x)
  BY <1>2, <1>3
<1> QED
  BY <1>4

LEMMA FunctionsAreSequences ==
  ASSUME NEW S, NEW n \in Nat, NEW f \in [1..n -> S]
  PROVE  f \in Seq(S) /\ Len(f) = n
<1>1. f \in Seq(S)
  BY SeqDef
<1> QED BY <1>1

\* What is as long as a sequence is one.
LEMMA MapsAreSequences ==
  ASSUME NEW S, NEW s \in Seq(S), NEW T, NEW t, t = [i \in DOMAIN s |-> t[i]],
         \A i \in DOMAIN s : t[i] \in T
  PROVE  t \in Seq(T) /\ Len(t) = Len(s) /\ DOMAIN t = DOMAIN s
<1>1. DOMAIN s = 1..Len(s) /\ Len(s) \in Nat
  OBVIOUS
<1>2. t \in [1..Len(s) -> T]
  BY <1>1
<1>3. t \in Seq(T)
  BY <1>1, <1>2, SeqDef
<1>4. DOMAIN t = 1..Len(t) /\ Len(t) \in Nat
  BY <1>3
<1> QED BY <1>1, <1>2, <1>3, <1>4

\* A set that holds the empty sequence and whatever is one longer than what it
\* holds, has all sequences.
LEMMA AllSequences ==
  ASSUME NEW S, NEW T \in SUBSET Seq(S), << >> \in T,
         \A s \in T, x \in S : Append(s, x) \in T
  PROVE  T = Seq(S)
<1> SUFFICES ASSUME T # Seq(S) PROVE FALSE
  OBVIOUS
<1> DEFINE missing == {n \in Nat : \E s \in Seq(S) : Len(s) = n /\ s \notin T}
<1>1. missing # {}
  <2>1. PICK s \in Seq(S) : s \notin T
    OBVIOUS
  <2>2. Len(s) \in Nat
    OBVIOUS
  <2> QED BY <2>1, <2>2
<1>2. PICK n \in missing : \A m \in missing : n <= m
  <2> HIDE DEF missing
  <2>1. missing \in SUBSET Nat
    BY DEF missing
  <2> QED BY <1>1, <2>1, LeastNat
<1>3. PICK s \in Seq(S) : Len(s) = n /\ s \notin T
  BY <1>2
<1>4. s # << >>
  BY <1>3
<1>5. PICK front \in Seq(S), x \in S : s = Append(front, x)
  BY <1>4, SequenceEmptyOrAppend
<1>6. Len(front) \in Nat /\ Len(s) = Len(front) + 1
  BY <1>5, AppendProperties
<1>7. front \in T
  <2>1. Len(front) \notin missing
    <3>1. n = Len(s) /\ Len(front) < n
      BY <1>3, <1>6
    <3> HIDE DEF missing
    <3> QED BY <1>2, <1>6, <3>1
  <2> QED BY <1>6, <2>1
<1> QED BY <1>3, <1>5, <1>7

-----------------------------------------------------------------------------
(* FlattenSeq.                                                             *)

\* What FlattenSeq works with: the concatenations of the first i.
Flattens(f, seqs) ==
  f = [i \in 1..Len(seqs) |-> IF i = 1 THEN seqs[i] ELSE f[i - 1] \o seqs[i]]

LEMMA FlattensAt ==
  ASSUME NEW f, NEW seqs, Flattens(f, seqs)
  PROVE  /\ DOMAIN f = 1..Len(seqs)
         /\ f = [i \in 1..Len(seqs) |-> f[i]]
         /\ \A i \in 1..Len(seqs) : f[i] = IF i = 1 THEN seqs[i] ELSE f[i - 1] \o seqs[i]
<1> DEFINE h == [i \in 1..Len(seqs) |-> IF i = 1 THEN seqs[i] ELSE f[i - 1] \o seqs[i]]
<1>1. f = h
  BY Zenon DEF Flattens
<1>2. /\ DOMAIN h = 1..Len(seqs)
      /\ h = [i \in 1..Len(seqs) |-> h[i]]
      /\ \A i \in 1..Len(seqs) : h[i] = IF i = 1 THEN seqs[i] ELSE f[i - 1] \o seqs[i]
  OBVIOUS
<1> HIDE DEF h
<1> QED BY <1>1, <1>2, Zenon

LEMMA FlatteningIsUnique ==
  ASSUME NEW S, NEW seqs \in Seq(S), NEW f, NEW g, Flattens(f, seqs), Flattens(g, seqs)
  PROVE  f = g
<1> DEFINE wrong == {i \in 1..Len(seqs) : f[i] # g[i]}
<1>1. Len(seqs) \in Nat
  OBVIOUS
<1>2. wrong = {}
  <2> SUFFICES ASSUME wrong # {} PROVE FALSE
    OBVIOUS
  <2>1. PICK i \in wrong : \A j \in wrong : i <= j
    <3>1. wrong \in SUBSET Nat
      OBVIOUS
    <3> HIDE DEF wrong
    <3> QED BY <3>1, LeastNat
  <2>2. i \in 1..Len(seqs) /\ f[i] # g[i]
    OBVIOUS
  <2>3. /\ f[i] = IF i = 1 THEN seqs[i] ELSE f[i - 1] \o seqs[i]
        /\ g[i] = IF i = 1 THEN seqs[i] ELSE g[i - 1] \o seqs[i]
    BY <2>2, FlattensAt
  <2>4. i # 1
    BY <2>2, <2>3
  <2>5. i - 1 \in 1..Len(seqs) /\ i - 1 < i
    BY <1>1, <2>2, <2>4
  <2>6. f[i - 1] = g[i - 1]
    BY <1>1, <2>1, <2>5
  <2> QED BY <2>2, <2>3, <2>4, <2>6
<1>3. \A i \in 1..Len(seqs) : f[i] = g[i]
  BY <1>2
<1> QED BY <1>3, FlattensAt

LEMMA FlatteningExtends ==
  ASSUME NEW S, NEW seqs \in Seq(S), NEW x \in S, NEW f, Flattens(f, seqs)
  PROVE  Flattens([i \in 1..(Len(seqs) + 1) |->
                     IF i <= Len(seqs) THEN f[i]
                     ELSE IF i = 1 THEN x ELSE f[i - 1] \o x], Append(seqs, x))
<1> DEFINE longer == Append(seqs, x)
           g == [i \in 1..(Len(seqs) + 1) |-> IF i <= Len(seqs) THEN f[i]
                     ELSE IF i = 1 THEN x ELSE f[i - 1] \o x]
<1>1. /\ Len(seqs) \in Nat /\ Len(longer) = Len(seqs) + 1
      /\ \A i \in 1..Len(seqs) : longer[i] = seqs[i]
      /\ longer[Len(seqs) + 1] = x
  OBVIOUS
<1> HIDE DEF longer
<1>2. ASSUME NEW i \in 1..Len(longer)
      PROVE  g[i] = IF i = 1 THEN longer[i] ELSE g[i - 1] \o longer[i]
  <2>1. CASE i <= Len(seqs)
    <3>1. i \in 1..Len(seqs) /\ g[i] = f[i] /\ longer[i] = seqs[i]
      BY <1>1, <2>1
    <3>2. f[i] = IF i = 1 THEN seqs[i] ELSE f[i - 1] \o seqs[i]
      BY <3>1, FlattensAt
    <3>3. i # 1 => g[i - 1] = f[i - 1]
      BY <1>1, <2>1
    <3> QED BY <3>1, <3>2, <3>3
  <2>2. CASE i = Len(seqs) + 1
    <3>1. g[i] = IF i = 1 THEN x ELSE f[i - 1] \o x
      BY <1>1, <2>2
    <3>2. i # 1 => g[i - 1] = f[i - 1]
      BY <1>1, <2>2
    <3>3. longer[i] = x
      BY <1>1, <2>2
    <3> QED BY <3>1, <3>2, <3>3
  <2> QED BY <1>1, <2>1, <2>2
<1>3. g = [i \in 1..Len(longer) |-> g[i]]
  BY <1>1
<1> HIDE DEF g
<1>4. g = [i \in 1..Len(longer) |-> IF i = 1 THEN longer[i] ELSE g[i - 1] \o longer[i]]
  BY <1>2, <1>3
<1> QED BY <1>4 DEF Flattens, longer, g

LEMMA FlatteningExists ==
  ASSUME NEW S
  PROVE  \A seqs \in Seq(S) : \E f : Flattens(f, seqs)
<1> DEFINE T == {seqs \in Seq(S) : \E f : Flattens(f, seqs)}
<1>1. << >> \in T
  <2>1. Flattens([i \in {} |-> i], << >>)
    BY DEF Flattens
  <2> QED BY <2>1
<1>2. ASSUME NEW seqs \in T, NEW x \in S PROVE Append(seqs, x) \in T
  <2>1. PICK f : Flattens(f, seqs)
    OBVIOUS
  <2>2. \E g : Flattens(g, Append(seqs, x))
    BY <2>1, FlatteningExtends
  <2> QED BY <2>2
<1>3. T \in SUBSET Seq(S)
  OBVIOUS
<1> HIDE DEF T
<1>4. T = Seq(S)
  BY <1>1, <1>2, <1>3, AllSequences
<1> QED BY <1>4 DEF T

\* FlattenSeq, without its recursion.
LEMMA FlattenIs ==
  ASSUME NEW S, NEW seqs \in Seq(S), NEW f, Flattens(f, seqs), seqs # << >>
  PROVE  FlattenSeq(seqs) = f[Len(seqs)]
<1> DEFINE flatten == CHOOSE g : g = [i \in 1..Len(seqs) |->
                                        IF i = 1 THEN seqs[i] ELSE g[i - 1] \o seqs[i]]
<1>1. Len(seqs) # 0
  OBVIOUS
<1>2. FlattenSeq(seqs) = flatten[Len(seqs)]
  BY <1>1 DEF FlattenSeq
<1>3. Flattens(flatten, seqs)
  BY Zenon DEF Flattens
<1> HIDE DEF flatten
<1>4. flatten = f
  BY <1>3, FlatteningIsUnique
<1> QED BY <1>2, <1>4

LEMMA FlattenEmpty == FlattenSeq(<< >>) = << >>
BY DEF FlattenSeq

\* FlattenSeq by its last sequence, and what it returns.
LEMMA FlattenLast ==
  ASSUME NEW S, NEW seqs \in Seq(Seq(S)), NEW x \in Seq(S), FlattenSeq(seqs) \in Seq(S)
  PROVE  FlattenSeq(Append(seqs, x)) = FlattenSeq(seqs) \o x
<1>1. PICK f : Flattens(f, seqs)
  BY FlatteningExists
<1> DEFINE g == [i \in 1..(Len(seqs) + 1) |-> IF i <= Len(seqs) THEN f[i]
                                              ELSE IF i = 1 THEN x ELSE f[i - 1] \o x]
<1>2. Flattens(g, Append(seqs, x))
  BY <1>1, FlatteningExtends
<1>3. /\ Append(seqs, x) \in Seq(Seq(S)) /\ Append(seqs, x) # << >>
      /\ Len(Append(seqs, x)) = Len(seqs) + 1 /\ Len(seqs) \in Nat
  BY AppendProperties
<1>4. g[Len(seqs) + 1] = IF Len(seqs) = 0 THEN x ELSE f[Len(seqs)] \o x
  BY <1>3
<1> HIDE DEF g
<1>5. FlattenSeq(Append(seqs, x)) = g[Len(seqs) + 1]
  BY <1>2, <1>3, FlattenIs
<1>6. CASE seqs = << >>
  BY <1>4, <1>5, <1>6, FlattenEmpty, ConcatEmptySeq
<1>7. CASE seqs # << >>
  <2>1. FlattenSeq(seqs) = f[Len(seqs)]
    BY <1>1, <1>7, FlattenIs
  <2>2. Len(seqs) # 0
    BY <1>7
  <2> QED BY <1>4, <1>5, <2>1, <2>2
<1> QED BY <1>6, <1>7

LEMMA FlattenType ==
  ASSUME NEW S
  PROVE  \A seqs \in Seq(Seq(S)) : FlattenSeq(seqs) \in Seq(S)
<1> DEFINE T == {seqs \in Seq(Seq(S)) : FlattenSeq(seqs) \in Seq(S)}
<1>1. << >> \in T
  BY FlattenEmpty, EmptySeq
<1>2. ASSUME NEW seqs \in T, NEW x \in Seq(S) PROVE Append(seqs, x) \in T
  <2>1. FlattenSeq(seqs) \o x \in Seq(S)
    BY ConcatProperties
  <2>2. Append(seqs, x) \in Seq(Seq(S))
    BY AppendProperties
  <2> QED BY <2>1, <2>2, FlattenLast
<1>3. T \in SUBSET Seq(Seq(S))
  OBVIOUS
<1> HIDE DEF T
<1>4. T = Seq(Seq(S))
  BY <1>1, <1>2, <1>3, AllSequences
<1> QED BY <1>4 DEF T

LEMMA FlattenConcat ==
  ASSUME NEW S, NEW seqs \in Seq(Seq(S))
  PROVE  \A more \in Seq(Seq(S)) :
           FlattenSeq(seqs \o more) = FlattenSeq(seqs) \o FlattenSeq(more)
<1> DEFINE T == {more \in Seq(Seq(S)) :
                   FlattenSeq(seqs \o more) = FlattenSeq(seqs) \o FlattenSeq(more)}
<1>1. << >> \in T
  BY FlattenEmpty, FlattenType, ConcatEmptySeq, EmptySeq
<1>2. ASSUME NEW more \in T, NEW x \in Seq(S) PROVE Append(more, x) \in T
  <2> DEFINE a == FlattenSeq(seqs)
             b == FlattenSeq(more)
  <2>1. a \in Seq(S) /\ b \in Seq(S)
    BY FlattenType
  <2>2. /\ Append(more, x) \in Seq(Seq(S)) /\ seqs \o more \in Seq(Seq(S))
        /\ FlattenSeq(seqs \o more) \in Seq(S)
    BY AppendProperties, ConcatProperties, FlattenType
  <2>3. seqs \o Append(more, x) = Append(seqs \o more, x)
    <3>1. <<x>> \in Seq(Seq(S))
      OBVIOUS
    <3>2. Append(more, x) = more \o <<x>> /\ Append(seqs \o more, x) = (seqs \o more) \o <<x>>
      BY <2>2, AppendIsConcat
    <3>3. (seqs \o more) \o <<x>> = seqs \o (more \o <<x>>)
      BY <3>1, ConcatAssociative
    <3> QED BY <3>2, <3>3
  <2>4. FlattenSeq(Append(seqs \o more, x)) = FlattenSeq(seqs \o more) \o x
    BY <2>2, FlattenLast
  <2>5. FlattenSeq(Append(more, x)) = b \o x
    BY <2>1, FlattenLast
  <2>6. (a \o b) \o x = a \o (b \o x)
    BY <2>1, ConcatAssociative
  <2> QED BY <2>2, <2>3, <2>4, <2>5, <2>6
<1>3. T \in SUBSET Seq(Seq(S))
  OBVIOUS
<1> HIDE DEF T
<1>4. T = Seq(Seq(S))
  BY <1>1, <1>2, <1>3, AllSequences
<1> QED BY <1>4 DEF T

LEMMA FlattenOne ==
  ASSUME NEW S, NEW x \in Seq(S)
  PROVE  FlattenSeq(<<x>>) = x
<1>1. <<x>> = Append(<< >>, x)
  OBVIOUS
<1>2. << >> \in Seq(Seq(S)) /\ << >> \in Seq(S)
  BY EmptySeq
<1>3. FlattenSeq(Append(<< >>, x)) = FlattenSeq(<< >>) \o x
  BY <1>2, FlattenEmpty, FlattenLast
<1> QED BY <1>1, <1>3, FlattenEmpty, ConcatEmptySeq

LEMMA FlattenSingles ==
  ASSUME NEW S
  PROVE  \A s \in Seq(S) : FlattenSeq([i \in DOMAIN s |-> <<s[i]>>]) = s
<1> DEFINE singles(s) == [i \in DOMAIN s |-> <<s[i]>>]
           T == {s \in Seq(S) : FlattenSeq(singles(s)) = s}
<1>1. << >> \in T
  <2>1. singles(<< >>) = << >>
    OBVIOUS
  <2> QED BY <2>1, FlattenEmpty
<1>2. ASSUME NEW s \in T, NEW x \in S PROVE Append(s, x) \in T
  <2>1. singles(s) \in Seq(Seq(S)) /\ <<x>> \in Seq(S)
    <3> DEFINE t == singles(s)
    <3>1. t = [i \in DOMAIN s |-> t[i]] /\ \A i \in DOMAIN s : t[i] \in Seq(S)
      OBVIOUS
    <3>2. <<x>> \in Seq(S)
      OBVIOUS
    <3> HIDE DEF t
    <3>3. t \in Seq(Seq(S))
      BY <3>1, MapsAreSequences
    <3> QED BY <3>2, <3>3 DEF t
  <2>2. singles(Append(s, x)) = Append(singles(s), <<x>>)
    OBVIOUS
  <2> HIDE DEF singles
  <2>3. FlattenSeq(singles(Append(s, x))) = s \o <<x>>
    BY <2>1, <2>2, FlattenLast
  <2> QED BY <2>3, AppendIsConcat, AppendProperties
<1>3. T \in SUBSET Seq(S)
  OBVIOUS
<1> HIDE DEF T
<1>4. T = Seq(S)
  BY <1>1, <1>2, <1>3, AllSequences
<1> QED BY <1>4 DEF T

LEMMA FlattenNothing ==
  ASSUME NEW S
  PROVE  \A seqs \in Seq(Seq(S)) :
           (\A i \in DOMAIN seqs : seqs[i] = << >>) => FlattenSeq(seqs) = << >>
<1> DEFINE Empty(seqs) == \A i \in DOMAIN seqs : seqs[i] = << >>
           T == {seqs \in Seq(Seq(S)) : Empty(seqs) => FlattenSeq(seqs) = << >>}
<1>1. << >> \in T
  BY FlattenEmpty
<1>2. ASSUME NEW seqs \in T, NEW x \in Seq(S) PROVE Append(seqs, x) \in T
  <2>1. Append(seqs, x) \in Seq(Seq(S))
    BY AppendProperties
  <2>2. ASSUME Empty(Append(seqs, x)) PROVE Empty(seqs) /\ x = << >>
    <3>1. /\ Len(seqs) \in Nat /\ Len(Append(seqs, x)) = Len(seqs) + 1
          /\ DOMAIN seqs = 1..Len(seqs) /\ DOMAIN Append(seqs, x) = 1..(Len(seqs) + 1)
          /\ \A i \in 1..Len(seqs) : Append(seqs, x)[i] = seqs[i]
          /\ Append(seqs, x)[Len(seqs) + 1] = x
      BY <2>1, AppendProperties, LenProperties
    <3>2. Len(seqs) + 1 \in 1..(Len(seqs) + 1) /\ 1..Len(seqs) \subseteq 1..(Len(seqs) + 1)
      BY <3>1
    <3>3. \A i \in 1..(Len(seqs) + 1) : Append(seqs, x)[i] = << >>
      BY <2>2, <3>1
    <3> QED BY <3>1, <3>2, <3>3
  <2>3. ASSUME Empty(seqs), x = << >> PROVE FlattenSeq(Append(seqs, x)) = << >>
    BY <2>3, FlattenLast, FlattenType, ConcatEmptySeq
  <2> QED BY <2>1, <2>2, <2>3
<1>3. T \in SUBSET Seq(Seq(S))
  OBVIOUS
<1> HIDE DEF T
<1>4. T = Seq(Seq(S))
  BY <1>1, <1>2, <1>3, AllSequences
<1> QED BY <1>4 DEF T

-----------------------------------------------------------------------------
(* What the steps of a build stand for: the registrations they lead to, and *)
(* whether any of them can raise for a reason of its own.                 *)

\* The registrations of the installed entry points at `left'.
CallsOfLeft(left) ==
  FlattenSeq([i \in DOMAIN Installed |-> IF i \in left THEN Installed[i].calls ELSE << >>])

\* The registrations a step leads to when nothing stops it.
Means(s) ==
  IF s.step = "config" THEN s.config.kinds \o s.config.types
  ELSE IF s.step = "config_plugins"
       THEN FlattenSeq([j \in DOMAIN s.config.plugins |-> CallsOf({s.config.plugins[j]})])
  ELSE IF s.step = "plugins" THEN CallsOf(s.names)
  ELSE IF s.step = "load" THEN CallsOfLeft(s.left)
  ELSE IF s.step = "register" THEN <<s.call>>
  ELSE << >>

\* Whether its parts resolve, load and return.
StepWorks(s) ==
  /\ s.step = "config" => Resolves(s.config)
  /\ s.step = "config_plugins" => \A j \in DOMAIN s.config.plugins : Works({s.config.plugins[j]})
  /\ s.step = "plugins" => Works(s.names)
  /\ s.step = "load" => \A i \in s.left : Installed[i].loads /\ ~Installed[i].raises
  /\ s.step # "raise"
  /\ s.step = "register" => (s.by = "config" /\ s.call.what = "type" => s.call.spec.resolves)

\* The registrations a list of steps leads to, and whether all its parts work.
Meanings(steps) == [i \in DOMAIN steps |-> Means(steps[i])]
Ahead(steps) == FlattenSeq(Meanings(steps))
StepsWork(steps) == \A i \in DOMAIN steps : StepWorks(steps[i])

LEMMA EntryPointTypes ==
  ASSUME NEW i \in DOMAIN Installed
  PROVE  /\ Installed[i].calls \in Seq(Calls)
         /\ Installed[i].loads \in BOOLEAN /\ Installed[i].raises \in BOOLEAN
<1> DEFINE EntryPoints == [name : STRING, loads : BOOLEAN, calls : Seq(Calls), raises : BOOLEAN]
<1>1. Installed \in Seq(EntryPoints)
  BY BuilderAssumption
<1> HIDE DEF EntryPoints
<1>2. Installed[i] \in EntryPoints
  BY <1>1
<1> QED BY <1>2, Zenon DEF EntryPoints

CallsSequence(left) == [i \in DOMAIN Installed |-> IF i \in left THEN Installed[i].calls ELSE << >>]

LEMMA LeftCalls ==
  ASSUME NEW left
  PROVE  /\ CallsSequence(left) \in Seq(Seq(Calls))
         /\ Len(CallsSequence(left)) = Len(Installed)
         /\ CallsOfLeft(left) \in Seq(Calls)
<1> DEFINE selected == CallsSequence(left)
<1>1. /\ selected = [i \in DOMAIN Installed |-> selected[i]]
      /\ \A i \in DOMAIN Installed : selected[i] \in Seq(Calls)
  BY EntryPointTypes DEF CallsSequence
<1>2. \E S : Installed \in Seq(S)
  BY BuilderAssumption
<1> HIDE DEF selected
<1>3. selected \in Seq(Seq(Calls)) /\ Len(selected) = Len(Installed)
  BY <1>1, <1>2, MapsAreSequences
<1>4. CallsOfLeft(left) = FlattenSeq(selected)
  BY DEF CallsOfLeft, selected, CallsSequence
<1>5. FlattenSeq(selected) \in Seq(Calls)
  BY <1>3, FlattenType
<1> QED BY <1>3, <1>4, <1>5 DEF selected

\* Selecting entry points leaves those the request selects.
\* What load() selects of the installed entry points.
Selected(names) == {i \in DOMAIN Installed : names = None \/ Installed[i].name \in names}

LEMMA SelectedAreLeft == \A names : CallsOf(names) = CallsOfLeft(Selected(names))
<1> SUFFICES ASSUME NEW names PROVE CallsOf(names) = CallsOfLeft(Selected(names))
  OBVIOUS
<1>1. [i \in DOMAIN Installed |-> IF names = None \/ Installed[i].name \in names
                                  THEN Installed[i].calls ELSE << >>]
      = [i \in DOMAIN Installed |-> IF i \in Selected(names) THEN Installed[i].calls ELSE << >>]
  BY DEF Selected
<1> QED BY <1>1, Zenon DEF CallsOf, CallsOfLeft

LEMMA CallsTypes == \A names : CallsOf(names) \in Seq(Calls)
BY LeftCalls, SelectedAreLeft

\* Loading one after the other, in order, registers what is left.
LEMMA NoneLeft == CallsOfLeft({}) = << >>
<1>1. \A i \in DOMAIN CallsSequence({}) : CallsSequence({})[i] = << >>
  BY DEF CallsSequence
<1>2. CallsOfLeft({}) = FlattenSeq(CallsSequence({}))
  BY DEF CallsOfLeft, CallsSequence
<1> QED BY <1>1, <1>2, LeftCalls, FlattenNothing

LEMMA FirstOfLeft ==
  ASSUME NEW left \in SUBSET (DOMAIN Installed), NEW i \in left, \A j \in left : i <= j
  PROVE  CallsOfLeft(left) = Installed[i].calls \o CallsOfLeft(left \ {i})
<1> DEFINE n == Len(Installed)
           all == CallsSequence(left)
           rest == CallsSequence(left \ {i})
           before == [k \in 1..(i - 1) |-> << >>]
           behind == [k \in 1..(n - i) |-> all[k + i]]
           c == Installed[i].calls
<1>1. n \in Nat /\ DOMAIN Installed = 1..n /\ i \in 1..n
  BY BuilderAssumption
<1>2. /\ all \in Seq(Seq(Calls)) /\ Len(all) = n
      /\ rest \in Seq(Seq(Calls)) /\ Len(rest) = n
  BY LeftCalls
<1>3. c \in Seq(Calls) /\ << >> \in Seq(Calls)
  BY EntryPointTypes
<1>4. \A k \in 1..n : /\ k < i => all[k] = << >> /\ rest[k] = << >>
                      /\ k = i => all[k] = c /\ rest[k] = << >>
                      /\ k > i => all[k] = rest[k]
  BY <1>1 DEF CallsSequence
<1> HIDE DEF all, rest, n, c
<1>5. before \in Seq(Seq(Calls)) /\ Len(before) = i - 1 /\ \A k \in DOMAIN before : before[k] = << >>
  <2>1. i - 1 \in Nat
    BY <1>1
  <2>2. before \in [1..(i - 1) -> Seq(Calls)]
    BY <1>3
  <2>3. \A k \in DOMAIN before : before[k] = << >>
    OBVIOUS
  <2> HIDE DEF before
  <2> QED BY <2>1, <2>2, <2>3, FunctionsAreSequences
<1>6. behind \in Seq(Seq(Calls)) /\ Len(behind) = n - i
  <2>1. n - i \in Nat
    BY <1>1
  <2>2. \A k \in 1..(n - i) : all[k + i] \in Seq(Calls)
    <3> SUFFICES ASSUME NEW k \in 1..(n - i) PROVE all[k + i] \in Seq(Calls)
      OBVIOUS
    <3>1. k + i \in 1..Len(all)
      BY <1>1, <1>2
    <3> QED BY <1>2, <3>1, ElementOfSeq
  <2>3. behind \in [1..(n - i) -> Seq(Calls)]
    BY <2>2
  <2> HIDE DEF behind
  <2> QED BY <2>1, <2>3, FunctionsAreSequences
<1>7. \A k \in 1..(n - i) : behind[k] = all[k + i]
  OBVIOUS
<1> HIDE DEF before, behind
<1>8. ASSUME NEW middle \in Seq(Calls), NEW whole \in Seq(Seq(Calls)), Len(whole) = n,
             \A k \in 1..n : /\ k < i => whole[k] = << >>
                             /\ k = i => whole[k] = middle
                             /\ k > i => whole[k] = all[k]
      PROVE  FlattenSeq(whole) = middle \o FlattenSeq(behind)
  <2> DEFINE tail == <<middle>> \o behind
  <2>1. /\ <<middle>> \in Seq(Seq(Calls)) /\ Len(<<middle>>) = 1 /\ <<middle>>[1] = middle
    OBVIOUS
  <2>2. /\ tail \in Seq(Seq(Calls)) /\ Len(tail) = 1 + (n - i)
        /\ \A k \in 1..(1 + (n - i)) : tail[k] = IF k <= 1 THEN <<middle>>[k] ELSE behind[k - 1]
    BY <1>6, <2>1, ConcatProperties
  <2> HIDE DEF tail
  <2>3. /\ before \o tail \in Seq(Seq(Calls)) /\ Len(before \o tail) = n
        /\ \A k \in 1..n : (before \o tail)[k] = IF k <= i - 1 THEN before[k] ELSE tail[k - (i - 1)]
    <3>1. Len(before) + Len(tail) = n
      BY <1>1, <1>5, <2>2
    <3>2. Len(before) = i - 1
      BY <1>5
    <3>3. /\ before \o tail \in Seq(Seq(Calls)) /\ Len(before \o tail) = Len(before) + Len(tail)
          /\ \A k \in 1..(Len(before) + Len(tail)) :
               (before \o tail)[k] = IF k <= Len(before) THEN before[k] ELSE tail[k - Len(before)]
      BY <1>5, <2>2, ConcatProperties
    <3> QED BY <3>1, <3>2, <3>3
  <2>4. ASSUME NEW k \in 1..n PROVE whole[k] = (before \o tail)[k]
    <3>1. CASE k < i
      <4>1. k \in DOMAIN before /\ k <= i - 1
        BY <1>1, <1>5, <3>1
      <4> QED BY <1>5, <1>8, <2>3, <3>1, <4>1
    <3>2. CASE k = i
      <4>1. k - (i - 1) = 1 /\ ~(k <= i - 1) /\ 1 \in 1..(1 + (n - i))
        BY <1>1, <3>2
      <4>2. tail[1] = middle
        BY <2>1, <2>2, <4>1
      <4>3. (before \o tail)[k] = tail[1]
        BY <2>3, <4>1
      <4> QED BY <1>8, <3>2, <4>2, <4>3
    <3>3. CASE k > i
      <4>1. /\ ~(k <= i - 1) /\ k - (i - 1) \in 1..(1 + (n - i)) /\ ~(k - (i - 1) <= 1)
            /\ (k - (i - 1)) - 1 = k - i /\ k - i \in 1..(n - i) /\ (k - i) + i = k
        BY <1>1, <3>3
      <4>2. (before \o tail)[k] = tail[k - (i - 1)]
        BY <2>3, <4>1
      <4>3. tail[k - (i - 1)] = behind[k - i]
        BY <2>2, <4>1
      <4>4. behind[k - i] = all[k]
        BY <1>7, <4>1
      <4> QED BY <1>8, <3>3, <4>2, <4>3, <4>4
    <3>4. k < i \/ k = i \/ k > i
      BY <1>1
    <3> QED BY <3>1, <3>2, <3>3, <3>4, Zenon
  <2>5. whole = before \o tail
    BY <1>8, <2>3, <2>4, SeqEqual
  <2>6. FlattenSeq(before) = << >>
    BY <1>5, FlattenNothing
  <2>7. FlattenSeq(tail) = middle \o FlattenSeq(behind)
    <3>1. FlattenSeq(<<middle>> \o behind) = FlattenSeq(<<middle>>) \o FlattenSeq(behind)
      BY <1>6, <2>1, FlattenConcat
    <3>2. FlattenSeq(<<middle>>) = middle
      BY FlattenOne
    <3> QED BY <3>1, <3>2 DEF tail
  <2>8. FlattenSeq(before \o tail) = FlattenSeq(before) \o FlattenSeq(tail)
    BY <1>5, <2>2, FlattenConcat
  <2>9. FlattenSeq(tail) \in Seq(Calls)
    BY <2>2, FlattenType
  <2> QED BY <2>5, <2>6, <2>7, <2>8, <2>9, ConcatEmptySeq
<1>9. FlattenSeq(all) = c \o FlattenSeq(behind)
  BY <1>2, <1>3, <1>4, <1>8
<1>10. FlattenSeq(rest) = << >> \o FlattenSeq(behind)
  BY <1>2, <1>3, <1>4, <1>8
<1>11. << >> \o FlattenSeq(behind) = FlattenSeq(behind)
  BY <1>6, FlattenType, ConcatEmptySeq
<1> QED BY <1>9, <1>10, <1>11 DEF CallsOfLeft, CallsSequence, all, rest, c

LEMMA ConfigTypes ==
  ASSUME NEW config \in Configs
  PROVE  /\ config.kinds \in Seq(KindCalls) /\ config.kinds \in Seq(Calls)
         /\ config.types \in Seq(TypeCalls) /\ config.types \in Seq(Calls)
         /\ config.plugins \in Seq(STRING)
<1>1. config.kinds \in Seq(KindCalls) /\ config.types \in Seq(TypeCalls) /\ config.plugins \in Seq(STRING)
  BY BuilderAssumption
<1>2. KindCalls \subseteq Calls /\ TypeCalls \subseteq Calls
  BY DEF Calls
<1> QED BY <1>1, <1>2, SeqMonotonic

LEMMA NamedPluginCalls ==
  ASSUME NEW named \in Seq(STRING)
  PROVE  [j \in DOMAIN named |-> CallsOf({named[j]})] \in Seq(Seq(Calls))
<1> DEFINE all == [j \in DOMAIN named |-> CallsOf({named[j]})]
<1>1. all = [j \in DOMAIN named |-> all[j]] /\ \A j \in DOMAIN named : all[j] \in Seq(Calls)
  BY CallsTypes
<1> HIDE DEF all
<1> QED BY <1>1, MapsAreSequences DEF all

LEMMA MeaningType ==
  ASSUME NEW s \in Steps
  PROVE  Means(s) \in Seq(Calls)
<1>1. CASE s.step = "config"
  <2>1. s.config \in Configs
    BY <1>1 DEF Steps
  <2>2. s.config.kinds \o s.config.types \in Seq(Calls)
    BY <2>1, ConfigTypes, ConcatProperties
  <2> QED BY <1>1, <2>2 DEF Means
<1>2. CASE s.step = "config_plugins"
  <2>1. s.config.plugins \in Seq(STRING)
    BY <1>2, ConfigTypes DEF Steps
  <2>2. FlattenSeq([j \in DOMAIN s.config.plugins |-> CallsOf({s.config.plugins[j]})]) \in Seq(Calls)
    BY <2>1, NamedPluginCalls, FlattenType
  <2> QED BY <1>2, <2>2 DEF Means
<1>3. CASE s.step = "plugins"
  BY <1>3, CallsTypes DEF Means
<1>4. CASE s.step = "load"
  BY <1>4, LeftCalls DEF Means
<1>5. CASE s.step = "register"
  <2>1. s.call \in Calls
    BY <1>5 DEF Steps
  <2> QED BY <1>5, <2>1 DEF Means
<1>6. CASE s.step \in {"merge", "raise"}
  BY <1>6, EmptySeq DEF Means
<1>7. s.step \in {"config", "config_plugins", "plugins", "load", "register", "merge", "raise"}
  BY DEF Steps
<1> QED BY <1>1, <1>2, <1>3, <1>4, <1>5, <1>6, <1>7

LEMMA MeaningsType ==
  ASSUME NEW steps \in Seq(Steps)
  PROVE  /\ Meanings(steps) \in Seq(Seq(Calls)) /\ Len(Meanings(steps)) = Len(steps)
         /\ Ahead(steps) \in Seq(Calls)
<1> DEFINE all == Meanings(steps)
<1>1. all = [i \in DOMAIN steps |-> all[i]] /\ \A i \in DOMAIN steps : all[i] \in Seq(Calls)
  BY MeaningType DEF Meanings
<1> HIDE DEF all
<1>2. all \in Seq(Seq(Calls)) /\ Len(all) = Len(steps)
  BY <1>1, MapsAreSequences
<1> QED BY <1>2, FlattenType DEF all, Ahead

\* What two lists of steps stand for together.
LEMMA AheadConcat ==
  ASSUME NEW s \in Seq(Steps), NEW t \in Seq(Steps)
  PROVE  /\ s \o t \in Seq(Steps)
         /\ Ahead(s \o t) = Ahead(s) \o Ahead(t)
         /\ StepsWork(s \o t) <=> StepsWork(s) /\ StepsWork(t)
<1> DEFINE u == s \o t
<1>1. /\ Len(s) \in Nat /\ DOMAIN s = 1..Len(s) /\ Len(t) \in Nat /\ DOMAIN t = 1..Len(t)
      /\ u \in Seq(Steps) /\ Len(u) = Len(s) + Len(t) /\ DOMAIN u = 1..(Len(s) + Len(t))
      /\ \A i \in 1..(Len(s) + Len(t)) : u[i] = IF i <= Len(s) THEN s[i] ELSE t[i - Len(s)]
  BY ConcatProperties, LenProperties
<1> HIDE DEF u
<1>2. \A i \in 1..Len(s) : i \in DOMAIN u /\ u[i] = s[i]
  BY <1>1
<1>3. \A i \in 1..Len(t) : i + Len(s) \in DOMAIN u /\ u[i + Len(s)] = t[i]
  BY <1>1
<1>4. \A i \in DOMAIN u : (i \in DOMAIN s /\ u[i] = s[i])
                          \/ (i - Len(s) \in DOMAIN t /\ ~(i <= Len(s)) /\ u[i] = t[i - Len(s)])
  BY <1>1
<1>5. StepsWork(u) <=> StepsWork(s) /\ StepsWork(t)
  <2>1. ASSUME StepsWork(s), StepsWork(t) PROVE StepsWork(u)
    BY <1>4, <2>1 DEF StepsWork
  <2>2. ASSUME StepsWork(u) PROVE StepsWork(s)
    BY <1>1, <1>2, <2>2 DEF StepsWork
  <2>3. ASSUME StepsWork(u) PROVE StepsWork(t)
    <3> SUFFICES ASSUME NEW i \in DOMAIN t PROVE StepWorks(t[i])
      BY DEF StepsWork
    <3>1. i + Len(s) \in DOMAIN u /\ u[i + Len(s)] = t[i]
      BY <1>1, <1>3
    <3>2. StepWorks(u[i + Len(s)])
      BY <2>3, <3>1 DEF StepsWork
    <3> QED BY <3>1, <3>2
  <2> QED BY <2>1, <2>2, <2>3
<1>6. Meanings(u) = Meanings(s) \o Meanings(t)
  <2> DEFINE a == Meanings(s)
             b == Meanings(t)
             c == Meanings(u)
  <2>1. /\ a \in Seq(Seq(Calls)) /\ Len(a) = Len(s) /\ \A i \in DOMAIN s : a[i] = Means(s[i])
        /\ b \in Seq(Seq(Calls)) /\ Len(b) = Len(t) /\ \A i \in DOMAIN t : b[i] = Means(t[i])
        /\ c \in Seq(Seq(Calls)) /\ Len(c) = Len(u) /\ \A i \in DOMAIN u : c[i] = Means(u[i])
    <3>1. /\ a \in Seq(Seq(Calls)) /\ Len(a) = Len(s)
          /\ b \in Seq(Seq(Calls)) /\ Len(b) = Len(t)
          /\ c \in Seq(Seq(Calls)) /\ Len(c) = Len(u)
      BY <1>1, MeaningsType
    <3>2. /\ \A i \in DOMAIN s : a[i] = Means(s[i])
          /\ \A i \in DOMAIN t : b[i] = Means(t[i])
          /\ \A i \in DOMAIN u : c[i] = Means(u[i])
      BY DEF Meanings
    <3> QED BY <3>1, <3>2
  <2> HIDE DEF a, b, c
  <2>2. /\ a \o b \in Seq(Seq(Calls)) /\ Len(a \o b) = Len(s) + Len(t)
        /\ \A i \in 1..(Len(s) + Len(t)) : (a \o b)[i] = IF i <= Len(s) THEN a[i] ELSE b[i - Len(s)]
    <3>1. /\ a \o b \in Seq(Seq(Calls)) /\ Len(a \o b) = Len(a) + Len(b)
          /\ \A i \in 1..(Len(a) + Len(b)) : (a \o b)[i] = IF i <= Len(a) THEN a[i] ELSE b[i - Len(a)]
      <4>1. a \in Seq(Seq(Calls)) /\ b \in Seq(Seq(Calls))
        BY <2>1
      <4> QED BY <4>1, ConcatProperties
    <3> QED BY <2>1, <3>1
  <2>3. ASSUME NEW i \in DOMAIN u PROVE c[i] = (a \o b)[i]
    <3>1. c[i] = Means(u[i])
      BY <2>1
    <3>2. CASE i \in DOMAIN s /\ u[i] = s[i]
      <4>1. (a \o b)[i] = a[i]
        BY <1>1, <2>2, <3>2
      <4> QED BY <2>1, <3>1, <3>2, <4>1
    <3>3. CASE i - Len(s) \in DOMAIN t /\ ~(i <= Len(s)) /\ u[i] = t[i - Len(s)]
      <4>1. (a \o b)[i] = b[i - Len(s)]
        BY <1>1, <2>2, <3>3
      <4>2. b[i - Len(s)] = Means(t[i - Len(s)])
        BY <2>1, <3>3
      <4> QED BY <3>1, <3>3, <4>1, <4>2
    <3> QED BY <1>4, <3>2, <3>3
  <2>4. c = a \o b
    BY <1>1, <2>1, <2>2, <2>3, SeqEqual
  <2> QED BY <2>4 DEF a, b, c
<1>7. Ahead(u) = Ahead(s) \o Ahead(t)
  BY <1>6, MeaningsType, FlattenConcat DEF Ahead
<1> QED BY <1>1, <1>5, <1>7 DEF u

LEMMA AheadEmpty == Ahead(<< >>) = << >> /\ StepsWork(<< >>)
<1>1. Meanings(<< >>) = << >>
  BY DEF Meanings
<1> QED BY <1>1, FlattenEmpty DEF Ahead, StepsWork

LEMMA AheadOne ==
  ASSUME NEW s \in Steps
  PROVE  Ahead(<<s>>) = Means(s) /\ (StepsWork(<<s>>) <=> StepWorks(s))
<1>1. Meanings(<<s>>) = <<Means(s)>>
  BY DEF Meanings
<1>2. StepsWork(<<s>>) <=> StepWorks(s)
  BY DEF StepsWork
<1> QED BY <1>1, <1>2, MeaningType, FlattenOne DEF Ahead

LEMMA AheadHead ==
  ASSUME NEW steps \in Seq(Steps), steps # << >>
  PROVE  /\ Head(steps) \in Steps /\ Tail(steps) \in Seq(Steps)
         /\ Ahead(steps) = Means(Head(steps)) \o Ahead(Tail(steps))
         /\ StepsWork(steps) <=> StepWorks(Head(steps)) /\ StepsWork(Tail(steps))
<1> DEFINE h == Head(steps)
           t == Tail(steps)
<1>1. h \in Steps /\ t \in Seq(Steps)
  BY HeadTailProperties
<1>2. <<h>> \in Seq(Steps)
  BY <1>1
<1>3. steps = <<h>> \o t
  OBVIOUS
<1> HIDE DEF h, t
<1>4. /\ Ahead(<<h>> \o t) = Ahead(<<h>>) \o Ahead(t)
      /\ StepsWork(<<h>> \o t) <=> StepsWork(<<h>>) /\ StepsWork(t)
  BY <1>1, <1>2, AheadConcat
<1>5. Ahead(<<h>>) = Means(h) /\ (StepsWork(<<h>>) <=> StepWorks(h))
  BY <1>1, AheadOne
<1> QED BY <1>1, <1>3, <1>4, <1>5 DEF h, t

\* Registrations stand for themselves.
LEMMA AheadRegister ==
  ASSUME NEW cs \in Seq(Calls), NEW by \in {"builder", "config", "plugin"}
  PROVE  /\ Ahead(Register(by, cs)) = cs
         /\ StepsWork(Register(by, cs)) <=>
              \A i \in DOMAIN cs : by = "config" /\ cs[i].what = "type" => cs[i].spec.resolves
<1> DEFINE steps == Register(by, cs)
<1>1. /\ DOMAIN steps = DOMAIN cs
      /\ \A i \in DOMAIN cs : steps[i] = [step |-> "register", by |-> by, call |-> cs[i]]
  BY DEF Register
<1>2. \A i \in DOMAIN cs : Means(steps[i]) = <<cs[i]>>
  <2> SUFFICES ASSUME NEW i \in DOMAIN cs PROVE Means(steps[i]) = <<cs[i]>>
    OBVIOUS
  <2>1. steps[i].step = "register" /\ steps[i].call = cs[i]
    BY <1>1
  <2> HIDE DEF steps
  <2> QED BY <2>1 DEF Means
<1>3. \A i \in DOMAIN cs : StepWorks(steps[i]) <=> (by = "config" /\ cs[i].what = "type" => cs[i].spec.resolves)
  <2> SUFFICES ASSUME NEW i \in DOMAIN cs
               PROVE  StepWorks(steps[i]) <=> (by = "config" /\ cs[i].what = "type" => cs[i].spec.resolves)
    OBVIOUS
  <2>1. steps[i].step = "register" /\ steps[i].by = by /\ steps[i].call = cs[i]
    BY <1>1
  <2> HIDE DEF steps
  <2> QED BY <2>1 DEF StepWorks
<1> HIDE DEF steps
<1>4. Meanings(steps) = [i \in DOMAIN cs |-> <<cs[i]>>]
  BY <1>1, <1>2 DEF Meanings
<1>5. Ahead(steps) = cs
  BY <1>4, FlattenSingles DEF Ahead
<1> QED BY <1>1, <1>3, <1>5 DEF StepsWork, steps

NoMerge(steps) == \A i \in DOMAIN steps : steps[i].step # "merge"

LEMMA NoMergeConcat ==
  ASSUME NEW s \in Seq(Steps), NEW t \in Seq(Steps), NoMerge(s), NoMerge(t)
  PROVE  NoMerge(s \o t)
BY DEF NoMerge

\* What a configuration puts into its place.
LEMMA ConfigStands ==
  ASSUME NEW config \in Configs
  PROVE  LET steps == Register("config", config.kinds) \o Register("config", config.types)
         IN  /\ steps \in Seq(Steps) /\ NoMerge(steps)
             /\ Ahead(steps) = config.kinds \o config.types
             /\ StepsWork(steps) <=> Resolves(config)
<1> DEFINE ks == Register("config", config.kinds)
           ts == Register("config", config.types)
<1>1. /\ config.kinds \in Seq(KindCalls) /\ config.types \in Seq(TypeCalls)
      /\ config.kinds \in Seq(Calls) /\ config.types \in Seq(Calls)
  BY ConfigTypes
<1>2. /\ ks \in Seq(Steps) /\ \A i \in DOMAIN ks : ks[i].step = "register"
      /\ ts \in Seq(Steps) /\ \A i \in DOMAIN ts : ts[i].step = "register"
  BY <1>1, RegisterSteps
<1>3. \A i \in DOMAIN config.kinds : config.kinds[i].what = "kind"
  <2>1. \A i \in DOMAIN config.kinds : config.kinds[i] \in KindCalls
    BY <1>1
  <2> QED BY <2>1 DEF KindCalls
<1>4. \A i \in DOMAIN config.types : config.types[i].what = "type"
  <2>1. \A i \in DOMAIN config.types : config.types[i] \in TypeCalls
    BY <1>1
  <2> QED BY <2>1 DEF TypeCalls
<1>5. Ahead(ks) = config.kinds /\ Ahead(ts) = config.types
  BY <1>1, AheadRegister
<1>6. StepsWork(ks)
  BY <1>1, <1>3, AheadRegister
<1>7. StepsWork(ts) <=> Resolves(config)
  <2>1. StepsWork(ts) <=> \A i \in DOMAIN config.types :
          "config" = "config" /\ config.types[i].what = "type" => config.types[i].spec.resolves
    BY <1>1, AheadRegister
  <2> HIDE DEF ts
  <2> QED BY <1>4, <2>1, Zenon DEF Resolves
<1>8. NoMerge(ks) /\ NoMerge(ts)
  BY <1>2 DEF NoMerge
<1> HIDE DEF ks, ts
<1>9. /\ ks \o ts \in Seq(Steps)
      /\ Ahead(ks \o ts) = Ahead(ks) \o Ahead(ts)
      /\ StepsWork(ks \o ts) <=> StepsWork(ks) /\ StepsWork(ts)
      /\ NoMerge(ks \o ts)
  BY <1>2, <1>8, AheadConcat, NoMergeConcat
<1> QED BY <1>5, <1>6, <1>7, <1>9 DEF ks, ts

\* What the plugins of a configuration put into their place.
LEMMA PluginsStand ==
  ASSUME NEW named \in Seq(STRING)
  PROVE  LET steps == [j \in DOMAIN named |-> [step |-> "plugins", names |-> {named[j]}]]
         IN  /\ steps \in Seq(Steps) /\ NoMerge(steps)
             /\ Ahead(steps) = FlattenSeq([j \in DOMAIN named |-> CallsOf({named[j]})])
             /\ StepsWork(steps) <=> \A j \in DOMAIN named : Works({named[j]})
<1> DEFINE steps == [j \in DOMAIN named |-> [step |-> "plugins", names |-> {named[j]}]]
<1>1. /\ steps = [j \in DOMAIN named |-> steps[j]] /\ DOMAIN steps = DOMAIN named
      /\ \A j \in DOMAIN named : steps[j].step = "plugins" /\ steps[j].names = {named[j]}
  OBVIOUS
<1>2. \A j \in DOMAIN named : steps[j] \in Steps
  <2>1. \A j \in DOMAIN named : {named[j]} \in SUBSET STRING
    OBVIOUS
  <2>2. \A j \in DOMAIN named : [step |-> "plugins", names |-> {named[j]}] \in Steps
    BY <2>1, StepKinds, Zenon
  <2> QED BY <2>2
<1> HIDE DEF steps
<1>3. steps \in Seq(Steps)
  BY <1>1, <1>2, MapsAreSequences
<1>4. NoMerge(steps)
  BY <1>1 DEF NoMerge
<1>5. Meanings(steps) = [j \in DOMAIN named |-> CallsOf({named[j]})]
  <2>1. \A j \in DOMAIN named : Means(steps[j]) = CallsOf({named[j]})
    BY <1>1 DEF Means
  <2> QED BY <1>1, <2>1 DEF Meanings
<1>6. \A j \in DOMAIN named : StepWorks(steps[j]) <=> Works({named[j]})
  BY <1>1 DEF StepWorks
<1>7. StepsWork(steps) <=> \A j \in DOMAIN named : Works({named[j]})
  BY <1>1, <1>6 DEF StepsWork
<1> QED BY <1>3, <1>4, <1>5, <1>7 DEF Ahead, steps

\* What a request puts into its place when all it names is installed.
LEMMA RequestStands ==
  ASSUME NEW names, 
         names = None \/ names \subseteq {Installed[k].name : k \in DOMAIN Installed}
  PROVE  LET steps == <<[step |-> "load", left |-> Selected(names)]>>
         IN  /\ steps \in Seq(Steps) /\ NoMerge(steps)
             /\ Ahead(steps) = CallsOf(names)
             /\ StepsWork(steps) <=> Works(names)
<1> DEFINE load == [step |-> "load", left |-> Selected(names)]
<1>1. load \in Steps /\ load.step = "load" /\ load.left = Selected(names)
  <2>1. Selected(names) \in SUBSET (DOMAIN Installed)
    BY DEF Selected
  <2> QED BY <2>1, StepKinds
<1> HIDE DEF load
<1>2. <<load>> \in Seq(Steps) /\ NoMerge(<<load>>)
  BY <1>1 DEF NoMerge
<1>3. Means(load) = CallsOf(names)
  BY <1>1, SelectedAreLeft DEF Means
<1>4. StepWorks(load) <=> \A k \in Selected(names) : Installed[k].loads /\ ~Installed[k].raises
  BY <1>1 DEF StepWorks
<1>5. Works(names) <=> \A k \in Selected(names) : Installed[k].loads /\ ~Installed[k].raises
  BY Zenon DEF Works, Selected
<1> QED BY <1>1, <1>2, <1>3, <1>4, <1>5, AheadOne DEF load

\* What an entry point puts into its place when it can be loaded.
LEMMA EntryPointStands ==
  ASSUME NEW left \in SUBSET (DOMAIN Installed), NEW i \in left, \A j \in left : i <= j,
         Installed[i].loads
  PROVE  LET steps == Register("plugin", Installed[i].calls)
                      \o (IF Installed[i].raises THEN <<[step |-> "raise"]>> ELSE << >>)
                      \o <<[step |-> "load", left |-> left \ {i}]>>
         IN  /\ steps \in Seq(Steps) /\ NoMerge(steps)
             /\ Ahead(steps) = CallsOfLeft(left)
             /\ StepsWork(steps) <=> \A k \in left : Installed[k].loads /\ ~Installed[k].raises
<1> DEFINE regd == Register("plugin", Installed[i].calls)
           raise == IF Installed[i].raises THEN <<[step |-> "raise"]>> ELSE << >>
           last == [step |-> "load", left |-> left \ {i}]
           Fine(k) == Installed[k].loads /\ ~Installed[k].raises
<1>1. Installed[i].calls \in Seq(Calls)
  BY EntryPointTypes
<1>2. /\ regd \in Seq(Steps) /\ NoMerge(regd)
      /\ Ahead(regd) = Installed[i].calls
      /\ StepsWork(regd)
  <2>1. StepsWork(regd) <=> \A k \in DOMAIN Installed[i].calls :
          "plugin" = "config" /\ Installed[i].calls[k].what = "type" => Installed[i].calls[k].spec.resolves
    BY <1>1, AheadRegister
  <2>2. StepsWork(regd)
    BY <2>1
  <2>3. regd \in Seq(Steps) /\ \A k \in DOMAIN regd : regd[k].step = "register"
    BY <1>1, RegisterSteps
  <2>4. Ahead(regd) = Installed[i].calls
    BY <1>1, AheadRegister
  <2> HIDE DEF regd
  <2> QED BY <2>2, <2>3, <2>4 DEF NoMerge
<1>3. /\ raise \in Seq(Steps) /\ NoMerge(raise)
      /\ Ahead(raise) = << >>
      /\ StepsWork(raise) <=> ~Installed[i].raises
  <2>1. CASE Installed[i].raises
    <3> DEFINE r == [step |-> "raise"]
    <3>1. r \in Steps /\ r.step = "raise"
      BY StepKinds
    <3> HIDE DEF r
    <3>2. <<r>> \in Seq(Steps) /\ NoMerge(<<r>>)
      BY <3>1 DEF NoMerge
    <3>3. Means(r) = << >> /\ ~StepWorks(r)
      BY <3>1 DEF Means, StepWorks
    <3>4. Ahead(<<r>>) = << >> /\ ~StepsWork(<<r>>)
      BY <3>1, <3>3, AheadOne
    <3>5. raise = <<r>>
      BY <2>1 DEF r
    <3> HIDE DEF raise
    <3> QED BY <2>1, <3>2, <3>4, <3>5, Zenon
  <2>2. CASE ~Installed[i].raises
    <3>1. raise = << >>
      BY <2>2
    <3>2. << >> \in Seq(Steps) /\ NoMerge(<< >>)
      BY DEF NoMerge
    <3> HIDE DEF raise
    <3> QED BY <2>2, <3>1, <3>2, AheadEmpty, Zenon
  <2> QED BY <2>1, <2>2
<1>4. /\ <<last>> \in Seq(Steps) /\ NoMerge(<<last>>)
      /\ Ahead(<<last>>) = CallsOfLeft(left \ {i})
      /\ StepsWork(<<last>>) <=> \A k \in left \ {i} : Fine(k)
  <2>1. last \in Steps /\ last.step = "load" /\ last.left = left \ {i}
    <3>1. left \ {i} \in SUBSET (DOMAIN Installed)
      OBVIOUS
    <3> QED BY <3>1, StepKinds
  <2> HIDE DEF last
  <2>2. <<last>> \in Seq(Steps) /\ NoMerge(<<last>>)
    BY <2>1 DEF NoMerge
  <2>3. Means(last) = CallsOfLeft(left \ {i})
    BY <2>1 DEF Means
  <2>4. StepWorks(last) <=> \A k \in left \ {i} : Fine(k)
    BY <2>1 DEF StepWorks
  <2> QED BY <2>1, <2>2, <2>3, <2>4, AheadOne
<1>5. CallsOfLeft(left) = Installed[i].calls \o CallsOfLeft(left \ {i})
  BY FirstOfLeft
<1>6. (\A k \in left : Fine(k)) <=> ~Installed[i].raises /\ \A k \in left \ {i} : Fine(k)
  BY Zenon
<1> DEFINE steps == (regd \o raise) \o <<last>>
<1> HIDE DEF regd, raise, last, Fine
<1>7. /\ regd \o raise \in Seq(Steps) /\ NoMerge(regd \o raise)
      /\ Ahead(regd \o raise) = Ahead(regd) \o Ahead(raise)
      /\ StepsWork(regd \o raise) <=> StepsWork(regd) /\ StepsWork(raise)
  BY <1>2, <1>3, AheadConcat, NoMergeConcat
<1>8. /\ steps \in Seq(Steps) /\ NoMerge(steps)
      /\ Ahead(steps) = Ahead(regd \o raise) \o Ahead(<<last>>)
      /\ StepsWork(steps) <=> StepsWork(regd \o raise) /\ StepsWork(<<last>>)
  BY <1>4, <1>7, AheadConcat, NoMergeConcat
<1>9. Ahead(regd \o raise) = Installed[i].calls
  BY <1>1, <1>2, <1>3, <1>7, ConcatEmptySeq
<1>10. Ahead(steps) = CallsOfLeft(left)
  BY <1>4, <1>5, <1>8, <1>9
<1>11. StepsWork(steps) <=> \A k \in left : Fine(k)
  BY <1>2, <1>3, <1>4, <1>6, <1>7, <1>8
<1> QED BY <1>8, <1>10, <1>11 DEF regd, raise, last, Fine

-----------------------------------------------------------------------------
(* Registrations, one after the other.                                    *)

\* The registrations made so far, each of which could be, and what they left.
Done(done, reg) ==
  /\ \A i \in DOMAIN done : CanRegister(done, i)
  /\ IsWhatWasAsked("kind", done, reg.kinds)
  /\ IsWhatWasAsked("type", done, reg.types)

\* What a registration has to do with those after it.
LEMMA EarlierOnly ==
  ASSUME NEW a \in Seq(Calls), NEW b \in Seq(Calls), NEW i \in DOMAIN a
  PROVE  CanRegister(a \o b, i) <=> CanRegister(a, i)
<1>1. /\ Len(a) \in Nat /\ i \in 1..Len(a)
      /\ \A j \in 1..i : (a \o b)[j] = a[j]
  <2>1. /\ Len(a) \in Nat /\ Len(b) \in Nat /\ i \in 1..Len(a)
        /\ \A j \in 1..(Len(a) + Len(b)) : (a \o b)[j] = IF j <= Len(a) THEN a[j] ELSE b[j - Len(a)]
    BY ConcatProperties, LenProperties
  <2> QED BY <2>1
<1> DEFINE ab == a \o b
<1> HIDE DEF ab
<1>2. ab[i] = a[i] /\ \A j \in 1..(i - 1) : ab[j] = a[j]
  BY <1>1 DEF ab
<1>3. \A what, name : Taken(what, name, ab, i) <=> Taken(what, name, a, i)
  BY <1>2 DEF Taken
<1>4. CanRegister(ab, i) <=> CanRegister(a, i)
  BY <1>2, <1>3, Zenon DEF CanRegister
<1> QED BY <1>4 DEF ab

LEMMA AppendFacts ==
  ASSUME NEW done \in Seq(Calls), NEW c \in Calls
  PROVE  /\ Len(done) \in Nat /\ DOMAIN done = 1..Len(done)
         /\ Append(done, c) \in Seq(Calls)
         /\ DOMAIN Append(done, c) = 1..(Len(done) + 1)
         /\ \A i \in DOMAIN done : Append(done, c)[i] = done[i]
         /\ Append(done, c)[Len(done) + 1] = c
OBVIOUS

LEMMA OneMoreEntry ==
  ASSUME NEW done \in Seq(Calls), NEW c \in Calls, NEW what, NEW entries,
         IsWhatWasAsked(what, done, entries)
  PROVE  /\ c.what # what => IsWhatWasAsked(what, Append(done, c), entries)
         /\ c.what = what =>
              IsWhatWasAsked(what, Append(done, c),
                             With(entries, c.name, IF what = "kind" THEN c.spec ELSE TypeSpec(c.spec)))
<1> DEFINE more == Append(done, c)
           n == Len(done) + 1
           naming(s, name) == {i \in DOMAIN s : s[i].what = what /\ s[i].name = name}
           names(s) == {s[i].name : i \in {j \in DOMAIN s : s[j].what = what}}
           Value(call) == IF what = "kind" THEN call.spec ELSE TypeSpec(call.spec)
           Says(s, name, entry) ==
             \/ naming(s, name) = {} /\ entry = Base(what)[name]
             \/ \E i \in naming(s, name) : (\A j \in naming(s, name) : j <= i) /\ entry = Value(s[i])
<1>1. /\ n \in Nat /\ n >= 1 /\ DOMAIN done = 1..(n - 1) /\ DOMAIN more = 1..n
      /\ \A i \in DOMAIN done : more[i] = done[i]
      /\ more[n] = c
  BY AppendFacts
<1>2. /\ DOMAIN entries = DOMAIN Base(what) \cup names(done)
      /\ \A name \in DOMAIN entries : Says(done, name, entries[name])
  BY DEF IsWhatWasAsked
<1>3. \A s, f : DOMAIN f = DOMAIN Base(what) \cup names(s) /\ (\A name \in DOMAIN f : Says(s, name, f[name]))
                => IsWhatWasAsked(what, s, f)
  BY DEF IsWhatWasAsked
<1> HIDE DEF more, n
<1>4. ASSUME c.what # what
      PROVE  /\ names(more) = names(done)
             /\ \A name : naming(more, name) = naming(done, name)
  BY <1>1, <1>4
<1>5. ASSUME c.what = what
      PROVE  /\ names(more) = names(done) \cup {c.name}
             /\ \A name : name # c.name => naming(more, name) = naming(done, name)
             /\ n \in naming(more, c.name) /\ \A j \in naming(more, c.name) : j <= n
  <2>1. n \in DOMAIN more /\ \A i \in DOMAIN more : i \in DOMAIN done \/ i = n
    BY <1>1
  <2>2. names(more) = names(done) \cup {c.name}
    BY <1>1, <1>5, <2>1
  <2>3. \A name : name # c.name => naming(more, name) = naming(done, name)
    BY <1>1, <1>5, <2>1
  <2>4. n \in naming(more, c.name) /\ \A j \in naming(more, c.name) : j <= n
    BY <1>1, <1>5, <2>1
  <2> QED BY <2>2, <2>3, <2>4
<1>6. \A name, i : i \in naming(done, name) => more[i] = done[i]
  BY <1>1
<1> HIDE DEF naming, names
<1>7. ASSUME NEW name, NEW entry, Says(done, name, entry), naming(more, name) = naming(done, name)
      PROVE  Says(more, name, entry)
  <2>1. CASE naming(done, name) = {} /\ entry = Base(what)[name]
    BY <1>7, <2>1
  <2>2. CASE \E i \in naming(done, name) : (\A j \in naming(done, name) : j <= i) /\ entry = Value(done[i])
    <3>1. PICK i \in naming(done, name) : (\A j \in naming(done, name) : j <= i) /\ entry = Value(done[i])
      BY <2>2
    <3>2. Value(more[i]) = Value(done[i])
      BY <1>6
    <3> HIDE DEF Value
    <3>3. i \in naming(more, name) /\ (\A j \in naming(more, name) : j <= i) /\ entry = Value(more[i])
      BY <1>7, <3>1, <3>2
    <3> QED BY <3>3
  <2> QED BY <1>7, <2>1, <2>2
<1>8. ASSUME c.what # what PROVE IsWhatWasAsked(what, more, entries)
  <2>1. DOMAIN entries = DOMAIN Base(what) \cup names(more)
    BY <1>2, <1>4, <1>8
  <2>2. \A name \in DOMAIN entries : Says(more, name, entries[name])
    <3> HIDE DEF Says
    <3> QED BY <1>2, <1>4, <1>7, <1>8
  <2> HIDE DEF Says
  <2> QED BY <1>3, <2>1, <2>2
<1>9. ASSUME c.what = what PROVE IsWhatWasAsked(what, more, With(entries, c.name, Value(c)))
  <2> DEFINE f == With(entries, c.name, Value(c))
  <2>1. /\ DOMAIN f = DOMAIN entries \cup {c.name}
        /\ \A name \in DOMAIN f : f[name] = IF name = c.name THEN Value(c) ELSE entries[name]
    BY DEF With
  <2> HIDE DEF f
  <2>2. DOMAIN f = DOMAIN Base(what) \cup names(more)
    BY <1>2, <1>5, <1>9, <2>1
  <2>3. ASSUME NEW name \in DOMAIN f PROVE Says(more, name, f[name])
    <3>1. CASE name = c.name
      <4> HIDE DEF Value
      <4>1. f[name] = Value(more[n])
        BY <1>1, <2>1, <3>1
      <4> QED BY <1>5, <1>9, <3>1, <4>1
    <3>2. CASE name # c.name
      <4>1. name \in DOMAIN entries /\ f[name] = entries[name]
        BY <2>1, <3>2
      <4>2. Says(done, name, f[name])
        BY <1>2, <4>1
      <4> HIDE DEF Says
      <4> QED BY <1>5, <1>7, <1>9, <3>2, <4>2
    <3> QED BY <3>1, <3>2
  <2> HIDE DEF Says
  <2>4. IsWhatWasAsked(what, more, f)
    BY <1>3, <2>2, <2>3
  <2> QED BY <2>4 DEF f
<1> QED BY <1>8, <1>9 DEF more

\* A registration after others succeeds exactly when it can be made, and leaves
\* what they asked for together.
LEMMA OneMoreRegistration ==
  ASSUME NEW done \in Seq(Calls), NEW c \in Calls, NEW reg, ConnectionRegistry(reg), Done(done, reg)
  PROVE  /\ CanRegister(Append(done, c), Len(done) + 1)
              <=> Fits(reg, c) /\ (c.what = "type" => Constructs(c.spec))
         /\ CanRegister(Append(done, c), Len(done) + 1) => Done(Append(done, c), Registered(reg, c))
<1> DEFINE more == Append(done, c)
           n == Len(done) + 1
<1>1. /\ n \in Nat /\ n >= 1 /\ DOMAIN done = 1..(n - 1) /\ DOMAIN more = 1..n
      /\ \A i \in DOMAIN done : more[i] = done[i]
      /\ more[n] = c
  BY AppendFacts
<1>2. c.what \in {"kind", "type"}
  BY DEF Calls, KindCalls, TypeCalls
<1> HIDE DEF more, n
<1>3. ASSUME NEW what, NEW entries, IsWhatWasAsked(what, done, entries)
      PROVE  \A name : Taken(what, name, more, n) <=> name \in DOMAIN entries
  <2>1. DOMAIN entries = DOMAIN Base(what) \cup {done[i].name : i \in {j \in DOMAIN done : done[j].what = what}}
    BY <1>3 DEF IsWhatWasAsked
  <2>2. \A name : Taken(what, name, more, n) <=>
          name \in DOMAIN Base(what) \/ \E j \in DOMAIN done : done[j].what = what /\ done[j].name = name
    BY <1>1 DEF Taken
  <2> QED BY <2>1, <2>2
<1>4. /\ \A name : Taken("kind", name, more, n) <=> name \in DOMAIN reg.kinds
      /\ \A name : Taken("type", name, more, n) <=> name \in DOMAIN reg.types
  BY <1>3 DEF Done
<1>5. CanRegister(more, n) <=> Fits(reg, c) /\ (c.what = "type" => Constructs(c.spec))
  <2>1. CASE c.what = "kind"
    <3>1. CanRegister(more, n) <=> (c.overwrite \/ ~(c.name \in DOMAIN reg.kinds))
      BY <1>1, <1>4, <2>1, Zenon DEF CanRegister
    <3>2. Fits(reg, c) <=> (c.overwrite \/ ~(c.name \in DOMAIN reg.kinds))
      BY <2>1, Zenon DEF Fits
    <3>3. c.what # "type"
      BY <2>1
    <3> QED BY <3>1, <3>2, <3>3
  <2>2. CASE c.what = "type"
    <3>1. CanRegister(more, n) <=>
            /\ c.overwrite \/ ~(c.name \in DOMAIN reg.types)
            /\ Constructs(c.spec) /\ c.spec.kind \in DOMAIN reg.kinds
      BY <1>1, <1>4, <2>2, Zenon DEF CanRegister
    <3>2. Fits(reg, c) <=>
            /\ c.overwrite \/ ~(c.name \in DOMAIN reg.types)
            /\ c.spec.kind \in DOMAIN reg.kinds
      <4>1. c.what # "kind"
        BY <2>2
      <4> QED BY <4>1, Zenon DEF Fits
    <3> QED BY <2>2, <3>1, <3>2, Zenon
  <2> QED BY <1>2, <2>1, <2>2
<1>6. ASSUME CanRegister(more, n) PROVE Done(more, Registered(reg, c))
  <2>1. ASSUME NEW i \in DOMAIN more PROVE CanRegister(more, i)
    <3>1. CASE i = n
      BY <1>6, <3>1
    <3>2. CASE i \in DOMAIN done
      <4>1. more = done \o <<c>> /\ <<c>> \in Seq(Calls)
        BY AppendIsConcat DEF more
      <4>2. CanRegister(done \o <<c>>, i) <=> CanRegister(done, i)
        BY <3>2, <4>1, EarlierOnly
      <4> QED BY <3>2, <4>1, <4>2 DEF Done
    <3> QED BY <1>1, <3>1, <3>2
  <2>2. CASE c.what = "kind"
    <3> DEFINE kinds == With(reg.kinds, c.name, c.spec)
    <3>1. Registered(reg, c).kinds = kinds /\ Registered(reg, c).types = reg.types
      <4>1. Registered(reg, c) = [reg EXCEPT !.kinds = kinds]
        BY <2>2 DEF Registered
      <4> HIDE DEF kinds
      <4> QED BY <4>1 DEF ConnectionRegistry
    <3>2. IsWhatWasAsked("kind", more, kinds)
      <4>1. IsWhatWasAsked("kind", done, reg.kinds)
        BY DEF Done
      <4>2. IsWhatWasAsked("kind", more, With(reg.kinds, c.name, IF "kind" = "kind" THEN c.spec ELSE TypeSpec(c.spec)))
        BY <2>2, <4>1, OneMoreEntry DEF more
      <4> QED BY <4>2
    <3>3. IsWhatWasAsked("type", more, reg.types)
      <4>1. IsWhatWasAsked("type", done, reg.types) /\ c.what # "type"
        BY <2>2 DEF Done
      <4> QED BY <4>1, OneMoreEntry DEF more
    <3> HIDE DEF kinds
    <3> QED BY <2>1, <3>1, <3>2, <3>3 DEF Done
  <2>3. CASE c.what = "type"
    <3> DEFINE types == With(reg.types, c.name, TypeSpec(c.spec))
    <3>1. Registered(reg, c).types = types /\ Registered(reg, c).kinds = reg.kinds
      <4>1. Registered(reg, c) = [reg EXCEPT !.types = types]
        BY <2>3 DEF Registered
      <4> HIDE DEF types
      <4> QED BY <4>1 DEF ConnectionRegistry
    <3>2. IsWhatWasAsked("type", more, types)
      <4>1. IsWhatWasAsked("type", done, reg.types)
        BY DEF Done
      <4>2. IsWhatWasAsked("type", more, With(reg.types, c.name, IF "type" = "kind" THEN c.spec ELSE TypeSpec(c.spec)))
        BY <2>3, <4>1, OneMoreEntry DEF more
      <4> QED BY <4>2
    <3>3. IsWhatWasAsked("kind", more, reg.kinds)
      <4>1. IsWhatWasAsked("kind", done, reg.kinds) /\ c.what # "kind"
        BY <2>3 DEF Done
      <4> QED BY <4>1, OneMoreEntry DEF more
    <3> HIDE DEF types
    <3> QED BY <2>1, <3>1, <3>2, <3>3 DEF Done
  <2> QED BY <1>2, <2>2, <2>3
<1> QED BY <1>5, <1>6 DEF more, n

\* Before the first registration there is what the build began with.
Start == IF builder.defaults THEN DefaultRegistry ELSE Nothing

LEMMA NoneDone ==
  ASSUME NEW reg,
         DOMAIN reg.kinds = DOMAIN Base("kind") /\ \A k \in DOMAIN reg.kinds : reg.kinds[k] = Base("kind")[k],
         DOMAIN reg.types = DOMAIN Base("type") /\ \A t \in DOMAIN reg.types : reg.types[t] = Base("type")[t]
  PROVE  Done(<< >>, reg)
<1>1. DOMAIN << >> = {}
  OBVIOUS
<1>2. ASSUME NEW what, NEW entries, DOMAIN entries = DOMAIN Base(what),
             \A name \in DOMAIN entries : entries[name] = Base(what)[name]
      PROVE  IsWhatWasAsked(what, << >>, entries)
  BY <1>1, <1>2 DEF IsWhatWasAsked
<1> QED BY <1>1, <1>2 DEF Done

LEMMA NotMerging ==
  ASSUME builder.registry = None
  PROVE  Done(<< >>, Start)
<1>1. DOMAIN Nothing.kinds = {} /\ DOMAIN Nothing.types = {}
  BY DEF Nothing
<1> DEFINE s == Start
<1>2. s = IF builder.defaults THEN DefaultRegistry ELSE Nothing
  BY DEF Start
<1> HIDE DEF s
<1>3. DOMAIN s.kinds = DOMAIN Base("kind") /\ \A k \in DOMAIN s.kinds : s.kinds[k] = Base("kind")[k]
  BY <1>1, <1>2 DEF Base
<1>4. DOMAIN s.types = DOMAIN Base("type") /\ \A k \in DOMAIN s.types : s.types[k] = Base("type")[k]
  BY <1>1, <1>2 DEF Base
<1> QED BY <1>3, <1>4, NoneDone DEF s

LEMMA HavingMerged ==
  ASSUME builder.registry # None
  PROVE  Done(<< >>, Merged(Start, regs[builder.registry]))
<1> DEFINE s == Start
           m == Merged(s, regs[builder.registry])
<1>1. s = IF builder.defaults THEN DefaultRegistry ELSE Nothing
  BY DEF Start
<1>2. /\ m.kinds = Over(regs[builder.registry].kinds, s.kinds)
      /\ m.types = Over(regs[builder.registry].types, s.types)
  BY DEF Merged
<1> HIDE DEF s, m
<1>3. DOMAIN m.kinds = DOMAIN Base("kind") /\ \A k \in DOMAIN m.kinds : m.kinds[k] = Base("kind")[k]
  BY <1>1, <1>2 DEF Base, Over
<1>4. DOMAIN m.types = DOMAIN Base("type") /\ \A k \in DOMAIN m.types : m.types[k] = Base("type")[k]
  BY <1>1, <1>2 DEF Base, Over
<1> QED BY <1>3, <1>4, NoneDone DEF s, m

-----------------------------------------------------------------------------
(* The limit of connections.                                              *)

\* The limit a prefix of the configurations sets.
LimitsOf(f, configs) ==
  f = [i \in 0..Len(configs) |->
         IF i = 0 THEN None
         ELSE IF configs[i].max # None THEN configs[i].max ELSE f[i - 1]]

LEMMA LimitsExist ==
  ASSUME NEW S
  PROVE  \A configs \in Seq(S) : \E f : LimitsOf(f, configs)
<1> DEFINE T == {configs \in Seq(S) : \E f : LimitsOf(f, configs)}
<1>1. << >> \in T
  <2> DEFINE f == [i \in 0..0 |-> None]
  <2>1. f = [i \in 0..Len(<< >>) |-> IF i = 0 THEN None
                                     ELSE IF << >>[i].max # None THEN << >>[i].max ELSE f[i - 1]]
    OBVIOUS
  <2> HIDE DEF f
  <2>2. LimitsOf(f, << >>)
    BY <2>1 DEF LimitsOf
  <2> QED BY <2>2, EmptySeq
<1>2. ASSUME NEW configs \in T, NEW x \in S PROVE Append(configs, x) \in T
  <2>1. PICK f : LimitsOf(f, configs)
    OBVIOUS
  <2> DEFINE more == Append(configs, x)
             n == Len(configs)
             g == [i \in 0..(n + 1) |-> IF i <= n THEN f[i] ELSE IF x.max # None THEN x.max ELSE f[n]]
  <2>2. /\ n \in Nat /\ Len(more) = n + 1 /\ more \in Seq(S)
        /\ \A i \in 1..n : more[i] = configs[i]
        /\ more[n + 1] = x
    BY AppendProperties
  <2>3. \A i \in 0..n : f[i] = IF i = 0 THEN None
                               ELSE IF configs[i].max # None THEN configs[i].max ELSE f[i - 1]
    <3> DEFINE h == [i \in 0..n |-> IF i = 0 THEN None
                                    ELSE IF configs[i].max # None THEN configs[i].max ELSE f[i - 1]]
    <3>1. f = h
      BY <2>1, Zenon DEF LimitsOf
    <3>2. \A i \in 0..n : h[i] = IF i = 0 THEN None
                                 ELSE IF configs[i].max # None THEN configs[i].max ELSE f[i - 1]
      OBVIOUS
    <3> HIDE DEF h
    <3> QED BY <3>1, <3>2, Zenon
  <2>4. g = [i \in 0..(n + 1) |-> g[i]] /\ (\A i \in 0..n : g[i] = f[i])
        /\ g[n + 1] = IF x.max # None THEN x.max ELSE f[n]
    BY <2>2
  <2> HIDE DEF more, n, g
  <2>5. ASSUME NEW i \in 0..(n + 1)
        PROVE  g[i] = IF i = 0 THEN None ELSE IF more[i].max # None THEN more[i].max ELSE g[i - 1]
    <3>1. CASE i = 0
      <4>1. 0 \in 0..n
        BY <2>2
      <4>2. f[0] = None
        BY <2>3, <4>1
      <4>3. g[0] = f[0]
        BY <2>4, <4>1
      <4> QED BY <3>1, <4>2, <4>3
    <3>2. CASE i \in 1..n
      <4>1. i \in 0..n /\ i - 1 \in 0..n /\ i # 0
        BY <2>2, <3>2
      <4>2. g[i] = f[i] /\ g[i - 1] = f[i - 1] /\ more[i] = configs[i]
        BY <2>2, <2>4, <3>2, <4>1
      <4> QED BY <2>3, <4>1, <4>2
    <3>3. CASE i = n + 1
      <4>1. i # 0 /\ i - 1 = n /\ n \in 0..n
        BY <2>2, <3>3
      <4>2. g[n] = f[n] /\ more[i] = x
        BY <2>2, <2>4, <3>3, <4>1
      <4> QED BY <2>4, <3>3, <4>1, <4>2
    <3> QED BY <2>2, <3>1, <3>2, <3>3
  <2>6. g = [i \in 0..Len(more) |->
               IF i = 0 THEN None ELSE IF more[i].max # None THEN more[i].max ELSE g[i - 1]]
    BY <2>2, <2>4, <2>5
  <2>7. LimitsOf(g, more)
    BY <2>6 DEF LimitsOf
  <2> QED BY <2>2, <2>7 DEF more
<1>3. T \in SUBSET Seq(S)
  OBVIOUS
<1> HIDE DEF T
<1>4. T = Seq(S)
  BY <1>1, <1>2, <1>3, AllSequences
<1> QED BY <1>4 DEF T

\* The last configuration with a limit sets it.
LEMMA LastLimit ==
  ASSUME NEW S, NEW configs \in Seq(S)
  PROVE  LET limiting == {i \in DOMAIN configs : configs[i].max # None}
         IN  \/ limiting = {} /\ DslLimit(configs) = None
             \/ \E i \in limiting : (\A j \in limiting : j <= i) /\ DslLimit(configs) = configs[i].max
<1> DEFINE f == CHOOSE g : g = [i \in 0..Len(configs) |->
                                  IF i = 0 THEN None
                                  ELSE IF configs[i].max # None THEN configs[i].max ELSE g[i - 1]]
           n == Len(configs)
           limiting == {i \in DOMAIN configs : configs[i].max # None}
           Upto(m) == \/ (\A i \in limiting : i > m) /\ f[m] = None
                      \/ \E i \in limiting : /\ i <= m /\ f[m] = configs[i].max
                                             /\ \A j \in limiting : j <= m => j <= i
<1>1. DslLimit(configs) = f[n]
  BY Zenon DEF DslLimit
<1>2. LimitsOf(f, configs)
  <2>1. \E g : LimitsOf(g, configs)
    BY LimitsExist
  <2> QED BY <2>1, Zenon DEF LimitsOf
<1> HIDE DEF f
<1>3. n \in Nat /\ DOMAIN configs = 1..n
  OBVIOUS
<1>4. \A i \in 0..n : f[i] = IF i = 0 THEN None
                             ELSE IF configs[i].max # None THEN configs[i].max ELSE f[i - 1]
  <2> DEFINE h == [i \in 0..n |-> IF i = 0 THEN None
                                  ELSE IF configs[i].max # None THEN configs[i].max ELSE f[i - 1]]
  <2>1. f = h
    BY <1>2, Zenon DEF LimitsOf
  <2>2. \A i \in 0..n : h[i] = IF i = 0 THEN None
                               ELSE IF configs[i].max # None THEN configs[i].max ELSE f[i - 1]
    OBVIOUS
  <2> HIDE DEF h
  <2> QED BY <2>1, <2>2, Zenon
<1> HIDE DEF n
<1>5. Upto(n)
  <2> SUFFICES ASSUME ~Upto(n) PROVE FALSE
    OBVIOUS
  <2> DEFINE wrong == {m \in 0..n : ~Upto(m)}
  <2>1. wrong # {} /\ wrong \in SUBSET Nat
    BY <1>3
  <2>2. PICK m \in wrong : \A k \in wrong : m <= k
    <3> HIDE DEF wrong
    <3> QED BY <2>1, LeastNat
  <2>3. m \in 0..n /\ ~Upto(m)
    OBVIOUS
  <2>4. m # 0
    <3>1. f[0] = None /\ \A i \in limiting : i > 0
      BY <1>3, <1>4
    <3>2. Upto(0)
      BY <3>1
    <3> HIDE DEF Upto
    <3> QED BY <2>3, <3>2
  <2>5. m - 1 \in 0..n /\ m \in 1..n /\ m - 1 < m
    BY <1>3, <2>3, <2>4
  <2>6. Upto(m - 1)
    <3>1. m - 1 \notin wrong
      <4> HIDE DEF wrong
      <4> QED BY <1>3, <2>2, <2>5
    <3> HIDE DEF Upto
    <3> QED BY <2>5, <3>1
  <2>7. CASE configs[m].max # None
    <3>1. m \in limiting /\ f[m] = configs[m].max
      BY <1>3, <1>4, <2>3, <2>4, <2>5, <2>7
    <3>2. Upto(m)
      BY <2>5, <3>1
    <3> QED BY <2>3, <3>2
  <2>8. CASE configs[m].max = None
    <3>1. m \notin limiting /\ f[m] = f[m - 1]
      BY <1>4, <2>3, <2>4, <2>8
    <3>2. \A i \in limiting : i \in Nat /\ (i > m - 1 <=> i > m) /\ (i <= m - 1 <=> i <= m)
      BY <1>3, <2>5, <3>1
    <3> HIDE DEF limiting
    <3>3. Upto(m)
      BY <2>6, <3>1, <3>2
    <3> QED BY <2>3, <3>3
  <2> QED BY <2>7, <2>8
<1>6. \A i \in limiting : i <= n /\ ~(i > n)
  BY <1>3
<1> HIDE DEF limiting
<1>7. \/ limiting = {} /\ f[n] = None
      \/ \E i \in limiting : (\A j \in limiting : j <= i) /\ f[n] = configs[i].max
  BY <1>5, <1>6
<1> QED BY <1>1, <1>7 DEF limiting

LEMMA LimitsAreAsked ==
  ASSUME builder \in Builders
  PROVE  LimitIsAsked(MaxConnections(builder))
<1>1. builder.dsl \in Seq(Configs)
  BY DEF Builders
<1> QED BY <1>1, LastLimit, Zenon DEF LimitIsAsked, MaxConnections

-----------------------------------------------------------------------------
(* A build makes what it was asked for.                                   *)

\* A merge is the first step or none.
MergeFirst(steps) == \A i \in DOMAIN steps : steps[i].step = "merge" => i = 1

\* A running build has made some of the registrations asked for, has the others
\* ahead and will stumble over a part exactly if one does not work.
DeclaredInv ==
  build # 0 =>
    /\ StepsWork(todo) <=> PartsWork
    /\ MergeFirst(todo)
    /\ \E done \in Seq(Calls) :
         /\ done \o Ahead(todo) = Asked
         /\ IF At("merge") THEN done = << >> /\ regs[build] = Start
            ELSE Done(done, regs[build])

\* BuiltAsDeclared, of one step.
AsDeclared ==
  Len(results') > Len(results) =>
    LET r == results'[Len(results')] IN
    /\ r.outcome = "ok" <=> CanBeBuilt
    /\ r.outcome = "ok" =>
         /\ IsWhatWasAsked("kind", Asked, r.registry.kinds)
         /\ IsWhatWasAsked("type", Asked, r.registry.types)
         /\ LimitIsAsked(r.max)

LEMMA NothingEnds ==
  ASSUME RegistryInv, results' = results
  PROVE  AsDeclared
<1>1. Len(results) \in Nat
  BY DEF RegistryInv, NextResult
<1>2. ~(Len(results') > Len(results))
  BY <1>1
<1> QED BY <1>2 DEF AsDeclared

\* What was asked for does not change while it is built.
LEMMA AskedIsKept ==
  ASSUME builder' = builder,
         builder.registry # None => regs'[builder.registry] = regs[builder.registry]
  PROVE  /\ Asked' = Asked /\ (PartsWork' <=> PartsWork) /\ Start' = Start
         /\ \A done, reg : Done(done, reg) => Done(done, reg)'
<1>1. Asked' = Asked /\ (PartsWork' <=> PartsWork) /\ Start' = Start
  BY Zenon DEF Asked, PartsWork, Start
<1>2. \A what : Base(what)' = Base(what)
  BY Zenon DEF Base
<1>3. \A done, reg : Done(done, reg) => Done(done, reg)'
  <2>1. \A what, name, s, i : Taken(what, name, s, i)' <=> Taken(what, name, s, i)
    BY <1>2, Zenon DEF Taken
  <2>2. \A s, i : CanRegister(s, i)' <=> CanRegister(s, i)
    BY <2>1, Zenon DEF CanRegister
  <2>3. \A what, s, f : IsWhatWasAsked(what, s, f) => IsWhatWasAsked(what, s, f)'
    BY <1>2, SMT DEF IsWhatWasAsked
  <2> QED BY <2>2, <2>3, Zenon DEF Done
<1> QED BY <1>1, <1>3

LEMMA MergeFirstConcat ==
  ASSUME NEW s \in Seq(Steps), NEW t \in Seq(Steps), MergeFirst(s), NoMerge(t)
  PROVE  MergeFirst(s \o t)
BY DEF MergeFirst, NoMerge

LEMMA MergeFirstTail ==
  ASSUME NEW s \in Seq(Steps), s # << >>, MergeFirst(s)
  PROVE  NoMerge(Tail(s))
<1>1. /\ Len(Tail(s)) = Len(s) - 1 /\ Len(s) \in Nat
      /\ DOMAIN Tail(s) = 1..(Len(s) - 1) /\ DOMAIN s = 1..Len(s)
      /\ \A i \in 1..(Len(s) - 1) : Tail(s)[i] = s[i + 1]
  BY HeadTailProperties, LenProperties
<1>2. ASSUME NEW i \in DOMAIN Tail(s) PROVE Tail(s)[i].step # "merge"
  <2>1. i + 1 \in DOMAIN s /\ i + 1 # 1 /\ Tail(s)[i] = s[i + 1]
    BY <1>1
  <2> QED BY <2>1 DEF MergeFirst
<1> QED BY <1>2 DEF NoMerge

LEMMA EachConfigSteps ==
  ASSUME NEW configs \in Seq(Configs), NEW s \in {"config", "config_plugins"}
  PROVE  LET steps == EachConfig(s, configs)
         IN  /\ steps \in Seq(Steps) /\ NoMerge(steps)
             /\ steps = [i \in DOMAIN configs |-> steps[i]] /\ DOMAIN steps = DOMAIN configs
             /\ \A i \in DOMAIN configs : steps[i].step = s /\ steps[i].config = configs[i]
<1> DEFINE steps == [i \in DOMAIN configs |-> [step |-> s, config |-> configs[i]]]
<1>1. /\ steps = [i \in DOMAIN configs |-> steps[i]] /\ DOMAIN steps = DOMAIN configs
      /\ \A i \in DOMAIN configs : steps[i] = [step |-> s, config |-> configs[i]]
  OBVIOUS
<1>2. EachConfig(s, configs) = steps
  BY DEF EachConfig
<1> HIDE DEF steps
<1>3. \A i \in DOMAIN configs : steps[i].step = s /\ steps[i].config = configs[i]
  BY <1>1
<1>4. \A i \in DOMAIN configs : steps[i] \in Steps
  <2>1. \A i \in DOMAIN configs : configs[i] \in Configs
    OBVIOUS
  <2>2. \A i \in DOMAIN configs : [step |-> s, config |-> configs[i]] \in Steps
    BY <2>1, StepKinds
  <2> QED BY <1>1, <2>2
<1>5. steps \in Seq(Steps)
  BY <1>1, <1>4, MapsAreSequences
<1>6. NoMerge(steps)
  BY <1>1, <1>3 DEF NoMerge
<1> QED BY <1>1, <1>2, <1>3, <1>5, <1>6

\* What the configurations of a builder stand for.
LEMMA ConfigsStand ==
  ASSUME NEW configs \in Seq(Configs)
  PROVE  LET steps == EachConfig("config", configs)
         IN  /\ steps \in Seq(Steps) /\ NoMerge(steps)
             /\ Ahead(steps) = FlattenSeq([i \in DOMAIN configs |-> configs[i].kinds \o configs[i].types])
             /\ StepsWork(steps) <=> \A i \in DOMAIN configs : Resolves(configs[i])
<1> DEFINE steps == EachConfig("config", configs)
<1>1. /\ steps \in Seq(Steps) /\ NoMerge(steps)
      /\ steps = [i \in DOMAIN configs |-> steps[i]] /\ DOMAIN steps = DOMAIN configs
      /\ \A i \in DOMAIN configs : steps[i].step = "config" /\ steps[i].config = configs[i]
  BY EachConfigSteps
<1> HIDE DEF steps
<1>2. \A i \in DOMAIN configs : steps[i].step = "config" /\ steps[i].config = configs[i]
  BY <1>1
<1>4. steps \in Seq(Steps)
  BY <1>1
<1>5. NoMerge(steps)
  BY <1>1
<1>6. Meanings(steps) = [i \in DOMAIN configs |-> configs[i].kinds \o configs[i].types]
  <2>1. \A i \in DOMAIN configs : Means(steps[i]) = configs[i].kinds \o configs[i].types
    BY <1>2 DEF Means
  <2> QED BY <1>1, <2>1 DEF Meanings
<1>7. \A i \in DOMAIN configs : StepWorks(steps[i]) <=> Resolves(configs[i])
  BY <1>2 DEF StepWorks
<1>8. StepsWork(steps) <=> \A i \in DOMAIN configs : Resolves(configs[i])
  BY <1>1, <1>7 DEF StepsWork
<1> QED BY <1>4, <1>5, <1>6, <1>8 DEF Ahead, steps

LEMMA ConfigPluginsStand ==
  ASSUME NEW configs \in Seq(Configs)
  PROVE  LET steps == EachConfig("config_plugins", configs)
         IN  /\ steps \in Seq(Steps) /\ NoMerge(steps)
             /\ Ahead(steps) =
                  FlattenSeq([i \in DOMAIN configs |->
                    LET named == configs[i].plugins IN
                    FlattenSeq([j \in DOMAIN named |-> CallsOf({named[j]})])])
             /\ StepsWork(steps) <=>
                  \A i \in DOMAIN configs : \A j \in DOMAIN configs[i].plugins : Works({configs[i].plugins[j]})
<1> DEFINE steps == EachConfig("config_plugins", configs)
           NamedCalls(named) == FlattenSeq([j \in DOMAIN named |-> CallsOf({named[j]})])
           AllWork(named) == \A j \in DOMAIN named : Works({named[j]})
<1>1. /\ steps \in Seq(Steps) /\ NoMerge(steps)
      /\ steps = [i \in DOMAIN configs |-> steps[i]] /\ DOMAIN steps = DOMAIN configs
      /\ \A i \in DOMAIN configs : steps[i].step = "config_plugins" /\ steps[i].config = configs[i]
  BY EachConfigSteps
<1> HIDE DEF steps
<1>2. \A i \in DOMAIN configs : steps[i].step = "config_plugins" /\ steps[i].config = configs[i]
  BY <1>1
<1>4. steps \in Seq(Steps)
  BY <1>1
<1>5. NoMerge(steps)
  BY <1>1
<1>6. \A s : s.step = "config_plugins" => Means(s) = NamedCalls(s.config.plugins)
  BY DEF Means
<1>7. \A s : s.step = "config_plugins" => (StepWorks(s) <=> AllWork(s.config.plugins))
  BY DEF StepWorks
<1> HIDE DEF NamedCalls, AllWork
<1>8. Meanings(steps) = [i \in DOMAIN configs |-> NamedCalls(configs[i].plugins)]
  <2>1. \A i \in DOMAIN configs : Means(steps[i]) = NamedCalls(configs[i].plugins)
    BY <1>2, <1>6
  <2> QED BY <1>1, <2>1 DEF Meanings
<1>9. StepsWork(steps) <=> \A i \in DOMAIN configs : AllWork(configs[i].plugins)
  BY <1>1, <1>2, <1>7 DEF StepsWork
<1> QED BY <1>4, <1>5, <1>8, <1>9 DEF Ahead, steps, NamedCalls, AllWork

LEMMA RequestsStand ==
  ASSUME NEW requests \in Seq(Requests)
  PROVE  LET steps == [i \in DOMAIN requests |-> [step |-> "plugins", names |-> requests[i]]]
         IN  /\ steps \in Seq(Steps) /\ NoMerge(steps)
             /\ Ahead(steps) = FlattenSeq([i \in DOMAIN requests |-> CallsOf(requests[i])])
             /\ StepsWork(steps) <=> \A i \in DOMAIN requests : Works(requests[i])
<1> DEFINE steps == [i \in DOMAIN requests |-> [step |-> "plugins", names |-> requests[i]]]
<1>1. /\ steps = [i \in DOMAIN requests |-> steps[i]] /\ DOMAIN steps = DOMAIN requests
      /\ \A i \in DOMAIN requests : steps[i].step = "plugins" /\ steps[i].names = requests[i]
  OBVIOUS
<1>2. \A i \in DOMAIN requests : steps[i] \in Steps
  <2>1. \A i \in DOMAIN requests : requests[i] \in Requests
    OBVIOUS
  <2>2. Requests \subseteq SUBSET STRING \cup {None}
    BY BuilderAssumption
  <2>3. \A i \in DOMAIN requests : [step |-> "plugins", names |-> requests[i]] \in Steps
    BY <2>1, <2>2, StepKinds, Zenon
  <2> QED BY <2>3
<1> HIDE DEF steps
<1>3. steps \in Seq(Steps)
  BY <1>1, <1>2, MapsAreSequences
<1>4. NoMerge(steps)
  BY <1>1 DEF NoMerge
<1>5. Meanings(steps) = [i \in DOMAIN requests |-> CallsOf(requests[i])]
  <2>1. \A i \in DOMAIN requests : Means(steps[i]) = CallsOf(requests[i])
    BY <1>1 DEF Means
  <2> QED BY <1>1, <2>1 DEF Meanings
<1>6. \A i \in DOMAIN requests : StepWorks(steps[i]) <=> Works(requests[i])
  BY <1>1 DEF StepWorks
<1>7. StepsWork(steps) <=> \A i \in DOMAIN requests : Works(requests[i])
  BY <1>1, <1>6 DEF StepsWork
<1> QED BY <1>3, <1>4, <1>5, <1>7 DEF Ahead, steps

LEMMA BuilderRegistersStand ==
  ASSUME NEW cs \in Seq(Calls)
  PROVE  LET steps == Register("builder", cs)
         IN  steps \in Seq(Steps) /\ NoMerge(steps) /\ Ahead(steps) = cs /\ StepsWork(steps)
<1> DEFINE steps == Register("builder", cs)
<1>1. StepsWork(steps)
  <2>1. StepsWork(steps) <=> \A i \in DOMAIN cs : "builder" = "config" /\ cs[i].what = "type" => cs[i].spec.resolves
    BY AheadRegister
  <2> QED BY <2>1
<1>2. Ahead(steps) = cs
  BY AheadRegister
<1>3. steps \in Seq(Steps) /\ \A i \in DOMAIN steps : steps[i].step = "register"
  BY RegisterSteps
<1> HIDE DEF steps
<1>4. NoMerge(steps)
  BY <1>3 DEF NoMerge
<1> QED BY <1>1, <1>2, <1>3, <1>4 DEF steps

\* The plan of a build stands for all that was asked for.
LEMMA PlanStands ==
  ASSUME builder \in Builders
  PROVE  /\ Plan(builder) \in Seq(Steps) /\ MergeFirst(Plan(builder))
         /\ Ahead(Plan(builder)) = Asked
         /\ StepsWork(Plan(builder)) <=> PartsWork
         /\ (Plan(builder) # << >> /\ Head(Plan(builder)).step = "merge") <=> builder.registry # None
<1> DEFINE first == IF builder.registry = None THEN << >> ELSE <<[step |-> "merge"]>>
           cs == EachConfig("config", builder.dsl)
           ps == EachConfig("config_plugins", builder.dsl)
           rs == [i \in DOMAIN builder.requests |-> [step |-> "plugins", names |-> builder.requests[i]]]
           ks == Register("builder", builder.kinds)
           ts == Register("builder", builder.types)
           A == FlattenSeq([i \in DOMAIN builder.dsl |-> builder.dsl[i].kinds \o builder.dsl[i].types])
           B == FlattenSeq([i \in DOMAIN builder.dsl |->
                              LET named == builder.dsl[i].plugins IN
                              FlattenSeq([j \in DOMAIN named |-> CallsOf({named[j]})])])
           C == FlattenSeq([i \in DOMAIN builder.requests |-> CallsOf(builder.requests[i])])
           AllResolve == \A i \in DOMAIN builder.dsl : Resolves(builder.dsl[i])
           PluginsWork == \A i \in DOMAIN builder.dsl :
                            \A j \in DOMAIN builder.dsl[i].plugins : Works({builder.dsl[i].plugins[j]})
           RequestsWork == \A i \in DOMAIN builder.requests : Works(builder.requests[i])
<1>1. builder.dsl \in Seq(Configs) /\ builder.requests \in Seq(Requests)
  BY DEF Builders
<1>2. builder.kinds \in Seq(Calls) /\ builder.types \in Seq(Calls)
  <2>1. builder.kinds \in Seq(KindCalls) /\ builder.types \in Seq(TypeCalls)
    BY DEF Builders
  <2>2. KindCalls \subseteq Calls /\ TypeCalls \subseteq Calls
    BY DEF Calls
  <2> QED BY <2>1, <2>2, SeqMonotonic
<1>3. cs \in Seq(Steps) /\ NoMerge(cs) /\ Ahead(cs) = A /\ (StepsWork(cs) <=> AllResolve)
  BY <1>1, ConfigsStand
<1>4. ps \in Seq(Steps) /\ NoMerge(ps) /\ Ahead(ps) = B /\ (StepsWork(ps) <=> PluginsWork)
  BY <1>1, ConfigPluginsStand
<1>5. rs \in Seq(Steps) /\ NoMerge(rs) /\ Ahead(rs) = C /\ (StepsWork(rs) <=> RequestsWork)
  BY <1>1, RequestsStand
<1>6. ks \in Seq(Steps) /\ NoMerge(ks) /\ Ahead(ks) = builder.kinds /\ StepsWork(ks)
  BY <1>2, BuilderRegistersStand
<1>7. ts \in Seq(Steps) /\ NoMerge(ts) /\ Ahead(ts) = builder.types /\ StepsWork(ts)
  BY <1>2, BuilderRegistersStand
<1>8. /\ first \in Seq(Steps) /\ MergeFirst(first)
      /\ Ahead(first) = << >> /\ StepsWork(first)
  <2>1. CASE builder.registry = None
    <3>1. first = << >>
      BY <2>1
    <3> HIDE DEF first
    <3>2. MergeFirst(<< >>) /\ << >> \in Seq(Steps)
      BY DEF MergeFirst
    <3> QED BY <3>1, <3>2, AheadEmpty
  <2>2. CASE builder.registry # None
    <3> DEFINE m == [step |-> "merge"]
    <3>1. first = <<m>>
      BY <2>2
    <3>2. m \in Steps /\ m.step = "merge"
      BY StepKinds
    <3> HIDE DEF first, m
    <3>3. <<m>> \in Seq(Steps) /\ MergeFirst(<<m>>)
      BY <3>2 DEF MergeFirst
    <3>4. Means(m) = << >> /\ StepWorks(m)
      BY <3>2 DEF Means, StepWorks
    <3> QED BY <3>1, <3>2, <3>3, <3>4, AheadOne
  <2> QED BY <2>1, <2>2
<1>9. builder.registry # None => first # << >> /\ Head(first).step = "merge"
  OBVIOUS
<1>10. builder.registry = None => first = << >>
  OBVIOUS
<1>11. Plan(builder) = ((((first \o cs) \o ps) \o rs) \o ks) \o ts
  BY DEF Plan
<1>12. /\ Asked = (((A \o B) \o C) \o builder.kinds) \o builder.types
       /\ PartsWork <=> AllResolve /\ PluginsWork /\ RequestsWork
  <2>1. Asked = (((A \o B) \o C) \o builder.kinds) \o builder.types
    BY DEF Asked
  <2>2. PartsWork <=> AllResolve /\ PluginsWork /\ RequestsWork
    BY Zenon DEF PartsWork
  <2> QED BY <2>1, <2>2
<1> HIDE DEF first, cs, ps, rs, ks, ts, A, B, C, AllResolve, PluginsWork, RequestsWork
<1> DEFINE p1 == first \o cs
           p2 == p1 \o ps
           p3 == p2 \o rs
           p4 == p3 \o ks
           p5 == p4 \o ts
<1>13. ASSUME NEW s \in Seq(Steps), NEW t \in Seq(Steps), MergeFirst(s), NoMerge(t)
       PROVE  /\ s \o t \in Seq(Steps) /\ MergeFirst(s \o t)
              /\ Ahead(s \o t) = Ahead(s) \o Ahead(t)
              /\ StepsWork(s \o t) <=> StepsWork(s) /\ StepsWork(t)
              /\ s # << >> => s \o t # << >> /\ Head(s \o t) = Head(s)
  <2>1. s # << >> => s \o t # << >> /\ Head(s \o t) = Head(s)
    OBVIOUS
  <2> QED BY <1>13, <2>1, AheadConcat, MergeFirstConcat
<1> DEFINE Starts(p) == builder.registry # None => p # << >> /\ Head(p).step = "merge"
<1>14. /\ p1 \in Seq(Steps) /\ MergeFirst(p1) /\ Starts(p1)
       /\ Ahead(p1) = A /\ (StepsWork(p1) <=> AllResolve)
  <2>1. A \in Seq(Calls)
    BY <1>3, MeaningsType
  <2>2. /\ p1 \in Seq(Steps) /\ MergeFirst(p1)
        /\ Ahead(p1) = Ahead(first) \o Ahead(cs)
        /\ StepsWork(p1) <=> StepsWork(first) /\ StepsWork(cs)
        /\ first # << >> => p1 # << >> /\ Head(p1) = Head(first)
    BY <1>3, <1>8, <1>13
  <2>3. << >> \o A = A
    BY <2>1, ConcatEmptySeq
  <2> HIDE DEF p1
  <2> QED BY <1>3, <1>8, <1>9, <2>2, <2>3
<1> HIDE DEF p1
<1>15. /\ p2 \in Seq(Steps) /\ MergeFirst(p2) /\ Starts(p2)
       /\ Ahead(p2) = A \o B /\ (StepsWork(p2) <=> AllResolve /\ PluginsWork)
  <2>1. /\ p2 \in Seq(Steps) /\ MergeFirst(p2)
        /\ Ahead(p2) = Ahead(p1) \o Ahead(ps)
        /\ StepsWork(p2) <=> StepsWork(p1) /\ StepsWork(ps)
        /\ p1 # << >> => p2 # << >> /\ Head(p2) = Head(p1)
    BY <1>4, <1>13, <1>14
  <2> HIDE DEF p2
  <2> QED BY <1>4, <1>14, <2>1
<1> HIDE DEF p2
<1>16. /\ p3 \in Seq(Steps) /\ MergeFirst(p3) /\ Starts(p3)
       /\ Ahead(p3) = (A \o B) \o C /\ (StepsWork(p3) <=> AllResolve /\ PluginsWork /\ RequestsWork)
  <2>1. /\ p3 \in Seq(Steps) /\ MergeFirst(p3)
        /\ Ahead(p3) = Ahead(p2) \o Ahead(rs)
        /\ StepsWork(p3) <=> StepsWork(p2) /\ StepsWork(rs)
        /\ p2 # << >> => p3 # << >> /\ Head(p3) = Head(p2)
    BY <1>5, <1>13, <1>15
  <2> HIDE DEF p3
  <2> QED BY <1>5, <1>15, <2>1
<1> HIDE DEF p3
<1>17. /\ p4 \in Seq(Steps) /\ MergeFirst(p4) /\ Starts(p4)
       /\ Ahead(p4) = ((A \o B) \o C) \o builder.kinds
       /\ StepsWork(p4) <=> AllResolve /\ PluginsWork /\ RequestsWork
  <2>1. /\ p4 \in Seq(Steps) /\ MergeFirst(p4)
        /\ Ahead(p4) = Ahead(p3) \o Ahead(ks)
        /\ StepsWork(p4) <=> StepsWork(p3) /\ StepsWork(ks)
        /\ p3 # << >> => p4 # << >> /\ Head(p4) = Head(p3)
    BY <1>6, <1>13, <1>16
  <2> HIDE DEF p4
  <2> QED BY <1>6, <1>16, <2>1
<1> HIDE DEF p4
<1>18. /\ p5 \in Seq(Steps) /\ MergeFirst(p5) /\ Starts(p5)
       /\ Ahead(p5) = (((A \o B) \o C) \o builder.kinds) \o builder.types
       /\ StepsWork(p5) <=> AllResolve /\ PluginsWork /\ RequestsWork
  <2>1. /\ p5 \in Seq(Steps) /\ MergeFirst(p5)
        /\ Ahead(p5) = Ahead(p4) \o Ahead(ts)
        /\ StepsWork(p5) <=> StepsWork(p4) /\ StepsWork(ts)
        /\ p4 # << >> => p5 # << >> /\ Head(p5) = Head(p4)
    BY <1>7, <1>13, <1>17
  <2> HIDE DEF p5
  <2> QED BY <1>7, <1>17, <2>1
<1>19. Plan(builder) = p5
  BY <1>11 DEF p1, p2, p3, p4
<1>20. ASSUME builder.registry = None, p5 # << >> PROVE Head(p5).step # "merge"
  <2>1. NoMerge(p5)
    <3>1. p1 = cs
      BY <1>3, <1>10, <1>20, ConcatEmptySeq DEF p1
    <3>2. NoMerge(p2)
      BY <1>3, <1>4, <3>1, NoMergeConcat DEF p2
    <3>3. NoMerge(p3)
      BY <1>5, <1>15, <3>2, NoMergeConcat DEF p3
    <3>4. NoMerge(p4)
      BY <1>6, <1>16, <3>3, NoMergeConcat DEF p4
    <3> QED BY <1>7, <1>17, <3>4, NoMergeConcat
  <2> HIDE DEF p5
  <2>2. Head(p5) = p5[1] /\ 1 \in DOMAIN p5
    BY <1>18, <1>20
  <2> QED BY <2>1, <2>2 DEF NoMerge
<1> HIDE DEF p5
<1>21. (p5 # << >> /\ Head(p5).step = "merge") <=> builder.registry # None
  BY <1>18, <1>20
<1> QED BY <1>12, <1>18, <1>19, <1>21

\* A build that fails must have been asked for what cannot be built.
LEMMA FailsRightly ==
  ASSUME RegistryInv, NEW o, o # "ok", Fail(o), ~CanBeBuilt
  PROVE  AsDeclared /\ DeclaredInv'
<1> DEFINE r == Result(o, None, Nothing)
<1>1. PICK S : results \in Seq(S)
  BY DEF RegistryInv, NextResult
<1>2. results' = Append(results, r) /\ build' = 0
  BY DEF Fail
<1>3. r.outcome = o
  BY DEF Result
<1> HIDE DEF r
<1>4. results'[Len(results')] = r
  <2>1. results \in Seq(S \cup {r})
    BY <1>1
  <2> QED BY <1>2, <2>1
<1>5. AsDeclared
  BY <1>3, <1>4, Zenon DEF AsDeclared
<1> QED BY <1>2, <1>5 DEF DeclaredInv

LEMMA BuildKeepsOthers ==
  ASSUME RegistryInv, build # 0, builder.registry # None
  PROVE  builder.registry \in DOMAIN regs /\ builder.registry # build /\ build \in DOMAIN regs
BY DEF RegistryInv, RegistryTypeOK, Builders, Registries, Builds, Given, Copy

\* Steps that are put into the place of one and stand for the same.
LEMMA ReplacingStands ==
  ASSUME RegistryInv, DeclaredInv, build # 0, todo # << >>, ~At("merge"),
         NEW steps \in Seq(Steps), NoMerge(steps), Replace(steps),
         Ahead(steps) = Means(Head(todo)), StepsWork(steps) <=> StepWorks(Head(todo))
  PROVE  AsDeclared /\ DeclaredInv'
<1>1. todo \in Seq(Steps)
  BY DEF RegistryInv, RegistryTypeOK
<1>2. /\ todo' = steps \o Tail(todo) /\ results' = results
      /\ builder' = builder /\ regs' = regs /\ build' = build
  BY DEF Replace
<1>3. /\ Tail(todo) \in Seq(Steps)
      /\ Ahead(todo) = Means(Head(todo)) \o Ahead(Tail(todo))
      /\ StepsWork(todo) <=> StepWorks(Head(todo)) /\ StepsWork(Tail(todo))
  BY <1>1, AheadHead
<1>4. NoMerge(Tail(todo))
  BY <1>1, MergeFirstTail DEF DeclaredInv
<1>5. /\ todo' \in Seq(Steps) /\ NoMerge(todo')
      /\ Ahead(todo') = Ahead(todo)
      /\ StepsWork(todo') <=> StepsWork(todo)
  BY <1>2, <1>3, <1>4, AheadConcat, NoMergeConcat
<1>6. MergeFirst(todo') /\ ~At("merge")'
  <2>1. todo' # << >> => 1 \in DOMAIN todo' /\ Head(todo') = todo'[1]
    BY <1>5
  <2> QED BY <1>5, <2>1 DEF MergeFirst, NoMerge, At
<1>7. PICK done \in Seq(Calls) : done \o Ahead(todo) = Asked /\ Done(done, regs[build])
  BY DEF DeclaredInv
<1>8. /\ Asked' = Asked /\ (PartsWork' <=> PartsWork)
      /\ Done(done, regs[build])'
  BY <1>2, <1>7, AskedIsKept
<1>9. StepsWork(todo) <=> PartsWork
  BY DEF DeclaredInv
<1>10. DeclaredInv'
  BY <1>2, <1>5, <1>6, <1>7, <1>8, <1>9 DEF DeclaredInv
<1> QED BY <1>2, <1>10, NothingEnds

\* A step that cannot be made because of a part.
LEMMA PartFails ==
  ASSUME RegistryInv, DeclaredInv, build # 0, todo # << >>, ~StepWorks(Head(todo))
  PROVE  ~CanBeBuilt
<1>1. todo \in Seq(Steps)
  BY DEF RegistryInv, RegistryTypeOK
<1>2. ~StepsWork(todo)
  BY <1>1, AheadHead
<1> QED BY <1>2 DEF DeclaredInv, CanBeBuilt

LEMMA MergingStands ==
  ASSUME RegistryInv, DeclaredInv, MergeRegistry
  PROVE  AsDeclared /\ DeclaredInv'
<1>1. /\ At("merge") /\ build # 0 /\ todo # << >> /\ Head(todo).step = "merge"
      /\ todo \in Seq(Steps)
  BY DEF MergeRegistry, At, RegistryInv, RegistryTypeOK
<1>2. builder.registry # None
  <2>1. Head(todo) = todo[1] /\ 1 \in DOMAIN todo
    BY <1>1
  <2> QED BY <1>1, <2>1 DEF RegistryInv, MergeHasSource
<1>3. builder.registry \in DOMAIN regs /\ builder.registry # build /\ build \in DOMAIN regs
  BY <1>1, <1>2, BuildKeepsOthers
<1>4. MergeFits(regs[build], regs[builder.registry])
  <2>1. Good(regs[build]) /\ Good(regs[builder.registry])
    BY <1>3 DEF RegistryInv, RegistryTypeOK, TypesHaveKinds, Good
  <2> QED BY <2>1, MergingIsGood
<1>5. /\ regs' = [regs EXCEPT ![build] = Merged(regs[build], regs[builder.registry])]
      /\ todo' = Tail(todo)
      /\ builder' = builder /\ build' = build /\ results' = results
  BY <1>4 DEF MergeRegistry, Advance
<1>6. PICK done \in Seq(Calls) : done \o Ahead(todo) = Asked /\ done = << >> /\ regs[build] = Start
  BY <1>1 DEF DeclaredInv
<1>7. /\ Head(todo) \in Steps /\ Tail(todo) \in Seq(Steps)
      /\ Ahead(todo) = Means(Head(todo)) \o Ahead(Tail(todo))
      /\ StepsWork(todo) <=> StepWorks(Head(todo)) /\ StepsWork(Tail(todo))
  BY <1>1, AheadHead
<1>8. Means(Head(todo)) = << >> /\ StepWorks(Head(todo))
  BY <1>1 DEF Means, StepWorks
<1>9. Ahead(todo') = Ahead(todo) /\ (StepsWork(todo') <=> StepsWork(todo))
  <2>1. Ahead(Tail(todo)) \in Seq(Calls)
    BY <1>7, MeaningsType
  <2>2. << >> \o Ahead(Tail(todo)) = Ahead(Tail(todo))
    BY <2>1, ConcatEmptySeq
  <2> QED BY <1>5, <1>7, <1>8, <2>2
<1>10. NoMerge(todo')
  BY <1>1, <1>5, MergeFirstTail DEF DeclaredInv
<1>11. MergeFirst(todo') /\ ~At("merge")'
  <2>1. todo' # << >> => 1 \in DOMAIN todo' /\ Head(todo') = todo'[1]
    BY <1>5, <1>7
  <2> QED BY <1>10, <2>1 DEF MergeFirst, NoMerge, At
<1>12. PICK m : m = Merged(Start, regs[builder.registry])
  OBVIOUS
<1>13. regs'[builder.registry] = regs[builder.registry] /\ regs'[build'] = m
  BY <1>3, <1>5, <1>6, <1>12
<1>14. Asked' = Asked /\ (PartsWork' <=> PartsWork) /\ Done(<< >>, m)'
  <2>1. Done(<< >>, m)
    BY <1>2, <1>12, HavingMerged
  <2> QED BY <1>5, <1>13, <2>1, AskedIsKept
<1>15. StepsWork(todo) <=> PartsWork
  BY <1>1 DEF DeclaredInv
<1>16. << >> \o Ahead(todo') = Asked'
  BY <1>6, <1>9, <1>14
<1>17. DeclaredInv'
  <2>1. << >> \in Seq(Calls)
    OBVIOUS
  <2>2. Done(<< >>, regs[build])'
    BY <1>13, <1>14
  <2> QED BY <1>9, <1>11, <1>14, <1>15, <1>16, <2>1, <2>2 DEF DeclaredInv
<1> QED BY <1>5, <1>17, NothingEnds

\* A single registration: it is the next of those asked for.
LEMMA RegisteringStands ==
  ASSUME RegistryInv, DeclaredInv, RegisterOne
  PROVE  AsDeclared /\ DeclaredInv'
<1> DEFINE c == Head(todo).call
           by == Head(todo).by
           e == Error(regs[build], by, c)
<1>1. /\ build # 0 /\ todo # << >> /\ Head(todo).step = "register" /\ ~At("merge")
      /\ todo \in Seq(Steps)
  BY DEF RegisterOne, At, RegistryInv, RegistryTypeOK
<1>2. /\ Head(todo) \in Steps /\ Tail(todo) \in Seq(Steps)
      /\ Ahead(todo) = Means(Head(todo)) \o Ahead(Tail(todo))
      /\ StepsWork(todo) <=> StepWorks(Head(todo)) /\ StepsWork(Tail(todo))
  BY <1>1, AheadHead
<1>3. c \in Calls
  BY <1>1, <1>2 DEF Steps
<1>4. Means(Head(todo)) = <<c>>
  BY <1>1 DEF Means
<1>5. StepWorks(Head(todo)) <=> (by = "config" /\ c.what = "type" => c.spec.resolves)
  BY <1>1, Zenon DEF StepWorks
<1>6. build \in DOMAIN regs /\ ConnectionRegistry(regs[build])
  BY <1>1 DEF RegistryInv, RegistryTypeOK, Registries
<1>7. IF e = "ok" THEN Advance(Registered(regs[build], c)) ELSE Fail(e)
  BY DEF RegisterOne
<1>8. e = "ok" <=> /\ StepWorks(Head(todo))
                   /\ c.what = "type" => Constructs(c.spec)
                   /\ Fits(regs[build], c)
  <2> HIDE DEF c, by
  <2> QED BY <1>5, Zenon DEF Error, e
<1>9. PICK done \in Seq(Calls) : done \o Ahead(todo) = Asked /\ Done(done, regs[build])
  BY <1>1 DEF DeclaredInv
<1> HIDE DEF c, by, e
<1> DEFINE more == Append(done, c)
<1>10. /\ more \in Seq(Calls) /\ Ahead(Tail(todo)) \in Seq(Calls)
       /\ more \o Ahead(Tail(todo)) = Asked
  <2>1. <<c>> \in Seq(Calls)
    BY <1>3
  <2>2. Ahead(Tail(todo)) \in Seq(Calls)
    BY <1>2, MeaningsType
  <2>3. more \in Seq(Calls)
    BY <1>3, <1>9
  <2>4. more = done \o <<c>>
    BY <1>3, <1>9, AppendIsConcat
  <2>5. (done \o <<c>>) \o Ahead(Tail(todo)) = done \o (<<c>> \o Ahead(Tail(todo)))
    BY <1>9, <2>1, <2>2, ConcatAssociative
  <2>6. (done \o <<c>>) \o Ahead(Tail(todo)) = Asked
    BY <1>2, <1>4, <1>9, <2>5
  <2> QED BY <2>2, <2>3, <2>4, <2>6
<1>11. /\ CanRegister(more, Len(done) + 1) <=> Fits(regs[build], c) /\ (c.what = "type" => Constructs(c.spec))
       /\ CanRegister(more, Len(done) + 1) => Done(more, Registered(regs[build], c))
  BY <1>3, <1>6, <1>9, OneMoreRegistration
<1>12. CASE e # "ok"
  <2>1. CASE ~StepWorks(Head(todo))
    BY <1>1, <1>7, <1>12, <2>1, PartFails, FailsRightly
  <2>2. CASE StepWorks(Head(todo))
    <3>1. ~CanRegister(more, Len(done) + 1)
      BY <1>8, <1>11, <1>12, <2>2
    <3>2. Len(done) + 1 \in DOMAIN more
      BY <1>3, <1>9, AppendFacts
    <3>3. ~CanRegister(Asked, Len(done) + 1)
      BY <1>10, <3>1, <3>2, EarlierOnly
    <3>4. Len(done) + 1 \in DOMAIN Asked
      <4>1. DOMAIN more \subseteq DOMAIN (more \o Ahead(Tail(todo)))
        BY <1>10
      <4> QED BY <1>10, <3>2, <4>1
    <3>5. ~CanBeBuilt
      BY <3>3, <3>4 DEF CanBeBuilt
    <3> QED BY <1>7, <1>12, <3>5, FailsRightly
  <2> QED BY <2>1, <2>2
<1>13. CASE e = "ok"
  <2>1. StepWorks(Head(todo)) /\ Done(more, Registered(regs[build], c))
    BY <1>8, <1>11, <1>13
  <2>2. /\ regs' = [regs EXCEPT ![build] = Registered(regs[build], c)]
        /\ todo' = Tail(todo)
        /\ builder' = builder /\ build' = build /\ results' = results
    BY <1>7, <1>13 DEF Advance
  <2>3. PICK m : m = Registered(regs[build], c)
    OBVIOUS
  <2>4. builder.registry # None => regs'[builder.registry] = regs[builder.registry]
    BY <1>1, <2>2, BuildKeepsOthers
  <2>5. regs'[build'] = m
    BY <1>6, <2>2, <2>3
  <2>6. PICK made : made = more
    OBVIOUS
  <2>7. Asked' = Asked /\ (PartsWork' <=> PartsWork) /\ Done(made, m)'
    BY <2>1, <2>2, <2>3, <2>4, <2>6, AskedIsKept
  <2>8. NoMerge(todo')
    BY <1>1, <2>2, MergeFirstTail DEF DeclaredInv
  <2>9. MergeFirst(todo') /\ ~At("merge")'
    <3>1. todo' # << >> => 1 \in DOMAIN todo' /\ Head(todo') = todo'[1]
      BY <1>2, <2>2
    <3> QED BY <2>8, <3>1 DEF MergeFirst, NoMerge, At
  <2>10. StepsWork(todo') <=> PartsWork'
    BY <1>1, <1>2, <2>1, <2>2, <2>7 DEF DeclaredInv
  <2>11. made \in Seq(Calls) /\ made \o Ahead(todo') = Asked'
    BY <1>10, <2>2, <2>6, <2>7
  <2>12. Done(made, regs[build])'
    BY <2>5, <2>7
  <2>13. DeclaredInv'
    BY <2>9, <2>10, <2>11, <2>12 DEF DeclaredInv
  <2> QED BY <2>2, <2>13, NothingEnds
<1> QED BY <1>12, <1>13

LEMMA StepStands ==
  ASSUME RegistryInv, DeclaredInv,
         ApplyConfig \/ ConfigPlugins \/ SelectPlugins \/ LoadPlugin \/ PluginRaises
  PROVE  AsDeclared /\ DeclaredInv'
<1> DEFINE head == Head(todo)
<1>1. /\ build # 0 /\ todo # << >> /\ todo \in Seq(Steps)
      /\ ~At("merge")
  BY DEF ApplyConfig, ConfigPlugins, SelectPlugins, LoadPlugin, PluginRaises, At, RegistryInv, RegistryTypeOK
<1>2. head \in Steps
  BY <1>1
<1>3. CASE ApplyConfig
  <2> DEFINE steps == Register("config", head.config.kinds) \o Register("config", head.config.types)
  <2>1. head.step = "config" /\ head.config \in Configs /\ Replace(steps)
    BY <1>2, <1>3 DEF ApplyConfig, At, Steps
  <2>2. /\ steps \in Seq(Steps) /\ NoMerge(steps)
        /\ Ahead(steps) = head.config.kinds \o head.config.types
        /\ StepsWork(steps) <=> Resolves(head.config)
    BY <2>1, ConfigStands
  <2> HIDE DEF steps, head
  <2>3. Means(head) = head.config.kinds \o head.config.types /\ (StepWorks(head) <=> Resolves(head.config))
    BY <2>1 DEF Means, StepWorks
  <2> QED BY <1>1, <2>1, <2>2, <2>3, ReplacingStands DEF head
<1>4. CASE ConfigPlugins
  <2> DEFINE named == head.config.plugins
             steps == [j \in DOMAIN named |-> [step |-> "plugins", names |-> {named[j]}]]
             all == FlattenSeq([j \in DOMAIN named |-> CallsOf({named[j]})])
  <2>1. head.step = "config_plugins" /\ head.config \in Configs /\ Replace(steps)
    BY <1>2, <1>4 DEF ConfigPlugins, At, Steps
  <2>2. named \in Seq(STRING)
    BY <2>1, ConfigTypes
  <2>3. /\ steps \in Seq(Steps) /\ NoMerge(steps)
        /\ Ahead(steps) = all
        /\ StepsWork(steps) <=> \A j \in DOMAIN named : Works({named[j]})
    BY <2>2, PluginsStand
  <2>4. Means(head) = all /\ (StepWorks(head) <=> \A j \in DOMAIN named : Works({named[j]}))
    <3>1. Means(head) = all
      <4> HIDE DEF head
      <4> QED BY <2>1 DEF Means
    <3>2. StepWorks(head) <=> \A j \in DOMAIN named : Works({named[j]})
      <4> HIDE DEF head
      <4> QED BY <2>1 DEF StepWorks
    <3> QED BY <3>1, <3>2
  <2> HIDE DEF steps, all, head, named
  <2> QED BY <1>1, <2>1, <2>3, <2>4, ReplacingStands DEF head
<1>5. CASE SelectPlugins
  <2> DEFINE names == head.names
             steps == <<[step |-> "load", left |-> Selected(names)]>>
             Known == names = None \/ names \subseteq {Installed[k].name : k \in DOMAIN Installed}
  <2>1. head.step = "plugins"
    BY <1>5 DEF SelectPlugins, At
  <2>2. IF names # None /\ ~names \subseteq {Installed[k].name : k \in Selected(names)}
        THEN Fail("infrastructure") ELSE Replace(steps)
    BY <1>5 DEF SelectPlugins, Selected
  <2>3. (names # None /\ ~names \subseteq {Installed[k].name : k \in Selected(names)}) <=> ~Known
    BY DEF Selected
  <2>4. Means(head) = CallsOf(names) /\ (StepWorks(head) <=> Works(names))
    <3> HIDE DEF head
    <3> QED BY <2>1 DEF Means, StepWorks
  <2>5. CASE ~Known
    <3>1. ~Works(names)
      BY <2>5 DEF Works
    <3>2. Fail("infrastructure")
      BY <2>2, <2>3, <2>5
    <3> QED BY <1>1, <2>4, <3>1, <3>2, PartFails, FailsRightly
  <2>6. CASE Known
    <3>1. Replace(steps)
      BY <2>2, <2>3, <2>6
    <3>2. /\ steps \in Seq(Steps) /\ NoMerge(steps)
          /\ Ahead(steps) = CallsOf(names)
          /\ StepsWork(steps) <=> Works(names)
      BY <2>6, RequestStands
    <3> HIDE DEF steps
    <3> QED BY <1>1, <2>4, <3>1, <3>2, ReplacingStands
  <2> QED BY <2>5, <2>6
<1>6. CASE LoadPlugin
  <2> DEFINE left == head.left
             after(i) == Register("plugin", Installed[i].calls)
                         \o (IF Installed[i].raises THEN <<[step |-> "raise"]>> ELSE << >>)
                         \o <<[step |-> "load", left |-> left \ {i}]>>
  <2>1. head.step = "load" /\ left \in SUBSET (DOMAIN Installed)
    BY <1>2, <1>6 DEF LoadPlugin, At, Steps
  <2>2. \/ left = {} /\ Replace(<< >>)
        \/ \E i \in left : /\ \A j \in left : i <= j
                           /\ IF ~Installed[i].loads THEN Fail("infrastructure") ELSE Replace(after(i))
    BY <1>6, Zenon DEF LoadPlugin
  <2>3. /\ Means(head) = CallsOfLeft(left)
        /\ StepWorks(head) <=> \A k \in left : Installed[k].loads /\ ~Installed[k].raises
    <3>1. Means(head) = CallsOfLeft(left)
      <4> HIDE DEF head
      <4> QED BY <2>1 DEF Means
    <3>2. StepWorks(head) <=> \A k \in left : Installed[k].loads /\ ~Installed[k].raises
      <4> HIDE DEF head
      <4> QED BY <2>1, Zenon DEF StepWorks
    <3> QED BY <3>1, <3>2
  <2>4. CASE left = {} /\ Replace(<< >>)
    <3>1. << >> \in Seq(Steps) /\ NoMerge(<< >>)
      BY DEF NoMerge
    <3>2. Ahead(<< >>) = Means(head) /\ (StepsWork(<< >>) <=> StepWorks(head))
      BY <2>3, <2>4, AheadEmpty, NoneLeft
    <3> QED BY <1>1, <2>4, <3>1, <3>2, ReplacingStands
  <2>5. ASSUME NEW i \in left, \A j \in left : i <= j,
               IF ~Installed[i].loads THEN Fail("infrastructure") ELSE Replace(after(i))
        PROVE  AsDeclared /\ DeclaredInv'
    <3>1. CASE ~Installed[i].loads
      <4>1. ~StepWorks(head)
        BY <2>3, <3>1, Zenon
      <4>2. Fail("infrastructure")
        BY <2>5, <3>1
      <4> QED BY <1>1, <4>1, <4>2, PartFails, FailsRightly
    <3>2. CASE Installed[i].loads
      <4>1. Replace(after(i))
        BY <2>5, <3>2
      <4>2. /\ after(i) \in Seq(Steps) /\ NoMerge(after(i))
            /\ Ahead(after(i)) = CallsOfLeft(left)
            /\ StepsWork(after(i)) <=> \A k \in left : Installed[k].loads /\ ~Installed[k].raises
        <5> HIDE DEF left
        <5> QED BY <2>1, <2>5, <3>2, EntryPointStands
      <4> HIDE DEF after
      <4>3. Ahead(after(i)) = Means(head) /\ (StepsWork(after(i)) <=> StepWorks(head))
        BY <2>3, <4>2, Zenon
      <4> QED BY <1>1, <4>1, <4>2, <4>3, ReplacingStands
    <3> QED BY <3>1, <3>2
  <2> HIDE DEF after, left
  <2> QED BY <2>2, <2>4, <2>5
<1>7. CASE PluginRaises
  <2>1. head.step = "raise" /\ Fail("infrastructure")
    BY <1>7 DEF PluginRaises, At
  <2>2. ~StepWorks(head)
    <3> HIDE DEF head
    <3> QED BY <2>1 DEF StepWorks
  <2> QED BY <1>1, <2>1, <2>2, PartFails, FailsRightly
<1> QED BY <1>3, <1>4, <1>5, <1>6, <1>7

\* Nothing is ahead: all that was asked for is done.
LEMMA FinishStands ==
  ASSUME RegistryInv, DeclaredInv, FinishBuild
  PROVE  AsDeclared /\ DeclaredInv'
<1> DEFINE r == Result("ok", MaxConnections(builder), regs[build])
<1>1. build # 0 /\ todo = << >> /\ ~At("merge")
  BY DEF FinishBuild, At
<1>2. results' = Append(results, r) /\ build' = 0
  BY DEF FinishBuild
<1>3. r.outcome = "ok" /\ r.registry = regs[build] /\ r.max = MaxConnections(builder)
  BY DEF Result
<1> HIDE DEF r
<1>4. results'[Len(results')] = r
  <2>1. PICK S : results \in Seq(S)
    BY DEF RegistryInv, NextResult
  <2>2. results \in Seq(S \cup {r})
    BY <2>1
  <2> QED BY <1>2, <2>2
<1>5. PICK done \in Seq(Calls) : done \o Ahead(todo) = Asked /\ Done(done, regs[build])
  BY <1>1 DEF DeclaredInv
<1>6. done = Asked
  BY <1>1, <1>5, AheadEmpty, ConcatEmptySeq
<1>7. PartsWork
  BY <1>1, AheadEmpty DEF DeclaredInv
<1>8. /\ CanBeBuilt
      /\ IsWhatWasAsked("kind", Asked, r.registry.kinds)
      /\ IsWhatWasAsked("type", Asked, r.registry.types)
  BY <1>3, <1>5, <1>6, <1>7 DEF Done, CanBeBuilt
<1>9. LimitIsAsked(r.max)
  BY <1>3, LimitsAreAsked DEF RegistryInv, RegistryTypeOK
<1>10. AsDeclared
  BY <1>3, <1>4, <1>8, <1>9, Zenon DEF AsDeclared
<1> QED BY <1>2, <1>10 DEF DeclaredInv

\* Everything that was asked for is ahead.
LEMMA StartStands ==
  ASSUME RegistryInv, StartBuild
  PROVE  AsDeclared /\ DeclaredInv'
<1>1. builder \in Builders
  BY DEF RegistryInv, RegistryTypeOK
<1>2. /\ Plan(builder) \in Seq(Steps) /\ MergeFirst(Plan(builder))
      /\ Ahead(Plan(builder)) = Asked
      /\ StepsWork(Plan(builder)) <=> PartsWork
      /\ (Plan(builder) # << >> /\ Head(Plan(builder)).step = "merge") <=> builder.registry # None
  BY <1>1, PlanStands
<1>3. /\ builder' = builder /\ results' = results /\ todo' = Plan(builder)
      /\ regs' = [regs EXCEPT ![build'] = Start]
      /\ build' = Len(results) + 1 /\ Len(results) < MaxBuilds
  BY DEF StartBuild, Start
<1>4. /\ build' # 0 /\ build' \in DOMAIN regs
      /\ builder.registry # None => builder.registry # build'
  <2>1. Len(results) \in Nat
    BY DEF RegistryInv, NextResult
  <2>2. build' \in Builds
    BY <1>3, <2>1, BuilderAssumption DEF Builds
  <2> QED BY <1>1, <2>2, BuilderAssumption DEF RegistryInv, RegistryTypeOK, Registries, Builds, Builders, Given, Copy
<1>5. PICK start : start = Start
  OBVIOUS
<1>6. regs'[build'] = start
  BY <1>3, <1>4, <1>5
<1>7. builder.registry # None => regs'[builder.registry] = regs[builder.registry]
  BY <1>3, <1>4
<1>8. /\ Asked' = Asked /\ (PartsWork' <=> PartsWork) /\ Start' = Start
      /\ \A done, reg : Done(done, reg) => Done(done, reg)'
  BY <1>3, <1>7, AskedIsKept
<1>9. << >> \in Seq(Calls) /\ << >> \o Ahead(todo') = Asked'
  <2>1. Ahead(Plan(builder)) \in Seq(Calls)
    BY <1>2, MeaningsType
  <2>2. << >> \o Ahead(Plan(builder)) = Ahead(Plan(builder))
    BY <2>1, ConcatEmptySeq
  <2> QED BY <1>2, <1>3, <1>8, <2>2
<1>10. CASE builder.registry # None
  <2>1. At("merge")'
    BY <1>2, <1>3, <1>4, <1>10 DEF At
  <2>2. (regs[build])' = Start'
    BY <1>5, <1>6, <1>8
  <2>3. DeclaredInv'
    BY <1>2, <1>3, <1>8, <1>9, <2>1, <2>2 DEF DeclaredInv
  <2> QED BY <1>3, <2>3, NothingEnds
<1>11. CASE builder.registry = None
  <2>1. ~At("merge")'
    BY <1>2, <1>3, <1>11 DEF At
  <2>2. Done(<< >>, start)'
    BY <1>5, <1>8, <1>11, NotMerging
  <2>3. Done(<< >>, regs[build])'
    BY <1>6, <2>2
  <2>4. DeclaredInv'
    BY <1>2, <1>3, <1>8, <1>9, <2>1, <2>3 DEF DeclaredInv
  <2> QED BY <1>3, <2>4, NothingEnds
<1> QED BY <1>10, <1>11

LEMMA NextStands ==
  ASSUME RegistryInv, DeclaredInv, [RegistryNext]_vars
  PROVE  AsDeclared /\ DeclaredInv'
<1>1. CASE Configure
  <2>1. build' = 0 /\ results' = results
    BY <1>1 DEF Configure, WithUowFactory, WithSettings, WithMaxConnections, WithRegistry,
                WithDefaultTypes, WithKind, WithType, WithDsl, WithPluginEntrypoints, Call
  <2> QED BY <2>1, NothingEnds DEF DeclaredInv
<1>2. CASE HostRegisters
  <2>1. build' = 0 /\ results' = results
    BY <1>2 DEF HostRegisters
  <2> QED BY <2>1, NothingEnds DEF DeclaredInv
<1>3. CASE StartBuild
  BY <1>3, StartStands
<1>4. CASE FinishBuild
  BY <1>4, FinishStands
<1>5. CASE MergeRegistry
  BY <1>5, MergingStands
<1>6. CASE RegisterOne
  BY <1>6, RegisteringStands
<1>7. CASE ApplyConfig \/ ConfigPlugins \/ SelectPlugins \/ LoadPlugin \/ PluginRaises
  BY <1>7, StepStands
<1>8. CASE UNCHANGED vars
  <2>1. UNCHANGED <<builder, regs, todo, build, results>>
    BY <1>8 DEF vars
  <2>2. /\ Asked' = Asked /\ (PartsWork' <=> PartsWork) /\ Start' = Start
        /\ \A done, reg : Done(done, reg) => Done(done, reg)'
    BY <2>1, AskedIsKept
  <2>3. At("merge")' <=> At("merge")
    BY <2>1 DEF At
  <2>4. ASSUME build # 0 PROVE DeclaredInv'
    <3>1. PICK done \in Seq(Calls) :
            /\ done \o Ahead(todo) = Asked
            /\ IF At("merge") THEN done = << >> /\ regs[build] = Start ELSE Done(done, regs[build])
      BY <2>4 DEF DeclaredInv
    <3>2. IF At("merge")' THEN done = << >> /\ (regs[build])' = Start' ELSE Done(done, regs[build])'
      BY <2>1, <2>2, <2>3, <3>1
    <3>3. done \o Ahead(todo') = Asked'
      BY <2>1, <2>2, <3>1
    <3>4. (StepsWork(todo') <=> PartsWork') /\ MergeFirst(todo')
      BY <2>1, <2>2, <2>4 DEF DeclaredInv
    <3> QED BY <3>2, <3>3, <3>4 DEF DeclaredInv
  <2>5. ASSUME build = 0 PROVE DeclaredInv'
    BY <2>1, <2>5 DEF DeclaredInv
  <2> QED BY <2>1, <2>4, <2>5, NothingEnds
<1> QED BY <1>1, <1>2, <1>3, <1>4, <1>5, <1>6, <1>7, <1>8 DEF RegistryNext, Build

-----------------------------------------------------------------------------
(* The theorems.                                                           *)

\* The inductive invariant of a builder and its builds.
THEOREM RegistryInvariant == RegistrySpec => []RegistryInv
<1>1. RegistryInv /\ [RegistryNext]_vars => RegistryInv'
  <2>1. RegistryInv /\ UNCHANGED vars => RegistryInv'
    BY DEF vars, RegistryInv, RegistryTypeOK, TypesHaveKinds, MergeHasSource, NextResult
  <2> QED
    BY <2>1, ConfiguringIsGood, HostRegisteringIsGood, BuildingIsGood DEF RegistryNext
<1> QED
  BY InitIsGood, <1>1, PTL DEF RegistrySpec

\* Whatever is called and registered, every variable keeps its type: the
\* registries and the steps a build has left among them.
THEOREM RegistryTypeCorrect == RegistrySpec => []RegistryTypeOK
BY RegistryInvariant, PTL DEF RegistryInv

\* In every registry, of the host, copied, half-built or built, a type's kind
\* and its default driver are there (register_type, copy, _merge_registry).
THEOREM TypesAlwaysHaveKinds == RegistrySpec => []TypesHaveKinds
BY RegistryInvariant, PTL DEF RegistryInv

\* Two builds of a builder nobody called in between give the same, failing
\* ones included, whatever the host registers in the meantime
\* (fastapi/builder.py:74, plugins.py:24).
THEOREM BuildsRepeat == RegistrySpec => []BuildIsRepeatable
<1>1. RepeatInv => BuildIsRepeatable
  BY DEF RepeatInv
<1> QED BY RegistryInvariant, InitRepeats, NextRepeats, <1>1, PTL DEF RegistrySpec

\* A build returns if and only if every part it was asked to use works, its
\* registry and its settings can be built and every registration fits in with
\* those before it; and then the registry holds the defaults and the host's
\* entries, replaced or joined by exactly what was declared, in the order in
\* which it was declared, and the limit is the last one that was set
\* (fastapi/builder.py:74, _build_registry, _build_settings).
THEOREM BuildsAsDeclared == RegistrySpec => BuiltAsDeclared
<1>1. RegistryInit => DeclaredInv
  BY DEF RegistryInit, DeclaredInv
<1>2. RegistryInv /\ DeclaredInv /\ [RegistryNext]_vars => DeclaredInv' /\ AsDeclared
  BY NextStands
<1>3. AsDeclared => [AsDeclared]_vars
  OBVIOUS
<1> QED BY RegistryInvariant, <1>1, <1>2, PTL DEF RegistrySpec, BuiltAsDeclared, AsDeclared

\* The copy of the host's registry and its merge over what a build has begun
\* with raise in no state: neither names a kind that is not there.
MergesFit ==
  /\ MergeFits(Nothing, regs[Given])
  /\ At("merge") => MergeFits(regs[build], regs[builder.registry])

\* with_registry is always accepted, and so is what it was given when the
\* extension is built.
THEOREM MergesAlwaysFit == RegistrySpec => []MergesFit
<1>1. RegistryInv => MergesFit
  <2> SUFFICES ASSUME RegistryInv PROVE MergesFit
    OBVIOUS
  <2>1. \A id \in Registries : Good(regs[id])
    BY DEF RegistryInv, RegistryTypeOK, TypesHaveKinds, Good
  <2>2. MergeFits(Nothing, regs[Given])
    BY <2>1, CopyFits DEF Registries
  <2>3. ASSUME At("merge") PROVE MergeFits(regs[build], regs[builder.registry])
    <3>0. 1 \in DOMAIN todo /\ todo[1].step = "merge"
      BY <2>3 DEF At, RegistryInv, RegistryTypeOK
    <3>1. builder.registry \in Registries
      BY <3>0 DEF RegistryInv, MergeHasSource, RegistryTypeOK, Builders, Registries
    <3>2. build \in Registries
      BY <2>3 DEF At, RegistryInv, RegistryTypeOK, Registries
    <3> QED
      BY <2>1, <3>1, <3>2, MergingIsGood
  <2> QED
    BY <2>2, <2>3 DEF MergesFit
<1> QED
  BY RegistryInvariant, <1>1, PTL
=============================================================================
