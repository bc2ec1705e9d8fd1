------------------------------- MODULE SqlUrl -------------------------------
(***************************************************************************)
(* How a SQL connection becomes the URL SQLAlchemy gets: the bridge from a *)
(* legacy connection to a draft, the validation of a draft against the     *)
(* default registry, the choice of the driver's dialect and the options of *)
(* the URL.                                                                *)
(*                                                                         *)
(* Host, user, password and database are passed through and left out but   *)
(* for where they end up.  A text is empty exactly when it is None, except *)
(* the driver's name, where the code tells them apart.                     *)
(***************************************************************************)
EXTENDS Naturals

T == INSTANCE TLC

f @@ g == [x \in DOMAIN f \cup DOMAIN g |-> IF x \in DOMAIN f THEN f[x] ELSE g[x]]
x :> y == [z \in {x} |-> y]

CONSTANTS
  Seconds,    \* the timeouts a connection may ask for
  Cert,       \* a CA certificate
  Odbc,       \* the name of an ODBC driver
  None        \* Python's None

Types == {"postgres", "mysql", "clickhouse", "mssql", "oracle", "mongodb"}
LegacyTypes == Types \cup {"custom"}
Modes == {"sync", "async"}

\* DriverSpec of the default registry: the options the driver takes.
RegisteredDrivers ==
  [postgres |-> {"psycopg", "psycopg2", "asyncpg"}, mysql |-> {"pymysql", "aiomysql"},
   clickhouse |-> {"native", "http"}, mssql |-> {"pyodbc", "aioodbc"},
   oracle |-> {"oracledb"}, mongodb |-> {}]
DefaultDriver ==
  [postgres |-> "psycopg", mysql |-> "pymysql", clickhouse |-> "native",
   mssql |-> "pyodbc", oracle |-> "oracledb", mongodb |-> None]
TakesOptions(driver) == driver \in {"pyodbc", "aioodbc"}

DriverNames == UNION {RegisteredDrivers[t] : t \in Types} \cup {"unknown"}

\* The dialects of a type's drivers, <<sync, async>>.
DriverSpecs ==
  [postgres   |-> [psycopg  |-> <<"postgresql+psycopg", "postgresql+psycopg">>,
                   psycopg2 |-> <<"postgresql+psycopg2", None>>,
                   asyncpg  |-> <<None, "postgresql+asyncpg">>],
   clickhouse |-> [native |-> <<"clickhouse+native", None>>, http |-> <<"clickhouse+http", None>>],
   mysql      |-> [pymysql |-> <<"mysql+pymysql", None>>, aiomysql |-> <<None, "mysql+aiomysql">>],
   mssql      |-> [pyodbc |-> <<"mssql+pyodbc", None>>, aioodbc |-> <<None, "mssql+aioodbc">>],
   oracle     |-> [oracledb |-> <<"oracle+oracledb", None>>],
   mongodb    |-> "" :> <<"mongodb", None>>]

Settings ==
  [secure : BOOLEAN, verify : BOOLEAN, ca : {None, Cert}, connect : Seconds \cup {None},
   send_receive : Seconds \cup {None}, sync_request : Seconds \cup {None}]

\* A legacy connection: driver_name and settings, the flags possibly None.
LegacyConnections ==
  [type : LegacyTypes, driver_name : DriverNames \cup {Odbc, "", None},
   flags : {"given", "none"}, settings : Settings]

\* A draft: an instance name takes the place of the port.
Drafts ==
  [type : Types, driver : DriverNames \cup {"", None}, options : {None, Odbc},
   place : {"port", "instance"}, settings : Settings]

Failed(reason) == [failed |-> reason]
IsFailure(x) == "failed" \in DOMAIN x

-----------------------------------------------------------------------------
(* The bridge from a legacy connection                                     *)

AsyncDriverDefaults == [postgres |-> "asyncpg", mysql |-> "aiomysql"]

LegacyDriver(c, mode) ==
  IF c.type = "mssql" THEN IF mode = "async" THEN "aioodbc" ELSE "pyodbc"
  ELSE IF c.driver_name # None THEN c.driver_name
  ELSE CASE mode = "async" /\ c.type \in DOMAIN AsyncDriverDefaults -> AsyncDriverDefaults[c.type]
         [] c.type = "clickhouse" -> "http"
         [] OTHER -> None

\* to_runtime_draft: the draft carries the None flags, validation refuses them.
ToRuntimeDraft(c, mode) ==
  CASE c.type = "custom" -> Failed("wrong_type")
    [] c.type = "mssql" /\ c.driver_name = None -> Failed("driver_not_specified")
    [] OTHER -> [type |-> c.type, driver |-> LegacyDriver(c, mode),
                 options |-> IF c.type = "mssql" THEN c.driver_name ELSE None,
                 place |-> "port", flags |-> c.flags, settings |-> c.settings]

-----------------------------------------------------------------------------
(* ValidationService.validate and validate_driver_options                  *)

EffectiveDriver(draft) ==
  IF draft.driver \in {None, ""} THEN DefaultDriver[draft.type] ELSE draft.driver

PropertiesFit(draft) ==
  /\ draft.place = "instance" => draft.type = "mssql"
  /\ "flags" \in DOMAIN draft => draft.flags = "given"

OptionsFit(type, driver, options) ==
  IF driver = None THEN options = None
  ELSE /\ driver \in RegisteredDrivers[type]
       /\ TakesOptions(driver) <=> options # None

\* Mutant: a driver that takes no options is not looked up.
ValidateUnlisted(draft) ==
  LET driver == EffectiveDriver(draft) IN
  IF /\ PropertiesFit(draft)
     /\ TakesOptions(driver) <=> draft.options # None
  THEN [type |-> draft.type, driver |-> driver, options |-> draft.options,
        place |-> draft.place, settings |-> draft.settings]
  ELSE Failed("invalid")

Validate(draft) ==
  LET driver == EffectiveDriver(draft) IN
  IF /\ PropertiesFit(draft)
     /\ OptionsFit(draft.type, driver, draft.options)
  THEN [type |-> draft.type, driver |-> driver, options |-> draft.options,
        place |-> draft.place, settings |-> draft.settings]
  ELSE Failed("invalid")

-----------------------------------------------------------------------------
(* SQLConnector: the dialect                                               *)

\* The driver of a connection that names none; with psycopg installed.
ConnectorDefault(type) == IF type = "mongodb" THEN "" ELSE DefaultDriver[type]

\* _resolve_runtime_driver: an async connector falls back to the sync dialect,
\* a sync one has no other.
Runtime(connection, preferred) ==
  LET driver == IF connection.driver = None THEN ConnectorDefault(connection.type)
                ELSE connection.driver
      specs == DriverSpecs[connection.type]
  IN IF driver \notin DOMAIN specs THEN Failed("not_supported")
     ELSE LET on_loop == preferred = "async" /\ specs[driver][2] # None
              dialect == specs[driver][IF on_loop THEN 2 ELSE 1]
          IN IF dialect = None THEN Failed("not_supported")
             ELSE [driver |-> driver, dialect |-> dialect, use_async |-> on_loop]

-----------------------------------------------------------------------------
(* SQLConnector: the options of the URL, every value a text                *)

Flag(b) == IF b THEN "True" ELSE "False"
Option(key, value) == IF value = None THEN <<>> ELSE key :> T!ToString(value)
Where(condition, options) == IF condition THEN options ELSE <<>>

PostgresQuery(s, driver, use_async) ==
  Option("connect_timeout", s.connect) @@
  Where(s.secure, "sslmode" :> (IF s.verify THEN "verify-full" ELSE "require") @@
                  Where(use_async /\ driver = "asyncpg", "ssl" :> "True") @@
                  Option("sslrootcert", s.ca))

\* Mutant: the socket timeouts are given to the asynchronous driver too.
MySQLQueryBoth(s, use_async) ==
  Option("connect_timeout", s.connect) @@ Option("read_timeout", s.send_receive) @@
  Option("write_timeout", s.send_receive) @@ Where(s.secure, Option("ssl_ca", s.ca))

MySQLQuery(s, use_async) ==
  Option("connect_timeout", s.connect) @@
  Where(~use_async, Option("read_timeout", s.send_receive) @@
                    Option("write_timeout", s.send_receive)) @@
  Where(s.secure, Option("ssl_ca", s.ca))

Millis(seconds) == IF seconds = None THEN None ELSE seconds * 1000

MongoQuery(s) ==
  Option("connectTimeoutMS", Millis(s.connect)) @@
  Option("socketTimeoutMS", Millis(s.send_receive)) @@
  Where(s.secure, "tls" :> "True" @@ "tlsAllowInvalidCertificates" :> Flag(~s.verify) @@
                  Option("tlsCAFile", s.ca))

ClickHouseQuery(s, driver) ==
  IF driver = "native"
  THEN Where(s.secure, "secure" :> "True" @@ "verify" :> Flag(s.verify) @@
                       Option("ca_certs", s.ca)) @@
       Option("connect_timeout", s.connect) @@
       Option("sync_request_timeout", s.sync_request)
  ELSE "protocol" :> (IF s.secure THEN "https" ELSE "http") @@
       "verify" :> Flag(s.verify) @@
       Option("ca_certs", s.ca) @@ Option("timeout", s.connect)

MSSQLQuery(s, options) ==
  "driver" :> T!ToString(options) @@ Option("Connect Timeout", s.connect) @@
  "Encrypt" :> (IF s.secure THEN "yes" ELSE "no") @@
  Where(s.secure, "TrustServerCertificate" :> (IF s.verify THEN "no" ELSE "yes"))

OracleQuery(s) ==
  Option("tcp_connect_timeout", s.connect) @@
  Where(s.secure, "ssl_server_dn_match" :> Flag(s.verify) @@
                  Where(s.verify, Option("ssl_cert", s.ca))) @@
  "service_name" :> "database"

Query(connection, runtime) ==
  LET s == connection.settings IN
  CASE connection.type = "postgres" -> PostgresQuery(s, runtime.driver, runtime.use_async)
    [] connection.type = "mysql" -> MySQLQuery(s, runtime.use_async)
    [] connection.type = "mongodb" -> MongoQuery(s)
    [] connection.type = "clickhouse" -> ClickHouseQuery(s, runtime.driver)
    [] connection.type = "mssql" -> MSSQLQuery(s, connection.options)
    [] connection.type = "oracle" -> OracleQuery(s)

\* build_connection_url: only mongodb's is rendered, only oracle's names no
\* database, an instance replaces the port.
Url(connection, preferred) ==
  LET runtime == Runtime(connection, preferred) IN
  IF IsFailure(runtime) THEN runtime
  ELSE [dialect |-> runtime.dialect, use_async |-> runtime.use_async,
        place |-> connection.place, rendered |-> connection.type = "mongodb",
        database |-> connection.type # "oracle", query |-> Query(connection, runtime)]

-----------------------------------------------------------------------------
(* compat.url_builder: the dialect and options a legacy connection had     *)
(* before the bridge; nothing calls it any more.                           *)

LegacyDialects ==
  [psycopg |-> "postgresql+psycopg", psycopg2 |-> "postgresql+psycopg2",
   asyncpg |-> "postgresql+asyncpg", native |-> "clickhouse+native",
   http |-> "clickhouse+http", pymysql |-> "mysql+pymysql", aiomysql |-> "mysql+aiomysql",
   pyodbc |-> "mssql+pyodbc", aioodbc |-> "mssql+aioodbc", oracledb |-> "oracle+oracledb"]

AdapterTls(s) ==
  Where(s.secure, "sslmode" :> (IF s.verify THEN "verify-full" ELSE "require") @@
                  Option("sslrootcert", s.ca))
AdapterOdbc(s, odbc) ==
  "driver" :> T!ToString(odbc) @@ Option("Connect Timeout", s.connect) @@
  (IF s.secure
   THEN "Encrypt" :> "yes" @@ "TrustServerCertificate" :> (IF s.verify THEN "no" ELSE "yes")
   ELSE "Encrypt" :> "no")

\* None is no connection, no driver and no dialect.
ASSUME SqlAssumption ==
  /\ None \notin LegacyConnections
  /\ None \notin DriverNames \cup {"", "mongodb"}
  /\ \A driver \in DOMAIN LegacyDialects : None # LegacyDialects[driver]

\* to_query of the adapter DIALECTS gives the driver of type; the two of mssql
\* refuse an ODBC driver without a name.
AdapterQuery(type, driver, c) ==
  LET s == c.settings IN
  CASE driver = "asyncpg" -> AdapterTls(s) @@ Where(s.secure, "ssl" :> "True")
    [] driver \in {"psycopg", "psycopg2"} -> Option("connect_timeout", s.connect) @@ AdapterTls(s)
    [] driver = "pymysql" ->
         Option("connect_timeout", s.connect) @@ Where(s.secure, Option("ssl_ca", s.ca)) @@
         Option("read_timeout", s.send_receive) @@ Option("write_timeout", s.send_receive)
    [] driver = "aiomysql" ->
         Option("connect_timeout", s.connect) @@ Where(s.secure, Option("ssl_ca", s.ca))
    [] driver = "native" ->
         Where(s.secure, "secure" :> "True" @@ Option("ca_certs", s.ca) @@ "verify" :> Flag(s.verify)) @@
         Option("connect_timeout", s.connect) @@ Option("sync_request_timeout", s.sync_request)
    [] driver = "http" ->
         "protocol" :> (IF s.secure THEN "https" ELSE "http") @@ "verify" :> Flag(s.verify) @@
         Option("ca_certs", s.ca) @@ Option("timeout", s.connect)
    [] driver \in {"pyodbc", "aioodbc"} ->
         IF c.driver_name \in {None, ""} THEN Failed("driver_not_specified")
         ELSE AdapterOdbc(s, c.driver_name)
    [] driver = "oracledb" ->
         Option("tcp_connect_timeout", s.connect) @@
         Where(s.secure, "ssl_server_dn_match" :> Flag(s.verify)) @@
         Where(s.secure /\ s.verify, Option("ssl_cert", s.ca)) @@ "service_name" :> "database"
    [] type = "mongodb" ->
         Option("connectTimeoutMS", Millis(s.connect)) @@
         Option("socketTimeoutMS", Millis(s.send_receive)) @@
         Where(s.secure, "tls" :> "True" @@ Option("tlsCAFile", s.ca) @@
                         "tlsAllowInvalidCertificates" :> Flag(~s.verify))

-----------------------------------------------------------------------------
VARIABLES
  mode,        \* the mode the connector prefers
  legacy,      \* the legacy connection, None if the caller brings a draft
  draft,       \* the draft, None before the bridge
  connection,  \* the validated connection, None before the validation
  url          \* what the connector made of it, None before

sqlVars == <<mode, legacy, draft, connection, url>>

SqlInit ==
  /\ mode \in Modes
  /\ \/ legacy \in LegacyConnections /\ draft = None
     \/ legacy = None /\ draft \in Drafts
  /\ connection = None
  /\ url = None

\* to_runtime_validated, first half.
Bridge ==
  /\ legacy # None /\ draft = None
  /\ draft' = ToRuntimeDraft(legacy, mode)
  /\ UNCHANGED <<mode, legacy, connection, url>>

ValidateDraft ==
  /\ draft # None /\ ~IsFailure(draft) /\ connection = None
  /\ connection' = Validate(draft)
  /\ UNCHANGED <<mode, legacy, draft, url>>

BuildUrl ==
  /\ connection # None /\ ~IsFailure(connection) /\ url = None
  /\ url' = Url(connection, mode)
  /\ UNCHANGED <<mode, legacy, draft, connection>>

SqlNext == Bridge \/ ValidateDraft \/ BuildUrl
SqlSpec == SqlInit /\ [][SqlNext]_sqlVars

-----------------------------------------------------------------------------
Refused == \E x \in {draft, connection, url} : x # None /\ IsFailure(x)
Built == url # None /\ ~IsFailure(url)

\* A driver that has no dialect for a connector that prefers mode.
WrongMode(driver) ==
  mode = "sync" /\ driver \in {"asyncpg", "aiomysql", "aioodbc"}

\* An ODBC driver whose name is the empty text.
UnnamedOdbc == legacy.type = "mssql" /\ legacy.driver_name = ""

\* The bridge, the validation and the connector (compat/runtime_bridge.py:98,
\* connectors/sql.py:314) together give a legacy connection the dialect and the
\* options url_builder.py gave it, but for two of them: asyncpg gets a timeout
\* it did not get, and an ODBC driver whose name is the empty text, the one
\* thing url_builder.py:132 refused and this path does not (the bridge asks only
\* whether there is a name), gets a URL with an empty driver.  Nothing is
\* refused but what has no meaning there: a flag that is None, a driver of
\* another type or of the wrong mode, mssql without an ODBC driver.
LegacyUrlUnchanged ==
  legacy # None =>
    /\ Built =>
         LET before == AdapterQuery(legacy.type, connection.driver, legacy) IN
         /\ url.dialect = IF legacy.type = "mongodb" THEN "mongodb"
                          ELSE LegacyDialects[connection.driver]
         /\ IsFailure(before) <=> UnnamedOdbc
         /\ url.query = IF UnnamedOdbc THEN AdapterOdbc(legacy.settings, "")
                        ELSE before @@ Where(connection.driver = "asyncpg",
                               Option("connect_timeout", legacy.settings.connect))
         /\ legacy.type # "mssql" /\ legacy.driver_name \notin {None, ""} =>
              connection.driver = legacy.driver_name
    /\ Refused =>
         \/ legacy.type = "custom"
         \/ legacy.flags = "none"
         \/ legacy.type = "mssql" /\ legacy.driver_name = None
         \/ /\ legacy.type # "mssql"
            /\ legacy.driver_name \notin RegisteredDrivers[legacy.type] \cup {None, ""}
         \/ WrongMode(legacy.driver_name)

\* The drivers the default registry lets through the validation
\* (registry/defaults.py:34) are those the connector has a dialect for
\* (connectors/sql.py:263): a connection that was accepted gets a URL, and an
\* async connector runs it on the loop only if the driver is asynchronous.
AcceptedIsBuildable ==
  url # None =>
    /\ IsFailure(url) => WrongMode(connection.driver)
    /\ Built /\ url.use_async =>
         connection.driver \in {"psycopg", "asyncpg", "aiomysql", "aioodbc"}
=============================================================================
