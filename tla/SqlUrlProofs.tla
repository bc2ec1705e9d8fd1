---------------------------- MODULE SqlUrlProofs ----------------------------
(***************************************************************************)
(* A legacy connection gets through the bridge, the validation and the     *)
(* connector the URL it had before, whatever timeouts, certificate and     *)
(* ODBC driver it names.                                                   *)
(***************************************************************************)
EXTENDS SqlUrl, TLAPS

-----------------------------------------------------------------------------
(* Options: what a chain of merges is does not depend on its order.        *)

LEMMA Single == \A k, v : DOMAIN (k :> v) = {k} /\ (k :> v)[k] = v
BY DEF :>

LEMMA Assoc == ASSUME NEW f, NEW g, NEW h PROVE f @@ g @@ h = f @@ (g @@ h)
<1>1. \A x : x \in DOMAIN (f @@ g @@ h) <=> x \in DOMAIN f \cup DOMAIN g \cup DOMAIN h
  BY DEF @@
<1>2. \A x : x \in DOMAIN (f @@ (g @@ h)) <=> x \in DOMAIN f \cup DOMAIN g \cup DOMAIN h
  BY DEF @@
<1>3. \A x \in DOMAIN (f @@ g @@ h) : (f @@ g @@ h)[x] = (f @@ (g @@ h))[x]
  BY DEF @@
<1>4. \A a, b : a @@ b = [x \in DOMAIN (a @@ b) |-> (a @@ b)[x]]
  BY DEF @@
<1> QED BY <1>1, <1>2, <1>3, <1>4

LEMMA Comm == ASSUME NEW f, NEW g, DOMAIN f \cap DOMAIN g = {} PROVE f @@ g = g @@ f
BY DEF @@

LEMMA Swap ==
  ASSUME NEW f, NEW g, NEW h, DOMAIN g \cap DOMAIN h = {}
  PROVE  f @@ g @@ h = f @@ h @@ g
BY Assoc, Comm

\* Merging no options changes nothing.
LEMMA MergeNone ==
  /\ \A f, g : f @@ g @@ << >> = f @@ g
  /\ \A k, v : (k :> v) @@ << >> = k :> v
  /\ \A k, v : Option(k, v) @@ << >> = Option(k, v) /\ << >> @@ Option(k, v) = Option(k, v)
  /\ << >> @@ << >> = << >>
<1>1. \A f, g : f @@ g @@ << >> = f @@ g
  BY DEF @@
<1>2. \A k, v : (k :> v) @@ << >> = k :> v
  BY DEF @@, :>
<1>3. \A k, v : Option(k, v) @@ << >> = Option(k, v) /\ << >> @@ Option(k, v) = Option(k, v)
  BY DEF @@, :>, Option
<1>4. << >> @@ << >> = << >>
  BY DEF @@
<1> QED BY <1>1, <1>2, <1>3, <1>4

LEMMA OptionDomain == \A k, v : DOMAIN Option(k, v) \subseteq {k}
BY DEF Option, :>

-----------------------------------------------------------------------------
(* Each driver: the connector's options against the adapter's.             *)

LEMMA WhereIs ==
  ASSUME NEW condition
  PROVE  /\ condition => \A options : Where(condition, options) = options
         /\ ~condition => \A options : Where(condition, options) = << >>
BY Zenon DEF Where

\* The tables, entry by entry.
LEMMA Tables ==
  /\ RegisteredDrivers["postgres"] = {"psycopg", "psycopg2", "asyncpg"}
  /\ RegisteredDrivers["mysql"] = {"pymysql", "aiomysql"}
  /\ RegisteredDrivers["clickhouse"] = {"native", "http"}
  /\ RegisteredDrivers["mssql"] = {"pyodbc", "aioodbc"}
  /\ RegisteredDrivers["oracle"] = {"oracledb"}
  /\ RegisteredDrivers["mongodb"] = {}
  /\ DefaultDriver["postgres"] = "psycopg"
  /\ DefaultDriver["mysql"] = "pymysql"
  /\ DefaultDriver["clickhouse"] = "native"
  /\ DefaultDriver["mssql"] = "pyodbc"
  /\ DefaultDriver["oracle"] = "oracledb"
  /\ DefaultDriver["mongodb"] = None
BY DEF RegisteredDrivers, DefaultDriver

LEMMA NoneIsNoText ==
  /\ None \notin {"", "mongodb"}
  /\ \A type \in Types : None \notin RegisteredDrivers[type]
  /\ None \notin {"psycopg", "psycopg2", "asyncpg", "pymysql", "aiomysql", "native", "http",
                 "pyodbc", "aioodbc", "oracledb"}
<1>1. None \notin {"", "mongodb"} /\ \A type \in Types : None \notin RegisteredDrivers[type]
  BY SqlAssumption DEF DriverNames
<1> QED BY <1>1, Tables DEF Types

LEMMA PsycopgOptions ==
  ASSUME NEW s \in Settings, NEW driver \in {"psycopg", "psycopg2"}, NEW use_async \in BOOLEAN,
         NEW c, c.settings = s
  PROVE  PostgresQuery(s, driver, use_async) = AdapterQuery("postgres", driver, c)
<1>1. Where(use_async /\ driver = "asyncpg", "ssl" :> "True") = << >>
  BY DEF Where
<1>2. \A k, v, g : (k :> v) @@ << >> @@ g = (k :> v) @@ g
  BY MergeNone
<1>3. PostgresQuery(s, driver, use_async) = Option("connect_timeout", s.connect) @@ AdapterTls(s)
  BY <1>1, <1>2 DEF PostgresQuery, AdapterTls
<1> QED BY <1>3 DEF AdapterQuery

LEMMA AsyncpgOptions ==
  ASSUME NEW s \in Settings, NEW c, c.settings = s
  PROVE  PostgresQuery(s, "asyncpg", TRUE) =
           AdapterQuery("postgres", "asyncpg", c) @@ Option("connect_timeout", s.connect)
<1> DEFINE timeout == Option("connect_timeout", s.connect)
           sslmode == "sslmode" :> (IF s.verify THEN "verify-full" ELSE "require")
           ssl == "ssl" :> "True"
           root == Option("sslrootcert", s.ca)
<1>1. AdapterQuery("postgres", "asyncpg", c) = AdapterTls(s) @@ Where(s.secure, ssl)
  BY DEF AdapterQuery
<1>2. PostgresQuery(s, "asyncpg", TRUE) = timeout @@ Where(s.secure, sslmode @@ ssl @@ root)
  BY DEF PostgresQuery, Where
<1>3. AdapterTls(s) = Where(s.secure, sslmode @@ root)
  BY DEF AdapterTls
<1>4. /\ DOMAIN timeout \subseteq {"connect_timeout"} /\ DOMAIN root \subseteq {"sslrootcert"}
      /\ DOMAIN sslmode = {"sslmode"} /\ DOMAIN ssl = {"ssl"}
  BY Single, OptionDomain
<1>5. timeout @@ << >> = timeout /\ << >> @@ << >> = << >> /\ << >> @@ timeout = timeout
  BY MergeNone
<1> HIDE DEF timeout, sslmode, ssl, root
<1>6. CASE ~s.secure
  <2>1. /\ Where(s.secure, ssl) = << >>
        /\ Where(s.secure, sslmode @@ ssl @@ root) = << >>
        /\ Where(s.secure, sslmode @@ root) = << >>
    BY <1>6, WhereIs, Zenon
  <2> QED BY <1>1, <1>2, <1>3, <1>5, <2>1 DEF timeout
<1>7. CASE s.secure
  <2>0. DOMAIN ssl \cap DOMAIN root = {}
    BY <1>4
  <2>1. sslmode @@ ssl @@ root = sslmode @@ root @@ ssl
    BY <2>0, Swap, Zenon
  <2>2. DOMAIN (sslmode @@ root @@ ssl) = DOMAIN sslmode \cup DOMAIN root \cup DOMAIN ssl
    BY DEF @@
  <2>3. DOMAIN timeout \cap DOMAIN (sslmode @@ root @@ ssl) = {}
    BY <1>4, <2>2
  <2>4. timeout @@ (sslmode @@ root @@ ssl) = sslmode @@ root @@ ssl @@ timeout
    BY <2>3, Comm, Zenon
  <2>5. /\ Where(s.secure, ssl) = ssl
        /\ Where(s.secure, sslmode @@ ssl @@ root) = sslmode @@ ssl @@ root
        /\ Where(s.secure, sslmode @@ root) = sslmode @@ root
    BY <1>7, WhereIs, Zenon
  <2> QED BY <1>1, <1>2, <1>3, <2>1, <2>4, <2>5 DEF timeout
<1> QED BY <1>6, <1>7 DEF Settings, timeout

LEMMA MySQLOptions ==
  ASSUME NEW s \in Settings, NEW c, c.settings = s
  PROVE  /\ MySQLQuery(s, FALSE) = AdapterQuery("mysql", "pymysql", c)
         /\ MySQLQuery(s, TRUE) = AdapterQuery("mysql", "aiomysql", c)
<1> DEFINE timeout == Option("connect_timeout", s.connect)
           reads == Option("read_timeout", s.send_receive)
           writes == Option("write_timeout", s.send_receive)
           ca == Where(s.secure, Option("ssl_ca", s.ca))
<1>1. /\ AdapterQuery("mysql", "pymysql", c) = timeout @@ ca @@ reads @@ writes
      /\ AdapterQuery("mysql", "aiomysql", c) = timeout @@ ca
  BY DEF AdapterQuery
<1>2. /\ MySQLQuery(s, FALSE) = timeout @@ (reads @@ writes) @@ ca
      /\ MySQLQuery(s, TRUE) = timeout @@ << >> @@ ca
  BY DEF MySQLQuery, Where
<1>3. timeout @@ << >> = timeout
  BY MergeNone
<1>4. DOMAIN (reads @@ writes) \cap DOMAIN ca = {}
  <2>1. DOMAIN reads \subseteq {"read_timeout"} /\ DOMAIN writes \subseteq {"write_timeout"}
    BY OptionDomain
  <2>2. DOMAIN ca \subseteq {"ssl_ca"}
    <3>1. DOMAIN Option("ssl_ca", s.ca) \subseteq {"ssl_ca"}
      BY OptionDomain
    <3> QED BY <3>1 DEF Where
  <2> HIDE DEF reads, writes, ca
  <2>3. DOMAIN (reads @@ writes) = DOMAIN reads \cup DOMAIN writes
    BY DEF @@
  <2> HIDE DEF reads, writes, ca
  <2>4. \A k \in DOMAIN (reads @@ writes) : k \in {"read_timeout", "write_timeout"}
    BY <2>1, <2>3
  <2> QED BY <2>2, <2>4
<1> HIDE DEF timeout, reads, writes, ca
<1>5. timeout @@ (reads @@ writes) @@ ca = timeout @@ ca @@ (reads @@ writes)
  BY <1>4, Swap
<1> DEFINE ahead == timeout @@ ca
<1>6. ahead @@ (reads @@ writes) = ahead @@ reads @@ writes
  BY Assoc
<1> QED BY <1>1, <1>2, <1>3, <1>5, <1>6

LEMMA ClickHouseOptions ==
  ASSUME NEW s \in Settings, NEW c, c.settings = s
  PROVE  \A driver \in {"native", "http"} :
           ClickHouseQuery(s, driver) = AdapterQuery("clickhouse", driver, c)
<1> DEFINE secure == "secure" :> "True"
           verify == "verify" :> Flag(s.verify)
           ca == Option("ca_certs", s.ca)
<1>1. secure @@ verify @@ ca = secure @@ ca @@ verify
  <2>1. DOMAIN verify = {"verify"} /\ DOMAIN ca \subseteq {"ca_certs"}
    BY Single, OptionDomain
  <2>2. DOMAIN verify \cap DOMAIN ca = {}
    BY <2>1
  <2> QED BY <2>2, Swap
<1>2. ClickHouseQuery(s, "native") = AdapterQuery("clickhouse", "native", c)
  BY <1>1 DEF ClickHouseQuery, AdapterQuery
<1>3. ClickHouseQuery(s, "http") = AdapterQuery("clickhouse", "http", c)
  BY DEF ClickHouseQuery, AdapterQuery
<1> QED BY <1>2, <1>3

\* Named or not: the adapters refuse an ODBC driver without a name, the
\* connector does not.
LEMMA MSSQLOptions ==
  ASSUME NEW s \in Settings, NEW odbc
  PROVE  MSSQLQuery(s, odbc) = AdapterOdbc(s, odbc)
<1> DEFINE first == "driver" :> T!ToString(odbc) @@ Option("Connect Timeout", s.connect)
           encrypt(b) == "Encrypt" :> b
           trust == "TrustServerCertificate" :> (IF s.verify THEN "no" ELSE "yes")
<1>1. AdapterOdbc(s, odbc) =
        first @@ (IF s.secure THEN encrypt("yes") @@ trust ELSE encrypt("no"))
  BY DEF AdapterOdbc
<1>2. MSSQLQuery(s, odbc) =
        first @@ encrypt(IF s.secure THEN "yes" ELSE "no") @@ Where(s.secure, trust)
  BY DEF MSSQLQuery
<1>3. s.secure \in BOOLEAN
  BY DEF Settings
<1> HIDE DEF first, encrypt, trust
<1>4. CASE s.secure = TRUE
  <2>1. first @@ encrypt("yes") @@ trust = first @@ (encrypt("yes") @@ trust)
    BY Assoc
  <2> QED BY <1>1, <1>2, <1>4, <2>1 DEF Where
<1>5. CASE s.secure = FALSE
  <2>1. first @@ encrypt("no") @@ << >> = first @@ encrypt("no")
    BY MergeNone
  <2> QED BY <1>1, <1>2, <1>5, <2>1 DEF Where
<1> QED BY <1>3, <1>4, <1>5

LEMMA OracleOptions ==
  ASSUME NEW s \in Settings, NEW c, c.settings = s
  PROVE  OracleQuery(s) = AdapterQuery("oracle", "oracledb", c)
<1> DEFINE timeout == Option("tcp_connect_timeout", s.connect)
           match == "ssl_server_dn_match" :> Flag(s.verify)
           cert == Where(s.verify, Option("ssl_cert", s.ca))
           name == "service_name" :> "database"
<1>1. OracleQuery(s) = timeout @@ Where(s.secure, match @@ cert) @@ name
  BY DEF OracleQuery
<1>2. AdapterQuery("oracle", "oracledb", c) =
        timeout @@ Where(s.secure, match) @@
        Where(s.secure /\ s.verify, Option("ssl_cert", s.ca)) @@ name
  BY DEF AdapterQuery
<1>3. s.secure \in BOOLEAN /\ s.verify \in BOOLEAN
  BY DEF Settings
<1>4. Where(s.secure /\ s.verify, Option("ssl_cert", s.ca)) = IF s.secure THEN cert ELSE << >>
  BY <1>3 DEF Where
<1>5. CASE s.secure = TRUE
  <2>1. timeout @@ (match @@ cert) = timeout @@ match @@ cert
    BY Assoc
  <2> HIDE DEF timeout, match, cert, name
  <2> QED BY <1>1, <1>2, <1>4, <1>5, <2>1 DEF Where
<1>6. CASE s.secure = FALSE
  <2>1. timeout @@ << >> = timeout
    BY MergeNone
  <2> HIDE DEF timeout, match, cert, name
  <2> QED BY <1>1, <1>2, <1>4, <1>6, <2>1 DEF Where
<1> QED BY <1>3, <1>5, <1>6

LEMMA MongoOptions ==
  ASSUME NEW s \in Settings, NEW c, c.settings = s
  PROVE  MongoQuery(s) = AdapterQuery("mongodb", None, c)
<1> DEFINE tls == "tls" :> "True"
           invalid == "tlsAllowInvalidCertificates" :> Flag(~s.verify)
           ca == Option("tlsCAFile", s.ca)
<1>1. tls @@ invalid @@ ca = tls @@ ca @@ invalid
  <2>1. DOMAIN invalid = {"tlsAllowInvalidCertificates"} /\ DOMAIN ca \subseteq {"tlsCAFile"}
    BY Single, OptionDomain
  <2>2. DOMAIN invalid \cap DOMAIN ca = {}
    BY <2>1
  <2> QED BY <2>2, Swap
<1> QED BY <1>1, NoneIsNoText DEF MongoQuery, AdapterQuery

-----------------------------------------------------------------------------
(* The pipeline, stage by stage.                                           *)

\* What a connection that was accepted has for a driver.
Registered(type, driver) ==
  IF type = "mongodb" THEN driver = None ELSE driver \in RegisteredDrivers[type]

AsyncOnly == {"asyncpg", "aiomysql", "aioodbc"}

LEMMA TypesOfDrivers ==
  ASSUME NEW type \in Types
  PROVE  /\ type # "mongodb" => DefaultDriver[type] \in RegisteredDrivers[type]
         /\ \A driver \in RegisteredDrivers[type] :
              /\ driver \notin {None, ""}
              /\ TakesOptions(driver) <=> type = "mssql"
<1>1. type # "mongodb" => DefaultDriver[type] \in RegisteredDrivers[type]
  BY Tables DEF Types
<1>2. ASSUME NEW driver \in RegisteredDrivers[type]
      PROVE  /\ driver # ""
             /\ TakesOptions(driver) <=> type = "mssql"
  BY Tables DEF Types, TakesOptions
<1> QED BY <1>1, <1>2, NoneIsNoText

LEMMA DefaultsAreSync == \A type \in Types : DefaultDriver[type] \notin AsyncOnly
BY Tables, NoneIsNoText DEF Types, AsyncOnly

LEMMA Validated ==
  ASSUME NEW d, d.type \in Types
  PROVE  LET v == Validate(d)
             driver == EffectiveDriver(d)
         IN  /\ IsFailure(v) <=> ~(PropertiesFit(d) /\ OptionsFit(d.type, driver, d.options))
             /\ ~IsFailure(v) =>
                  /\ v.type = d.type /\ v.driver = driver /\ v.options = d.options
                  /\ v.settings = d.settings
                  /\ Registered(d.type, driver)
<1> DEFINE driver == EffectiveDriver(d)
<1>1. OptionsFit(d.type, driver, d.options) => Registered(d.type, driver)
  <2>1. CASE d.type = "mongodb"
    BY <2>1, Tables DEF OptionsFit, Registered
  <2>2. CASE d.type # "mongodb"
    <3>1. driver # None
      BY <2>2, TypesOfDrivers DEF EffectiveDriver
    <3> QED BY <2>2, <3>1 DEF OptionsFit, Registered
  <2> QED BY <2>1, <2>2
<1> QED BY <1>1 DEF Validate, IsFailure, Failed

\* A driver's entry in DriverSpecs: the dialect the legacy table has, as the
\* synchronous or the asynchronous one.
DialectFits(specs, key, driver, dialect) ==
  /\ key \in DOMAIN specs
  /\ specs[key][1] = IF driver \in AsyncOnly THEN None ELSE dialect
  /\ specs[key][2] = IF driver \in {"psycopg"} \cup AsyncOnly THEN dialect ELSE None
  /\ dialect # None

Key(type, driver) == IF type = "mongodb" THEN "" ELSE driver
Dialect(type, driver) == IF type = "mongodb" THEN "mongodb" ELSE LegacyDialects[driver]

LEMMA DialectsFit ==
  ASSUME NEW type \in Types, NEW driver, Registered(type, driver)
  PROVE  DialectFits(DriverSpecs[type], Key(type, driver), driver, Dialect(type, driver))
<1> DEFINE Fits(t) == \A d \in RegisteredDrivers[t] : DialectFits(DriverSpecs[t], d, d, LegacyDialects[d])
<1>1. DialectFits(DriverSpecs["mongodb"], "", None, "mongodb")
  <2>1. /\ DOMAIN DriverSpecs["mongodb"] = {""}
        /\ DriverSpecs["mongodb"][""] = <<"mongodb", None>>
    BY Single DEF DriverSpecs
  <2>2. None \notin {"psycopg"} \cup AsyncOnly /\ None # "mongodb"
    BY NoneIsNoText DEF AsyncOnly
  <2>3. <<"mongodb", None>>[1] = "mongodb" /\ <<"mongodb", None>>[2] = None
    OBVIOUS
  <2> QED BY <2>1, <2>2, <2>3 DEF DialectFits
<1>2. Fits("postgres")
  <2>1. /\ DOMAIN DriverSpecs["postgres"] = {"psycopg", "psycopg2", "asyncpg"}
        /\ DriverSpecs["postgres"]["psycopg"] = <<"postgresql+psycopg", "postgresql+psycopg">>
        /\ DriverSpecs["postgres"]["psycopg2"] = <<"postgresql+psycopg2", None>>
        /\ DriverSpecs["postgres"]["asyncpg"] = <<None, "postgresql+asyncpg">>
    BY DEF DriverSpecs
  <2>2. /\ None \notin {"postgresql+psycopg", "postgresql+psycopg2", "postgresql+asyncpg"}
        /\ LegacyDialects["psycopg"] = "postgresql+psycopg"
        /\ LegacyDialects["psycopg2"] = "postgresql+psycopg2"
        /\ LegacyDialects["asyncpg"] = "postgresql+asyncpg"
    BY SqlAssumption DEF LegacyDialects
  <2> QED BY <2>1, <2>2, Tables DEF DialectFits, AsyncOnly
<1>3. Fits("mysql")
  <2>1. /\ DOMAIN DriverSpecs["mysql"] = {"pymysql", "aiomysql"}
        /\ DriverSpecs["mysql"]["pymysql"] = <<"mysql+pymysql", None>>
        /\ DriverSpecs["mysql"]["aiomysql"] = <<None, "mysql+aiomysql">>
    BY DEF DriverSpecs
  <2>2. /\ None \notin {"mysql+pymysql", "mysql+aiomysql"}
        /\ LegacyDialects["pymysql"] = "mysql+pymysql"
        /\ LegacyDialects["aiomysql"] = "mysql+aiomysql"
    BY SqlAssumption DEF LegacyDialects
  <2> QED BY <2>1, <2>2, Tables DEF DialectFits, AsyncOnly
<1>4. Fits("clickhouse")
  <2>1. /\ DOMAIN DriverSpecs["clickhouse"] = {"native", "http"}
        /\ DriverSpecs["clickhouse"]["native"] = <<"clickhouse+native", None>>
        /\ DriverSpecs["clickhouse"]["http"] = <<"clickhouse+http", None>>
    BY DEF DriverSpecs
  <2>2. /\ None \notin {"clickhouse+native", "clickhouse+http"}
        /\ LegacyDialects["native"] = "clickhouse+native"
        /\ LegacyDialects["http"] = "clickhouse+http"
    BY SqlAssumption DEF LegacyDialects
  <2> QED BY <2>1, <2>2, Tables DEF DialectFits, AsyncOnly
<1>5. Fits("mssql")
  <2>1. /\ DOMAIN DriverSpecs["mssql"] = {"pyodbc", "aioodbc"}
        /\ DriverSpecs["mssql"]["pyodbc"] = <<"mssql+pyodbc", None>>
        /\ DriverSpecs["mssql"]["aioodbc"] = <<None, "mssql+aioodbc">>
    BY DEF DriverSpecs
  <2>2. /\ None \notin {"mssql+pyodbc", "mssql+aioodbc"}
        /\ LegacyDialects["pyodbc"] = "mssql+pyodbc"
        /\ LegacyDialects["aioodbc"] = "mssql+aioodbc"
    BY SqlAssumption DEF LegacyDialects
  <2> QED BY <2>1, <2>2, Tables DEF DialectFits, AsyncOnly
<1>6. Fits("oracle")
  <2>1. /\ DOMAIN DriverSpecs["oracle"] = {"oracledb"}
        /\ DriverSpecs["oracle"]["oracledb"] = <<"oracle+oracledb", None>>
    BY DEF DriverSpecs
  <2>2. /\ None \notin {"oracle+oracledb"}
        /\ LegacyDialects["oracledb"] = "oracle+oracledb"
    BY SqlAssumption DEF LegacyDialects
  <2> QED BY <2>1, <2>2, Tables DEF DialectFits, AsyncOnly
<1> QED BY <1>1, <1>2, <1>3, <1>4, <1>5, <1>6 DEF Types, Registered, Key, Dialect

\* The dialect of a connection: the one the legacy table has for its driver,
\* and none if only an asynchronous one exists for a synchronous connector.
LEMMA RuntimeOf ==
  ASSUME NEW v, v.type \in Types, Registered(v.type, v.driver), NEW m \in Modes
  PROVE  LET r == Runtime(v, m)
         IN  /\ IsFailure(r) <=> m = "sync" /\ v.driver \in AsyncOnly
             /\ ~IsFailure(r) =>
                  /\ r.driver = Key(v.type, v.driver)
                  /\ r.dialect = Dialect(v.type, v.driver)
                  /\ r.use_async = (m = "async" /\ v.driver \in {"psycopg"} \cup AsyncOnly)
<1> DEFINE specs == DriverSpecs[v.type]
           key == Key(v.type, v.driver)
           dialect == Dialect(v.type, v.driver)
           r == Runtime(v, m)
           OnLoop == m = "async" /\ v.driver \in {"psycopg"} \cup AsyncOnly
<1>1. DialectFits(specs, key, v.driver, dialect)
  BY DialectsFit
<1>2. (IF v.driver = None THEN ConnectorDefault(v.type) ELSE v.driver) = key
  <2>1. v.type # "mongodb" => v.driver # None
    BY TypesOfDrivers DEF Registered
  <2>2. v.type = "mongodb" => v.driver = None
    BY DEF Registered
  <2> QED BY <2>1, <2>2 DEF ConnectorDefault, Key
<1> HIDE DEF key, dialect, specs
<1>3. /\ key \in DOMAIN specs /\ dialect # None
      /\ v.driver \in AsyncOnly => specs[key][1] = None
      /\ v.driver \notin AsyncOnly => specs[key][1] = dialect
      /\ v.driver \in {"psycopg"} \cup AsyncOnly => specs[key][2] = dialect
      /\ v.driver \notin {"psycopg"} \cup AsyncOnly => specs[key][2] = None
  BY <1>1 DEF DialectFits
<1>4. /\ m = "async" /\ specs[key][2] # None =>
           r = [driver |-> key, dialect |-> specs[key][2], use_async |-> TRUE]
      /\ ~(m = "async" /\ specs[key][2] # None) /\ specs[key][1] # None =>
           r = [driver |-> key, dialect |-> specs[key][1], use_async |-> FALSE]
      /\ ~(m = "async" /\ specs[key][2] # None) /\ specs[key][1] = None =>
           r = Failed("not_supported")
  <2>1. key \in DOMAIN specs
    BY <1>3
  <2>2. CASE m = "async" /\ specs[key][2] # None
    BY <1>2, <2>1, <2>2 DEF Runtime, specs
  <2>3. CASE ~(m = "async" /\ specs[key][2] # None)
    BY <1>2, <2>1, <2>3 DEF Runtime, specs
  <2> QED BY <2>2, <2>3
<1> HIDE DEF r
<1>5. CASE OnLoop
  <2>1. m = "async" /\ specs[key][2] = dialect /\ dialect # None
    BY <1>3, <1>5
  <2>2. r = [driver |-> key, dialect |-> dialect, use_async |-> TRUE]
    BY <1>4, <2>1
  <2>3. ~IsFailure(r) /\ r.driver = key /\ r.dialect = dialect /\ r.use_async = TRUE
    BY <2>2 DEF IsFailure
  <2>4. OnLoop = TRUE
    BY <1>5, Zenon
  <2> QED BY <2>1, <2>3, <2>4 DEF r, key, dialect
<1>6. CASE ~OnLoop /\ v.driver \notin AsyncOnly
  <2>1. r = [driver |-> key, dialect |-> dialect, use_async |-> FALSE]
    BY <1>3, <1>4, <1>6
  <2>2. ~IsFailure(r) /\ r.driver = key /\ r.dialect = dialect /\ r.use_async = FALSE
    BY <2>1 DEF IsFailure
  <2>3. OnLoop = FALSE
    BY <1>6, Zenon
  <2> QED BY <1>6, <2>2, <2>3 DEF r, key, dialect
<1>7. CASE ~OnLoop /\ v.driver \in AsyncOnly
  <2>1. m = "sync"
    BY <1>7 DEF Modes
  <2>2. r = Failed("not_supported")
    BY <1>3, <1>4, <1>7, <2>1
  <2> QED BY <1>7, <2>1, <2>2 DEF IsFailure, Failed, r
<1> QED BY <1>5, <1>6, <1>7

LEMMA UrlOf ==
  ASSUME NEW v, NEW m
  PROVE  LET r == Runtime(v, m)
             u == Url(v, m)
         IN  /\ IsFailure(u) <=> IsFailure(r)
             /\ ~IsFailure(u) =>
                  /\ u.dialect = r.dialect /\ u.use_async = r.use_async
                  /\ u.query = Query(v, r)
BY DEF Url, IsFailure

\* No query is changed by merging nothing into it.
LEMMA QueriesMerge ==
  ASSUME NEW s, NEW use_async \in BOOLEAN
  PROVE  /\ \A driver : PostgresQuery(s, driver, use_async) @@ << >> = PostgresQuery(s, driver, use_async)
         /\ MySQLQuery(s, use_async) @@ << >> = MySQLQuery(s, use_async)
         /\ MongoQuery(s) @@ << >> = MongoQuery(s)
         /\ \A driver : ClickHouseQuery(s, driver) @@ << >> = ClickHouseQuery(s, driver)
         /\ \A options : MSSQLQuery(s, options) @@ << >> = MSSQLQuery(s, options)
         /\ OracleQuery(s) @@ << >> = OracleQuery(s)
<1>1. \A driver : PostgresQuery(s, driver, use_async) @@ << >> = PostgresQuery(s, driver, use_async)
  BY MergeNone DEF PostgresQuery
<1>2. MySQLQuery(s, use_async) @@ << >> = MySQLQuery(s, use_async)
  BY MergeNone DEF MySQLQuery
<1>3. MongoQuery(s) @@ << >> = MongoQuery(s)
  BY MergeNone DEF MongoQuery
<1>4. \A driver : ClickHouseQuery(s, driver) @@ << >> = ClickHouseQuery(s, driver)
  BY MergeNone DEF ClickHouseQuery
<1>5. \A options : MSSQLQuery(s, options) @@ << >> = MSSQLQuery(s, options)
  BY MergeNone DEF MSSQLQuery
<1>6. OracleQuery(s) @@ << >> = OracleQuery(s)
  BY MergeNone DEF OracleQuery
<1> QED BY <1>1, <1>2, <1>3, <1>4, <1>5, <1>6

\* No option is called "failed": a query is no refusal.
LEMMA QueriesAreNone ==
  ASSUME NEW s, NEW use_async \in BOOLEAN
  PROVE  /\ \A driver : ~IsFailure(PostgresQuery(s, driver, use_async))
         /\ ~IsFailure(MySQLQuery(s, use_async))
         /\ ~IsFailure(MongoQuery(s))
         /\ \A driver : ~IsFailure(ClickHouseQuery(s, driver))
         /\ \A options : ~IsFailure(AdapterOdbc(s, options))
         /\ ~IsFailure(OracleQuery(s))
<1>1. \A f, g : IsFailure(f @@ g) <=> IsFailure(f) \/ IsFailure(g)
  BY DEF IsFailure, @@
<1>2. \A k, v : k # "failed" => ~IsFailure(k :> v) /\ ~IsFailure(Option(k, v))
  <2>1. ASSUME NEW k, NEW v, k # "failed"
        PROVE  ~IsFailure(k :> v)
    <3>1. DOMAIN (k :> v) = {k}
      BY Single
    <3> QED BY <2>1, <3>1, Zenon DEF IsFailure
  <2>2. ASSUME NEW k, NEW v, k # "failed"
        PROVE  ~IsFailure(Option(k, v))
    <3>1. DOMAIN Option(k, v) \subseteq {k}
      BY OptionDomain
    <3> QED BY <2>2, <3>1, Zenon DEF IsFailure
  <2> QED BY <2>1, <2>2
<1>3. ~IsFailure(<< >>)
  BY DEF IsFailure
<1>4. \A condition, options : ~IsFailure(options) => ~IsFailure(Where(condition, options))
  BY <1>3 DEF Where
<1>5. \A driver : ~IsFailure(PostgresQuery(s, driver, use_async))
  BY <1>1, <1>2, <1>4 DEF PostgresQuery
<1>6. ~IsFailure(MySQLQuery(s, use_async))
  BY <1>1, <1>2, <1>4 DEF MySQLQuery
<1>7. ~IsFailure(MongoQuery(s))
  BY <1>1, <1>2, <1>4 DEF MongoQuery
<1>8. \A driver : ~IsFailure(ClickHouseQuery(s, driver))
  BY <1>1, <1>2, <1>4 DEF ClickHouseQuery
<1>9. ASSUME NEW options
      PROVE  ~IsFailure(AdapterOdbc(s, options))
  <2> DEFINE driver == "driver" :> T!ToString(options)
             timeout == Option("Connect Timeout", s.connect)
             encrypt == IF s.secure
                        THEN "Encrypt" :> "yes" @@
                             "TrustServerCertificate" :> (IF s.verify THEN "no" ELSE "yes")
                        ELSE "Encrypt" :> "no"
  <2>1. ~IsFailure(driver) /\ ~IsFailure(timeout)
    BY <1>2
  <2>2. ~IsFailure(encrypt)
    <3>1. \A b : ~IsFailure("Encrypt" :> b) /\ ~IsFailure("TrustServerCertificate" :> b)
      BY <1>2
    <3> QED BY <1>1, <3>1, Zenon
  <2>3. AdapterOdbc(s, options) = driver @@ timeout @@ encrypt
    BY DEF AdapterOdbc
  <2> HIDE DEF driver, timeout, encrypt
  <2> QED BY <1>1, <2>1, <2>2, <2>3
<1>10. ~IsFailure(OracleQuery(s))
  BY <1>1, <1>2, <1>4 DEF OracleQuery
<1> QED BY <1>5, <1>6, <1>7, <1>8, <1>9, <1>10

\* The options of a connection that came over the bridge.
LEMMA QueryOf ==
  ASSUME NEW c \in LegacyConnections, NEW m \in Modes, NEW v,
         v.type = c.type, v.type \in Types, v.settings = c.settings,
         Registered(v.type, v.driver), v.type = "mssql" => v.options = c.driver_name,
         c.type = "mssql" => c.driver_name # None,
         ~IsFailure(Runtime(v, m))
  PROVE  LET unnamed == c.type = "mssql" /\ c.driver_name = ""
             query == Query(v, Runtime(v, m))
             before == AdapterQuery(c.type, v.driver, c)
         IN  /\ ~IsFailure(query)
             /\ unnamed => query = AdapterOdbc(c.settings, "") /\ IsFailure(before)
             /\ ~unnamed =>
                  query = before @@
                    Where(v.driver = "asyncpg", Option("connect_timeout", c.settings.connect))
<1> DEFINE r == Runtime(v, m)
           s == c.settings
           adapter == AdapterQuery(c.type, v.driver, c)
           extra == Where(v.driver = "asyncpg", Option("connect_timeout", s.connect))
           OnLoop == m = "async" /\ v.driver \in {"psycopg"} \cup AsyncOnly
<1>1. /\ r.driver = Key(v.type, v.driver)
      /\ r.use_async = OnLoop
      /\ ~(m = "sync" /\ v.driver \in AsyncOnly)
  BY RuntimeOf
<1>2. s \in Settings
  BY DEF LegacyConnections
<1> HIDE DEF r, s, adapter, extra
<1>3. r.use_async \in BOOLEAN
  BY <1>1
<1>4. v.driver # "asyncpg" => extra = << >>
  BY Zenon DEF extra, Where
<1> DEFINE unnamed == c.type = "mssql" /\ c.driver_name = ""
<1> SUFFICES /\ ~IsFailure(Query(v, r))
             /\ unnamed => Query(v, r) = AdapterOdbc(s, "") /\ IsFailure(adapter)
             /\ ~unnamed => Query(v, r) = adapter @@ extra
  BY DEF r, adapter, extra, s
<1>5. CASE v.type = "postgres"
  <2>1. Query(v, r) = PostgresQuery(s, v.driver, r.use_async)
    BY <1>1, <1>5 DEF Query, Key, s
  <2>2. v.driver \in {"psycopg", "psycopg2", "asyncpg"}
    BY <1>5, Tables DEF Registered
  <2>3. ~unnamed
    BY <1>5
  <2>4. ~IsFailure(Query(v, r))
    BY <1>3, <2>1, QueriesAreNone
  <2>5. CASE v.driver = "asyncpg"
    <3>1. OnLoop = TRUE
      BY <1>1, <2>5 DEF AsyncOnly, Modes
    <3>2. r.use_async = TRUE
      BY <1>1, <3>1
    <3>3. extra = Option("connect_timeout", s.connect)
      BY <2>5, Zenon DEF extra, Where
    <3>4. PostgresQuery(s, "asyncpg", TRUE) = AdapterQuery("postgres", "asyncpg", c) @@ extra
      BY <1>2, <3>3, AsyncpgOptions DEF s
    <3> QED BY <1>5, <2>1, <2>3, <2>4, <2>5, <3>2, <3>4 DEF adapter
  <2>6. CASE v.driver # "asyncpg"
    <3>1. PostgresQuery(s, v.driver, r.use_async) = AdapterQuery("postgres", v.driver, c)
      BY <1>2, <1>3, <2>2, <2>6, PsycopgOptions DEF s
    <3>2. PostgresQuery(s, v.driver, r.use_async) @@ << >> = PostgresQuery(s, v.driver, r.use_async)
      BY <1>3, QueriesMerge
    <3> QED BY <1>4, <1>5, <2>1, <2>3, <2>4, <2>6, <3>1, <3>2 DEF adapter
  <2> QED BY <2>2, <2>5, <2>6
<1>6. CASE v.type = "mysql"
  <2>1. Query(v, r) = MySQLQuery(s, r.use_async)
    BY <1>6 DEF Query, s
  <2>2. v.driver \in {"pymysql", "aiomysql"}
    BY <1>6, Tables DEF Registered
  <2>3. r.use_async = (v.driver = "aiomysql")
    BY <1>1, <2>2 DEF AsyncOnly, Modes
  <2>4. MySQLQuery(s, r.use_async) = AdapterQuery("mysql", v.driver, c)
    <3>1. CASE v.driver = "aiomysql"
      <4>1. r.use_async = TRUE
        BY <2>3, <3>1
      <4> QED BY <1>2, <3>1, <4>1, MySQLOptions DEF s
    <3>2. CASE v.driver = "pymysql"
      <4>1. r.use_async = FALSE
        BY <2>3, <3>2
      <4> QED BY <1>2, <3>2, <4>1, MySQLOptions DEF s
    <3> QED BY <2>2, <3>1, <3>2
  <2>5. MySQLQuery(s, r.use_async) @@ << >> = MySQLQuery(s, r.use_async)
    BY <1>3, QueriesMerge
  <2>6. ~IsFailure(Query(v, r))
    BY <1>3, <2>1, QueriesAreNone
  <2> QED BY <1>4, <1>6, <2>1, <2>2, <2>4, <2>5, <2>6 DEF adapter
<1>7. CASE v.type = "clickhouse"
  <2>1. Query(v, r) = ClickHouseQuery(s, v.driver)
    BY <1>1, <1>7 DEF Query, Key, s
  <2>2. v.driver \in {"native", "http"}
    BY <1>7, Tables DEF Registered
  <2>3. ClickHouseQuery(s, v.driver) = AdapterQuery("clickhouse", v.driver, c)
    BY <1>2, <2>2, ClickHouseOptions DEF s
  <2>4. ClickHouseQuery(s, v.driver) @@ << >> = ClickHouseQuery(s, v.driver)
    BY <1>3, QueriesMerge
  <2>5. ~IsFailure(Query(v, r))
    BY <1>3, <2>1, QueriesAreNone
  <2> QED BY <1>4, <1>7, <2>1, <2>2, <2>3, <2>4, <2>5 DEF adapter
<1>8. CASE v.type = "mssql"
  <2>1. Query(v, r) = AdapterOdbc(s, c.driver_name)
    BY <1>2, <1>8, MSSQLOptions DEF Query, s
  <2>2. v.driver \in {"pyodbc", "aioodbc"}
    BY <1>8, Tables DEF Registered
  <2>3. /\ unnamed => adapter = Failed("driver_not_specified")
        /\ ~unnamed => adapter = AdapterOdbc(s, c.driver_name)
    BY <1>8, <2>2 DEF adapter, AdapterQuery, s
  <2>4. AdapterOdbc(s, c.driver_name) @@ << >> = AdapterOdbc(s, c.driver_name)
    <3>1. MSSQLQuery(s, c.driver_name) @@ << >> = MSSQLQuery(s, c.driver_name)
      BY <1>3, QueriesMerge
    <3> QED BY <1>2, <3>1, MSSQLOptions
  <2>5. ~IsFailure(Query(v, r))
    BY <1>3, <2>1, QueriesAreNone
  <2> QED BY <1>4, <1>8, <2>1, <2>2, <2>3, <2>4, <2>5 DEF IsFailure, Failed
<1>9. CASE v.type = "oracle"
  <2>1. Query(v, r) = OracleQuery(s)
    BY <1>9 DEF Query, s
  <2>2. v.driver = "oracledb"
    BY <1>9, Tables DEF Registered
  <2>3. OracleQuery(s) = AdapterQuery("oracle", "oracledb", c)
    BY <1>2, OracleOptions DEF s
  <2>4. OracleQuery(s) @@ << >> = OracleQuery(s)
    BY <1>3, QueriesMerge
  <2>5. ~IsFailure(Query(v, r))
    BY <1>3, <2>1, QueriesAreNone
  <2> QED BY <1>4, <1>9, <2>1, <2>2, <2>3, <2>4, <2>5 DEF adapter
<1>10. CASE v.type = "mongodb"
  <2>1. Query(v, r) = MongoQuery(s)
    BY <1>10 DEF Query, s
  <2>2. v.driver = None
    BY <1>10 DEF Registered
  <2>3. MongoQuery(s) = AdapterQuery("mongodb", None, c)
    BY <1>2, MongoOptions DEF s
  <2>4. MongoQuery(s) @@ << >> = MongoQuery(s)
    BY <1>3, QueriesMerge
  <2>5. ~IsFailure(Query(v, r))
    BY <1>3, <2>1, QueriesAreNone
  <2> QED BY <1>4, <1>10, <2>1, <2>2, <2>3, <2>4, <2>5, NoneIsNoText DEF adapter
<1> QED BY <1>5, <1>6, <1>7, <1>8, <1>9, <1>10 DEF Types

-----------------------------------------------------------------------------
(* The inductive invariant: each stage holds what it made of the one       *)
(* before.                                                                 *)

StartedRight ==
  /\ mode \in Modes
  /\ legacy \in LegacyConnections \cup {None}
  /\ legacy = None => draft \in Drafts
  /\ legacy # None => draft \in {None, ToRuntimeDraft(legacy, mode)}

ConnectionOfDraft ==
  connection # None => draft # None /\ ~IsFailure(draft) /\ connection = Validate(draft)

UrlOfConnection ==
  url # None => connection # None /\ ~IsFailure(connection) /\ url = Url(connection, mode)

SqlInv == StartedRight /\ ConnectionOfDraft /\ UrlOfConnection

LEMMA SqlInitInv == SqlInit => SqlInv
BY SqlAssumption DEF SqlInit, SqlInv, StartedRight, ConnectionOfDraft, UrlOfConnection

LEMMA SqlNextInv == SqlInv /\ [SqlNext]_sqlVars => SqlInv'
<1> SUFFICES ASSUME SqlInv, [SqlNext]_sqlVars
             PROVE  SqlInv'
  OBVIOUS
<1> USE DEF SqlInv, StartedRight, ConnectionOfDraft, UrlOfConnection
<1>1. CASE Bridge
  BY <1>1 DEF Bridge
<1>2. CASE ValidateDraft
  BY <1>2 DEF ValidateDraft
<1>3. CASE BuildUrl
  BY <1>3 DEF BuildUrl
<1>4. CASE UNCHANGED sqlVars
  BY <1>4 DEF sqlVars
<1> QED BY <1>1, <1>2, <1>3, <1>4 DEF SqlNext

LEMMA StagesFollow == SqlSpec => []SqlInv
BY SqlInitInv, SqlNextInv, PTL DEF SqlSpec

\* What the bridge drafts of a legacy connection.
LEMMA Bridged ==
  ASSUME NEW c \in LegacyConnections, NEW m \in Modes
  PROVE  LET d == ToRuntimeDraft(c, m)
         IN  /\ IsFailure(d) <=> c.type = "custom" \/ (c.type = "mssql" /\ c.driver_name = None)
             /\ ~IsFailure(d) =>
                  /\ d.type = c.type /\ d.type \in Types /\ d.settings = c.settings
                  /\ d.driver = LegacyDriver(c, m)
                  /\ d.options = IF c.type = "mssql" THEN c.driver_name ELSE None
                  /\ PropertiesFit(d) <=> c.flags = "given"
<1> DEFINE d == ToRuntimeDraft(c, m)
           drafted == [type |-> c.type, driver |-> LegacyDriver(c, m),
                       options |-> IF c.type = "mssql" THEN c.driver_name ELSE None,
                       place |-> "port", flags |-> c.flags, settings |-> c.settings]
<1>1. c.type \in Types \cup {"custom"}
  BY DEF LegacyConnections, LegacyTypes
<1>2. CASE c.type = "custom" \/ (c.type = "mssql" /\ c.driver_name = None)
  <2>1. d = Failed("wrong_type") \/ d = Failed("driver_not_specified")
    BY <1>2 DEF ToRuntimeDraft
  <2> QED BY <1>2, <2>1 DEF Failed, IsFailure
<1>3. CASE ~(c.type = "custom" \/ (c.type = "mssql" /\ c.driver_name = None))
  <2>1. d = drafted
    BY <1>3 DEF ToRuntimeDraft
  <2>2. ~IsFailure(drafted) /\ (PropertiesFit(drafted) <=> c.flags = "given")
    BY DEF IsFailure, PropertiesFit
  <2> QED BY <1>1, <1>3, <2>1, <2>2
<1> QED BY <1>2, <1>3

\* The driver a legacy connection gets when it names none: of its type, and
\* not one of the wrong mode.
LEMMA DriverChosen ==
  ASSUME NEW c \in LegacyConnections, NEW m \in Modes, c.type \in Types,
         NEW d, d.type = c.type, d.driver = LegacyDriver(c, m)
  PROVE  LET driver == EffectiveDriver(d)
         IN  /\ c.type # "mssql" /\ c.driver_name \notin {None, ""} => driver = c.driver_name
             /\ c.type = "mssql" \/ c.driver_name \in {None, ""} =>
                  /\ c.type # "mongodb" => driver \in RegisteredDrivers[c.type]
                  /\ c.type = "mongodb" => driver = None
                  /\ m = "sync" => driver \notin AsyncOnly
<1> DEFINE driver == EffectiveDriver(d)
<1>1. CASE c.type = "mssql"
  <2>1. d.driver = IF m = "async" THEN "aioodbc" ELSE "pyodbc"
    BY <1>1 DEF LegacyDriver
  <2>2. driver = d.driver
    BY <2>1, NoneIsNoText DEF EffectiveDriver
  <2> QED BY <1>1, <2>1, <2>2, Tables DEF AsyncOnly
<1>2. CASE c.type # "mssql" /\ c.driver_name \notin {None, ""}
  <2>1. d.driver = c.driver_name
    BY <1>2 DEF LegacyDriver
  <2> QED BY <1>2, <2>1 DEF EffectiveDriver
<1>3. CASE c.type # "mssql" /\ c.driver_name \in {None, ""}
  <2>1. d.driver \in {None, ""} \/ (c.driver_name = None /\ m = "async" /\ d.driver = AsyncDriverDefaults[c.type] /\ c.type \in {"postgres", "mysql"})
            \/ (c.type = "clickhouse" /\ d.driver = "http")
    BY <1>3 DEF LegacyDriver, AsyncDriverDefaults
  <2>2. CASE d.driver \in {None, ""}
    <3>1. driver = DefaultDriver[c.type]
      BY <2>2 DEF EffectiveDriver
    <3>2. c.type # "mongodb" => driver \in RegisteredDrivers[c.type]
      BY <3>1, TypesOfDrivers
    <3>3. c.type = "mongodb" => driver = None
      BY <3>1, Tables
    <3>4. driver \notin AsyncOnly
      BY <3>1, DefaultsAreSync
    <3> HIDE DEF driver
    <3> QED BY <1>3, <3>2, <3>3, <3>4 DEF driver
  <2>3. CASE m = "async" /\ d.driver = AsyncDriverDefaults[c.type] /\ c.type \in {"postgres", "mysql"}
    <3>1. d.driver = IF c.type = "postgres" THEN "asyncpg" ELSE "aiomysql"
      BY <2>3 DEF AsyncDriverDefaults
    <3>2. driver = d.driver
      BY <3>1, NoneIsNoText DEF EffectiveDriver
    <3> QED BY <1>3, <2>3, <3>1, <3>2, Tables
  <2>4. CASE c.type = "clickhouse" /\ d.driver = "http"
    <3>1. driver = "http"
      BY <2>4, NoneIsNoText DEF EffectiveDriver
    <3> QED BY <1>3, <2>4, <3>1, Tables DEF AsyncOnly
  <2> QED BY <2>1, <2>2, <2>3, <2>4
<1> QED BY <1>1, <1>2, <1>3

\* What the bridge drafts is accepted but for the reasons listed.
LEMMA DraftAccepted ==
  ASSUME NEW c \in LegacyConnections, NEW m \in Modes,
         ~IsFailure(ToRuntimeDraft(c, m)), IsFailure(Validate(ToRuntimeDraft(c, m)))
  PROVE  \/ c.flags = "none"
         \/ /\ c.type # "mssql"
            /\ c.driver_name \notin RegisteredDrivers[c.type] \cup {None, ""}
<1> DEFINE d == ToRuntimeDraft(c, m)
           driver == EffectiveDriver(d)
<1>1. /\ d.type = c.type /\ c.type \in Types /\ d.driver = LegacyDriver(c, m)
      /\ d.options = IF c.type = "mssql" THEN c.driver_name ELSE None
      /\ PropertiesFit(d) <=> c.flags = "given"
      /\ ~(c.type = "mssql" /\ c.driver_name = None)
  BY Bridged
<1>2. c.flags \in {"given", "none"}
  BY DEF LegacyConnections
<1>3. /\ c.type # "mssql" /\ c.driver_name \notin {None, ""} => driver = c.driver_name
      /\ c.type = "mssql" \/ c.driver_name \in {None, ""} =>
           /\ c.type # "mongodb" => driver \in RegisteredDrivers[c.type]
           /\ c.type = "mongodb" => driver = None
  BY <1>1, DriverChosen
<1>4. ~(PropertiesFit(d) /\ OptionsFit(c.type, driver, d.options))
  BY <1>1, Validated
<1> HIDE DEF d, driver
<1> SUFFICES ASSUME c.flags # "none",
                    c.type = "mssql" \/ c.driver_name \in RegisteredDrivers[c.type] \cup {None, ""}
             PROVE  OptionsFit(c.type, driver, d.options)
  BY <1>1, <1>2, <1>4
<1>5. CASE c.type = "mongodb" /\ c.driver_name \in {None, ""}
  BY <1>1, <1>3, <1>5 DEF OptionsFit
<1>6. CASE ~(c.type = "mongodb" /\ c.driver_name \in {None, ""})
  <2>1. driver \in RegisteredDrivers[c.type]
    BY <1>3, <1>6, Tables
  <2>2. driver # None /\ (TakesOptions(driver) <=> c.type = "mssql")
    BY <1>1, <2>1, TypesOfDrivers
  <2> QED BY <1>1, <2>1, <2>2 DEF OptionsFit
<1> QED BY <1>5, <1>6

LEMMA LegacyUrlFollows == SqlInv => LegacyUrlUnchanged
<1> SUFFICES ASSUME SqlInv, legacy # None
             PROVE  LegacyUrlUnchanged
  BY DEF LegacyUrlUnchanged
<1> DEFINE d == ToRuntimeDraft(legacy, mode)
           v == connection
           r == Runtime(v, mode)
<1>1. legacy \in LegacyConnections /\ mode \in Modes /\ draft \in {None, d}
  BY DEF SqlInv, StartedRight
<1>2. ASSUME ~IsFailure(d)
      PROVE  /\ d.type = legacy.type /\ legacy.type \in Types /\ d.settings = legacy.settings
             /\ d.driver = LegacyDriver(legacy, mode)
             /\ legacy.type = "mssql" =>
                  d.options = legacy.driver_name /\ legacy.driver_name # None
  BY <1>1, <1>2, Bridged
<1>3. ASSUME connection # None
      PROVE  ~IsFailure(d) /\ v = Validate(d)
  BY <1>1, <1>3 DEF SqlInv, ConnectionOfDraft
<1>4. ASSUME url # None
      PROVE  /\ url = Url(v, mode) /\ ~IsFailure(v)
             /\ v.type = legacy.type /\ v.driver = EffectiveDriver(d)
             /\ v.settings = legacy.settings
             /\ v.type = "mssql" =>
                  v.options = legacy.driver_name /\ legacy.driver_name # None
             /\ Registered(v.type, v.driver)
  <2>1. url = Url(v, mode) /\ v # None /\ ~IsFailure(v)
    BY <1>4 DEF SqlInv, UrlOfConnection
  <2>2. ~IsFailure(d) /\ v = Validate(d)
    BY <1>3, <2>1
  <2> HIDE DEF d
  <2> QED BY <1>2, <2>1, <2>2, Validated
<1> DEFINE before == AdapterQuery(legacy.type, connection.driver, legacy)
           BuiltRight ==
             /\ url.dialect = IF legacy.type = "mongodb" THEN "mongodb"
                              ELSE LegacyDialects[connection.driver]
             /\ IsFailure(before) <=> UnnamedOdbc
             /\ url.query = IF UnnamedOdbc THEN AdapterOdbc(legacy.settings, "")
                            ELSE before @@ Where(connection.driver = "asyncpg",
                                   Option("connect_timeout", legacy.settings.connect))
             /\ legacy.type # "mssql" /\ legacy.driver_name \notin {None, ""} =>
                  connection.driver = legacy.driver_name
           RefusedRight ==
             \/ legacy.type = "custom"
             \/ legacy.flags = "none"
             \/ legacy.type = "mssql" /\ legacy.driver_name = None
             \/ /\ legacy.type # "mssql"
                /\ legacy.driver_name \notin RegisteredDrivers[legacy.type] \cup {None, ""}
             \/ WrongMode(legacy.driver_name)
<1>5. ASSUME Built
      PROVE  BuiltRight
  <2>1. url # None /\ ~IsFailure(url)
    BY <1>5 DEF Built
  <2>2. ~IsFailure(r) /\ url.dialect = r.dialect /\ url.query = Query(v, r)
    BY <1>4, <2>1, UrlOf
  <2>3. connection # None
    BY <2>1 DEF SqlInv, UrlOfConnection
  <2>4. legacy.type \in Types /\ d.type = legacy.type /\ d.driver = LegacyDriver(legacy, mode)
    BY <1>2, <1>3, <2>3
  <2>5. r.dialect = Dialect(legacy.type, v.driver)
    BY <1>1, <1>4, <2>1, <2>2, <2>4, RuntimeOf
  <2>6. /\ ~IsFailure(Query(v, r))
        /\ UnnamedOdbc => Query(v, r) = AdapterOdbc(legacy.settings, "") /\ IsFailure(before)
        /\ ~UnnamedOdbc =>
             Query(v, r) = before @@ Where(v.driver = "asyncpg",
                             Option("connect_timeout", legacy.settings.connect))
    BY <1>1, <1>4, <2>1, <2>2, <2>4, QueryOf DEF UnnamedOdbc
  <2>8. ~UnnamedOdbc => ~IsFailure(before)
    BY <2>6 DEF IsFailure, @@
  <2>7. legacy.type # "mssql" /\ legacy.driver_name \notin {None, ""} => v.driver = legacy.driver_name
    BY <1>1, <1>4, <2>1, <2>4, DriverChosen
  <2> HIDE DEF before
  <2> QED BY <2>2, <2>5, <2>6, <2>7, <2>8 DEF Dialect, before
<1>6. ASSUME Refused
      PROVE  RefusedRight
  <2>1. CASE draft # None /\ IsFailure(draft)
    <3>1. IsFailure(d)
      BY <1>1, <2>1
    <3> QED BY <1>1, <3>1, Bridged
  <2>2. CASE connection # None /\ IsFailure(connection)
    <3>1. ~IsFailure(d) /\ IsFailure(Validate(d))
      BY <1>3, <2>2
    <3> QED BY <1>1, <3>1, DraftAccepted
  <2>3. CASE url # None /\ IsFailure(url)
    <3>1. IsFailure(r)
      BY <1>4, <2>3, UrlOf
    <3>2. connection # None
      BY <2>3 DEF SqlInv, UrlOfConnection
    <3>3. legacy.type \in Types /\ d.type = legacy.type /\ d.driver = LegacyDriver(legacy, mode)
      BY <1>2, <1>3, <3>2
    <3>4. mode = "sync" /\ v.driver \in AsyncOnly
      BY <1>1, <1>4, <2>3, <3>1, <3>3, RuntimeOf
    <3>5. v.driver = legacy.driver_name
      <4>1. v.driver = EffectiveDriver(d)
        BY <1>4, <2>3
      <4>2. ~(legacy.type = "mssql" \/ legacy.driver_name \in {None, ""})
        BY <1>1, <3>3, <3>4, <4>1, DriverChosen
      <4> QED BY <1>1, <3>3, <4>1, <4>2, DriverChosen
    <3> QED BY <3>4, <3>5 DEF WrongMode, AsyncOnly
  <2> QED BY <1>6, <2>1, <2>2, <2>3 DEF Refused
<1> QED BY <1>5, <1>6 DEF LegacyUrlUnchanged

LEMMA AcceptedFollows == SqlInv => AcceptedIsBuildable
<1> SUFFICES ASSUME SqlInv, url # None
             PROVE  /\ IsFailure(url) => WrongMode(connection.driver)
                    /\ Built /\ url.use_async =>
                         connection.driver \in {"psycopg", "asyncpg", "aiomysql", "aioodbc"}
  BY DEF AcceptedIsBuildable
<1> DEFINE v == connection
           r == Runtime(v, mode)
<1>1. /\ mode \in Modes /\ draft # None /\ ~IsFailure(draft) /\ v = Validate(draft)
      /\ ~IsFailure(v) /\ url = Url(v, mode)
  BY DEF SqlInv, StartedRight, ConnectionOfDraft, UrlOfConnection
<1>2. draft.type \in Types
  <2>1. CASE legacy = None
    BY <2>1 DEF SqlInv, StartedRight, Drafts
  <2>2. CASE legacy # None
    <3>1. legacy \in LegacyConnections /\ draft = ToRuntimeDraft(legacy, mode)
      BY <1>1, <2>2 DEF SqlInv, StartedRight
    <3> QED BY <1>1, <3>1, Bridged
  <2> QED BY <2>1, <2>2
<1>3. v.type \in Types /\ Registered(v.type, v.driver)
  BY <1>1, <1>2, Validated
<1>4. /\ IsFailure(r) <=> mode = "sync" /\ v.driver \in AsyncOnly
      /\ ~IsFailure(r) => r.use_async = (mode = "async" /\ v.driver \in {"psycopg"} \cup AsyncOnly)
  BY <1>1, <1>3, RuntimeOf
<1>5. /\ IsFailure(url) <=> IsFailure(r)
      /\ ~IsFailure(url) => url.use_async = r.use_async
  BY <1>1, UrlOf
<1>6. IsFailure(url) => WrongMode(v.driver)
  BY <1>4, <1>5 DEF WrongMode, AsyncOnly
<1>7. ASSUME Built, url.use_async
      PROVE  v.driver \in {"psycopg", "asyncpg", "aiomysql", "aioodbc"}
  <2>1. ~IsFailure(r) /\ url.use_async = (mode = "async" /\ v.driver \in {"psycopg"} \cup AsyncOnly)
    BY <1>4, <1>5, <1>7 DEF Built
  <2>2. v.driver \in {"psycopg"} \cup AsyncOnly
    BY <1>7, <2>1, Zenon
  <2> QED BY <2>2 DEF AsyncOnly
<1> QED BY <1>6, <1>7

\* Whatever timeouts, certificate and ODBC driver a legacy connection names,
\* the bridge, the validation and the connector (compat/runtime_bridge.py:98,
\* connectors/sql.py:314) give it the dialect and the options it had, or refuse
\* it for one of the reasons listed.
THEOREM LegacyUrl == SqlSpec => []LegacyUrlUnchanged
<1>1. SqlSpec => []SqlInv
  BY StagesFollow
<1>2. SqlInv => LegacyUrlUnchanged
  BY LegacyUrlFollows
<1> QED BY <1>1, <1>2, PTL

\* Whatever the validation accepts the connector has a dialect for, but for an
\* asynchronous driver in a synchronous connector (registry/defaults.py:34,
\* connectors/sql.py:263), and only an asynchronous driver runs on the loop.
THEOREM AcceptedBuilds == SqlSpec => []AcceptedIsBuildable
<1>1. SqlSpec => []SqlInv
  BY StagesFollow
<1>2. SqlInv => AcceptedIsBuildable
  BY AcceptedFollows
<1> QED BY <1>1, <1>2, PTL
=============================================================================
