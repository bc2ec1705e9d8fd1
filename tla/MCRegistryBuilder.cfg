\* Up to MaxCalls calls of a builder in any order, two builds from it at any
\* point and the host registering by itself in between.
SPECIFICATION RegistrySpec
CONSTANTS
  host = host
  own = own
  dsl = dsl
  plug = plug
  l1 = l1
  l2 = l2
  None = None
  Unset = Unset
  Defaults = Defaults
  KindNames = {"sql", "queue", "file", "service"}
  TypeNames = {"postgres", "mysql", "clickhouse", "mssql", "oracle", "mongodb", "kafka", "s3", "ftp", "sftp", "httpapi"}
  Drivers = {"psycopg", "psycopg2", "asyncpg", "pymysql", "aiomysql", "native", "http", "pyodbc", "aioodbc", "oracledb"}
  Origins = {host, own, dsl, plug, Defaults}
  Limits = {l1, l2}
  MaxCalls = 4
  MaxBuilds = 2
  HostKinds <- MCHostKinds
  HostTypes <- MCHostTypes
  HostCalls <- MCHostCalls
  Configs <- MCConfigs
  Requests <- MCRequests
  Installed <- MCInstalled
INVARIANTS
  RegistryTypeOK
  TypesHaveKinds
  BuildIsRepeatable
PROPERTIES
  BuiltAsDeclared
CHECK_DEADLOCK FALSE
