-------------------------- MODULE MCConnectorCalls --------------------------
(***************************************************************************)
(* Small instances of ConnectorCalls for TLC: one task makes any call,     *)
(* another one that runs on the loop, in the pool or in a private thread.  *)
(***************************************************************************)
EXTENDS ConnectorCalls, TLC

CONSTANTS t1, t2

Call(connector, op, legacy) == [connector |-> connector, op |-> op, legacy |-> legacy]

MixedJobs ==
  {(t1 :> j) @@ (t2 :> k) : j \in Job,
     k \in {Call("ftp", "check", FALSE), Call("sftp", "client", FALSE),
            Call("s3", "check", TRUE), Call("kafka_async", "check", FALSE),
            Call("sql_async", "check", TRUE)}}
=============================================================================
