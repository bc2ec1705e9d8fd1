------------------------ MODULE ConnectorCallsProofs ------------------------
(***************************************************************************)
(* TLAPS proofs about ConnectorCalls, for any number of tasks and worker   *)
(* threads and any choice of their calls.                                  *)
(***************************************************************************)
EXTENDS ConnectorCalls, TLAPS

-----------------------------------------------------------------------------
(* The tables of steps.                                                    *)

\* The steps of each connector.
LEMMA StepsTable ==
  /\ \A c \in SQL : DOMAIN StepsOf(c) = {"engine", "connect", "execute", "dispose"}
  /\ DOMAIN StepsOf("ftp") = {"probe", "dial", "login", "cwd", "pwd", "quit"}
  /\ DOMAIN StepsOf("sftp") = {"ssh_probe", "ssh_connect", "open_sftp", "chdir", "getcwd",
                               "close_sftp", "close_ssh"}
  /\ DOMAIN StepsOf("s3") = {"s3_client", "list_objects", "close_s3"}
  /\ DOMAIN StepsOf("kafka") = {"admin", "list_topics", "close_admin", "producer"}
  /\ DOMAIN StepsOf("kafka_async") = {"admin_config", "start", "list_topics", "close_admin",
                                      "producer_config"}
BY DEF StepsOf, SQL, SQLSteps, FTPSteps, SFTPSteps, S3Steps, KafkaSteps, AsyncKafkaSteps

\* All of them.
LEMMA AllSteps ==
  Steps = {"engine", "connect", "execute", "dispose", "probe", "dial", "login", "cwd", "pwd", "quit",
           "ssh_probe", "ssh_connect", "open_sftp", "chdir", "getcwd", "close_sftp", "close_ssh",
           "s3_client", "list_objects", "close_s3", "admin", "list_topics", "close_admin", "producer",
           "admin_config", "start", "producer_config"}
BY StepsTable DEF Steps, Connectors, Threaded, OnLoop, SQL

\* A step a call of j may be at.
MayBeAt(j, s) ==
  /\ s \in DOMAIN StepsOf(j.connector)
  /\ IF j.op = "client" THEN s \in Making(j.connector) ELSE s \notin {"producer", "producer_config"}

\* A call begins at one of its steps, and holds nothing.
LEMMA FirstStep ==
  ASSUME NEW j \in Job
  PROVE  MayBeAt(j, First(j)) /\ Holding(First(j)) = {} /\ First(j) \in Steps
BY StepsTable, AllSteps DEF MayBeAt, First, Making, Holding, Job, Connectors, Threaded, OnLoop, SQL

\* What the step after the next one finds, and what is open after the last.
LEMMA NextStep ==
  ASSUME NEW j \in Job, NEW s, MayBeAt(j, s)
  PROVE  LET next == After(j, s)
             left == (Holding(s) \cup Opens(s)) \ Closes(s)
         IN \/ /\ next # "returned" /\ MayBeAt(j, next) /\ left = Holding(next)
            \/ /\ next = "returned"
               /\ left = IF j.op = "check" THEN {} ELSE ClientHolds(j.connector)
<1>0. j.op \in {"check", "client"}
  BY DEF Job
<1>1. CASE j.connector \in SQL
  <2>1. StepsOf(j.connector) = SQLSteps /\ s \in DOMAIN SQLSteps
    BY <1>1 DEF StepsOf, MayBeAt, SQL
  <2>2. CASE j.op = "client"
    BY <1>1, <2>1, <2>2 DEF MayBeAt, After, Making, Holding, Opens, Closes, ClientHolds, StepsOf, SQLSteps
  <2>3. CASE j.op = "check"
    BY <1>1, <2>1, <2>3 DEF MayBeAt, After, Making, Holding, Opens, Closes, ClientHolds, StepsOf, SQLSteps
  <2> QED BY <1>0, <2>2, <2>3
<1>2. CASE j.connector = "ftp"
  <2>1. StepsOf(j.connector) = FTPSteps /\ s \in DOMAIN FTPSteps
    BY <1>2 DEF StepsOf, MayBeAt
  <2>2. CASE j.op = "client"
    BY <1>2, <2>1, <2>2 DEF MayBeAt, After, Making, Holding, Opens, Closes, ClientHolds, StepsOf, FTPSteps
  <2>3. CASE j.op = "check"
    BY <1>2, <2>1, <2>3 DEF MayBeAt, After, Making, Holding, Opens, Closes, ClientHolds, StepsOf, FTPSteps
  <2> QED BY <1>0, <2>2, <2>3
<1>3. CASE j.connector = "sftp"
  <2>1. StepsOf(j.connector) = SFTPSteps /\ s \in DOMAIN SFTPSteps
    BY <1>3 DEF StepsOf, MayBeAt
  <2>2. CASE j.op = "client"
    BY <1>3, <2>1, <2>2 DEF MayBeAt, After, Making, Holding, Opens, Closes, ClientHolds, StepsOf, SFTPSteps
  <2>3. CASE j.op = "check"
    BY <1>3, <2>1, <2>3 DEF MayBeAt, After, Making, Holding, Opens, Closes, ClientHolds, StepsOf, SFTPSteps
  <2> QED BY <1>0, <2>2, <2>3
<1>4. CASE j.connector = "s3"
  <2>1. StepsOf(j.connector) = S3Steps /\ s \in DOMAIN S3Steps
    BY <1>4 DEF StepsOf, MayBeAt
  <2>2. CASE j.op = "client"
    BY <1>4, <2>1, <2>2 DEF MayBeAt, After, Making, Holding, Opens, Closes, ClientHolds, StepsOf, S3Steps
  <2>3. CASE j.op = "check"
    BY <1>4, <2>1, <2>3 DEF MayBeAt, After, Making, Holding, Opens, Closes, ClientHolds, StepsOf, S3Steps
  <2> QED BY <1>0, <2>2, <2>3
<1>5. CASE j.connector = "kafka"
  <2>1. StepsOf(j.connector) = KafkaSteps /\ s \in DOMAIN KafkaSteps
    BY <1>5 DEF StepsOf, MayBeAt
  <2>2. CASE j.op = "client"
    BY <1>5, <2>1, <2>2 DEF MayBeAt, After, Making, Holding, Opens, Closes, ClientHolds, StepsOf, KafkaSteps
  <2>3. CASE j.op = "check"
    BY <1>5, <2>1, <2>3 DEF MayBeAt, After, Making, Holding, Opens, Closes, ClientHolds, StepsOf, KafkaSteps
  <2> QED BY <1>0, <2>2, <2>3
<1>6. CASE j.connector = "kafka_async"
  <2>1. StepsOf(j.connector) = AsyncKafkaSteps /\ s \in DOMAIN AsyncKafkaSteps
    BY <1>6 DEF StepsOf, MayBeAt
  <2>2. CASE j.op = "client"
    BY <1>6, <2>1, <2>2 DEF MayBeAt, After, Making, Holding, Opens, Closes, ClientHolds, StepsOf, AsyncKafkaSteps
  <2>3. CASE j.op = "check"
    BY <1>6, <2>1, <2>3 DEF MayBeAt, After, Making, Holding, Opens, Closes, ClientHolds, StepsOf, AsyncKafkaSteps
  <2> QED BY <1>0, <2>2, <2>3
<1> QED BY <1>1, <1>2, <1>3, <1>4, <1>5, <1>6 DEF Job, Connectors, Threaded, OnLoop, SQL

\* Where a swallowed exception leads.
LEMMA SwallowStep ==
  ASSUME NEW j \in Job, NEW s \in Swallowing, MayBeAt(j, s)
  PROVE  \/ /\ s \in {"cwd", "chdir"}
            /\ AfterSwallow(j, s) = After(j, s) /\ Opens(s) = {} /\ Closes(s) = {}
         \/ /\ s = "quit" /\ AfterSwallow(j, s) = "returned" /\ j.connector = "ftp"
         \/ /\ s \in {"close_sftp", "close_ssh"} /\ AfterSwallow(j, s) = "returned"
            /\ j.connector = "sftp"
<1>1. j.op \in {"check", "client"} /\ j.connector \in Connectors
  BY DEF Job
<1>2. s \in DOMAIN StepsOf(j.connector)
  BY DEF MayBeAt
<1>3. CASE s \in {"cwd", "chdir"}
  BY <1>3 DEF AfterSwallow, Opens, Closes
<1>4. CASE s = "quit"
  <2>1. j.connector = "ftp"
    BY <1>1, <1>2, <1>4, StepsTable DEF Connectors, Threaded, OnLoop, SQL
  <2> QED BY <1>4, <2>1 DEF AfterSwallow, After, StepsOf, FTPSteps
<1>5. CASE s \in {"close_sftp", "close_ssh"}
  <2>1. j.connector = "sftp"
    BY <1>1, <1>2, <1>5, StepsTable DEF Connectors, Threaded, OnLoop, SQL
  <2> QED BY <1>5, <2>1 DEF AfterSwallow, After, StepsOf, SFTPSteps
<1> QED BY <1>3, <1>4, <1>5 DEF Swallowing

-----------------------------------------------------------------------------
(* Types.                                                                  *)

\* The initial values have their types.
LEMMA TypeInit == ConnectorInit => ConnectorTypeOK
BY ConnectorAssumption DEF ConnectorInit, ConnectorTypeOK

\* Every action keeps the types.
LEMMA TypeStep ==
  ASSUME ConnectorTypeOK, NEW t \in Tasks, RunningInv(t),
         \/ Begin(t) \/ Refuse(t) \/ Take(t) \/ Proceed(t)
         \/ Deliver(t) \/ Drop(t) \/ CancelAwait(t) \/ CancelThread(t)
  PROVE  ConnectorTypeOK'
<1>0. job[t] \in Job
  BY DEF ConnectorTypeOK
<1>1. First(job[t]) \in Steps
  BY <1>0, FirstStep
<1>2. ASSUME NEW next \in Steps \cup {"returned"}, NEW outcome \in Outcomes \cup {None},
             Go(t, next, outcome)
      PROVE  /\ pc' \in [Tasks -> Steps \cup {"idle", "queued", "returned", "over"}]
             /\ verdict' \in [Tasks -> Outcomes \cup {None}]
  BY <1>2 DEF Go, Good, Outcomes, ConnectorTypeOK
<1>3. ASSUME NEW s \in Steps
      PROVE  Opens(s) \subseteq Resources /\ Closes(s) \subseteq Resources /\ Cleanup(s) \in Steps \cup {"returned"}
  BY AllSteps DEF Opens, Closes, Resources, Cleanup
<1>4. Bad(job[t]) \in Outcomes /\ verdict[t] \in Outcomes \cup {None}
  BY DEF Bad, Outcomes, ConnectorTypeOK
<1>5. ASSUME NEW j, NEW s, MayBeAt(j, s), j \in Job
      PROVE  s \in Steps
  BY <1>5 DEF MayBeAt, Job, Steps
<1>6. ASSUME pc[t] \in Steps
      PROVE  /\ MayBeAt(job[t], pc[t])
             /\ After(job[t], pc[t]) \in Steps \cup {"returned"}
             /\ AfterSwallow(job[t], pc[t]) \in Steps \cup {"returned"}
  <2>1. MayBeAt(job[t], pc[t])
    BY <1>6 DEF RunningInv, MayBeAt
  <2> QED BY <1>0, <1>5, <2>1, NextStep DEF AfterSwallow
<1>7. open[t] \subseteq Resources
  BY DEF ConnectorTypeOK
<1>8. CASE Begin(t)
  BY <1>1, <1>8 DEF Begin, ConnectorTypeOK
<1>9. CASE Refuse(t)
  BY <1>9 DEF Refuse, ConnectorTypeOK, Outcomes
<1>10. CASE Take(t)
  BY <1>1, <1>10 DEF Take, ConnectorTypeOK
<1>11. CASE Succeed(t)
  <2>1. pc[t] \in Steps
    BY <1>11 DEF Succeed, CanStep
  <2>2. open' \in [Tasks -> SUBSET Resources]
    BY <1>3, <1>7, <1>11, <2>1 DEF Succeed, ConnectorTypeOK
  <2>3. /\ pc' \in [Tasks -> Steps \cup {"idle", "queued", "returned", "over"}]
        /\ verdict' \in [Tasks -> Outcomes \cup {None}]
    BY <1>2, <1>4, <1>6, <1>11, <2>1 DEF Succeed
  <2> QED BY <1>11, <2>2, <2>3 DEF Succeed, ConnectorTypeOK
<1>12. CASE Swallow(t)
  <2>1. pc[t] \in Steps
    BY <1>12 DEF Swallow, CanStep
  <2>2. open' \in [Tasks -> SUBSET Resources]
    BY <1>7, <1>12 DEF Swallow, ConnectorTypeOK
  <2>3. /\ pc' \in [Tasks -> Steps \cup {"idle", "queued", "returned", "over"}]
        /\ verdict' \in [Tasks -> Outcomes \cup {None}]
    BY <1>2, <1>4, <1>6, <1>12, <2>1 DEF Swallow
  <2> QED BY <1>12, <2>1, <2>2, <2>3 DEF Swallow, ConnectorTypeOK
<1>13. CASE Raise(t)
  <2>1. pc[t] \in Steps
    BY <1>13 DEF Raise, CanStep
  <2>2. open' \in [Tasks -> SUBSET Resources]
    BY <1>3, <1>7, <1>13, <2>1 DEF Raise, ConnectorTypeOK
  <2>3. /\ pc' \in [Tasks -> Steps \cup {"idle", "queued", "returned", "over"}]
        /\ verdict' \in [Tasks -> Outcomes \cup {None}]
    BY <1>2, <1>3, <1>4, <1>13, <2>1 DEF Raise
  <2> QED BY <1>13, <2>1, <2>2, <2>3 DEF Raise, ConnectorTypeOK
<1>14. CASE Deliver(t)
  <2>1. Wrapped(job[t], verdict[t]) \in Outcomes \cup {"none", None}
    BY <1>4 DEF Wrapped, Outcomes
  <2> QED BY <1>14, <2>1 DEF Deliver, ConnectorTypeOK
<1>15. CASE Drop(t)
  BY <1>15 DEF Drop, ConnectorTypeOK
<1>16. CASE CancelAwait(t)
  <2>1. pc[t] \in Steps
    BY <1>16 DEF CancelAwait, CanStep
  <2>2. open' \in [Tasks -> SUBSET Resources]
    BY <1>3, <1>7, <1>16, <2>1 DEF CancelAwait, ConnectorTypeOK
  <2>3. /\ pc' \in [Tasks -> Steps \cup {"idle", "queued", "returned", "over"}]
        /\ verdict' \in [Tasks -> Outcomes \cup {None}]
    BY <1>2, <1>3, <1>16, <2>1 DEF CancelAwait, Outcomes
  <2> QED BY <1>16, <2>1, <2>2, <2>3 DEF CancelAwait, ConnectorTypeOK
<1>17. CASE CancelThread(t)
  BY <1>17 DEF CancelThread, ConnectorTypeOK, Outcomes
<1> QED BY <1>8, <1>9, <1>10, <1>11, <1>12, <1>13, <1>14, <1>15, <1>16, <1>17 DEF Proceed

-----------------------------------------------------------------------------
(* One task.                                                               *)

TaskInv(t) ==
  /\ WaitingInv(t) /\ RunningInv(t) /\ EndedInv(t) /\ AnswerInv(t)
  /\ CleansUp(t) /\ IsHonest(t) /\ IsWhole(t)

\* A step of one task leaves the others as they are: no two of them can keep
\* the loop waiting.
LEMMA OtherTask ==
  ASSUME NEW u \in Tasks, TaskInv(u),
         job'[u] = job[u], pc'[u] = pc[u], open'[u] = open[u], verdict'[u] = verdict[u],
         answer'[u] = answer[u], faults'[u] = faults[u], u \in woken' <=> u \in woken,
         holder' = u <=> holder = u
  PROVE  TaskInv(u)'
<1>1. WaitingInv(u)'
  BY DEF TaskInv, WaitingInv
<1>2. RunningInv(u)'
  BY DEF TaskInv, RunningInv
<1>3. EndedInv(u)'
  BY DEF TaskInv, EndedInv, Ended
<1>4. AnswerInv(u)'
  BY DEF TaskInv, AnswerInv
<1>5. CleansUp(u)'
  BY DEF TaskInv, CleansUp, Checked, Ended
<1>6. IsHonest(u)'
  BY DEF TaskInv, IsHonest, Checked, Ended
<1>7. IsWhole(u)'
  BY DEF TaskInv, IsWhole, Ended
<1> QED BY <1>1, <1>2, <1>3, <1>4, <1>5, <1>6, <1>7 DEF TaskInv

\* The calling task: Begin, Refuse, Take.
LEMMA BeginTask ==
  ASSUME ConnectorTypeOK, NEW t \in Tasks, TaskInv(t), Begin(t) \/ Refuse(t) \/ Take(t)
  PROVE  TaskInv(t)'
<1>0. /\ job[t] \in Job /\ job'[t] = job[t] /\ pc[t] \in {"idle", "queued"}
      /\ open'[t] = {} /\ answer'[t] = None /\ woken' = woken /\ t \notin woken
  BY DEF Begin, Refuse, Take, TaskInv, WaitingInv, ConnectorTypeOK
<1>1. CASE Begin(t) /\ Place(job[t]) = "pool"
  <2>1. /\ pc'[t] = "queued" /\ verdict'[t] = None /\ faults'[t] = {} /\ holder' = None
    BY <1>1 DEF Begin, TaskInv, WaitingInv, ConnectorTypeOK
  <2> QED BY <1>0, <1>1, <2>1, AllSteps, OutcomesAssumption, ConnectorAssumption
          DEF TaskInv, WaitingInv, RunningInv, EndedInv, AnswerInv, Outcomes, CleansUp, IsHonest, IsWhole, Checked, Ended
<1>2. CASE Take(t) \/ (Begin(t) /\ Place(job[t]) # "pool")
  <2>1. /\ pc'[t] = First(job[t]) /\ verdict'[t] = None /\ faults'[t] = {}
        /\ Place(job[t]) = "private" => holder' = t
        /\ holder' = t => Place(job[t]) = "private"
    BY <1>2, ConnectorAssumption DEF Begin, Take, TaskInv, WaitingInv, AnswerInv, ConnectorTypeOK
  <2>2. MayBeAt(job[t], First(job[t])) /\ Holding(First(job[t])) = {} /\ First(job[t]) \in Steps
    BY <1>0, FirstStep
  <2>3. First(job[t]) \notin {"idle", "queued", "returned", "over"}
    BY <2>2, AllSteps
  <2>4. RunningInv(t)'
    BY <1>0, <2>1, <2>2 DEF RunningInv, MayBeAt
  <2> QED BY <1>0, <2>1, <2>2, <2>3, <2>4
          DEF TaskInv, WaitingInv, EndedInv, AnswerInv, CleansUp, IsHonest, IsWhole, Checked, Ended
<1>3. CASE Refuse(t)
  <2>1. /\ pc'[t] = "returned" /\ verdict'[t] = "raised" /\ faults'[t] = {"resolve"}
        /\ holder' = holder /\ holder = None
    BY <1>3 DEF Refuse, ConnectorTypeOK, LoopFree
  <2>2. WaitingInv(t)' /\ RunningInv(t)'
    BY <2>1, AllSteps DEF WaitingInv, RunningInv
  <2>3. EndedInv(t)'
    BY <1>0, <2>1, OutcomesAssumption DEF EndedInv, Outcomes
  <2>4. AnswerInv(t)'
    BY <1>0, <2>1, ConnectorAssumption DEF AnswerInv
  <2>5. CleansUp(t)' /\ IsHonest(t)' /\ IsWhole(t)'
    BY <1>0, <2>1, OutcomesAssumption DEF CleansUp, IsHonest, IsWhole, Checked, Ended, Outcomes
  <2> QED BY <2>2, <2>3, <2>4, <2>5 DEF TaskInv
<1> QED BY <1>1, <1>2, <1>3

\* What holds while a call is at a step.
LEMMA AtStep ==
  ASSUME ConnectorTypeOK, NEW t \in Tasks, TaskInv(t), pc[t] \in Steps
  PROVE  /\ job[t] \in Job /\ job[t].op \in {"check", "client"} /\ job[t].connector \in Connectors
         /\ MayBeAt(job[t], pc[t])
         /\ pc[t] \notin {"idle", "queued", "returned", "over"}
         /\ "returned" \notin Steps
         /\ answer[t] # None => answer[t] = "cancelled" /\ Place(job[t]) = "pool" /\ t \in woken
         /\ verdict[t] # None => job[t].op = "check" /\ pc[t] \in {"quit", "close_admin"}
         /\ answer[t] # "raised"
<1>1. job[t] \in Job
  BY DEF ConnectorTypeOK
<1>2. job[t].op \in {"check", "client"} /\ job[t].connector \in Connectors
  BY <1>1 DEF Job
<1>3. MayBeAt(job[t], pc[t])
  BY DEF TaskInv, RunningInv, MayBeAt
<1>4. pc[t] \notin {"idle", "queued", "returned", "over"} /\ "returned" \notin Steps
  BY AllSteps
<1>5. answer[t] # None => answer[t] = "cancelled" /\ Place(job[t]) = "pool" /\ t \in woken
  BY <1>4 DEF TaskInv, AnswerInv
<1>6. verdict[t] # None => job[t].op = "check" /\ pc[t] \in {"quit", "close_admin"}
  BY DEF TaskInv, RunningInv
<1>7. answer[t] # "raised"
  BY <1>5, OutcomesAssumption DEF Outcomes
<1> QED BY <1>1, <1>2, <1>3, <1>4, <1>5, <1>6, <1>7

\* The call goes to another step and keeps its verdict None.
LEMMA GoOn ==
  ASSUME ConnectorTypeOK, NEW t \in Tasks, TaskInv(t), pc[t] \in Steps, verdict[t] = None,
         NEW next, MayBeAt(job[t], next), next \in Steps,
         job'[t] = job[t], pc'[t] = next, verdict'[t] = None, open'[t] = Holding(next),
         faults'[t] \subseteq {"cwd", "chdir"}, answer' = answer, holder' = holder, woken' = woken
  PROVE  TaskInv(t)'
<1>1. next \notin {"idle", "queued", "returned", "over"}
  BY AllSteps
<1>2. RunningInv(t)'
  BY DEF RunningInv, TaskInv, MayBeAt
<1>3. WaitingInv(t)' /\ EndedInv(t)' /\ CleansUp(t)' /\ IsWhole(t)'
  BY <1>1 DEF WaitingInv, EndedInv, CleansUp, IsWhole, Checked, Ended
<1>4. AnswerInv(t)'
  BY <1>1, AtStep, OutcomesAssumption DEF AnswerInv, TaskInv, Outcomes
<1>5. IsHonest(t)'
  BY <1>1, AtStep DEF IsHonest, Checked, Ended
<1> QED BY <1>2, <1>3, <1>4, <1>5 DEF TaskInv

\* The call returns.
LEMMA Return ==
  ASSUME ConnectorTypeOK, NEW t \in Tasks, TaskInv(t), pc[t] \in Steps,
         job'[t] = job[t], pc'[t] = "returned", answer' = answer, holder' = holder, woken' = woken,
         verdict'[t] \in Outcomes, verdict'[t] # None,
         faults[t] \subseteq faults'[t],
         verdict[t] = "cancelled" => verdict'[t] = "cancelled" \/ "close_admin" \in faults'[t],
         verdict'[t] = "raised" => job[t].op = "client" /\ faults'[t] # {},
         verdict'[t] = "cancelled" => job[t].op = "check" /\ Place(job[t]) = "loop" /\ t \in woken,
         verdict'[t] \in {"connected", "failed"} => job[t].op = "check",
         verdict'[t] = "client" => job[t].op = "client" /\ open'[t] = ClientHolds(job[t].connector),
         verdict'[t] = "connected" => faults'[t] \subseteq Swallowing,
         verdict'[t] = "failed" => faults'[t] \cap Raising # {},
         verdict[t] # None => verdict'[t] \in {"failed", "cancelled"},
         CleansUp(t)'
  PROVE  TaskInv(t)'
<1>1. WaitingInv(t)' /\ RunningInv(t)'
  BY AllSteps DEF WaitingInv, RunningInv
<1>2. EndedInv(t)'
  BY Zenon DEF EndedInv, Ended, Outcomes
<1>3. AnswerInv(t)'
  BY AtStep, OutcomesAssumption DEF AnswerInv, TaskInv, Outcomes
<1>4. IsHonest(t)'
  BY AtStep DEF IsHonest, Checked, Ended
<1>5. IsWhole(t)'
  BY DEF IsWhole, Ended
<1> QED BY <1>1, <1>2, <1>3, <1>4, <1>5 DEF TaskInv

\* A step that succeeds.
LEMMA SucceedTask ==
  ASSUME ConnectorTypeOK, NEW t \in Tasks, TaskInv(t), Succeed(t)
  PROVE  TaskInv(t)'
<1> DEFINE next == After(job[t], pc[t])
           left == (Holding(pc[t]) \cup Opens(pc[t])) \ Closes(pc[t])
<1>0. /\ pc[t] \in Steps /\ job' = job /\ pc'[t] = next /\ answer' = answer /\ holder' = holder
      /\ faults' = faults /\ woken' = woken
      /\ open'[t] = (open[t] \cup Opens(pc[t])) \ Closes(pc[t])
      /\ verdict'[t] = IF verdict[t] = None /\ next = "returned" THEN Good(job[t]) ELSE verdict[t]
  BY DEF Succeed, CanStep, Go, ConnectorTypeOK
<1>1. \/ next # "returned" /\ MayBeAt(job[t], next) /\ left = Holding(next)
      \/ next = "returned" /\ left = IF job[t].op = "check" THEN {} ELSE ClientHolds(job[t].connector)
  BY <1>0, AtStep, NextStep
<1>2. CASE verdict[t] = None
  <2>1. open'[t] = left /\ faults[t] \subseteq {"cwd", "chdir"}
    BY <1>0, <1>2 DEF TaskInv, RunningInv
  <2>2. CASE next # "returned"
    <3>1. MayBeAt(job[t], next) /\ next \in Steps
      BY <1>0, <1>1, <2>2, AtStep DEF MayBeAt, Steps
    <3> QED BY <1>0, <1>1, <1>2, <2>1, <2>2, <3>1, GoOn
  <2>3. CASE next = "returned"
    <3>1. verdict'[t] = Good(job[t]) /\ job[t].op \in {"check", "client"}
      BY <1>0, <1>2, <2>3, AtStep
    <3>2. open'[t] = IF job[t].op = "check" THEN {} ELSE ClientHolds(job[t].connector)
      BY <1>1, <2>1, <2>3
    <3>3. CleansUp(t)'
      BY <1>0, <3>2 DEF CleansUp, Checked
    <3>4. /\ verdict'[t] \in Outcomes /\ verdict'[t] # None
          /\ verdict'[t] = IF job[t].op = "check" THEN "connected" ELSE "client"
      BY <3>1, OutcomesAssumption DEF Good, Outcomes
    <3>5. faults'[t] \subseteq Swallowing
      BY <1>0, <2>1 DEF Swallowing
    <3>6. verdict[t] # "cancelled"
      BY <1>2, OutcomesAssumption DEF Outcomes
    <3> HIDE DEF next, left
    <3> QED BY <1>0, <1>2, <2>3, <3>1, <3>2, <3>3, <3>4, <3>5, <3>6, Return
  <2> QED BY <2>2, <2>3
<1>3. CASE verdict[t] # None
  <2>1. /\ job[t].op = "check" /\ pc[t] \in {"quit", "close_admin"} /\ open[t] \subseteq Holding(pc[t])
        /\ \/ verdict[t] = "failed" /\ faults[t] \cap Raising # {}
           \/ verdict[t] = "cancelled" /\ Place(job[t]) = "loop" /\ t \in woken
    BY <1>0, <1>3 DEF TaskInv, RunningInv
  <2>2. next = "returned" /\ open'[t] = {}
    <3>1. open'[t] = {}
      BY <1>0, <2>1 DEF Holding, Opens, Closes
    <3>2. \/ pc[t] = "quit" /\ job[t].connector = "ftp"
          \/ pc[t] = "close_admin" /\ job[t].connector \in {"kafka", "kafka_async"}
      BY <1>0, <2>1, AtStep, StepsTable DEF MayBeAt, Connectors, Threaded, OnLoop, SQL
    <3>3. next = "returned"
      <4>1. next = StepsOf(job[t].connector)[pc[t]]
        BY <2>1 DEF After
      <4>2. CASE pc[t] = "quit"
        BY <3>2, <4>1, <4>2 DEF StepsOf, FTPSteps
      <4>3. CASE pc[t] = "close_admin" /\ job[t].connector = "kafka"
        BY <4>1, <4>3 DEF StepsOf, KafkaSteps
      <4>4. CASE pc[t] = "close_admin" /\ job[t].connector = "kafka_async"
        BY <4>1, <4>4 DEF StepsOf, AsyncKafkaSteps
      <4> QED BY <3>2, <4>2, <4>3, <4>4
    <3> QED BY <3>1, <3>3
  <2>3. CleansUp(t)'
    BY <2>2 DEF CleansUp
  <2>4. verdict'[t] = verdict[t] /\ verdict[t] \in Outcomes
    BY <1>0, <1>3, <2>1 DEF Outcomes
  <2> HIDE DEF next, left
  <2> QED BY <1>0, <1>3, <2>1, <2>2, <2>3, <2>4, Return
<1> QED BY <1>2, <1>3

\* A step whose exception is swallowed.
LEMMA SwallowTask ==
  ASSUME ConnectorTypeOK, NEW t \in Tasks, TaskInv(t), Swallow(t)
  PROVE  TaskInv(t)'
<1> DEFINE next == AfterSwallow(job[t], pc[t])
<1>0. PICK lost \in SUBSET Closes(pc[t]) :
        /\ pc[t] \in Steps /\ pc[t] \in Swallowing
        /\ job' = job /\ pc'[t] = next /\ answer' = answer /\ holder' = holder /\ woken' = woken
        /\ faults'[t] = faults[t] \cup {pc[t]}
        /\ open'[t] = open[t] \ lost /\ (pc[t] = "quit" => lost = Closes("quit"))
        /\ verdict'[t] = IF verdict[t] = None /\ next = "returned" THEN Good(job[t]) ELSE verdict[t]
  BY DEF Swallow, CanStep, Go, ConnectorTypeOK
<1>1. /\ job[t] \in Job /\ MayBeAt(job[t], pc[t]) /\ job[t].op \in {"check", "client"}
      /\ verdict[t] # None => job[t].op = "check" /\ pc[t] \in {"quit", "close_admin"}
  BY <1>0, AtStep
<1>2. \/ /\ pc[t] \in {"cwd", "chdir"} /\ next = After(job[t], pc[t])
         /\ Opens(pc[t]) = {} /\ Closes(pc[t]) = {}
      \/ pc[t] = "quit" /\ next = "returned" /\ job[t].connector = "ftp"
      \/ pc[t] \in {"close_sftp", "close_ssh"} /\ next = "returned" /\ job[t].connector = "sftp"
  BY <1>0, <1>1, SwallowStep
<1>3. CASE pc[t] \in {"cwd", "chdir"}
  <2>1. verdict[t] = None /\ open'[t] = Holding(pc[t]) /\ faults'[t] \subseteq {"cwd", "chdir"}
    BY <1>0, <1>1, <1>2, <1>3 DEF TaskInv, RunningInv
  <2>2. \/ next # "returned" /\ MayBeAt(job[t], next) /\ open'[t] = Holding(next)
        \/ /\ next = "returned"
           /\ open'[t] = IF job[t].op = "check" THEN {} ELSE ClientHolds(job[t].connector)
    <3>1. (Holding(pc[t]) \cup Opens(pc[t])) \ Closes(pc[t]) = open'[t]
      BY <1>2, <1>3, <2>1
    <3> QED BY <1>1, <1>2, <1>3, <3>1, NextStep
  <2>3. CASE next # "returned"
    <3>1. MayBeAt(job[t], next) /\ next \in Steps
      BY <1>1, <2>2, <2>3, AtStep DEF MayBeAt, Steps, Job
    <3> QED BY <1>0, <2>1, <2>2, <2>3, <3>1, GoOn
  <2>4. CASE next = "returned"
    <3>1. CleansUp(t)'
      BY <1>0, <2>2, <2>4 DEF CleansUp, Checked
    <3>2. /\ verdict'[t] \in Outcomes /\ verdict'[t] # None
          /\ verdict'[t] = IF job[t].op = "check" THEN "connected" ELSE "client"
      BY <1>0, <2>1, <2>4, OutcomesAssumption DEF Good, Outcomes
    <3>3. faults'[t] \subseteq Swallowing /\ verdict[t] # "cancelled"
      BY <2>1, OutcomesAssumption DEF Swallowing, Outcomes
    <3> HIDE DEF next
    <3> QED BY <1>0, <1>1, <2>1, <2>2, <2>4, <3>1, <3>2, <3>3, Return
  <2> QED BY <2>3, <2>4
<1>4. CASE pc[t] \in {"quit", "close_sftp", "close_ssh"}
  <2>1. next = "returned" /\ job[t].op = "check"
    BY <1>1, <1>2, <1>4 DEF MayBeAt, Making
  <2>2. /\ verdict[t] = None => faults[t] \subseteq {"cwd", "chdir"}
        /\ verdict[t] # None => \/ verdict[t] = "failed" /\ faults[t] \cap Raising # {}
                                \/ verdict[t] = "cancelled" /\ Place(job[t]) = "loop" /\ t \in woken
        /\ open[t] \subseteq Holding(pc[t])
    BY <1>0 DEF TaskInv, RunningInv
  <2>3. CleansUp(t)'
    <3>1. CASE pc[t] = "quit"
      <4>1. open'[t] = {}
        BY <1>0, <2>2, <3>1 DEF Holding, Closes
      <4> QED BY <4>1 DEF CleansUp
    <3>2. CASE pc[t] \in {"close_sftp", "close_ssh"}
      <4>1. job'[t].connector = "sftp" /\ faults'[t] \cap {"close_sftp", "close_ssh"} # {}
        BY <1>0, <1>2, <3>2
      <4> QED BY <4>1 DEF CleansUp
    <3> QED BY <1>4, <3>1, <3>2
  <2>4. CASE verdict[t] = None
    <3>1. verdict'[t] = "connected" /\ verdict'[t] \in Outcomes /\ verdict'[t] # None
      BY <1>0, <2>1, <2>4, OutcomesAssumption DEF Good, Outcomes
    <3>2. faults'[t] \subseteq Swallowing /\ verdict[t] # "cancelled"
      BY <1>0, <2>2, <2>4, OutcomesAssumption DEF Swallowing, Outcomes
    <3> HIDE DEF next
    <3> QED BY <1>0, <2>1, <2>3, <2>4, <3>1, <3>2, Return
  <2>5. CASE verdict[t] # None
    <3>1. verdict'[t] = verdict[t] /\ verdict[t] \in Outcomes
      BY <1>0, <2>2, <2>5 DEF Outcomes
    <3> HIDE DEF next
    <3> QED BY <1>0, <2>1, <2>2, <2>3, <2>5, <3>1, Return
  <2> QED BY <2>4, <2>5
<1> QED BY <1>0, <1>3, <1>4 DEF Swallowing

\* The call goes to its finally block.
LEMMA GoToCleanup ==
  ASSUME ConnectorTypeOK, NEW t \in Tasks, TaskInv(t), pc[t] \in Steps, verdict[t] = None,
         NEW next \in {"quit", "close_admin"}, MayBeAt(job[t], next), job[t].op = "check",
         job'[t] = job[t], pc'[t] = next, answer' = answer, holder' = holder,
         open'[t] \subseteq Holding(next),
         \/ /\ verdict'[t] = "failed" /\ faults'[t] \cap Raising # {} /\ woken' = woken
         \/ /\ verdict'[t] = "cancelled" /\ Place(job[t]) = "loop" /\ woken' = woken \cup {t}
  PROVE  TaskInv(t)'
<1>1. next \notin {"idle", "queued", "returned", "over"} /\ next \in Steps /\ verdict'[t] # None
  BY AllSteps, OutcomesAssumption DEF Outcomes
<1>2. RunningInv(t)'
  BY <1>1 DEF RunningInv, TaskInv, MayBeAt
<1>3. WaitingInv(t)' /\ EndedInv(t)' /\ CleansUp(t)' /\ IsWhole(t)'
  BY <1>1 DEF WaitingInv, EndedInv, CleansUp, IsWhole, Checked, Ended
<1>4. AnswerInv(t)'
  <2>1. t \in woken => answer[t] = "cancelled"
    BY <1>1, AtStep, OutcomesAssumption DEF AnswerInv, TaskInv, Outcomes
  <2> QED BY <1>1, <2>1, AtStep DEF AnswerInv, TaskInv
<1>5. IsHonest(t)'
  BY <1>1, AtStep DEF IsHonest, Checked, Ended
<1> QED BY <1>2, <1>3, <1>4, <1>5 DEF TaskInv

\* Which steps lead to a finally block, and what is open there.
LEMMA CleanupStep ==
  ASSUME NEW j \in Job, NEW s, MayBeAt(j, s)
  PROVE  \/ /\ s = "pwd" /\ Cleanup(s) = "quit" /\ j.op = "check" /\ MayBeAt(j, "quit")
            /\ Holding(s) \cup Opens(s) = Holding("quit")
         \/ /\ s \in {"start", "list_topics"} /\ Cleanup(s) = "close_admin" /\ j.op = "check"
            /\ MayBeAt(j, "close_admin") /\ Holding(s) \cup Opens(s) = Holding("close_admin")
         \/ s \notin {"pwd", "start", "list_topics"} /\ Cleanup(s) = "returned"
<1>0. j.op \in {"check", "client"} /\ j.connector \in Connectors
  BY DEF Job
<1>1. CASE s = "pwd"
  <2>1. j.connector = "ftp"
    BY <1>0, <1>1, StepsTable DEF MayBeAt, Connectors, Threaded, OnLoop, SQL
  <2>2. j.op = "check" /\ MayBeAt(j, "quit")
    BY <1>0, <1>1, <2>1, StepsTable DEF MayBeAt, Making
  <2> QED BY <1>1, <2>2 DEF Cleanup, Holding, Opens
<1>2. CASE s \in {"start", "list_topics"}
  <2>1. j.connector \in {"kafka", "kafka_async"}
    BY <1>0, <1>2, StepsTable DEF MayBeAt, Connectors, Threaded, OnLoop, SQL
  <2>2. j.op = "check" /\ MayBeAt(j, "close_admin")
    BY <1>0, <1>2, <2>1, StepsTable DEF MayBeAt, Making
  <2>3. Holding(s) \cup Opens(s) = Holding("close_admin")
    BY <1>2 DEF Holding, Opens
  <2> QED BY <1>2, <2>2, <2>3 DEF Cleanup
<1> QED BY <1>1, <1>2 DEF Cleanup

\* An exception that leaves FTP and SFTP without a client in hand.
LEMMA FailedCreation ==
  ASSUME NEW j \in Job, NEW s \in Raising, MayBeAt(j, s), j.op = "check", Cleanup(s) = "returned",
         NEW left, left \subseteq Holding(s) \cup Opens(s), left # {}
  PROVE  /\ j.connector = "ftp" => s \in {"dial", "login", "cwd"}
         /\ j.connector = "sftp" => s \in {"ssh_connect", "open_sftp"}
         /\ j.connector \in {"kafka", "kafka_async"} => s \in {"admin", "close_admin"}
<1>1. CASE j.connector = "ftp"
  BY <1>1, StepsTable DEF MayBeAt, Raising, Cleanup, Holding, Opens
<1>2. CASE j.connector = "sftp"
  BY <1>2, StepsTable DEF MayBeAt, Raising, Cleanup, Holding, Opens
<1>3. CASE j.connector \in {"kafka", "kafka_async"}
  BY <1>3, StepsTable DEF MayBeAt, Raising, Cleanup, Holding, Opens
<1> QED BY <1>1, <1>2, <1>3

\* A step whose exception is not swallowed.
LEMMA RaiseTask ==
  ASSUME ConnectorTypeOK, NEW t \in Tasks, TaskInv(t), Raise(t)
  PROVE  TaskInv(t)'
<1> DEFINE next == Cleanup(pc[t])
<1>0. PICK gained \in SUBSET Opens(pc[t]), lost \in SUBSET Closes(pc[t]) :
        /\ pc[t] \in Steps /\ pc[t] \in Raising
        /\ job' = job /\ pc'[t] = next /\ answer' = answer /\ holder' = holder /\ woken' = woken
        /\ faults'[t] = faults[t] \cup {pc[t]}
        /\ open'[t] = (open[t] \cup gained) \ lost
        /\ verdict'[t] = IF Bad(job[t]) = None /\ next = "returned" THEN Good(job[t]) ELSE Bad(job[t])
  BY DEF Raise, CanStep, Go, ConnectorTypeOK
<1>1. /\ job[t] \in Job /\ MayBeAt(job[t], pc[t]) /\ job[t].op \in {"check", "client"}
      /\ verdict[t] # None => job[t].op = "check" /\ pc[t] \in {"quit", "close_admin"}
  BY <1>0, AtStep
<1>2. /\ verdict'[t] = IF job[t].op = "check" THEN "failed" ELSE "raised"
      /\ verdict'[t] \in Outcomes /\ verdict'[t] # None
  BY <1>0, OutcomesAssumption DEF Bad, Outcomes
<1>3. /\ verdict[t] = None => open[t] = Holding(pc[t]) /\ faults[t] \subseteq {"cwd", "chdir"}
      /\ open[t] \subseteq Holding(pc[t])
      /\ verdict[t] # None => verdict[t] \in {"failed", "cancelled"}
      /\ verdict[t] = "cancelled" => t \in woken
  BY <1>0, OutcomesAssumption DEF TaskInv, RunningInv, Outcomes
<1>4. faults'[t] \cap Raising # {} /\ faults'[t] # {}
  BY <1>0
<1>5. open'[t] \subseteq Holding(pc[t]) \cup Opens(pc[t])
  BY <1>0, <1>3
<1>6. CASE pc[t] \in {"pwd", "start", "list_topics"}
  <2>1. /\ next \in {"quit", "close_admin"} /\ job[t].op = "check" /\ MayBeAt(job[t], next)
        /\ Holding(pc[t]) \cup Opens(pc[t]) = Holding(next)
    BY <1>1, <1>6, CleanupStep
  <2>2. verdict[t] = None
    BY <1>1, <1>6
  <2> HIDE DEF next
  <2> QED BY <1>0, <1>2, <1>4, <1>5, <2>1, <2>2, GoToCleanup
<1>7. CASE pc[t] \notin {"pwd", "start", "list_topics"}
  <2>1. next = "returned"
    BY <1>7 DEF Cleanup
  <2>2. verdict[t] # None => pc[t] = "close_admin"
    BY <1>0, <1>1 DEF Raising
  <2>3. CleansUp(t)'
    <3> SUFFICES ASSUME job[t].op = "check", open'[t] # {}
                 PROVE  CleansUp(t)'
      BY <1>0 DEF CleansUp, Checked
    <3>1. /\ job[t].connector = "ftp" => pc[t] \in {"dial", "login", "cwd"}
          /\ job[t].connector = "sftp" => pc[t] \in {"ssh_connect", "open_sftp"}
          /\ job[t].connector \in {"kafka", "kafka_async"} => pc[t] \in {"admin", "close_admin"}
      BY <1>0, <1>1, <1>5, <2>1, FailedCreation
    <3>2. verdict'[t] = "failed" /\ job'[t] = job[t]
      BY <1>0, <1>2
    <3>3. job[t].connector = "ftp" => "pwd" \notin faults'[t]
      BY <1>0, <1>3, <2>2, <3>1
    <3> QED BY <1>0, <3>1, <3>2, <3>3 DEF CleansUp
  <2>4. verdict[t] = "cancelled" => "close_admin" \in faults'[t]
    BY <1>0, <2>2, OutcomesAssumption DEF Outcomes
  <2>5. verdict[t] # None => verdict'[t] = "failed"
    BY <1>1, <1>2
  <2>6. faults[t] \subseteq faults'[t]
    BY <1>0
  <2> HIDE DEF next
  <2> QED BY <1>0, <1>1, <1>2, <1>4, <2>1, <2>3, <2>4, <2>5, <2>6, Return
<1> QED BY <1>6, <1>7

\* The calling task is woken by a cancellation on the loop.
LEMMA CancelAwaitTask ==
  ASSUME ConnectorTypeOK, NEW t \in Tasks, TaskInv(t), CancelAwait(t)
  PROVE  TaskInv(t)'
<1> DEFINE next == Cleanup(pc[t])
<1>0. /\ pc[t] \in Steps /\ Place(job[t]) = "loop" /\ pc[t] \in Awaiting /\ t \notin woken
      /\ job' = job /\ pc'[t] = next /\ answer' = answer /\ holder' = holder /\ faults' = faults
      /\ open'[t] \subseteq open[t] \cup Opens(pc[t])
      /\ woken' = woken \cup {t}
      /\ verdict'[t] = "cancelled"
  BY OutcomesAssumption DEF CancelAwait, CanStep, Go, ConnectorTypeOK, Outcomes
<1>1. /\ job[t] \in Job /\ MayBeAt(job[t], pc[t]) /\ job[t].op \in {"check", "client"}
      /\ verdict[t] # None => job[t].op = "check" /\ pc[t] \in {"quit", "close_admin"}
      /\ answer[t] = None
  BY <1>0, AtStep
<1>2. job[t].connector \in {"sql_async", "kafka_async"}
  BY <1>0 DEF Place, OnLoop
<1>3. job[t].op = "check"
  BY <1>0, <1>1, <1>2 DEF MayBeAt, Making, Awaiting, SQL
<1>4. CASE pc[t] \in {"start", "list_topics"}
  <2>1. /\ next = "close_admin" /\ MayBeAt(job[t], next)
        /\ Holding(pc[t]) \cup Opens(pc[t]) = Holding(next)
    BY <1>1, <1>4, CleanupStep
  <2>2. verdict[t] = None /\ open[t] = Holding(pc[t])
    BY <1>0, <1>1, <1>4 DEF TaskInv, RunningInv
  <2>3. open'[t] \subseteq Holding(next)
    BY <1>0, <2>1, <2>2
  <2> HIDE DEF next
  <2> QED BY <1>0, <1>1, <1>3, <2>1, <2>2, <2>3, GoToCleanup
<1>5. CASE pc[t] \notin {"start", "list_topics"}
  <2>1. pc'[t] = "returned"
    BY <1>0, <1>5 DEF Cleanup, Awaiting
  <2>2. WaitingInv(t)' /\ RunningInv(t)'
    BY <2>1, AllSteps DEF WaitingInv, RunningInv
  <2>3. EndedInv(t)'
    BY <1>0, <1>3, OutcomesAssumption DEF EndedInv, Outcomes
  <2>4. AnswerInv(t)'
    BY <1>0, <1>1, <2>1 DEF AnswerInv, TaskInv
  <2>5. CleansUp(t)'
    BY <1>0, <1>2 DEF CleansUp
  <2>6. IsHonest(t)' /\ IsWhole(t)'
    BY <1>0, <1>1, <1>3, <2>1, OutcomesAssumption DEF IsHonest, IsWhole, Checked, Ended, Outcomes
  <2> QED BY <2>2, <2>3, <2>4, <2>5, <2>6 DEF TaskInv
<1> QED BY <1>4, <1>5

\* The task gets its answer.
LEMMA DeliverTask ==
  ASSUME ConnectorTypeOK, NEW t \in Tasks, TaskInv(t), Deliver(t)
  PROVE  TaskInv(t)'
<1>0. /\ pc[t] = "returned" /\ answer[t] = None /\ pc'[t] = "over" /\ holder' = None
      /\ job' = job /\ open' = open /\ verdict' = verdict /\ faults' = faults /\ woken' = woken
      /\ answer'[t] = Wrapped(job[t], verdict[t])
  BY DEF Deliver, ConnectorTypeOK
<1>1. verdict[t] \in Outcomes /\ verdict[t] # None /\ Ended(t) /\ job[t] \in Job
  BY <1>0, OutcomesAssumption DEF TaskInv, EndedInv, Ended, Outcomes, ConnectorTypeOK
<1>2. answer'[t] \in Outcomes \cup {"none"} /\ answer'[t] # None
  BY <1>0, <1>1, OutcomesAssumption DEF Wrapped, Outcomes
<1>3. WaitingInv(t)' /\ RunningInv(t)'
  BY <1>0, AllSteps DEF WaitingInv, RunningInv
<1>4. EndedInv(t)'
  BY <1>0, <1>1 DEF EndedInv, TaskInv, Ended
<1>5. AnswerInv(t)'
  <2>1. t \in woken => \/ verdict[t] = "cancelled"
                       \/ verdict[t] = "failed" /\ "close_admin" \in faults[t]
    BY <1>0, OutcomesAssumption DEF TaskInv, AnswerInv, Outcomes
  <2> QED BY <1>0, <1>1, <1>2, <2>1, ConnectorAssumption DEF AnswerInv
<1>6. CleansUp(t)' /\ IsWhole(t)'
  <2>1. CleansUp(t)'
    BY <1>0, <1>1 DEF CleansUp, TaskInv, Checked, Ended
  <2>2. ASSUME job[t].op = "client"
        PROVE  /\ verdict[t] = "client" => answer'[t] = "client"
               /\ verdict[t] \in {"client", "raised"}
               /\ verdict[t] = "raised" => faults[t] # {}
    BY <1>0, <1>1, <2>2 DEF TaskInv, EndedInv, Wrapped, Outcomes
  <2>3. IsWhole(t)'
    BY <1>0, <1>1, <2>2 DEF IsWhole, TaskInv, Ended
  <2> QED BY <2>1, <2>3
<1>7. IsHonest(t)'
  <2>1. Checked(t)' => Checked(t)
    BY <1>0 DEF Checked, Ended
  <2>2. answer'[t] = "raised" /\ job[t].op = "check" => ~job[t].legacy /\ faults[t] = {"resolve"}
    <3>1. verdict[t] = "raised" /\ job[t].op = "check" => faults[t] = {"resolve"}
      BY <1>1 DEF TaskInv, EndedInv
    <3> QED BY <1>0, <3>1 DEF Wrapped
  <2>3. t \in woken => answer'[t] = "cancelled" \/ (answer'[t] = "failed" /\ "close_admin" \in faults[t])
    <3>1. verdict[t] = "cancelled" => answer'[t] = "cancelled"
      BY <1>0 DEF Wrapped
    <3>2. verdict[t] = "failed" => answer'[t] = "failed"
      BY <1>0 DEF Wrapped
    <3> QED BY <1>0, <3>1, <3>2, OutcomesAssumption DEF TaskInv, AnswerInv, Outcomes
  <2>4. verdict[t] # "raised" => answer'[t] = verdict[t]
    BY <1>0 DEF Wrapped
  <2> QED BY <1>0, <2>1, <2>2, <2>3, <2>4 DEF IsHonest, TaskInv
<1> QED BY <1>3, <1>4, <1>5, <1>6, <1>7 DEF TaskInv

\* The answer of a call nobody waits for is dropped.
LEMMA DropTask ==
  ASSUME ConnectorTypeOK, NEW t \in Tasks, TaskInv(t), Drop(t)
  PROVE  TaskInv(t)'
<1>0. /\ pc[t] = "returned" /\ answer[t] # None /\ pc'[t] = "over" /\ holder' = holder
      /\ job' = job /\ open' = open /\ verdict' = verdict /\ faults' = faults /\ woken' = woken
      /\ answer' = answer
  BY DEF Drop, ConnectorTypeOK
<1>1. answer[t] = "cancelled" /\ Place(job[t]) = "pool" /\ t \in woken
  BY <1>0 DEF TaskInv, AnswerInv
<1>2. verdict[t] # None /\ Ended(t)
  BY <1>0, OutcomesAssumption DEF TaskInv, EndedInv, Ended, Outcomes
<1>3. WaitingInv(t)' /\ RunningInv(t)'
  BY <1>0, AllSteps DEF WaitingInv, RunningInv
<1>4. EndedInv(t)'
  BY <1>0, <1>2 DEF EndedInv, TaskInv, Ended
<1>5. AnswerInv(t)'
  <2>1. holder # t
    BY <1>1 DEF TaskInv, AnswerInv
  <2> QED BY <1>0, <1>1, <2>1 DEF AnswerInv
<1>6. CleansUp(t)' /\ IsWhole(t)'
  BY <1>0, <1>1, <1>2 DEF CleansUp, IsWhole, TaskInv, Checked, Ended
<1>7. IsHonest(t)'
  BY <1>0, <1>1, <1>2 DEF IsHonest, TaskInv, Checked, Ended
<1> QED BY <1>3, <1>4, <1>5, <1>6, <1>7 DEF TaskInv

\* The calling task is cancelled while a thread has, or was to have, its call.
LEMMA CancelThreadTask ==
  ASSUME ConnectorTypeOK, NEW t \in Tasks, TaskInv(t), CancelThread(t)
  PROVE  TaskInv(t)'
<1>0. /\ Place(job[t]) = "pool" /\ pc[t] \in Steps \cup {"queued", "returned"} /\ answer[t] = None
      /\ answer'[t] = "cancelled" /\ pc'[t] = IF pc[t] = "queued" THEN "over" ELSE pc[t]
      /\ job' = job /\ open' = open /\ verdict' = verdict /\ faults' = faults /\ holder' = holder
      /\ woken' = woken \cup {t} /\ job[t] \in Job
  BY DEF CancelThread, ConnectorTypeOK
<1>1. holder # t
  BY <1>0 DEF TaskInv, AnswerInv
<1>2. "cancelled" # None /\ "queued" \notin Steps /\ "over" \notin Steps
  BY AllSteps, OutcomesAssumption DEF Outcomes
<1>3. AnswerInv(t)'
  BY <1>0, <1>1, <1>2 DEF AnswerInv
<1>4. CASE pc[t] = "queued"
  <2>1. /\ pc'[t] = "over" /\ open[t] = {} /\ verdict[t] = None /\ faults[t] = {}
    BY <1>0, <1>4 DEF TaskInv, WaitingInv
  <2>2. WaitingInv(t)' /\ RunningInv(t)'
    BY <1>2, <2>1 DEF WaitingInv, RunningInv
  <2>3. EndedInv(t)'
    BY <1>0, <2>1, OutcomesAssumption DEF EndedInv, Outcomes
  <2>4. CleansUp(t)' /\ IsHonest(t)' /\ IsWhole(t)'
    BY <1>0, <2>1, OutcomesAssumption DEF CleansUp, IsHonest, IsWhole, Outcomes
  <2> QED BY <1>3, <2>2, <2>3, <2>4 DEF TaskInv
<1>5. CASE pc[t] # "queued"
  <2>1. pc'[t] = pc[t] /\ pc[t] \notin {"queued", "idle", "over"}
    BY <1>0, <1>2, <1>5, AllSteps
  <2>2. WaitingInv(t)' /\ RunningInv(t)'
    BY <1>0, <2>1 DEF WaitingInv, RunningInv, TaskInv
  <2>3. EndedInv(t)'
    <3>1. Ended(t) => verdict[t] # None
      BY <2>1, OutcomesAssumption DEF TaskInv, EndedInv, Ended, Outcomes
    <3> QED BY <1>0, <2>1, <3>1 DEF EndedInv, TaskInv, Ended
  <2>4. CleansUp(t)'
    BY <1>0, <2>1 DEF CleansUp, TaskInv, Checked, Ended
  <2>5. IsHonest(t)' /\ IsWhole(t)'
    BY <1>0, <2>1 DEF IsHonest, IsWhole, TaskInv, Checked, Ended
  <2> QED BY <1>3, <2>2, <2>3, <2>4, <2>5 DEF TaskInv
<1> QED BY <1>4, <1>5

\* The eight actions of a call.
LEMMA CallerTask ==
  ASSUME ConnectorTypeOK, NEW t \in Tasks, TaskInv(t),
         \/ Begin(t) \/ Refuse(t) \/ Take(t) \/ Proceed(t)
         \/ Deliver(t) \/ Drop(t) \/ CancelAwait(t) \/ CancelThread(t)
  PROVE  TaskInv(t)'
BY BeginTask, SucceedTask, SwallowTask, RaiseTask, DeliverTask, DropTask, CancelAwaitTask,
   CancelThreadTask DEF Proceed

\* What an action of one task leaves to another.
LEMMA Untouched ==
  ASSUME ConnectorTypeOK, NEW t \in Tasks, NEW u \in Tasks, u # t,
         \/ Begin(t) \/ Refuse(t) \/ Take(t) \/ Proceed(t)
         \/ Deliver(t) \/ Drop(t) \/ CancelAwait(t) \/ CancelThread(t)
  PROVE  /\ job'[u] = job[u] /\ pc'[u] = pc[u] /\ open'[u] = open[u] /\ verdict'[u] = verdict[u]
         /\ answer'[u] = answer[u] /\ faults'[u] = faults[u] /\ (u \in woken' <=> u \in woken)
         /\ holder' = u <=> holder = u
<1>0. u # None
  BY ConnectorAssumption
<1>1. CASE Begin(t) \/ Deliver(t)
  BY <1>0, <1>1 DEF Begin, Deliver, LoopFree, ConnectorTypeOK
<1>2. CASE Refuse(t) \/ Take(t) \/ Drop(t)
  BY <1>2 DEF Refuse, Take, Drop, ConnectorTypeOK
<1>3. CASE Succeed(t)
  BY <1>3 DEF Succeed, Go, ConnectorTypeOK
<1>4. CASE Swallow(t)
  BY <1>4 DEF Swallow, Go, ConnectorTypeOK
<1>5. CASE Raise(t)
  BY <1>5 DEF Raise, Go, ConnectorTypeOK
<1>6. CASE CancelAwait(t)
  BY <1>6 DEF CancelAwait, Go, ConnectorTypeOK
<1>7. CASE CancelThread(t)
  BY <1>7 DEF CancelThread, ConnectorTypeOK
<1> QED BY <1>1, <1>2, <1>3, <1>4, <1>5, <1>6, <1>7 DEF Proceed

-----------------------------------------------------------------------------
(* The invariant.                                                          *)

\* The invariant says the same of every task.
LEMMA InvIsTaskInv == ConnectorInv <=> ConnectorTypeOK /\ \A t \in Tasks : TaskInv(t)
BY DEF ConnectorInv, TaskInv, ChecksCleanUp, AnswersAreHonest, ClientsAreWhole

\* No call has begun.
LEMMA InvInit == ConnectorInit => ConnectorInv
<1> SUFFICES ASSUME ConnectorInit, NEW t \in Tasks
             PROVE  TaskInv(t)
  BY TypeInit, InvIsTaskInv
<1>1. /\ pc[t] = "idle" /\ open[t] = {} /\ verdict[t] = None /\ answer[t] = None /\ faults[t] = {}
      /\ t \notin woken /\ holder = None /\ t # None
  BY ConnectorAssumption DEF ConnectorInit
<1>2. WaitingInv(t) /\ RunningInv(t) /\ EndedInv(t)
  BY <1>1, AllSteps DEF WaitingInv, RunningInv, EndedInv, Ended
<1>3. AnswerInv(t) /\ CleansUp(t)
  BY <1>1 DEF AnswerInv, CleansUp, Checked, Ended
<1>4. IsHonest(t) /\ IsWhole(t)
  BY <1>1, OutcomesAssumption DEF IsHonest, IsWhole, Checked, Ended, Outcomes
<1> QED BY <1>2, <1>3, <1>4 DEF TaskInv

\* Every step keeps the invariant.
LEMMA InvStep == ConnectorInv /\ [ConnectorNext]_connectorVars => ConnectorInv'
<1> SUFFICES ASSUME ConnectorInv, [ConnectorNext]_connectorVars
             PROVE  ConnectorInv'
  OBVIOUS
<1>0. ConnectorTypeOK /\ \A t \in Tasks : TaskInv(t)
  BY InvIsTaskInv
<1>1. ASSUME NEW t \in Tasks,
             \/ Begin(t) \/ Refuse(t) \/ Take(t) \/ Proceed(t)
             \/ Deliver(t) \/ Drop(t) \/ CancelAwait(t) \/ CancelThread(t)
      PROVE  ConnectorTypeOK' /\ \A u \in Tasks : TaskInv(u)'
  <2>1. ConnectorTypeOK'
    BY <1>0, <1>1, TypeStep DEF TaskInv
  <2>2. TaskInv(t)'
    BY <1>0, <1>1, CallerTask
  <2>3. ASSUME NEW u \in Tasks, u # t
        PROVE  TaskInv(u)'
    BY <1>0, <1>1, <2>3, Untouched, OtherTask
  <2> QED BY <2>1, <2>2, <2>3
<1>2. ConnectorTypeOK' /\ (\A u \in Tasks : TaskInv(u)') => ConnectorInv'
  BY DEF ConnectorInv, TaskInv, ChecksCleanUp, AnswersAreHonest, ClientsAreWhole
<1>3. CASE UNCHANGED connectorVars
  <2>1. ConnectorTypeOK'
    BY <1>0, <1>3 DEF connectorVars, ConnectorTypeOK
  <2>2. ASSUME NEW u \in Tasks
        PROVE  TaskInv(u)'
    <3>1. /\ job' = job /\ pc' = pc /\ open' = open /\ verdict' = verdict /\ answer' = answer
          /\ faults' = faults /\ woken' = woken /\ holder' = holder
      BY <1>3 DEF connectorVars
    <3> QED BY <1>0, <3>1, OtherTask
  <2> QED BY <1>2, <2>1, <2>2
<1>4. ConnectorNext => ConnectorInv'
  BY <1>1, <1>2 DEF ConnectorNext
<1> QED BY <1>3, <1>4

\* At every moment of every run of the connectors each call is at a step of its
\* chain, holds what the steps before it opened, and its outcome and answer are
\* those its exceptions and cancellations call for.
THEOREM ConnectorSpecInv == ConnectorSpec => []ConnectorInv
BY InvInit, InvStep, PTL DEF ConnectorSpec

\* check() closes what it opened, except where the code cannot: connectors
\* sql.py:180, ftp.py:199 and 441, s3.py:75, kafka.py:79.
THEOREM ChecksCleanUpAlways == ConnectorSpec => []ChecksCleanUp
<1>1. ConnectorInv => ChecksCleanUp
  BY DEF ConnectorInv
<1> QED BY <1>1, ConnectorSpecInv, PTL

\* What check() answers is what happened.
THEOREM AnswersAreHonestAlways == ConnectorSpec => []AnswersAreHonest
<1>1. ConnectorInv => AnswersAreHonest
  BY DEF ConnectorInv
<1> QED BY <1>1, ConnectorSpecInv, PTL

\* get_client() hands over a whole client or none.
THEOREM ClientsAreWholeAlways == ConnectorSpec => []ClientsAreWhole
<1>1. ConnectorInv => ClientsAreWhole
  BY DEF ConnectorInv
<1> QED BY <1>1, ConnectorSpecInv, PTL

=============================================================================
