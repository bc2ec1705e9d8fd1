--------------------------- MODULE ConnectorCalls ---------------------------
(***************************************************************************)
(* The connectors at work: check() and get_client() of the SQL, FTP, SFTP, *)
(* S3 and Kafka connectors, called by the tasks of one event loop, and the *)
(* legacy connectors on top of them.                                       *)
(*                                                                         *)
(* A call runs on the loop (async SQL, aiokafka), in a worker of the       *)
(* loop's thread pool (asyncio.to_thread), or, for a synchronous legacy    *)
(* connector, in a thread with a loop of its own while the caller's loop   *)
(* waits for it in join().  A call is a chain of calls into the driver     *)
(* library, each of which may raise.                                       *)
(*                                                                         *)
(* "Open" is what the program has opened and not closed: what the garbage  *)
(* collector does later is left out.  The libraries are installed, the     *)
(* connection carries the models of its type, and a library call returns   *)
(* or raises in the end.                                                   *)
(***************************************************************************)
EXTENDS Naturals, FiniteSets

CONSTANTS
  Tasks,     \* the tasks of the event loop, each makes one call
  Workers,   \* the size of the loop's default thread pool
  Jobs,      \* which calls the tasks may make: a set of functions on Tasks
  None       \* Python's None

\* "sql_fallback" is the SQL connector that prefers the loop with a driver that
\* has no asynchronous dialect.
Threaded == {"sql", "sql_fallback", "ftp", "sftp", "s3", "kafka"}
OnLoop == {"sql_async", "kafka_async"}
SQL == {"sql", "sql_fallback", "sql_async"}
Connectors == Threaded \cup OnLoop

Job == [connector : Connectors, op : {"check", "client"}, legacy : BOOLEAN]

ASSUME ConnectorAssumption ==
  /\ Workers \in Nat \ {0}
  /\ Jobs \subseteq [Tasks -> Job]
  /\ None \notin Tasks

-----------------------------------------------------------------------------
(* What the connectors do: each step and the one after it                  *)

SQLSteps == [engine |-> "connect", connect |-> "execute", execute |-> "dispose",
             dispose |-> "returned"]
FTPSteps == [probe |-> "dial", dial |-> "login", login |-> "cwd", cwd |-> "pwd",
             pwd |-> "quit", quit |-> "returned"]
SFTPSteps == [ssh_probe |-> "ssh_connect", ssh_connect |-> "open_sftp", open_sftp |-> "chdir",
              chdir |-> "getcwd", getcwd |-> "close_sftp", close_sftp |-> "close_ssh",
              close_ssh |-> "returned"]
S3Steps == [s3_client |-> "list_objects", list_objects |-> "close_s3", close_s3 |-> "returned"]
KafkaSteps == [admin |-> "list_topics", list_topics |-> "close_admin",
               close_admin |-> "returned", producer |-> "returned"]
AsyncKafkaSteps == [admin_config |-> "start", start |-> "list_topics",
                    list_topics |-> "close_admin", close_admin |-> "returned",
                    producer_config |-> "returned"]

StepsOf(connector) ==
  CASE connector \in SQL -> SQLSteps
    [] connector = "ftp" -> FTPSteps
    [] connector = "sftp" -> SFTPSteps
    [] connector = "s3" -> S3Steps
    [] connector = "kafka" -> KafkaSteps
    [] connector = "kafka_async" -> AsyncKafkaSteps

Steps == UNION {DOMAIN StepsOf(c) : c \in Connectors}

\* get_client() makes the steps of check() up to the client, Kafka's its own.
First(j) ==
  LET check == j.op = "check" IN
  CASE j.connector \in SQL -> "engine"
    [] j.connector = "ftp" -> IF check THEN "probe" ELSE "dial"
    [] j.connector = "sftp" -> IF check THEN "ssh_probe" ELSE "ssh_connect"
    [] j.connector = "s3" -> "s3_client"
    [] j.connector = "kafka" -> IF check THEN "admin" ELSE "producer"
    [] j.connector = "kafka_async" -> IF check THEN "admin_config" ELSE "producer_config"

\* Mutant: get_client() goes on to the end of the check.
AfterCheckOnly(j, step) == StepsOf(j.connector)[step]

After(j, step) ==
  IF j.op = "client" /\ step \in {"engine", "cwd", "chdir", "s3_client"} THEN "returned"
  ELSE StepsOf(j.connector)[step]

\* What a step opens and closes on the server.  An engine, an S3 client and an
\* aiokafka client that was not started have no connection yet.
Resources == {"pooled", "ftp", "ssh", "sftp", "http", "admin", "producer"}

Opens(step) ==
  CASE step = "connect" -> {"pooled"}
    [] step = "dial" -> {"ftp"}
    [] step = "ssh_connect" -> {"ssh"}
    [] step = "open_sftp" -> {"sftp"}
    [] step = "list_objects" -> {"http"}
    [] step \in {"admin", "start"} -> {"admin"}
    [] step = "producer" -> {"producer"}
    [] OTHER -> {}

Closes(step) ==
  CASE step = "dispose" -> {"pooled"}
    [] step = "quit" -> {"ftp"}
    [] step = "close_sftp" -> {"sftp"}
    [] step = "close_ssh" -> {"ssh"}
    [] step = "close_s3" -> {"http"}
    [] step = "close_admin" -> {"admin"}
    [] OTHER -> {}

\* suppress(Exception), `except Exception: pass`: the exception ends here, and
\* close_ssh is skipped with close_sftp.  cwd lets error_perm pass only.
Swallowing == {"cwd", "chdir", "quit", "close_sftp", "close_ssh"}
Raising == Steps \ {"chdir", "getcwd", "quit", "close_sftp", "close_ssh"}

AfterSwallow(j, step) == IF step = "close_sftp" THEN "returned" ELSE After(j, step)

\* Mutant: the admin client is closed only after the topics were listed.
CleanupLate(step) == IF step = "pwd" THEN "quit" ELSE "returned"

\* Where an exception goes: into a finally block, which FTP has once the client
\* is in hand and Kafka once the admin client exists; SQL and S3 close nothing.
Cleanup(step) ==
  CASE step = "pwd" -> "quit"
    [] step \in {"start", "list_topics"} -> "close_admin"
    [] OTHER -> "returned"

\* Where a coroutine awaits, and a cancelled task is woken.
Awaiting == {"connect", "execute", "dispose", "start", "list_topics", "close_admin"}

\* Where the call runs.  The legacy AsyncSQLConnector is a coroutine of its
\* caller: with a synchronous driver it too takes a worker of the pool.
Place(j) ==
  CASE j.connector \in OnLoop -> "loop"
    [] j.connector = "sql_fallback" -> "pool"
    [] OTHER -> IF j.legacy THEN "private" ELSE "pool"

\* The outcome of a call that went well, and of one an exception left.
Good(j) == IF j.op = "check" THEN "connected" ELSE "client"
Bad(j) == IF j.op = "check" THEN "failed" ELSE "raised"

\* The legacy connectors answer some exceptions instead of passing them on.
Wrapped(j, outcome) ==
  CASE outcome = "raised" /\ j.legacy /\ j.op = "check" -> "failed"
    [] outcome = "raised" /\ j.legacy /\ j.connector \in {"ftp", "sftp", "s3", "sql_fallback", "sql_async"} ->
         "none"
    [] OTHER -> outcome

-----------------------------------------------------------------------------
VARIABLES
  job,      \* the call each task makes
  pc,       \* "idle", "queued" for a worker, the step it is at, "returned", "over"
  open,     \* what the call has opened and not closed
  verdict,  \* its outcome so far, None while all is well
  answer,   \* what the task got, None while it waits
  holder,   \* the task whose legacy call keeps the loop in join(), or None
  faults,   \* history: the steps that raised
  woken     \* history: the tasks that were cancelled

connectorVars == <<job, pc, open, verdict, answer, holder, faults, woken>>

Outcomes == {"connected", "client", "failed", "raised", "cancelled"}

ASSUME OutcomesAssumption == None \notin Outcomes \cup {"none"}

ConnectorTypeOK ==
  /\ job \in [Tasks -> Job]
  /\ pc \in [Tasks -> Steps \cup {"idle", "queued", "returned", "over"}]
  /\ open \in [Tasks -> SUBSET Resources]
  /\ verdict \in [Tasks -> Outcomes \cup {None}]
  /\ answer \in [Tasks -> Outcomes \cup {"none", None}]
  /\ holder \in Tasks \cup {None}
  /\ faults \in [Tasks -> SUBSET (Steps \cup {"resolve"})]
  /\ woken \in SUBSET Tasks

BusyWorkers == {t \in Tasks : pc[t] \in Steps /\ Place(job[t]) = "pool"}

\* What the event loop does, it does while no legacy call keeps it waiting.
LoopFree == holder = None

\* Mutant: every connector runs on the loop of its caller.
CanStepOneLoop(t) == pc[t] \in Steps /\ LoopFree

CanStep(t) == pc[t] \in Steps /\ (Place(job[t]) = "loop" => LoopFree)

\* Mutant: a finally block that went well makes the call good.
GoFresh(t, next, outcome) ==
  /\ pc' = [pc EXCEPT ![t] = next]
  /\ verdict' = [verdict EXCEPT ![t] = IF next = "returned" THEN Good(job[t]) ELSE outcome]

\* The call goes to step next; if that is its end, the outcome stands.
Go(t, next, outcome) ==
  /\ pc' = [pc EXCEPT ![t] = next]
  /\ verdict' = [verdict EXCEPT ![t] =
       IF outcome = None /\ next = "returned" THEN Good(job[t]) ELSE outcome]

ConnectorInit ==
  /\ job \in Jobs
  /\ pc = [t \in Tasks |-> "idle"]
  /\ open = [t \in Tasks |-> {}]
  /\ verdict = [t \in Tasks |-> None]
  /\ answer = [t \in Tasks |-> None]
  /\ holder = None
  /\ faults = [t \in Tasks |-> {}]
  /\ woken = {}

\* check() or get_client() is called.
Begin(t) ==
  /\ pc[t] = "idle" /\ LoopFree
  /\ pc' = [pc EXCEPT ![t] = IF Place(job[t]) = "pool" THEN "queued" ELSE First(job[t])]
  /\ holder' = IF Place(job[t]) = "private" THEN t ELSE None
  /\ UNCHANGED <<job, open, verdict, answer, faults, woken>>

\* The bridge of a legacy call or the choice of the SQL driver raises, outside
\* every try of the connector.
Refuse(t) ==
  /\ pc[t] = "idle" /\ LoopFree
  /\ job[t].legacy \/ job[t].connector \in SQL
  /\ pc' = [pc EXCEPT ![t] = "returned"]
  /\ verdict' = [verdict EXCEPT ![t] = "raised"]
  /\ faults' = [faults EXCEPT ![t] = {"resolve"}]
  /\ UNCHANGED <<job, open, answer, holder, woken>>

\* A worker of the pool takes the call.
Take(t) ==
  /\ pc[t] = "queued"
  /\ Cardinality(BusyWorkers) < Workers
  /\ pc' = [pc EXCEPT ![t] = First(job[t])]
  /\ UNCHANGED <<job, open, verdict, answer, holder, faults, woken>>

Succeed(t) ==
  /\ CanStep(t)
  /\ open' = [open EXCEPT ![t] = (@ \cup Opens(pc[t])) \ Closes(pc[t])]
  /\ Go(t, After(job[t], pc[t]), verdict[t])
  /\ UNCHANGED <<job, answer, holder, faults, woken>>

\* The step raises and nobody notices; quit closes the socket all the same.
Swallow(t) ==
  /\ CanStep(t) /\ pc[t] \in Swallowing
  /\ \E lost \in SUBSET Closes(pc[t]) :
       /\ pc[t] = "quit" => lost = Closes("quit")
       /\ open' = [open EXCEPT ![t] = @ \ lost]
  /\ Go(t, AfterSwallow(job[t], pc[t]), verdict[t])
  /\ faults' = [faults EXCEPT ![t] = @ \cup {pc[t]}]
  /\ UNCHANGED <<job, answer, holder, woken>>

\* An exception leaves the step; the library may have opened or closed what the
\* step was to open or close.
Raise(t) ==
  /\ CanStep(t) /\ pc[t] \in Raising
  /\ \E gained \in SUBSET Opens(pc[t]), lost \in SUBSET Closes(pc[t]) :
       open' = [open EXCEPT ![t] = (@ \cup gained) \ lost]
  /\ Go(t, Cleanup(pc[t]), Bad(job[t]))
  /\ faults' = [faults EXCEPT ![t] = @ \cup {pc[t]}]
  /\ UNCHANGED <<job, answer, holder, woken>>

\* The task gets the answer of its call.
Deliver(t) ==
  /\ pc[t] = "returned" /\ answer[t] = None
  /\ holder \in {t, None}
  /\ answer' = [answer EXCEPT ![t] = Wrapped(job[t], verdict[t])]
  /\ pc' = [pc EXCEPT ![t] = "over"]
  /\ holder' = None
  /\ UNCHANGED <<job, open, verdict, faults, woken>>

\* Nobody waits for the answer any more.
Drop(t) ==
  /\ pc[t] = "returned" /\ answer[t] # None
  /\ pc' = [pc EXCEPT ![t] = "over"]
  /\ UNCHANGED <<job, open, verdict, answer, holder, faults, woken>>

\* The task is cancelled (a timeout of its caller, a shutdown).  On the loop the
\* call is woken with CancelledError, which no `except Exception` catches; the
\* library may have dropped its connection.
CancelAwait(t) ==
  /\ CanStep(t) /\ Place(job[t]) = "loop" /\ pc[t] \in Awaiting
  /\ t \notin woken
  /\ \E kept \in SUBSET (open[t] \cup Opens(pc[t])) : open' = [open EXCEPT ![t] = kept]
  /\ Go(t, Cleanup(pc[t]), "cancelled")
  /\ woken' = woken \cup {t}
  /\ UNCHANGED <<job, answer, holder, faults>>

\* A call still queued for a worker is withdrawn, one a worker has goes on.
CancelThread(t) ==
  /\ LoopFree
  /\ Place(job[t]) = "pool" /\ pc[t] \in Steps \cup {"queued", "returned"}
  /\ answer[t] = None
  /\ answer' = [answer EXCEPT ![t] = "cancelled"]
  /\ pc' = [pc EXCEPT ![t] = IF @ = "queued" THEN "over" ELSE @]
  /\ woken' = woken \cup {t}
  /\ UNCHANGED <<job, open, verdict, holder, faults>>

\* The call makes its next step.
Proceed(t) == Succeed(t) \/ Swallow(t) \/ Raise(t)

ConnectorNext == \E t \in Tasks :
  \/ Begin(t) \/ Refuse(t) \/ Take(t)
  \/ Proceed(t) \/ Deliver(t) \/ Drop(t)
  \/ CancelAwait(t) \/ CancelThread(t)

\* Library calls return or raise, the pool and the loop serve who waits.
ConnectorFairness == \A t \in Tasks :
  /\ WF_connectorVars(Take(t))
  /\ WF_connectorVars(Proceed(t))
  /\ WF_connectorVars(Deliver(t) \/ Drop(t))

ConnectorSpec == ConnectorInit /\ [][ConnectorNext]_connectorVars /\ ConnectorFairness

-----------------------------------------------------------------------------
Ended(t) == pc[t] \in {"returned", "over"}
Checked(t) == Ended(t) /\ job[t].op = "check"

\* A check that says connected has closed what it opened (sql.py:180, s3.py:75,
\* ftp.py:199, kafka.py:79); SFTP hides a close that failed.  When it does not,
\* FTP leaves something open only if it failed before the client was in hand
\* and Kafka only if the admin client could not be made or closed.
CleansUp(t) == Checked(t) /\ open[t] # {} =>
  CASE job[t].connector = "ftp" -> verdict[t] = "failed" /\ "pwd" \notin faults[t]
    [] job[t].connector = "sftp" ->
         faults[t] \cap {"ssh_connect", "open_sftp", "close_sftp", "close_ssh"} # {}
    [] job[t].connector \in {"kafka", "kafka_async"} ->
         faults[t] \cap {"admin", "close_admin"} # {} \/ t \in woken
    [] OTHER -> verdict[t] # "connected"

ChecksCleanUp == \A t \in Tasks : CleansUp(t)

\* connected and failed say what happened: failed needs an exception that was
\* not meant to be swallowed, connected has none.  Only an unsuitable driver
\* makes check() raise, a legacy check never does.  A cancelled task gets no
\* result but from aiokafka, whose finally block may replace the cancellation
\* by the exception of admin.close() (kafka.py:127).
IsHonest(t) ==
  /\ Checked(t) /\ verdict[t] = "connected" => faults[t] \subseteq Swallowing
  /\ Checked(t) /\ verdict[t] = "failed" => faults[t] \cap Raising # {}
  /\ answer[t] = "raised" /\ job[t].op = "check" => ~job[t].legacy /\ faults[t] = {"resolve"}
  /\ t \in woken /\ pc[t] = "over" =>
       answer[t] = "cancelled" \/ (answer[t] = "failed" /\ "close_admin" \in faults[t])

AnswersAreHonest == \A t \in Tasks : IsHonest(t)

\* The connections of a client; the other clients connect when they are used.
ClientHolds(connector) ==
  CASE connector = "ftp" -> {"ftp"}
    [] connector = "sftp" -> {"ssh", "sftp"}
    [] connector = "kafka" -> {"producer"}
    [] OTHER -> {}

\* Who gets a client gets it with its connections open, and it is the last to
\* use them (ftp.py:206, ftp.py:437); a client nobody gets may stay open only if
\* making it failed or the task was cancelled while a thread made it.
IsWhole(t) == Ended(t) /\ job[t].op = "client" =>
  /\ verdict[t] = "client" =>
       open[t] = ClientHolds(job[t].connector)
  /\ pc[t] = "over" /\ open[t] # {} /\ answer[t] # "client" => faults[t] # {} \/ t \in woken

ClientsAreWhole == \A t \in Tasks : IsWhole(t)

-----------------------------------------------------------------------------
(* The inductive invariant                                                 *)

\* What is open when a step begins and nothing has raised.
Holding(step) ==
  CASE step \in {"execute", "dispose"} -> {"pooled"}
    [] step \in {"login", "cwd", "pwd", "quit"} -> {"ftp"}
    [] step \in {"open_sftp", "close_ssh"} -> {"ssh"}
    [] step \in {"chdir", "getcwd", "close_sftp"} -> {"ssh", "sftp"}
    [] step = "close_s3" -> {"http"}
    [] step \in {"list_topics", "close_admin"} -> {"admin"}
    [] OTHER -> {}

\* The steps of get_client().
Making(connector) ==
  CASE connector \in SQL -> {"engine"}
    [] connector = "ftp" -> {"dial", "login", "cwd"}
    [] connector = "sftp" -> {"ssh_connect", "open_sftp", "chdir"}
    [] connector = "s3" -> {"s3_client"}
    [] connector = "kafka" -> {"producer"}
    [] connector = "kafka_async" -> {"producer_config"}

WaitingInv(t) == pc[t] \in {"idle", "queued"} =>
  /\ open[t] = {} /\ verdict[t] = None /\ answer[t] = None /\ faults[t] = {} /\ t \notin woken
  /\ pc[t] = "queued" => Place(job[t]) = "pool"

RunningInv(t) == pc[t] \in Steps =>
  /\ pc[t] \in DOMAIN StepsOf(job[t].connector)
  /\ IF job[t].op = "client" THEN pc[t] \in Making(job[t].connector)
     ELSE pc[t] \notin {"producer", "producer_config"}
  /\ verdict[t] = None =>
       /\ open[t] = Holding(pc[t])
       /\ faults[t] \subseteq {"cwd", "chdir"}
  /\ verdict[t] # None =>
       /\ job[t].op = "check" /\ pc[t] \in {"quit", "close_admin"}
       /\ open[t] \subseteq Holding(pc[t])
       /\ \/ verdict[t] = "failed" /\ faults[t] \cap Raising # {}
          \/ verdict[t] = "cancelled" /\ Place(job[t]) = "loop" /\ t \in woken
  /\ Place(job[t]) = "private" => holder = t

EndedInv(t) == Ended(t) =>
  CASE verdict[t] = None -> pc[t] = "over" /\ open[t] = {} /\ faults[t] = {} /\ answer[t] = "cancelled"
    [] verdict[t] = "raised" ->
         IF job[t].op = "client" THEN faults[t] # {} ELSE faults[t] = {"resolve"} /\ open[t] = {}
    [] verdict[t] = "cancelled" -> job[t].op = "check" /\ Place(job[t]) = "loop" /\ t \in woken
    [] OTHER -> job[t].op = IF verdict[t] = "client" THEN "client" ELSE "check"

AnswerInv(t) ==
  /\ answer[t] # None =>
       \/ answer[t] = "cancelled" /\ Place(job[t]) = "pool" /\ t \in woken
       \/ pc[t] = "over" /\ verdict[t] # None /\ answer[t] = Wrapped(job[t], verdict[t])
  /\ pc[t] = "over" => answer[t] # None
  /\ t \in woken => \/ answer[t] = "cancelled"
                    \/ verdict[t] = "cancelled"
                    \/ verdict[t] = "failed" /\ "close_admin" \in faults[t]
  /\ holder = t => Place(job[t]) = "private" /\ pc[t] \in Steps \cup {"returned"}

\* Where each call is in its chain of steps, what it holds there, and which
\* outcome goes with which exception: from here the three properties follow.
ConnectorInv ==
  /\ ConnectorTypeOK
  /\ \A t \in Tasks : WaitingInv(t) /\ RunningInv(t) /\ EndedInv(t) /\ AnswerInv(t)
  /\ ChecksCleanUp /\ AnswersAreHonest /\ ClientsAreWhole

\* Every call ends and its task is answered: the loop that waits in join() for
\* a legacy call waits for a thread that needs neither the loop nor its pool
\* (_async_utils.py:35), and a full pool empties.
EveryCallEnds == \A t \in Tasks : pc[t] # "idle" ~> pc[t] = "over" /\ answer[t] # None
=============================================================================
