------------------------------- MODULE Server -------------------------------
(***************************************************************************)
(* `tds-host serve`: POST /v1/runs and the shutdown of the server, in      *)
(* crates/tds-host/src/main.rs.                                            *)
(*                                                                         *)
(* A handler is an async task.  It hands the run to a thread of the        *)
(* blocking pool and awaits it; beyond the size of the pool runs queue up. *)
(* A client may disconnect at any time, which drops its handler but not    *)
(* the run.  Ctrl-C stops the server gracefully; any other signal, and a   *)
(* crash, ends the process where it stands.                                *)
(*                                                                         *)
(* External: tokio's blocking pool, and axum's graceful shutdown, which    *)
(* waits for every open connection.                                        *)
(***************************************************************************)
EXTENDS Naturals, Sequences, FiniteSets

CONSTANTS
  Requests,   \* requests clients may send; each has a connection of its own
  PoolSize    \* threads of the blocking pool

ASSUME ServerAssumption == PoolSize \in Nat \ {0}

VARIABLES
  server,   \* "serving", "draining", "exiting", "exited" or "killed"
  client,   \* each client: "absent", "sending", "waiting", "answered", "gone",
            \* or "reset" by the end of the process
  status,   \* the HTTP status of each answer, 0 before there is one
  job,      \* each run: "none", "queued", "running", what it came to, or what
            \* became of it: "cancelled", "lost"
  queue     \* runs no thread has taken yet

serverVars == <<server, client, status, job, queue>>

\* What Runtime::run comes to: a report, an Err, or a panic (main.rs:269-272).
Outcomes == {"report", "error", "panic"}

Open == {r \in Requests : client[r] \in {"sending", "waiting"}}
Running == {r \in Requests : job[r] = "running"}
Up == server \in {"serving", "draining"}

ServerInit ==
  /\ server = "serving"
  /\ client = [r \in Requests |-> "absent"]
  /\ status = [r \in Requests |-> 0]
  /\ job = [r \in Requests |-> "none"]
  /\ queue = <<>>

-----------------------------------------------------------------------------
\* A client connects and begins to send its request, which it may never finish.
Connect(r) ==
  /\ server = "serving"
  /\ client[r] = "absent"
  /\ client' = [client EXCEPT ![r] = "sending"]
  /\ UNCHANGED <<server, status, job, queue>>

\* The request is no RunRequest, or its task is blank; 400 stands for the other
\* 4xx codes as well.
Refuse(r) ==
  /\ Up
  /\ client[r] = "sending"
  /\ client' = [client EXCEPT ![r] = "answered"]
  /\ status' = [status EXCEPT ![r] = 400]
  /\ UNCHANGED <<server, job, queue>>

\* spawn_blocking: from here on the run does not depend on its handler.
Submit(r) ==
  /\ Up
  /\ client[r] = "sending"
  /\ client' = [client EXCEPT ![r] = "waiting"]
  /\ job' = [job EXCEPT ![r] = "queued"]
  /\ queue' = Append(queue, r)
  /\ UNCHANGED <<server, status>>

\* The handler is dropped; whatever it awaited goes on.
Disconnect(r) ==
  /\ client[r] \in {"sending", "waiting"}
  /\ client' = [client EXCEPT ![r] = "gone"]
  /\ UNCHANGED <<server, status, job, queue>>

\* Mutant: the run of a client that has gone is not started.
StartForWaiting ==
  /\ Up \/ server = "exiting"
  /\ queue # <<>>
  /\ client[Head(queue)] = "waiting"
  /\ Cardinality(Running) < PoolSize
  /\ job' = [job EXCEPT ![Head(queue)] = "running"]
  /\ queue' = Tail(queue)
  /\ UNCHANGED <<server, client, status>>

\* A thread of the pool takes the first run; also while the pool shuts down.
Start ==
  /\ Up \/ server = "exiting"
  /\ queue # <<>>
  /\ Cardinality(Running) < PoolSize
  /\ job' = [job EXCEPT ![Head(queue)] = "running"]
  /\ queue' = Tail(queue)
  /\ UNCHANGED <<server, client, status>>

Finish(r) ==
  /\ job[r] = "running"
  /\ \E outcome \in Outcomes : job' = [job EXCEPT ![r] = outcome]
  /\ UNCHANGED <<server, client, status, queue>>

\* Mutant: any failure of a run is reported as if it had succeeded.
AnswerAlwaysOk(r) ==
  /\ Up
  /\ client[r] = "waiting"
  /\ job[r] \in Outcomes \cup {"cancelled"}
  /\ client' = [client EXCEPT ![r] = "answered"]
  /\ status' = [status EXCEPT ![r] = 200]
  /\ UNCHANGED <<server, job, queue>>

\* Mutant: handlers are not polled any more once the signal has come.
AnswerWhileServing(r) ==
  /\ server = "serving"
  /\ client[r] = "waiting"
  /\ job[r] \in Outcomes \cup {"cancelled"}
  /\ client' = [client EXCEPT ![r] = "answered"]
  /\ status' = [status EXCEPT ![r] = IF job[r] = "report" THEN 200 ELSE 500]
  /\ UNCHANGED <<server, job, queue>>

\* The handler is woken with the run's result.  A JoinError, whatever it was, is
\* a run that "panicked" (main.rs:271).
Answer(r) ==
  /\ Up
  /\ client[r] = "waiting"
  /\ job[r] \in Outcomes \cup {"cancelled"}
  /\ client' = [client EXCEPT ![r] = "answered"]
  /\ status' = [status EXCEPT ![r] = IF job[r] = "report" THEN 200 ELSE 500]
  /\ UNCHANGED <<server, job, queue>>

-----------------------------------------------------------------------------
\* Ctrl-C: the listener is closed.  A second one changes nothing.
Signal ==
  /\ server = "serving"
  /\ server' = "draining"
  /\ UNCHANGED <<client, status, job, queue>>

\* Mutant: serve returns when the signal comes.
ReturnAtOnce ==
  /\ server = "draining"
  /\ server' = "exiting"
  /\ UNCHANGED <<client, status, job, queue>>

\* Every connection is closed: serve returns, and main drops the async runtime.
Return ==
  /\ server = "draining"
  /\ Open = {}
  /\ server' = "exiting"
  /\ UNCHANGED <<client, status, job, queue>>

\* Mutant: the queue is cleared when the signal comes.
CancelEarly ==
  /\ server \in {"draining", "exiting"}
  /\ queue # <<>>
  /\ job' = [job EXCEPT ![Head(queue)] = "cancelled"]
  /\ queue' = Tail(queue)
  /\ UNCHANGED <<server, client, status>>

\* The pool shuts down; an idle thread cancels what it finds in the queue.
Cancel ==
  /\ server = "exiting"
  /\ queue # <<>>
  /\ job' = [job EXCEPT ![Head(queue)] = "cancelled"]
  /\ queue' = Tail(queue)
  /\ UNCHANGED <<server, client, status>>

\* The runs that are still going are waited for.
Exit ==
  /\ server = "exiting"
  /\ queue = <<>> /\ Running = {}
  /\ server' = "exited"
  /\ UNCHANGED <<client, status, job, queue>>

\* SIGTERM, SIGKILL, a crash: nothing is awaited and nobody is answered.
Kill ==
  /\ server \notin {"exited", "killed"}
  /\ server' = "killed"
  /\ client' = [r \in Requests |-> IF r \in Open THEN "reset" ELSE client[r]]
  /\ job' = [r \in Requests |->
               IF job[r] \in {"queued", "running"} THEN "lost" ELSE job[r]]
  /\ queue' = <<>>
  /\ UNCHANGED status

ServerNext ==
  \/ \E r \in Requests : Connect(r) \/ Refuse(r) \/ Submit(r) \/ Disconnect(r)
                         \/ Finish(r) \/ Answer(r)
  \/ Start \/ Signal \/ Return \/ Cancel \/ Exit \/ Kill

ServerSpec == ServerInit /\ [][ServerNext]_serverVars

(***************************************************************************)
(* What the process does of itself.  A run ends (AgentRun's                *)
(* EventuallyReported, Turn's TurnComesBack); the threads of the pool and  *)
(* the async workers are scheduled.  Nothing is assumed of clients,        *)
(* signals and crashes.                                                    *)
(***************************************************************************)
FairServerSpec ==
  /\ ServerSpec
  /\ WF_serverVars(Start)
  /\ WF_serverVars(Return)
  /\ WF_serverVars(Exit)
  /\ \A r \in Requests : WF_serverVars(Finish(r)) /\ WF_serverVars(Answer(r))

-----------------------------------------------------------------------------
ServerTypeOK ==
  /\ server \in {"serving", "draining", "exiting", "exited", "killed"}
  /\ client \in [Requests -> {"absent", "sending", "waiting", "answered",
                              "gone", "reset"}]
  /\ status \in [Requests -> {0, 200, 400, 500}]
  /\ job \in [Requests -> {"none", "queued", "running", "cancelled", "lost"}
                          \cup Outcomes]
  /\ queue \in Seq(Requests)

(***************************************************************************)
(* An answer says what happened to the run it answers, whatever shutdown   *)
(* and disconnections went on around it: 200 is its report, 400 means that *)
(* nothing was started, and 500 that the run itself failed, never that the *)
(* server gave it up (main.rs:248-275).                                    *)
(***************************************************************************)
AnswersAreTrue ==
  \A r \in Requests :
    /\ status[r] = 200 => job[r] = "report"
    /\ status[r] = 400 => job[r] = "none"
    /\ status[r] = 500 => job[r] \in {"error", "panic"}

(***************************************************************************)
(* A run is cancelled in the queue only if its client has gone: nobody who *)
(* waits loses an accepted run to a graceful shutdown (main.rs:216-220).   *)
(***************************************************************************)
CancelledOnlyIfGone ==
  \A r \in Requests : job[r] = "cancelled" => client[r] = "gone"

(***************************************************************************)
(* The queue is what waits for a thread, each run once, whoever has gone:  *)
(* no accepted run is forgotten, and none is started twice (main.rs:269).  *)
(***************************************************************************)
QueueIsWhatWaits ==
  /\ \A r \in Requests : job[r] = "queued" <=> \E i \in DOMAIN queue : queue[i] = r
  /\ \A i, j \in DOMAIN queue : queue[i] = queue[j] => i = j

(***************************************************************************)
(* A client that stays is answered, although runs whose clients have gone  *)
(* keep their place in the pool, and also when the server is told to stop  *)
(* while it waits; only the end of the process can take the answer away.   *)
(***************************************************************************)
WaitersAnswered ==
  \A r \in Requests :
    client[r] = "waiting" ~> client[r] \in {"answered", "gone", "reset"}

(***************************************************************************)
(* Ctrl-C ends the process, once no client holds it up with a request it   *)
(* does not finish (main.rs:216-225).                                      *)
(***************************************************************************)
ShutdownCompletes ==
  <>[](\A r \in Requests : client[r] # "sending") =>
    (server = "draining" ~> server \in {"exited", "killed"})

\* A run as the watchdog knows it.
Phase(r) ==
  CASE job[r] = "none" -> "idle"
    [] job[r] = "running" -> "active"
    [] job[r] = "cancelled" -> "dropped"
    [] job[r] \in Outcomes -> "ended"
    [] OTHER -> job[r]

Life ==
  INSTANCE RunLife WITH
    Runs <- Requests,
    owner <- Up,
    phase <- [r \in Requests |-> Phase(r)],
    alive <- Up \/ \E r \in Requests : Phase(r) \in {"queued", "active"}

\* The server keeps runs and Runtime alive the way the watchdog relies on.
ServesRuns == Life!LifeSpec

=============================================================================
