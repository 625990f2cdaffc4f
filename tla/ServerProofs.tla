---------------------------- MODULE ServerProofs ----------------------------
(***************************************************************************)
(* Safety of the server for any number of clients and any size of the      *)
(* pool, and that it implements RunLife.                                   *)
(***************************************************************************)
EXTENDS Server, TLAPS

\* What is not up any more has no open connection, and what has ended no run.
EndInv ==
  /\ ~Up => Open = {}
  /\ server \in {"exited", "killed"} => queue = <<>> /\ Running = {}
  /\ \A r \in Requests : client[r] = "reset" => server = "killed"

\* What the run of a client can be, by how far the client has come.
ClientInv ==
  \A r \in Requests :
    /\ client[r] \in {"absent", "sending"} => job[r] = "none"
    /\ client[r] = "waiting" => job[r] \in {"queued", "running"} \cup Outcomes
    /\ client[r] = "answered" =>
         \/ status[r] = 400 /\ job[r] = "none"
         \/ status[r] = 200 /\ job[r] = "report"
         \/ status[r] = 500 /\ job[r] \in {"error", "panic"}
    /\ client[r] # "answered" => status[r] = 0

Inv ==
  /\ ServerTypeOK
  /\ QueueIsWhatWaits
  /\ EndInv
  /\ ClientInv
  /\ CancelledOnlyIfGone

-----------------------------------------------------------------------------
LEMMA InitInv == ServerInit => Inv
  BY DEF ServerInit, Inv, ServerTypeOK, QueueIsWhatWaits, EndInv, ClientInv,
         CancelledOnlyIfGone, Open, Running, Up

\* What a queue is after its first run has been taken.
LEMMA TakeFirst ==
  ASSUME Inv, queue # <<>>, queue' = Tail(queue),
         NEW to \in {"running", "cancelled"},
         job' = [job EXCEPT ![Head(queue)] = to]
  PROVE  /\ Head(queue) \in Requests
         /\ job[Head(queue)] = "queued"
         /\ queue' \in Seq(Requests)
         /\ QueueIsWhatWaits'
  <1>1. queue \in Seq(Requests) /\ job \in [Requests -> {"none", "queued", "running",
          "cancelled", "lost"} \cup Outcomes]
    BY DEF Inv, ServerTypeOK
  <1>2. /\ Len(queue) \in Nat \ {0}
        /\ 1 \in DOMAIN queue /\ Head(queue) = queue[1] /\ Head(queue) \in Requests
    BY <1>1
  <1>3. job[Head(queue)] = "queued"
    BY <1>2 DEF Inv, QueueIsWhatWaits
  <1>4. /\ queue' \in Seq(Requests)
        /\ DOMAIN queue' = 1..(Len(queue) - 1)
        /\ \A i \in DOMAIN queue' : queue'[i] = queue[i + 1] /\ i + 1 \in DOMAIN queue
    BY <1>1, <1>2
  <1>5. ASSUME NEW r \in Requests
        PROVE  job'[r] = "queued" <=> \E i \in DOMAIN queue' : queue'[i] = r
    <2>1. CASE r = Head(queue)
      <3>1. job'[r] # "queued"
        BY <1>1, <2>1
      <3>2. ASSUME NEW i \in DOMAIN queue' PROVE queue'[i] # r
        BY <1>2, <1>4, <2>1 DEF Inv, QueueIsWhatWaits
      <3> QED BY <3>1, <3>2
    <2>2. CASE r # Head(queue)
      <3>1. job'[r] = job[r]
        BY <1>1, <2>2
      <3>2. ASSUME NEW j \in DOMAIN queue, queue[j] = r
            PROVE  j - 1 \in DOMAIN queue' /\ queue'[j - 1] = r
        <4>1. DOMAIN queue = 1..Len(queue)
          BY <1>1
        <4>2. j # 1
          BY <1>2, <2>2, <3>2
        <4>3. j - 1 \in DOMAIN queue'
          BY <1>2, <1>4, <4>1, <4>2
        <4> QED BY <1>4, <3>2, <4>1, <4>3
      <3>3. job[r] = "queued" <=> \E j \in DOMAIN queue : queue[j] = r
        BY DEF Inv, QueueIsWhatWaits
      <3>4. (\E j \in DOMAIN queue : queue[j] = r)
              <=> \E i \in DOMAIN queue' : queue'[i] = r
        BY <1>4, <3>2
      <3> QED BY <3>1, <3>3, <3>4
    <2> QED BY <2>1, <2>2
  <1>6. ASSUME NEW i \in DOMAIN queue', NEW j \in DOMAIN queue', queue'[i] = queue'[j]
        PROVE  i = j
    <2>1. i + 1 = j + 1
      BY <1>4, <1>6 DEF Inv, QueueIsWhatWaits
    <2> QED BY <1>4, <2>1
  <1> QED BY <1>2, <1>3, <1>4, <1>5, <1>6 DEF QueueIsWhatWaits

\* A run that is neither waiting for a thread before nor after leaves the queue be.
LEMMA QueueStays ==
  ASSUME Inv, UNCHANGED queue, NEW r \in Requests, NEW to,
         job[r] # "queued", to # "queued", job' = [job EXCEPT ![r] = to]
  PROVE  QueueIsWhatWaits'
  <1>1. job \in [Requests -> {"none", "queued", "running", "cancelled", "lost"}
                             \cup Outcomes]
    BY DEF Inv, ServerTypeOK
  <1>2. ASSUME NEW q \in Requests PROVE job'[q] = "queued" <=> job[q] = "queued"
    BY <1>1
  <1>3. \A i, j \in DOMAIN queue' : queue'[i] = queue'[j] => i = j
    BY DEF Inv, QueueIsWhatWaits
  <1>4. \A q \in Requests :
          job'[q] = "queued" <=> \E i \in DOMAIN queue' : queue'[i] = q
    BY <1>2 DEF Inv, QueueIsWhatWaits
  <1> QED BY <1>3, <1>4 DEF QueueIsWhatWaits

LEMMA StepInv == Inv /\ [ServerNext]_serverVars => Inv'
  <1> SUFFICES ASSUME Inv, [ServerNext]_serverVars PROVE Inv'
    OBVIOUS
  <1> USE DEF Inv
  <1>1. ASSUME NEW r \in Requests, Connect(r) PROVE Inv'
    BY <1>1 DEF Connect, ServerTypeOK, QueueIsWhatWaits, EndInv, ClientInv,
                CancelledOnlyIfGone, Open, Running, Up
  <1>2. ASSUME NEW r \in Requests, Refuse(r) PROVE Inv'
    BY <1>2 DEF Refuse, ServerTypeOK, QueueIsWhatWaits, EndInv, ClientInv,
                CancelledOnlyIfGone, Open, Running, Up
  <1>3. ASSUME NEW r \in Requests, Submit(r) PROVE Inv'
    <2> USE <1>3 DEF Submit
    <2>1. job[r] = "none"
      BY DEF ClientInv
    <2>2. /\ queue \in Seq(Requests) /\ queue' \in Seq(Requests)
          /\ DOMAIN queue = 1..Len(queue) /\ DOMAIN queue' = 1..(Len(queue) + 1)
          /\ Len(queue) \in Nat
          /\ queue'[Len(queue) + 1] = r
          /\ \A i \in DOMAIN queue : queue'[i] = queue[i]
      BY DEF ServerTypeOK
    <2>3. ASSUME NEW i \in DOMAIN queue PROVE queue[i] # r
      BY <2>1, <2>3 DEF QueueIsWhatWaits
    <2>4. ServerTypeOK'
      BY <2>2 DEF ServerTypeOK, Outcomes
    <2>5. QueueIsWhatWaits'
      <3>1. ASSUME NEW q \in Requests, job'[q] = "queued"
            PROVE  \E i \in DOMAIN queue' : queue'[i] = q
        <4>1. CASE q = r
          BY <2>2, <4>1
        <4>2. CASE q # r
          <5>1. job[q] = "queued"
            BY <3>1, <4>2 DEF ServerTypeOK
          <5>2. PICK i \in DOMAIN queue : queue[i] = q
            BY <5>1 DEF QueueIsWhatWaits
          <5> QED BY <2>2, <5>2
        <4> QED BY <4>1, <4>2
      <3>2. ASSUME NEW i \in DOMAIN queue', NEW q \in Requests, queue'[i] = q
            PROVE  job'[q] = "queued"
        <4>1. CASE i = Len(queue) + 1
          BY <2>2, <3>2, <4>1 DEF ServerTypeOK
        <4>2. CASE i \in DOMAIN queue
          BY <2>2, <2>3, <3>2, <4>2 DEF ServerTypeOK, QueueIsWhatWaits
        <4> QED BY <2>2, <4>1, <4>2
      <3>3. ASSUME NEW i \in DOMAIN queue', NEW j \in DOMAIN queue', queue'[i] = queue'[j]
            PROVE  i = j
        <4>1. CASE i \in DOMAIN queue /\ j \in DOMAIN queue
          BY <2>2, <3>3, <4>1 DEF QueueIsWhatWaits
        <4>2. CASE i \notin DOMAIN queue
          <5>1. i = Len(queue) + 1
            BY <2>2, <4>2
          <5> QED BY <2>2, <2>3, <3>3, <5>1
        <4>3. CASE j \notin DOMAIN queue
          <5>1. j = Len(queue) + 1
            BY <2>2, <4>3
          <5> QED BY <2>2, <2>3, <3>3, <5>1
        <4> QED BY <4>1, <4>2, <4>3
      <3> QED BY <3>1, <3>2, <3>3 DEF QueueIsWhatWaits
    <2>6. EndInv' /\ ClientInv' /\ CancelledOnlyIfGone'
      BY <2>1 DEF EndInv, ClientInv, CancelledOnlyIfGone, ServerTypeOK, Open, Running,
                  Up, Outcomes
    <2> QED BY <2>4, <2>5, <2>6
  <1>4. ASSUME NEW r \in Requests, Disconnect(r) PROVE Inv'
    BY <1>4 DEF Disconnect, ServerTypeOK, QueueIsWhatWaits, EndInv, ClientInv,
                CancelledOnlyIfGone, Open, Running, Up
  <1>5. ASSUME NEW r \in Requests, Finish(r) PROVE Inv'
    <2> USE <1>5 DEF Finish
    <2>1. PICK outcome \in Outcomes : job' = [job EXCEPT ![r] = outcome]
      OBVIOUS
    <2>2. QueueIsWhatWaits'
      BY <2>1, QueueStays DEF Outcomes
    <2>3. ServerTypeOK' /\ EndInv' /\ ClientInv' /\ CancelledOnlyIfGone'
      BY <2>1 DEF ServerTypeOK, EndInv, ClientInv, CancelledOnlyIfGone, Open, Running,
                  Up, Outcomes
    <2> QED BY <2>2, <2>3
  <1>6. ASSUME NEW r \in Requests, Answer(r) PROVE Inv'
    <2>1. job[r] \in Outcomes
      BY <1>6 DEF Answer, CancelledOnlyIfGone
    <2> QED
      BY <1>6, <2>1 DEF Answer, ServerTypeOK, QueueIsWhatWaits, EndInv, ClientInv,
                  CancelledOnlyIfGone, Open, Running, Up, Outcomes
  <1>7. CASE Start
    <2>1. /\ Head(queue) \in Requests /\ job[Head(queue)] = "queued"
          /\ queue' \in Seq(Requests) /\ QueueIsWhatWaits'
      BY <1>7, TakeFirst DEF Start
    <2>2. ServerTypeOK' /\ EndInv' /\ ClientInv' /\ CancelledOnlyIfGone'
      BY <1>7, <2>1 DEF Start, ServerTypeOK, EndInv, ClientInv, CancelledOnlyIfGone, Open,
                        Running, Up, Outcomes
    <2> QED BY <2>1, <2>2
  <1>8. CASE Signal
    BY <1>8 DEF Signal, ServerTypeOK, QueueIsWhatWaits, EndInv, ClientInv,
                CancelledOnlyIfGone, Open, Running, Up
  <1>9. CASE Return
    BY <1>9 DEF Return, ServerTypeOK, QueueIsWhatWaits, EndInv, ClientInv,
                CancelledOnlyIfGone, Open, Running, Up
  <1>10. CASE Cancel
    <2>1. /\ Head(queue) \in Requests /\ job[Head(queue)] = "queued"
          /\ queue' \in Seq(Requests) /\ QueueIsWhatWaits'
      BY <1>10, TakeFirst DEF Cancel
    <2>2. client[Head(queue)] = "gone"
      BY <1>10, <2>1 DEF Cancel, ServerTypeOK, EndInv, ClientInv, Open, Up
    <2>3. ServerTypeOK' /\ EndInv' /\ ClientInv' /\ CancelledOnlyIfGone'
      BY <1>10, <2>1, <2>2 DEF Cancel, ServerTypeOK, EndInv, ClientInv,
                        CancelledOnlyIfGone, Open, Running, Up, Outcomes
    <2> QED BY <2>1, <2>3
  <1>11. CASE Exit
    BY <1>11 DEF Exit, ServerTypeOK, QueueIsWhatWaits, EndInv, ClientInv,
                 CancelledOnlyIfGone, Open, Running, Up
  <1>12. CASE Kill
    <2>1. ServerTypeOK' /\ QueueIsWhatWaits'
      BY <1>12 DEF Kill, ServerTypeOK, QueueIsWhatWaits, Outcomes
    <2>2. EndInv' /\ CancelledOnlyIfGone'
      BY <1>12 DEF Kill, ServerTypeOK, EndInv, CancelledOnlyIfGone, Open, Running, Up
    <2>3. ClientInv'
      BY <1>12 DEF Kill, ServerTypeOK, ClientInv, Open, Outcomes
    <2> QED BY <2>1, <2>2, <2>3
  <1>13. CASE UNCHANGED serverVars
    BY <1>13 DEF serverVars, ServerTypeOK, QueueIsWhatWaits, EndInv, ClientInv,
                 CancelledOnlyIfGone, Open, Running, Up
  <1> QED
    BY <1>1, <1>2, <1>3, <1>4, <1>5, <1>6, <1>7, <1>8, <1>9, <1>10, <1>11, <1>12,
       <1>13 DEF ServerNext

LEMMA InvHolds == ServerSpec => []Inv
  BY InitInv, StepInv, PTL DEF ServerSpec

(***************************************************************************)
(* The server's state stays in its types, however many clients there are.  *)
(***************************************************************************)
THEOREM ServerTypeCorrect == ServerSpec => []ServerTypeOK
  <1>1. Inv => ServerTypeOK
    BY DEF Inv
  <1> QED BY InvHolds, <1>1, PTL

(***************************************************************************)
(* Every answer is true of the run it answers (main.rs:248-275).           *)
(***************************************************************************)
THEOREM AnswersAreTrueHolds == ServerSpec => []AnswersAreTrue
  <1>1. Inv => AnswersAreTrue
    BY DEF Inv, ServerTypeOK, ClientInv, AnswersAreTrue
  <1> QED BY InvHolds, <1>1, PTL

(***************************************************************************)
(* Only a run whose client has gone is cancelled in the queue.             *)
(***************************************************************************)
THEOREM CancelledOnlyIfGoneHolds == ServerSpec => []CancelledOnlyIfGone
  <1>1. Inv => CancelledOnlyIfGone
    BY DEF Inv
  <1> QED BY InvHolds, <1>1, PTL

(***************************************************************************)
(* The queue has every accepted run that waits for a thread, once.         *)
(***************************************************************************)
THEOREM QueueIsWhatWaitsHolds == ServerSpec => []QueueIsWhatWaits
  <1>1. Inv => QueueIsWhatWaits
    BY DEF Inv
  <1> QED BY InvHolds, <1>1, PTL

-----------------------------------------------------------------------------
(***************************************************************************)
(* RunLife: what the phases are, and that each step of the server is one   *)
(* of its steps, or none.                                                  *)
(***************************************************************************)
LEMMA LifeInitHolds == ServerInit => Life!LifeInit
  BY DEF ServerInit, Life!LifeInit, Phase, Up, Outcomes

\* A run that moves takes its phase with it, and the others keep theirs.
LEMMA PhaseMoves ==
  ASSUME ServerTypeOK, NEW r \in Requests, NEW to,
         job' = [job EXCEPT ![r] = to]
  PROVE  \A q \in Requests : q # r => Phase(q)' = Phase(q)
  BY DEF ServerTypeOK, Phase

LEMMA LifeStep == Inv /\ [ServerNext]_serverVars => [Life!LifeNext]_(Life!lifeVars)
  <1> SUFFICES ASSUME Inv, [ServerNext]_serverVars
               PROVE  [Life!LifeNext]_(Life!lifeVars)
    OBVIOUS
  <1> DEFINE phases == [r \in Requests |-> Phase(r)]
             alive == Up \/ \E r \in Requests : Phase(r) \in {"queued", "active"}
  <1> USE DEF Inv
  <1>0. ServerTypeOK
    OBVIOUS
  <1>1. ASSUME UNCHANGED job, UNCHANGED Up PROVE UNCHANGED Life!lifeVars
    BY <1>1 DEF Life!lifeVars, Phase
  <1>2. ASSUME NEW r \in Requests, NEW to, job' = [job EXCEPT ![r] = to], UNCHANGED server,
               NEW phase, Phase(r)' = phase
        PROVE  Life!Move(r, Phase(r), phase)
    <2>1. phases' = [phases EXCEPT ![r] = phase]
      BY <1>0, <1>2, PhaseMoves
    <2>2. UNCHANGED Up
      BY <1>2 DEF Up
    <2>3. alive' = (Up \/ Life!Held(phases'))
      BY <2>2 DEF Life!Held
    <2> QED BY <2>1, <2>2, <2>3 DEF Life!Move
  <1>3. ASSUME NEW r \in Requests, Connect(r) PROVE UNCHANGED Life!lifeVars
    BY <1>1, <1>3 DEF Connect, Up
  <1>4. ASSUME NEW r \in Requests, Refuse(r) PROVE UNCHANGED Life!lifeVars
    BY <1>1, <1>4 DEF Refuse, Up
  <1>5. ASSUME NEW r \in Requests, Submit(r) PROVE Life!Accept(r)
    <2>1. Phase(r) = "idle" /\ Phase(r)' = "queued"
      BY <1>5 DEF Submit, Phase, ClientInv, ServerTypeOK, Outcomes
    <2>2. Life!Move(r, "idle", "queued")
      BY <1>2, <1>5, <2>1 DEF Submit
    <2> QED BY <1>5, <2>2 DEF Submit, Life!Accept
  <1>6. ASSUME NEW r \in Requests, Disconnect(r) PROVE UNCHANGED Life!lifeVars
    BY <1>1, <1>6 DEF Disconnect, Up
  <1>7. ASSUME NEW r \in Requests, Finish(r) PROVE Life!End(r)
    <2>1. PICK outcome \in Outcomes : job' = [job EXCEPT ![r] = outcome]
      BY <1>7 DEF Finish
    <2>2. Phase(r) = "active" /\ Phase(r)' = "ended"
      BY <1>7, <2>1 DEF Finish, Phase, ServerTypeOK, Outcomes
    <2>3. Life!Move(r, "active", "ended")
      BY <1>2, <1>7, <2>1, <2>2 DEF Finish
    <2> QED BY <2>3 DEF Life!End
  <1>8. ASSUME NEW r \in Requests, Answer(r) PROVE UNCHANGED Life!lifeVars
    BY <1>1, <1>8 DEF Answer, Up
  <1>9. CASE Start
    <2>1. PICK r \in Requests : job[r] = "queued" /\ job' = [job EXCEPT ![r] = "running"]
      BY <1>9, TakeFirst DEF Start
    <2>2. Phase(r) = "queued" /\ Phase(r)' = "active"
      BY <2>1 DEF Phase, ServerTypeOK, Outcomes
    <2>3. Life!Move(r, "queued", "active")
      BY <1>2, <1>9, <2>1, <2>2 DEF Start
    <2> QED BY <2>3 DEF Life!Start, Life!LifeNext
  <1>10. CASE Signal
    <2>1. UNCHANGED Up
      BY <1>10 DEF Signal, Up
    <2> QED BY <1>1, <1>10, <2>1 DEF Signal
  <1>11. CASE Return
    <2>1. ~Up'
      BY <1>11 DEF Return, Up
    <2>2. phases' = phases
      BY <1>11 DEF Return, Phase
    <2>3. alive' = Life!Held(phases)
      BY <2>1, <2>2 DEF Life!Held
    <2>4. Life!OwnerLetsGo
      BY <2>1, <2>2, <2>3 DEF Life!OwnerLetsGo
    <2> QED BY <2>4 DEF Life!LifeNext
  <1>12. CASE Cancel
    <2>1. PICK r \in Requests : job[r] = "queued" /\ job' = [job EXCEPT ![r] = "cancelled"]
      BY <1>12, TakeFirst DEF Cancel
    <2>2. Phase(r) = "queued" /\ Phase(r)' = "dropped"
      BY <2>1 DEF Phase, ServerTypeOK, Outcomes
    <2>3. Life!Move(r, "queued", "dropped")
      BY <1>2, <1>12, <2>1, <2>2 DEF Cancel
    <2> QED BY <1>12, <2>3 DEF Life!Drop, Life!LifeNext, Cancel, Up
  <1>13. CASE Exit
    <2>1. UNCHANGED Up
      BY <1>13 DEF Exit, Up
    <2> QED BY <1>1, <1>13, <2>1 DEF Exit
  <1>14. CASE Kill
    <2>1. ~Up'
      BY <1>14 DEF Kill, Up
    <2>2. ASSUME NEW r \in Requests
          PROVE  /\ Phase(r)' = IF Phase(r) \in {"queued", "active"} THEN "lost" ELSE Phase(r)
                 /\ Phase(r)' \notin {"queued", "active"}
      BY <1>14 DEF Kill, Phase, ServerTypeOK, Outcomes
    <2> QED BY <2>1, <2>2 DEF Life!Crash, Life!LifeNext
  <1>15. CASE UNCHANGED serverVars
    BY <1>1, <1>15 DEF serverVars, Up
  <1> QED
    BY <1>3, <1>4, <1>5, <1>6, <1>7, <1>8, <1>9, <1>10, <1>11, <1>12, <1>13, <1>14,
       <1>15 DEF ServerNext, Life!LifeNext

(***************************************************************************)
(* The server keeps the runs, and the Runtime they share, alive as the     *)
(* watchdog relies on: for any number of clients, and whatever they do.    *)
(***************************************************************************)
THEOREM ServesRunsHolds == ServerSpec => ServesRuns
  BY LifeInitHolds, LifeStep, InvHolds, PTL DEF ServerSpec, ServesRuns, Life!LifeSpec

-----------------------------------------------------------------------------
\* r is in front of q.
Before(r, q) ==
  \E i, j \in DOMAIN queue : i < j /\ queue[i] = r /\ queue[j] = q

(***************************************************************************)
(* Whoever is accepted goes behind all who wait; who is in front of        *)
(* another stays there until a thread has taken the run, or it is given    *)
(* up; and the one behind is not started meanwhile.                        *)
(***************************************************************************)
TurnsKept ==
  \A r, q \in Requests :
    /\ job[r] = "queued" /\ job[q] # "queued" /\ job'[q] = "queued" => Before(r, q)'
    /\ Before(r, q) => Before(r, q)' \/ job'[r] # "queued"
    /\ Before(r, q) => job'[q] # "running"

\* A step that leaves the queue alone starts nobody who is in it.
LEMMA TurnsStay ==
  ASSUME Inv, queue' = queue,
         \A r \in Requests : job[r] = "queued" <=> job'[r] = "queued"
  PROVE  TurnsKept
PROOF
<1>1. ASSUME NEW r \in Requests, NEW q \in Requests, Before(r, q)
      PROVE  Before(r, q)' /\ job'[q] # "running"
  <2>1. job[q] = "queued"
    BY <1>1 DEF Inv, QueueIsWhatWaits, Before
  <2>2. job'[q] = "queued"
    BY <2>1
  <2> QED BY <1>1, <2>2 DEF Before
<1> QED BY <1>1 DEF TurnsKept

\* The first in the queue leaves it; those behind move up in their order.
LEMMA TurnsMoveUp ==
  ASSUME Inv, queue # <<>>, queue' = Tail(queue),
         NEW to \in {"running", "cancelled"},
         job' = [job EXCEPT ![Head(queue)] = to]
  PROVE  TurnsKept
PROOF
<1>1. /\ queue \in Seq(Requests) /\ DOMAIN job = Requests
  BY DEF Inv, ServerTypeOK
<1>2. /\ 1 \in DOMAIN queue /\ Head(queue) = queue[1] /\ Head(queue) \in Requests
      /\ DOMAIN queue = 1..Len(queue) /\ Len(queue) \in Nat
      /\ DOMAIN queue' = 1..(Len(queue) - 1)
      /\ \A i \in DOMAIN queue' : queue'[i] = queue[i + 1]
  BY <1>1
<1>3. job'[Head(queue)] # "queued"
  BY <1>1, <1>2
<1>4. \A q \in Requests : q # Head(queue) => job'[q] = job[q]
  BY <1>1
<1>5. ASSUME NEW r \in Requests, NEW q \in Requests, Before(r, q)
      PROVE  (Before(r, q)' \/ job'[r] # "queued") /\ job'[q] # "running"
  <2>1. PICK i, j \in DOMAIN queue : i < j /\ queue[i] = r /\ queue[j] = q
    BY <1>5 DEF Before
  <2>2. q # Head(queue)
    BY <1>2, <2>1 DEF Inv, QueueIsWhatWaits
  <2>3. job[q] = "queued"
    BY <2>1 DEF Inv, QueueIsWhatWaits
  <2>4. CASE r = Head(queue)
    BY <1>3, <1>4, <2>2, <2>3, <2>4
  <2>5. CASE r # Head(queue)
    <3>1. i # 1
      BY <1>2, <2>1, <2>5
    <3>2. /\ i - 1 \in DOMAIN queue' /\ j - 1 \in DOMAIN queue' /\ i - 1 < j - 1
          /\ (i - 1) + 1 = i /\ (j - 1) + 1 = j
      BY <1>2, <2>1, <3>1
    <3>3. queue'[i - 1] = r /\ queue'[j - 1] = q
      BY <1>2, <2>1, <3>2
    <3> QED BY <1>4, <2>2, <2>3, <3>2, <3>3 DEF Before
  <2> QED BY <2>4, <2>5
<1>6. \A q \in Requests : job[q] # "queued" => job'[q] # "queued"
  BY <1>3, <1>4
<1> QED BY <1>5, <1>6 DEF TurnsKept

\* Every step keeps the turns.
LEMMA NextKeepsTurns ==
  ASSUME Inv, ServerNext
  PROVE  TurnsKept
PROOF
<1>1. DOMAIN job = Requests
  BY DEF Inv, ServerTypeOK
<1>2. CASE \E r \in Requests : Connect(r) \/ Refuse(r) \/ Disconnect(r) \/ Answer(r)
  BY <1>2, TurnsStay DEF Connect, Refuse, Disconnect, Answer
<1>3. CASE Signal \/ Return \/ Exit
  BY <1>3, TurnsStay DEF Signal, Return, Exit
<1>4. ASSUME NEW r \in Requests, Finish(r) PROVE TurnsKept
  <2>1. PICK outcome \in Outcomes : job' = [job EXCEPT ![r] = outcome]
    BY <1>4 DEF Finish
  <2>2. outcome # "queued" /\ job[r] = "running" /\ queue' = queue
    BY <1>4 DEF Finish, Outcomes
  <2>3. \A q \in Requests : job[q] = "queued" <=> job'[q] = "queued"
    BY <1>1, <2>1, <2>2
  <2> QED BY <2>2, <2>3, TurnsStay
<1>5. ASSUME NEW r \in Requests, Submit(r) PROVE TurnsKept
  <2>1. /\ queue \in Seq(Requests) /\ queue' = Append(queue, r)
        /\ job' = [job EXCEPT ![r] = "queued"]
        /\ job[r] = "none"
    BY <1>5 DEF Submit, Inv, ServerTypeOK, ClientInv
  <2>2. /\ DOMAIN queue = 1..Len(queue) /\ DOMAIN queue' = 1..(Len(queue) + 1)
        /\ Len(queue) \in Nat /\ queue'[Len(queue) + 1] = r
        /\ \A i \in DOMAIN queue : queue'[i] = queue[i]
    BY <2>1
  <2>3. \A q \in Requests : q # r => job'[q] = job[q]
    BY <1>1, <2>1
  <2>4. ASSUME NEW p \in Requests, NEW q \in Requests, job[p] = "queued",
               job[q] # "queued", job'[q] = "queued"
        PROVE  Before(p, q)'
    <3>1. q = r
      BY <2>3, <2>4
    <3>2. PICK i \in DOMAIN queue : queue[i] = p
      BY <2>4 DEF Inv, QueueIsWhatWaits
    <3>3. /\ i \in DOMAIN queue' /\ Len(queue) + 1 \in DOMAIN queue'
          /\ i < Len(queue) + 1
      BY <2>2
    <3> QED BY <2>2, <3>1, <3>2, <3>3 DEF Before
  <2>5. ASSUME NEW p \in Requests, NEW q \in Requests, Before(p, q)
        PROVE  Before(p, q)' /\ job'[q] # "running"
    <3>1. PICK i, j \in DOMAIN queue : i < j /\ queue[i] = p /\ queue[j] = q
      BY <2>5 DEF Before
    <3>2. i \in DOMAIN queue' /\ j \in DOMAIN queue'
      BY <2>2
    <3>3. job[q] = "queued"
      BY <3>1 DEF Inv, QueueIsWhatWaits
    <3>4. job'[q] = "queued"
      BY <1>1, <2>1, <2>3, <3>3
    <3> QED BY <2>2, <3>1, <3>2, <3>4 DEF Before
  <2> QED BY <2>4, <2>5 DEF TurnsKept
<1>6. CASE Start
  BY <1>6, TurnsMoveUp DEF Start
<1>7. CASE Cancel
  BY <1>7, TurnsMoveUp DEF Cancel
<1>8. CASE Kill
  BY <1>8 DEF Kill, TurnsKept
<1> QED BY <1>2, <1>3, <1>4, <1>5, <1>6, <1>7, <1>8 DEF ServerNext

(***************************************************************************)
(* Nobody overtakes: runs are started in the order in which their handlers *)
(* passed them on (main.rs:269), whoever disconnects, whatever the other   *)
(* runs come to, and also while the pool shuts down.  A client that waits  *)
(* waits for the runs in front of its own and for no later one.            *)
(***************************************************************************)
THEOREM NobodyOvertakes == ServerSpec => [][TurnsKept]_serverVars
PROOF
<1>1. Inv /\ [ServerNext]_serverVars => [TurnsKept]_serverVars
  BY NextKeepsTurns
<1> QED BY <1>1, InvHolds, PTL DEF ServerSpec

=============================================================================
