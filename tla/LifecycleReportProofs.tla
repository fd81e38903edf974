------------------------ MODULE LifecycleReportProofs ------------------------
(***************************************************************************)
(* What the lifecycle tracker says of an installation that has ended, for  *)
(* every set of jobs, every text of their events and all faults.  XInv     *)
(* follows a report from the machine that sends it (Sender, Waited) to the *)
(* job it is credited to (Credited) and the stage it writes back           *)
(* (SeenExact, Fresh).  The history variables say for which jobs this is   *)
(* promised: mixed and hasty only grow.                                    *)
(***************************************************************************)
EXTENDS LifecycleProofs

Running == {"installing", "done", "failed"}

\* An event that is being processed comes from a machine that runs the
\* installer, and tells the truth.
Sender ==
    \A t \in Threads : thr[t].at \in {"scan", "read", "store"} =>
        \/ thr[t].src \in mixed
        \/ /\ node[thr[t].src] \in Running
           /\ thr[t].ev \in {"finish", "reboot"} => node[thr[t].src] = "done"

\* It is credited to its sender, or the mistake is on record.
Credited ==
    \A t \in Threads : thr[t].at \in {"read", "store"} =>
        thr[t].job \in mixed \/ thr[t].job = thr[t].src

\* What a thread has read and may write back is still true.
SeenExact ==
    \A t \in Threads : thr[t].at = "store" /\ thr[t].seen = "COMPLETED"
        => thr[t].job \in mixed \/ node[thr[t].job] = "done"

\* A machine waits for the thread that serves its launcher.
Fetching ==
    \A t \in Threads : thr[t].at = "serve" /\ post[thr[t].job] = t
        => node[thr[t].job] = "fetching"

\* A machine waits for the thread of its report, or its impatience is on record.
Waited ==
    \A t \in Threads : thr[t].at \in {"scan", "read", "store"}
        => thr[t].src \in mixed \cup hasty \/ post[thr[t].src] = t

\* A final stage that is there when a report is about to be stored was there when
\* the report looked.
Fresh ==
    \A t \in Threads :
        /\ thr[t].at = "store"
        /\ thr[t].job \notin mixed \cup hasty
        /\ tracker[thr[t].job] \in Terminal
        => thr[t].seen = tracker[thr[t].job]

\* The inductive invariant.
XInv ==
    /\ IInv /\ CompletedIsExact
    /\ Sender /\ Credited /\ SeenExact /\ Fetching /\ Waited /\ Fresh

-----------------------------------------------------------------------------

\* How a thread comes to the labels that XInv is about.
LEMMA ThreadStep ==
    ASSUME TypeOK, Bound, [Next]_vars, NEW u \in Threads
    PROVE  \/ thr'[u] = thr[u]
           \/ thr'[u].at \notin {"build", "serve", "scan", "read", "store"}
           \/ \E j \in Jobs : \/ CustomIso(u, j) \/ GetLauncher(u, j)
                              \/ PostProgress(u, j) \/ PostFinal(u, j)
           \/ Match(u)
           \/ ReadStage(u)
  <1> DEFINE Same == thr'[u] = thr[u]
             Away == thr'[u].at \notin {"build", "serve", "scan", "read", "store"}
             Begun == \E j \in Jobs : \/ CustomIso(u, j) \/ GetLauncher(u, j)
                                      \/ PostProgress(u, j) \/ PostFinal(u, j)
             Goal == Same \/ Away \/ Begun \/ Match(u) \/ ReadStage(u)
  <1>1. ASSUME NEW t \in Threads, Respond(t)
        PROVE  Same \/ Away
    BY <1>1 DEF Respond, TypeOK, Idle
  <1>2. ASSUME NEW t \in Threads, NEW j \in Jobs,
               NEW a \in {"spawn", "advance", "runner"}, Accept(t, j, a)
        PROVE  Same \/ Away
    BY <1>2 DEF Accept, TypeOK, Idle
  <1>3. ASSUME NEW t \in Threads, NEW j \in Jobs, NEW a, Accept(t, j, a), t # u
        PROVE  Same
    BY <1>3 DEF Accept, TypeOK
  <1>4. ASSUME NEW t \in Threads, NEW j \in Jobs, NEW ev, Telemetry(t, j, ev), t # u
        PROVE  Same
    BY <1>4 DEF Telemetry, TypeOK
  <1>5. ASSUME NEW t \in Threads, NEW j \in Jobs, Request(t, j)
        PROVE  Same \/ Away \/ Begun
    <2>1. CASE Provision(t, j) \/ PhoneHome(t, j) \/ StatusGet(t, j)
      BY <2>1, <1>2 DEF Provision, PhoneHome, StatusGet
    <2>2. CASE CustomIso(t, j) \/ GetLauncher(t, j)
      BY <2>2, <1>3 DEF CustomIso, GetLauncher
    <2>3. CASE PostProgress(t, j) \/ PostFinal(t, j)
      BY <2>3, <1>4 DEF PostProgress, PostFinal
    <2>4. CASE \E s \in HookStages : ProgressHook(t, j, s)
      BY <2>4 DEF ProgressHook
    <2>5. QED
      BY <1>5, <2>1, <2>2, <2>3, <2>4 DEF Request
  <1>6. ASSUME NEW t \in Threads,
               \/ SpawnFails(t) \/ Register(t) \/ Build(t) \/ Render(t) \/ Serve(t)
               \/ Drop(t) \/ StoreStage(t) \/ StatusMark(t)
        PROVE  Same \/ Away
    BY <1>1, <1>6 DEF SpawnFails, Register, Build, Render, Serve, Drop,
                      StoreStage, StatusMark, Answer
  <1>7. ASSUME NEW t \in Threads, Spawn(t)
        PROVE  Same \/ Away
    BY <1>7 DEF Spawn, TypeOK, ThreadStates
  <1>8. ASSUME NEW t \in Threads, Advance(t)
        PROVE  Same \/ Away
    BY <1>8 DEF Advance, Goto, TypeOK, ThreadStates
  <1>9. ASSUME NEW t \in Threads, Match(t)
        PROVE  Same \/ Match(u)
    BY <1>9 DEF Match, TypeOK
  <1>10. ASSUME NEW t \in Threads, ReadStage(t)
         PROVE  Same \/ ReadStage(u)
    BY <1>10 DEF ReadStage, TypeOK
  <1>11. ASSUME NEW t \in Threads, StatusRunner(t)
         PROVE  Same \/ Away
    BY <1>11 DEF StatusRunner, TypeOK, ThreadStates
  <1>12. ASSUME NEW t \in Threads, StatusCheck(t)
         PROVE  Same \/ Away
    <2>1. CASE ~StagingHasFailed(t)
      BY <1>1, <1>12, <2>1 DEF StatusCheck
    <2>2. CASE StagingHasFailed(t)
      BY <1>12, <2>2 DEF StatusCheck, Goto, TypeOK, ThreadStates
    <2>3. QED
      BY <2>1, <2>2
  <1>13. ASSUME NEW j \in Jobs, Machine(j) \/ \E n \in Attempts : PlaybookEnds(j, n)
         PROVE  Same
    BY <1>13 DEF Machine, Boot, InstallerEnds, Timeout, PlaybookEnds
  <1>14. ASSUME Restart
         PROVE  Away
    BY <1>14 DEF Restart, Idle
  <1>15. ASSUME UNCHANGED vars
         PROVE  Same
    BY <1>15 DEF vars
  <1> HIDE DEF Same, Away, Begun
  <1>16. Goal
    BY <1>5, <1>6, <1>7, <1>8, <1>9, <1>10, <1>11, <1>12, <1>13, <1>14, <1>15
       DEF Next, Work
  <1>17. QED
    BY <1>16 DEF Same, Away, Begun

\* What is on record stays there.
LEMMA RecordStep ==
    ASSUME [Next]_vars
    PROVE  mixed \subseteq mixed' /\ hasty \subseteq hasty'
  <1> DEFINE Goal == mixed \subseteq mixed' /\ hasty \subseteq hasty'
  <1>1. ASSUME NEW t \in Threads, Match(t)
        PROVE  Goal
    BY <1>1 DEF Match
  <1>2. ASSUME NEW t \in Threads, Work(t) \/ SpawnFails(t)
        PROVE  Goal
    BY <1>1, <1>2 DEF Work, Spawn, SpawnFails, Register, Build, Advance, Render, Serve,
                Drop, ReadStage, StoreStage, StatusRunner, StatusCheck, StatusMark
  <1>3. ASSUME NEW t \in Threads, NEW i \in Jobs, Request(t, i)
        PROVE  Goal
    BY <1>3 DEF Request, Provision, CustomIso, PhoneHome, GetLauncher,
                PostProgress, PostFinal, Telemetry, StatusGet, ProgressHook
  <1>4. ASSUME NEW i \in Jobs, Machine(i) \/ \E n \in Attempts : PlaybookEnds(i, n)
        PROVE  Goal
    BY <1>4 DEF Machine, Boot, InstallerEnds, Timeout, PlaybookEnds
  <1>5. Restart \/ UNCHANGED vars => Goal
    BY DEF Restart, vars
  <1>6. QED
    BY <1>2, <1>3, <1>4, <1>5 DEF Next

\* A machine that runs the installer goes on to its end, and the end is final,
\* unless it is started again.
LEMMA NodeStep ==
    ASSUME XInv, [Next]_vars, NEW j \in Jobs, j \notin mixed'
    PROVE  /\ node[j] = "done" => node'[j] = "done"
           /\ node[j] \in Running => node'[j] \in Running
  <1> DEFINE Goal == /\ node[j] = "done" => node'[j] = "done"
                     /\ node[j] \in Running => node'[j] \in Running
  <1> USE DEF XInv, IInv
  <1>1. ASSUME NEW t \in Threads, NEW i \in Jobs, PhoneHome(t, i)
        PROVE  Goal
    BY <1>1 DEF PhoneHome, TypeOK, Running
  <1>2. ASSUME NEW t \in Threads, NEW i \in Jobs, GetLauncher(t, i)
        PROVE  Goal
    BY <1>2 DEF GetLauncher, TypeOK, Running
  <1>3. ASSUME NEW t \in Threads, Serve(t)
        PROVE  Goal
    <2>1. post[thr[t].job] = t => node[thr[t].job] = "fetching"
      BY <1>3 DEF Serve, Fetching
    <2>2. QED
      BY <1>3, <2>1 DEF Serve, Launched, TypeOK, Running
  <1>4. ASSUME NEW i \in Jobs, Boot(i)
        PROVE  Goal
    <2>1. i = j => node[j] = "off"
      BY <1>4 DEF Boot
    <2>2. QED
      BY <1>4, <2>1 DEF Boot, TypeOK, Running
  <1>5. ASSUME NEW i \in Jobs, InstallerEnds(i)
        PROVE  Goal
    BY <1>5 DEF InstallerEnds, TypeOK, Running
  <1>6. ASSUME Restart
        PROVE  Goal
    BY <1>6 DEF Restart, Running
  <1>7. ASSUME UNCHANGED node
        PROVE  Goal
    BY <1>7
  <1> HIDE DEF Goal
  <1>8. ASSUME NEW t \in Threads, Work(t) \/ SpawnFails(t)
        PROVE  Goal
    BY <1>3, <1>7, <1>8
       DEF Work, Spawn, SpawnFails, Register, Build, Advance, Render, Match,
           Drop, ReadStage, StoreStage, StatusRunner, StatusCheck, StatusMark
  <1>9. ASSUME NEW t \in Threads, NEW i \in Jobs, Request(t, i)
        PROVE  Goal
    BY <1>1, <1>2, <1>7, <1>9
       DEF Request, Provision, CustomIso, PostProgress, PostFinal, Telemetry,
           StatusGet, ProgressHook
  <1>10. ASSUME NEW i \in Jobs, Machine(i) \/ \E n \in Attempts : PlaybookEnds(i, n)
         PROVE  Goal
    BY <1>4, <1>5, <1>7, <1>10 DEF Machine, Timeout, PlaybookEnds
  <1>11. Goal
    BY <1>6, <1>7, <1>8, <1>9, <1>10 DEF Next, vars
  <1>12. QED
    BY <1>11 DEF Goal

\* A final stage is written by a report, or by the progress hook.
LEMMA FinalStep ==
    ASSUME XInv, [Next]_vars, NEW j \in Jobs, j \notin mixed',
           tracker'[j] # tracker[j], tracker'[j] \in Terminal
    PROVE  \E t \in Threads :
              /\ StoreStage(t)
              /\ thr[t].job = j
              /\ tracker'[j] = Calculated(thr[t].seen, thr[t].ev)
  <1> USE DEF XInv, IInv
  <1>1. ASSUME NEW i \in Jobs, NEW s, SetStage(i, s)
        PROVE  i = j /\ tracker'[j] = s
    BY <1>1 DEF SetStage, TypeOK
  <1>2. ASSUME NEW t \in Threads, NEW i \in Jobs, Request(t, i)
        PROVE  FALSE
    <2>1. CASE Provision(t, i) \/ CustomIso(t, i) \/ GetLauncher(t, i)
      BY <1>1, <2>1 DEF Provision, CustomIso, GetLauncher, Terminal
    <2>2. CASE \E s \in HookStages : ProgressHook(t, i, s)
      BY <1>1, <2>2 DEF ProgressHook
    <2>3. CASE tracker' = tracker
      BY <2>3
    <2>4. QED
      BY <1>2, <2>1, <2>2, <2>3
         DEF Request, PhoneHome, PostProgress, PostFinal, Telemetry, StatusGet
  <1>3. ASSUME NEW t \in Threads, Advance(t)
        PROVE  FALSE
    <2>1. thr[t].job \in Jobs /\ SetStage(thr[t].job, "PHONED_HOME")
      BY <1>3 DEF Advance, Bound
    <2>2. QED
      BY <1>1, <2>1 DEF Terminal
  <1>4. ASSUME NEW t \in Threads, StatusMark(t)
        PROVE  FALSE
    BY <1>4 DEF StatusMark, TypeOK, Terminal
  <1>5. ASSUME NEW t \in Threads, StoreStage(t)
        PROVE  thr[t].job = j /\ tracker'[j] = Calculated(thr[t].seen, thr[t].ev)
    <2>1. /\ thr[t].job \in Jobs
          /\ SetStage(thr[t].job, Calculated(thr[t].seen, thr[t].ev))
      BY <1>5 DEF StoreStage, Bound
    <2>2. QED
      BY <1>1, <2>1
  <1>6. ~Restart
    BY DEF Restart, Terminal
  <1>7. ASSUME NEW t \in Threads, Work(t) \/ SpawnFails(t)
        PROVE  StoreStage(t)
    BY <1>3, <1>4, <1>7
       DEF Work, Spawn, SpawnFails, Register, Build, Render, Serve, Match, Drop,
           ReadStage, StatusRunner, StatusCheck
  <1>8. ASSUME NEW i \in Jobs, Machine(i) \/ \E n \in Attempts : PlaybookEnds(i, n)
        PROVE  FALSE
    BY <1>8 DEF Machine, Boot, InstallerEnds, Timeout, PlaybookEnds
  <1>9. \E t \in Threads : StoreStage(t)
    BY <1>2, <1>6, <1>7, <1>8 DEF Next, vars
  <1>10. QED
    BY <1>5, <1>9

\* A machine that waits for its launcher waits until it is served.
LEMMA FetchStep ==
    ASSUME XInv, [Next]_vars, NEW u \in Threads,
           thr[u].at = "serve", thr'[u] = thr[u], post'[thr[u].job] = u
    PROVE  node'[thr[u].job] = "fetching"
  <1> USE DEF XInv, IInv
  <1> DEFINE j == thr[u].job
             Goal == node'[j] = "fetching"
  <1>1. j \in Jobs /\ u # "none"
    BY LifecycleAssumption DEF Bound
  <1>2. post[j] = u => node[j] = "fetching"
    BY DEF Fetching
  <1>3. ASSUME post' = post, node' = node
        PROVE  Goal
    BY <1>2, <1>3
  <1>4. ASSUME NEW t \in Threads, Respond(t)
        PROVE  post[j] = u
    BY <1>1, <1>4 DEF Respond, TypeOK
  <1>5. ASSUME NEW t \in Threads, Respond(t), node' = node
        PROVE  Goal
    BY <1>2, <1>4, <1>5
  <1>6. ASSUME NEW t \in Threads, Serve(t)
        PROVE  Goal
    <2>1. t # u
      BY <1>6 DEF Serve, Respond, TypeOK, Idle
    <2>2. post[j] = u /\ node[j] = "fetching"
      BY <1>2, <1>4, <1>6 DEF Serve
    <2>3. QED
      BY <1>1, <1>6, <2>1, <2>2 DEF Serve, TypeOK
  <1>7. ASSUME NEW t \in Threads, NEW i \in Jobs, thr[t].at = "idle",
               node'[i] # node[i] => node[i] # "fetching",
               node' = [node EXCEPT ![i] = node'[i]],
               post' = [post EXCEPT ![i] = t] \/ post' = post
        PROVE  Goal
    BY <1>1, <1>2, <1>7 DEF TypeOK
  <1>8. ASSUME NEW i \in Jobs, Machine(i)
        PROVE  Goal
    <2>1. CASE Boot(i)
      BY <1>1, <1>2, <2>1 DEF Boot, TypeOK
    <2>2. CASE InstallerEnds(i)
      BY <1>1, <1>2, <2>2 DEF InstallerEnds, TypeOK
    <2>3. CASE Timeout(i)
      BY <1>1, <1>2, <2>3 DEF Timeout, TypeOK
    <2>4. QED
      BY <1>8, <2>1, <2>2, <2>3 DEF Machine
  <1>9. ~Restart
    BY DEF Restart, Idle
  <1> HIDE DEF Goal, j
  <1>10. ASSUME NEW t \in Threads, NEW i \in Jobs, Request(t, i)
         PROVE  Goal
    <2>1. CASE PhoneHome(t, i)
      BY <1>7, <2>1 DEF PhoneHome, Accept, TypeOK
    <2>2. CASE GetLauncher(t, i)
      BY <1>7, <2>2 DEF GetLauncher, Accept, TypeOK
    <2>3. CASE PostProgress(t, i) \/ PostFinal(t, i)
      BY <1>7, <2>3 DEF PostProgress, PostFinal, Telemetry, TypeOK
    <2>4. CASE Provision(t, i) \/ CustomIso(t, i) \/ StatusGet(t, i)
      BY <1>3, <2>4 DEF Provision, CustomIso, StatusGet
    <2>5. CASE \E s \in HookStages : ProgressHook(t, i, s)
      BY <1>3, <2>5 DEF ProgressHook
    <2>6. QED
      BY <1>10, <2>1, <2>2, <2>3, <2>4, <2>5 DEF Request
  <1>11. ASSUME NEW t \in Threads, Work(t) \/ SpawnFails(t)
         PROVE  Goal
    <2>1. CASE Spawn(t) \/ Advance(t) \/ Match(t) \/ ReadStage(t) \/ StatusRunner(t)
      BY <1>3, <2>1 DEF Spawn, Advance, Match, ReadStage, StatusRunner
    <2>2. CASE \/ SpawnFails(t) \/ Register(t) \/ Build(t) \/ Render(t) \/ Drop(t)
               \/ StoreStage(t) \/ StatusMark(t)
      BY <1>5, <2>2 DEF SpawnFails, Register, Build, Render, Drop, StoreStage,
                        StatusMark, Answer
    <2>3. CASE StatusCheck(t)
      BY <1>3, <1>5, <2>3 DEF StatusCheck
    <2>4. QED
      BY <1>6, <1>11, <2>1, <2>2, <2>3 DEF Work
  <1>12. ASSUME NEW i \in Jobs, NEW n \in Attempts, PlaybookEnds(i, n)
         PROVE  Goal
    BY <1>3, <1>12 DEF PlaybookEnds
  <1>13. Goal
    BY <1>3, <1>8, <1>9, <1>10, <1>11, <1>12 DEF Next, vars
  <1>14. QED
    BY <1>13 DEF Goal, j

\* The labels at which a thread that has just taken a request or gone on is.
LEMMA NewLabel ==
    ASSUME TypeOK, NEW u \in Threads, NEW j \in Jobs
    PROVE  /\ CustomIso(u, j) => thr'[u].at = "build" /\ thr'[u].job = j
           /\ GetLauncher(u, j) => thr'[u].at = "serve" /\ thr'[u].job = j
           /\ PostProgress(u, j) => thr'[u].at = "scan"
           /\ PostFinal(u, j) => thr'[u].at = "scan"
  <1>1. CustomIso(u, j) => thr'[u].at = "build" /\ thr'[u].job = j
    BY DEF CustomIso, Accept, Idle, TypeOK
  <1>2. GetLauncher(u, j) => thr'[u].at = "serve" /\ thr'[u].job = j
    BY DEF GetLauncher, Accept, Idle, TypeOK
  <1>3. \A ev : Telemetry(u, j, ev) => thr'[u].at = "scan"
    BY DEF Telemetry, Idle, TypeOK
  <1>4. QED
    BY <1>1, <1>2, <1>3 DEF PostProgress, PostFinal

LEMMA NextLabel ==
    ASSUME TypeOK, NEW u \in Threads
    PROVE  /\ Match(u) => thr'[u].at = "read"
           /\ ReadStage(u) => thr'[u].at = "store"
  <1>1. Match(u) => thr'[u].at = "read"
    BY DEF Match, TypeOK, ThreadStates
  <1>2. ReadStage(u) => thr'[u].at = "store"
    BY DEF ReadStage, TypeOK, ThreadStates
  <1>3. QED
    BY <1>1, <1>2

\* Matching and reading keep the event and its sender.
LEMMA TurnKeeps ==
    ASSUME TypeOK, NEW u \in Threads, Match(u) \/ ReadStage(u)
    PROVE  /\ thr'[u].src = thr[u].src /\ thr'[u].ev = thr[u].ev
           /\ thr[u].at \in {"scan", "read"} /\ post' = post /\ node' = node
  <1>1. CASE Match(u)
    <2>1. PICK i : thr' = [thr EXCEPT ![u].at = "read", ![u].job = i, ![u].keys = {}]
      BY <1>1 DEF Match
    <2>2. thr'[u].src = thr[u].src /\ thr'[u].ev = thr[u].ev
      BY <2>1 DEF TypeOK, ThreadStates
    <2>3. QED
      BY <1>1, <2>2 DEF Match
  <1>2. CASE ReadStage(u)
    <2>1. thr'[u].src = thr[u].src /\ thr'[u].ev = thr[u].ev
      BY <1>2 DEF ReadStage, TypeOK, ThreadStates
    <2>2. QED
      BY <1>2, <2>1 DEF ReadStage
  <1>3. QED
    BY <1>1, <1>2

\* A machine that waits for the answer to its report goes on waiting, unless it
\* gives up or is started again.
LEMMA PostStep ==
    ASSUME XInv, [Next]_vars, NEW u \in Threads, NEW c \in Jobs,
           thr[u].at # "idle", thr'[u] = thr[u], post[c] = u,
           node[c] \in Running, c \notin mixed' \cup hasty'
    PROVE  post'[c] = u
  <1> USE DEF XInv, IInv
  <1> DEFINE Goal == post'[c] = u
  <1>1. u # "none"
    BY LifecycleAssumption
  <1>2. ASSUME post' = post
        PROVE  Goal
    BY <1>2
  <1>3. ASSUME NEW t \in Threads, Respond(t)
        PROVE  Goal
    <2>1. t # u
      BY <1>3 DEF Respond, TypeOK, Idle
    <2>2. QED
      BY <1>3, <2>1 DEF Respond
  <1>4. ASSUME NEW i \in Jobs, i # c, post' = [post EXCEPT ![i] = post'[i]]
        PROVE  Goal
    BY <1>4 DEF TypeOK
  <1>5. ASSUME NEW t \in Threads, NEW i \in Jobs, Request(t, i)
        PROVE  Goal
    <2>1. CASE PhoneHome(t, i)
      <3>1. i # c
        BY <2>1 DEF PhoneHome, Running
      <3>2. post' = [post EXCEPT ![i] = post'[i]]
        BY <2>1 DEF PhoneHome, TypeOK
      <3>3. QED
        BY <1>4, <3>1, <3>2
    <2>2. CASE GetLauncher(t, i)
      <3>1. i # c
        BY <1>1, <2>2 DEF GetLauncher
      <3>2. post' = [post EXCEPT ![i] = post'[i]]
        BY <2>2 DEF GetLauncher, TypeOK
      <3>3. QED
        BY <1>4, <3>1, <3>2
    <2>3. CASE PostProgress(t, i) \/ PostFinal(t, i)
      <3>1. i # c
        BY <1>1, <2>3 DEF PostProgress, PostFinal, Telemetry
      <3>2. post' = [post EXCEPT ![i] = post'[i]]
        BY <2>3 DEF PostProgress, PostFinal, Telemetry, TypeOK
      <3>3. QED
        BY <1>4, <3>1, <3>2
    <2>4. CASE Provision(t, i) \/ CustomIso(t, i) \/ StatusGet(t, i)
      BY <1>2, <2>4 DEF Provision, CustomIso, StatusGet
    <2>5. CASE \E s \in HookStages : ProgressHook(t, i, s)
      BY <1>2, <2>5 DEF ProgressHook
    <2>6. QED
      BY <1>5, <2>1, <2>2, <2>3, <2>4, <2>5 DEF Request
  <1>6. ASSUME NEW i \in Jobs, Machine(i)
        PROVE  Goal
    <2>1. CASE Boot(i)
      <3>1. i # c
        BY <2>1 DEF Boot, Running
      <3>2. QED
        BY <2>1, <3>1 DEF Boot, TypeOK
    <2>2. CASE InstallerEnds(i)
      BY <2>2 DEF InstallerEnds
    <2>3. CASE Timeout(i)
      <3>1. i # c
        BY <2>3 DEF Timeout, Running
      <3>2. QED
        BY <2>3, <3>1 DEF Timeout, TypeOK
    <2>4. QED
      BY <1>6, <2>1, <2>2, <2>3 DEF Machine
  <1>7. ~Restart
    BY DEF Restart, Idle
  <1> HIDE DEF Goal
  <1>8. ASSUME NEW t \in Threads, Work(t) \/ SpawnFails(t)
        PROVE  Goal
    <2>1. CASE Spawn(t) \/ Advance(t) \/ Match(t) \/ ReadStage(t) \/ StatusRunner(t)
      BY <1>2, <2>1 DEF Spawn, Advance, Match, ReadStage, StatusRunner
    <2>2. CASE \/ SpawnFails(t) \/ Register(t) \/ Build(t) \/ Render(t) \/ Serve(t)
               \/ Drop(t) \/ StoreStage(t) \/ StatusMark(t)
      BY <1>3, <2>2 DEF SpawnFails, Register, Build, Render, Serve, Drop, StoreStage,
                        StatusMark, Answer
    <2>3. CASE StatusCheck(t)
      BY <1>2, <1>3, <2>3 DEF StatusCheck
    <2>4. QED
      BY <1>8, <2>1, <2>2, <2>3 DEF Work
  <1>9. ASSUME NEW i \in Jobs, NEW n \in Attempts, PlaybookEnds(i, n)
        PROVE  Goal
    BY <1>2, <1>9 DEF PlaybookEnds
  <1>10. Goal
    BY <1>2, <1>5, <1>6, <1>7, <1>8, <1>9 DEF Next, vars
  <1>11. QED
    BY <1>10 DEF Goal

-----------------------------------------------------------------------------

LEMMA XInit ==
    Init => XInv
  <1> SUFFICES ASSUME Init PROVE XInv
    OBVIOUS
  <1>1. IInv
    BY InvInit
  <1>2. CompletedIsExact
    BY DEF Init, CompletedIsExact
  <1>3. \A t \in Threads : thr[t].at = "idle"
    BY DEF Init, Idle
  <1>4. Sender /\ Credited /\ SeenExact /\ Fetching /\ Waited /\ Fresh
    BY <1>3 DEF Sender, Credited, SeenExact, Fetching, Waited, Fresh
  <1>5. QED
    BY <1>1, <1>2, <1>4 DEF XInv

\* Which reports are new: the machine has just sent it, and waits.
LEMMA NewReport ==
    ASSUME TypeOK, NEW u \in Threads, NEW j \in Jobs, PostProgress(u, j) \/ PostFinal(u, j)
    PROVE  /\ thr'[u].src = j /\ thr'[u].at = "scan" /\ post'[j] = u /\ node' = node
           /\ node[j] \in Running
           /\ thr'[u].ev \in {"finish", "reboot"} => node[j] = "done"
  <1>1. ASSUME NEW ev, Telemetry(u, j, ev)
        PROVE  /\ thr'[u].src = j /\ thr'[u].at = "scan" /\ post'[j] = u /\ node' = node
               /\ thr'[u].ev = ev
    BY <1>1 DEF Telemetry, Idle, TypeOK
  <1>2. CASE PostProgress(u, j)
    BY <1>1, <1>2 DEF PostProgress, Running
  <1>3. CASE PostFinal(u, j)
    BY <1>1, <1>3 DEF PostFinal, Running
  <1>4. QED
    BY <1>2, <1>3

\* How a thread comes to have a report.
LEMMA ReportStep ==
    ASSUME XInv, [Next]_vars, NEW u \in Threads, thr'[u].at \in {"scan", "read", "store"}
    PROVE  \/ thr'[u] = thr[u]
           \/ \E j \in Jobs : PostProgress(u, j) \/ PostFinal(u, j)
           \/ Match(u) \/ ReadStage(u)
  BY ThreadStep, NewLabel DEF XInv, IInv

LEMMA SenderStep ==
    ASSUME XInv, [Next]_vars
    PROVE  Sender'
  <1> USE DEF XInv, IInv
  <1> SUFFICES ASSUME NEW u \in Threads, thr'[u].at \in {"scan", "read", "store"},
                      thr'[u].src \notin mixed'
               PROVE  /\ node'[thr'[u].src] \in Running
                      /\ thr'[u].ev \in {"finish", "reboot"} => node'[thr'[u].src] = "done"
    BY DEF Sender
  <1>1. CASE thr'[u] = thr[u]
    <2>1. thr[u].src \in Jobs /\ thr[u].src \notin mixed
      BY <1>1, RecordStep DEF Bound
    <2>2. QED
      BY <1>1, <2>1, NodeStep DEF Sender
  <1>2. ASSUME NEW j \in Jobs, PostProgress(u, j) \/ PostFinal(u, j)
        PROVE  /\ node'[thr'[u].src] \in Running
               /\ thr'[u].ev \in {"finish", "reboot"} => node'[thr'[u].src] = "done"
    BY <1>2, NewReport
  <1>3. CASE Match(u) \/ ReadStage(u)
    <2>1. /\ thr'[u].src = thr[u].src /\ thr'[u].ev = thr[u].ev
          /\ thr[u].at \in {"scan", "read"} /\ node' = node
      BY <1>3, TurnKeeps
    <2>2. thr[u].src \notin mixed
      BY <2>1, RecordStep
    <2>3. QED
      BY <2>1, <2>2 DEF Sender
  <1>4. QED
    BY <1>1, <1>2, <1>3, ReportStep

\* An event is credited to another job only where its text is unclear.
LEMMA CreditedStep ==
    ASSUME XInv, [Next]_vars
    PROVE  Credited'
  <1> USE DEF XInv, IInv
  <1> SUFFICES ASSUME NEW u \in Threads, thr'[u].at \in {"read", "store"}
               PROVE  thr'[u].job \in mixed' \/ thr'[u].job = thr'[u].src
    BY DEF Credited
  <1>1. CASE thr'[u] = thr[u]
    BY <1>1, RecordStep DEF Credited
  <1>2. CASE Match(u)
    <2>1. PICK i \in Matches(thr[u].src) :
            /\ thr' = [thr EXCEPT ![u].at = "read", ![u].job = i, ![u].keys = {}]
            /\ mixed' = IF Unclear(i, thr[u].src) THEN mixed \cup {i} ELSE mixed
      BY <1>2 DEF Match
    <2>2. thr'[u].job = i /\ thr'[u].src = thr[u].src
      BY <2>1 DEF TypeOK, ThreadStates
    <2>3. PICK j : j = thr[u].src
      OBVIOUS
    <2>4. j \in Jobs
      BY <1>2, <2>3 DEF Match, Bound
    <2>5. CASE Unclear(i, j)
      BY <2>1, <2>2, <2>3, <2>5
    <2>6. CASE ~Unclear(i, j) /\ i # j
      <3>1. <<j, j>> \in Occurs /\ j \in Present /\ <<i, j>> \notin Occurs
        BY <2>6 DEF Unclear
      <3>2. j \in {k \in Present : <<k, j>> \in Occurs}
        BY <3>1
      <3>3. Matches(j) = {k \in Present : <<k, j>> \in Occurs}
        BY <3>2 DEF Matches
      <3>4. QED
        BY <2>1, <2>3, <3>1, <3>3
    <2>7. QED
      BY <2>2, <2>3, <2>5, <2>6
  <1>3. CASE ReadStage(u)
    <2>1. thr'[u].src = thr[u].src /\ thr'[u].job = thr[u].job /\ thr[u].at = "read"
      BY <1>3 DEF ReadStage, TypeOK, ThreadStates
    <2>2. QED
      BY <2>1, RecordStep DEF Credited
  <1>4. QED
    BY <1>1, <1>2, <1>3, ReportStep, NewLabel

LEMMA SeenStep ==
    ASSUME XInv, [Next]_vars
    PROVE  SeenExact'
  <1> USE DEF XInv, IInv
  <1> SUFFICES ASSUME NEW u \in Threads, thr'[u].at = "store", thr'[u].seen = "COMPLETED",
                      thr'[u].job \notin mixed'
               PROVE  node'[thr'[u].job] = "done"
    BY DEF SeenExact
  <1>1. CASE thr'[u] = thr[u]
    <2>1. thr[u].job \in Jobs /\ thr[u].job \notin mixed
      BY <1>1, RecordStep DEF Bound
    <2>2. node[thr[u].job] = "done"
      BY <1>1, <2>1 DEF SeenExact
    <2>3. QED
      BY <1>1, <2>1, <2>2, NodeStep
  <1>2. CASE ReadStage(u)
    <2>1. thr'[u].job = thr[u].job /\ thr[u].job \in Jobs
      BY <1>2 DEF ReadStage, TypeOK, ThreadStates, Bound
    <2>2. tracker[thr[u].job] = "COMPLETED"
      BY <1>2 DEF ReadStage, TypeOK, ThreadStates
    <2>3. thr[u].job \notin mixed
      BY <2>1, RecordStep
    <2>4. QED
      BY <1>2, <2>1, <2>2, <2>3 DEF ReadStage, CompletedIsExact
  <1>3. thr'[u] = thr[u] \/ ReadStage(u)
    BY ThreadStep, NewLabel, NextLabel
  <1>4. QED
    BY <1>1, <1>2, <1>3

LEMMA FetchingStep ==
    ASSUME XInv, [Next]_vars
    PROVE  Fetching'
  <1> USE DEF XInv, IInv
  <1> SUFFICES ASSUME NEW u \in Threads, thr'[u].at = "serve", post'[thr'[u].job] = u
               PROVE  node'[thr'[u].job] = "fetching"
    BY DEF Fetching
  <1>1. CASE thr'[u] = thr[u]
    BY <1>1, FetchStep
  <1>2. ASSUME NEW j \in Jobs, GetLauncher(u, j)
        PROVE  node'[thr'[u].job] = "fetching"
    <2>1. thr'[u].job = j
      BY <1>2, NewLabel
    <2>2. QED
      BY <1>2, <2>1 DEF GetLauncher, TypeOK
  <1>3. thr'[u] = thr[u] \/ \E j \in Jobs : GetLauncher(u, j)
    BY ThreadStep, NewLabel, NextLabel
  <1>4. QED
    BY <1>1, <1>2, <1>3

LEMMA WaitedStep ==
    ASSUME XInv, [Next]_vars
    PROVE  Waited'
  <1> USE DEF XInv, IInv
  <1> SUFFICES ASSUME NEW u \in Threads, thr'[u].at \in {"scan", "read", "store"},
                      thr'[u].src \notin mixed' \cup hasty'
               PROVE  post'[thr'[u].src] = u
    BY DEF Waited
  <1>1. CASE thr'[u] = thr[u]
    <2>1. PICK c : c = thr[u].src
      OBVIOUS
    <2>2. c \in Jobs /\ c \notin mixed \cup hasty
      BY <1>1, <2>1, RecordStep DEF Bound
    <2>3. post[c] = u /\ node[c] \in Running
      BY <1>1, <2>1, <2>2 DEF Waited, Sender
    <2>4. QED
      BY <1>1, <2>1, <2>2, <2>3, PostStep
  <1>2. ASSUME NEW j \in Jobs, PostProgress(u, j) \/ PostFinal(u, j)
        PROVE  post'[thr'[u].src] = u
    BY <1>2, NewReport
  <1>3. CASE Match(u) \/ ReadStage(u)
    <2>1. thr'[u].src = thr[u].src /\ post' = post /\ thr[u].at \in {"scan", "read"}
      BY <1>3, TurnKeeps
    <2>2. thr[u].src \notin mixed \cup hasty
      BY <2>1, RecordStep
    <2>3. QED
      BY <2>1, <2>2 DEF Waited
  <1>4. QED
    BY <1>1, <1>2, <1>3, ReportStep

\* Two reports of a job are not about to be stored at once.
LEMMA OneReport ==
    ASSUME XInv, NEW t \in Threads, NEW u \in Threads, thr[t].at = "store", thr[u].at = "store",
           thr[t].job = thr[u].job, thr[u].job \notin mixed \cup hasty
    PROVE  t = u
  <1>1. thr[t].src = thr[u].job /\ thr[u].src = thr[u].job
    BY DEF XInv, Credited
  <1>2. post[thr[u].job] = t /\ post[thr[u].job] = u
    BY <1>1 DEF XInv, Waited
  <1>3. QED
    BY <1>2

LEMMA FreshStep ==
    ASSUME XInv, [Next]_vars
    PROVE  Fresh'
  <1> USE DEF XInv, IInv
  <1> SUFFICES ASSUME NEW u \in Threads, thr'[u].at = "store",
                      thr'[u].job \notin mixed' \cup hasty', tracker'[thr'[u].job] \in Terminal
               PROVE  thr'[u].seen = tracker'[thr'[u].job]
    BY DEF Fresh
  <1>1. CASE thr'[u] = thr[u]
    <2>1. PICK j : j = thr[u].job
      OBVIOUS
    <2>2. j \in Jobs /\ j \notin mixed \cup hasty
      BY <1>1, <2>1, RecordStep DEF Bound
    <2>3. ASSUME NEW t \in Threads, StoreStage(t), thr[t].job = j
          PROVE  FALSE
      <3>1. t = u
        BY <1>1, <2>1, <2>2, <2>3, OneReport DEF StoreStage
      <3>2. thr'[t].at = "idle"
        BY <2>3 DEF StoreStage, Answer, Respond, Idle, TypeOK
      <3>3. QED
        BY <3>1, <3>2
    <2>4. tracker'[j] = tracker[j]
      BY <1>1, <2>1, <2>2, <2>3, FinalStep
    <2>5. QED
      BY <1>1, <2>1, <2>2, <2>4 DEF Fresh
  <1>2. CASE ReadStage(u)
    <2>1. tracker' = tracker /\ thr'[u].job = thr[u].job
      BY <1>2 DEF ReadStage, TypeOK, ThreadStates
    <2>2. tracker[thr[u].job] # "absent"
      BY <2>1 DEF Terminal
    <2>3. thr'[u].seen = tracker[thr[u].job]
      BY <1>2, <2>2 DEF ReadStage, TypeOK, ThreadStates
    <2>4. QED
      BY <2>1, <2>3
  <1>3. thr'[u] = thr[u] \/ ReadStage(u)
    BY ThreadStep, NewLabel, NextLabel
  <1>4. QED
    BY <1>1, <1>2, <1>3

LEMMA ExactStep ==
    ASSUME XInv, [Next]_vars
    PROVE  CompletedIsExact'
  <1> USE DEF XInv, IInv
  <1> SUFFICES ASSUME NEW j \in Jobs, j \notin mixed', tracker'[j] = "COMPLETED"
               PROVE  node'[j] = "done"
    BY DEF CompletedIsExact
  <1>1. j \notin mixed
    BY RecordStep
  <1>2. CASE tracker[j] = "COMPLETED"
    BY <1>1, <1>2, NodeStep DEF CompletedIsExact
  <1>3. CASE tracker[j] # "COMPLETED"
    <2>1. PICK t \in Threads : /\ StoreStage(t)
                               /\ thr[t].job = j
                               /\ Calculated(thr[t].seen, thr[t].ev) = "COMPLETED"
      BY <1>3, FinalStep DEF Terminal
    <2>2. thr[t].at = "store" /\ node' = node /\ thr[t].src = j
      BY <1>1, <2>1 DEF StoreStage, Credited
    <2>3. thr[t].seen = "COMPLETED" \/ thr[t].ev \in {"finish", "reboot"}
      <3>1. CASE thr[t].seen \in Terminal
        BY <2>1, <3>1 DEF Calculated
      <3>2. CASE thr[t].seen \notin Terminal
        BY <2>1, <3>2 DEF Calculated
      <3>3. QED
        BY <3>1, <3>2
    <2>4. QED
      BY <1>1, <2>1, <2>2, <2>3 DEF SeenExact, Sender
  <1>4. QED
    BY <1>2, <1>3

LEMMA XAlways == Spec => []XInv
  <1>1. XInv /\ [Next]_vars => XInv'
    <2> SUFFICES ASSUME XInv, [Next]_vars PROVE XInv'
      OBVIOUS
    <2>1. IInv'
      BY InvStep DEF XInv
    <2>2. CompletedIsExact' /\ Sender' /\ Credited' /\ SeenExact'
      BY ExactStep, SenderStep, CreditedStep, SeenStep
    <2>3. Fetching' /\ Waited' /\ Fresh'
      BY FetchingStep, WaitedStep, FreshStep
    <2>4. QED
      BY <2>1, <2>2, <2>3 DEF XInv
  <1>2. QED
    BY <1>1, XInit, PTL DEF Spec

\* The status request says COMPLETED only of a job whose own machine has finished
\* its installation, with any number of machines, slow reports and restarts: a
\* job of which that is not so was written by the progress hook, is installed a
\* second time, or was credited with an event whose text does not tell whose it
\* is (the match and the fallback of the telemetry handler).
THEOREM CompletedExact == Spec => []CompletedIsExact
  <1>1. XInv => CompletedIsExact
    BY DEF XInv
  <1>2. QED
    BY <1>1, XAlways, PTL

\* A report that read the tracker before a final stage was stored (read and store
\* in the telemetry handler) takes that stage away only if its machine did not
\* wait for an answer, or the job is one that CompletedExact excepts.
THEOREM FinalStageKept == Spec => ResultKept
  <1> DEFINE A == \A t \in Threads : LET j == thr[t].job IN
                    StoreStage(t) /\ j \notin mixed \cup hasty /\ tracker[j] \in Terminal
                        => tracker'[j] = tracker[j]
  <1>1. XInv /\ [Next]_vars => [A]_vars
    <2> SUFFICES ASSUME XInv, NEW t \in Threads, StoreStage(t),
                        thr[t].job \notin mixed \cup hasty, tracker[thr[t].job] \in Terminal
                 PROVE  tracker'[thr[t].job] = tracker[thr[t].job]
      OBVIOUS
    <2>1. thr[t].at = "store" /\ thr[t].job \in Jobs
      BY DEF XInv, IInv, StoreStage, Bound
    <2>2. thr[t].seen = tracker[thr[t].job]
      BY <2>1 DEF XInv, Fresh
    <2>3. Calculated(thr[t].seen, thr[t].ev) = tracker[thr[t].job]
      BY <2>2 DEF Calculated
    <2>4. QED
      BY <2>1, <2>3 DEF StoreStage, SetStage, XInv, IInv, TypeOK
  <1> HIDE DEF A
  <1>2. Spec => [][A]_vars
    BY <1>1, XAlways, PTL DEF Spec
  <1>3. QED
    BY <1>2 DEF A, ResultKept
=============================================================================
