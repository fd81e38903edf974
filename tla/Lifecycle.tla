------------------------------ MODULE Lifecycle ------------------------------
(***************************************************************************)
(* The lifecycle tracker of configServer/server.py: the dictionaries       *)
(* PROGRESS_TRACKER and JOB_TRACKER, and the request handlers that read    *)
(* and write them.  The server is a ThreadingHTTPServer without locks, so  *)
(* a handler is cut into the steps between which other threads may run.    *)
(*                                                                         *)
(* The clients of the server are part of the module as far as they decide  *)
(* which request can come when: the operator, the Ansible runners, and for *)
(* each job the machine, which boots the ISO, phones home, fetches its     *)
(* launcher, installs and reports.  A machine has one request outstanding  *)
(* and goes on when it is answered, or when it stops waiting.              *)
(***************************************************************************)
EXTENDS Naturals, FiniteSets

CONSTANTS
    Jobs,        \* job ids; a job is a machine
    Threads,     \* handler threads (bound: requests in progress at once)
    Occurs,      \* <<i, j>>: id i occurs in the text of j's installer events
    HookStages,  \* stages that the progress hook is called with
    MaxAttempts, \* bound: provision requests per job
    Faults       \* which of FaultKinds may happen

\* spawn: run_async raises.  phone: a phone-home is refused, or fails halfway.
\* launch: a launcher fails before the installer runs.  timeout: a machine
\* stops waiting for an answer.  restart: of the server.  reprovision: the
\* operator starts a job whose machine is in use.
FaultKinds ==
    {"spawn", "phone", "launch", "timeout", "restart", "reprovision"}

\* OTHER: any other text that the progress hook is sent
Stages == {"STAGING", "STAGING_FAILED", "BOOTING", "PHONED_HOME",
           "INSTALLING", "COMPLETED", "INSTALL_FAILED", "OTHER"}

Terminal == {"COMPLETED", "INSTALL_FAILED"}

Attempts == 1 .. MaxAttempts

ASSUME LifecycleAssumption ==
    /\ "none" \notin Jobs
    /\ "none" \notin Threads
    /\ Occurs \subseteq Jobs \X Jobs
    /\ HookStages \subseteq Stages
    /\ MaxAttempts \in Nat
    /\ Faults \subseteq FaultKinds

VARIABLES
    tracker, \* PROGRESS_TRACKER: the stage of each job, or "absent"
    runner,  \* JOB_TRACKER: the attempt whose runner is stored, 0 for none
    play,    \* the status of the runner of each attempt
    thr,     \* the handler threads: where each is, and its local variables
    ref,     \* status threads whose progress object is still the tracker's
    torn,    \* jobs whose job.json is being written, or was when the server died
    iso,     \* jobs whose ISO has been built
    launch,  \* jobs whose installer-launch.sh has been rendered
    node,    \* the machines
    post,    \* the thread that serves a machine's outstanding request
    told,    \* machines that have delivered their final event
    mixed,   \* history: jobs whose stage may not be about this installation
    hasty    \* history: machines that stopped waiting for the answer to a report

vars == <<tracker, runner, play, thr, ref, torn, iso, launch, node, post, told,
          mixed, hasty>>

Labels == {"idle", "spawn", "register", "build", "advance", "render", "serve",
           "scan", "read", "store", "runner", "check", "mark"}

Events == {"none", "progress", "finish", "reboot", "fail"}

PlayStates == {"none", "running", "successful", "failed", "killed"}

NodeStates == {"off", "ramdisk", "phoned", "fetching", "installing",
               "done", "failed", "shell"}

ThreadStates ==
    [at: Labels, job: Jobs \cup {"none"}, src: Jobs \cup {"none"}, ev: Events,
     seen: Stages \cup {"absent"}, run: 0 .. MaxAttempts, keys: SUBSET Jobs]

Idle == [at |-> "idle", job |-> "none", src |-> "none", ev |-> "none",
         seen |-> "absent", run |-> 0, keys |-> {}]

Init ==
    /\ tracker = [j \in Jobs |-> "absent"]
    /\ runner = [j \in Jobs |-> 0]
    /\ play = [j \in Jobs |-> [n \in Attempts |-> "none"]]
    /\ thr = [t \in Threads |-> Idle]
    /\ ref = {}
    /\ torn = {}
    /\ iso = {}
    /\ launch = {}
    /\ node = [j \in Jobs |-> "off"]
    /\ post = [j \in Jobs |-> "none"]
    /\ told = {}
    /\ mixed = {}
    /\ hasty = {}

-----------------------------------------------------------------------------

Present == {j \in Jobs : tracker[j] # "absent"}

\* PROGRESS_TRACKER[j] = {...}: a new object takes the place of the old one,
\* which the status threads that hold it no longer share with the tracker.
SetStage(j, s) ==
    /\ tracker' = [tracker EXCEPT ![j] = s]
    /\ ref' = {u \in ref : thr[u].job # j}

\* A request for job j is taken by thread t, which starts at a label.
Accept(t, j, label) ==
    /\ thr[t].at = "idle"
    /\ thr' = [thr EXCEPT ![t] = [Idle EXCEPT !.at = label, !.job = j]]

Goto(t, label) == thr' = [thr EXCEPT ![t].at = label]

\* The handler answers: the machine whose request it was goes on, unless it
\* has stopped waiting.
Respond(t) ==
    /\ thr' = [thr EXCEPT ![t] = Idle]
    /\ post' = [j \in Jobs |-> IF post[j] = t THEN "none" ELSE post[j]]

\* The operator provisions machines that are not in use.
MayStart(j) == node[j] = "off" \/ "reprovision" \in Faults

-----------------------------------------------------------------------------
(* POST /api/v1/provision *)

\* The request is valid: the tracker says STAGING before anything is spawned.
Provision(t, j) ==
    /\ MayStart(j)
    /\ Cardinality({u \in Threads : thr[u].at = "spawn" /\ thr[u].job = j})
         < Cardinality({n \in Attempts : play[j][n] = "none"})
    /\ Accept(t, j, "spawn")
    /\ SetStage(j, "STAGING")
    /\ UNCHANGED <<runner, play, torn, iso, launch, node, post, told, mixed, hasty>>

\* ansible_runner.run_async starts the playbook in a thread of its own.
Spawn(t) ==
    LET j == thr[t].job IN
    /\ thr[t].at = "spawn"
    /\ \E n \in Attempts :
        /\ play[j][n] = "none"
        /\ \A m \in Attempts : m < n => play[j][m] # "none"
        /\ play' = [play EXCEPT ![j][n] = "running"]
        /\ thr' = [thr EXCEPT ![t].at = "register", ![t].run = n]
    /\ UNCHANGED <<tracker, runner, ref, torn, iso, launch, node, post, told, mixed, hasty>>

\* run_async raises: 500, and the tracker keeps saying STAGING.
SpawnFails(t) ==
    /\ "spawn" \in Faults
    /\ thr[t].at = "spawn"
    /\ Respond(t)
    /\ UNCHANGED <<tracker, runner, play, ref, torn, iso, launch, node, told, mixed, hasty>>

\* A variant of Register that is off by one attempt.
RegisterNext(t) ==
    /\ thr[t].at = "register"
    /\ runner' = [runner EXCEPT ![thr[t].job] = thr[t].run + 1]
    /\ Respond(t)
    /\ UNCHANGED <<tracker, play, ref, torn, iso, launch, node, told, mixed, hasty>>

\* JOB_TRACKER[job_id] = runnerObject, and 202.
Register(t) ==
    /\ thr[t].at = "register"
    /\ runner' = [runner EXCEPT ![thr[t].job] = thr[t].run]
    /\ Respond(t)
    /\ UNCHANGED <<tracker, play, ref, torn, iso, launch, node, told, mixed, hasty>>

\* A playbook ends.  Any of its tasks may have failed.
PlaybookEnds(j, n) ==
    /\ play[j][n] = "running"
    /\ \E s \in {"successful", "failed"} : play' = [play EXCEPT ![j][n] = s]
    /\ UNCHANGED <<tracker, runner, thr, ref, torn, iso, launch, node, post, told, mixed, hasty>>

-----------------------------------------------------------------------------
(* POST /api/v1/servers/provision/custom-iso *)

\* The tracker says BOOTING before job.json is saved and the ISO is built.
CustomIso(t, j) ==
    /\ MayStart(j)
    /\ Accept(t, j, "build")
    /\ SetStage(j, "BOOTING")
    /\ torn' = torn \cup {j}
    /\ UNCHANGED <<runner, play, iso, launch, node, post, told, mixed, hasty>>

\* job.json is written and pipeline.sh run: 200 with the ISO, or 500.
Build(t) ==
    /\ thr[t].at = "build"
    /\ \E done \in BOOLEAN :
           iso' = IF done THEN iso \cup {thr[t].job} ELSE iso
    /\ torn' = {j \in torn : j = thr[t].job =>
                   \E u \in Threads \ {t} : thr[u].at = "build" /\ thr[u].job = j}
    /\ Respond(t)
    /\ UNCHANGED <<tracker, runner, play, ref, launch, node, told, mixed, hasty>>

\* The machine boots the ISO it was given.
Boot(j) ==
    /\ MayStart(j)
    /\ j \in iso
    /\ node' = [node EXCEPT ![j] = "ramdisk"]
    /\ post' = [post EXCEPT ![j] = "none"]
    /\ told' = told \ {j}
    /\ mixed' = IF node[j] = "off" THEN mixed ELSE mixed \cup {j}
    /\ UNCHANGED <<tracker, runner, play, thr, ref, torn, iso, launch, hasty>>

-----------------------------------------------------------------------------
(* POST /api/v1/servers/phone-home *)

\* job.json is read.  A payload that is not valid gives 400 and a job.json that
\* does not parse gives 500, both before the tracker is touched.
PhoneHome(t, j) ==
    /\ node[j] = "ramdisk"
    /\ node' = [node EXCEPT ![j] = "phoned"]
    /\ \/ /\ Accept(t, j, "advance")
          /\ post' = [post EXCEPT ![j] = t]
       \/ /\ thr[t].at = "idle"
          /\ j \in torn \/ "phone" \in Faults
          /\ UNCHANGED <<thr, post, mixed, hasty>>
    /\ UNCHANGED <<tracker, runner, play, ref, torn, iso, launch, told, mixed, hasty>>

\* The tracker says PHONED_HOME before any file is rendered.
Advance(t) ==
    /\ thr[t].at = "advance"
    /\ SetStage(thr[t].job, "PHONED_HOME")
    /\ Goto(t, "render")
    /\ UNCHANGED <<runner, play, torn, iso, launch, node, post, told, mixed, hasty>>

\* The seed files and the launcher are rendered, or an exception gives 500.
Render(t) ==
    /\ thr[t].at = "render"
    /\ \/ launch' = launch \cup {thr[t].job}
       \/ "phone" \in Faults /\ launch' = launch
    /\ Respond(t)
    /\ UNCHANGED <<tracker, runner, play, ref, torn, iso, node, told, mixed, hasty>>

-----------------------------------------------------------------------------
(* GET /automation/<job>/installer-launch.sh *)

\* init asks for the launcher whatever came of its phone-home.  The tracker
\* says INSTALLING before the file is looked up.
GetLauncher(t, j) ==
    /\ node[j] = "phoned"
    /\ post[j] = "none"
    /\ Accept(t, j, "serve")
    /\ SetStage(j, "INSTALLING")
    /\ node' = [node EXCEPT ![j] = "fetching"]
    /\ post' = [post EXCEPT ![j] = t]
    /\ UNCHANGED <<runner, play, torn, iso, launch, told, mixed, hasty>>

\* What becomes of a machine that is answered: without the file, 404, it drops
\* to a shell.  A file that is being rendered may be sent empty or cut off.
Launched(j) ==
    {s \in {"installing", "shell"} :
        \/ s = "installing" /\ j \in launch
        \/ s = "shell" /\ j \notin launch
        \/ s = "shell" /\ "launch" \in Faults
        \/ s = "shell" /\ \E u \in Threads : thr[u].at = "render" /\ thr[u].job = j}

Serve(t) ==
    LET j == thr[t].job IN
    /\ thr[t].at = "serve"
    /\ IF post[j] = t
       THEN \E s \in Launched(j) : node' = [node EXCEPT ![j] = s]
       ELSE node' = node
    /\ Respond(t)
    /\ UNCHANGED <<tracker, runner, play, ref, torn, iso, launch, told, mixed, hasty>>

\* POST /api/v1/jobs/progress writes whatever stage it is called with.
ProgressHook(t, j, s) ==
    /\ thr[t].at = "idle"
    /\ SetStage(j, s)
    /\ mixed' = mixed \cup {j}
    /\ UNCHANGED <<runner, play, thr, torn, iso, launch, node, post, told, hasty>>

-----------------------------------------------------------------------------
(* POST /api/v1/jobs/telemetry *)

\* A variant of Calculated that does not spare the final stages.
CalculatedAlways(stage, ev) ==
    CASE ev = "fail" -> "INSTALL_FAILED"
      [] ev \in {"finish", "reboot"} -> "COMPLETED"
      [] OTHER -> "INSTALLING"

\* A variant of Calculated that knows the shutdown event only.
CalculatedShutdown(stage, ev) ==
    CASE stage \in Terminal -> stage
      [] stage \notin Terminal /\ ev = "fail" -> "INSTALL_FAILED"
      [] stage \notin Terminal /\ ev = "finish" -> "COMPLETED"
      [] OTHER -> "INSTALLING"

\* The stage that the handler computes from the stage it has read.
Calculated(stage, ev) ==
    CASE stage \in Terminal -> stage
      [] stage \notin Terminal /\ ev = "fail" -> "INSTALL_FAILED"
      [] stage \notin Terminal /\ ev \in {"finish", "reboot"} -> "COMPLETED"
      [] OTHER -> "INSTALLING"

\* Machine j posts an event; the handler starts to iterate over the keys.
Telemetry(t, j, ev) ==
    /\ post[j] = "none"
    /\ thr[t].at = "idle"
    /\ thr' = [thr EXCEPT ![t] = [Idle EXCEPT !.at = "scan", !.src = j,
                                              !.ev = ev, !.keys = Present]]
    /\ post' = [post EXCEPT ![j] = t]
    /\ UNCHANGED <<tracker, runner, play, ref, torn, iso, launch, node, told, mixed, hasty>>

\* The installer reports its steps as it works, the last ones when its fate is
\* known, and among these the one that tells its fate.
PostProgress(t, j) ==
    /\ node[j] \in {"installing", "done", "failed"}
    /\ Telemetry(t, j, "progress")

PostFinal(t, j) ==
    /\ j \notin told
    /\ \/ node[j] = "done" /\ \E ev \in {"finish", "reboot"} : Telemetry(t, j, ev)
       \/ node[j] = "failed" /\ Telemetry(t, j, "fail")

InstallerEnds(j) ==
    /\ node[j] = "installing"
    /\ \E s \in {"done", "failed"} : node' = [node EXCEPT ![j] = s]
    /\ UNCHANGED <<tracker, runner, play, thr, ref, torn, iso, launch, post, told, mixed, hasty>>

\* The event is answered.  The final one is not sent again once it was.
Answer(t) ==
    /\ Respond(t)
    /\ told' = IF thr[t].ev # "progress" /\ post[thr[t].src] = t
               THEN told \cup {thr[t].src} ELSE told

\* A variant of Matches that looks at the stages only.
MatchesInstalling(j) ==
    {i \in Present : tracker[i] = "INSTALLING"}

\* The jobs that an event of machine j is attributed to: one whose id occurs
\* in its text (the first of them in the order of insertion), and without one
\* the only job that is INSTALLING.
Matches(j) ==
    LET named == {i \in Present : <<i, j>> \in Occurs}
        installing == {i \in Present : tracker[i] = "INSTALLING"}
    IN  IF named # {} THEN named
        ELSE IF Cardinality(installing) = 1 THEN installing ELSE {}

\* The text of j's events does not tell j from i: it contains the id of i, or
\* not its own, or the server has forgotten its own.
Unclear(i, j) == i # j /\ (<<i, j>> \in Occurs \/ <<j, j>> \notin Occurs \/ j \notin Present)

Match(t) ==
    /\ thr[t].at = "scan"
    /\ \E i \in Matches(thr[t].src) :
         /\ thr' = [thr EXCEPT ![t].at = "read", ![t].job = i, ![t].keys = {}]
         /\ mixed' = IF Unclear(i, thr[t].src) THEN mixed \cup {i} ELSE mixed
    /\ UNCHANGED <<tracker, runner, play, ref, torn, iso, launch, node, post, told, hasty>>

\* A key inserted after the iteration has passed over one that does not match
\* raises RuntimeError.  The order of the keys is not kept: an iteration whose
\* first key matches is interrupted here too when a later one does not.
Interrupted(t) ==
    /\ Present # thr[t].keys
    /\ \E i \in thr[t].keys : <<i, thr[t].src>> \notin Occurs

\* No job matches: the event is answered 200 and dropped.  The iteration is
\* interrupted: it is answered 500.
Drop(t) ==
    /\ thr[t].at = "scan"
    /\ Matches(thr[t].src) = {} \/ Interrupted(t)
    /\ Answer(t)
    /\ UNCHANGED <<tracker, runner, play, ref, torn, iso, launch, node, mixed, hasty>>

\* current = PROGRESS_TRACKER.get(...)
ReadStage(t) ==
    /\ thr[t].at = "read"
    /\ thr' = [thr EXCEPT ![t].at = "store", ![t].seen =
                 IF tracker[thr[t].job] = "absent" THEN "INSTALLING"
                 ELSE tracker[thr[t].job]]
    /\ UNCHANGED <<tracker, runner, play, ref, torn, iso, launch, node, post, told, mixed, hasty>>

\* The computed stage is written back.
StoreStage(t) ==
    /\ thr[t].at = "store"
    /\ SetStage(thr[t].job, Calculated(thr[t].seen, thr[t].ev))
    /\ Answer(t)
    /\ UNCHANGED <<runner, play, torn, iso, launch, node, mixed, hasty>>

-----------------------------------------------------------------------------
(* GET /api/v1/jobs/status *)

\* progress = PROGRESS_TRACKER.get(job_id, a fresh object)
StatusGet(t, j) ==
    /\ Accept(t, j, "runner")
    /\ ref' = IF j \in Present THEN ref \cup {t} ELSE ref
    /\ UNCHANGED <<tracker, runner, play, torn, iso, launch, node, post, told, mixed, hasty>>

\* runner = JOB_TRACKER.get(job_id)
StatusRunner(t) ==
    /\ thr[t].at = "runner"
    /\ thr' = [thr EXCEPT ![t].at = "check", ![t].run = runner[thr[t].job]]
    /\ UNCHANGED <<tracker, runner, play, ref, torn, iso, launch, node, post, told, mixed, hasty>>

\* The condition under which the handler changes the object.  An object that
\* has left the tracker is changed or not without anybody seeing it.
StagingHasFailed(t) ==
    /\ t \in ref
    /\ tracker[thr[t].job] = "STAGING"
    /\ thr[t].run # 0
    /\ play[thr[t].job][thr[t].run] = "failed"

StatusCheck(t) ==
    /\ thr[t].at = "check"
    /\ IF StagingHasFailed(t)
       THEN Goto(t, "mark") /\ UNCHANGED <<ref, post>>
       ELSE Respond(t) /\ ref' = ref \ {t}
    /\ UNCHANGED <<tracker, runner, play, torn, iso, launch, node, told, mixed, hasty>>

\* A variant of StatusMark that stores a new object.
StatusMarkEntry(t) ==
    /\ thr[t].at = "mark"
    /\ tracker' = [tracker EXCEPT ![thr[t].job] = "STAGING_FAILED"]
    /\ Respond(t)
    /\ ref' = ref \ {t}
    /\ UNCHANGED <<runner, play, torn, iso, launch, node, told, mixed, hasty>>

\* progress["stage"] = "STAGING_FAILED", in place
StatusMark(t) ==
    /\ thr[t].at = "mark"
    /\ tracker' = IF t \in ref
                  THEN [tracker EXCEPT ![thr[t].job] = "STAGING_FAILED"]
                  ELSE tracker
    /\ Respond(t)
    /\ ref' = ref \ {t}
    /\ UNCHANGED <<runner, play, torn, iso, launch, node, told, mixed, hasty>>

-----------------------------------------------------------------------------
(* Faults *)

\* A machine stops waiting for the answer to a report or to its phone-home
\* (nc -w 5) and goes on; the thread is still at work.
Timeout(j) ==
    /\ "timeout" \in Faults
    /\ post[j] # "none"
    /\ node[j] # "fetching"
    /\ post' = [post EXCEPT ![j] = "none"]
    /\ hasty' = IF node[j] = "phoned" THEN hasty ELSE hasty \cup {j}
    /\ UNCHANGED <<tracker, runner, play, thr, ref, torn, iso, launch, node, told, mixed>>

\* The server process ends and is started again.  Its memory and its playbooks
\* are gone, the files and the machines are not.
Restart ==
    /\ "restart" \in Faults
    /\ tracker' = [j \in Jobs |-> "absent"]
    /\ runner' = [j \in Jobs |-> 0]
    /\ play' = [j \in Jobs |-> [n \in Attempts |->
                  IF play[j][n] = "running" THEN "killed" ELSE play[j][n]]]
    /\ thr' = [t \in Threads |-> Idle]
    /\ ref' = {}
    /\ node' = [j \in Jobs |-> IF node[j] = "fetching" THEN "shell" ELSE node[j]]
    /\ post' = [j \in Jobs |-> "none"]
    /\ UNCHANGED <<torn, iso, launch, told, mixed, hasty>>

-----------------------------------------------------------------------------

\* The steps that a thread takes once it has accepted a request.
Work(t) ==
    \/ Spawn(t) \/ Register(t) \/ Build(t) \/ Advance(t) \/ Render(t)
    \/ Serve(t) \/ Match(t) \/ Drop(t) \/ ReadStage(t) \/ StoreStage(t)
    \/ StatusRunner(t) \/ StatusCheck(t) \/ StatusMark(t)

Request(t, j) ==
    \/ Provision(t, j) \/ CustomIso(t, j) \/ PhoneHome(t, j)
    \/ GetLauncher(t, j) \/ PostProgress(t, j) \/ PostFinal(t, j)
    \/ StatusGet(t, j)
    \/ \E s \in HookStages : ProgressHook(t, j, s)

Machine(j) == Boot(j) \/ InstallerEnds(j) \/ Timeout(j)

Next ==
    \/ \E t \in Threads : Work(t) \/ SpawnFails(t)
    \/ \E t \in Threads, j \in Jobs : Request(t, j)
    \/ \E j \in Jobs, n \in Attempts : PlaybookEnds(j, n)
    \/ \E j \in Jobs : Machine(j)
    \/ Restart

Spec == Init /\ [][Next]_vars

\* A thread that has accepted a request is scheduled until it has answered.
\* An installer ends.  The reporter posts the final event: the server starts a
\* thread for every connection, so a pool of threads that is busy now and then
\* is an artefact of the bound on Threads, hence strong fairness.
Fairness ==
    /\ \A t \in Threads : WF_vars(Work(t))
    /\ \A j \in Jobs : WF_vars(InstallerEnds(j))
    /\ \A j \in Jobs : SF_vars(\E t \in Threads : PostFinal(t, j))

FairSpec == Spec /\ Fairness

-----------------------------------------------------------------------------
(* Properties *)

\* Every variable has its type.
TypeOK ==
    /\ tracker \in [Jobs -> Stages \cup {"absent"}]
    /\ runner \in [Jobs -> 0 .. MaxAttempts]
    /\ play \in [Jobs -> [Attempts -> PlayStates]]
    /\ thr \in [Threads -> ThreadStates]
    /\ ref \in SUBSET Threads
    /\ torn \in SUBSET Jobs
    /\ iso \in SUBSET Jobs
    /\ launch \in SUBSET Jobs
    /\ node \in [Jobs -> NodeStates]
    /\ post \in [Jobs -> Threads \cup {"none"}]
    /\ told \in SUBSET Jobs
    /\ mixed \in SUBSET Jobs
    /\ hasty \in SUBSET Jobs

\* The status request, a GET that writes, never takes a job back: it reads the
\* stage, the runner and the runner's status one after the other while other
\* handlers move the job on, and still the only job it changes is one that is
\* STAGING, because it changes the object it has read and the other handlers,
\* the progress hook among them, replace the object.
StatusNeverRegresses ==
    [][\A t \in Threads, j \in Jobs :
          StatusMark(t) /\ tracker'[j] # tracker[j] => tracker[j] = "STAGING"]_vars

\* The result of an installation stays.  A report reads the stage and writes it
\* back later, without a lock, and still it replaces a final stage only for a
\* machine that has stopped waiting for the answer to a report (and so has two
\* of them under way), or for a job that the progress hook, the report of
\* another machine or a second installation has mixed up.
ResultKept ==
    [][\A t \in Threads : LET j == thr[t].job IN
          StoreStage(t) /\ j \notin mixed \cup hasty /\ tracker[j] \in Terminal
              => tracker'[j] = tracker[j]]_vars

\* A final event that was answered is on record: the status of the job is final
\* from then on.
DeliveredIsRecorded ==
    \A j \in told : tracker[j] \in Terminal

\* Every installation that ends is eventually reported by the status request
\* as what it was.
OutcomeReported ==
    \A j \in Jobs :
        /\ node[j] = "done" ~> tracker[j] = "COMPLETED"
        /\ node[j] = "failed" ~> tracker[j] = "INSTALL_FAILED"

\* README.md on the status request, "Retrieve the exact step of the bare-metal
\* node installation.": a job is COMPLETED only when its own machine is done,
\* whatever reports were slow, repeated or cut short by a restart.  Excepted are
\* the jobs that the progress hook has written, whose machine was started again,
\* or that were credited with an event whose text does not tell whose it is.
CompletedIsExact ==
    \A j \in Jobs \ mixed : tracker[j] = "COMPLETED" => node[j] = "done"
=============================================================================
