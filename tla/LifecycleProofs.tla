--------------------------- MODULE LifecycleProofs ---------------------------
(***************************************************************************)
(* What holds of Lifecycle for every set of jobs and threads, every bound  *)
(* and every selection of faults.                                          *)
(***************************************************************************)
EXTENDS Lifecycle, TLAPS

\* A thread that works on a job knows which, and an event has a sender.
Bound ==
    \A t \in Threads :
        /\ thr[t].at \notin {"idle", "scan"} => thr[t].job \in Jobs
        /\ thr[t].at \in {"scan", "read", "store"} => thr[t].src \in Jobs

\* While its object is the tracker's own, that object says STAGING, or another
\* status thread has been faster.
MarkShared ==
    \A t \in ref : thr[t].at = "mark"
        => tracker[thr[t].job] \in {"STAGING", "STAGING_FAILED"}

\* The inductive invariant.
IInv == TypeOK /\ Bound /\ MarkShared

-----------------------------------------------------------------------------
(* Steps that several handlers share *)

LEMMA IdleType == Idle \in ThreadStates
  BY LifecycleAssumption DEF Idle, ThreadStates, Labels, Events

LEMMA AcceptType ==
    ASSUME TypeOK, Bound, NEW t \in Threads, NEW j \in Jobs,
           NEW label \in Labels \ {"scan", "read", "store"}, Accept(t, j, label)
    PROVE  /\ thr' \in [Threads -> ThreadStates]
           /\ Bound'
  <1>1. [Idle EXCEPT !.at = label, !.job = j] \in ThreadStates
    BY IdleType DEF Idle, ThreadStates
  <1>2. thr' \in [Threads -> ThreadStates]
    BY <1>1 DEF TypeOK, Accept
  <1>3. ASSUME NEW u \in Threads
        PROVE  /\ thr'[u].at \notin {"idle", "scan"} => thr'[u].job \in Jobs
               /\ thr'[u].at \in {"scan", "read", "store"} => thr'[u].src \in Jobs
    BY DEF TypeOK, Accept, Bound, Idle
  <1>4. QED
    BY <1>2, <1>3 DEF Bound

LEMMA RespondType ==
    ASSUME TypeOK, Bound, NEW t \in Threads, Respond(t)
    PROVE  /\ thr' \in [Threads -> ThreadStates]
           /\ post' \in [Jobs -> Threads \cup {"none"}]
           /\ Bound'
  <1>1. thr' \in [Threads -> ThreadStates]
    BY IdleType DEF TypeOK, Respond
  <1>2. post' \in [Jobs -> Threads \cup {"none"}]
    BY DEF TypeOK, Respond
  <1>3. ASSUME NEW u \in Threads
        PROVE  /\ thr'[u].at \notin {"idle", "scan"} => thr'[u].job \in Jobs
               /\ thr'[u].at \in {"scan", "read", "store"} => thr'[u].src \in Jobs
    BY DEF TypeOK, Respond, Bound, Idle
  <1>4. QED
    BY <1>1, <1>2, <1>3 DEF Bound

\* A thread goes to another label, and keeps what it has found there.
LEMMA MoveType ==
    ASSUME TypeOK, NEW t \in Threads, NEW a \in Labels,
           thr' = [thr EXCEPT ![t].at = a]
    PROVE  thr' \in [Threads -> ThreadStates]
  <1>1. ASSUME NEW r \in ThreadStates
        PROVE  [r EXCEPT !.at = a] \in ThreadStates
    BY DEF ThreadStates
  <1>2. thr' = [thr EXCEPT ![t] = [thr[t] EXCEPT !.at = a]]
    BY DEF TypeOK
  <1>3. [thr[t] EXCEPT !.at = a] \in ThreadStates
    BY <1>1 DEF TypeOK
  <1>4. QED
    BY <1>2, <1>3 DEF TypeOK

LEMMA RunType ==
    ASSUME TypeOK, NEW t \in Threads, NEW a \in Labels, NEW n \in 0 .. MaxAttempts,
           thr' = [thr EXCEPT ![t].at = a, ![t].run = n]
    PROVE  thr' \in [Threads -> ThreadStates]
  <1>1. ASSUME NEW r \in ThreadStates
        PROVE  [r EXCEPT !.at = a, !.run = n] \in ThreadStates
    BY DEF ThreadStates
  <1>2. thr' = [thr EXCEPT ![t] = [thr[t] EXCEPT !.at = a, !.run = n]]
    BY DEF TypeOK
  <1>3. [thr[t] EXCEPT !.at = a, !.run = n] \in ThreadStates
    BY <1>1 DEF TypeOK
  <1>4. QED
    BY <1>2, <1>3 DEF TypeOK

LEMMA MatchType ==
    ASSUME TypeOK, NEW t \in Threads, NEW a \in Labels, NEW i \in Jobs,
           thr' = [thr EXCEPT ![t].at = a, ![t].job = i, ![t].keys = {}]
    PROVE  thr' \in [Threads -> ThreadStates]
  <1>1. ASSUME NEW r \in ThreadStates
        PROVE  [r EXCEPT !.at = a, !.job = i, !.keys = {}] \in ThreadStates
    BY DEF ThreadStates
  <1>2. thr' = [thr EXCEPT ![t] = [thr[t] EXCEPT !.at = a, !.job = i, !.keys = {}]]
    BY DEF TypeOK
  <1>3. [thr[t] EXCEPT !.at = a, !.job = i, !.keys = {}] \in ThreadStates
    BY <1>1 DEF TypeOK
  <1>4. QED
    BY <1>2, <1>3 DEF TypeOK

LEMMA SeenType ==
    ASSUME TypeOK, NEW t \in Threads, NEW a \in Labels, NEW s \in Stages \cup {"absent"},
           thr' = [thr EXCEPT ![t].at = a, ![t].seen = s]
    PROVE  thr' \in [Threads -> ThreadStates]
  <1>1. ASSUME NEW r \in ThreadStates
        PROVE  [r EXCEPT !.at = a, !.seen = s] \in ThreadStates
    BY DEF ThreadStates
  <1>2. thr' = [thr EXCEPT ![t] = [thr[t] EXCEPT !.at = a, !.seen = s]]
    BY DEF TypeOK
  <1>3. [thr[t] EXCEPT !.at = a, !.seen = s] \in ThreadStates
    BY <1>1 DEF TypeOK
  <1>4. QED
    BY <1>2, <1>3 DEF TypeOK

LEMMA SetStageType ==
    ASSUME TypeOK, NEW j, NEW s \in Stages, SetStage(j, s)
    PROVE  /\ tracker' \in [Jobs -> Stages \cup {"absent"}]
           /\ ref' \in SUBSET Threads
  BY DEF TypeOK, SetStage

\* What a handler writes as a stage is one.
LEMMA CalculatedType ==
    ASSUME NEW s \in Stages \cup {"absent"}, NEW ev
    PROVE  Calculated(s, ev) \in Stages
  <1>1. CASE s \in Terminal
    BY <1>1 DEF Calculated, Terminal, Stages
  <1>2. CASE s \notin Terminal
    BY <1>2 DEF Calculated, Terminal, Stages
  <1>3. QED
    BY <1>1, <1>2

-----------------------------------------------------------------------------
(* Types *)

\* Each step keeps the types, and keeps threads bound to a job.
LEMMA TypeStep ==
    ASSUME TypeOK, Bound, [Next]_vars
    PROVE  TypeOK' /\ Bound'
  <1>1. ASSUME NEW t \in Threads, NEW j \in Jobs, Provision(t, j)
        PROVE  TypeOK' /\ Bound'
    <2>1. thr' \in [Threads -> ThreadStates] /\ Bound'
      BY <1>1, AcceptType DEF Provision, Labels
    <2>2. tracker' \in [Jobs -> Stages \cup {"absent"}] /\ ref' \in SUBSET Threads
      BY <1>1, SetStageType DEF Provision, Stages
    <2>3. QED
      BY <1>1, <2>1, <2>2 DEF Provision, TypeOK
  <1>2. ASSUME NEW t \in Threads, NEW j \in Jobs, CustomIso(t, j)
        PROVE  TypeOK' /\ Bound'
    <2>1. thr' \in [Threads -> ThreadStates] /\ Bound'
      BY <1>2, AcceptType DEF CustomIso, Labels
    <2>2. tracker' \in [Jobs -> Stages \cup {"absent"}] /\ ref' \in SUBSET Threads
      BY <1>2, SetStageType DEF CustomIso, Stages
    <2>3. QED
      BY <1>2, <2>1, <2>2 DEF CustomIso, TypeOK
  <1>3. ASSUME NEW t \in Threads, NEW j \in Jobs, PhoneHome(t, j)
        PROVE  TypeOK' /\ Bound'
    <2>1. thr' \in [Threads -> ThreadStates] /\ Bound'
      <3>1. CASE Accept(t, j, "advance")
        BY <3>1, AcceptType DEF Labels
      <3>2. CASE UNCHANGED thr
        BY <3>2 DEF TypeOK, Bound
      <3>3. QED
        BY <1>3, <3>1, <3>2 DEF PhoneHome
    <2>2. post' \in [Jobs -> Threads \cup {"none"}] /\ node' \in [Jobs -> NodeStates]
      BY <1>3 DEF PhoneHome, TypeOK, NodeStates
    <2>3. QED
      BY <1>3, <2>1, <2>2 DEF PhoneHome, TypeOK
  <1>4. ASSUME NEW t \in Threads, NEW j \in Jobs, GetLauncher(t, j)
        PROVE  TypeOK' /\ Bound'
    <2>1. thr' \in [Threads -> ThreadStates] /\ Bound'
      BY <1>4, AcceptType DEF GetLauncher, Labels
    <2>2. tracker' \in [Jobs -> Stages \cup {"absent"}] /\ ref' \in SUBSET Threads
      BY <1>4, SetStageType DEF GetLauncher, Stages
    <2>3. QED
      BY <1>4, <2>1, <2>2 DEF GetLauncher, TypeOK, NodeStates
  <1>5. ASSUME NEW t \in Threads, NEW j \in Jobs, NEW ev \in Events, Telemetry(t, j, ev)
        PROVE  TypeOK' /\ Bound'
    <2>1. thr' \in [Threads -> ThreadStates]
      <3>1. [Idle EXCEPT !.at = "scan", !.src = j, !.ev = ev, !.keys = Present]
              \in ThreadStates
        BY <1>5, IdleType DEF Idle, ThreadStates, Labels, Present
      <3>2. QED
        BY <1>5, <3>1 DEF Telemetry, TypeOK
    <2>2. Bound'
      BY <1>5 DEF Telemetry, TypeOK, Bound, Idle
    <2>3. QED
      BY <1>5, <2>1, <2>2 DEF Telemetry, TypeOK
  <1>6. ASSUME NEW t \in Threads, NEW j \in Jobs, PostProgress(t, j) \/ PostFinal(t, j)
        PROVE  TypeOK' /\ Bound'
    BY <1>5, <1>6 DEF PostProgress, PostFinal, Events
  <1>7. ASSUME NEW t \in Threads, NEW j \in Jobs, StatusGet(t, j)
        PROVE  TypeOK' /\ Bound'
    <2>1. thr' \in [Threads -> ThreadStates] /\ Bound'
      BY <1>7, AcceptType DEF StatusGet, Labels
    <2>2. QED
      BY <1>7, <2>1 DEF StatusGet, TypeOK
  <1>8. ASSUME NEW t \in Threads, NEW j \in Jobs, NEW s \in HookStages, ProgressHook(t, j, s)
        PROVE  TypeOK' /\ Bound'
    <2>1. tracker' \in [Jobs -> Stages \cup {"absent"}] /\ ref' \in SUBSET Threads
      BY <1>8, SetStageType, LifecycleAssumption DEF ProgressHook
    <2>2. Bound'
      BY <1>8 DEF ProgressHook, Bound
    <2>3. QED
      BY <1>8, <2>1, <2>2 DEF ProgressHook, TypeOK
  <1>9. ASSUME NEW t \in Threads, Spawn(t)
        PROVE  TypeOK' /\ Bound'
    <2>1. PICK n \in Attempts :
            /\ play' = [play EXCEPT ![thr[t].job][n] = "running"]
            /\ thr' = [thr EXCEPT ![t].at = "register", ![t].run = n]
      BY <1>9 DEF Spawn
    <2>2. play' \in [Jobs -> [Attempts -> PlayStates]]
      BY <2>1 DEF TypeOK, PlayStates
    <2>3. n \in 0 .. MaxAttempts
      BY LifecycleAssumption DEF Attempts
    <2>4. thr' \in [Threads -> ThreadStates]
      BY <2>1, <2>3, RunType DEF Labels
    <2>5. Bound'
      BY <1>9, <2>1 DEF Spawn, TypeOK, ThreadStates, Bound
    <2>6. QED
      BY <1>9, <2>2, <2>4, <2>5 DEF Spawn, TypeOK
  <1>10. ASSUME NEW t \in Threads, SpawnFails(t)
        PROVE  TypeOK' /\ Bound'
    <2>1. /\ thr' \in [Threads -> ThreadStates]
          /\ post' \in [Jobs -> Threads \cup {"none"}]
          /\ Bound'
      BY <1>10, RespondType DEF SpawnFails
    <2>3. QED
      BY <1>10, <2>1 DEF SpawnFails, TypeOK
  <1>11. ASSUME NEW t \in Threads, Register(t)
        PROVE  TypeOK' /\ Bound'
    <2>1. /\ thr' \in [Threads -> ThreadStates]
          /\ post' \in [Jobs -> Threads \cup {"none"}]
          /\ Bound'
      BY <1>11, RespondType DEF Register
    <2>2. runner' \in [Jobs -> 0 .. MaxAttempts]
      BY <1>11 DEF Register, TypeOK, ThreadStates
    <2>3. QED
      BY <1>11, <2>1, <2>2 DEF Register, TypeOK, Bound, ThreadStates
  <1>12. ASSUME NEW t \in Threads, Build(t)
        PROVE  TypeOK' /\ Bound'
    <2>1. /\ thr' \in [Threads -> ThreadStates]
          /\ post' \in [Jobs -> Threads \cup {"none"}]
          /\ Bound'
      BY <1>12, RespondType DEF Build
    <2>2. iso' \in SUBSET Jobs /\ torn' \in SUBSET Jobs
      BY <1>12 DEF Build, Bound, TypeOK
    <2>3. QED
      BY <1>12, <2>1, <2>2 DEF Build, TypeOK
  <1>13. ASSUME NEW t \in Threads, Advance(t)
        PROVE  TypeOK' /\ Bound'
    <2>1. tracker' \in [Jobs -> Stages \cup {"absent"}] /\ ref' \in SUBSET Threads
      BY <1>13, SetStageType DEF Advance, Stages
    <2>2. thr' \in [Threads -> ThreadStates]
      BY <1>13, MoveType DEF Advance, Goto, Labels
    <2>3. Bound'
      BY <1>13 DEF Advance, Goto, TypeOK, ThreadStates, Bound
    <2>4. QED
      BY <1>13, <2>1, <2>2, <2>3 DEF Advance, TypeOK
  <1>14. ASSUME NEW t \in Threads, Render(t)
        PROVE  TypeOK' /\ Bound'
    <2>1. /\ thr' \in [Threads -> ThreadStates]
          /\ post' \in [Jobs -> Threads \cup {"none"}]
          /\ Bound'
      BY <1>14, RespondType DEF Render
    <2>2. launch' \in SUBSET Jobs
      BY <1>14 DEF Render, Bound, TypeOK
    <2>3. QED
      BY <1>14, <2>1, <2>2 DEF Render, TypeOK
  <1>15. ASSUME NEW t \in Threads, Serve(t)
        PROVE  TypeOK' /\ Bound'
    <2>1. /\ thr' \in [Threads -> ThreadStates]
          /\ post' \in [Jobs -> Threads \cup {"none"}]
          /\ Bound'
      BY <1>15, RespondType DEF Serve
    <2>2. node' \in [Jobs -> NodeStates]
      BY <1>15 DEF Serve, Launched, TypeOK, NodeStates
    <2>3. QED
      BY <1>15, <2>1, <2>2 DEF Serve, TypeOK
  <1>16. ASSUME NEW t \in Threads, Match(t)
        PROVE  TypeOK' /\ Bound'
    <2>1. PICK i \in Matches(thr[t].src) :
            /\ thr' = [thr EXCEPT ![t].at = "read", ![t].job = i, ![t].keys = {}]
            /\ mixed' \in {mixed, mixed \cup {i}}
      BY <1>16 DEF Match
    <2>2. i \in Jobs
      BY <2>1 DEF Matches, Present
    <2>3. thr' \in [Threads -> ThreadStates]
      BY <2>1, <2>2, MatchType DEF Labels
    <2>4. Bound'
      BY <1>16, <2>1, <2>2 DEF Match, TypeOK, ThreadStates, Bound
    <2>5. QED
      BY <1>16, <2>1, <2>2, <2>3, <2>4 DEF Match, TypeOK
  <1>17. ASSUME NEW t \in Threads, Drop(t)
        PROVE  TypeOK' /\ Bound'
    <2>1. /\ thr' \in [Threads -> ThreadStates]
          /\ post' \in [Jobs -> Threads \cup {"none"}]
          /\ Bound'
      BY <1>17, RespondType DEF Drop, Answer
    <2>2. told' \in SUBSET Jobs
      BY <1>17 DEF Drop, Answer, Bound, TypeOK
    <2>3. QED
      BY <1>17, <2>1, <2>2 DEF Drop, TypeOK
  <1>18. ASSUME NEW t \in Threads, ReadStage(t)
        PROVE  TypeOK' /\ Bound'
    <2> DEFINE s == IF tracker[thr[t].job] = "absent" THEN "INSTALLING"
                    ELSE tracker[thr[t].job]
    <2>1. s \in Stages \cup {"absent"}
      BY <1>18 DEF ReadStage, TypeOK, Bound, Stages
    <2>2. thr' = [thr EXCEPT ![t].at = "store", ![t].seen = s]
      BY <1>18 DEF ReadStage
    <2> HIDE DEF s
    <2>3. thr' \in [Threads -> ThreadStates]
      BY <2>1, <2>2, SeenType DEF Labels
    <2>4. Bound'
      BY <1>18, <2>2 DEF ReadStage, TypeOK, ThreadStates, Bound
    <2>5. QED
      BY <1>18, <2>3, <2>4 DEF ReadStage, TypeOK
  <1>19. ASSUME NEW t \in Threads, StoreStage(t)
        PROVE  TypeOK' /\ Bound'
    <2>1. Calculated(thr[t].seen, thr[t].ev) \in Stages
      BY CalculatedType DEF TypeOK, ThreadStates
    <2>2. tracker' \in [Jobs -> Stages \cup {"absent"}] /\ ref' \in SUBSET Threads
      BY <1>19, <2>1, SetStageType DEF StoreStage
    <2>3. /\ thr' \in [Threads -> ThreadStates]
          /\ post' \in [Jobs -> Threads \cup {"none"}]
          /\ Bound'
      BY <1>19, RespondType DEF StoreStage, Answer
    <2>4. told' \in SUBSET Jobs
      BY <1>19 DEF StoreStage, Answer, Bound, TypeOK
    <2>5. QED
      BY <1>19, <2>2, <2>3, <2>4 DEF StoreStage, TypeOK
  <1>20. ASSUME NEW t \in Threads, StatusRunner(t)
        PROVE  TypeOK' /\ Bound'
    <2>1. runner[thr[t].job] \in 0 .. MaxAttempts
      BY <1>20 DEF StatusRunner, TypeOK, Bound
    <2>2. thr' \in [Threads -> ThreadStates]
      BY <1>20, <2>1, RunType DEF StatusRunner, Labels
    <2>3. Bound'
      BY <1>20 DEF StatusRunner, TypeOK, ThreadStates, Bound
    <2>4. QED
      BY <1>20, <2>2, <2>3 DEF StatusRunner, TypeOK
  <1>21. ASSUME NEW t \in Threads, StatusCheck(t)
        PROVE  TypeOK' /\ Bound'
    <2>1. CASE StagingHasFailed(t)
      <3>1. thr' \in [Threads -> ThreadStates]
        BY <1>21, <2>1, MoveType DEF StatusCheck, Goto, Labels
      <3>2. Bound'
        <4>1. thr[t].at = "check" /\ thr' = [thr EXCEPT ![t].at = "mark"]
          BY <1>21, <2>1 DEF StatusCheck, Goto
        <4>2. QED
          BY <4>1 DEF TypeOK, ThreadStates, Bound
      <3>3. QED
        BY <1>21, <2>1, <3>1, <3>2 DEF StatusCheck, TypeOK
    <2>2. CASE ~StagingHasFailed(t)
      BY <1>21, <2>2, RespondType DEF StatusCheck, TypeOK
    <2>3. QED
      BY <2>1, <2>2
  <1>22. ASSUME NEW t \in Threads, StatusMark(t)
        PROVE  TypeOK' /\ Bound'
    <2>1. /\ thr' \in [Threads -> ThreadStates]
          /\ post' \in [Jobs -> Threads \cup {"none"}]
          /\ Bound'
      BY <1>22, RespondType DEF StatusMark
    <2>2. tracker' \in [Jobs -> Stages \cup {"absent"}]
      BY <1>22 DEF StatusMark, TypeOK, Stages
    <2>3. QED
      BY <1>22, <2>1, <2>2 DEF StatusMark, TypeOK
  <1>23. ASSUME NEW j \in Jobs, NEW n \in Attempts, PlaybookEnds(j, n)
        PROVE  TypeOK' /\ Bound'
    <2>1. play' \in [Jobs -> [Attempts -> PlayStates]]
      BY <1>23 DEF PlaybookEnds, TypeOK, PlayStates
    <2>2. QED
      BY <1>23, <2>1 DEF PlaybookEnds, TypeOK, Bound
  <1>24. ASSUME NEW j \in Jobs, Boot(j)
        PROVE  TypeOK' /\ Bound'
    BY <1>24 DEF Boot, TypeOK, Bound, NodeStates
  <1>25. ASSUME NEW j \in Jobs, InstallerEnds(j)
        PROVE  TypeOK' /\ Bound'
    BY <1>25 DEF InstallerEnds, TypeOK, Bound, NodeStates
  <1>26. ASSUME NEW j \in Jobs, Timeout(j)
        PROVE  TypeOK' /\ Bound'
    BY <1>26 DEF Timeout, TypeOK, Bound, NodeStates
  <1>27. ASSUME Restart
        PROVE  TypeOK' /\ Bound'
    <2>1. thr' \in [Threads -> ThreadStates] /\ Bound'
      BY <1>27, IdleType DEF Restart, Bound, Idle
    <2>2. play' \in [Jobs -> [Attempts -> PlayStates]]
      BY <1>27 DEF Restart, TypeOK, PlayStates
    <2>3. node' \in [Jobs -> NodeStates]
      BY <1>27 DEF Restart, TypeOK, NodeStates
    <2>4. runner' \in [Jobs -> 0 .. MaxAttempts]
      BY <1>27, LifecycleAssumption DEF Restart
    <2>5. QED
      BY <1>27, <2>1, <2>2, <2>3, <2>4 DEF Restart, TypeOK
  <1>28. CASE UNCHANGED vars
    BY <1>28 DEF vars, TypeOK, Bound
  <1>29. QED
    BY <1>1, <1>2, <1>3, <1>4, <1>6, <1>7, <1>8, <1>9, <1>10, <1>11, <1>12,
       <1>13, <1>14, <1>15, <1>16, <1>17, <1>18, <1>19, <1>20, <1>21, <1>22,
       <1>23, <1>24, <1>25, <1>26, <1>27, <1>28
       DEF Next, Work, Request, Machine

-----------------------------------------------------------------------------
(* Staging *)

\* The four ways in which a step treats the tracker.  A handler that stores a
\* stage replaces the object; only StatusMark changes an object in place.
LEMMA TrackerStep ==
    ASSUME TypeOK, Bound, [Next]_vars
    PROVE  \/ \E j \in Jobs, s \in Stages : SetStage(j, s)
           \/ tracker' = tracker /\ \A u \in ref' \ ref : thr'[u].at # "mark"
           \/ \E t \in Threads : StatusMark(t)
           \/ Restart
  <1> DEFINE Stores == \E j \in Jobs, s \in Stages : SetStage(j, s)
             Leaves == tracker' = tracker /\ \A u \in ref' \ ref : thr'[u].at # "mark"
  <1>1. ASSUME NEW t \in Threads, NEW j \in Jobs,
               Provision(t, j) \/ CustomIso(t, j) \/ GetLauncher(t, j)
        PROVE  Stores
    BY <1>1 DEF Provision, CustomIso, GetLauncher, Stages
  <1>2. ASSUME NEW t \in Threads, NEW j \in Jobs, NEW s \in HookStages,
               ProgressHook(t, j, s)
        PROVE  Stores
    BY <1>2, LifecycleAssumption DEF ProgressHook
  <1>3. ASSUME NEW t \in Threads, Advance(t)
        PROVE  Stores
    BY <1>3 DEF Advance, Bound, Stages
  <1>4. ASSUME NEW t \in Threads, StoreStage(t)
        PROVE  Stores
    <2>1. Calculated(thr[t].seen, thr[t].ev) \in Stages
      BY CalculatedType DEF TypeOK, ThreadStates
    <2>2. thr[t].job \in Jobs
      BY <1>4 DEF StoreStage, Bound
    <2>3. QED
      BY <1>4, <2>1, <2>2 DEF StoreStage
  <1>5. ASSUME NEW t \in Threads, NEW j \in Jobs, StatusGet(t, j)
        PROVE  Leaves
    <2>1. thr'[t].at = "runner"
      BY <1>5 DEF StatusGet, Accept, TypeOK, Idle
    <2>2. QED
      BY <1>5, <2>1 DEF StatusGet
  <1>6. ASSUME NEW t \in Threads, NEW j \in Jobs,
               PhoneHome(t, j) \/ PostProgress(t, j) \/ PostFinal(t, j)
        PROVE  Leaves
    BY <1>6 DEF PhoneHome, PostProgress, PostFinal, Telemetry
  <1>7. ASSUME NEW t \in Threads,
               \/ Spawn(t) \/ SpawnFails(t) \/ Register(t) \/ Build(t)
               \/ Render(t) \/ Serve(t) \/ Match(t) \/ Drop(t)
               \/ ReadStage(t) \/ StatusRunner(t)
        PROVE  Leaves
    BY <1>7 DEF Spawn, SpawnFails, Register, Build, Render, Serve, Match, Drop,
                ReadStage, StatusRunner
  <1>8. ASSUME NEW t \in Threads, StatusCheck(t)
        PROVE  Leaves
    BY <1>8 DEF StatusCheck
  <1>9. ASSUME NEW j \in Jobs, Machine(j) \/ \E n \in Attempts : PlaybookEnds(j, n)
        PROVE  Leaves
    BY <1>9 DEF Machine, Boot, InstallerEnds, Timeout, PlaybookEnds
  <1>10. ASSUME UNCHANGED vars
         PROVE  Leaves
    BY <1>10 DEF vars
  <1> HIDE DEF Stores, Leaves
  <1>11. Stores \/ Leaves \/ (\E t \in Threads : StatusMark(t)) \/ Restart
    BY <1>1, <1>2, <1>3, <1>4, <1>5, <1>6, <1>7, <1>8, <1>9, <1>10
       DEF Next, Work, Request
  <1>12. QED
    BY <1>11 DEF Stores, Leaves

\* A thread is about to write STAGING_FAILED since before the step, or because
\* it has just compared the stage and the status of the runner.
LEMMA MarkStep ==
    ASSUME TypeOK, Bound, [Next]_vars, NEW u \in Threads, thr'[u].at = "mark"
    PROVE  /\ thr'[u].job = thr[u].job
           /\ \/ thr[u].at = "mark"
              \/ /\ thr[u].at = "check"
                 /\ StagingHasFailed(u)
                 /\ UNCHANGED <<tracker, ref>>
  <1> DEFINE Same == thr'[u] = thr[u]
             Checked == /\ thr'[u].job = thr[u].job
                        /\ thr[u].at = "check"
                        /\ StagingHasFailed(u)
                        /\ UNCHANGED <<tracker, ref>>
             Moved == thr'[u].job = thr[u].job /\ thr[u].at = "mark"
  <1>1. ASSUME NEW t \in Threads, Respond(t)
        PROVE  Same
    BY <1>1 DEF Respond, TypeOK, Idle
  <1>2. ASSUME NEW t \in Threads, NEW j \in Jobs,
               NEW a \in Labels \ {"mark"}, Accept(t, j, a)
        PROVE  Same
    BY <1>2 DEF Accept, TypeOK, Idle
  <1>3. ASSUME NEW t \in Threads, NEW j \in Jobs, NEW ev, Telemetry(t, j, ev)
        PROVE  Same
    BY <1>3 DEF Telemetry, TypeOK, Idle
  <1>4. ASSUME NEW t \in Threads, NEW j \in Jobs, Request(t, j)
        PROVE  Same
    <2>1. CASE \E a \in Labels \ {"mark"} : Accept(t, j, a)
      BY <2>1, <1>2
    <2>2. CASE UNCHANGED thr
      BY <2>2
    <2>3. CASE \E ev \in Events : Telemetry(t, j, ev)
      BY <2>3, <1>3
    <2>4. QED
      BY <1>4, <2>1, <2>2, <2>3
         DEF Request, Provision, CustomIso, PhoneHome, GetLauncher, StatusGet,
             ProgressHook, PostProgress, PostFinal, Labels, Events
  <1>5. ASSUME NEW t \in Threads,
               \/ SpawnFails(t) \/ Register(t) \/ Build(t) \/ Render(t) \/ Serve(t)
               \/ Drop(t) \/ StoreStage(t) \/ StatusMark(t)
        PROVE  Same
    BY <1>1, <1>5 DEF SpawnFails, Register, Build, Render, Serve, Drop,
                      StoreStage, StatusMark, Answer
  <1>6. ASSUME NEW t \in Threads, Spawn(t)
        PROVE  Same
    BY <1>6 DEF Spawn, TypeOK, ThreadStates
  <1>7. ASSUME NEW t \in Threads, Advance(t)
        PROVE  Same
    BY <1>7 DEF Advance, Goto, TypeOK, ThreadStates
  <1>8. ASSUME NEW t \in Threads, Match(t)
        PROVE  Same
    BY <1>8 DEF Match, TypeOK, ThreadStates
  <1>9. ASSUME NEW t \in Threads, ReadStage(t)
        PROVE  Same
    BY <1>9 DEF ReadStage, TypeOK, ThreadStates
  <1>10. ASSUME NEW t \in Threads, StatusRunner(t)
         PROVE  Same
    BY <1>10 DEF StatusRunner, TypeOK, ThreadStates
  <1>11. ASSUME NEW t \in Threads, StatusCheck(t)
         PROVE  Same \/ Checked
    <2>1. CASE ~StagingHasFailed(t)
      BY <1>1, <1>11, <2>1 DEF StatusCheck
    <2>2. CASE StagingHasFailed(t) /\ t # u
      BY <1>11, <2>2 DEF StatusCheck, Goto, TypeOK
    <2>3. CASE StagingHasFailed(t) /\ t = u
      <3>1. thr'[u].job = thr[u].job
        BY <1>11, <2>3 DEF StatusCheck, Goto, TypeOK, ThreadStates
      <3>2. QED
        BY <1>11, <2>3, <3>1 DEF StatusCheck
    <2>4. QED
      BY <2>1, <2>2, <2>3
  <1>12. ASSUME NEW j \in Jobs, Machine(j) \/ \E n \in Attempts : PlaybookEnds(j, n)
         PROVE  Same
    BY <1>12 DEF Machine, Boot, InstallerEnds, Timeout, PlaybookEnds
  <1>13. ASSUME Restart
         PROVE  Same
    BY <1>13 DEF Restart, Idle
  <1>14. ASSUME UNCHANGED vars
         PROVE  Same
    BY <1>14 DEF vars
  <1>15. Same => Moved
    OBVIOUS
  <1> HIDE DEF Same, Checked
  <1>16. Same \/ Checked
    BY <1>4, <1>5, <1>6, <1>7, <1>8, <1>9, <1>10, <1>11, <1>12, <1>13, <1>14
       DEF Next, Work
  <1>17. QED
    BY <1>15, <1>16 DEF Checked

LEMMA InvInit ==
    Init => IInv
  <1> SUFFICES ASSUME Init PROVE IInv
    OBVIOUS
  <1>1. TypeOK
    BY IdleType, LifecycleAssumption
       DEF Init, TypeOK, PlayStates, NodeStates
  <1>2. Bound
    BY DEF Init, Bound, Idle
  <1>3. MarkShared
    BY DEF Init, MarkShared
  <1>4. QED
    BY <1>1, <1>2, <1>3 DEF IInv

LEMMA InvStep ==
    IInv /\ [Next]_vars => IInv'
  <1> SUFFICES ASSUME IInv, [Next]_vars PROVE IInv'
    OBVIOUS
  <1> USE DEF IInv
  <1>1. TypeOK' /\ Bound'
    BY TypeStep
  <1>2. MarkShared'
    <2> SUFFICES ASSUME NEW u \in ref', thr'[u].at = "mark"
                 PROVE  tracker'[thr'[u].job] \in {"STAGING", "STAGING_FAILED"}
      BY DEF MarkShared
    <2>1. u \in Threads
      BY <1>1 DEF TypeOK
    <2>2. thr'[u].job = thr[u].job /\ thr[u].job \in Jobs
      BY <2>1, MarkStep DEF Bound
    <2>3. CASE thr[u].at # "mark"
      BY <2>1, <2>2, <2>3, MarkStep DEF StagingHasFailed
    <2>4. CASE thr[u].at = "mark"
      <3>1. ASSUME NEW j \in Jobs, NEW s, SetStage(j, s)
            PROVE  u \in ref /\ tracker'[thr[u].job] = tracker[thr[u].job]
        BY <3>1, <2>2 DEF SetStage, TypeOK
      <3>2. ASSUME tracker' = tracker, \A v \in ref' \ ref : thr'[v].at # "mark"
            PROVE  u \in ref /\ tracker'[thr[u].job] = tracker[thr[u].job]
        BY <3>2
      <3>3. ASSUME NEW t \in Threads, StatusMark(t)
            PROVE  /\ u \in ref
                   /\ tracker'[thr[u].job] \in {tracker[thr[u].job], "STAGING_FAILED"}
        BY <3>3, <2>2 DEF StatusMark, TypeOK
      <3>4. CASE Restart
        BY <3>4 DEF Restart
      <3>5. QED
        BY <2>2, <2>4, <3>1, <3>2, <3>3, <3>4, TrackerStep DEF MarkShared
    <2>5. QED
      BY <2>3, <2>4
  <1>3. QED
    BY <1>1, <1>2

LEMMA InvAlways == Spec => []IInv
  BY InvInit, InvStep, PTL DEF Spec

\* The types hold in every reachable state.
THEOREM TypeCorrect == Spec => []TypeOK
  <1>1. IInv => TypeOK
    BY DEF IInv
  <1>2. QED
    BY <1>1, InvAlways, PTL

\* The status request changes no job that has moved on, although it reads the
\* stage and writes it later, whatever the progress hook is sent meanwhile.
THEOREM StatusKeepsStage == Spec => StatusNeverRegresses
  <1> DEFINE Step == \A t \in Threads, j \in Jobs :
                StatusMark(t) /\ tracker'[j] # tracker[j] => tracker[j] = "STAGING"
  <1>1. IInv /\ [Next]_vars => [Step]_vars
    <2> SUFFICES ASSUME IInv, NEW t \in Threads, NEW j \in Jobs,
                        StatusMark(t), tracker'[j] # tracker[j]
                 PROVE  tracker[j] = "STAGING"
      OBVIOUS
    <2>1. thr[t].job = j /\ t \in ref /\ thr[t].at = "mark" /\ tracker'[j] = "STAGING_FAILED"
      BY DEF StatusMark, TypeOK, IInv
    <2>2. QED
      BY <2>1 DEF MarkShared, IInv
  <1>2. QED
    BY <1>1, InvAlways, PTL DEF Spec, StatusNeverRegresses
=============================================================================
