-------------------------------- MODULE Deploy --------------------------------
(***************************************************************************)
(* host_tools/qpy_incremental_deploy.py: pushes a selection of the files   *)
(* of the manifest to the device, looks at what is there, and starts the   *)
(* runtime; again and again, because any call of the device may fail, be   *)
(* killed when its time is over, or report what did not happen.  A cleanup *)
(* of temporary files (TmpCleanup) may be started at any time, its steps   *)
(* coming between two pushes, and never within one.  Every deployment is   *)
(* of the same new version.  A push may misread a size; it then leaves     *)
(* what it likes, and may say ok (see PushPromise).                        *)
(***************************************************************************)
EXTENDS TmpCleanup, PushPromise, Sequences

CONSTANTS Entries,   \* the manifest: its entries in order
          Config,    \* the entry of kind "config"
          SameSize,  \* the files whose old and new version have the same size
          MaxRuns,   \* bound: deployments
          Doubtful   \* bound: files a push of which may misread a size

ASSUME DeployConstants ==
  /\ Entries \in Seq(Files) /\ Config \in Files
  /\ SameSize \subseteq Files /\ MaxRuns \in Nat /\ Doubtful \subseteq Files

VARIABLES host,      \* the process: what it does (at, rest, todo), what it was
                     \* asked (plan, strict, start), what it saw (right, clean)
          report,    \* how the last deployment ended: "none", "ok", "failed"
          runs,      \* deployments so far
          runtimes,  \* device: how often a deployment started the runtime
          misread    \* history: files whose push misread a size, until a push
                     \* that misread none has replaced them

device == <<live, temps>>
dvars == <<device, cleaner, host, report, runs, runtimes, misread>>

Modes == {"auto", "skip", "always", "override"}
Steps == {"idle", "mkdir", "push", "ls", "start", "judge"}

-----------------------------------------------------------------------------
(* build_push_plan: an override goes into the plan whatever is selected; a *)
(* file that is missing locally ends the program before it touches the     *)
(* device, and is left out here.  placeholder: does the repository's       *)
(* config.py hold one of PLACEHOLDER_MARKERS?                              *)
Includes(selected, f) == selected = {} \/ f \in selected

Pushes(f, selected, mode, placeholder) ==
  IF f # Config THEN Includes(selected, f)
  ELSE \/ mode = "override"
       \/ mode = "always" /\ Includes(selected, f)
       \/ mode = "auto" /\ Includes(selected, f) /\ ~placeholder

PushPlan(selected, mode, placeholder) ==
  {i \in DOMAIN Entries : Pushes(Entries[i], selected, mode, placeholder)}

-----------------------------------------------------------------------------
Request(plan, strict, start) ==
  [at |-> "mkdir", plan |-> plan, rest |-> plan, todo |-> Dirs,
   strict |-> strict, start |-> start, right |-> TRUE, clean |-> TRUE]

AtRest(plan) == [Request(plan, FALSE, FALSE) EXCEPT !.at = "idle"]

Init ==
  /\ live = [f \in Files |-> "old"] /\ temps = {} /\ cleaner = Resting
  /\ host = AtRest({})
  /\ report = "none" /\ runs = 0 /\ runtimes = 0 /\ misread = {}

DeployStarts(plan, strict, start) ==
  /\ host.at = "idle" /\ runs < MaxRuns
  /\ host' = Request(plan, strict, start)
  /\ runs' = runs + 1 /\ report' = "none"
  /\ UNCHANGED <<device, cleaner, runtimes, misread>>

Goes(next) == host' = next /\ UNCHANGED report
\* A call that is not ok, or subprocess.run raising when its time is over
Fails == host' = AtRest({}) /\ report' = "failed"

MakeDirs(ok) ==
  /\ host.at = "mkdir"
  /\ IF ok THEN Goes([host EXCEPT !.at = "push"]) ELSE Fails
  /\ UNCHANGED <<device, cleaner, runs, runtimes, misread>>

(* The names of a push hold the time: no other push uses them. *)
Leftovers(i, s) ==
  {t \in {[of |-> Entries[i], kind |-> "tmp", push |-> <<runs, i>>, holds |-> s.tmp],
          [of |-> Entries[i], kind |-> "bak", push |-> <<runs, i>>, holds |-> s.bak]} :
     t.holds # "none"}

RightSize(f) == live[f] \in {"new", "mixed"} \/ (live[f] = "old" /\ f \in SameSize)

(* Mutant: the next file follows, whatever became of this one. *)
NextAnyway(i, result) == Goes([host EXCEPT !.rest = @ \ {i}])

\* The first push that fails ends the deployment.
AfterPush(i, result) == IF result = "ok" THEN Goes([host EXCEPT !.rest = @ \ {i}]) ELSE Fails

(* run_fs_cli push: its end is one that PushPromise allows, be it killed.  *)
Push(i, result, lost) ==
  /\ host.at = "push" /\ i \in host.rest /\ \A j \in host.rest : i <= j
  /\ \E s \in Leaves(live[Entries[i]], result, lost) :
       /\ live' = [live EXCEPT ![Entries[i]] = s.live]
       /\ temps' = temps \cup Leftovers(i, s)
  /\ lost => Entries[i] \in Doubtful
  /\ misread' = IF lost THEN misread \cup {Entries[i]}
                ELSE IF result = "ok" THEN misread \ {Entries[i]} ELSE misread
  /\ AfterPush(i, result)
  /\ UNCHANGED <<cleaner, runs, runtimes>>

PushesDone ==
  /\ host.at = "push" /\ host.rest = {}
  /\ Goes([host EXCEPT !.at = "ls"])
  /\ UNCHANGED <<device, cleaner, runs, runtimes, misread>>

Planned == {Entries[i] : i \in host.plan}

(* run_fs_cli ls, verify_pushed_files and collect_tmp_files for one of the  *)
(* directories.                                                            *)
Listing(d, got) ==
  /\ host.at = "ls" /\ d \in host.todo
  /\ LET mine == {f \in Planned : DirOf[f] = d}
         right == got = "rows" /\ \A f \in mine : RightSize(f)
         clean == got = "empty" \/ \A t \in temps : DirOf[t.of] = d => t.kind = "bak"
     IN  IF got = "failed" THEN Fails
         ELSE Goes([host EXCEPT !.todo = @ \ {d},
                                !.right = @ /\ (mine = {} \/ right),
                                !.clean = @ /\ clean,
                                !.at = IF host.todo # {d} THEN @
                                       ELSE IF host.start THEN "start" ELSE "judge"])
  /\ UNCHANGED <<device, cleaner, runs, runtimes, misread>>

(* run_fs_cli run, whatever the listings have shown: what is confirmed is  *)
(* the echo of the line that calls example.exec.                           *)
StartRuntime(ok, started) ==
  /\ host.at = "start"
  /\ runtimes' = IF started THEN runtimes + 1 ELSE runtimes
  /\ IF ok THEN Goes([host EXCEPT !.at = "judge"]) ELSE Fails
  /\ UNCHANGED <<device, cleaner, runs, misread>>

(* Mutant: that the pushes have reported ok is enough. *)
PushesWereOk == host.clean \/ ~host.strict

Verified == host.right /\ (host.clean \/ ~host.strict)

Judge ==
  /\ host.at = "judge"
  /\ IF Verified THEN host' = AtRest(host.plan) /\ report' = "ok" ELSE Fails
  /\ UNCHANGED <<device, cleaner, runs, runtimes, misread>>

Cleanup == CleanupNext /\ UNCHANGED <<host, report, runs, runtimes, misread>>

Deployment ==
  \/ \E selected \in SUBSET Files, mode \in Modes, placeholder, strict, start \in BOOLEAN :
       DeployStarts(PushPlan(selected, mode, placeholder), strict, start)
  \/ \E ok \in BOOLEAN : MakeDirs(ok)
  \/ \E i \in DOMAIN Entries, result \in {"ok", "failed"}, lost \in BOOLEAN : Push(i, result, lost)
  \/ PushesDone
  \/ \E d \in Dirs, got \in Listings : Listing(d, got)
  \/ \E ok, started \in BOOLEAN : StartRuntime(ok, started)
  \/ Judge

Next == Deployment \/ Cleanup

Spec == Init /\ [][Next]_dvars

-----------------------------------------------------------------------------
Leftover == [of : Files, kind : {"tmp", "bak"}, push : Nat \X Nat, holds : Contents]

Hosts == [at : Steps, plan : SUBSET DOMAIN Entries, rest : SUBSET DOMAIN Entries,
          todo : SUBSET Dirs, strict : BOOLEAN, start : BOOLEAN,
          right : BOOLEAN, clean : BOOLEAN]

(* Type invariant of the device and of both processes. *)
DTypeOK ==
  /\ live \in [Files -> Contents] /\ temps \subseteq Leftover
  /\ cleaner \in [at : {"idle", "scan", "remove"}, scan : SUBSET Dirs, found : SUBSET Leftover,
                  rollback : BOOLEAN]
  /\ host \in Hosts
  /\ report \in {"none", "ok", "failed"} /\ runs \in Nat /\ runtimes \in Nat
  /\ misread \subseteq Files

Recoverable(f) ==
  live[f] \in Complete \/ \E t \in temps : t.of = f /\ t.holds \in Complete

(* There is at any time a whole version of every file on the device: the   *)
(* one that a failed or killed push has left behind is not removed by a    *)
(* cleanup, also when it works with a list that is older than the push.    *)
(* Only a push that has misread a size may leave none.                     *)
NeverLoses == \A f \in Files \ misread : Recoverable(f)

(* The files of a deployment that reports ok all have the right size on    *)
(* the device, also those whose push has misread one; and all others are   *)
(* there in their new version, though of two versions of the same size a   *)
(* listing does not tell which it is.                                      *)
OkMeansDeployed ==
  report = "ok" => \A f \in Planned : RightSize(f) /\ (f \notin misread => live[f] = "new")

(* No deployment starts the runtime upon a mixture of files it has         *)
(* replaced and files it has failed to replace: all are there, and none is *)
(* old or in part but where its push has misread a size.                   *)
NeverStartsMixture ==
  [][runtimes' # runtimes =>
       \A f \in Planned : live[f] = "new" \/ (f \in misread /\ live[f] # "none")]_dvars
==============================================================================
