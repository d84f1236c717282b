----------------------------- MODULE DeployProofs -----------------------------
(***************************************************************************)
(* Proofs about Deploy, for every manifest, every number of deployments    *)
(* and cleanups, and every result of every push that PushPromise allows.   *)
(***************************************************************************)
EXTENDS Deploy, TLAPS

(* A leftover that the cleanup does not have on its list. *)
Spared(f) == \E t \in temps : /\ t.of = f /\ t.holds \in Complete
                              /\ t \notin cleaner.found

(* The part of the type invariant the proofs need, with what pushes that    *)
(* misread nothing can put on the device.                                  *)
Typed ==
  /\ live \in [Files -> Contents] /\ misread \subseteq Files
  /\ \A f \in Files \ misread : live[f] \in {"none", "old", "new"}
  /\ runs \in Nat
  /\ host \in Hosts /\ host.rest \subseteq host.plan

(* No leftover, found or not, has the names of a push that is still to come. *)
Dated ==
  \A t \in temps \cup cleaner.found :
    \E r \in Nat, i \in DOMAIN Entries :
      /\ t.push = <<r, i>> /\ r <= runs
      /\ r = runs => /\ host.at # "mkdir"
                     /\ host.at = "push" => i \notin host.rest

(* The cleanup never has the last whole version of a file on its list. *)
Safe == \A f \in Files \ misread : live[f] \in Complete \/ Spared(f)

(* What has been pushed is there. *)
InPlace(f) == live[f] = "new" \/ (f \in misread /\ live[f] # "none")
Pushed ==
  /\ host.at = "push" => \A i \in host.plan \ host.rest : InPlace(Entries[i])
  /\ host.at \in {"ls", "start", "judge"} \/ report = "ok" =>
       \A i \in host.plan : InPlace(Entries[i])
  /\ host.at # "idle" => report # "ok"
  /\ host.at = "mkdir" => host.rest = host.plan

DInv == Typed /\ Dated /\ Safe /\ Pushed

LEMMA EntriesAreFiles == \A i \in DOMAIN Entries : Entries[i] \in Files
BY DeployConstants

LEMMA RequestType ==
  ASSUME NEW plan \in SUBSET DOMAIN Entries, NEW strict \in BOOLEAN, NEW start \in BOOLEAN
  PROVE  /\ Request(plan, strict, start) \in Hosts
         /\ Request(plan, strict, start).at = "mkdir"
         /\ Request(plan, strict, start).plan = plan
         /\ Request(plan, strict, start).rest = plan
BY DEF Request, Hosts, Steps

LEMMA AtRestType ==
  ASSUME NEW plan \in SUBSET DOMAIN Entries
  PROVE  /\ AtRest(plan) \in Hosts /\ AtRest(plan).at = "idle"
         /\ AtRest(plan).plan = plan /\ AtRest(plan).rest = plan
<1> DEFINE q == Request(plan, FALSE, FALSE)
<1>1. q \in Hosts /\ q.plan = plan /\ q.rest = plan
  BY RequestType
<1> HIDE DEF q
<1>2. LET a == [q EXCEPT !.at = "idle"]
      IN  a \in Hosts /\ a.at = "idle" /\ a.plan = plan /\ a.rest = plan
  BY <1>1 DEF Hosts, Steps
<1> QED  BY <1>2 DEF AtRest, q

LEMMA InitOK == Init => DInv
<1> SUFFICES ASSUME Init PROVE DInv
  OBVIOUS
<1>1. Typed
  BY AtRestType DEF Init, Typed, Contents
<1>2. Dated
  BY DEF Init, Dated, Resting
<1>3. Safe
  BY DEF Init, Safe, Complete
<1>4. Pushed
  BY AtRestType DEF Init, Pushed
<1> QED  BY <1>1, <1>2, <1>3, <1>4 DEF DInv

-----------------------------------------------------------------------------
(* Steps of the deployment that leave the device alone *)

LEMMA DeviceAlone ==
  ASSUME DInv, UNCHANGED <<live, temps, cleaner, misread>>, runs' \in Nat,
         host' \in Hosts, host'.rest \subseteq host'.plan,
         \/ runs' = runs + 1
         \/ runs' = runs /\ host'.at # "mkdir"
            /\ (host'.at = "push" => host.at \in {"mkdir", "push"} /\ host'.rest = host.rest)
  PROVE  Typed' /\ Dated' /\ Safe'
<1>1. Typed'
  BY DEF DInv, Typed
<1>2. Safe'
  BY DEF DInv, Safe, Spared
<1>3. Dated'
  <2> SUFFICES ASSUME NEW t \in temps \cup cleaner.found
               PROVE  \E r \in Nat, i \in DOMAIN Entries :
                        /\ t.push = <<r, i>> /\ r <= runs'
                        /\ r = runs' => /\ host'.at # "mkdir"
                                        /\ host'.at = "push" => i \notin host'.rest
    BY DEF Dated
  <2>1. PICK r \in Nat, i \in DOMAIN Entries :
               /\ t.push = <<r, i>> /\ r <= runs
               /\ r = runs => /\ host.at # "mkdir"
                              /\ host.at = "push" => i \notin host.rest
    BY DEF DInv, Dated
  <2>2. r <= runs' /\ (r = runs' => /\ host'.at # "mkdir"
                                    /\ host'.at = "push" => i \notin host'.rest)
    BY <2>1 DEF DInv, Typed
  <2> QED  BY <2>1, <2>2
<1> QED  BY <1>1, <1>2, <1>3

LEMMA FailsOK ==
  ASSUME DInv, Fails, UNCHANGED <<live, temps, cleaner, runs, misread>>
  PROVE  DInv'
<1>1. /\ host' \in Hosts /\ report' = "failed"
      /\ host'.at = "idle" /\ host'.rest = host'.plan
  BY AtRestType DEF Fails
<1>2. Typed' /\ Dated' /\ Safe'
  BY <1>1, DeviceAlone DEF DInv, Typed
<1>3. Pushed'
  BY <1>1 DEF Pushed
<1> QED  BY <1>2, <1>3 DEF DInv

LEMMA DeployStartsOK ==
  ASSUME DInv, NEW plan \in SUBSET DOMAIN Entries, NEW strict \in BOOLEAN, NEW start \in BOOLEAN,
         DeployStarts(plan, strict, start)
  PROVE  DInv'
<1>1. /\ host'.at = "mkdir" /\ host'.plan = plan /\ host'.rest = plan
      /\ report' = "none" /\ runs' = runs + 1 /\ host' \in Hosts
  BY RequestType DEF DeployStarts
<1>2. Typed' /\ Dated' /\ Safe'
  BY <1>1, DeviceAlone DEF DInv, Typed, DeployStarts, device
<1>3. Pushed'
  BY <1>1 DEF Pushed
<1> QED  BY <1>2, <1>3 DEF DInv

LEMMA MakeDirsOK ==
  ASSUME DInv, NEW ok, MakeDirs(ok)
  PROVE  DInv'
<1>1. CASE Fails
  BY <1>1, FailsOK DEF MakeDirs, device
<1>2. CASE ok
  <2>1. /\ host'.at = "push" /\ host'.plan = host.plan /\ host'.rest = host.rest
        /\ report' = report /\ host.at = "mkdir" /\ host' \in Hosts
    BY <1>2 DEF DInv, Typed, Hosts, Steps, MakeDirs, Goes
  <2>2. Typed' /\ Dated' /\ Safe'
    BY <2>1, DeviceAlone DEF DInv, Typed, MakeDirs, device
  <2>3. Pushed'
    BY <2>1 DEF DInv, Pushed, InPlace
  <2> QED  BY <2>2, <2>3 DEF DInv
<1> QED  BY <1>1, <1>2 DEF MakeDirs

(* The steps after the last push: the plan has been pushed. *)
LEMMA AfterPushes ==
  ASSUME DInv, UNCHANGED <<live, temps, cleaner, runs, misread>>,
         \A i \in host.plan : InPlace(Entries[i]),
         host' \in Hosts, host'.plan = host.plan, host'.rest \subseteq host.plan,
         host'.at \notin {"mkdir", "push"},
         host'.at # "idle" => report' # "ok"
  PROVE  DInv'
<1>1. Typed' /\ Dated' /\ Safe'
  BY DeviceAlone DEF DInv, Typed
<1>2. Pushed'
  BY DEF Pushed, InPlace
<1> QED  BY <1>1, <1>2 DEF DInv

LEMMA PushesDoneOK == ASSUME DInv, PushesDone PROVE DInv'
<1>1. /\ host'.at = "ls" /\ host'.plan = host.plan /\ host'.rest = host.rest
      /\ report' = report /\ host.at = "push" /\ host.rest = {} /\ host' \in Hosts
  BY DEF DInv, Typed, Hosts, Steps, PushesDone, Goes
<1>2. \A i \in host.plan : InPlace(Entries[i])
  BY <1>1 DEF DInv, Pushed
<1> QED  BY <1>1, <1>2, AfterPushes DEF DInv, Typed, Pushed, PushesDone, device

LEMMA ListingOK ==
  ASSUME DInv, NEW d, NEW got, Listing(d, got)
  PROVE  DInv'
<1>1. CASE Fails
  BY <1>1, FailsOK DEF Listing, device
<1>2. CASE ~Fails
  <2>0. PICK right \in BOOLEAN, clean \in BOOLEAN, at \in {"ls", "start", "judge"} :
               host' = [host EXCEPT !.todo = @ \ {d}, !.right = right, !.clean = clean, !.at = at]
    <3>1. host.at = "ls" /\ host \in Hosts
      BY DEF DInv, Typed, Listing
    <3> DEFINE mine == {f \in Planned : DirOf[f] = d}
               right == host.right /\ (mine = {} \/ (got = "rows" /\ \A f \in mine : RightSize(f)))
               clean == /\ host.clean
                        /\ got = "empty" \/ \A t \in temps : DirOf[t.of] = d => t.kind = "bak"
               at == IF host.todo # {d} THEN host.at ELSE IF host.start THEN "start" ELSE "judge"
    <3>2. host' = [host EXCEPT !.todo = @ \ {d}, !.right = right, !.clean = clean, !.at = at]
      BY <1>2, Zenon DEF Listing, Goes
    <3>3. right \in BOOLEAN /\ clean \in BOOLEAN
      BY Zenon
    <3>4. at \in {"ls", "start", "judge"}
      BY <3>1, Zenon
    <3> HIDE DEF right, clean, at
    <3> QED  BY <3>2, <3>3, <3>4, Zenon
  <2>1. /\ host'.at \in {"ls", "start", "judge"}
        /\ host'.plan = host.plan /\ host'.rest = host.rest
        /\ host' \in Hosts
    BY <2>0 DEF DInv, Typed, Hosts, Steps
  <2>2. report' = report /\ host.at = "ls"
    BY <1>2 DEF Listing, Goes
  <2> QED  BY <2>1, <2>2, AfterPushes DEF DInv, Typed, Pushed, Listing, device
<1> QED  BY <1>1, <1>2

LEMMA StartRuntimeOK ==
  ASSUME DInv, NEW ok, NEW started, StartRuntime(ok, started)
  PROVE  DInv'
<1>1. CASE Fails
  BY <1>1, FailsOK DEF StartRuntime, device
<1>2. CASE ~Fails
  <2>1. /\ host'.at = "judge" /\ host'.plan = host.plan /\ host'.rest = host.rest
        /\ report' = report /\ host.at = "start" /\ host' \in Hosts
    BY <1>2 DEF DInv, Typed, Hosts, Steps, StartRuntime, Goes
  <2> QED  BY <2>1, AfterPushes DEF DInv, Typed, Pushed, StartRuntime, device
<1> QED  BY <1>1, <1>2

LEMMA JudgeOK == ASSUME DInv, Judge PROVE DInv'
<1>1. CASE Fails
  BY <1>1, FailsOK DEF Judge, device
<1>2. CASE ~Fails
  <2>1. /\ host'.at = "idle" /\ host'.plan = host.plan /\ host'.rest = host.plan
        /\ host.at = "judge" /\ host' \in Hosts
    BY <1>2, AtRestType DEF DInv, Typed, Hosts, Judge
  <2> QED  BY <2>1, AfterPushes DEF DInv, Typed, Pushed, Judge, device
<1> QED  BY <1>1, <1>2

-----------------------------------------------------------------------------
(* A push *)

LEMMA PushOK ==
  ASSUME DInv, NEW i \in DOMAIN Entries, NEW result \in {"ok", "failed"}, NEW lost \in BOOLEAN,
         Push(i, result, lost)
  PROVE  DInv'
<1> DEFINE f == Entries[i]
<1>1. /\ f \in Files /\ live[f] \in Contents /\ host.at = "push"
      /\ f \notin misread => live[f] \in {"none", "old", "new"}
      /\ i \in host.rest /\ UNCHANGED <<cleaner, runs, runtimes>>
  BY EntriesAreFiles DEF DInv, Typed, Push
<1>2. PICK s \in Leaves(live[f], result, lost) :
             live' = [live EXCEPT ![f] = s.live] /\ temps' = temps \cup Leftovers(i, s)
  BY DEF Push
<1>3. /\ s.live \in Contents
      /\ ~lost => /\ s.live \in {"none", live[f], "new"}
                  /\ s.live = "none" => s.bak = live[f] \/ s.tmp = "new"
      /\ result = "ok" => s.live = "new" \/ (lost /\ s.live # "none")
  BY <1>1, <1>2 DEF Leaves, Contents
<1>4. \/ /\ result = "failed" /\ host' \in Hosts
         /\ host'.at = "idle" /\ host'.rest = host'.plan /\ report' = "failed"
      \/ /\ result = "ok" /\ host' \in Hosts
         /\ host'.at = "push" /\ host'.plan = host.plan /\ host'.rest = host.rest \ {i}
         /\ report' = report
  BY <1>1, AtRestType DEF DInv, Typed, Hosts, Push, AfterPush, Fails, Goes
<1>5. /\ lost => misread' = misread \cup {f}
      /\ ~lost /\ result = "ok" => misread' = misread \ {f}
      /\ ~lost /\ result = "failed" => misread' = misread
  BY DEF Push
<1>6. /\ live' \in [Files -> Contents] /\ live'[f] = s.live
      /\ \A g \in Files : g # f => live'[g] = live[g] /\ (g \in misread <=> g \in misread')
  BY <1>1, <1>2, <1>3, <1>5 DEF DInv, Typed
<1>7. Typed'
  <2>1. ASSUME NEW g \in Files, g \notin misread' PROVE live'[g] \in {"none", "old", "new"}
    <3>1. CASE g # f
      BY <1>6, <2>1, <3>1 DEF DInv, Typed
    <3>2. CASE g = f
      BY <1>1, <1>3, <1>5, <1>6, <2>1, <3>2
    <3> QED  BY <3>1, <3>2
  <2>2. misread' \subseteq Files
    BY <1>1, <1>5 DEF DInv, Typed
  <2> QED  BY <2>1, <2>2, <1>1, <1>4, <1>6 DEF DInv, Typed
<1>8. \A t \in Leftovers(i, s) : t.of = f /\ t.push = <<runs, i>>
  BY DEF Leftovers
<1>9. Dated'
  <2> SUFFICES ASSUME NEW t \in temps \cup Leftovers(i, s) \cup cleaner.found
               PROVE  \E r \in Nat, j \in DOMAIN Entries :
                        /\ t.push = <<r, j>> /\ r <= runs
                        /\ r = runs => /\ host'.at # "mkdir"
                                       /\ host'.at = "push" => j \notin host'.rest
    BY <1>1, <1>2 DEF Dated
  <2>1. CASE t \in Leftovers(i, s)
    BY <2>1, <1>4, <1>8 DEF DInv, Typed
  <2>2. CASE t \in temps \cup cleaner.found
    <3>1. PICK r \in Nat, j \in DOMAIN Entries :
                 /\ t.push = <<r, j>> /\ r <= runs
                 /\ r = runs => /\ host.at # "mkdir"
                                /\ host.at = "push" => j \notin host.rest
      BY <2>2 DEF DInv, Dated
    <3> QED  BY <3>1, <1>1, <1>4
  <2> QED  BY <2>1, <2>2
<1>10. \A t \in Leftovers(i, s) : t \notin cleaner.found
  <2> SUFFICES ASSUME NEW t \in cleaner.found, t.push = <<runs, i>> PROVE FALSE
    BY <1>8
  <2>1. PICK r \in Nat, j \in DOMAIN Entries :
               t.push = <<r, j>> /\ (r = runs => j \notin host.rest)
    BY <1>1 DEF DInv, Dated
  <2> QED  BY <2>1, <1>1
<1>11. Safe'
  <2> SUFFICES ASSUME NEW g \in Files, g \notin misread', live'[g] \notin Complete
               PROVE  Spared(g)'
    BY DEF Safe
  <2>1. ASSUME g \notin misread, live[g] \notin Complete PROVE Spared(g)'
    <3>1. Spared(g)
      BY <2>1 DEF DInv, Safe
    <3> QED  BY <3>1, <1>1, <1>2 DEF Spared
  <2>2. CASE g # f
    BY <1>6, <2>1, <2>2
  <2>3. CASE g = f
    <3>1. ~lost /\ f \notin misread
      BY <1>3, <1>5, <1>6, <2>3 DEF Complete
    <3>2. CASE live[f] \in Complete
      <4>1. s.live = "none"
        BY <1>1, <1>3, <1>6, <2>3, <3>1, <3>2 DEF Complete
      <4>2. PICK k \in {"tmp", "bak"}, h \in Complete :
                   [of |-> f, kind |-> k, push |-> <<runs, i>>, holds |-> h] \in Leftovers(i, s)
        BY <1>3, <3>1, <3>2, <4>1 DEF Leftovers, Complete
      <4> QED  BY <4>2, <1>1, <1>2, <1>10, <2>3 DEF Spared
    <3>3. CASE live[f] \notin Complete
      BY <2>1, <2>3, <3>1, <3>3
    <3> QED  BY <3>2, <3>3
  <2> QED  BY <2>2, <2>3
<1>12. Pushed'
  <2>1. result = "ok" => \A j \in host.plan \ (host.rest \ {i}) : InPlace(Entries[j])'
    <3> SUFFICES ASSUME result = "ok", NEW j \in host.plan, j \notin host.rest \/ j = i
                 PROVE  InPlace(Entries[j])'
      OBVIOUS
    <3>1. Entries[j] \in Files
      BY EntriesAreFiles DEF DInv, Typed, Hosts
    <3>2. CASE Entries[j] = f
      BY <1>3, <1>5, <1>6, <3>2 DEF InPlace
    <3>3. CASE Entries[j] # f
      <4>1. InPlace(Entries[j])
        BY <1>1, <3>3 DEF DInv, Pushed
      <4> QED  BY <1>6, <3>1, <3>3, <4>1 DEF InPlace
    <3> QED  BY <3>2, <3>3
  <2> QED  BY <2>1, <1>1, <1>4 DEF DInv, Pushed
<1> QED  BY <1>7, <1>9, <1>11, <1>12 DEF DInv

-----------------------------------------------------------------------------
(* The cleanup *)

(* The list of the cleanup shrinks, or leftovers vanish that were on it. *)
LEMMA CleanupShrinks ==
  ASSUME DInv, UNCHANGED <<live, host, report, runs, misread>>,
         cleaner'.found \subseteq cleaner.found, temps' \subseteq temps,
         temps \ temps' \subseteq cleaner.found
  PROVE  DInv'
<1>1. Typed' /\ Dated' /\ Pushed'
  BY DEF DInv, Typed, Dated, Pushed, InPlace
<1>2. Safe'
  BY DEF DInv, Safe, Spared
<1> QED  BY <1>1, <1>2 DEF DInv

LEMMA ScanOK ==
  ASSUME DInv, NEW d, NEW got, Scan(d, got), UNCHANGED <<host, report, runs, misread>>
  PROVE  DInv'
<1>1. live' = live /\ temps' = temps
  BY DEF Scan
<1>2. \A t \in cleaner'.found :
        t \in cleaner.found \/ (t \in temps /\ live[t.of] # "none")
  BY DEF Scan, Candidate, Resting
<1>3. Typed' /\ Pushed'
  BY <1>1 DEF DInv, Typed, Pushed, InPlace
<1>4. Dated'
  BY <1>1, <1>2 DEF DInv, Dated
<1>5. Safe'
  <2> SUFFICES ASSUME NEW f \in Files, f \notin misread, live[f] \notin Complete
               PROVE  Spared(f)'
    BY <1>1 DEF Safe
  <2>1. live[f] = "none"
    BY DEF DInv, Typed, Complete
  <2>2. PICK t \in temps : t.of = f /\ t.holds \in Complete /\ t \notin cleaner.found
    BY DEF DInv, Safe, Spared
  <2>3. t \notin cleaner'.found
    BY <1>2, <2>1, <2>2
  <2> QED  BY <1>1, <2>2, <2>3 DEF Spared
<1> QED  BY <1>3, <1>4, <1>5 DEF DInv

LEMMA CleanupOK == ASSUME DInv, Cleanup PROVE DInv'
<1>1. CASE \E rollback \in BOOLEAN : CleanupStarts(rollback)
  <2>1. cleaner'.found = {} /\ UNCHANGED <<live, temps>>
    BY <1>1 DEF CleanupStarts
  <2> QED  BY <2>1, CleanupShrinks DEF Cleanup
<1>2. CASE \E d \in Dirs, got \in Listings : Scan(d, got)
  BY <1>2, ScanOK DEF Cleanup
<1>3. CASE \E t \in cleaner.found, works \in BOOLEAN : Remove(t, works)
  <2>1. PICK t \in cleaner.found, works \in BOOLEAN : Remove(t, works)
    BY <1>3
  <2>2. /\ temps' \subseteq temps /\ temps \ temps' \subseteq {t} /\ live' = live
        /\ cleaner' = IF cleaner.found = {t} THEN Resting
                      ELSE [cleaner EXCEPT !.found = @ \ {t}]
    BY <2>1 DEF Remove
  <2>3. cleaner'.found \subseteq cleaner.found
    <3>1. Resting.found = {}
      BY DEF Resting
    <3>2. [cleaner EXCEPT !.found = @ \ {t}].found \subseteq cleaner.found
      OBVIOUS
    <3> QED  BY <2>2, <3>1, <3>2
  <2> QED  BY <2>2, <2>3, CleanupShrinks DEF Cleanup
<1>4. CASE CleanupEnds
  <2>1. cleaner'.found = {} /\ UNCHANGED <<live, temps>>
    BY <1>4 DEF CleanupEnds, Resting
  <2> QED  BY <2>1, CleanupShrinks DEF Cleanup
<1> QED  BY <1>1, <1>2, <1>3, <1>4 DEF Cleanup, CleanupNext

-----------------------------------------------------------------------------
LEMMA DeploymentOK == ASSUME DInv, Deployment PROVE DInv'
<1>1. CASE \E selected \in SUBSET Files, mode \in Modes, placeholder, strict, start \in BOOLEAN :
             DeployStarts(PushPlan(selected, mode, placeholder), strict, start)
  <2>1. PICK selected \in SUBSET Files, mode \in Modes, placeholder, strict, start \in BOOLEAN :
               DeployStarts(PushPlan(selected, mode, placeholder), strict, start)
    BY <1>1
  <2>2. PushPlan(selected, mode, placeholder) \in SUBSET DOMAIN Entries
    BY DEF PushPlan
  <2> QED  BY <2>1, <2>2, DeployStartsOK
<1>2. CASE \E ok \in BOOLEAN : MakeDirs(ok)
  BY <1>2, MakeDirsOK
<1>3. CASE \E i \in DOMAIN Entries, result \in {"ok", "failed"}, lost \in BOOLEAN :
             Push(i, result, lost)
  BY <1>3, PushOK
<1>4. CASE PushesDone
  BY <1>4, PushesDoneOK
<1>5. CASE \E d \in Dirs, got \in Listings : Listing(d, got)
  BY <1>5, ListingOK
<1>6. CASE \E ok, started \in BOOLEAN : StartRuntime(ok, started)
  BY <1>6, StartRuntimeOK
<1>7. CASE Judge
  BY <1>7, JudgeOK
<1> QED  BY <1>1, <1>2, <1>3, <1>4, <1>5, <1>6, <1>7 DEF Deployment

LEMMA StepOK == ASSUME DInv, [Next]_dvars PROVE DInv'
<1>1. CASE UNCHANGED dvars
  BY <1>1 DEF dvars, device, DInv, Typed, Dated, Safe, Spared, Pushed, InPlace
<1> QED  BY <1>1, DeploymentOK, CleanupOK DEF Next

LEMMA DInvHolds == Spec => []DInv
BY InitOK, StepOK, PTL DEF Spec

-----------------------------------------------------------------------------
(* What the listings of a deployment have shown still is so. *)
Listed ==
  /\ host.at \in {"mkdir", "push"} => host.todo = Dirs
  /\ host.at \in {"start", "judge"} => host.todo = {}
  /\ host.at \in {"ls", "start", "judge"} /\ host.right =>
       \A f \in Planned : DirOf[f] \in host.todo \/ RightSize(f)
  /\ report = "ok" => \A f \in Planned : RightSize(f)

LEMMA PlannedAreFiles == ASSUME Typed PROVE Planned \subseteq Files
BY EntriesAreFiles DEF Typed, Hosts, Planned

LEMMA FailsListed == ASSUME Fails PROVE Listed'
<1>1. report' = "failed" /\ host'.at = "idle"
  BY AtRestType DEF Fails
<1> QED  BY <1>1 DEF Listed

LEMMA ListingListed ==
  ASSUME DInv, Listed, NEW d, NEW got, Listing(d, got)
  PROVE  Listed'
<1>1. host.at = "ls" /\ host \in Hosts /\ live' = live
  BY DEF DInv, Typed, Listing, device
<1>2. CASE ~Fails
  <2> DEFINE mine == {f \in Planned : DirOf[f] = d}
             right == host.right /\ (mine = {} \/ (got = "rows" /\ \A f \in mine : RightSize(f)))
             clean == /\ host.clean
                      /\ got = "empty" \/ \A t \in temps : DirOf[t.of] = d => t.kind = "bak"
             at == IF host.todo # {d} THEN host.at ELSE IF host.start THEN "start" ELSE "judge"
  <2>1. /\ host' = [host EXCEPT !.todo = @ \ {d}, !.right = right, !.clean = clean, !.at = at]
        /\ report' = report
    BY <1>2, Zenon DEF Listing, Goes
  <2>2. at \in {"start", "judge"} => host.todo = {d}
    BY <1>1
  <2>3. right => host.right /\ \A f \in Planned : DirOf[f] = d => RightSize(f)
    OBVIOUS
  <2>4. at \in {"ls", "start", "judge"}
    BY <1>1
  <2> HIDE DEF right, clean, at
  <2>5. host'.plan = host.plan /\ host'.todo = host.todo \ {d} /\ host'.at = at
        /\ host'.right = right
    BY <1>1, <2>1 DEF Hosts
  <2>6. Planned' = Planned /\ \A f : RightSize(f)' = RightSize(f)
    BY <1>1, <2>5 DEF Planned, RightSize
  <2>7. report' # "ok"
    BY <1>1, <2>1 DEF DInv, Pushed
  <2> QED  BY <1>1, <2>2, <2>3, <2>4, <2>5, <2>6, <2>7 DEF Listed
<1> QED  BY <1>2, FailsListed

(* The steps that leave the plan, the files and what was seen of them alone. *)
LEMMA HostGoesOn ==
  ASSUME DInv, Listed, live' = live, host'.plan = host.plan, host'.right = host.right,
         host'.todo = host.todo, report' = report,
         \/ host'.at = host.at \/ host'.at = "idle"
         \/ host.at = "mkdir" /\ host'.at = "push"
         \/ host.at = "push" /\ host'.at = "ls"
         \/ host.at = "start" /\ host'.at = "judge"
  PROVE  Listed'
<1>1. Planned' = Planned /\ \A f : RightSize(f)' = RightSize(f)
  BY DEF Planned, RightSize
<1>2. Planned \subseteq Files /\ \A f \in Files : DirOf[f] \in Dirs
  BY PlannedAreFiles DEF DInv, Dirs
<1> QED  BY <1>1, <1>2 DEF Listed

LEMMA DeploymentListed == ASSUME DInv, Listed, Deployment PROVE Listed'
<1>0. host \in Hosts
  BY DEF DInv, Typed
<1>1. CASE \E selected \in SUBSET Files, mode \in Modes, placeholder, strict, start \in BOOLEAN :
             DeployStarts(PushPlan(selected, mode, placeholder), strict, start)
  <2>1. report' = "none" /\ host'.at = "mkdir" /\ host'.todo = Dirs
    BY <1>1 DEF DeployStarts, Request
  <2> QED  BY <2>1 DEF Listed
<1>2. CASE (\E ok \in BOOLEAN : MakeDirs(ok)) \/ PushesDone
  <2>1. CASE ~Fails
    <3>1. /\ live' = live /\ host'.plan = host.plan /\ host'.right = host.right
          /\ host'.todo = host.todo /\ report' = report
          /\ \/ host.at = "mkdir" /\ host'.at = "push"
             \/ host.at = "push" /\ host'.at = "ls"
      BY <1>0, <1>2, <2>1 DEF MakeDirs, PushesDone, Goes, Hosts, device
    <3> QED  BY <3>1, HostGoesOn
  <2> QED  BY <2>1, FailsListed
<1>3. CASE \E i \in DOMAIN Entries, result \in {"ok", "failed"}, lost \in BOOLEAN :
             Push(i, result, lost)
  <2>1. CASE ~Fails
    <3>1. host.at = "push" /\ host'.at = "push" /\ host'.todo = host.todo /\ report' = report
      BY <1>0, <1>3, <2>1 DEF Push, AfterPush, Goes, Hosts
    <3> QED  BY <3>1 DEF Listed, DInv, Pushed
  <2> QED  BY <2>1, FailsListed
<1>4. CASE \E d \in Dirs, got \in Listings : Listing(d, got)
  BY <1>4, ListingListed
<1>5. CASE \E ok, started \in BOOLEAN : StartRuntime(ok, started)
  <2>1. CASE ~Fails
    <3>1. /\ live' = live /\ host'.plan = host.plan /\ host'.right = host.right
          /\ host'.todo = host.todo /\ report' = report
          /\ host.at = "start" /\ host'.at = "judge"
      BY <1>0, <1>5, <2>1 DEF StartRuntime, Goes, Hosts, device
    <3> QED  BY <3>1, HostGoesOn
  <2> QED  BY <2>1, FailsListed
<1>6. CASE Judge
  <2>1. CASE ~Fails
    <3>1. /\ live' = live /\ host' = AtRest(host.plan) /\ report' = "ok"
          /\ host.at = "judge" /\ host.right
      BY <1>6, <2>1 DEF Judge, Verified, device
    <3>2. host'.plan = host.plan /\ host'.at = "idle"
      BY <1>0, <3>1, AtRestType DEF Hosts
    <3>3. Planned' = Planned /\ \A f : RightSize(f)' = RightSize(f)
      BY <3>1, <3>2 DEF Planned, RightSize
    <3> QED  BY <3>1, <3>2, <3>3 DEF Listed
  <2> QED  BY <2>1, FailsListed
<1> QED  BY <1>1, <1>2, <1>3, <1>4, <1>5, <1>6 DEF Deployment

LEMMA ListedStep == ASSUME DInv, Listed, [Next]_dvars PROVE Listed'
<1>1. CASE Cleanup \/ UNCHANGED dvars
  <2>1. live' = live /\ host' = host /\ report' = report
    BY <1>1 DEF Cleanup, CleanupNext, CleanupStarts, Scan, Remove, CleanupEnds, dvars, device
  <2> QED  BY <2>1, HostGoesOn
<1> QED  BY <1>1, DeploymentListed DEF Next

LEMMA ListedHolds == Spec => []Listed
<1>1. Init => Listed
  BY AtRestType DEF Init, Listed
<1> QED  BY <1>1, ListedStep, DInvHolds, PTL DEF Spec

-----------------------------------------------------------------------------
(* Whatever pushes fail and whenever a cleanup runs between them, some      *)
(* whole version of every file stays on the device, as long as no push of   *)
(* that file has misread a size.                                            *)
THEOREM DeploymentsLoseNothing == Spec => []NeverLoses
<1>1. DInv => NeverLoses
  BY DEF DInv, Safe, Spared, NeverLoses, Recoverable
<1> QED  BY <1>1, DInvHolds, PTL

(* A deployment that reports ok leaves every file of its plan with the size *)
(* of the new version, whatever its pushes have misread, and in the new     *)
(* version unless the push of that very file has misread one.               *)
THEOREM OkIsDeployed == Spec => []OkMeansDeployed
<1>1. DInv /\ Listed => OkMeansDeployed
  BY DEF DInv, Pushed, InPlace, Listed, OkMeansDeployed, Planned
<1> QED  BY <1>1, DInvHolds, ListedHolds, PTL

(* The runtime is started by a deployment only after all of its files: each *)
(* is there, and new unless its push has misread a size.                    *)
THEOREM NoMixtureStarts == Spec => NeverStartsMixture
<1>1. ASSUME DInv, [Next]_dvars, runtimes' # runtimes
      PROVE  \A f \in Planned : live[f] = "new" \/ (f \in misread /\ live[f] # "none")
  <2>1. host.at = "start"
    BY <1>1 DEF Next, Deployment, Cleanup, DeployStarts, MakeDirs, Push, PushesDone,
                Listing, StartRuntime, Judge, dvars
  <2> QED  BY <1>1, <2>1 DEF DInv, Pushed, InPlace, Planned
<1> QED  BY <1>1, DInvHolds, PTL DEF Spec, NeverStartsMixture

-----------------------------------------------------------------------------
(* The types, of what the proofs above need no more of. *)
Cleaners == [at : {"idle", "scan", "remove"}, scan : SUBSET Dirs, found : SUBSET Leftover,
             rollback : BOOLEAN]
Others == /\ temps \subseteq Leftover /\ cleaner \in Cleaners
          /\ report \in {"none", "ok", "failed"} /\ runtimes \in Nat

LEMMA RestingType == Resting \in Cleaners
BY DEF Resting, Cleaners

LEMMA CleanupTypes ==
  ASSUME Others, Cleanup
  PROVE  Others'
<1>0. UNCHANGED <<report, runtimes>>
  BY DEF Cleanup
<1>1. CASE \E rollback \in BOOLEAN : CleanupStarts(rollback)
  BY <1>0, <1>1 DEF CleanupStarts, Others, Cleaners
<1>2. CASE \E d \in Dirs, got \in Listings : Scan(d, got)
  <2>1. PICK d \in Dirs, got \in Listings : Scan(d, got)
    BY <1>2
  <2>2. PICK seen \in SUBSET temps :
               \/ cleaner' = Resting
               \/ cleaner' = [cleaner EXCEPT !.scan = @ \ {d}, !.found = @ \cup seen]
               \/ cleaner' = [cleaner EXCEPT !.scan = @ \ {d}, !.found = @ \cup seen,
                                             !.at = "remove"]
    <3> DEFINE seen == IF got = "rows" THEN {t \in temps : DirOf[t.of] = d /\ Candidate(t)}
                       ELSE {}
               next == [cleaner EXCEPT !.scan = @ \ {d}, !.found = @ \cup seen]
    <3>1. seen \in SUBSET temps
      OBVIOUS
    <3>2. cleaner' \in {Resting, next, [next EXCEPT !.at = "remove"]}
      BY <2>1, Zenon DEF Scan
    <3> HIDE DEF seen
    <3>3. [next EXCEPT !.at = "remove"]
            = [cleaner EXCEPT !.scan = @ \ {d}, !.found = @ \cup seen, !.at = "remove"]
      BY DEF Others, Cleaners
    <3> QED  BY <3>1, <3>2, <3>3
  <2>3. temps' = temps
    BY <2>1 DEF Scan
  <2>4. seen \subseteq Leftover /\ cleaner.scan \ {d} \in SUBSET Dirs
    BY <2>2 DEF Others, Cleaners
  <2>5. cleaner' \in Cleaners
    <3>1. CASE cleaner' = Resting
      BY <3>1, RestingType
    <3>2. CASE cleaner' = [cleaner EXCEPT !.scan = @ \ {d}, !.found = @ \cup seen]
      BY <3>2, <2>4 DEF Others, Cleaners
    <3>3. CASE cleaner' = [cleaner EXCEPT !.scan = @ \ {d}, !.found = @ \cup seen,
                                          !.at = "remove"]
      BY <3>3, <2>4 DEF Others, Cleaners
    <3> QED  BY <2>2, <3>1, <3>2, <3>3
  <2> QED  BY <1>0, <2>3, <2>5 DEF Others
<1>3. CASE \E t \in cleaner.found, works \in BOOLEAN : Remove(t, works)
  <2>1. PICK t \in cleaner.found, works \in BOOLEAN : Remove(t, works)
    BY <1>3
  <2>2. temps' \subseteq temps /\ cleaner' \in {Resting, [cleaner EXCEPT !.found = @ \ {t}]}
    BY <2>1 DEF Remove
  <2>3. [cleaner EXCEPT !.found = @ \ {t}] \in Cleaners
    BY DEF Others, Cleaners
  <2> QED  BY <1>0, <2>2, <2>3, RestingType DEF Others
<1>4. CASE CleanupEnds
  BY <1>0, <1>4, RestingType DEF CleanupEnds, Others
<1> QED  BY <1>1, <1>2, <1>3, <1>4 DEF Cleanup, CleanupNext

(* The names a push may leave are of its file and of its time. *)
LEMMA LeftoversType ==
  ASSUME Typed, NEW i \in DOMAIN Entries, NEW result,
         NEW lost, NEW s \in Leaves(live[Entries[i]], result, lost)
  PROVE  Leftovers(i, s) \subseteq Leftover
<1>1. Entries[i] \in Files /\ runs \in Nat /\ i \in Nat
  BY DeployConstants DEF Typed
<1>2. live[Entries[i]] \in Contents
  BY <1>1 DEF Typed
<1>3. s.tmp \in Contents /\ s.bak \in Contents
  BY <1>2 DEF Leaves, Contents
<1> QED  BY <1>1, <1>3 DEF Leftovers, Leftover

LEMMA DeploymentTypes ==
  ASSUME DInv, Others, Deployment
  PROVE  Others'
<1>1. CASE \E i \in DOMAIN Entries, result \in {"ok", "failed"}, lost \in BOOLEAN :
             Push(i, result, lost)
  <2>1. PICK i \in DOMAIN Entries, result \in {"ok", "failed"}, lost \in BOOLEAN :
               Push(i, result, lost)
    BY <1>1
  <2>2. PICK s \in Leaves(live[Entries[i]], result, lost) :
               temps' = temps \cup Leftovers(i, s)
    BY <2>1 DEF Push
  <2>3. Leftovers(i, s) \subseteq Leftover
    BY LeftoversType DEF DInv
  <2> QED  BY <2>1, <2>2, <2>3 DEF Others, Push, AfterPush, Goes, Fails
<1>2. CASE \E selected \in SUBSET Files, mode \in Modes, placeholder, strict, start \in BOOLEAN :
             DeployStarts(PushPlan(selected, mode, placeholder), strict, start)
  BY <1>2 DEF DeployStarts, device, Others
<1>3. CASE (\E ok \in BOOLEAN : MakeDirs(ok)) \/ PushesDone
  BY <1>3 DEF MakeDirs, PushesDone, Goes, Fails, device, Others
<1>4. CASE \E d \in Dirs, got \in Listings : Listing(d, got)
  <2>1. PICK d \in Dirs, got \in Listings : Listing(d, got)
    BY <1>4
  <2>2. report' \in {report, "failed"}
    BY <2>1, Zenon DEF Listing, Goes, Fails
  <2>3. UNCHANGED <<temps, cleaner, runtimes>>
    BY <2>1 DEF Listing, device
  <2> QED  BY <2>2, <2>3 DEF Others
<1>5. CASE \E ok, started \in BOOLEAN : StartRuntime(ok, started)
  <2>1. PICK ok \in BOOLEAN, started \in BOOLEAN : StartRuntime(ok, started)
    BY <1>5
  <2>2. report' \in {report, "failed"} /\ UNCHANGED <<temps, cleaner>>
    BY <2>1 DEF StartRuntime, Goes, Fails, device
  <2>3. runtimes' \in {runtimes, runtimes + 1}
    BY <2>1 DEF StartRuntime
  <2> QED  BY <2>2, <2>3 DEF Others
<1>6. CASE Judge
  BY <1>6 DEF Judge, Fails, device, Others
<1> QED  BY <1>1, <1>2, <1>3, <1>4, <1>5, <1>6 DEF Deployment

(* Every leftover has the file, the kind and the time of a push, the lists  *)
(* of both processes are of directories, entries and leftovers that exist,  *)
(* whatever fails or is killed.                                             *)
THEOREM DTyping == Spec => []DTypeOK
<1>1. Init => Others
  BY RestingType DEF Init, Others
<1>2. DInv /\ Others /\ [Next]_dvars => Others'
  <2>1. Others /\ UNCHANGED dvars => Others'
    BY DEF Others, dvars, device
  <2> QED  BY <2>1, CleanupTypes, DeploymentTypes DEF Next
<1>3. DInv /\ Others => DTypeOK
  BY DEF DInv, Typed, Others, Cleaners, DTypeOK, Contents
<1> QED  BY <1>1, <1>2, <1>3, DInvHolds, PTL DEF Spec
==============================================================================
