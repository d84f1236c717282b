----------------------------- MODULE PushPromise -----------------------------
(***************************************************************************)
(* What a push of host_tools/qpy_device_fs_cli.py promises to whoever      *)
(* calls it: what it may leave under the live name, under its own          *)
(* temporary name and under its own backup name (both names hold the time  *)
(* of the push, so that no two pushes share them).  DevicePush keeps it,   *)
(* Deploy relies on it.                                                    *)
(***************************************************************************)

\* "none": no such file; "old", "new": the version before or of the
\* deployment, whole; "mixed": neither, with the size of the new one under the
\* live name; "part": anything else
Contents == {"none", "old", "new", "mixed", "part"}
Complete == {"old", "new"}

(* was: what the live name held; lost: has the push misread a size, as that *)
(* of a missing file or with digits cut off.  Then a batch may have been   *)
(* appended twice, or a commit that never ran be taken for one that did:   *)
(* ok says no more than that there was a live file.  Either way a live     *)
(* file that is not the one before was the temporary file, and a backup    *)
(* was the live file.  A push that was killed has failed.                  *)
Leaves(was, result, lost) ==
  {s \in [live : {"none", was, "new", "mixed", "part"}, tmp : {"none", "new", "part"},
          bak : {"none", was}] :
    /\ s.live \notin {was, "none"} => s.tmp = "none"
    /\ s.live # "none" => s.tmp = "none" \/ s.bak = "none"
    /\ result = "ok" => \/ s.live = "new" /\ s.tmp = "none"
                        \/ lost /\ s.live # "none"
    /\ ~lost =>
         /\ s.live \in {was, "new", "none"}
         /\ s.live = "none" => s.bak = was \/ s.tmp = "new"}
==============================================================================
