------------------------------ MODULE TmpCleanup ------------------------------
(***************************************************************************)
(* host_tools/qpy_tmp_cleanup.py --apply: one process that lists           *)
(* directories of the device, pairs every temporary file and backup it     *)
(* finds with a live file of the same listing, and removes those that have *)
(* one.  It goes by what it has listed, whatever other tools do to the     *)
(* device since.  (Without --apply, and after a listing that has failed,   *)
(* it only reports.)                                                       *)
(***************************************************************************)
EXTENDS Naturals

CONSTANTS Files,   \* the files of the runtime, by their live names
          DirOf    \* the directory of each

VARIABLES live,    \* device: what each live name holds
          temps,   \* device: leftovers [of, kind, push, holds] beside them
          cleaner  \* the process: [at, scan, found, rollback]

Dirs == {DirOf[f] : f \in Files}
Resting == [at |-> "idle", scan |-> {}, found |-> {}, rollback |-> FALSE]

CleanupStarts(rollback) ==
  /\ cleaner.at = "idle"
  /\ cleaner' = [at |-> "scan", scan |-> Dirs, found |-> {}, rollback |-> rollback]
  /\ UNCHANGED <<live, temps>>

(* Mutant: a leftover without a live file is taken for rubbish like others. *)
AnyLeftover(t) == t.kind = "tmp" \/ cleaner.rollback

(* summarize_scan_rows *)
Candidate(t) == /\ t.kind = "bak" => cleaner.rollback
                /\ live[t.of] # "none"

Listings == {"rows", "empty", "failed"}

\* "empty": the rows did not come
\* back, but the echo of the script did; it holds "[]", which is taken for them.
Scan(d, got) ==
  /\ cleaner.at = "scan" /\ d \in cleaner.scan
  /\ LET seen == IF got = "rows" THEN {t \in temps : DirOf[t.of] = d /\ Candidate(t)} ELSE {}
         next == [cleaner EXCEPT !.scan = @ \ {d},
                                 !.found = @ \cup seen]
     IN  cleaner' = IF got = "failed" THEN Resting
                    ELSE IF next.scan # {} THEN next
                    ELSE IF next.found # {} THEN [next EXCEPT !.at = "remove"]
                    ELSE Resting
  /\ UNCHANGED <<live, temps>>

\* What is confirmed is the echo of a line (run_repl_op), not the removal;
\* either way the next candidate follows.
Remove(t, works) ==
  /\ cleaner.at = "remove" /\ t \in cleaner.found
  /\ temps' = IF works THEN temps \ {t} ELSE temps
  /\ cleaner' = IF cleaner.found = {t} THEN Resting ELSE [cleaner EXCEPT !.found = @ \ {t}]
  /\ UNCHANGED live

\* subprocess.run raises when its time is over.
CleanupEnds ==
  /\ cleaner.at = "scan" \/ cleaner.at = "remove"
  /\ cleaner' = Resting
  /\ UNCHANGED <<live, temps>>

CleanupNext ==
  \/ \E rollback \in BOOLEAN : CleanupStarts(rollback)
  \/ \E d \in Dirs, got \in Listings : Scan(d, got)
  \/ \E t \in cleaner.found, works \in BOOLEAN : Remove(t, works)
  \/ CleanupEnds
==============================================================================
