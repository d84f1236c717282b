------------------------------ MODULE DevicePush ------------------------------
(***************************************************************************)
(* host_tools/qpy_device_fs_cli.py, run_push_repl: replacing one file of   *)
(* the device over its serial REPL.  The host appends the file to a        *)
(* temporary name in batches of chunks, checks the size when a batch is    *)
(* not confirmed, and commits by renaming the live file to a backup, the   *)
(* temporary file to the live name and removing the backup.                *)
(*                                                                         *)
(* Every exchange with the REPL is one action.  The device may execute     *)
(* some of the lines of a script and not others, and the host may see its  *)
(* echo, an error, nothing, or give up waiting ("raised"), at every        *)
(* exchange and in any combination.  (repl_send_lines sends the whole      *)
(* script again when the port cannot be opened; nothing has been sent by   *)
(* then, so that is part of one exchange.)  A file is the sequence of the  *)
(* chunks in it; the chunks of the file being replaced are zeros.          *)
(***************************************************************************)
EXTENDS Integers, Sequences, PushPromise

CONSTANTS Chunks,     \* chunks of the local file (len(chunk_hex(data)))
          PerBatch,   \* append_batch of select_push_policy
          Retries,    \* batch_retries of select_push_policy
          OldSize     \* size of the live file before the push, 0: there is none

ASSUME PushConstants == /\ Chunks \in Nat /\ PerBatch \in Nat \ {0}
                        /\ Retries \in Nat /\ OldSize \in Nat

VARIABLES dir,         \* device: the files there are, with their content
          pc,          \* host: the exchange that comes next
          written,     \* host: chunks believed written
          attempt,     \* host: retries of this batch, or of the commit
          remoteSize,  \* host: size of the live file in the last answer
          result,      \* host: what the push reports
          lost         \* history: has the size of a file been misread?

vars == <<dir, pc, written, attempt, remoteSize, result, lost>>

Names == {"live", "tmp", "bak"}
Replies == {"echo", "error", "silent", "raised"}

Old == [i \in 1..OldSize |-> 0]
Local == [i \in 1..Chunks |-> i]

\* uos.stat(path)[6], -1 for a path that is missing
Size(n) == IF n \in DOMAIN dir THEN Len(dir[n]) ELSE -1

\* read_remote_size_repl returns -1 for a missing file and for no answer alike;
\* an answer may be read before all of its digits have come
Answers(n) == {Size(n), -1} \cup 1..(Size(n) - 1)
Heard(n, s) == lost' = (lost \/ s # Size(n))

With(d, n, file) == [m \in DOMAIN d \cup {n} |-> IF m = n THEN file ELSE d[m]]
Without(d, n) == [m \in DOMAIN d \ {n} |-> d[m]]
Moved(d, a, b) == Without(With(d, b, d[a]), a)

Init == /\ dir = IF OldSize = 0 THEN [m \in {} |-> Old] ELSE [m \in {"live"} |-> Old]
        /\ pc = "init" /\ written = 0 /\ attempt = 0
        /\ remoteSize = -1 /\ result = "none" /\ lost = FALSE

Ends(r) == /\ pc' = "done" /\ result' = r
           /\ UNCHANGED <<written, attempt, remoteSize>>

Goes(label) == pc' = label /\ UNCHANGED <<written, attempt, remoteSize, result>>

\* the loop over the batches starts, goes on, or has reached the commit
NextBatch(w) == /\ written' = w /\ attempt' = 0
                /\ pc' = IF w = Chunks THEN "commit" ELSE "batch"
                /\ UNCHANGED <<remoteSize, result>>

\* what follows a script whose success marker decides: it is looked for in all
\* of the text read back, and the REPL echoes the line that prints it
AfterReply(r, Confirmed, unsure) ==
    \/ r = "echo" /\ Confirmed
    \/ r \in {"error", "silent"} /\ Goes(unsure)
    \/ r = "raised" /\ Ends("failed")

\* mkdir, remove a temporary file of this name, create it empty.  A line of this
\* script that begins a block leaves the REPL waiting for the rest of it: what
\* follows is echoed, marker included, and not executed
InitScript ==
    /\ pc = "init"
    /\ \E r \in Replies, created \in BOOLEAN :
         /\ dir' = IF created THEN With(dir, "tmp", <<>>) ELSE dir
         /\ AfterReply(r, NextBatch(0), "initSize")
    /\ UNCHANGED lost

InitSize ==
    /\ pc = "initSize"
    /\ \E s \in Answers("tmp") :
         /\ Heard("tmp", s)
         /\ IF s = 0 THEN NextBatch(0) ELSE Ends("failed")
    /\ UNCHANGED dir

\* Mutant: the last batch is counted like a full one
WholeBatch == PerBatch

BatchSize == IF Chunks - written < PerBatch THEN Chunks - written ELSE PerBatch

\* the chunks of the batch whose lines are executed, in order: one that fails
\* does not keep the REPL from going on with the next line
Executed ==
    {s \in UNION {[1..m -> 1..BatchSize] : m \in 0..BatchSize} :
        \A i, j \in DOMAIN s : i < j => s[j] - s[i] >= j - i}

\* a file after those chunks of the batch have been appended to it
Appended(file, s) ==
    [i \in 1..(Len(file) + Len(s)) |->
        IF i <= Len(file) THEN file[i] ELSE written + s[i - Len(file)]]

TmpFile == IF "tmp" \in DOMAIN dir THEN dir["tmp"] ELSE <<>>

\* open(tmp, 'ab'), write the chunks, close, print the marker.  No line of it
\* begins a block, so that a marker without an error is taken for its execution
BatchScript ==
    /\ pc = "batch"
    /\ \E r \in Replies, s \in Executed, opened \in BOOLEAN :
         /\ Len(s) > 0 => opened
         /\ r = "echo" => Len(s) = BatchSize
         /\ dir' = IF opened THEN With(dir, "tmp", Appended(TmpFile, s)) ELSE dir
         /\ AfterReply(r, NextBatch(written + BatchSize), "batchSize")
    /\ UNCHANGED lost

\* Mutant: any size that is answered is taken for the size after the batch
JudgeSkips(s) ==
    \/ s # -1 /\ NextBatch(written + BatchSize)
    \/ s = -1 /\ Ends("failed")

\* Mutant: the retries of a batch are not counted
JudgeForEver(s) ==
    \/ s = written + BatchSize /\ NextBatch(written + BatchSize)
    \/ /\ s \in {-1, written} /\ pc' = "batch"
       /\ UNCHANGED <<attempt, written, remoteSize, result>>
    \/ s \notin {-1, written, written + BatchSize} /\ Ends("failed")

\* a size that is neither before nor after the batch ends the push; before it,
\* or no size at all, has the batch sent again
JudgeBatch(s) ==
    \/ s = written + BatchSize /\ NextBatch(written + BatchSize)
    \/ /\ s \in {-1, written} /\ attempt < Retries
       /\ attempt' = attempt + 1 /\ pc' = "batch"
       /\ UNCHANGED <<written, remoteSize, result>>
    \/ s \in {-1, written} /\ attempt >= Retries /\ Ends("failed")
    \/ s \notin {-1, written, written + BatchSize} /\ Ends("failed")

CheckBatch ==
    /\ pc = "batchSize"
    /\ \E s \in Answers("tmp") : Heard("tmp", s) /\ JudgeBatch(s)
    /\ UNCHANGED dir

\* the four steps of the commit script
BackupDropped(d) == Without(d, "bak")
LiveSetAside(d) == IF "live" \in DOMAIN d THEN Moved(d, "live", "bak") ELSE d
Restored(d) == IF "bak" \in DOMAIN d /\ "live" \notin DOMAIN d
               THEN Moved(d, "bak", "live") ELSE d

\* the directory after each step of the script, and whether rename(tmp, live)
\* works when the temporary file is there
CommitSteps(works) ==
    LET d1 == BackupDropped(dir)
        d2 == LiveSetAside(d1)
        renamed == works /\ "tmp" \in DOMAIN d2
        d3 == IF renamed THEN Moved(d2, "tmp", "live") ELSE Restored(d2)
    IN  [stages |-> {dir, d1, d2, d3},
         last |-> IF renamed THEN BackupDropped(d3) ELSE d3,
         ok |-> renamed]

CommitScript ==
    /\ pc = "commit"
    /\ \E r \in Replies, works \in BOOLEAN :
         LET steps == CommitSteps(works) IN
         /\ dir' \in steps.stages \cup {steps.last}
         /\ r = "echo" => steps.ok /\ dir' = steps.last
         /\ AfterReply(r, IF Len(dir'["live"]) = Chunks THEN Ends("ok")
                                                       ELSE Goes("commitLive"),
                       "commitLive")
    /\ UNCHANGED lost

CommitLive ==
    /\ pc = "commitLive"
    /\ \E s \in Answers("live") : Heard("live", s) /\ remoteSize' = s
    /\ pc' = "commitTmp"
    /\ UNCHANGED <<dir, written, attempt, result>>

\* Mutant: the size of the live file alone decides
DoneBySize(s) == remoteSize = Chunks

CommitDone(s) == remoteSize = Chunks /\ s = -1
CommitAgain(s) == attempt < 2 /\ s = Chunks /\ remoteSize # Chunks

CommitTmp ==
    /\ pc = "commitTmp"
    /\ \E s \in Answers("tmp") :
         /\ Heard("tmp", s)
         /\ \/ CommitDone(s) /\ Ends("ok")
            \/ /\ ~CommitDone(s) /\ CommitAgain(s)
               /\ attempt' = attempt + 1 /\ pc' = "commit"
               /\ UNCHANGED <<written, remoteSize, result>>
            \/ ~CommitDone(s) /\ ~CommitAgain(s) /\ Ends("failed")
    /\ UNCHANGED dir

\* a size query that runs into the timeout of subprocess.run ends the push
QueryRaises ==
    /\ pc \in {"initSize", "batchSize", "commitLive", "commitTmp"}
    /\ Ends("failed")
    /\ UNCHANGED <<dir, lost>>

Next == \/ InitScript \/ InitSize \/ BatchScript \/ CheckBatch
        \/ CommitScript \/ CommitLive \/ CommitTmp \/ QueryRaises

Spec == Init /\ [][Next]_vars /\ WF_vars(Next)

-----------------------------------------------------------------------------
\* Type invariant: the device holds at most the three files of this push, and
\* the host's counters keep their range.
PTypeOK ==
    /\ DOMAIN dir \subseteq Names
    /\ \A n \in DOMAIN dir : dir[n] \in Seq(0..Chunks)
    /\ pc \in {"init", "initSize", "batch", "batchSize", "commit",
               "commitLive", "commitTmp", "done"}
    /\ written \in 0..Chunks /\ attempt \in Nat
    /\ remoteSize \in Nat \cup {-1}
    /\ result \in {"none", "ok", "failed"}
    /\ lost \in BOOLEAN

\* Markers and sizes are all that the host sees.  As long as no size of a file
\* that is there has been misread, they are enough to tell the outcome: a push
\* that reports ok has put exactly the local file in the live place.
OkMeansNew ==
    ~lost /\ result = "ok" => "live" \in DOMAIN dir /\ dir["live"] = Local

\* Whatever scripts fail and wherever the host gives up, the live name never
\* shows a part of a file: it is the old file, the new file, or missing.
LiveNeverTorn == ~lost /\ "live" \in DOMAIN dir => dir["live"] \in {Old, Local}

\* At every moment, between two renames and after a failed commit too, some
\* name on the device holds a whole file, old or new, to recover from.
SomethingWhole ==
    ~lost /\ OldSize > 0 => \E n \in DOMAIN dir : dir[n] \in {Old, Local}

\* A batch whose size is misread may be appended again, but not more often than
\* it is sent: whatever is misread, the temporary file never takes more of the
\* device than the file itself for each of its tries.
UploadBounded == Len(TmpFile) <= Chunks * (Retries + 1)

Content(n) ==
    IF n \notin DOMAIN dir THEN "none"
    ELSE IF dir[n] = Local THEN "new"
    ELSE IF dir[n] = Old /\ n # "tmp" THEN "old"
    ELSE IF Len(dir[n]) = Chunks /\ n = "live" THEN "mixed" ELSE "part"

\* A push keeps, wherever it is and however it ends, what its caller counts on:
\* a whole file under some name, and ok for no other than the new one, as long
\* as no size has been misread; and ok for no missing file then either.
PromiseKept ==
    [live |-> Content("live"), tmp |-> Content("tmp"), bak |-> Content("bak")]
      \in Leaves(IF OldSize = 0 THEN "none" ELSE "old", result, lost)

\* The most exchanges that can still come: a batch takes a script and a size
\* query for each of its tries, a commit a script and two queries for each of
\* three.  Every exchange uses up one of them, so that a push makes no more
\* than 11 + Chunks * PerChunk exchanges, whatever fails.
PerChunk == 2 * Retries + 2
UploadLeft == 9 + (Chunks - written) * PerChunk - 2 * attempt
CommitLeft == 3 * (2 - attempt)
ExchangesLeft ==
    CASE pc = "init" -> UploadLeft + 2
      [] pc = "initSize" -> UploadLeft + 1
      [] pc = "batch" -> UploadLeft
      [] pc = "batchSize" -> UploadLeft - 1
      [] pc = "commit" -> CommitLeft + 3
      [] pc = "commitLive" -> CommitLeft + 2
      [] pc = "commitTmp" -> CommitLeft + 1
      [] OTHER -> 0
\* What is left stays between nothing and the bound.
LeftInRange == ExchangesLeft \in 0..(11 + Chunks * PerChunk)
\* Every step of a push, a repeated one too, uses up an exchange.
ExchangesCountDown == [][ExchangesLeft' < ExchangesLeft]_vars

\* However often exchanges fail, the push comes to an end: no retry is
\* unbounded.
Terminates == <>(pc = "done")
==============================================================================
