------------------------------ MODULE SoakProbe ------------------------------
(***************************************************************************)
(* The soak probe (src/tools/gateway_soak_probe.py): run_soak samples a    *)
(* device for days, each command at its own interval, keeps a file per     *)
(* sample and a summary, and gives up after a number of failed samples in  *)
(* a row; run_recovery_check polls one command until it works again.       *)
(* What the two say is what a release is decided on, and a run of 72 hours *)
(* is not repeated to see whether the figures add up.                      *)
(***************************************************************************)
EXTENDS ProbeSession, FiniteSets

CONSTANTS Interval,        \* ticks between two samples of a command, 0: never
          Duration,        \* --duration-sec and --deadline-sec
          Target,          \* --target-ms of a recovery check
          Poll,            \* --poll-sec of a recovery check
          MaxSamples,      \* --max-samples, 0: no limit
          MaxFailures,     \* --max-consecutive-failures
          CheckpointEvery  \* --checkpoint-every-samples

VARIABLES mode,            \* "soak" or "recovery-check"
          at,              \* where the loop is
          next_due,        \* when a command is due again
          samples,         \* the sample files, or the attempts of a check
          summary,         \* the summary in memory
          written,         \* ... and as soak_summary.json holds it
          checkpoints,     \* the checkpoint files, by sample
          verdict          \* what a recovery check reports

ASSUME SoakAssumption ==
    /\ Patience \in Nat /\ MaxNoise \in Nat /\ Duration \in Nat /\ Target \in Nat /\ Poll \in Nat
    /\ MaxSamples \in Nat /\ MaxFailures \in Nat /\ CheckpointEvery \in Nat
    /\ Interval \in [Range(Commands) -> Nat] /\ Runtime \in Range(Commands)
    /\ NoTools \notin Tools

books == <<samples, summary, written, checkpoints, verdict>>
vars == <<now, svars, mode, at, next_due, books>>

Names == Range(Commands)
Zero == [c \in Names |-> 0]
NewSummary ==
    [total |-> 0, successful |-> 0, failed |-> 0, consecutive |-> 0,
     runs |-> Zero, good |-> Zero, bad |-> Zero, breaches |-> Zero,
     baseline |-> NoTools, drift |-> FALSE]
Torn == [NewSummary EXCEPT !.baseline = "torn"]

Init ==
    /\ SInit /\ mode \in {"soak", "recovery-check"} /\ at = "loop"
    /\ next_due = [c \in IF mode = "soak" THEN {n \in Names : Interval[n] > 0}
                                          ELSE {Runtime} |-> 0]
    /\ samples = << >> /\ summary = NewSummary /\ written = NewSummary
    /\ checkpoints = << >> /\ verdict = "none"

-------------------------------------------------------------------------------
(* The loops.                                                              *)

IsDue(c) == c \in DOMAIN next_due /\ next_due[c] <= now
Due == {c \in Names : IsDue(c)}
MayEnd == \/ mode = "soak" /\ MaxSamples > 0 /\ Len(samples) >= MaxSamples
          \/ now >= Duration

Begins ==
    /\ at = "loop" /\ ~MayEnd /\ Due # {}
    /\ at' = "session" /\ Opens(Due)
    /\ UNCHANGED <<now, mode, next_due, books>>

\* The sleep of a recovery check is not cut short by its deadline.
LoopEnds ==
    /\ at = "loop" /\ MayEnd
    /\ mode = "recovery-check" => Due # {}
    /\ at' = "ends"
    /\ verdict' = IF mode = "soak" THEN verdict ELSE "timeout"
    /\ UNCHANGED <<now, svars, mode, next_due, samples, summary, written, checkpoints>>

\* Of the other commands' answers the summary only keeps the last one.
Status == IF session.at = "over" /\ \A r \in Range(session.results) : r.status = "ok"
          THEN "ok" ELSE "failed"
Sample == [commands |-> session.asked, status |-> Status, began |-> session.began, ended |-> now,
           results |-> [i \in DOMAIN session.results |->
               LET r == session.results[i]
               IN  [r EXCEPT !.tools = IF r.command = Catalog THEN @ ELSE NoTools]]]

\* --event-window-sec: of a soak with this command, of every recovery check
Window == Runtime \in session.asked

Kept ==
    /\ at = "session" /\ session.at \in {"over", "failed"}
    /\ samples' = Append(samples, Sample)
    /\ Hangs
    /\ at' = IF mode = "soak" THEN "sampled" ELSE "attempted"
    /\ UNCHANGED <<now, mode, next_due, summary, written, checkpoints, verdict>>

Bump(counts, names) == [c \in Names |-> counts[c] + IF c \in names THEN 1 ELSE 0]
Offered(sample) == {r.tools : r \in {q \in Range(sample.results) : q.status = "ok" /\ q.command = Catalog}}

\* Mutant: a success does not end a streak
KeepsCounting(s, sample) == s.consecutive + IF sample.status = "ok" THEN 0 ELSE 1

Streak(s, sample) == IF sample.status = "ok" THEN 0 ELSE s.consecutive + 1

\* update_soak_summary
Updated(s, sample) ==
    LET rs == Range(sample.results)
    IN  [total |-> s.total + 1,
         successful |-> s.successful + IF sample.status = "ok" THEN 1 ELSE 0,
         failed |-> s.failed + IF sample.status = "ok" THEN 0 ELSE 1,
         consecutive |-> Streak(s, sample),
         runs |-> Bump(s.runs, {r.command : r \in rs}),
         good |-> Bump(s.good, {r.command : r \in {q \in rs : q.status = "ok"}}),
         bad |-> Bump(s.bad, {r.command : r \in {q \in rs : q.status # "ok"}}),
         breaches |-> Bump(s.breaches, {r.command : r \in {q \in rs : q.took > 0}}),
         baseline |-> IF s.baseline = NoTools /\ Offered(sample) # {}
                      THEN CHOOSE t \in Offered(sample) : TRUE ELSE s.baseline,
         drift |-> s.drift \/ (s.baseline # NoTools /\ \E t \in Offered(sample) : t # s.baseline)]

Last == samples[Len(samples)]

Books ==
    /\ at = "sampled" /\ at' = "booked"
    /\ summary' = Updated(summary, Last) /\ written' = summary'
    /\ UNCHANGED <<now, svars, mode, next_due, samples, checkpoints, verdict>>

\* Mutant: from its start
FromItsStart(commands) ==
    [c \in DOMAIN next_due |-> IF c \in commands THEN Last.began + Interval[c] ELSE next_due[c]]

\* The time until a command is due again runs from the end of the sample.
Rescheduled(commands) ==
    [c \in DOMAIN next_due |-> IF c \in commands THEN now + Interval[c] ELSE next_due[c]]

Checkpoint(k) == CheckpointEvery > 0 /\ k % CheckpointEvery = 0

\* Mutant: one failure more
OneMore == summary.consecutive > MaxFailures

GivesUp == summary.consecutive >= MaxFailures

Reschedules ==
    /\ at = "booked"
    /\ checkpoints' = IF Checkpoint(Len(samples)) THEN Append(checkpoints, summary) ELSE checkpoints
    /\ next_due' = Rescheduled(Last.commands)
    /\ at' = IF GivesUp THEN "ends" ELSE "loop"
    /\ UNCHANGED <<now, svars, mode, samples, summary, written, verdict>>

Finishes ==
    /\ at = "ends" /\ at' = "done"
    /\ written' = summary
    /\ UNCHANGED <<now, svars, mode, next_due, samples, summary, checkpoints, verdict>>

Attempted ==
    /\ at = "attempted"
    /\ IF Last.status = "ok"
       THEN /\ verdict' = IF now <= Target THEN "in time" ELSE "late"
            /\ at' = "ends" /\ UNCHANGED next_due
       ELSE /\ next_due' = [next_due EXCEPT ![Runtime] = now + Poll]
            /\ at' = "loop" /\ UNCHANGED verdict
    /\ UNCHANGED <<now, svars, mode, samples, summary, written, checkpoints>>

\* The probe is stopped; a summary that is being written is left in half.  (A
\* sample or checkpoint that is left in half does not count as a file.)
Killed ==
    /\ at \notin {"done", "killed"} /\ at' = "killed"
    /\ written' \in {written} \union (IF at \in {"sampled", "ends"} THEN {Torn} ELSE {})
    /\ Hangs /\ summary' = NewSummary
    /\ UNCHANGED <<now, mode, next_due, samples, checkpoints, verdict>>

\* Time passes in a sleep, and in a call until it is over.
Sleeping == at = "loop" /\ Due = {} /\ (mode = "soak" => ~MayEnd)
Tick ==
    /\ now' = now + 1
    /\ \/ Sleeping
       \/ at = "session" /\ Waiting /\ ~Expired
    /\ UNCHANGED <<svars, mode, at, next_due, books>>

-------------------------------------------------------------------------------

Session ==
    /\ SetUp \/ Invokes \/ ReadsAnswer \/ TimesOut \/ Listens(Window) \/ Observed
    /\ at = "session" /\ UNCHANGED <<mode, at, next_due, books>>
Loop == Begins \/ LoopEnds \/ Kept \/ Books \/ Reschedules \/ Finishes \/ Attempted
World ==
    /\ Breaks \/ DeviceChanges \/ Event \/ Noise \/ (\E id \in pending : Replies(id))
    /\ at = "session" /\ UNCHANGED <<mode, at, next_due, books>>

Next == Session \/ Loop \/ World \/ Killed \/ Tick

Spec == Init /\ [][Next]_vars /\ WF_vars(Session) /\ WF_vars(Loop) /\ WF_vars(Tick)

-------------------------------------------------------------------------------

\* A result that counts as a success holds what the device offered while that
\* request was waiting: an answer that comes late, to an invoke that has timed
\* out on the same connection, is never taken for the answer to the next one.
FreshResults ==
    [][Len(session'.results) > Len(session.results) =>
         LET r == session'.results[Len(session'.results)]
         IN  r.status = "ok" => r.tools \in had]_vars

Ok(i) == samples[i].status = "ok"
Ran(k, P(_)) == [c \in Names |->
    Cardinality({i \in 1..k : \E r \in Range(samples[i].results) : r.command = c /\ P(r)})]

\* What the first k sample files say by themselves.
Tally(k) ==
    LET seen == {i \in 1..k : Offered(samples[i]) # {}}
        first == CHOOSE i \in seen : \A j \in seen : i <= j
    IN  [total |-> k,
         successful |-> Cardinality({i \in 1..k : Ok(i)}),
         failed |-> Cardinality({i \in 1..k : ~Ok(i)}),
         consecutive |-> Cardinality({i \in 1..k : \A j \in i..k : ~Ok(j)}),
         runs |-> Ran(k, LAMBDA r : TRUE), good |-> Ran(k, LAMBDA r : r.status = "ok"),
         bad |-> Ran(k, LAMBDA r : r.status # "ok"), breaches |-> Ran(k, LAMBDA r : r.took > 0),
         baseline |-> IF seen = {} THEN NoTools ELSE CHOOSE t \in Offered(samples[first]) : TRUE,
         drift |-> \E i, j \in seen : Offered(samples[i]) # Offered(samples[j])]

\* At any time, also when the probe is stopped in the middle, the summary on
\* disk says what the sample files say, but for the last file at most, and each
\* checkpoint what the files up to it say.
BooksMatchFiles ==
    /\ written # Torn => /\ mode = "soak" => written.total + 1 >= Len(samples)
                         /\ written = Tally(written.total)
    /\ \A n \in DOMAIN checkpoints : checkpoints[n] = Tally(n * CheckpointEvery)
    /\ mode = "soak" /\ at = "done" => written = Tally(Len(samples))

\* Two samples of a command are its interval apart, however long the sessions
\* take, and a command whose interval is zero is never sampled.
Spaced ==
    mode = "soak" =>
      \A j \in DOMAIN samples : \A c \in samples[j].commands :
        /\ Interval[c] > 0
        /\ \A i \in 1..(j - 1) : c \in samples[i].commands =>
             samples[j].began >= samples[i].ended + Interval[c]

AllFailed(i, k) == \A j \in i..k : ~Ok(j)

\* A soak stops for one of its three reasons and not after more failures in a
\* row than it was told; a recovery check says "in time" only if its last
\* attempt worked and was over by the target, and "timeout" only if none did.
StopsForAReason ==
    LET n == Len(samples)
    IN  /\ \A i \in 1..n : samples[i].began < Duration
        /\ mode = "soak" => /\ \A k \in 1..(n - 1) : k >= MaxFailures => ~AllFailed(k - MaxFailures + 1, k)
                            /\ at \in {"ends", "done"} =>
                                 \/ n >= MaxFailures /\ AllFailed(n - MaxFailures + 1, n)
                                 \/ MayEnd
        /\ verdict = "in time" => n > 0 /\ Ok(n) /\ samples[n].ended <= Target
        /\ verdict = "timeout" => now >= Duration /\ \A i \in 1..n : ~Ok(i)

\* A soak and a recovery check end, whatever the gateway answers or does not, as
\* long as it does not go on for ever with other frames or parts of one: these
\* renew the timeout of a request whose deadline has passed (MaxNoise).
ProbeEnds == <>(at \in {"done", "killed"})

===============================================================================
