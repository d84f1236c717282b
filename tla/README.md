# Verification of the LiteClaw node: models, checks and proofs

This directory holds TLA+ models of lcc-claw-node-qpy: the OpenClaw node that runs
under QuecPython on a modem (`src/usr_mirror/app`) and the host tools that deploy it
(`src/host_tools`). Every definition is translated from the source; `PROJECT.json`
gives, for each, the lines it stands for, and lists components, runs, hazards, mutants
and theorems. Paths below are relative to the repository unless they name a module.

1. [The system](#1-the-system)
2. [Components, state, operations, correctness](#2-components-state-operations-correctness)
3. [The modules](#3-the-modules)
4. [What the runs check and show](#4-what-the-runs-check-and-show)
5. [Bounds](#5-bounds)
6. [Fairness](#6-fairness)
7. [What is proved](#7-what-is-proved)
8. [Where code and documents disagree](#8-where-code-and-documents-disagree)
9. [What is not modelled](#9-what-is-not-modelled)
10. [Plan](#10-plan)

## 1. The system

A device opens a WebSocket session to a Gateway, authenticates with a signature made by
a remote signer, and then executes *invokes* (tool calls) that the Gateway sends,
returning a result for each. Besides results it sends lifecycle events, heartbeats,
telemetry and business alerts. On the other side, a host writes the program's files to
the device over the serial REPL and starts it.

```
 application ── emit_business_alert / queue_agent_request ──┐
                                                            ▼
 Gateway ══ WebSocket ══ WsNativeTransport ── _outbox ── flush_outbox
              │              │  ▲                 ▲
              │   _pending_cmds │ _result_cache   │ send_result
              │              ▼  │                 │
              └──────── agent.run (main loop) ────┘
                             │  ▲
                     submit  ▼  │ poll_result
                        CommandWorker (second thread) ── ToolRunner ── tools

 host: qpy_incremental_deploy ─ qpy_device_fs_cli (push) ══ serial REPL ══ device files
       qpy_tmp_cleanup, qpy_runtime_start, debug snapshot
```

Two threads exist in the node: the main loop and the command worker. A third one (the
REPL, an application thread) may call `queue_agent_request` or `emit_business_alert`;
`tests/test_transport_outbox_race.py` flushes from two threads. `_queue_lock` protects
the outbox, the pending commands and the cache; `CommandWorker` has a lock of its own.
Neither is held during network exchanges or tool calls: all that is hard in the node
happens in these gaps.

## 2. Components, state, operations, correctness

**Agent loop** (`app/agent.py`). State: the place in the iteration, the command or
result in its local variables. An iteration connects when offline (and sleeps a backoff,
or the cool-down of the safe mode, when that fails), ticks, sends the result the worker
finished, receives a command if the worker is free, submits it. Without threads it runs
the tool itself. An exception closes the session and sleeps. *Hard*: a break of the
session at any call. *Correct* when no invoke that was read is lost or answered twice,
the loop never blocks on a tool while it has a worker, and it comes back online by itself.

**Outbox** (`transport_ws_openclaw.py` 137-167, 382-517, 547-654). State: the list of
items with `attempts`, `next_attempt_ms`, `sending`. Operations: enqueue with eviction at
the limit, claim of the head, exchange with the Gateway, completion as success or
failure, retry with backoff, give-up after `MAX_RETRY`. *Hard*: several flushing threads,
enqueues while the head is in flight (even by the thread that waits for its answer, in
`_handle_incoming_frame`), acks that are lost or late, sessions that break in between.
*Correct* when one item is in flight at a time and it is the head, no claim leaks, the
queue is bounded, nothing is overtaken, and everything is settled in the end.

**Command intake and result cache** (105-135, 252-318, 519-573). State: `_pending_cmds`,
`_result_cache` with `_result_cache_keys`. *Hard*: repeated invokes at any moment, the two
limits of the cache, the order of receipt and execution. *Correct* when a result that is
cached belongs to its key and is served instead of an execution, and commands run in order.

**Session** (30-103, 156-167, 656-670, `runtime_state.py`). State: `ws`, `online`, the
counters, close reason and safe mode of `RuntimeState`. *Hard*: failure at each of the
steps of `connect`, close of what is not open, a peer that falls silent. *Correct* when no
socket is forgotten, counters and safe mode agree with what happened, and the node
recovers.

**Command worker** (`app/command_worker.py`). State: `_busy`, `_current_cmd`,
`_last_result`, the thread's local command; `inflight_cmd_id` and `worker_status` in
`RuntimeState`. *Hard*: the interleavings of `can_accept`, `submit`, `poll_result` and the
thread, and the notes made outside the lock. *Correct* when it is a slot for one command
that is executed once and whose result stays until it is polled.

**WebSocket client** (`app/ws_client.py`). State: the socket, its timeout, what has been
read of a frame. *Hard*: a timeout in the middle of a frame, a partial write, control
frames between texts, a stream that is out of step. *Correct* when frames are handled
whole and in order and nothing is taken for a response that is not one, as long as no
frame was cut, no frame follows one that the socket refused to take whole, and every call
returns.

**Tool runner and tools** (`app/tool_runner.py`, `app/tools`). Stateless apart from the
registry; an exception becomes an error result. **Device auth** (`app/device_auth.py`): a
step of `connect`, in which a remote signer may be asked over HTTP, without a timeout.
**Configuration**: constants.

**Device file push** (`host_tools/qpy_device_fs_cli.py`). State: the files on the device
(live, temporary, backup), the batch and the retry of the host. *Hard*: every exchange
over the REPL may execute some lines of its script and not others, may be echoed, refused,
silent or cut off by a timeout, and the host must infer from sizes, which it may misread,
what happened. *Correct* when, as long as no size is misread, the live file is always
whole, something to recover from remains, and ok means that the new file is in place; and
when, whatever is misread, retries end and a push leaves no more than `PushPromise` says.

**Deployment** (`qpy_incremental_deploy.py`). State: the plan and what is left of it; on the
device, the files and what failed pushes left beside them. *Hard*: a failure between two
files, calls that are confirmed without having happened, sizes that do not tell two
versions apart. *Correct* when ok means that every file of the plan has the right size, and
is the new one unless its own push was misled, and the runtime is not started upon half a
plan.

**Temporary file cleanup** (`qpy_tmp_cleanup.py`). State: the list of a scan. *Hard*: the
list is out of date when its entries are removed. *Correct* when no whole version of a
file is lost by it. **Runtime start, debug snapshot**: one call each.

**Soak probe** (`tools/gateway_soak_probe.py`). State: the times at which each command is
due, the summary in memory and on disk, the sample and checkpoint files, and, within a
session, the request that waits and the answers on their way. *Hard*: late answers on the
same connection, the streak of failures that aborts, a stop between two files, an end for
every wait. *Correct* when the figures of the summary are those of the samples, samples
are spaced, a run stops for one of its reasons, no result is that of another request, and a
run ends unless the gateway keeps disturbing one wait for ever.

**Remote signer** (`tools/remote_signer_http.mjs`): identity files. **Sanitize check,
scripts**: single passes.

## 3. The modules

| module | what it models | composition |
|---|---|---|
| `DeliveryQueue` | abstract: what the outbox promises its callers | implemented by `Outbox` |
| `Outbox` | outbox, flushing threads, producers | `MCOutbox` gives model values |
| `CommandSlot` | abstract: a slot for one command | implemented by `CommandWorker` |
| `InvokeService` | abstract: what the node promises the Gateway that sends invokes | implemented by `NodeRuntime` |
| `CommandWorker` | the worker's lock, thread and status notes | `MCCommandWorker` |
| `ResultCache` | the dedupe cache as operators on a record | used by `NodeRuntime` |
| `NodeRuntime` | main loop, intake, pending queue, cache, worker | extends `CommandWorker`, `ResultCache`; `MCNodeRuntime` |
| `Session` | connect, close, waits, counters, safe mode | |
| `WsFraming` | the WebSocket client at the level of pieces of frames, under the calls of the transport | |
| `PushPromise` | abstract: what a push may leave on the device | kept by `DevicePush`, relied on by `Deploy` |
| `DevicePush` | host and device during a push | extends `PushPromise` |
| `TmpCleanup` | scan and removal of leftovers | composed into `Deploy` |
| `Deploy` | deployments one after the other, with cleanups between their pushes | extends `TmpCleanup`, `PushPromise`; `MCDeploy` |
| `ProbeSession` | one session of the soak probe with the gateway | extended by `SoakProbe` |
| `SoakProbe` | schedule, books, abort of a soak; a recovery check | `MCSoakProbe` |
| `*Proofs` | theorems about the module they are named after | |

`NodeRuntime` really contains the worker: its actions are conjunctions of those of
`CommandWorker` with the part of the main loop that calls them. `Outbox` and
`NodeRuntime` meet at `send_result`: there a result becomes an item with an identity in
`Outbox`, and an entry of the history `replies` in `NodeRuntime`. `Session` supplies the
reasons why a session begins and ends; the other two take these as choices, and
`NodeRuntime` takes it that `connect` returns (section 6). `WsFraming`
is what `Outbox` and `NodeRuntime` see as an exchange that works or fails, and a frame
that is read or is not. On the host's side the composition is by a contract: `DevicePush`
is proved to keep `PushPromise`, and a push is one step of `Deploy` that ends in any way
`PushPromise` allows.

**Outbox.** `outbox` is `_outbox`; an item is an identifier because the code compares
items with `is`; `item[i]` holds its fields and two histories (`fate`, `frames`). Each
flushing thread `f` has a place `pc[f]`, the local `item` of `flush_outbox` (`held[f]`)
and a return place. Actions: `FlushCheck`, `Claim` (`_claim_outbox_item`, under the lock),
`Transmit` (`_send_frame`), `HandleFrame` (`_await_response` handles another frame, which
may enqueue), `Answer`, `FinishSuccess`, `FinishFailure` (retry or give-up, under the
lock; a fatal error goes on to `CloseNotify`, `CloseSocket`), `RetryDue` (time passes the
backoff), and the producers `Announce`, `TickHeartbeat`, `TickTelemetry`, `SendResult`,
`ReceiveFrame`, `EmitAlert`. The grain is: what the code does while it holds the lock is
one step, everything else may be interleaved. A frame and its response are matched by
id, so that a late ack is one that is not seen (`Answer`: failed).

**CommandWorker.** `Submit`, `Poll` and the thread's `Take`, `Execute`, `Store` are the
critical sections; `NoteStart`, `NoteCaller`, `NoteFinish`, `NoteThread` the notes to
`RuntimeState` that follow them without the lock. `Execute` is the tool: it ends, or does
not, for nothing limits it.

**NodeRuntime.** `main` names the call of `run()` that comes next. `ReadInvoke(c)` is
`_consume_invoke_request` for a frame read by `recv_cmd` or while a flush awaits its
answer; it answers from the cache, refuses parameters that do not parse, or queues.
`BreakInFlush` and `BreakInRead` end the session where the code can notice it.

**Session.** `main` is the place in `connect` or around it, `link` combines `ws` and
`online`, `sockets` counts what is really open. `ConnectFails` may strike each step, but
for the signature when it is made on the device. `Signed` is the answer of the remote
signer, if there is one (`RemoteSigner`), and may never come. `PeerFails` is the
environment: reset, or silence.

**DevicePush.** `dir` maps the names that exist to their contents, a content being the
sequence of the numbers of its chunks. `BatchScript` executes any of its lines (`Executed`:
a line that raises does not keep the REPL from the next), `CommitScript`, which is one
`exec`, stops after any of its steps, and both answer in any way; `InitSize`, `CheckBatch`,
`CommitLive`, `CommitTmp` are the size queries and what the host concludes. `QueryRaises`
is the timeout of `subprocess.run`, which nothing catches.
`read_remote_size_repl` returns -1 for a missing file and for no answer alike, and takes
the digits there are when the rest of them has not come (`Answers`). `lost` remembers
whether a size was misread in one of these ways. After that, `CheckBatch` may take a batch
that was written for one that was not and have it appended again, so that the commit puts a
torn file in the live place and removes the backup; and a commit that never ran satisfies
`remote_size == expected and tmp_size == -1` (line 620) when the old file has the size of
the new one, and is reported ok. `LiveNeverTorn` therefore ends with the first misread
size; without that condition TLC shows those traces. `PromiseKept` goes on: with
`lost`, ok says that there is a live file, a live file that is not the old one was the
temporary file, and temporary file and backup are not both there beside a live one
(`PushPromise`). So does `UploadBounded`, which the theorems have: batches appended again
never take more than the file for each try.

**WsFraming.** The stream from the peer is a sequence of units, the pieces of its frames;
`got` is what `_read_exact` has so far, `head` the header of the frame whose payload is
read. `ReadSome` takes any number of units that are there; `TimesOut` and `Breaks` may
come before any of them, and drop `got`. A header that is then read from the middle of a
frame is any header (`HeaderRead`). `Request`, `Ping` and `Closes` write, and a write may be
cut; `Raises` is what each caller (`connect`, `recv_cmd`, `_request` under `flush_outbox`)
makes of an exception. Text that is none of the peer's, which only a cut makes possible,
may be JSON with the awaited id (`Answers`), and acknowledges the request then. `FramesInOrder` compares what `recv_text` returned with what the
peer sent in this connection, from the first byte behind the handshake.

**Deploy, TmpCleanup.** `live` and `temps` are the device: what each live name holds ("old",
"new", "mixed" of the right size, "part", "none") and the leftovers of pushes. `DeployStarts` takes the plan that
`build_push_plan` makes for any selection, mode and configuration; `MakeDirs`, `Push`,
`Listing`, `StartRuntime` and `Judge` are the calls in their order, each of which may fail,
be killed by its timeout, or be confirmed by the echo of what was typed. A cleanup
(`CleanupStarts`, `Scan`, `Remove`, `CleanupEnds`) works with what it has listed, whatever
was pushed since. A push may misread a size (`lost` of `PushPromise`); `misread` remembers
of which files, until a push that misreads nothing replaces them, and the properties say
what they still claim of such a file. Two things are assumed: every deployment is of the
same new version, and no step of a cleanup falls within a push:
docs/troubleshooting.md:62 forbids a cleanup beside a deployment, and one that removes the
temporary file of a push under way would make it commit a part.

**ProbeSession, SoakProbe.** A session invokes the commands that are due over one
connection; `ReadsAnswer` drops answers with another id, `TimesOut` and `Breaks` end the
wait as a failed result. `wait` is the timeout of the `recv` in progress, which `request`
sets from its deadline after each text (`GoesOn`, `Event`), and which every other frame,
and every part of one, renews without a look at the deadline (`Noise`). `Kept`, `Books` and `Reschedules` are the writing of a sample file,
of the summary, and of the checkpoint with the new due times, so that `Killed` can come
between any two of them. The clock `now` moves only in a sleep or a wait, in units of the
time a request may take.

## 4. What the runs check and show

| run | properties | shows |
|---|---|---|
| `outbox_race` | `TypeOK`, `ClaimsSound`, `BoundedOutbox`, `NoOvertaking`, `BoundedCopies`, `KeepsPromise` | with two flushing threads, evictions and sessions that break, claims are exclusive and released, order and bounds hold, and `Outbox` implements `DeliveryQueue` |
| `outbox_live` | `EverySettled`, `ResultsEvictedLast` | in the deployed configuration (one flusher, no generic events) every item is settled, and results are the last to be evicted |
| `worker` | `KeepsSlot`, `EveryCommandReturns` | the two threads implement `CommandSlot`, each command comes to its result unless its own tool never ends, and the result is collected |
| `node` | `NTypeOK`, `NoInvokeLost`, `RunsInOrder`, `CacheSound`, `ReplaysAnswered`, `KeepsService`, `LoopKeepsTurning`, `EveryInvokeAnswered` | the command path with its worker, a duplicate and a malformed invoke, and a session that breaks anywhere; to the Gateway it is `InvokeService` |
| `node_inline` | `EveryInvokeAnswered` | the same on firmware without threads, with a cache of one entry |
| `session` | `STypeOK`, `OneSocket`, `CountersAgree`, `SafeModeSound`, `ComesBack` | six troubles in any order, at any step, and a remote signer that may never answer |
| `push` | `PTypeOK`, `LiveNeverTorn`, `PromiseKept`, `Terminates` | a push of four chunks over a file of the same size, with scripts executed in part and sizes misread |
| `framing` | `FramesInOrder`, `AckedIsAnswered`, `HalfFrameIsLast`, `CallsReturn` | reads in pieces of any size, writes that are cut, timeouts and errors anywhere, late responses |
| `deploy` | `NeverLoses`, `OkMeansDeployed`, `NeverStartsMixture` | two deployments of any plan, pushes that fail in any way or misread sizes, cleanups between them |
| `soak` | `BooksMatchFiles`, `Spaced`, `StopsForAReason`, `FreshResults`, `ProbeEnds` | soaks and recovery checks against a gateway that answers late or never, or sends other frames, and a device whose tools change, stopped at any moment |
| `node_duplicate`, `session_silent` | one each | a disagreement of code and documents (section 8) |

Deadlock is checked but in `push`, `framing`, `deploy` and `soak`, which come to an end:
the push or the probe is done, the peer has sent its frames, the deployments are used up.
Every property of a passing run has a mutant, a plausible bug put in the place of a
definition, which breaks it. Mutants are defined in the modules just before the definition
they replace and are named as such.

`LoopKeepsTurning` holds without any assumption on tools: a tool that hangs stops the
worker, not the loop. `NoInvokeLost` is about the way from the frame to the outbox; what
happens to the result there, including its eviction, is the business of `Outbox`, where
`ResultsEvictedLast` says that a result goes only if everything else that could go is a
result too.

## 5. Bounds

* `Outbox`: `OUTBOX_MAX` = 2 and one retry everywhere: one retry gives failure, backoff
  and give-up. Two flushers with three calls of `_enqueue_request` (`outbox_race`) meet
  every conflict of claims and evictions beside an item in flight. One flusher with four calls
  (`outbox_live`): a result is queued after the event that announces the session, so that
  it takes four calls to have a result and something else in the queue when it overflows.
  Four with two flushers leave the reach of TLC. `OUTBOX_MAX` below 2, where a call can
  find nothing to drop (`Refuse`, and the append of a result beside the item in flight),
  is left to the theorems of section 7, which hold for every size and number.
* `CommandWorker`: three commands, so that one runs, one waits and one was polled.
* `NodeRuntime`: four invokes, two with one key, one malformed, window 2 (1 in
  `node_inline`): the window is exceeded, a key leaves the cache. Each invoke is read once.
* `Session`: six troubles, threshold 2: safe mode is entered, left, and entered again. The
  counters are bounded by the troubles, since an attempt ends in a session or a trouble.
* `DevicePush`: four chunks, three a batch, two retries: a full batch, of which lines in
  the middle can be missing, and a shorter last one, a batch that fails to its last retry,
  and one that is appended twice. `OldSize` = `Chunks` is the case in which
  sizes tell least. With no file to replace nothing else happens, and the theorems cover
  it.
* `WsFraming`: two frames of the peer, each of any kind, and two requests in a connection,
  payloads of up to two pieces; at most two units wait when the peer sends another frame.
  That is enough for a late response to meet the next request, for a control frame before
  a text, and for a cut in every place of a frame, with a frame behind it to be misread;
  connections follow one another without end.
* `Deploy`: two files in two directories, one of them the configuration, two deployments;
  the versions of the other file have the same size. The second deployment meets what any
  failure of the first has left. Cleanups are not bounded. `Doubtful` names the files whose
  pushes may misread a size, here the one with two versions of the same size; the theorems
  hold for all files.
* `SoakProbe`: three commands with intervals of one tick, two ticks, and never; two lists
  of tools; three ticks, three samples, two failures in a row, one frame that renews a
  timeout in each session (`MaxNoise`), a checkpoint every second
  sample. A sample may hold one or both of the active commands, and every end of a soak
  (time, samples, failures) is reached.

## 6. Fairness

* `Outbox`, `FairSpec`: weak fairness of each flushing thread and of the main loop (every
  wait in them has a timeout: `ACK_TIMEOUT_MS`, `READ_POLL_MS`), weak fairness of
  `RetryDue` (time passes), strong fairness of `Connected`: a connection tried again and
  again succeeds again and again. Nothing is assumed of acknowledgements: they may all be
  lost. Items are then settled by the retry limit.
* `CommandWorker`, `WFairSpec`: the thread runs, and the loop polls: it does so in every
  iteration in which it is online, which come again and again but may end in between, hence
  strong fairness of `Poll`. Nothing is assumed of `Execute`: a tool may never end, and
  `EveryCommandReturns` says of every other command that it has its result, and of every
  result that it is collected and the worker free again.
* `NodeRuntime`, `LoopSpec`: the loop and the worker's own steps. That tools return is the
  premise `ToolsReturn` of `EveryInvokeAnswered` only. That `connect` returns is taken for
  granted here; `Session` says when it does not.
* `Session`, `FairSpec`: the loop runs, but for the wait for a remote signer, whose HTTP
  request has no timeout (`TimedStep`; device_auth.py:117, 121): `ComesBack` says that the
  node comes back or stays in that wait. Every behaviour of a node that signs by itself is
  one of the run. A Gateway that sends control frames for ever could also keep `connect`,
  and is not among the troubles, as it is not in `WsFraming`. Failures are counted (`MaxTrouble`), hence there
  is a last one, and `ComesBack` speaks of the time after it. `peer` may stay silent for
  ever: a silent session counts as online there, see `session_silent`.
* `DevicePush`: the host goes on; each exchange is limited by its timeout.
* `WsFraming`: what the calls do with what can be read, or their timeout, goes on. The
  peer need not send anything. It may not send control frames for ever: the code looks at
  its deadline only between texts, and `MaxFrames` hides that case.
* `SoakProbe`: the session and the loop go on and time passes (`Tick`). Of the gateway
  nothing is assumed but that it disturbs a session with frames that are no text, or with
  parts of frames, no more than `MaxNoise` times: each renews the timeout, and the probe
  looks at its deadline after texts only (gateway_soak_probe.py:202-235, 252-254).
* `Deploy`: none; only safety is stated.

## 7. What is proved

TLAPS checks these for every value of the constants that satisfies the assumptions named
in the modules (`MainAssumption`, `SizeAssumption`, `CommandAssumption`, `NodeAssumption`,
`SessionAssumption`, `PushConstants`, `FramingConstants`, `DeployConstants`,
`SoakAssumption`), which only state types, that the main thread flushes, and that
`NoTools`, the mark of a sample without a list of tools, is no such list.

* `OutboxProofs`. The inductive invariant `IInv` is `TypeOK /\ Shape`. `BoundedOutbox`
  and `ExclusiveClaim` are not inductive: that an append at the limit does not grow the
  queue for ever rests on the fact that at most one queued item is in flight, and that it
  is the head; that rests on identifiers being ordered in the queue (`QueueShape`) and on
  `sending` being set exactly for held items (`ClaimShape`). One lemma per operation
  (`AppendSafe`, `ReplaceSafe`, `SettleSafe`, `ClaimSafe`, `ReleaseSafe`) keeps `Shape`;
  `Inductive` combines them. `BoundedCopies` rests on a second invariant: the frames of an
  item are no more than its attempts, and one if an attempt is under way, and attempts end
  at `MAX_RETRY`. `ImplementsQueue` maps every step to one of `DeliveryQueue` or a stutter,
  under `IInv`. Theorems: `Typing`, `ClaimsAreExclusive`, `ClaimsAreReleased`, `ClaimsAreSound`,
  `OutboxIsBounded`, `SettlesInOrder`, `CopiesAreBounded`, `ImplementsQueue`,
  `ResultsGoLast`.
* `CommandWorkerProofs`. `WTypeOK` and `OneCommand` are inductive together; from them
  every step of the two threads is one of `CommandSlot` or a stutter: `WTyping`,
  `OneAtATime`, `ImplementsSlot`.
* `NodeRuntimeProofs`. Every step of the node is a step of the worker or leaves it alone
  (`NodeStepsWorker`), so that the worker's lemmas carry over. `NeverInline` needs
  `FreeWhileReceiving`: from the moment the loop found the worker free, only the loop
  itself can change that. `NoInvokeLost` is shown by the moves an invoke makes, one lemma
  each (`ReadKeepsPlaces`, `RecvKeepsPlaces`, `SubmitKeepsPlaces`, `PolledKeepsPlaces`,
  `SendKeepsPlaces`). `RunsInOrder` follows from `Line`: the order of arrival runs through
  the tools that have ended, then the one command between queue and tool (`Unrun`), then
  the queue; a command that is retried with the same key is another invoke, hence once
  each. `CacheSound` follows from `Truth`: every result, wherever it is on its way, is of a
  tool that ran. `ReplaysAnswered` counts: as long as no more tools have ended than the
  window holds, keys in the cache and results not yet sent are no more than those tools
  (`KeepsAll`), so that nothing has left the cache. `NodeKeepsService` maps the node to
  `InvokeService`: what waits there is the queue behind `Unrun`, what has run is the result
  in the worker or in the loop's hands (`Unreplied`). Two lemmas say what a step does to
  each half (`QueueServes`, `UnrepliedMoves`). That they can be joined rests on `Handing`,
  that a result in the loop's hands is the only one; that a replay repeats a reply which
  was really sent rests on `CacheSent` and `Parsed`. Theorems: `NTyping`,
  `LoopNeverRunsTools`, `EveryInvokeInOnePlace`, `CacheStaysBounded`, `ToolsRunInOrder`,
  `CacheTellsTruth`, `AnsweredKeysReplay`, `NodeKeepsService`.
* `SessionProofs`. `SInv` adds `OfflineThere`: which places of the loop are offline, and
  that an online node has no failures to count. Theorems: `STyping`, `NeverTwoSockets`,
  `StatusAddsUp`, `SafeModeIsSound`.
* `WsFramingProofs`. `Places` says which call may be at which part of a frame. With it,
  `Ended`: as long as no retries were spent, a refused write has closed its connection, so
  that nothing can follow. `Framed`: every unit on its way and the header in hand belong to
  a frame the peer has sent in this connection. `FramesInOrder` is not inductive: what has
  been handled says nothing of the unit read next. `InStep` does. It says that the last
  unit read was the unit x of frame k, that the stream holds exactly what comes behind it
  (`Follows`), that the call is between two frames, at a header or inside a payload
  accordingly, and that every frame before was handled as its kind demands (`Answered`).
  One lemma per operation that reads keeps it (`InStepStep` combines them); `ListsMore`
  and `PongsOf` say what one more text or pong does to the lists the property compares.
  `OnlyAnsweredIsAcked` rests on it too: as long as nothing was cut, every text is one of
  the peer's frames, whole, so that what was taken for the response is in the list of texts
  and answers that very request; behind a cut it says nothing, since the code would take
  any text with the id. Theorems: `RefusalEndsConnection`, `OnlyAnsweredIsAcked`,
  `FramesStayInOrder`.
* `DevicePushProofs`. `Core` says for each exchange what is on the device and how it
  relates to what the host believes: during the upload the temporary file is the first
  `written` chunks of the new one, with some of the next batch behind them at most;
  during the commit the temporary file is the whole new one, or it is gone and then the
  live file is the new one. That sizes tell what was appended, although any lines of a
  batch may be missing, is `ExecutedFacts`: only the whole batch, in order, has its
  length. `CommitKeeps` shows `Core` for each step the commit script may stop at.
  Theorems: `NeverTorn`, `AlwaysRecoverable`, `ReportsRight`, each as long as `~lost`.
  Beyond that moment `Loose` still holds: the backup is the old file, and a live file is
  the old one, without a backup beside it, or what the temporary file was; with the
  counters of retries typed by `Counts` this gives `PTyping`, and with `Core` the
  refinement `PushKeepsPromise`. `UploadIsBounded` holds whatever is misread: each try
  of a batch adds at most its size (`Fits`), which takes the bound on the tries
  (`Tries`). `ExchangesAreBounded` is the safety half of `Terminates`: `ExchangesLeft`
  weighs what is to write and the tries in progress, and every step, whatever it meets,
  makes it less (`CountsDown`, one case per handler), so that a push makes at most 11 +
  Chunks * (2 * Retries + 2) exchanges; only that it takes its next step is left to
  fairness.
* `DeployProofs`. `DInv` has four parts, the first and the third about the files whose push
  has misread no size: a live file is whole or missing (`Typed`); the names of a leftover
  are those of no push to come (`Dated`), so that what a cleanup has listed is never a newer
  file; a file that is not there in whole has a whole leftover that the cleanup has not
  listed (`Safe`, `Spared`); what has left the rest of the plan is new, or its push has
  misread a size and left some file (`Pushed`). `Listed` says that what the listings have
  shown, the size of every file, stays true up to the report, since nothing but a push
  changes a live file: that is all `OkIsDeployed` has for a push that was misled. `DTyping` adds the types of what the two processes hold (`Others`). Theorems:
  `DeploymentsLoseNothing`, `OkIsDeployed`, `NoMixtureStarts`, `DTyping`.
* `SoakProbeProofs`. `ResultsAreFresh` rests on ids that are not used twice in a session
  and on `had`, what the device offered since the request went out; `SamplesAreSpaced` on
  the due times being at least the end of the last sample and the interval;
  `ProbeStopsForAReason` on the summary's streak being the number of samples at the end of
  the list that failed. `BooksMatchFiles` compares counters with files: `TallyStep` shows
  that one more line in a file moves a counter by one, and the three parts of the
  invariant are kept apart, that a sample is booked once and every line is a proper one,
  that the sums of the summary balance, and that a checkpoint is written when it is due.
  Theorems: `ResultsAreFresh`, `SamplesAreSpaced`, `ProbeStopsForAReason`, `BooksAddUp`.

Every invariant and every action property of a passing run is a theorem. Only
model-checked: all liveness (`EverySettled`, `EveryCommandReturns`,
`EveryInvokeAnswered`, `LoopKeepsTurning`, `ComesBack`, `Terminates`, `CallsReturn`,
`ProbeEnds`), which is out of the prover's reach.

## 8. Where code and documents disagree

* `node_duplicate`: docs/design/05 says that a repeated command is not executed again;
  only finished commands are looked up, so that a duplicate read while the first waits or
  runs is executed again.
* `session_silent`: unanswered heartbeats never close a session.

Stated in a module and false there, without a run of their own:

* `AlertsSurvive` of `Outbox`: alerts are enqueued as non-critical (transport 445, 487,
  494-500), so that one queued offline is dropped before a lifecycle event that came after
  it; docs/design/05:265 promises that key alerts of an offline period are kept.
* `InflightAtRest` of `CommandWorker`: `submit` notes the command in flight after it
  released the lock (command_worker:66); a tool that ends first leaves the note for ever,
  which docs/validation/72h-soak-P0修复实施记录.md:41 expects to be cleared.
* `SignerWaitEnds` of `Session`: config.py:25 gives the remote signer five seconds
  (`REMOTE_SIGNER_HTTP_TIMEOUT_SEC`), but nothing reads that constant and `request.post` has
  no timeout (device_auth.py:117, 121): a signer that accepts the connection and does not
  answer keeps the node in `connect` for ever.
* `WaitsBeforeReconnect` of `Session`: a session that `flush_outbox` closes (transport 165)
  is dialled again without the backoff of docs/design/02:34 and 50.

Observed while modelling:

* Node: a duplicate answered from the cache carries the `id` of the first request (line
  286 of the transport); a key cached twice loses its result with its first entry on the
  list (526); `connect` overwrites the close reason with "reconnect" (31); `_next_id` counts
  without a lock (533). When the last retry of an item fails with a fatal error,
  `flush_outbox` does not close the session (161-163), although half a frame may be on the
  wire (compare docs/validation/72h-soak故障定位与修复优先级.md:75): hence `spent`.
* WebSocket client: the short timeout of a poll stays on the socket, and a write that runs
  into it raises an error that is taken for a missing ack (transport 656-670): half a frame
  is on the wire, the session stays up, and frames follow it; `HalfFrameIsLast` is about
  writes the socket refuses. What is left of a frame that a timeout has cut is read as
  frames; a text in it that is JSON with the awaited id would acknowledge a request (233).
* Push: a batch that was appended, whose confirmation and whose size are both not seen (-1,
  qpy_device_fs_cli 529), is appended again. The push then fails on the sizes, or, when
  another one is misread, commits a torn file and removes the backup. When the old file has
  the size of the new one, a commit that never ran is reported ok if the size of the
  temporary file is not seen (620); a deployment goes on, and its listings cannot tell.
* Soak probe: `recv_json` gives every `recv` the whole timeout again, and only texts lead
  back to the deadline of `request` (gateway_soak_probe 94-99, 202-235, 252-254): pings, or a
  frame that comes byte by byte, keep it waiting as long as they come.
* Deployment: the repository's `config.py` is pushed in the modes auto and always without
  an override if it holds no placeholder (qpy_incremental_deploy 206-230, against
  docs/design/07, 6.1, rule 2). Verification compares sizes only, and the runtime is
  started whatever it shows. The echo of the listing script holds "[]" and is taken for an
  empty listing (qpy_device_fs_cli 243): a cleanup then finds nothing to do.
* Soak probe: bytes that come with the handshake's headers are dropped, with them perhaps
  the challenge; an error in the event window discards the results of the commands before
  it; an aborted soak returns 0; the summary is written in place and is torn by a kill;
  a second run in the same directory mixes the files of both; with
  `--max-consecutive-failures 0` a soak ends after its first sample.

## 9. What is not modelled

* Payloads, signatures, JSON, log text, masking and length encodings: data that no
  property tells apart.
* Wall-clock time: backoff and cool-down are steps that may take any time, and the wrap of
  `ticks_ms` is not reached.
* Two threads at one socket: in `Outbox` an exchange fails or succeeds as a whole and
  responses are matched by item; `WsFraming` has one thread.
* A crash or restart of the node: it persists nothing; a restart is `Init`. A second
  runtime beside the first: they share only the Gateway, which is not in the repository.
* Tools, configuration, remote signer, sanitize check, scripts and tests, the other actions
  of the file CLI, the one-shot modes of the soak probe: one pass each, no state kept. The
  reasons per component are in `PROJECT.json`.
* In a push, the marker of a batch without an error is taken as proof that the batch ran,
  although the echo of its `print` line contains it. The initialisation, whose script has
  blocks that the REPL may be waiting to complete, may be confirmed by its echo alone, and
  so may every other call that `Deploy` and `TmpCleanup` make.
* In a deployment, different versions from one deployment to the next.
* Control frames that never end, at the node and at the probe: both look at their deadlines
  between texts.

## 10. Plan

Done, in the order of the weight for the behaviour of the system: `DeliveryQueue`,
`Outbox`, `CommandSlot`, `CommandWorker`, `ResultCache`, `NodeRuntime`, `InvokeService`, `Session`,
`DevicePush`, `WsFraming`, `PushPromise`, `TmpCleanup`, `Deploy`, `ProbeSession`,
`SoakProbe`, each with checks and theorems. What could follow:

1. Two threads at one socket: `WsFraming` with a second reader and `_next_id` without its
   lock, as a fault model of `Outbox`.
2. `Ticks`: `ticks_add`, `ticks_diff` and `_outbox_retry_ready` over a small period,
   against a reference with unbounded time.
3. `ToolRunner` (aliases, allow list) and `Signer` (identity files and crashes).
