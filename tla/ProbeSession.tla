----------------------------- MODULE ProbeSession -----------------------------
(***************************************************************************)
(* One session of the soak probe with the gateway (run_command_session):   *)
(* connect, list the nodes, invoke the commands that are due one after the *)
(* other over one connection, then listen for events.  A request waits for *)
(* the answer that has its id; an invoke that fails is a failed result and *)
(* the session goes on, anything else that fails is a failed session       *)
(* without results.                                                        *)
(*                                                                         *)
(* One tick of `now` is about the time a request may wait.                 *)
(***************************************************************************)
EXTENDS Naturals, Sequences, Functions

CONSTANTS Commands,     \* DEFAULT_COMMANDS, in order
          Tools,        \* the lists of tools a device may offer
          Runtime,      \* qpy.runtime.status, which opens the event window
          Catalog,      \* qpy.tools.catalog, whose answer is a list of tools
          Patience,     \* ticks a request or the event window is given
          MaxNoise      \* bound: other frames, or parts of one, in a session

VARIABLES now,          \* the probe's clock
          tools,        \* what the device offers
          had,          \* ... at any time since the request that is waiting
          session,      \* run_command_session: its step, results and socket
          pending,      \* ids of requests the gateway has not answered
          inbox,        \* answers on the way to the probe, in order
          wait          \* the recv_json in progress: its timeout, when that is over

svars == <<tools, had, session, pending, inbox, wait>>

NoTools == "no tools"
NoCommand == "no command"
Closed == [at |-> "off", asked |-> {}, todo |-> {}, command |-> NoCommand, results |-> << >>,
           sock |-> "none", began |-> 0, since |-> 0, id |-> 0]
NoWait == [span |-> 0, until |-> 0, noise |-> 0]

SInit == /\ now = 0 /\ tools \in Tools /\ had = {tools}
         /\ session = Closed /\ pending = {} /\ inbox = << >> /\ wait = NoWait

\* A call waits for as long as it is given; what has disturbed it is counted.
WaitsFrom(noise) == wait' = [span |-> Patience, until |-> now + Patience, noise |-> noise]
WaitIsOver == wait' = [NoWait EXCEPT !.noise = wait.noise]
Deadline == session.since + Patience

Opens(commands) ==
    /\ session' = [Closed EXCEPT !.at = "setup", !.asked = commands, !.todo = commands,
                                 !.sock = "open", !.began = now, !.since = now]
    /\ pending' = {} /\ inbox' = << >> /\ WaitsFrom(0) /\ UNCHANGED <<tools, had>>

\* connect, connect_operator, node.list and select_node: any of them may fail.
SetUp ==
    /\ session.at = "setup"
    /\ \E to \in {"next", "failed"} : session' = [session EXCEPT !.at = to]
    /\ WaitIsOver
    /\ UNCHANGED <<now, tools, had, pending, inbox>>

IsNext(c) == c \in session.todo /\ \E i \in DOMAIN Commands :
                 Commands[i] = c /\ \A j \in 1..(i - 1) : Commands[j] \notin session.todo

\* invoke_with_timing, as far as the request goes out.
Invokes ==
    /\ session.at = "next"
    /\ \E c \in session.todo :
          /\ IsNext(c)
          /\ session' = [session EXCEPT !.at = "awaits", !.since = now, !.id = @ + 1,
                                        !.command = c, !.todo = @ \ {c}]
    /\ pending' = IF session.sock = "broken" THEN pending ELSE pending \union {session.id + 1}
    /\ had' = {tools} /\ WaitsFrom(wait.noise)
    /\ UNCHANGED <<now, tools, inbox>>

Result(status, list) ==
    [command |-> session.command, status |-> status, tools |-> list, took |-> now - session.since]
Ends(result, sock) ==
    /\ session' = [session EXCEPT !.at = "next", !.command = NoCommand, !.sock = sock,
                                  !.results = Append(@, result)]
    /\ had' = {tools} /\ WaitIsOver

\* settimeout: how long the recv in progress waits, which is not the deadline.
Expired == now >= wait.until

\* Mutant: the first answer that is read is taken
AnyAnswer(answer) == TRUE

Matches(answer) == answer.id = session.id

\* request looks at its deadline after a text, and only then; with the time that
\* is left it waits for the next one.
GoesOn ==
    IF now >= Deadline
    THEN Ends(Result("failed", NoTools), session.sock)
    ELSE /\ wait' = [wait EXCEPT !.span = Deadline - now, !.until = Deadline]
         /\ UNCHANGED <<session, had>>

\* An answer to an earlier request is dropped, one that comes late is taken.
ReadsAnswer ==
    /\ session.at = "awaits" /\ session.sock = "open" /\ inbox # << >>
    /\ inbox' = Tail(inbox)
    /\ IF Matches(Head(inbox))
       THEN Ends(Result(Head(inbox).status, Head(inbox).tools), session.sock)
       ELSE GoesOn
    /\ UNCHANGED <<now, tools, pending>>

\* Mutant: a recv that times out is called again, with the time that is left
ReadsOn ==
    /\ session.at = "awaits" /\ Expired
    /\ wait' = [wait EXCEPT !.span = 0, !.until = now]
    /\ UNCHANGED <<now, tools, had, session, pending, inbox>>

\* A wait that ends inside a frame leaves a stream that is read no more.
TimesOut ==
    /\ session.at = "awaits" /\ Expired
    /\ \E sock \in {session.sock} \union (IF session.sock = "open" THEN {"torn"} ELSE {}) :
          Ends(Result("failed", NoTools), sock)
    /\ UNCHANGED <<now, tools, pending, inbox>>

Breaks ==
    /\ session.at = "awaits"
    /\ Ends(Result("failed", NoTools), "broken")
    /\ UNCHANGED <<now, tools, pending, inbox>>

\* close: what was still on its way is lost with the connection.
Hangs == /\ session' = Closed /\ pending' = {} /\ inbox' = << >> /\ had' = {tools}
         /\ wait' = NoWait /\ UNCHANGED tools

\* observe_events with a window of zero only hands over what was buffered.
Listens(window) ==
    /\ session.at = "next" /\ session.todo = {}
    /\ session' = [session EXCEPT !.at = IF window THEN "observes" ELSE "over", !.since = now]
    /\ WaitsFrom(wait.noise)
    /\ UNCHANGED <<now, tools, had, pending, inbox>>

\* An error in the window loses the results the commands have had.
Observed ==
    /\ session.at = "observes"
    /\ \/ /\ session.sock # "broken"
          /\ session' = [session EXCEPT !.at = "over"]
       \/ session' = [session EXCEPT !.at = "failed", !.results = << >>]
    /\ WaitIsOver
    /\ UNCHANGED <<now, tools, had, pending, inbox>>

\* The gateway answers when it likes, in any order; what it says is true then.
Replies(id) ==
    /\ id \in pending
    /\ \/ inbox' = Append(inbox, [id |-> id, status |-> "ok", tools |-> tools])
       \/ inbox' = Append(inbox, [id |-> id, status |-> "failed", tools |-> NoTools])
    /\ pending' = pending \ {id}
    /\ UNCHANGED <<now, tools, had, session, wait>>

DeviceChanges ==
    /\ tools' \in Tools \ {tools}
    /\ had' = {tools'} \union IF session.at = "awaits" THEN had ELSE {}
    /\ UNCHANGED <<now, session, pending, inbox, wait>>

Waiting == session.at \in {"setup", "awaits", "observes"}

\* The gateway sends a text that answers nothing, an event.
Event ==
    /\ session.at = "awaits" /\ session.sock = "open"
    /\ GoesOn
    /\ UNCHANGED <<now, tools, pending, inbox>>

\* A frame that is no text, a ping among them, or a part of any frame: the recv
\* that follows has its whole timeout again, and nothing looks at the deadline.
Noise ==
    /\ Waiting /\ session.sock = "open" /\ wait.noise < MaxNoise
    /\ wait' = [wait EXCEPT !.until = now + wait.span, !.noise = @ + 1]
    /\ UNCHANGED <<now, tools, had, session, pending, inbox>>

===============================================================================
