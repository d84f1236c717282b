------------------------------- MODULE Session -------------------------------
(***************************************************************************)
(* The life of a Gateway session: WsNativeTransport.connect and close, the *)
(* part of agent.run that decides when to connect and how long to wait,    *)
(* and what RuntimeState records of it for the operators.                  *)
(*                                                                         *)
(* The network, the signer and the Gateway may fail a connection at every  *)
(* step, reset it, or fall silent without closing it, MaxTrouble times in  *)
(* all; and the signer may never answer at all.                            *)
(***************************************************************************)
EXTENDS Naturals

CONSTANTS
  SafeModeOn,   \* config.SAFE_MODE
  Threshold,    \* config.SAFE_MODE_FAILURE_THRESHOLD
  RemoteSigner, \* OPENCLAW_DEVICE_AUTH_MODE is remote_signer_http
  MaxTrouble    \* bound: how often the environment misbehaves

ASSUME SessionAssumption ==
  /\ SafeModeOn \in BOOLEAN
  /\ Threshold \in Nat \ {0}
  /\ RemoteSigner \in BOOLEAN
  /\ MaxTrouble \in Nat

VARIABLES
  main,         \* where the loop is, inside connect or around it
  rest,         \* how long it sleeps: RECONNECT_BACKOFF_SEC or SAFE_MODE_COOLDOWN_SEC
  link,         \* "closed": ws is None; "open": there is a ws; "online": and online
  sockets,      \* the sockets that are open
  peer,         \* the other end of the current socket
  noted,        \* RuntimeState.online
  failures,     \* consecutive_failures
  mode,         \* "safe" when safe_mode is set
  attempts, successes, reconnects,
  reason,       \* last_close_reason
  trouble       \* history: how often the environment misbehaved

connection == <<link, sockets, peer>>
counters == <<attempts, successes, reconnects>>
svars == <<main, rest, connection, noted, failures, mode, counters, reason, trouble>>

Reasons == {"none", "reconnect", "connect-failed", "outbox-failed", "loop-error"}
ConnectSteps == {"dial", "challenge", "secure", "request"}

Init ==
  /\ main = "top"
  /\ rest = "none"
  /\ link = "closed" /\ sockets = 0 /\ peer = "alive"
  /\ noted = "offline"
  /\ failures = 0 /\ mode = "normal"
  /\ attempts = 0 /\ successes = 0 /\ reconnects = 0
  /\ reason = "none"
  /\ trouble = 0

-----------------------------------------------------------------------------
(* close: the reason is noted, the socket closed, and a session that was   *)
(* noted online is counted as one to reconnect.                            *)

(* Mutants: only a session that is online closes its socket; a socket is   *)
(* closed though there is none.                                            *)
ClosedIfOnline ==
  link' = "closed" /\ sockets' = IF link = "online" THEN sockets - 1 ELSE sockets
ClosedAnyway == link' = "closed" /\ sockets' = sockets - 1

SocketClosed ==
  link' = "closed" /\ sockets' = IF link = "closed" THEN sockets ELSE sockets - 1

(* Mutant: every close counts as a reconnection. *)
AlwaysCounted == reconnects' = reconnects + 1

Disconnected ==
  reconnects' = IF noted = "online" THEN reconnects + 1 ELSE reconnects

Close(why) ==
  /\ reason' = why
  /\ SocketClosed
  /\ Disconnected
  /\ noted' = "offline"
  /\ UNCHANGED peer

-----------------------------------------------------------------------------
(* connect *)

BeginConnect ==
  /\ main = "top" /\ link # "online"
  /\ Close("reconnect")
  /\ attempts' = attempts + 1
  /\ main' = "dial"
  /\ UNCHANGED <<rest, failures, mode, successes, trouble>>

Dial ==
  /\ main = "dial"
  /\ link' = "open"
  /\ sockets' = sockets + 1
  /\ peer' = "alive"
  /\ main' = "challenge"
  /\ UNCHANGED <<rest, noted, failures, mode, counters, reason, trouble>>

Challenged ==
  /\ main = "challenge" /\ peer = "alive"
  /\ main' = "secure"
  /\ UNCHANGED <<rest, connection, noted, failures, mode, counters, reason, trouble>>

(* resolve_connect_security: the remote signer, if there is one, has       *)
(* answered.  The Gateway has no part in it, and nothing limits its time:  *)
(* request.post is called without a timeout.                               *)
Signed ==
  /\ main = "secure"
  /\ main' = "request"
  /\ UNCHANGED <<rest, connection, noted, failures, mode, counters, reason, trouble>>

Accepted ==
  /\ main = "request" /\ peer = "alive"
  /\ link' = "online"
  /\ noted' = "online"
  /\ successes' = successes + 1
  /\ failures' = 0
  /\ mode' = "normal"
  /\ main' = "iterate"
  /\ UNCHANGED <<rest, sockets, peer, attempts, reconnects, reason, trouble>>

(* Mutant: safe mode starts one failure late. *)
SafeOneLate == mode' = IF SafeModeOn /\ failures' > Threshold THEN "safe" ELSE mode

SafeModeSet == mode' = IF SafeModeOn /\ failures' >= Threshold THEN "safe" ELSE mode

(* note_connect_failure comes before close, so that a failed attempt is    *)
(* not counted as a reconnection; then the loop chooses how long to wait.  *)
ConnectFails ==
  /\ main \in ConnectSteps
  /\ main = "secure" => RemoteSigner
  /\ IF peer = "alive" \/ main \in {"dial", "secure"}
       THEN trouble < MaxTrouble /\ trouble' = trouble + 1
       ELSE UNCHANGED trouble
  /\ failures' = failures + 1
  /\ SafeModeSet
  /\ reason' = "connect-failed"
  /\ SocketClosed
  /\ noted' = "offline"
  /\ main' = "rest"
  /\ rest' = IF mode' = "safe" THEN "cooldown" ELSE "backoff"
  /\ UNCHANGED <<peer, counters>>

-----------------------------------------------------------------------------
(* agent.run, around connect. *)

TopOnline ==
  /\ main = "top" /\ link = "online"
  /\ main' = "iterate"
  /\ UNCHANGED <<rest, connection, noted, failures, mode, counters, reason, trouble>>

Broken == link = "online" /\ peer = "reset"

(* flush_outbox, in connect, tick or send_result: a fatal error closes the *)
(* session and the iteration goes on; an ack that does not come does not.  *)
FlushFails ==
  /\ main = "iterate" /\ Broken
  /\ Close("outbox-failed")
  /\ UNCHANGED <<main, rest, failures, mode, attempts, successes, trouble>>

(* Mutant: the loop's handler closes nothing. *)
NothingClosed == UNCHANGED <<connection, noted, reason, reconnects>>

LoopCloses == Close("loop-error")

(* recv_cmd raises. *)
ReceiveFails ==
  /\ main = "iterate" /\ Broken
  /\ LoopCloses
  /\ main' = "rest"
  /\ rest' = "backoff"
  /\ UNCHANGED <<failures, mode, attempts, successes, trouble>>

EndIteration ==
  /\ main = "iterate" /\ ~Broken
  /\ main' = "top"
  /\ UNCHANGED <<rest, connection, noted, failures, mode, counters, reason, trouble>>

Wake ==
  /\ main = "rest"
  /\ main' = "top"
  /\ rest' = "none"
  /\ UNCHANGED <<connection, noted, failures, mode, counters, reason, trouble>>

(* The network or the Gateway resets the connection, or just goes silent;  *)
(* a silent peer may still reset it later.                                 *)
PeerFails ==
  /\ link # "closed" /\ trouble < MaxTrouble
  /\ \/ peer = "alive" /\ peer' \in {"silent", "reset"}
     \/ peer = "silent" /\ peer' = "reset"
  /\ trouble' = trouble + 1
  /\ UNCHANGED <<main, rest, link, sockets, noted, failures, mode, counters, reason>>

LoopStep ==
  \/ BeginConnect \/ Dial \/ Challenged \/ Signed \/ Accepted
  \/ (ConnectFails /\ UNCHANGED trouble)
  \/ TopOnline \/ FlushFails \/ ReceiveFails \/ EndIteration
  \/ Wake

Next == LoopStep \/ ConnectFails \/ PeerFails

Spec == Init /\ [][Next]_svars

(* The loop runs: every wait and every read of it is timed, but for the    *)
(* wait for a remote signer.  (Reads are timed between texts: a Gateway    *)
(* that sends control frames for ever is not among the troubles here, as   *)
(* it is not in WsFraming.)                                                *)
TimedStep == LoopStep /\ (main = "secure" => ~RemoteSigner)

FairSpec == Spec /\ WF_svars(TimedStep)

-----------------------------------------------------------------------------
STypeOK ==
  /\ main \in ConnectSteps \cup {"top", "iterate", "rest"}
  /\ rest \in {"none", "backoff", "cooldown"}
  /\ rest # "none" <=> main = "rest"
  /\ link \in {"closed", "open", "online"}
  /\ sockets \in Nat
  /\ peer \in {"alive", "silent", "reset"}
  /\ noted \in {"offline", "online"}
  /\ mode \in {"normal", "safe"}
  /\ failures \in Nat /\ attempts \in Nat /\ successes \in Nat /\ reconnects \in Nat
  /\ reason \in Reasons
  /\ trouble \in 0..MaxTrouble

(* The node never holds a socket it forgot: wherever a connection fails,   *)
(* the one that was open is closed before the next is dialled.             *)
OneSocket ==
  /\ sockets = IF link = "closed" THEN 0 ELSE 1
  /\ main \in {"rest", "dial"} => link = "closed"

(* What runtime.status reports adds up: every attempt has succeeded, has   *)
(* failed or is running, and every session that ended is a reconnection.   *)
CountersAgree ==
  /\ noted = "online" <=> link = "online"
  /\ successes = reconnects + (IF noted = "online" THEN 1 ELSE 0)
  /\ attempts >= successes + failures + (IF main \in ConnectSteps THEN 1 ELSE 0)

(* Safe mode holds exactly from Threshold consecutive failures to the next *)
(* success, and then the loop waits for the cool-down.                     *)
SafeModeSound ==
  /\ mode = "safe" <=> SafeModeOn /\ failures >= Threshold
  /\ main = "rest" => (rest = "cooldown" <=> mode = "safe")

(* When the environment no longer misbehaves, the node is online for good, *)
(* unless a remote signer keeps it waiting for ever.                       *)
StuckInSigner == RemoteSigner /\ main = "secure"
ComesBack == <>[](link = "online" /\ peer # "reset") \/ <>[]StuckInSigner

(* docs/design/02: RUNNING goes to RETRY_WAIT when it is disconnected, and *)
(* from there to CONNECTING, so that it waits before it connects again;    *)
(* the code does not keep this, and no run asks for it.                    *)
WaitsBeforeReconnect == [][BeginConnect => reason # "outbox-failed"]_svars

(* config.py, REMOTE_SIGNER_HTTP_TIMEOUT_SEC: a signature is waited for    *)
(* five seconds; nothing reads that constant, the code does not keep this, *)
(* and no run asks for it.                                                 *)
SignerWaitEnds == main = "secure" ~> main # "secure"

(* docs/design/02: a heartbeat that times out closes the link.             *)
Deaf == link = "online" /\ peer = "silent"
SilentPeerDropped == Deaf ~> ~Deaf
=============================================================================
