------------------------------ MODULE WsFraming ------------------------------
(***************************************************************************)
(* app/ws_client.py below app/transport_ws_openclaw.py: how one thread     *)
(* reads frames out of a stream of bytes, and writes them into one.        *)
(*                                                                         *)
(* The stream is a sequence of units <<f, i>>, the i-th piece of frame f:  *)
(* pieces 1 and 2 are the header (opcode, length and mask, which           *)
(* _read_frame fetches with several _read_exact), the others the payload.  *)
(* Frame 0 is the answer to the handshake.  A timeout of the socket may    *)
(* come between any two reads; what _read_exact has by then is dropped,    *)
(* and the next header is read in the middle of a frame: it is then any    *)
(* header.  A write may be cut at any byte, by a socket that takes no more *)
(* ("refused": WsClosed) or by one that raises ("raised": OSError).        *)
(***************************************************************************)
EXTENDS Integers, Sequences

CONSTANTS MaxFrames,    \* bound: frames the peer sends in a connection
          MaxRequests,  \* bound: requests the node sends in a connection
          MaxLen,       \* bound: pieces of a payload
          MaxUnread     \* bound: units that may wait when the peer sends another frame

ASSUME FramingConstants ==
  MaxFrames \in Nat /\ MaxRequests \in Nat /\ MaxLen \in Nat \ {0} /\ MaxUnread \in Nat

VARIABLES
  open,      \* "no", "handshake" (a socket of connect only), "yes"
  call,      \* "none", "connect", "recv_cmd", or "request", which awaits its response
  part,      \* what _read_exact fetches: "line", "header", "payload"
  got,       \* its chunks
  head,      \* the header that was read, and of which frame (0: of none)
  stream,    \* the units that come from the peer and have not been read
  ended,     \* has a read met the end of the stream?
  frames,    \* what the peer sent in this connection
  out,       \* what the node sent in this connection, and how each write ended
  texts,     \* history: frames returned by recv_text (0: no frame) before a cut
  acked,     \* history: requests whose response was found
  cut,       \* history: has an exception dropped a part of a frame?
  spent      \* history: has a fatal error ended the last retry of a request?

reader == <<call, part, got, head>>
wire == <<stream, ended, frames>>
fvars == <<open, reader, wire, out, texts, acked, cut, spent>>

\* "more": a frame without FIN, or of an opcode that is not supported
Ops == {"text", "ping", "pong", "close", "more"}
Ends == {"whole", "refused", "raised"}
NoHead == [of |-> 0, op |-> "more", len |-> 0]

Body(f) == [i \in 1..frames[f].len |-> <<f, i + 2>>]
Sent(op) == {i \in DOMAIN out : out[i].op = op}
Requests == Len(SelectSeq(out, LAMBDA w : w.op = "request"))
\* A half frame makes whatever follows it unreadable for the peer.
PeerReads(i) == \A j \in 1..i : out[j].end = "whole"

Init ==
  /\ open = "no" /\ call = "none" /\ part = "line" /\ got = <<>> /\ head = NoHead
  /\ stream = <<>> /\ ended = FALSE /\ frames = <<>> /\ out = <<>>
  /\ texts = <<>> /\ acked = {} /\ cut = FALSE /\ spent = FALSE

-----------------------------------------------------------------------------
(* The peer. *)

PeerSends(op, len, res) ==
  /\ open # "no" /\ ~ended
  /\ Len(frames) < MaxFrames /\ Len(stream) <= MaxUnread
  /\ op = "text" \/ res = 0
  /\ op = "ping" \/ len = MaxLen
  /\ res # 0 => \E i \in Sent("request") : out[i].id = res /\ PeerReads(i)
  /\ frames' = Append(frames, [op |-> op, len |-> len, res |-> res])
  /\ stream' = stream \o [i \in 1..len + 2 |-> <<Len(frames) + 1, i>>]
  /\ UNCHANGED <<open, reader, ended, out, texts, acked, cut, spent>>

-----------------------------------------------------------------------------
(* Ends of a call *)

Idle == call' = "none" /\ part' = "header" /\ got' = <<>> /\ head' = NoHead
ReadsNext == part' = "header" /\ got' = <<>> /\ head' = NoHead /\ UNCHANGED call

(* transport.close: ws.close writes a CLOSE frame, and how that ends makes *)
(* no difference; the peer's CLOSE has closed the socket before.           *)
Closes(sent) ==
  /\ open' = "no" /\ Idle
  /\ out' = Append(sent, [op |-> "close", id |-> 0, end |-> "whole"])

(* Mutant: every error of a flush is one to try again later. *)
NeverFatal(error) == FALSE

(* _is_fatal_outbox_error *)
Fatal(error) == error \in {"WsClosed", "WsError"}

(* flush_outbox closes the session for an error that is fatal, unless the   *)
(* retries of the item are spent: then it does not look at the error.      *)
FlushFails(error, sent) ==
  \/ Fatal(error) /\ Closes(sent) /\ UNCHANGED spent
  \/ Idle /\ out' = sent /\ UNCHANGED open /\ spent' = (spent \/ Fatal(error))

(* What a call makes of an exception: agent.run closes the session for any  *)
(* of recv_cmd but a timeout, connect closes its socket.                   *)
Raises(error, sent) ==
  CASE call = "connect" -> open' = "no" /\ Idle /\ out' = sent /\ UNCHANGED spent
    [] call = "recv_cmd" /\ error = "WsTimeout" ->
         Idle /\ out' = sent /\ UNCHANGED <<open, spent>>
    [] call = "recv_cmd" /\ error # "WsTimeout" -> Closes(sent) /\ UNCHANGED spent
    [] call = "request" -> FlushFails(error, sent)

WriteError(end) == IF end = "refused" THEN "WsClosed" ELSE "OSError"

-----------------------------------------------------------------------------
(* connect: a request goes out and its answer is read line by line, a byte *)
(* at a time, so that nothing behind the empty line is taken with it.      *)

Connect ==
  /\ open = "no" /\ call = "none"
  /\ open' = "handshake" /\ call' = "connect" /\ part' = "line"
  /\ got' = <<>> /\ head' = NoHead
  /\ stream' = <<<<0, 1>>, <<0, 2>>, <<0, 3>>>> /\ ended' = FALSE /\ frames' = <<>>
  /\ out' = <<>> /\ texts' = <<>> /\ acked' = {}
  /\ cut' = FALSE /\ spent' = FALSE

(* Mutant: the last read takes what the socket has, not one byte. *)
AllThereIs(n) == IF n < 3 THEN 1 ELSE Len(stream)

\* what is read to have the n-th line: status, headers, empty line
LineUnits(n) == 1

\* After the status and the headers comes the empty line, and the ws is open.
ReadLine ==
  /\ call = "connect" /\ stream # <<>>
  /\ \E n \in 1..3 :
       /\ Head(stream) = <<0, n>>
       /\ stream' = SubSeq(stream, LineUnits(n) + 1, Len(stream))
       /\ IF n < 3 THEN UNCHANGED <<open, reader>> ELSE open' = "yes" /\ Idle
  /\ UNCHANGED <<ended, frames, out, texts, acked, cut, spent>>

\* Another status than 101, an accept key that is not the expected one
Refused ==
  /\ call = "connect" /\ stream # <<>>
  /\ Raises("WsError", out)
  /\ UNCHANGED <<wire, texts, acked, cut>>

-----------------------------------------------------------------------------
(* The transport asks. *)

Poll ==
  /\ open = "yes" /\ call = "none"
  /\ call' = "recv_cmd" /\ part' = "header"
  /\ UNCHANGED <<open, got, head, wire, out, texts, acked, cut, spent>>

(* _request: _send_frame, then _await_response *)
Request ==
  /\ open = "yes" /\ call = "none" /\ Requests < MaxRequests
  /\ \E e \in Ends :
       LET sent == Append(out, [op |-> "request", id |-> Requests + 1, end |-> e])
       IN  IF e = "whole"
             THEN /\ call' = "request" /\ part' = "header" /\ out' = sent
                  /\ UNCHANGED <<open, got, head, spent>>
             ELSE FlushFails(WriteError(e), sent)
  /\ UNCHANGED <<wire, texts, acked, cut>>

-----------------------------------------------------------------------------
(* _read_exact *)

(* Mutant: a control frame is taken to have no payload. *)
TextsOnly == IF part # "payload" THEN 2 ELSE IF head.op = "text" THEN head.len ELSE 0

Need == IF part = "payload" THEN head.len ELSE 2
Reading == call \in {"recv_cmd", "request"} /\ Len(got) < Need

ReadSome ==
  /\ Reading
  /\ \E n \in 1..Len(stream) :
       /\ n <= Need - Len(got)
       /\ got' = got \o SubSeq(stream, 1, n)
       /\ stream' = SubSeq(stream, n + 1, Len(stream))
  /\ UNCHANGED <<open, call, part, head, ended, frames, out, texts, acked, cut, spent>>

\* An exception in the middle of a frame loses what was read of it.
Drops == cut' = (cut \/ (call # "connect" /\ (part = "payload" \/ got # <<>>)))

\* A timeout, an end of the stream (an empty read), any other error
ReadFails(error) ==
  /\ Reading \/ call = "connect"
  /\ error = "WsClosed" => stream = <<>>
  /\ ended' = (ended \/ error = "WsClosed")
  /\ Raises(error, out)
  /\ Drops
  /\ UNCHANGED <<stream, frames, texts, acked>>

(* Mutant: no timeout is set on the socket. *)
WaitsForEver == FALSE

\* settimeout_ms: a read that finds nothing does not wait longer than that.
TimesOut == ReadFails("WsTimeout")

-----------------------------------------------------------------------------
(* recv_text: a header that was read from where none begins is any header. *)

HeaderRead ==
  /\ call \in {"recv_cmd", "request"} /\ part = "header" /\ Len(got) = Need
  /\ head' \in LET f == got[1][1]
                IN  IF f # 0 /\ got = <<<<f, 1>>, <<f, 2>>>>
                      THEN {[of |-> f, op |-> frames[f].op, len |-> frames[f].len]}
                      ELSE [of : {0}, op : Ops, len : 0..MaxLen]
  /\ part' = "payload" /\ got' = <<>>
  /\ UNCHANGED <<open, call, wire, out, texts, acked, cut, spent>>

FrameRead(op) == part = "payload" /\ Len(got) = Need /\ head.op = op

(* Any JSON with the id that is awaited is the response; a text that is    *)
(* none of the peer's (0) may be that too.                                 *)
Answers(f) == call = "request" /\ (f # 0 => frames[f].res = Requests)

(* _recv_frame, and what recv_cmd and _await_response do with a frame: the *)
(* deadline of either may have passed after each.  A text that is none of  *)
(* the peer's is no JSON, or JSON of any kind.                             *)
Text ==
  /\ FrameRead("text")
  /\ LET f == IF head.of # 0 /\ got = Body(head.of) THEN head.of ELSE 0
     IN  /\ texts' = IF cut THEN texts ELSE Append(texts, f)
         /\ \/ f = 0 /\ Raises("ValueError", out) /\ UNCHANGED acked
            \/ /\ Answers(f) /\ Idle
               /\ acked' = acked \cup {Requests} /\ UNCHANGED <<open, out, spent>>
            \/ /\ f # 0 => ~Answers(f)
               /\ Idle \/ ReadsNext
               /\ UNCHANGED <<acked, open, out, spent>>
  /\ UNCHANGED <<wire, cut>>

Ping ==
  /\ FrameRead("ping")
  /\ \E e \in Ends :
       LET sent == Append(out, [op |-> "pong", id |-> head.of, end |-> e])
       IN  IF e = "whole" THEN ReadsNext /\ out' = sent /\ UNCHANGED <<open, spent>>
                          ELSE Raises(WriteError(e), sent)
  /\ UNCHANGED <<wire, texts, acked, cut>>

PongRead ==
  /\ FrameRead("pong") /\ ReadsNext
  /\ UNCHANGED <<open, wire, out, texts, acked, cut, spent>>

\* _close_internal has run when transport.close comes.
PeerCloses ==
  /\ FrameRead("close")
  /\ open' = "no" /\ Idle
  /\ UNCHANGED <<wire, out, texts, acked, cut, spent>>

Unsupported ==
  /\ FrameRead("more") /\ Raises("WsError", out)
  /\ UNCHANGED <<wire, texts, acked, cut>>

-----------------------------------------------------------------------------
Answer == ReadLine \/ Refused
Read == ReadSome \/ TimesOut
Breaks == ReadFails("WsClosed") \/ ReadFails("OSError")
Handle == HeaderRead \/ Text \/ Ping \/ PongRead \/ PeerCloses \/ Unsupported
Peer == \E op \in Ops, len \in 0..MaxLen, res \in 0..MaxRequests : PeerSends(op, len, res)

Next == Connect \/ Answer \/ Poll \/ Request \/ Read \/ Breaks \/ Handle \/ Peer

(* The thread goes on: what can be read is read, or the timeout comes. *)
Spec == Init /\ [][Next]_fvars /\ WF_fvars(Answer \/ Read \/ Handle)

-----------------------------------------------------------------------------
FTypeOK ==
  /\ open \in {"no", "handshake", "yes"}
  /\ call \in {"none", "connect", "recv_cmd", "request"}
  /\ part \in {"line", "header", "payload"}
  /\ head \in [of : 0..Len(frames), op : Ops, len : 0..MaxLen]
  /\ ended \in BOOLEAN
  /\ frames \in Seq([op : Ops, len : 0..MaxLen, res : 0..MaxRequests])
  /\ stream \in Seq(Nat \X Nat) /\ got \in Seq(Nat \X Nat)
  /\ out \in Seq([op : {"request", "pong", "close"}, id : Nat, end : Ends])
  /\ texts \in Seq(0..Len(frames)) /\ acked \subseteq 1..MaxRequests
  /\ cut \in BOOLEAN /\ spent \in BOOLEAN

\* The frames of an opcode that have been read.
Handled(op) ==
  {f \in DOMAIN frames : /\ frames[f].op = op /\ head.of # f
                         /\ \A i \in DOMAIN stream : stream[i][1] # f
                         /\ \A i \in DOMAIN got : got[i][1] # f}

Pongs == [i \in Sent("pong") |-> out[i].id]

\* s names every frame of the set once, in the order they were sent.
Lists(s, S) == /\ {s[i] : i \in DOMAIN s} = S
               /\ \A i, j \in DOMAIN s : i < j => s[i] < s[j]

(* As long as no exception fell into a frame, recv_text returns the texts  *)
(* of the peer, and every ping is answered, each once, whole and in order, *)
(* however control frames and texts are mixed, however the stream is cut   *)
(* into reads, and from the first byte behind the handshake on.            *)
FramesInOrder == ~cut => Lists(texts, Handled("text")) /\ Lists(Pongs, Handled("ping"))

(* As long as no exception fell into a frame, every request that counts as *)
(* acked has its own response among the texts that were read: neither the  *)
(* late one of an earlier request nor a misread piece of the stream is     *)
(* taken for it.  Behind a cut the code has no such guarantee: what is     *)
(* left of a frame may be JSON with the awaited id.                        *)
AckedIsAnswered ==
  ~cut => \A k \in acked : \E i \in DOMAIN texts :
            texts[i] \in DOMAIN frames /\ frames[texts[i]].res = k

(* A frame that the socket refused to take in full is the last one of its  *)
(* connection, but for the CLOSE of ws.close: the session is not used on,  *)
(* as long as the error did not come with the last retry of a request.  A  *)
(* write that raises is outside of it, a timeout that a poll has left on   *)
(* the socket in particular: its error is not fatal, and frames do follow  *)
(* the half frame.                                                         *)
HalfFrameIsLast ==
  ~spent => \A i \in DOMAIN out :
    out[i].end = "refused" => \A j \in DOMAIN out : j > i => out[j].op = "close"

(* Every call of the transport returns, be the peer silent, half closed or *)
(* out of step: as long as it does not send control frames for ever.       *)
CallsReturn == (call # "none") ~> (call = "none")
==============================================================================
