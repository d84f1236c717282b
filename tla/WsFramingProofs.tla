--------------------------- MODULE WsFramingProofs ---------------------------
(***************************************************************************)
(* Theorems about WsFraming, for every number of frames and requests and   *)
(* every length of a payload.                                              *)
(***************************************************************************)
EXTENDS WsFraming, SequenceTheorems, TLAPS

Reads == {"recv_cmd", "request"}

(* Which call may be at which part of a frame, and on which socket. *)
Places ==
  /\ call \in {"none", "connect"} \cup Reads
  /\ part \in {"line", "header", "payload"}
  /\ open = "no" => call = "none"
  /\ call = "connect" => part = "line"
  /\ call = "none" => part # "payload"

LEMMA PlacesStep ==
  ASSUME Places, [Next]_fvars
  PROVE Places'
<1> USE DEF Places, Reads
<1>1. CASE Connect
  BY <1>1 DEF Connect
<1>2. CASE ReadLine
  BY <1>2 DEF ReadLine, Idle, reader
<1>3. ASSUME NEW error, NEW sent, call # "none", Raises(error, sent)
      PROVE Places'
  BY <1>3 DEF Raises, Closes, FlushFails, Idle
<1>4. CASE Refused
  BY <1>3, <1>4 DEF Refused
<1>5. CASE Poll
  BY <1>5 DEF Poll
<1>6. CASE Request
  BY <1>6 DEF Request, FlushFails, Closes, Idle
<1>7. CASE ReadSome
  BY <1>7 DEF ReadSome
<1>8. ASSUME NEW error, ReadFails(error) PROVE Places'
  BY <1>3, <1>8 DEF ReadFails, Reading
<1>9. CASE HeaderRead
  BY <1>9 DEF HeaderRead
<1>10. CASE Text
  <2>1. call \in Reads
    BY <1>10 DEF Text, FrameRead
  <2>2. Raises("ValueError", out) \/ ((ReadsNext \/ Idle) /\ UNCHANGED open)
    BY <1>10 DEF Text
  <2>3. QED
    BY <1>3, <2>1, <2>2 DEF ReadsNext, Idle
<1>11. CASE Ping
  BY <1>3, <1>11 DEF Ping, FrameRead, ReadsNext
<1>12. CASE PongRead
  BY <1>12 DEF PongRead, FrameRead, ReadsNext
<1>13. CASE PeerCloses
  BY <1>13 DEF PeerCloses, Idle
<1>14. CASE Unsupported
  BY <1>3, <1>14 DEF Unsupported, FrameRead
<1>15. CASE Peer
  BY <1>15 DEF Peer, PeerSends, reader
<1>16. CASE UNCHANGED fvars
  BY <1>16 DEF fvars, reader
<1>17. QED
  BY <1>1, <1>2, <1>4, <1>5, <1>6, <1>7, <1>8, <1>9, <1>10, <1>11, <1>12, <1>13, <1>14,
     <1>15, <1>16
  DEF Next, Answer, Read, TimesOut, Breaks, Handle

-----------------------------------------------------------------------------
(* What a refused write does to the connection: it is closed, unless the   *)
(* retries of the request were spent.                                      *)
IsSeq(ws) == ws \in Seq({ws[i] : i \in DOMAIN ws})
Refusals(ws) == {i \in DOMAIN ws : ws[i].end = "refused"}
ClosedAfter(ws) ==
  \A i \in Refusals(ws) : \A j \in DOMAIN ws : j > i => ws[j].op = "close"
Ended == /\ IsSeq(out)
         /\ ~spent => /\ ClosedAfter(out)
                      /\ open # "no" => Refusals(out) = {}

LEMMA Longer ==
  ASSUME NEW ws, IsSeq(ws), NEW w
  PROVE /\ IsSeq(Append(ws, w))
        /\ Len(ws) \in Nat /\ DOMAIN ws = 1..Len(ws)
        /\ DOMAIN Append(ws, w) = 1..(Len(ws) + 1)
        /\ Append(ws, w)[Len(ws) + 1] = w
        /\ \A i \in DOMAIN ws : Append(ws, w)[i] = ws[i]
<1> DEFINE R == {ws[i] : i \in DOMAIN ws}
           more == Append(ws, w)
<1>1. ws \in Seq(R)
  BY DEF IsSeq
<1>2. ws \in Seq(R \cup {w})
  BY <1>1
<1> HIDE DEF R
<1>3. Len(ws) \in Nat /\ DOMAIN ws = 1..Len(ws)
  BY <1>1
<1>4. /\ Len(more) = Len(ws) + 1 /\ DOMAIN more = 1..(Len(ws) + 1)
      /\ more[Len(ws) + 1] = w
      /\ \A i \in DOMAIN ws : more[i] = ws[i]
  BY <1>2, <1>3
<1>5. more \in Seq({more[i] : i \in DOMAIN more})
  <2>1. more \in Seq(R \cup {w})
    BY <1>2
  <2> HIDE DEF more
  <2>2. \A i \in 1..Len(more) : more[i] \in {more[j] : j \in DOMAIN more}
    BY <1>3, <1>4
  <2>3. QED
    BY <2>1, <2>2
<1>6. QED
  BY <1>3, <1>4, <1>5 DEF IsSeq

(* A write that is not refused, one that is, and a CLOSE after anything.   *)
LEMMA GoodWrite ==
  ASSUME NEW ws, IsSeq(ws), NEW w, w.end # "refused", Refusals(ws) = {}
  PROVE /\ IsSeq(Append(ws, w)) /\ ClosedAfter(Append(ws, w))
        /\ Refusals(Append(ws, w)) = {}
BY Longer DEF Refusals, ClosedAfter

LEMMA AnyWrite ==
  ASSUME NEW ws, IsSeq(ws), NEW w, Refusals(ws) = {}
  PROVE IsSeq(Append(ws, w)) /\ ClosedAfter(Append(ws, w))
BY Longer DEF Refusals, ClosedAfter

LEMMA CloseWrite ==
  ASSUME NEW ws, IsSeq(ws), NEW w, w.op = "close", w.end = "whole", ClosedAfter(ws)
  PROVE IsSeq(Append(ws, w)) /\ ClosedAfter(Append(ws, w))
<1>1. Refusals(Append(ws, w)) = Refusals(ws)
  BY Longer DEF Refusals
<1>2. QED
  BY <1>1, Longer DEF Refusals, ClosedAfter

(* The exception a refused write raises is fatal, so that the call it ends  *)
(* closes the session or is the last retry of a request.                    *)
LEMMA FlushEnds ==
  ASSUME NEW sent, NEW error, IsSeq(sent),
         ~spent => ClosedAfter(sent) /\ (Fatal(error) \/ Refusals(sent) = {}),
         FlushFails(error, sent)
  PROVE Ended'
<1>1. CASE Fatal(error) /\ Closes(sent) /\ UNCHANGED spent
  BY <1>1, Longer, CloseWrite DEF Closes, Ended
<1>2. CASE Idle /\ out' = sent /\ UNCHANGED open /\ spent' = (spent \/ Fatal(error))
  BY <1>2 DEF Ended
<1>3. QED
  BY <1>1, <1>2 DEF FlushFails

LEMMA RaiseEnds ==
  ASSUME call \in Reads \cup {"connect"},
         NEW sent, NEW error, IsSeq(sent),
         ~spent => ClosedAfter(sent) /\ (Fatal(error) \/ Refusals(sent) = {}),
         Raises(error, sent)
  PROVE Ended'
<1>1. CASE call = "connect"
  BY <1>1 DEF Raises, Ended
<1>2. CASE call = "recv_cmd" /\ error = "WsTimeout"
  BY <1>2 DEF Raises, Ended, Fatal
<1>3. CASE call = "recv_cmd" /\ error # "WsTimeout"
  <2>1. Closes(sent) /\ UNCHANGED spent
    BY <1>3 DEF Raises
  <2>2. QED
    BY <2>1, Longer, CloseWrite DEF Closes, Ended
<1>4. CASE call = "request"
  BY <1>4, FlushEnds DEF Raises
<1>5. QED
  BY <1>1, <1>2, <1>3, <1>4 DEF Reads

LEMMA EndedStep ==
  ASSUME Places, Ended, [Next]_fvars
  PROVE Ended'
<1>1. call # "none" => call \in Reads \cup {"connect"}
  BY DEF Places
<1>2. \A error : call # "none" /\ Raises(error, out) => Ended'
  <2> SUFFICES ASSUME NEW error, call # "none", Raises(error, out) PROVE Ended'
    OBVIOUS
  <2>1. open # "no"
    BY DEF Places
  <2>2. QED
    BY <1>1, <2>1, RaiseEnds DEF Ended
<1>3. CASE UNCHANGED <<out, spent>> /\ (open' = open \/ open' = "no" \/ open = "handshake")
  BY <1>3 DEF Ended
<1>4. CASE Connect
  BY <1>4 DEF Connect, Ended, IsSeq, ClosedAfter, Refusals
<1>5. CASE Request
  <2>1. PICK w :
          /\ w.end \in Ends
          /\ \/ w.end = "whole" /\ out' = Append(out, w) /\ UNCHANGED <<open, spent>>
             \/ w.end # "whole" /\ FlushFails(WriteError(w.end), Append(out, w))
    BY <1>5 DEF Request
  <2>2. IsSeq(out) /\ (~spent => Refusals(out) = {})
    BY <1>5 DEF Request, Ended
  <2>3. CASE w.end = "whole"
    <3>1. out' = Append(out, w) /\ UNCHANGED <<open, spent>>
      BY <2>1, <2>3
    <3>2. /\ IsSeq(Append(out, w))
          /\ ~spent => ClosedAfter(Append(out, w)) /\ Refusals(Append(out, w)) = {}
      BY <2>2, <2>3, GoodWrite, Longer
    <3>3. QED
      BY <3>1, <3>2 DEF Ended
  <2>4. CASE w.end = "refused"
    <3>1. FlushFails("WsClosed", Append(out, w)) /\ Fatal("WsClosed")
      BY <2>1, <2>4 DEF WriteError, Fatal
    <3>2. IsSeq(Append(out, w)) /\ (~spent => ClosedAfter(Append(out, w)))
      BY <2>2, AnyWrite, Longer
    <3>3. QED
      BY <3>1, <3>2, FlushEnds
  <2>5. CASE w.end = "raised"
    <3>1. FlushFails(WriteError(w.end), Append(out, w))
      BY <2>1, <2>5
    <3>2. /\ IsSeq(Append(out, w))
          /\ ~spent => ClosedAfter(Append(out, w)) /\ Refusals(Append(out, w)) = {}
      BY <2>2, <2>5, GoodWrite, Longer
    <3>3. QED
      BY <2>2, <3>1, <3>2, FlushEnds
  <2>6. QED
    BY <2>1, <2>3, <2>4, <2>5 DEF Ends
<1>6. CASE Ping
  <2>1. PICK w :
          /\ w.end \in Ends
          /\ \/ w.end = "whole" /\ out' = Append(out, w) /\ UNCHANGED <<open, spent>>
             \/ w.end # "whole" /\ Raises(WriteError(w.end), Append(out, w))
    BY <1>6 DEF Ping
  <2>2. IsSeq(out) /\ (~spent => Refusals(out) = {}) /\ call \in Reads \cup {"connect"}
    BY <1>1, <1>6 DEF Ping, FrameRead, Ended, Places
  <2>3. CASE w.end = "whole"
    <3>1. out' = Append(out, w) /\ UNCHANGED <<open, spent>>
      BY <2>1, <2>3
    <3>2. /\ IsSeq(Append(out, w))
          /\ ~spent => ClosedAfter(Append(out, w)) /\ Refusals(Append(out, w)) = {}
      BY <2>2, <2>3, GoodWrite, Longer
    <3>3. QED
      BY <3>1, <3>2 DEF Ended
  <2>4. CASE w.end = "refused"
    <3>1. Raises("WsClosed", Append(out, w)) /\ Fatal("WsClosed")
      BY <2>1, <2>4 DEF WriteError, Fatal
    <3>2. IsSeq(Append(out, w)) /\ (~spent => ClosedAfter(Append(out, w)))
      BY <2>2, AnyWrite, Longer
    <3>3. QED
      BY <2>2, <3>1, <3>2, RaiseEnds
  <2>5. CASE w.end = "raised"
    <3>1. Raises(WriteError(w.end), Append(out, w))
      BY <2>1, <2>5
    <3>2. /\ IsSeq(Append(out, w))
          /\ ~spent => ClosedAfter(Append(out, w)) /\ Refusals(Append(out, w)) = {}
      BY <2>2, <2>5, GoodWrite, Longer
    <3>3. QED
      BY <2>2, <3>1, <3>2, RaiseEnds
  <2>6. QED
    BY <2>1, <2>3, <2>4, <2>5 DEF Ends
<1>7. CASE Text
  <2>1. call # "none"
    BY <1>7 DEF Text, FrameRead, Places
  <2>2. Raises("ValueError", out) \/ UNCHANGED <<open, out, spent>>
    BY <1>7 DEF Text
  <2>3. QED
    BY <1>2, <1>3, <2>1, <2>2
<1>8. ASSUME NEW error, ReadFails(error) PROVE Ended'
  BY <1>2, <1>8 DEF ReadFails, Reading
<1>9. CASE Refused
  BY <1>2, <1>9 DEF Refused
<1>10. CASE Unsupported
  BY <1>2, <1>10 DEF Unsupported, FrameRead, Places
<1>11. CASE ReadLine
  <2>1. UNCHANGED <<out, spent>> /\ open # "no"
    BY <1>11 DEF ReadLine, Places
  <2>2. QED
    BY <2>1 DEF Ended
<1>12. CASE Poll \/ ReadSome \/ HeaderRead \/ PongRead \/ PeerCloses \/ Peer \/ UNCHANGED fvars
  BY <1>3, <1>12 DEF Poll, ReadSome, HeaderRead, PongRead, PeerCloses, Peer, PeerSends, fvars
<1>13. QED
  BY <1>4, <1>5, <1>6, <1>7, <1>8, <1>9, <1>10, <1>11, <1>12
  DEF Next, Answer, Read, TimesOut, Breaks, Handle

(* A frame that the socket refused to take in full is the last one of its  *)
(* connection, but for the CLOSE, unless the retries of a request were     *)
(* spent (ws_client 331-343, transport 156-167).                           *)
THEOREM RefusalEndsConnection == Spec => []HalfFrameIsLast
<1>1. Init => Places /\ Ended
  BY DEF Init, Places, Ended, IsSeq, ClosedAfter, Refusals
<1>2. Places /\ [Next]_fvars => Places'
  BY PlacesStep
<1>3. Places /\ Ended /\ [Next]_fvars => Ended'
  BY EndedStep
<1>4. Ended => HalfFrameIsLast
  BY DEF Ended, ClosedAfter, Refusals, HalfFrameIsLast
<1>5. QED
  BY <1>1, <1>2, <1>3, <1>4, PTL DEF Spec

-----------------------------------------------------------------------------
(* Every unit on its way, and the header in hand, are of a frame the peer   *)
(* has sent in this connection.                                            *)
PeerFrame == [op : Ops, len : 0..MaxLen, res : 0..MaxRequests]
Units(n) == (0..n) \X Nat
Framed ==
  /\ frames \in Seq(PeerFrame)
  /\ stream \in Seq(Units(Len(frames)))
  /\ got \in Seq(Units(Len(frames)))
  /\ head.of \in 0..Len(frames)

LEMMA UnitsGrow ==
  ASSUME NEW n \in Nat, NEW u \in Seq(Units(n))
  PROVE u \in Seq(Units(n + 1))
<1>1. Units(n) \subseteq Units(n + 1)
  BY DEF Units
<1> HIDE DEF Units
<1>2. QED
  BY <1>1

LEMMA Part ==
  ASSUME NEW S, NEW u \in Seq(S), NEW a \in Nat \ {0}, NEW b \in Nat, b <= Len(u)
  PROVE SubSeq(u, a, b) \in Seq(S)
<1>1. \A i \in a..b : u[i] \in S
  OBVIOUS
<1>2. QED
  BY <1>1, SubSeqProperties

LEMMA KeepsFramed ==
  ASSUME Framed, UNCHANGED <<frames, stream>>,
         UNCHANGED <<got, head>> \/ (got' = <<>> /\ head' = NoHead)
  PROVE Framed'
<1>1. frames' = frames /\ stream' = stream /\ Len(frames) \in Nat
  BY DEF Framed
<1>2. CASE UNCHANGED <<got, head>>
  BY <1>1, <1>2 DEF Framed
<1>3. CASE got' = <<>> /\ head' = NoHead
  <2>1. head'.of \in 0..Len(frames)
    BY <1>1, <1>3 DEF NoHead
  <2>2. got' \in Seq(Units(Len(frames)))
    BY <1>3
  <2>3. QED
    BY <1>1, <2>1, <2>2 DEF Framed
<1>4. QED
  BY <1>2, <1>3

LEMMA RaiseIdles ==
  ASSUME call \in Reads \cup {"connect"}, NEW error, NEW sent, Raises(error, sent)
  PROVE Idle
BY DEF Raises, FlushFails, Closes, Reads

LEMMA FramedStep ==
  ASSUME Places, Framed, [Next]_fvars
  PROVE Framed'
<1>0. Len(frames) \in Nat /\ Len(stream) \in Nat /\ Len(got) \in Nat
  BY DEF Framed
<1>1. CASE Connect
  <2>1. /\ frames' = <<>> /\ got' = <<>> /\ head' = NoHead
        /\ stream' = <<<<0, 1>>, <<0, 2>>, <<0, 3>>>>
    BY <1>1 DEF Connect
  <2>2. Len(frames') = 0
    BY <2>1
  <2>3. stream' \in Seq(Units(0))
    BY <2>1 DEF Units
  <2>4. QED
    BY <2>1, <2>2, <2>3 DEF Framed, NoHead
<1>2. CASE ReadLine
  <2>1. /\ UNCHANGED frames /\ stream' = SubSeq(stream, 2, Len(stream))
        /\ UNCHANGED <<got, head>> \/ (got' = <<>> /\ head' = NoHead)
    BY <1>2 DEF ReadLine, LineUnits, Idle, reader
  <2>2. stream' \in Seq(Units(Len(frames)))
    BY <1>0, <2>1, Part DEF Framed
  <2>3. CASE UNCHANGED <<got, head>>
    BY <2>1, <2>2, <2>3 DEF Framed
  <2>4. CASE got' = <<>> /\ head' = NoHead
    <3>1. head'.of \in 0..Len(frames)
      BY <1>0, <2>4 DEF NoHead
    <3>2. got' \in Seq(Units(Len(frames)))
      BY <2>4
    <3>3. QED
      BY <2>1, <2>2, <3>1, <3>2 DEF Framed
  <2>5. QED
    BY <2>1, <2>3, <2>4
<1>3. CASE ReadSome
  <2>1. PICK n \in 1..Len(stream) : /\ got' = got \o SubSeq(stream, 1, n)
                                    /\ stream' = SubSeq(stream, n + 1, Len(stream))
    BY <1>3 DEF ReadSome
  <2> DEFINE S == Units(Len(frames))
  <2>2. got \in Seq(S) /\ stream \in Seq(S)
    BY DEF Framed
  <2> HIDE DEF S
  <2>3. SubSeq(stream, 1, n) \in Seq(S) /\ SubSeq(stream, n + 1, Len(stream)) \in Seq(S)
    BY <1>0, <2>2, Part
  <2>4. got' \in Seq(S) /\ stream' \in Seq(S)
    BY <2>1, <2>2, <2>3
  <2>5. UNCHANGED <<frames, head>>
    BY <1>3 DEF ReadSome
  <2>6. QED
    BY <2>4, <2>5 DEF Framed, S
<1>4. CASE HeaderRead
  <2>1. UNCHANGED <<frames, stream>> /\ got' = <<>>
    BY <1>4 DEF HeaderRead, wire
  <2>2. Len(got) = 2
    BY <1>4 DEF HeaderRead, Need
  <2>3. got[1] \in Units(Len(frames))
    <3>1. got \in Seq(Units(Len(frames)))
      BY DEF Framed
    <3>2. QED
      BY <2>2, <3>1, ElementOfSeq
  <2>4. got[1][1] \in 0..Len(frames)
    BY <2>3 DEF Units
  <2>5. head'.of \in {0, got[1][1]}
    BY <1>4 DEF HeaderRead
  <2>6. got' \in Seq(Units(Len(frames'))) /\ head'.of \in 0..Len(frames')
    BY <1>0, <2>1, <2>4, <2>5
  <2>7. QED
    BY <2>1, <2>6 DEF Framed
<1>5. ASSUME NEW op \in Ops, NEW len \in 0..MaxLen, NEW res \in 0..MaxRequests,
             PeerSends(op, len, res)
      PROVE Framed'
  <2> DEFINE new == [op |-> op, len |-> len, res |-> res]
             units == [i \in 1..len + 2 |-> <<Len(frames) + 1, i>>]
             S == Units(Len(frames) + 1)
  <2>1. /\ frames' = Append(frames, new) /\ stream' = stream \o units
        /\ UNCHANGED <<got, head>>
    BY <1>5 DEF PeerSends, reader
  <2>2. frames' \in Seq(PeerFrame) /\ Len(frames') = Len(frames) + 1
    BY <2>1 DEF Framed, PeerFrame
  <2>3. units \in Seq(S)
    BY <1>0, FramingConstants DEF Units
  <2>4. stream \in Seq(S) /\ got \in Seq(S)
    BY <1>0, UnitsGrow DEF Framed
  <2> HIDE DEF S, units
  <2>5. stream' \in Seq(S)
    BY <2>1, <2>3, <2>4
  <2>6. QED
    BY <1>0, <2>1, <2>2, <2>4, <2>5 DEF Framed, S
<1>6. call # "none" => call \in Reads \cup {"connect"}
  BY DEF Places
<1>7. CASE /\ UNCHANGED <<frames, stream>>
           /\ \/ UNCHANGED <<got, head>>
              \/ Idle
              \/ ReadsNext
              \/ call # "none" /\ \E error, sent : Raises(error, sent)
  BY <1>6, <1>7, KeepsFramed, RaiseIdles DEF Idle, ReadsNext
<1>8. CASE Refused \/ Unsupported \/ Poll \/ Request \/ PongRead \/ PeerCloses
  BY <1>7, <1>8 DEF Refused, Unsupported, Poll, Request, FlushFails, Closes, PongRead,
     PeerCloses, FrameRead, Places, wire
<1>9. ASSUME NEW error, ReadFails(error) PROVE Framed'
  BY <1>7, <1>9 DEF ReadFails, Reading
<1>10. CASE Text
  <2>1. call # "none" /\ UNCHANGED <<frames, stream>>
    BY <1>10 DEF Text, FrameRead, Places, wire
  <2>2. Idle \/ ReadsNext \/ Raises("ValueError", out)
    BY <1>10 DEF Text
  <2>3. QED
    BY <1>7, <2>1, <2>2
<1>11. CASE Ping
  <2>1. call # "none" /\ UNCHANGED <<frames, stream>>
    BY <1>11 DEF Ping, FrameRead, Places, wire
  <2>2. ReadsNext \/ \E error, sent : Raises(error, sent)
    BY <1>11 DEF Ping
  <2>3. QED
    BY <1>7, <2>1, <2>2
<1>12. CASE UNCHANGED fvars
  BY <1>7, <1>12 DEF fvars, reader, wire
<1>13. QED
  BY <1>1, <1>2, <1>3, <1>4, <1>5, <1>8, <1>9, <1>10, <1>11, <1>12
  DEF Next, Answer, Read, TimesOut, Breaks, Handle, Peer

-----------------------------------------------------------------------------
\* The unit before the first that is not read is <<k, x>>: from there on the stream
\* holds every unit the peer has sent, each behind the one before it.
Size(f) == IF f = 0 THEN 3 ELSE frames[f].len + 2
Behind(j, k, x) == IF j = 0 THEN <<k, x>> ELSE stream[j]

Goes(j, k, x) ==
  LET u == Behind(j, k, x)
  IN  /\ u[1] \in k..Len(frames) /\ u[2] \in 0..Size(u[1]) /\ (j > 0 => u[2] > 0)
      /\ \A i \in 1..(Size(u[1]) - u[2]) :
           j + i <= Len(stream) /\ stream[j + i] = <<u[1], u[2] + i>>
      /\ u[2] = Size(u[1]) => IF j = Len(stream) THEN u[1] = Len(frames)
                                                 ELSE stream[j + 1] = <<u[1] + 1, 1>>
      /\ \A i \in j..Len(stream) : u[1] <= Behind(i, k, x)[1]

Follows(k, x) ==
  /\ \A j \in 0..Len(stream) : Goes(j, k, x)
  /\ \A f \in (k + 1)..Len(frames) : \E i \in 1..Len(stream) : stream[i] = <<f, 1>>

LEMMA FollowsTyped ==
  ASSUME Framed, NEW k \in Nat, NEW x \in Nat, Follows(k, x)
  PROVE /\ k \in 0..Len(frames) /\ x \in 0..Size(k) /\ Size(k) \in Nat \ {0, 1}
        /\ Len(frames) \in Nat /\ Len(stream) \in Nat
        /\ \A f \in 0..Len(frames) : Size(f) \in Nat \ {0, 1}
<1>1. Len(frames) \in Nat /\ Len(stream) \in Nat /\ 0 \in 0..Len(stream)
  BY DEF Framed
<1>2. ASSUME NEW f \in 0..Len(frames) PROVE Size(f) \in Nat \ {0, 1}
  <2>1. CASE f = 0
    BY <2>1 DEF Size
  <2>2. CASE f # 0
    <3>1. frames[f] \in PeerFrame
      BY <1>1, <1>2, <2>2 DEF Framed
    <3>2. frames[f].len \in Nat
      BY <3>1, FramingConstants DEF PeerFrame
    <3>3. QED
      BY <2>2, <3>2 DEF Size
  <2>3. QED
    BY <2>1, <2>2
<1>3. Goes(0, k, x) /\ Behind(0, k, x) = <<k, x>>
  BY <1>1 DEF Follows, Behind
<1>4. k \in 0..Len(frames) /\ x \in 0..Size(k)
  BY <1>1, <1>3 DEF Goes
<1>5. QED
  BY <1>1, <1>2, <1>4

\* The next units of the frame that is being read, and the first of the next one.
LEMMA NextUnits ==
  ASSUME Framed, NEW k \in Nat, NEW x \in Nat, Follows(k, x)
  PROVE /\ \A i \in 1..(Size(k) - x) : i \in 1..Len(stream) /\ stream[i] = <<k, x + i>>
        /\ x = Size(k) /\ stream # <<>> =>
             /\ k + 1 \in 1..Len(frames)
             /\ stream[1] = <<k + 1, 1>>
             /\ \A i \in 1..Size(k + 1) : i \in 1..Len(stream) /\ stream[i] = <<k + 1, i>>
<1>1. /\ k \in 0..Len(frames) /\ x \in 0..Size(k) /\ Size(k) \in Nat
      /\ Len(frames) \in Nat /\ Len(stream) \in Nat
      /\ \A f \in 0..Len(frames) : Size(f) \in Nat \ {0, 1}
  BY FollowsTyped
<1>2. Goes(0, k, x) /\ Behind(0, k, x) = <<k, x>>
  BY <1>1 DEF Follows, Behind
<1>3. \A i \in 1..(Size(k) - x) : i \in 1..Len(stream) /\ stream[i] = <<k, x + i>>
  BY <1>1, <1>2 DEF Goes
<1>4. ASSUME x = Size(k), stream # <<>>
      PROVE /\ k + 1 \in 1..Len(frames)
            /\ stream[1] = <<k + 1, 1>>
            /\ \A i \in 1..Size(k + 1) : i \in 1..Len(stream) /\ stream[i] = <<k + 1, i>>
  <2>1. Len(stream) # 0
    BY <1>4 DEF Framed
  <2>2. stream[1] = <<k + 1, 1>> /\ 1 \in 1..Len(stream)
    BY <1>1, <1>2, <1>4, <2>1 DEF Goes
  <2>3. Goes(1, k, x) /\ Behind(1, k, x) = <<k + 1, 1>>
    BY <1>1, <2>2 DEF Follows, Behind
  <2>4. k + 1 \in 1..Len(frames)
    BY <1>1, <2>3 DEF Goes
  <2>5. \A i \in 1..(Size(k + 1) - 1) : 1 + i <= Len(stream) /\ stream[1 + i] = <<k + 1, 1 + i>>
    BY <2>3 DEF Goes
  <2>6. Size(k + 1) \in Nat
    BY <1>1, <2>4
  <2>7. ASSUME NEW i \in 1..Size(k + 1) PROVE i \in 1..Len(stream) /\ stream[i] = <<k + 1, i>>
    <3>1. CASE i = 1
      BY <2>2, <3>1
    <3>2. CASE i # 1
      <4>1. PICK d \in 1..(Size(k + 1) - 1) : i = 1 + d
        BY <2>6, <3>2
      <4>2. QED
        BY <1>1, <2>5, <2>6, <4>1
    <3>3. QED
      BY <3>1, <3>2
  <2>8. QED
    BY <2>2, <2>4, <2>7
<1>5. QED
  BY <1>3, <1>4

Takes(m) == stream' = SubSeq(stream, m + 1, Len(stream)) /\ frames' = frames

\* Reading leaves the stream behind the last unit that was read.
LEMMA FollowsRead ==
  ASSUME Framed, NEW k \in Nat, NEW x \in Nat, Follows(k, x),
         NEW m \in 1..Len(stream), Takes(m), NEW c, NEW y, stream[m] = <<c, y>>
  PROVE c \in k..Len(frames) /\ y \in Nat /\ Follows(c, y)'
<1>1. /\ k \in 0..Len(frames) /\ Len(frames) \in Nat /\ Len(stream) \in Nat
      /\ \A f \in 0..Len(frames) : Size(f) \in Nat
  BY FollowsTyped
<1>2. /\ Len(stream') = Len(stream) - m /\ Len(stream') \in Nat /\ m \in Nat /\ m > 0
      /\ \A i \in 1..Len(stream') : m + i \in 1..Len(stream) /\ stream'[i] = stream[m + i]
  <2> DEFINE S == Units(Len(frames))
  <2>1. stream \in Seq(S)
    BY DEF Framed
  <2> HIDE DEF S
  <2>2. QED
    BY <1>1, <2>1 DEF Takes
<1>10. Len(stream) \in Int /\ Len(stream') \in Int /\ m \in Int /\ m > 0
        /\ Len(stream) = Len(stream') + m /\ Len(stream') >= 0
  BY <1>1, <1>2
<1>3. Goes(m, k, x) /\ Behind(m, k, x) = <<c, y>>
  BY <1>1 DEF Follows, Behind
<1>4. c \in k..Len(frames) /\ y \in Nat /\ c \in Nat
  BY <1>1, <1>3 DEF Goes
<1>5. \A j \in 0..Len(stream') : Behind(j, c, y)' = Behind(m + j, k, x) /\ m + j \in 1..Len(stream)
  <2> SUFFICES ASSUME NEW j \in 0..Len(stream')
               PROVE  Behind(j, c, y)' = Behind(m + j, k, x) /\ m + j \in 1..Len(stream)
    OBVIOUS
  <2>1. j \in Int /\ m + j \in 1..Len(stream) /\ m + j # 0
    BY <1>10
  <2>2. CASE j = 0
    <3>1. m + j = m
      BY <1>10, <2>2
    <3>2. QED
      BY <1>3, <2>1, <2>2, <3>1 DEF Behind
  <2>3. CASE j # 0
    <3>1. j \in 1..Len(stream')
      BY <2>3, <1>10
    <3>2. QED
      BY <1>2, <2>1, <2>3, <3>1 DEF Behind
  <2>4. QED
    BY <2>2, <2>3
<1>6. frames' = frames /\ \A f : Size(f)' = Size(f)
  BY DEF Size, Takes
<1>7. ASSUME NEW j \in 0..Len(stream') PROVE Goes(j, c, y)'
  <2> DEFINE u == Behind(m + j, k, x)
  <2>1. Goes(m + j, k, x) /\ Behind(j, c, y)' = u /\ m + j \in 1..Len(stream)
    BY <1>5, <1>1 DEF Follows
  <2>2. u[1] \in k..Len(frames) /\ u[2] \in 0..Size(u[1]) /\ u[2] > 0
    BY <2>1 DEF Goes
  <2>9. \A i \in 1..(Size(u[1]) - u[2]) :
           (m + j) + i <= Len(stream) /\ stream[(m + j) + i] = <<u[1], u[2] + i>>
    BY <2>1 DEF Goes
  <2>3. c <= u[1]
    <3>1. m + j \in m..Len(stream)
      BY <2>1, <1>2, <1>1
    <3>2. QED
      BY <1>3, <3>1 DEF Goes
  <2>4. u[1] \in c..Len(frames)
    BY <1>1, <1>4, <2>2, <2>3
  <2>5. ASSUME NEW i \in 1..(Size(u[1]) - u[2])
        PROVE j + i <= Len(stream') /\ stream'[j + i] = <<u[1], u[2] + i>>
    <3> HIDE DEF u
    <3>4. u[1] \in 0..Len(frames)
      BY <1>1, <2>2
    <3>5. Size(u[1]) \in Nat
      BY <1>1, <3>4
    <3>0. Size(u[1]) - u[2] \in Int
      BY <2>2, <3>5
    <3>1. i \in Int /\ i > 0 /\ (m + j) + i <= Len(stream) /\ stream[(m + j) + i] = <<u[1], u[2] + i>>
      BY <2>5, <2>9, <3>0
    <3>2. PICK d \in 1..Len(stream') : d = j + i /\ m + d = (m + j) + i
      BY <1>10, <3>1
    <3>6. stream'[d] = stream[m + d]
      BY <1>2
    <3>3. QED
      BY <1>10, <3>1, <3>2, <3>6
  <2>6. ASSUME u[2] = Size(u[1])
        PROVE IF j = Len(stream') THEN u[1] = Len(frames) ELSE stream'[j + 1] = <<u[1] + 1, 1>>
    <3>1. IF m + j = Len(stream) THEN u[1] = Len(frames) ELSE stream[(m + j) + 1] = <<u[1] + 1, 1>>
      BY <2>1, <2>6 DEF Goes
    <3>2. m + j = Len(stream) <=> j = Len(stream')
      BY <1>1, <1>2
    <3>3. j # Len(stream') => j + 1 \in 1..Len(stream') /\ m + (j + 1) = (m + j) + 1
      BY <1>10
    <3>4. QED
      BY <1>2, <3>1, <3>2, <3>3
  <2>7. ASSUME NEW i \in j..Len(stream') PROVE u[1] <= (Behind(i, c, y)')[1]
    <3>1. i \in 0..Len(stream') /\ m + i \in (m + j)..Len(stream)
      BY <1>10, <2>7
    <3>2. Behind(i, c, y)' = Behind(m + i, k, x)
      BY <1>5, <3>1
    <3>3. QED
      BY <2>1, <3>1, <3>2 DEF Goes
  <2> HIDE DEF u
  <2>8. QED
    BY <1>6, <2>1, <2>2, <2>4, <2>5, <2>6, <2>7 DEF Goes
<1>8. ASSUME NEW f \in (c + 1)..Len(frames) PROVE \E i \in 1..Len(stream') : stream'[i] = <<f, 1>>
  <2>1. f \in (k + 1)..Len(frames) /\ f > c
    BY <1>1, <1>4, <1>8
  <2>2. PICK i \in 1..Len(stream) : stream[i] = <<f, 1>>
    BY <2>1 DEF Follows
  <2>3. i > m
    <3>1. SUFFICES ASSUME i <= m PROVE FALSE
      BY <1>1
    <3>2. Goes(i, k, x) /\ Behind(i, k, x) = <<f, 1>> /\ m \in i..Len(stream)
      BY <1>1, <2>2, <3>1 DEF Follows, Behind
    <3>3. f <= Behind(m, k, x)[1]
      BY <3>2 DEF Goes
    <3>4. QED
      BY <1>3, <1>4, <2>1, <3>3
  <2>4. i - m \in 1..Len(stream') /\ m + (i - m) = i
    BY <1>1, <1>2, <2>3
  <2>5. QED
    BY <1>2, <2>2, <2>4
<1>9. QED
  BY <1>4, <1>6, <1>7, <1>8 DEF Follows

LEMMA Joined ==
  ASSUME NEW S
  PROVE \A s, u \in Seq(S) : /\ Len(s \o u) = Len(s) + Len(u)
                             /\ \A i \in 1..Len(s) : (s \o u)[i] = s[i]
                             /\ \A i \in 1..Len(u) : (s \o u)[Len(s) + i] = u[i]
<1> SUFFICES ASSUME NEW s \in Seq(S), NEW u \in Seq(S)
             PROVE /\ Len(s \o u) = Len(s) + Len(u)
                   /\ \A i \in 1..Len(s) : (s \o u)[i] = s[i]
                   /\ \A i \in 1..Len(u) : (s \o u)[Len(s) + i] = u[i]
  OBVIOUS
<1>1. \A i \in 1..Len(u) : Len(s) + i \in 1..Len(s \o u) /\ ~(Len(s) + i <= Len(s)) /\ (Len(s) + i) - Len(s) = i
  OBVIOUS
<1>2. \A i \in 1..Len(s) : i \in 1..Len(s \o u) /\ i <= Len(s)
  OBVIOUS
<1>3. QED
  BY <1>1, <1>2

\* What the peer sends goes behind the last unit of the stream.
LEMMA FollowsSent ==
  ASSUME Framed, NEW k \in Nat, NEW x \in Nat, Follows(k, x),
         NEW op \in Ops, NEW len \in 0..MaxLen, NEW res \in 0..MaxRequests, PeerSends(op, len, res)
  PROVE Follows(k, x)' /\ Len(frames') = Len(frames) + 1
        /\ \A f \in 1..Len(frames) : frames'[f] = frames[f]
<1>0. PICK n, l : n = Len(frames) /\ l = Len(stream)
  OBVIOUS
<1>1. /\ k \in 0..n /\ x \in 0..Size(k) /\ n \in Nat /\ l \in Nat /\ len \in Nat
      /\ \A f \in 0..n : Size(f) \in Nat
  BY <1>0, FollowsTyped, FramingConstants
<1>2. /\ Len(frames') = n + 1 /\ \A f \in 1..n : frames'[f] = frames[f]
      /\ frames'[n + 1].len = len
  BY <1>0 DEF PeerSends, Framed
<1>3. /\ \A f \in 0..n : Size(f)' = Size(f)
      /\ Size(n + 1)' = len + 2
  <2>1. ASSUME NEW f \in 0..n PROVE Size(f)' = Size(f)
    <3>1. f = 0 \/ (f \in 1..n /\ f # 0)
      BY <1>1
    <3>2. QED
      BY <1>2, <3>1 DEF Size
  <2>2. n + 1 # 0
    BY <1>1
  <2>3. Size(n + 1)' = len + 2
    BY <1>2, <2>2 DEF Size
  <2>4. QED
    BY <2>1, <2>3
<1>4. /\ Len(stream') = l + len + 2
      /\ \A i \in 1..l : stream'[i] = stream[i]
      /\ \A i \in 1..(len + 2) : stream'[l + i] = <<n + 1, i>>
  <2> DEFINE S == Units(n + 1)
             units == [i \in 1..len + 2 |-> <<n + 1, i>>]
  <2>1. units \in Seq(S) /\ Len(units) = len + 2 /\ \A i \in 1..(len + 2) : units[i] = <<n + 1, i>>
    BY <1>1 DEF Units
  <2>2. stream \in Seq(S)
    BY <1>0, <1>1, UnitsGrow DEF Framed
  <2>3. stream' = stream \o units
    BY <1>0 DEF PeerSends
  <2> HIDE DEF S, units
  <2>5. /\ Len(stream \o units) = l + Len(units)
        /\ \A i \in 1..l : (stream \o units)[i] = stream[i]
        /\ \A i \in 1..Len(units) : (stream \o units)[l + i] = units[i]
    <3>0. units \in Seq(S) /\ stream \in Seq(S)
      BY <2>1, <2>2, Zenon
    <3>1. /\ Len(stream \o units) = Len(stream) + Len(units)
          /\ \A i \in 1..Len(stream) : (stream \o units)[i] = stream[i]
          /\ \A i \in 1..Len(units) : (stream \o units)[Len(stream) + i] = units[i]
      <4>1. \A s, u \in Seq(S) : /\ Len(s \o u) = Len(s) + Len(u)
                                 /\ \A i \in 1..Len(s) : (s \o u)[i] = s[i]
                                 /\ \A i \in 1..Len(u) : (s \o u)[Len(s) + i] = u[i]
        BY ONLY Joined
      <4>2. QED
        BY <3>0, <4>1, Zenon
    <3>2. QED
      BY <1>0, <3>1, Zenon
  <2>6. l + Len(units) = l + len + 2
    BY <1>1, <2>1
  <2>7. PICK w : w = stream \o units
    OBVIOUS
  <2>8. /\ Len(w) = l + len + 2
        /\ \A i \in 1..l : w[i] = stream[i]
        /\ \A i \in 1..Len(units) : w[l + i] = units[i]
    BY <2>5, <2>6, <2>7, Zenon
  <2>4. QED
    BY <2>1, <2>3, <2>7, <2>8
<1>5. /\ \A j \in 0..l : Behind(j, k, x)' = Behind(j, k, x)
      /\ \A i \in 1..(len + 2) : Behind(l + i, k, x)' = <<n + 1, i>>
  <2>1. ASSUME NEW j \in 0..l PROVE Behind(j, k, x)' = Behind(j, k, x)
    <3>1. j = 0 \/ (j \in 1..l /\ j # 0)
      BY <1>1
    <3>2. QED
      BY <1>4, <3>1 DEF Behind
  <2>2. ASSUME NEW i \in 1..(len + 2) PROVE Behind(l + i, k, x)' = <<n + 1, i>>
    <3>1. l + i # 0
      BY <1>1
    <3>2. QED
      BY <1>4, <3>1 DEF Behind
  <2>3. QED
    BY <2>1, <2>2
<1>6. \A j \in 0..Len(stream') : j \in 0..l \/ \E i \in 1..(len + 2) : j = l + i
  <2> SUFFICES ASSUME NEW j \in 0..Len(stream'), j \notin 0..l PROVE \E i \in 1..(len + 2) : j = l + i
    OBVIOUS
  <2>1. j - l \in 1..(len + 2) /\ j = l + (j - l)
    BY <1>1, <1>4
  <2>2. QED
    BY <2>1
<1>7. ASSUME NEW j \in 0..l PROVE Goes(j, k, x)'
  <2>1. PICK u : u = Behind(j, k, x)
    OBVIOUS
  <2>2. Behind(j, k, x)' = u
    BY <1>5, <2>1
  <2>3. /\ u[1] \in k..n /\ u[2] \in 0..Size(u[1]) /\ (j > 0 => u[2] > 0)
        /\ \A i \in 1..(Size(u[1]) - u[2]) : j + i <= l /\ stream[j + i] = <<u[1], u[2] + i>>
        /\ u[2] = Size(u[1]) => IF j = l THEN u[1] = n ELSE stream[j + 1] = <<u[1] + 1, 1>>
        /\ \A i \in j..l : u[1] <= Behind(i, k, x)[1]
    BY <1>0, <2>1, <1>7 DEF Follows, Goes
  <2>4. u[1] \in 0..n /\ Size(u[1])' = Size(u[1]) /\ u[1] \in k..Len(frames') /\ u[1] <= n + 1
    <3>1. PICK c \in k..n : c = u[1]
      BY <2>3
    <3>2. c \in 0..n /\ c \in k..(n + 1) /\ c <= n + 1
      BY <1>1
    <3>3. QED
      BY <1>2, <1>3, <3>1, <3>2
  <2>5. Size(u[1]) \in Nat /\ u[2] \in Nat
    BY <1>1, <2>3, <2>4
  <2>6. ASSUME NEW i \in 1..(Size(u[1]) - u[2])
        PROVE j + i <= Len(stream') /\ stream'[j + i] = <<u[1], u[2] + i>>
    <3>1. j + i \in 1..l /\ stream[j + i] = <<u[1], u[2] + i>>
      BY <1>1, <2>3, <2>5
    <3>2. stream'[j + i] = stream[j + i]
      BY <1>4, <3>1
    <3>3. j + i <= Len(stream')
      BY <1>1, <1>4, <3>1
    <3>4. QED
      BY <3>1, <3>2, <3>3
  <2>7. ASSUME u[2] = Size(u[1]) PROVE stream'[j + 1] = <<u[1] + 1, 1>> /\ j # Len(stream')
    <3>1. j # Len(stream')
      BY <1>1, <1>4
    <3>2. CASE j = l
      <4>1. u[1] = n
        BY <2>3, <2>7, <3>2
      <4>2. 1 \in 1..(len + 2)
        BY <1>1
      <4>3. QED
        BY <1>4, <3>1, <3>2, <4>1, <4>2
    <3>3. CASE j # l
      <4>1. j + 1 \in 1..l
        BY <1>1, <3>3
      <4>2. QED
        BY <1>4, <2>3, <2>7, <3>1, <3>3, <4>1
    <3>4. QED
      BY <3>2, <3>3
  <2>8. ASSUME NEW i \in j..Len(stream') PROVE u[1] <= (Behind(i, k, x)')[1]
    <3>1. i \in 0..Len(stream')
      BY <1>1, <1>4
    <3>2. CASE i \in 0..l
      <4>1. i \in j..l
        BY <1>1, <2>8, <3>2
      <4>2. QED
        BY <1>5, <2>3, <3>2, <4>1
    <3>3. CASE \E d \in 1..(len + 2) : i = l + d
      BY <1>5, <2>4, <3>3
    <3>4. QED
      BY <1>6, <3>1, <3>2, <3>3
  <2>9. u[2] \in 0..Size(u[1])'
    BY <2>3, <2>4
  <2>10. QED
    BY <2>2, <2>3, <2>4, <2>6, <2>7, <2>8, <2>9 DEF Goes
<1>8. ASSUME NEW d \in 1..(len + 2) PROVE Goes(l + d, k, x)'
  <2>1. PICK u : u = <<n + 1, d>>
    OBVIOUS
  <2>2. Behind(l + d, k, x)' = u /\ u[1] = n + 1 /\ u[2] = d
    BY <1>5, <2>1
  <2>3. /\ u[1] \in k..Len(frames') /\ u[2] \in 0..Size(u[1])' /\ u[2] > 0 /\ Size(u[1])' = len + 2
    BY <1>1, <1>2, <1>3, <2>2
  <2>4. ASSUME NEW i \in 1..(len + 2 - d)
        PROVE (l + d) + i <= Len(stream') /\ stream'[(l + d) + i] = <<n + 1, d + i>>
    <3>1. PICK e \in 1..(len + 2) : e = d + i /\ l + e = (l + d) + i
      BY <1>1, <2>4
    <3>2. stream'[l + e] = <<n + 1, e>>
      BY <1>4
    <3>4. l + e <= Len(stream')
      BY <1>1, <1>4
    <3>3. QED
      BY <3>1, <3>2, <3>4
  <2>5. d = len + 2 => l + d = Len(stream') /\ u[1] = Len(frames')
    BY <1>1, <1>2, <1>4, <2>2
  <2>6. ASSUME NEW i \in (l + d)..Len(stream') PROVE u[1] <= (Behind(i, k, x)')[1]
    <3>1. PICK e \in 1..(len + 2) : i = l + e
      <4>1. i \in 0..Len(stream') /\ i \notin 0..l
        BY <1>1, <1>4
      <4>2. QED
        BY <1>6, <4>1
    <3>2. (Behind(i, k, x)')[1] = n + 1
      BY <1>5, <3>1
    <3>3. QED
      BY <1>1, <2>2, <3>2
  <2>8. \A i \in 1..(Size(u[1])' - u[2]) :
           (l + d) + i <= Len(stream') /\ stream'[(l + d) + i] = <<u[1], u[2] + i>>
    BY <2>2, <2>3, <2>4
  <2>9. u[2] = Size(u[1])' => IF l + d = Len(stream') THEN u[1] = Len(frames')
                              ELSE stream'[(l + d) + 1] = <<u[1] + 1, 1>>
    BY <2>2, <2>3, <2>5
  <2>7. QED
    BY <2>2, <2>3, <2>6, <2>8, <2>9 DEF Goes
<1>9. \A j \in 0..Len(stream') : Goes(j, k, x)'
  BY <1>6, <1>7, <1>8
<1>10. ASSUME NEW f \in (k + 1)..(n + 1) PROVE \E i \in 1..Len(stream') : stream'[i] = <<f, 1>>
  <2>1. CASE f = n + 1
    <3>1. 1 \in 1..(len + 2) /\ l + 1 \in 1..Len(stream')
      BY <1>1, <1>4
    <3>2. QED
      BY <1>4, <2>1, <3>1
  <2>2. CASE f # n + 1
    <3>1. f \in (k + 1)..n
      BY <1>1, <2>2
    <3>2. PICK i \in 1..l : stream[i] = <<f, 1>>
      BY <1>0, <3>1 DEF Follows
    <3>3. i \in 1..Len(stream') /\ stream'[i] = stream[i]
      BY <1>1, <1>4
    <3>4. QED
      BY <3>2, <3>3
  <2>3. QED
    BY <2>1, <2>2
<1>11. Follows(k, x)'
  BY <1>2, <1>9, <1>10 DEF Follows
<1>12. QED
  BY <1>0, <1>2, <1>11

-----------------------------------------------------------------------------
(* What is listed in order stays so when something larger comes behind it. *)
LEMMA ListsMore ==
  ASSUME NEW s, NEW S, Lists(s, S), DOMAIN s \subseteq Nat, S \subseteq Nat,
         NEW n \in Nat, \A i \in DOMAIN s : i < n,
         NEW e \in Nat, \A f \in S : f < e,
         NEW t, DOMAIN t = DOMAIN s \cup {n}, t[n] = e, \A i \in DOMAIN s : t[i] = s[i]
  PROVE Lists(t, S \cup {e})
<1>1. {t[i] : i \in DOMAIN t} = S \cup {e}
  <2>1. {s[i] : i \in DOMAIN s} = S
    BY DEF Lists
  <2>2. \A i \in DOMAIN s : t[i] = s[i] /\ i \in DOMAIN t
    OBVIOUS
  <2>3. QED
    BY <2>1, <2>2
<1>2. ASSUME NEW i \in DOMAIN t, NEW j \in DOMAIN t, i < j PROVE t[i] < t[j]
  <2>1. i \in DOMAIN s
    BY <1>2
  <2>2. s[i] \in S /\ t[i] = s[i]
    BY <2>1 DEF Lists
  <2>3. CASE j = n
    BY <2>2, <2>3
  <2>4. CASE j \in DOMAIN s
    BY <1>2, <2>1, <2>2, <2>4 DEF Lists
  <2>5. QED
    BY <2>3, <2>4
<1>3. QED
  BY <1>1, <1>2 DEF Lists

(* The pongs among the writes, and what one more write makes of them.      *)
PongsOf(ws) == [i \in {j \in DOMAIN ws : ws[j].op = "pong"} |-> ws[i].id]

LEMMA OtherWrite ==
  ASSUME NEW ws, IsSeq(ws), NEW w, w.op # "pong"
  PROVE PongsOf(Append(ws, w)) = PongsOf(ws)
<1>1. {j \in DOMAIN Append(ws, w) : Append(ws, w)[j].op = "pong"} = {j \in DOMAIN ws : ws[j].op = "pong"}
  BY Longer
<1>2. \A j \in DOMAIN ws : Append(ws, w)[j] = ws[j]
  BY Longer
<1>3. QED
  BY <1>1, <1>2 DEF PongsOf

LEMMA PongWrite ==
  ASSUME NEW ws, IsSeq(ws), NEW w, w.op = "pong"
  PROVE /\ Len(ws) \in Nat /\ DOMAIN PongsOf(ws) \subseteq 1..Len(ws)
        /\ DOMAIN PongsOf(Append(ws, w)) = DOMAIN PongsOf(ws) \cup {Len(ws) + 1}
        /\ PongsOf(Append(ws, w))[Len(ws) + 1] = w.id
        /\ \A i \in DOMAIN PongsOf(ws) : PongsOf(Append(ws, w))[i] = PongsOf(ws)[i]
<1>1. /\ Len(ws) \in Nat /\ DOMAIN ws = 1..Len(ws)
      /\ DOMAIN Append(ws, w) = 1..(Len(ws) + 1)
      /\ Append(ws, w)[Len(ws) + 1] = w
      /\ \A i \in DOMAIN ws : Append(ws, w)[i] = ws[i]
  BY Longer
<1>2. DOMAIN Append(ws, w) = DOMAIN ws \cup {Len(ws) + 1}
  BY <1>1
<1>3. {j \in DOMAIN Append(ws, w) : Append(ws, w)[j].op = "pong"}
        = {j \in DOMAIN ws : ws[j].op = "pong"} \cup {Len(ws) + 1}
  BY <1>1, <1>2
<1>4. QED
  BY <1>1, <1>3 DEF PongsOf

LEMMA RaiseWrites ==
  ASSUME call \in Reads \cup {"connect"}, NEW error, NEW sent, IsSeq(sent), Raises(error, sent)
  PROVE /\ Idle /\ PongsOf(out') = PongsOf(sent)
        /\ open' = open \/ open' = "no"
<1>1. Idle /\ (open' = open \/ open' = "no")
  BY DEF Raises, FlushFails, Closes, Reads
<1>2. PICK w : w = [op |-> "close", id |-> 0, end |-> "whole"]
  OBVIOUS
<1>3. out' = sent \/ out' = Append(sent, w)
  BY <1>2 DEF Raises, FlushFails, Closes, Reads
<1>4. w.op # "pong"
  BY <1>2
<1>5. PongsOf(Append(sent, w)) = PongsOf(sent)
  BY <1>4, OtherWrite
<1>6. PongsOf(out') = PongsOf(sent)
  BY <1>3, <1>5
<1>7. QED
  BY <1>1, <1>6

-----------------------------------------------------------------------------
(* The texts and the pings among the first m frames have been handled.     *)
Answered(m) ==
  /\ Lists(texts, {f \in 1..m : frames[f].op = "text"})
  /\ Lists(Pongs, {f \in 1..m : frames[f].op = "ping"})

(* Unit x of frame k is the last one that was read.  The reader is between *)
(* frames, in the header of frame k, or in its payload.                    *)
Between(k, x) ==
  /\ part # "payload" /\ got = <<>> /\ head = NoHead
  /\ (k = 0 /\ open # "yes") \/ x = Size(k)
  /\ Answered(k)
InHeader(k, x) ==
  /\ part # "payload" /\ got # <<>> /\ head = NoHead
  /\ k > 0 /\ x = Len(got) /\ \A i \in 1..Len(got) : got[i] = <<k, i>>
  /\ Answered(k - 1)
InPayload(k, x) ==
  /\ part = "payload"
  /\ k > 0 /\ head = [of |-> k, op |-> frames[k].op, len |-> frames[k].len]
  /\ x = Len(got) + 2 /\ \A i \in 1..Len(got) : got[i] = <<k, i + 2>>
  /\ Answered(k - 1)

At(k, x) == Follows(k, x) /\ (Between(k, x) \/ InHeader(k, x) \/ InPayload(k, x))
InStep == ~cut => \E k, x \in Nat : At(k, x)

(* A frame is read on an open session only, and nothing is kept of one     *)
(* between two calls.                                                      *)
Ready ==
  /\ call \in Reads => open = "yes"
  /\ call \notin Reads => got = <<>>
  /\ texts \in Seq(Nat)

LEMMA ReadyStep ==
  ASSUME Places, Framed, Ready, [Next]_fvars
  PROVE Ready'
<1> USE DEF Ready, Reads
<1>1. CASE Connect
  BY <1>1 DEF Connect
<1>2. CASE ReadLine
  BY <1>2 DEF ReadLine, Idle, reader
<1>3. ASSUME NEW error, NEW sent, call # "none", Raises(error, sent), texts' \in Seq(Nat)
      PROVE Ready'
  BY <1>3 DEF Raises, Closes, FlushFails, Idle, Places
<1>4. CASE Refused
  BY <1>3, <1>4 DEF Refused
<1>5. CASE Poll
  BY <1>5 DEF Poll
<1>6. CASE Request
  BY <1>6 DEF Request, FlushFails, Closes, Idle
<1>7. CASE ReadSome
  BY <1>7 DEF ReadSome, Reading
<1>8. ASSUME NEW error, ReadFails(error) PROVE Ready'
  BY <1>3, <1>8 DEF ReadFails, Reading
<1>9. CASE HeaderRead
  BY <1>9 DEF HeaderRead
<1>10. CASE Text
  <2>1. call # "none"
    BY <1>10 DEF Text, FrameRead, Places
  <2>2. Raises("ValueError", out) \/ ((ReadsNext \/ Idle) /\ UNCHANGED open)
    BY <1>10 DEF Text
  <2>3. texts' \in Seq(Nat)
    <3>1. head.of \in Nat /\ 0 \in Nat
      BY DEF Framed
    <3>2. PICK f \in {0, head.of} : texts' = texts \/ texts' = Append(texts, f)
      BY <1>10 DEF Text
    <3>3. f \in Nat
      BY <3>1, <3>2
    <3>4. QED
      BY <3>2, <3>3
  <2>4. QED
    BY <1>3, <2>1, <2>2, <2>3 DEF ReadsNext, Idle, Places
<1>11. CASE Ping
  <2>1. call # "none"
    BY <1>11 DEF Ping, FrameRead, Places
  <2>2. (ReadsNext /\ UNCHANGED open) \/ \E error, sent : Raises(error, sent)
    BY <1>11 DEF Ping
  <2>3. texts' = texts
    BY <1>11 DEF Ping
  <2>4. QED
    BY <1>3, <2>1, <2>2, <2>3 DEF ReadsNext
<1>12. CASE PongRead
  BY <1>12 DEF PongRead, FrameRead, ReadsNext
<1>13. CASE PeerCloses
  BY <1>13 DEF PeerCloses, Idle
<1>14. CASE Unsupported
  BY <1>3, <1>14 DEF Unsupported, FrameRead, Places
<1>15. CASE Peer
  BY <1>15 DEF Peer, PeerSends, reader
<1>16. CASE UNCHANGED fvars
  BY <1>16 DEF fvars, reader
<1>17. QED
  BY <1>1, <1>2, <1>4, <1>5, <1>6, <1>7, <1>8, <1>9, <1>10, <1>11, <1>12, <1>13, <1>14,
     <1>15, <1>16
  DEF Next, Answer, Read, TimesOut, Breaks, Handle

-----------------------------------------------------------------------------
LEMMA FollowsKept ==
  ASSUME NEW k, NEW x, UNCHANGED <<frames, stream>>
  PROVE (Follows(k, x) => Follows(k, x)') /\ \A f : Size(f)' = Size(f)
<1>1. \A f : Size(f)' = Size(f)
  BY DEF Size
<1>2. \A j : Behind(j, k, x)' = Behind(j, k, x)
  BY DEF Behind
<1>3. \A j : Goes(j, k, x)' <=> Goes(j, k, x)
  BY <1>1, <1>2 DEF Goes
<1>4. QED
  BY <1>1, <1>3 DEF Follows

LEMMA AnsweredKept ==
  ASSUME NEW m \in Nat, Answered(m), texts' = texts, Pongs' = Pongs,
         \A f \in 1..m : frames'[f] = frames[f]
  PROVE Answered(m)'
<1>1. \A op : {f \in 1..m : frames'[f].op = op} = {f \in 1..m : frames[f].op = op}
  OBVIOUS
<1>2. QED
  BY <1>1 DEF Answered

(* A step that takes nothing from the stream and leaves the reader between *)
(* frames, where it was.                                                   *)
LEMMA StaysBetween ==
  ASSUME NEW k \in Nat, NEW x \in Nat, Follows(k, x), Between(k, x),
         UNCHANGED <<frames, stream, texts>>, Pongs' = Pongs,
         part' # "payload", got' = <<>>, head' = NoHead,
         open' = open \/ open' = "no"
  PROVE At(k, x)'
<1>1. Follows(k, x)' /\ Size(k)' = Size(k)
  BY FollowsKept
<1>2. Answered(k)'
  BY AnsweredKept DEF Between
<1>3. (k = 0 /\ open' # "yes") \/ x = Size(k)'
  BY <1>1 DEF Between
<1>4. Between(k, x)'
  BY <1>2, <1>3 DEF Between
<1>5. QED
  BY <1>1, <1>4 DEF At

(* The end of frame k. *)
LEMMA FrameEnds ==
  ASSUME NEW k \in Nat, NEW x \in Nat, Follows(k, x), x = Size(k),
         UNCHANGED <<frames, stream>>, Answered(k)',
         part' # "payload", got' = <<>>, head' = NoHead
  PROVE At(k, x)'
<1>1. Follows(k, x)' /\ Size(k)' = Size(k)
  BY FollowsKept
<1>2. Between(k, x)'
  BY <1>1 DEF Between
<1>3. QED
  BY <1>1, <1>2 DEF At

-----------------------------------------------------------------------------
(* What is answered once frame k is. *)
Of(op, m) == {f \in 1..m : frames[f].op = op}

LEMMA OneMoreFrame ==
  ASSUME NEW k \in Nat \ {0}, NEW op
  PROVE /\ k - 1 \in Nat
        /\ Of(op, k) = IF frames[k].op = op THEN Of(op, k - 1) \cup {k} ELSE Of(op, k - 1)
        /\ Of(op, k - 1) \subseteq Nat /\ \A f \in Of(op, k - 1) : f < k
<1>1. 1..k = (1..(k - 1)) \cup {k} /\ k - 1 \in Nat /\ \A f \in 1..(k - 1) : f \in Nat /\ f < k
  OBVIOUS
<1>2. QED
  BY <1>1 DEF Of

LEMMA AnsweredText ==
  ASSUME NEW k \in Nat \ {0}, Answered(k - 1), frames[k].op = "text", UNCHANGED frames,
         texts \in Seq(Nat), texts' = Append(texts, k), Pongs' = Pongs
  PROVE Answered(k)'
<1>1. /\ Of("text", k) = Of("text", k - 1) \cup {k} /\ Of("ping", k) = Of("ping", k - 1)
      /\ Of("text", k - 1) \subseteq Nat /\ \A f \in Of("text", k - 1) : f < k
  BY OneMoreFrame
<1>2. Lists(texts, Of("text", k - 1)) /\ Lists(Pongs, Of("ping", k - 1))
  BY DEF Answered, Of
<1>3. PICK n : n = Len(texts) + 1
  OBVIOUS
<1>4. /\ n \in Nat /\ DOMAIN texts \subseteq Nat /\ \A i \in DOMAIN texts : i < n
      /\ DOMAIN texts' = DOMAIN texts \cup {n} /\ texts'[n] = k
      /\ \A i \in DOMAIN texts : texts'[i] = texts[i]
  BY <1>3
<1> HIDE DEF Of
<1>5. Lists(texts', Of("text", k - 1) \cup {k})
  <2>1. PICK S, s, t : S = Of("text", k - 1) /\ s = texts /\ t = texts'
    OBVIOUS
  <2>2. k \in Nat /\ n \in Nat
    BY <1>4
  <2>4. Lists(s, S) /\ S \subseteq Nat /\ \A f \in S : f < k
    BY <1>1, <1>2, <2>1
  <2>5. /\ DOMAIN s \subseteq Nat /\ \A i \in DOMAIN s : i < n
        /\ DOMAIN t = DOMAIN s \cup {n} /\ t[n] = k
        /\ \A i \in DOMAIN s : t[i] = s[i]
    BY <1>4, <2>1
  <2>6. Lists(t, S \cup {k})
    BY ONLY <2>2, <2>4, <2>5, ListsMore, Zenon
  <2>7. QED
    BY <2>1, <2>6
<1>6. QED
  BY <1>1, <1>2, <1>5 DEF Answered, Of

LEMMA AnsweredPing ==
  ASSUME NEW k \in Nat \ {0}, Answered(k - 1), frames[k].op = "ping", UNCHANGED <<frames, texts>>,
         IsSeq(out), NEW w, w.op = "pong", w.id = k, Pongs' = PongsOf(Append(out, w))
  PROVE Answered(k)'
<1>1. /\ Of("ping", k) = Of("ping", k - 1) \cup {k} /\ Of("text", k) = Of("text", k - 1)
      /\ Of("ping", k - 1) \subseteq Nat /\ \A f \in Of("ping", k - 1) : f < k
  BY OneMoreFrame
<1>2. Lists(texts, Of("text", k - 1)) /\ Lists(Pongs, Of("ping", k - 1)) /\ Pongs = PongsOf(out)
  BY DEF Answered, Of, Pongs, PongsOf, Sent
<1>3. PICK n : n = Len(out) + 1
  OBVIOUS
<1>4. /\ n \in Nat /\ DOMAIN Pongs \subseteq Nat /\ \A i \in DOMAIN Pongs : i < n
      /\ DOMAIN Pongs' = DOMAIN Pongs \cup {n} /\ Pongs'[n] = k
      /\ \A i \in DOMAIN Pongs : Pongs'[i] = Pongs[i]
  <2>1. /\ Len(out) \in Nat /\ DOMAIN PongsOf(out) \subseteq 1..Len(out)
        /\ DOMAIN PongsOf(Append(out, w)) = DOMAIN PongsOf(out) \cup {Len(out) + 1}
        /\ PongsOf(Append(out, w))[Len(out) + 1] = w.id
        /\ \A i \in DOMAIN PongsOf(out) : PongsOf(Append(out, w))[i] = PongsOf(out)[i]
    BY PongWrite
  <2>2. DOMAIN Pongs \subseteq 1..Len(out) /\ Len(out) \in Nat
    BY <1>2, <2>1
  <2>3. n \in Nat /\ DOMAIN Pongs \subseteq Nat /\ \A i \in DOMAIN Pongs : i < n
    BY <1>3, <2>2
  <2>4. QED
    BY <1>2, <1>3, <2>1, <2>3
<1>5. Lists(Pongs', Of("ping", k - 1) \cup {k})
  <2>1. PICK S : S = Of("ping", k - 1)
    OBVIOUS
  <2>2. k \in Nat /\ n \in Nat
    BY <1>4
  <2>3. PICK s, t : s = Pongs /\ t = Pongs'
    OBVIOUS
  <2>4. Lists(s, S) /\ S \subseteq Nat /\ \A f \in S : f < k
    BY <1>1, <1>2, <2>1, <2>3
  <2>5. /\ DOMAIN s \subseteq Nat /\ \A i \in DOMAIN s : i < n
        /\ DOMAIN t = DOMAIN s \cup {n} /\ t[n] = k
        /\ \A i \in DOMAIN s : t[i] = s[i]
    BY <1>4, <2>3
  <2>6. Lists(t, S \cup {k})
    BY ONLY <2>2, <2>4, <2>5, ListsMore, Zenon
  <2>7. QED
    BY <2>1, <2>3, <2>6
<1>6. QED
  BY <1>1, <1>2, <1>5 DEF Answered, Of

LEMMA AnsweredOther ==
  ASSUME NEW k \in Nat \ {0}, Answered(k - 1), frames[k].op \notin {"text", "ping"},
         UNCHANGED <<frames, texts>>, Pongs' = Pongs
  PROVE Answered(k)'
<1>1. Of("ping", k) = Of("ping", k - 1) /\ Of("text", k) = Of("text", k - 1)
  BY OneMoreFrame
<1>2. QED
  BY <1>1 DEF Answered, Of

(* Reading a piece of the frame in hand, or the first of the next frame.   *)
LEMMA Taken ==
  ASSUME Framed, NEW n \in 1..Len(stream), got' = got \o SubSeq(stream, 1, n)
  PROVE /\ Len(got) \in Nat /\ Len(got') = Len(got) + n
        /\ \A i \in 1..Len(got) : got'[i] = got[i]
        /\ \A i \in 1..n : got'[Len(got) + i] = stream[i]
<1> DEFINE S == Units(Len(frames))
<1>1. got \in Seq(S) /\ stream \in Seq(S)
  BY DEF Framed
<1> HIDE DEF S
<1>2. PICK p : p = SubSeq(stream, 1, n)
  OBVIOUS
<1>3. p \in Seq(S)
  BY <1>1, <1>2, Part
<1>4. Len(p) = n /\ \A i \in 1..n : p[i] = stream[i]
  BY <1>1, <1>2
<1>5. \A s, u \in Seq(S) : /\ Len(s \o u) = Len(s) + Len(u)
                           /\ \A i \in 1..Len(s) : (s \o u)[i] = s[i]
                           /\ \A i \in 1..Len(u) : (s \o u)[Len(s) + i] = u[i]
  BY ONLY Joined
<1>6. /\ Len(got \o p) = Len(got) + Len(p)
      /\ \A i \in 1..Len(got) : (got \o p)[i] = got[i]
      /\ \A i \in 1..Len(p) : (got \o p)[Len(got) + i] = p[i]
  BY <1>1, <1>3, <1>5, Zenon
<1>7. Len(got) \in Nat /\ got' = got \o p
  BY <1>1, <1>2
<1>8. QED
  BY <1>4, <1>6, <1>7

-----------------------------------------------------------------------------
LEMMA StepConnect ==
  ASSUME Connect
  PROVE InStep'
<1>1. /\ frames' = <<>> /\ stream' = <<<<0, 1>>, <<0, 2>>, <<0, 3>>>>
      /\ part' = "line" /\ got' = <<>> /\ head' = NoHead /\ open' = "handshake"
      /\ out' = <<>> /\ texts' = <<>>
  BY DEF Connect
<1>2. Len(frames') = 0 /\ Len(stream') = 3
      /\ \A i \in 1..3 : stream'[i] = <<0, i>>
  BY <1>1
<1>3. Size(0)' = 3
  BY DEF Size
<1>4. \A j \in 0..3 : Behind(j, 0, 0)' = <<0, j>>
  BY <1>2 DEF Behind
<1>5. ASSUME NEW j \in 0..3 PROVE Goes(j, 0, 0)'
  <2>1. \A i \in 1..(3 - j) : j + i <= 3 /\ stream'[j + i] = <<0, j + i>>
    BY <1>2
  <2>2. \A i \in j..3 : Behind(i, 0, 0)'[1] = 0
    BY <1>4
  <2>3. PICK u : u = <<0, j>>
    OBVIOUS
  <2>4. u[1] = 0 /\ u[2] = j /\ Behind(j, 0, 0)' = u
    BY <1>4, <2>3
  <2>5. /\ u[1] \in 0..Len(frames') /\ u[2] \in 0..Size(u[1])' /\ (j > 0 => u[2] > 0)
        /\ \A i \in 1..(Size(u[1])' - u[2]) : j + i <= Len(stream') /\ stream'[j + i] = <<u[1], u[2] + i>>
        /\ \A i \in j..Len(stream') : u[1] <= Behind(i, 0, 0)'[1]
    BY <1>2, <1>3, <2>1, <2>2, <2>4
  <2>6. u[2] = Size(u[1])' => IF j = Len(stream') THEN u[1] = Len(frames')
                              ELSE stream'[j + 1] = <<u[1] + 1, 1>>
    BY <1>2, <1>3, <2>4
  <2>7. QED
    BY <2>4, <2>5, <2>6 DEF Goes
<1>6. Follows(0, 0)'
  BY <1>2, <1>5 DEF Follows
<1>7. Answered(0)'
  <2>1. DOMAIN texts' = {} /\ DOMAIN Pongs' = {}
    BY <1>1 DEF Pongs, Sent
  <2>2. \A s : DOMAIN s = {} => Lists(s, {})
    BY DEF Lists
  <2>3. 1..0 = {}
    OBVIOUS
  <2>4. QED
    BY <2>1, <2>2, <2>3 DEF Answered
<1>8. Between(0, 0)'
  BY <1>1, <1>7 DEF Between
<1>9. QED
  BY <1>6, <1>8 DEF At, InStep

(* Between two frames, the stream begins with the next one. *)
LEMMA StepReadLine ==
  ASSUME Places, Framed, Ready, NEW k \in Nat, NEW x \in Nat, At(k, x), ReadLine
  PROVE InStep'
<1>1. Follows(k, x) /\ Between(k, x)
  BY DEF At, ReadLine, Places, Ready, Reads, InHeader, InPayload
<1>2. PICK n \in 1..3 :
        /\ stream[1] = <<0, n>> /\ stream' = SubSeq(stream, 2, Len(stream))
        /\ IF n < 3 THEN UNCHANGED <<open, reader>> ELSE open' = "yes" /\ Idle
  BY DEF ReadLine, LineUnits
<1>3. stream # <<>> /\ UNCHANGED <<frames, out, texts>>
  BY DEF ReadLine
<1>4. k = 0 /\ open # "yes"
  <2> SUFFICES ASSUME x = Size(k) PROVE FALSE
    BY <1>1 DEF Between
  <2>1. stream[1] = <<k + 1, 1>>
    BY <1>1, <1>3, NextUnits
  <2>2. k + 1 = 0
    BY <1>2, <2>1
  <2>3. QED
    BY <2>2
<1>5. 1 \in 1..Len(stream)
  BY <1>3 DEF Framed
<1>6. Takes(1)
  BY <1>2, <1>3 DEF Takes
<1>7. Follows(0, n)'
  BY <1>1, <1>2, <1>5, <1>6, FollowsRead
<1>8. Answered(0)'
  <2>1. Pongs' = Pongs
    BY <1>3 DEF Pongs, Sent
  <2>2. Answered(0)
    BY <1>1, <1>4 DEF Between
  <2>3. QED
    BY <1>3, <2>1, <2>2, AnsweredKept
<1>9. part' # "payload" /\ got' = <<>> /\ head' = NoHead
  BY <1>1, <1>2 DEF Between, Idle, reader
<1>10. open' # "yes" \/ n = Size(0)'
  BY <1>2, <1>4 DEF Size
<1>11. Between(0, n)'
  BY <1>8, <1>9, <1>10 DEF Between
<1>12. QED
  BY <1>7, <1>11 DEF At, InStep

LEMMA StepReadSome ==
  ASSUME Places, Framed, Ready, NEW k \in Nat, NEW x \in Nat, At(k, x), ReadSome
  PROVE InStep'
<1>0. /\ k \in 0..Len(frames) /\ Size(k) \in Nat \ {0, 1} /\ Len(frames) \in Nat
      /\ \A f \in 0..Len(frames) : Size(f) \in Nat \ {0, 1}
  BY FollowsTyped DEF At
<1>1. PICK n \in 1..Len(stream) : /\ n <= Need - Len(got)
                                  /\ got' = got \o SubSeq(stream, 1, n)
                                  /\ stream' = SubSeq(stream, n + 1, Len(stream))
  BY DEF ReadSome
<1>2. UNCHANGED <<part, head, frames, texts, out, open>> /\ open = "yes"
  BY DEF ReadSome, Reading, Ready, Reads
<1>3. Takes(n)
  BY <1>1, <1>2 DEF Takes
<1>4. /\ Len(got) \in Nat /\ Len(got') = Len(got) + n
      /\ \A i \in 1..Len(got) : got'[i] = got[i]
      /\ \A i \in 1..n : got'[Len(got) + i] = stream[i]
  BY <1>1, Taken
<1>5. \A m \in Nat : Answered(m) => Answered(m)'
  <2>1. Pongs' = Pongs
    BY <1>2 DEF Pongs, Sent
  <2>2. QED
    BY <1>2, <2>1, AnsweredKept
<1>6. n \in 1..n /\ Len(stream) \in Nat /\ n \in Nat \ {0}
  BY DEF Framed
<1>7. \A i \in 1..(Len(got) + n) : i \in 1..Len(got) \/ \E d \in 1..n : i = Len(got) + d
  <2> SUFFICES ASSUME NEW i \in 1..(Len(got) + n), i \notin 1..Len(got) PROVE \E d \in 1..n : i = Len(got) + d
    OBVIOUS
  <2>1. i - Len(got) \in 1..n /\ i = Len(got) + (i - Len(got))
    BY <1>4, <1>6
  <2>2. QED
    BY <2>1
<1>8. got' # <<>>
  <2>1. Len(got') # 0
    BY <1>4, <1>6
  <2>2. QED
    BY <2>1
<1>9. CASE Between(k, x)
  <2>1. x = Size(k) /\ stream # <<>> /\ part # "payload" /\ Len(got) = 0 /\ head = NoHead
        /\ Answered(k)
    BY <1>2, <1>6, <1>9 DEF Between
  <2>2. /\ k + 1 \in 1..Len(frames)
        /\ \A i \in 1..Size(k + 1) : stream[i] = <<k + 1, i>>
    BY <2>1, NextUnits DEF At
  <2>3. n <= 2
    BY <1>1, <1>4, <2>1 DEF Need
  <2>4. Size(k + 1) \in Nat \ {0, 1}
    BY <1>0, <2>2
  <2>5. \A i \in 1..n : i \in 1..Size(k + 1)
    BY <2>3, <2>4, <1>6
  <2>6. \A i \in 1..n : got'[i] = <<k + 1, i>>
    BY <1>4, <2>1, <2>2, <2>5
  <2>7. stream[n] = <<k + 1, n>>
    BY <1>6, <2>2, <2>5
  <2>8. Follows(k + 1, n)'
    BY <1>1, <1>3, <2>7, FollowsRead DEF At
  <2>9. Len(got') = n /\ k + 1 \in Nat /\ k + 1 > 0 /\ (k + 1) - 1 = k
    BY <1>4, <1>6, <2>1
  <2>10. InHeader(k + 1, n)'
    <3>1. Answered(k)'
      BY <1>5, <2>1
    <3>2. PICK c \in Nat : c = k + 1 /\ c > 0 /\ c - 1 = k
      BY <2>9
    <3>3. Answered(c - 1)'
      BY <3>1, <3>2
    <3>4. InHeader(c, n)'
      BY <1>2, <1>8, <2>1, <2>6, <2>9, <3>2, <3>3 DEF InHeader
    <3>5. QED
      BY <3>2, <3>4
  <2>11. QED
    BY <1>6, <2>8, <2>9, <2>10 DEF At, InStep
<1>10. ASSUME NEW y \in Nat, x = Len(got) + y, n + Len(got) + y <= Size(k), k > 0,
              \A i \in 1..Len(got) : got[i] = <<k, i + y>>
       PROVE /\ Follows(k, x + n)' /\ x + n \in Nat /\ x + n = Len(got') + y
             /\ \A i \in 1..Len(got') : got'[i] = <<k, i + y>>
  <2>1. \A i \in 1..n : i \in 1..(Size(k) - x)
    BY <1>0, <1>4, <1>6, <1>10
  <2>2. \A i \in 1..n : stream[i] = <<k, x + i>>
    BY <2>1, NextUnits DEF At
  <2>3. Follows(k, x + n)'
    BY <1>1, <1>3, <1>6, <2>2, FollowsRead DEF At
  <2>4. ASSUME NEW i \in 1..(Len(got) + n) PROVE got'[i] = <<k, i + y>>
    <3>1. CASE i \in 1..Len(got)
      BY <1>4, <1>10, <3>1
    <3>2. CASE \E d \in 1..n : i = Len(got) + d
      <4>1. PICK d \in 1..n : i = Len(got) + d
        BY <3>2
      <4>2. got'[i] = <<k, x + d>>
        BY <1>4, <2>2, <4>1
      <4>3. x + d = i + y
        BY <1>4, <1>6, <1>10, <4>1
      <4>4. QED
        BY <4>2, <4>3
    <3>3. QED
      BY <1>7, <3>1, <3>2
  <2>5. x + n \in Nat /\ x + n = Len(got') + y
    BY <1>4, <1>6, <1>10
  <2>6. QED
    BY <1>4, <2>3, <2>4, <2>5
<1>11. CASE InHeader(k, x)
  <2>1. /\ part # "payload" /\ head = NoHead /\ k > 0 /\ x = Len(got)
        /\ \A i \in 1..Len(got) : got[i] = <<k, i>>
        /\ Answered(k - 1)
    BY <1>11 DEF InHeader
  <2>2. n + Len(got) + 0 <= Size(k)
    <3>1. n <= 2 - Len(got)
      BY <1>1, <2>1 DEF Need
    <3>2. QED
      BY <1>0, <1>4, <1>6, <3>1
  <2>3. x = Len(got) + 0 /\ \A i \in 1..Len(got) : got[i] = <<k, i + 0>>
    BY <1>4, <2>1
  <2>4. /\ Follows(k, x + n)' /\ x + n \in Nat /\ x + n = Len(got') + 0
        /\ \A i \in 1..Len(got') : got'[i] = <<k, i + 0>>
    BY <1>10, <2>1, <2>2, <2>3
  <2>5. x + n = Len(got') /\ \A i \in 1..Len(got') : got'[i] = <<k, i>>
    BY <1>4, <1>6, <2>4
  <2>6. Answered(k - 1)'
    BY <1>5, <2>1
  <2>7. InHeader(k, x + n)'
    BY <1>2, <1>8, <2>1, <2>5, <2>6 DEF InHeader
  <2>8. QED
    BY <2>4, <2>7 DEF At, InStep
<1>12. CASE InPayload(k, x)
  <2>1. /\ part = "payload" /\ k > 0
        /\ head = [of |-> k, op |-> frames[k].op, len |-> frames[k].len]
        /\ x = Len(got) + 2 /\ \A i \in 1..Len(got) : got[i] = <<k, i + 2>>
        /\ Answered(k - 1)
    BY <1>12 DEF InPayload
  <2>2. n + Len(got) + 2 <= Size(k)
    <3>1. n <= frames[k].len - Len(got) /\ Size(k) = frames[k].len + 2
      BY <1>1, <2>1 DEF Need, Size
    <3>2. frames[k].len \in Nat
      <4>1. k \in 1..Len(frames) /\ frames \in Seq(PeerFrame)
        BY <1>0, <2>1 DEF Framed
      <4>2. frames[k] \in PeerFrame
        BY <4>1
      <4>3. QED
        BY <4>2, FramingConstants DEF PeerFrame
    <3>3. QED
      BY <1>4, <1>6, <3>1, <3>2
  <2>3. /\ Follows(k, x + n)' /\ x + n \in Nat /\ x + n = Len(got') + 2
        /\ \A i \in 1..Len(got') : got'[i] = <<k, i + 2>>
    BY <1>10, <2>1, <2>2
  <2>4. Answered(k - 1)'
    BY <1>5, <2>1
  <2>5. InPayload(k, x + n)'
    BY <1>2, <2>1, <2>3, <2>4 DEF InPayload
  <2>6. QED
    BY <2>3, <2>5 DEF At, InStep
<1>13. QED
  BY <1>9, <1>11, <1>12 DEF At

LEMMA StepHeaderRead ==
  ASSUME Places, Framed, NEW k \in Nat, NEW x \in Nat, At(k, x), HeaderRead
  PROVE InStep'
<1>1. /\ part = "header" /\ Len(got) = 2 /\ part' = "payload" /\ got' = <<>>
      /\ UNCHANGED <<frames, stream, texts, out>>
  BY DEF HeaderRead, Need, wire
<1>2. Follows(k, x) /\ InHeader(k, x)
  BY <1>1 DEF At, Between, InPayload
<1>3. /\ k > 0 /\ x = 2 /\ got[1] = <<k, 1>> /\ got[2] = <<k, 2>> /\ Answered(k - 1)
  BY <1>1, <1>2 DEF InHeader
<1>4. got = <<<<k, 1>>, <<k, 2>>>>
  <2> DEFINE S == Units(Len(frames))
  <2>1. got \in Seq(S)
    BY DEF Framed
  <2> HIDE DEF S
  <2>2. QED
    BY <1>1, <1>3, <2>1
<1>5. head' = [of |-> k, op |-> frames[k].op, len |-> frames[k].len]
  <2>1. got[1][1] = k /\ k # 0
    BY <1>3
  <2>2. QED
    BY <1>4, <2>1 DEF HeaderRead
<1>6. Follows(k, x)'
  BY <1>1, <1>2, FollowsKept
<1>7. Answered(k - 1)'
  <2>1. Pongs' = Pongs /\ k - 1 \in Nat
    BY <1>1, <1>3 DEF Pongs, Sent
  <2>2. QED
    BY <1>1, <1>3, <2>1, AnsweredKept
<1>8. InPayload(k, x)'
  BY <1>1, <1>3, <1>5, <1>7 DEF InPayload
<1>9. QED
  BY <1>6, <1>8 DEF At, InStep

(* A frame that is complete is handled as what the peer has sent. *)
LEMMA InHand ==
  ASSUME Places, Framed, NEW k \in Nat, NEW x \in Nat, At(k, x),
         part = "payload", Len(got) = Need
  PROVE /\ Follows(k, x) /\ x = Size(k) /\ k \in Nat \ {0} /\ k - 1 \in Nat
        /\ head.of = k /\ head.op = frames[k].op /\ got = Body(k)
        /\ Answered(k - 1) /\ call \in Reads
<1>1. Follows(k, x) /\ InPayload(k, x)
  BY DEF At, Between, InHeader
<1>2. /\ k > 0 /\ head = [of |-> k, op |-> frames[k].op, len |-> frames[k].len]
      /\ x = Len(got) + 2 /\ \A i \in 1..Len(got) : got[i] = <<k, i + 2>>
      /\ Answered(k - 1)
  BY <1>1 DEF InPayload
<1>3. Len(got) = frames[k].len
  BY <1>2 DEF Need
<1>4. x = Size(k) /\ k - 1 \in Nat /\ k \in Nat \ {0}
  BY <1>2, <1>3 DEF Size
<1>5. got = Body(k)
  <2> DEFINE S == Units(Len(frames))
  <2>1. got \in Seq(S)
    BY DEF Framed
  <2> HIDE DEF S
  <2>2. got = [i \in 1..Len(got) |-> got[i]]
    BY <2>1
  <2>3. [i \in 1..Len(got) |-> got[i]] = [i \in 1..Len(got) |-> <<k, i + 2>>]
    BY <1>2
  <2>4. QED
    BY <1>3, <2>2, <2>3 DEF Body
<1>6. call \in Reads
  BY DEF Places
<1>7. QED
  BY <1>1, <1>2, <1>4, <1>5, <1>6

LEMMA StepText ==
  ASSUME Places, Framed, Ended, Ready, NEW k \in Nat, NEW x \in Nat, At(k, x), Text, ~cut
  PROVE InStep'
<1>1. /\ Follows(k, x) /\ x = Size(k) /\ k \in Nat \ {0}
      /\ head.of = k /\ head.op = frames[k].op /\ got = Body(k)
      /\ Answered(k - 1)
  BY InHand DEF Text, FrameRead
<1>2. frames[k].op = "text" /\ UNCHANGED <<frames, stream>>
  BY <1>1 DEF Text, FrameRead, wire
<1>3. texts' = Append(texts, k) /\ UNCHANGED out /\ (Idle \/ ReadsNext)
  BY <1>1 DEF Text
<1>4. Pongs' = Pongs
  BY <1>3 DEF Pongs, Sent
<1>5. Answered(k)'
  BY <1>1, <1>2, <1>3, <1>4, AnsweredText DEF Ready
<1>6. part' # "payload" /\ got' = <<>> /\ head' = NoHead
  BY <1>3 DEF Idle, ReadsNext
<1>7. At(k, x)'
  BY <1>1, <1>2, <1>5, <1>6, FrameEnds
<1>8. QED
  BY <1>7 DEF InStep

LEMMA StepPing ==
  ASSUME Places, Framed, Ended, NEW k \in Nat, NEW x \in Nat, At(k, x), Ping
  PROVE InStep'
<1>1. /\ Follows(k, x) /\ x = Size(k) /\ k \in Nat \ {0}
      /\ head.of = k /\ head.op = frames[k].op
      /\ Answered(k - 1) /\ call \in Reads
  BY InHand DEF Ping, FrameRead
<1>2. frames[k].op = "ping" /\ UNCHANGED <<frames, stream, texts>>
  BY <1>1 DEF Ping, FrameRead, wire
<1>3. PICK w : /\ w.op = "pong" /\ w.id = k
               /\ \/ ReadsNext /\ out' = Append(out, w)
                  \/ \E error : Raises(error, Append(out, w))
  <2>1. PICK e \in Ends :
          LET sent == Append(out, [op |-> "pong", id |-> head.of, end |-> e])
          IN  \/ ReadsNext /\ out' = sent
              \/ Raises(WriteError(e), sent)
    BY DEF Ping
  <2>2. PICK w : w = [op |-> "pong", id |-> head.of, end |-> e]
    OBVIOUS
  <2>3. w.op = "pong" /\ w.id = k
    BY <1>1, <2>2
  <2>4. (ReadsNext /\ out' = Append(out, w)) \/ Raises(WriteError(e), Append(out, w))
    BY <2>1, <2>2
  <2>5. QED
    BY <2>3, <2>4
<1>4. IsSeq(Append(out, w)) /\ IsSeq(out)
  BY Longer DEF Ended
<1>5. /\ PongsOf(out') = PongsOf(Append(out, w))
      /\ part' # "payload" /\ got' = <<>> /\ head' = NoHead
  <2>1. CASE ReadsNext /\ out' = Append(out, w)
    BY <2>1 DEF ReadsNext
  <2>2. CASE \E error : Raises(error, Append(out, w))
    <3>1. PICK error : Raises(error, Append(out, w))
      BY <2>2
    <3>2. PICK sent : sent = Append(out, w)
      OBVIOUS
    <3>3. IsSeq(sent) /\ Raises(error, sent)
      BY <1>4, <3>1, <3>2
    <3>4. Idle /\ PongsOf(out') = PongsOf(sent)
      BY <1>1, <3>3, RaiseWrites
    <3>5. QED
      BY <3>2, <3>4 DEF Idle
  <2>3. QED
    BY <1>3, <2>1, <2>2
<1>6. Pongs' = PongsOf(Append(out, w))
  BY <1>5 DEF Pongs, Sent, PongsOf
<1>7. Answered(k)'
  BY <1>1, <1>2, <1>3, <1>4, <1>6, AnsweredPing
<1>8. At(k, x)'
  BY <1>1, <1>2, <1>5, <1>7, FrameEnds
<1>9. QED
  BY <1>8 DEF InStep

(* A frame that asks for no answer. *)
LEMMA StepControl ==
  ASSUME Places, Framed, Ended, NEW k \in Nat, NEW x \in Nat, At(k, x),
         PongRead \/ PeerCloses \/ Unsupported
  PROVE InStep'
<1>1. /\ Follows(k, x) /\ x = Size(k) /\ k \in Nat \ {0}
      /\ head.op = frames[k].op
      /\ Answered(k - 1) /\ call \in Reads
  BY InHand DEF PongRead, PeerCloses, Unsupported, FrameRead
<1>2. frames[k].op \notin {"text", "ping"} /\ UNCHANGED <<frames, stream, texts>>
  BY <1>1 DEF PongRead, PeerCloses, Unsupported, FrameRead, wire
<1>3. PongsOf(out') = PongsOf(out) /\ part' # "payload" /\ got' = <<>> /\ head' = NoHead
  <2>1. CASE PongRead \/ PeerCloses
    BY <2>1 DEF PongRead, PeerCloses, ReadsNext, Idle
  <2>2. CASE Unsupported
    BY <1>1, <2>2, RaiseWrites DEF Unsupported, Ended, Idle
  <2>3. QED
    BY <2>1, <2>2
<1>4. Pongs' = Pongs
  BY <1>3 DEF Pongs, Sent, PongsOf
<1>5. Answered(k)'
  BY <1>1, <1>2, <1>4, AnsweredOther
<1>6. At(k, x)'
  BY <1>1, <1>2, <1>3, <1>5, FrameEnds
<1>7. QED
  BY <1>6 DEF InStep

-----------------------------------------------------------------------------
(* Steps that come between two frames, or break one off. *)
LEMMA StepReadFails ==
  ASSUME Places, Framed, Ended, Ready, NEW k \in Nat, NEW x \in Nat, At(k, x),
         NEW error, ReadFails(error), ~cut'
  PROVE InStep'
<1>1. call \in Reads \cup {"connect"} /\ UNCHANGED <<frames, stream, texts>> /\ Raises(error, out)
  BY DEF ReadFails, Reading, Reads
<1>2. part # "payload" /\ got = <<>>
  BY DEF ReadFails, Drops, Places, Ready, Reads
<1>3. Follows(k, x) /\ Between(k, x)
  BY <1>2 DEF At, InHeader, InPayload
<1>4. Idle /\ PongsOf(out') = PongsOf(out) /\ (open' = open \/ open' = "no")
  BY <1>1, RaiseWrites DEF Ended
<1>5. Pongs' = Pongs
  BY <1>4 DEF Pongs, Sent, PongsOf
<1>6. At(k, x)'
  BY <1>1, <1>3, <1>4, <1>5, StaysBetween DEF Idle
<1>7. QED
  BY <1>6 DEF InStep

LEMMA StepRefused ==
  ASSUME Places, Ended, Ready, NEW k \in Nat, NEW x \in Nat, At(k, x), Refused
  PROVE InStep'
<1>1. call = "connect" /\ UNCHANGED <<frames, stream, texts>> /\ Raises("WsError", out)
  BY DEF Refused, wire
<1>2. Follows(k, x) /\ Between(k, x)
  BY <1>1 DEF At, InHeader, InPayload, Places, Ready, Reads
<1>3. Idle /\ PongsOf(out') = PongsOf(out) /\ (open' = open \/ open' = "no")
  BY <1>1, RaiseWrites DEF Ended
<1>4. Pongs' = Pongs
  BY <1>3 DEF Pongs, Sent, PongsOf
<1>5. At(k, x)'
  BY <1>1, <1>2, <1>3, <1>4, StaysBetween DEF Idle
<1>6. QED
  BY <1>5 DEF InStep

LEMMA StepAsks ==
  ASSUME Places, Ended, Ready, NEW k \in Nat, NEW x \in Nat, At(k, x), Poll \/ Request
  PROVE InStep'
<1>1. call = "none" /\ UNCHANGED <<frames, stream, texts>>
  BY DEF Poll, Request, wire
<1>2. Follows(k, x) /\ Between(k, x)
  BY <1>1 DEF At, InHeader, InPayload, Places, Ready, Reads
<1>3. got = <<>> /\ head = NoHead
  BY <1>2 DEF Between
<1>4. /\ PongsOf(out') = PongsOf(out) /\ part' # "payload" /\ got' = <<>> /\ head' = NoHead
      /\ open' = open \/ open' = "no"
  <2>1. CASE Poll
    BY <1>3, <2>1 DEF Poll
  <2>2. CASE Request
    <3>1. PICK w : /\ w.op = "request"
                   /\ \/ part' = "header" /\ out' = Append(out, w) /\ UNCHANGED <<open, got, head>>
                      \/ \E error : FlushFails(error, Append(out, w))
      <4>1. PICK e \in Ends :
              LET sent == Append(out, [op |-> "request", id |-> Requests + 1, end |-> e])
              IN  \/ part' = "header" /\ out' = sent /\ UNCHANGED <<open, got, head>>
                  \/ FlushFails(WriteError(e), sent)
        BY <2>2 DEF Request
      <4>2. PICK w : w = [op |-> "request", id |-> Requests + 1, end |-> e]
        OBVIOUS
      <4>3. w.op = "request"
        BY <4>2
      <4>4. \/ part' = "header" /\ out' = Append(out, w) /\ UNCHANGED <<open, got, head>>
            \/ FlushFails(WriteError(e), Append(out, w))
        BY <4>1, <4>2
      <4>5. QED
        BY <4>3, <4>4
    <3>2. IsSeq(out) /\ IsSeq(Append(out, w)) /\ PongsOf(Append(out, w)) = PongsOf(out)
      BY <3>1, Longer, OtherWrite DEF Ended
    <3>3. CASE part' = "header" /\ out' = Append(out, w) /\ UNCHANGED <<open, got, head>>
      BY <1>3, <3>2, <3>3
    <3>4. CASE \E error : FlushFails(error, Append(out, w))
      <4>1. PICK s, c : s = Append(out, w) /\ c = [op |-> "close", id |-> 0, end |-> "whole"]
        OBVIOUS
      <4>2. /\ Idle /\ (open' = open \/ open' = "no")
            /\ out' = s \/ out' = Append(s, c)
        BY <3>4, <4>1 DEF FlushFails, Closes
      <4>3. IsSeq(s) /\ c.op # "pong"
        BY <3>2, <4>1
      <4>4. PongsOf(Append(s, c)) = PongsOf(s)
        BY <4>3, OtherWrite
      <4>5. PongsOf(out') = PongsOf(out)
        BY <3>2, <4>1, <4>2, <4>4
      <4>6. QED
        BY <4>2, <4>5 DEF Idle
    <3>5. QED
      BY <3>1, <3>3, <3>4
  <2>3. QED
    BY <2>1, <2>2
<1>5. Pongs' = Pongs
  BY <1>4 DEF Pongs, Sent, PongsOf
<1>6. At(k, x)'
  BY <1>1, <1>2, <1>4, <1>5, StaysBetween
<1>7. QED
  BY <1>6 DEF InStep

LEMMA StepPeer ==
  ASSUME Framed, NEW k \in Nat, NEW x \in Nat, At(k, x),
         NEW op \in Ops, NEW len \in 0..MaxLen, NEW res \in 0..MaxRequests, PeerSends(op, len, res)
  PROVE InStep'
<1>1. /\ k \in 0..Len(frames) /\ Len(frames) \in Nat
  BY FollowsTyped DEF At
<1>2. Follows(k, x)' /\ \A f \in 1..Len(frames) : frames'[f] = frames[f]
  BY FollowsSent DEF At
<1>3. UNCHANGED <<open, part, got, head, out, texts>>
  BY DEF PeerSends, reader
<1>4. Pongs' = Pongs
  BY <1>3 DEF Pongs, Sent
<1>5. ASSUME NEW m \in 0..k, Answered(m) PROVE Answered(m)'
  <2>1. \A f \in 1..m : frames'[f] = frames[f]
    BY <1>1, <1>2
  <2>2. QED
    BY <1>3, <1>4, <1>5, <2>1, AnsweredKept
<1>6. Size(k)' = Size(k)
  BY <1>1, <1>2 DEF Size
<1>7. CASE Between(k, x)
  BY <1>2, <1>3, <1>5, <1>6, <1>7 DEF Between, At, InStep
<1>8. CASE InHeader(k, x)
  <2>1. k - 1 \in 0..k
    BY <1>8 DEF InHeader
  <2>2. InHeader(k, x)'
    BY <1>3, <1>5, <1>8, <2>1 DEF InHeader
  <2>3. QED
    BY <1>2, <2>2 DEF At, InStep
<1>9. CASE InPayload(k, x)
  <2>1. k - 1 \in 0..k /\ k \in 1..Len(frames)
    BY <1>1, <1>9 DEF InPayload
  <2>2. frames'[k] = frames[k]
    BY <1>2, <2>1
  <2>3. InPayload(k, x)'
    BY <1>3, <1>5, <1>9, <2>1, <2>2 DEF InPayload
  <2>4. QED
    BY <1>2, <2>3 DEF At, InStep
<1>10. QED
  BY <1>7, <1>8, <1>9 DEF At

LEMMA InStepStep ==
  ASSUME Places, Framed, Ended, Ready, InStep, [Next]_fvars
  PROVE InStep'
<1>1. CASE Connect
  BY <1>1, StepConnect
<1>2. SUFFICES ASSUME ~Connect, ~cut' PROVE InStep'
  BY <1>1 DEF InStep
<1>3. ~cut
  <2>1. cut' = cut \/ cut' = (cut \/ (call # "connect" /\ (part = "payload" \/ got # <<>>)))
    BY <1>2 DEF Next, Answer, Read, TimesOut, Breaks, Handle, Peer, ReadFails, Drops, ReadLine, Refused,
       Poll, Request, ReadSome, HeaderRead, Text, Ping, PongRead, PeerCloses, Unsupported, PeerSends, fvars
  <2>2. QED
    BY <1>2, <2>1
<1>4. PICK k, x \in Nat : At(k, x)
  BY <1>3 DEF InStep
<1>5. CASE ReadLine
  BY <1>4, <1>5, StepReadLine
<1>6. CASE Refused
  BY <1>4, <1>6, StepRefused
<1>7. CASE Poll \/ Request
  BY <1>4, <1>7, StepAsks
<1>8. CASE ReadSome
  BY <1>4, <1>8, StepReadSome
<1>9. ASSUME NEW error, ReadFails(error) PROVE InStep'
  BY <1>2, <1>4, <1>9, StepReadFails
<1>10. CASE HeaderRead
  BY <1>4, <1>10, StepHeaderRead
<1>11. CASE Text
  BY <1>3, <1>4, <1>11, StepText
<1>12. CASE Ping
  BY <1>4, <1>12, StepPing
<1>13. CASE PongRead \/ PeerCloses \/ Unsupported
  BY <1>4, <1>13, StepControl
<1>14. CASE Peer
  <2>1. PICK op \in Ops, len \in 0..MaxLen, res \in 0..MaxRequests : PeerSends(op, len, res)
    BY <1>14 DEF Peer
  <2>2. QED
    BY <1>4, <2>1, StepPeer
<1>15. CASE UNCHANGED fvars
  <2>1. UNCHANGED <<frames, stream, texts, out, part, got, head, open>>
    BY <1>15 DEF fvars, reader, wire
  <2>2. Follows(k, x)' /\ Size(k)' = Size(k)
    BY <1>4, <2>1, FollowsKept DEF At
  <2>3. \A m : Answered(m) => Answered(m)'
    BY <2>1 DEF Answered, Pongs, Sent
  <2>4. At(k, x)'
    BY <1>4, <2>1, <2>2, <2>3 DEF At, Between, InHeader, InPayload
  <2>5. QED
    BY <2>4 DEF InStep
<1>16. QED
  BY <1>2, <1>5, <1>6, <1>7, <1>8, <1>9, <1>10, <1>11, <1>12, <1>13, <1>14, <1>15
  DEF Next, Answer, Read, TimesOut, Breaks, Handle

(* The frames that have been read are those before the one in hand. *)
LEMMA HandledSoFar ==
  ASSUME Framed, NEW k \in Nat, NEW x \in Nat, At(k, x), NEW op
  PROVE Handled(op) = Of(op, IF Between(k, x) THEN k ELSE k - 1)
<1>1. /\ k \in 0..Len(frames) /\ Len(frames) \in Nat /\ Len(stream) \in Nat
      /\ DOMAIN frames = 1..Len(frames) /\ DOMAIN stream = 1..Len(stream)
      /\ DOMAIN got = 1..Len(got) /\ Len(got) \in Nat
  BY FollowsTyped DEF At, Framed
<1>2. \A f \in (k + 1)..Len(frames) : \E i \in 1..Len(stream) : stream[i] = <<f, 1>>
  BY DEF At, Follows
<1>3. ASSUME NEW f \in Handled(op) PROVE f \in 1..k /\ frames[f].op = op
  <2>1. f \in 1..Len(frames) /\ frames[f].op = op /\ \A i \in 1..Len(stream) : stream[i][1] # f
    BY <1>1 DEF Handled
  <2>2. f \notin (k + 1)..Len(frames)
    <3> SUFFICES ASSUME f \in (k + 1)..Len(frames) PROVE FALSE
      OBVIOUS
    <3>1. PICK i \in 1..Len(stream) : stream[i] = <<f, 1>>
      BY <1>2
    <3>2. QED
      BY <2>1, <3>1
  <2>3. QED
    BY <1>1, <2>1, <2>2
<1>4. \A i \in 1..Len(stream) : k <= stream[i][1]
  <2> SUFFICES ASSUME NEW i \in 1..Len(stream) PROVE k <= stream[i][1]
    OBVIOUS
  <2>1. Goes(0, k, x) /\ Behind(0, k, x)[1] = k
    BY <1>1 DEF At, Follows, Behind
  <2>2. k <= Behind(i, k, x)[1]
    BY <1>1, <2>1 DEF Goes
  <2>3. QED
    BY <2>2 DEF Behind
<1>5. ASSUME NEW i \in 1..Len(stream) PROVE stream[i][1] \in Nat
  <2>1. stream[i] \in Units(Len(frames))
    BY <1>1 DEF Framed
  <2>2. QED
    BY <2>1 DEF Units
<1>6. CASE Between(k, x)
  <2>1. got = <<>> /\ head.of = 0 /\ (k = 0 \/ x = Size(k))
    BY <1>6 DEF Between, NoHead
  <2>2. ASSUME NEW f \in 1..k, frames[f].op = op PROVE f \in Handled(op)
    <3>1. x = Size(k)
      BY <2>1, <2>2
    <3>2. ASSUME NEW i \in 1..Len(stream) PROVE stream[i][1] # f
      <4>1. stream # <<>>
        BY <1>1, <3>2
      <4>2. stream[1] = <<k + 1, 1>>
        BY <3>1, <4>1, NextUnits DEF At
      <4>3. Goes(1, k, x) /\ Behind(1, k, x) = <<k + 1, 1>> /\ i \in 1..Len(stream)
        BY <1>1, <3>2, <4>2 DEF At, Follows, Behind
      <4>4. k + 1 <= Behind(i, k, x)[1]
        BY <4>3 DEF Goes
      <4>5. k + 1 <= stream[i][1]
        BY <4>4 DEF Behind
      <4>6. QED
        BY <1>5, <2>2, <4>5
    <3>3. f \in 1..Len(frames) /\ head.of # f
      BY <1>1, <2>1, <2>2
    <3>4. QED
      BY <1>1, <2>1, <2>2, <3>2, <3>3 DEF Handled
  <2>3. QED
    BY <1>3, <1>6, <2>2 DEF Of
<1>7. CASE InHeader(k, x) \/ InPayload(k, x)
  <2>1. ~Between(k, x) /\ k > 0
    BY <1>7 DEF Between, InHeader, InPayload
  <2>2. \A i \in 1..Len(got) : got[i][1] = k
    BY <1>7 DEF InHeader, InPayload
  <2>3. k \notin Handled(op)
    <3>1. CASE InHeader(k, x)
      <4>1. got # <<>>
        BY <3>1 DEF InHeader
      <4>2. 1 \in 1..Len(got)
        BY <1>1, <4>1 DEF Framed
      <4>3. QED
        BY <1>1, <2>2, <4>2 DEF Handled
    <3>2. CASE InPayload(k, x)
      BY <3>2 DEF InPayload, Handled
    <3>3. QED
      BY <1>7, <3>1, <3>2
  <2>4. ASSUME NEW f \in 1..(k - 1), frames[f].op = op PROVE f \in Handled(op)
    <3>1. f # k /\ f < k /\ f \in 1..Len(frames)
      BY <1>1, <2>4
    <3>2. head.of # f
      BY <1>7, <3>1 DEF InHeader, InPayload, NoHead
    <3>3. \A i \in 1..Len(stream) : stream[i][1] # f
      BY <1>4, <1>5, <3>1
    <3>4. QED
      BY <1>1, <2>2, <2>4, <3>1, <3>2, <3>3 DEF Handled
  <2>5. 1..k = 1..(k - 1) \cup {k}
    BY <2>1
  <2>6. Handled(op) = Of(op, k - 1)
    BY <1>3, <2>3, <2>4, <2>5 DEF Of
  <2>7. QED
    BY <2>1, <2>6
<1>8. QED
  BY <1>6, <1>7 DEF At

LEMMA InOrder ==
  ASSUME Framed, InStep
  PROVE FramesInOrder
<1> SUFFICES ASSUME ~cut PROVE Lists(texts, Handled("text")) /\ Lists(Pongs, Handled("ping"))
  BY DEF FramesInOrder
<1>1. PICK k, x \in Nat : At(k, x)
  BY DEF InStep
<1>2. Answered(IF Between(k, x) THEN k ELSE k - 1)
  BY <1>1 DEF At, Between, InHeader, InPayload
<1>3. PICK m : m = IF Between(k, x) THEN k ELSE k - 1
  OBVIOUS
<1>4. Handled("text") = Of("text", m) /\ Handled("ping") = Of("ping", m)
  BY <1>1, <1>3, HandledSoFar
<1>5. QED
  BY <1>2, <1>3, <1>4 DEF Answered, Of

LEMMA StaysInStep == Spec => [](Places /\ Framed /\ Ready /\ InStep)
<1>1. Init => Places /\ Framed /\ Ended /\ Ready /\ InStep
  <2> SUFFICES ASSUME Init PROVE Places /\ Framed /\ Ended /\ Ready /\ InStep
    OBVIOUS
  <2>1. Places /\ Framed /\ Ended /\ Ready
    BY DEF Init, Places, Framed, Ended, Ready, IsSeq, ClosedAfter, Refusals, Reads, NoHead
  <2>2. Len(frames) = 0 /\ Len(stream) = 0
    BY DEF Init
  <2>3. Follows(0, 3)
    <3>1. PICK u : u = <<0, 3>>
      OBVIOUS
    <3>2. Behind(0, 0, 3) = u /\ u[1] = 0 /\ u[2] = 3 /\ Size(0) = 3
      BY <3>1 DEF Behind, Size
    <3>3. Goes(0, 0, 3)
      BY <2>2, <3>2 DEF Goes
    <3>4. QED
      BY <2>2, <3>3 DEF Follows
  <2>4. Answered(0)
    <3>1. DOMAIN texts = {} /\ DOMAIN Pongs = {} /\ 1..0 = {}
      BY DEF Init, Pongs, Sent
    <3>2. \A s : DOMAIN s = {} => Lists(s, {})
      BY DEF Lists
    <3>3. QED
      BY <3>1, <3>2 DEF Answered
  <2>5. Between(0, 3)
    BY <2>4 DEF Init, Between
  <2>6. QED
    BY <2>1, <2>3, <2>5 DEF At, InStep
<1>2. Places /\ [Next]_fvars => Places'
  BY PlacesStep
<1>3. Places /\ Framed /\ [Next]_fvars => Framed'
  BY FramedStep
<1>4. Places /\ Ended /\ [Next]_fvars => Ended'
  BY EndedStep
<1>5. Places /\ Framed /\ Ready /\ [Next]_fvars => Ready'
  BY ReadyStep
<1>6. Places /\ Framed /\ Ended /\ Ready /\ InStep /\ [Next]_fvars => InStep'
  BY InStepStep
<1>7. QED
  BY <1>1, <1>2, <1>3, <1>4, <1>5, <1>6, PTL DEF Spec

(* As long as no exception falls into a frame, recv_text returns the texts *)
(* of the peer and every ping has its pong, each once and in the order     *)
(* they were sent, however the stream is cut into reads (ws_client         *)
(* 113-175, 218-329).                                                      *)
THEOREM FramesStayInOrder == Spec => []FramesInOrder
<1>1. Framed /\ InStep => FramesInOrder
  BY InOrder
<1>2. QED
  BY <1>1, StaysInStep, PTL

-----------------------------------------------------------------------------
(* A text that is found to answer the request is one the peer has sent:    *)
(* with the reader in step, the text in hand is that of frame k.           *)
LEMMA AckedStep ==
  ASSUME Places, Framed, Ready, InStep, AckedIsAnswered, [Next]_fvars
  PROVE AckedIsAnswered'
<1>1. CASE Connect
  BY <1>1 DEF Connect, AckedIsAnswered
<1>2. CASE Text
  <2>0. UNCHANGED <<frames, cut>>
    BY <1>2 DEF Text, wire
  <2>1. SUFFICES ASSUME ~cut PROVE AckedIsAnswered'
    BY <2>0 DEF AckedIsAnswered
  <2>2. PICK k, x \in Nat : At(k, x)
    BY <2>1 DEF InStep
  <2>3. k \in Nat \ {0} /\ head.of = k /\ got = Body(k)
    BY <1>2, <2>2, InHand DEF Text, FrameRead
  <2>4. k \in DOMAIN frames
    BY <2>3 DEF Framed
  <2>5. /\ texts' = Append(texts, k)
        /\ UNCHANGED acked \/ (Answers(k) /\ acked' = acked \cup {Requests})
    BY <1>2, <2>1, <2>3 DEF Text
  <2>6. /\ \A i \in DOMAIN texts : i \in DOMAIN texts' /\ texts'[i] = texts[i]
        /\ Len(texts) + 1 \in DOMAIN texts' /\ texts'[Len(texts) + 1] = k
    BY <2>5 DEF Ready
  <2>7. \A r \in acked : \E i \in DOMAIN texts' :
          texts'[i] \in DOMAIN frames /\ frames[texts'[i]].res = r
    BY <2>1, <2>6 DEF AckedIsAnswered
  <2>8. Answers(k) => frames[k].res = Requests
    BY <2>3 DEF Answers
  <2>9. QED
    BY <2>0, <2>4, <2>5, <2>6, <2>7, <2>8 DEF AckedIsAnswered
<1>3. CASE Peer
  <2>1. PICK new : frames' = Append(frames, new)
    BY <1>3 DEF Peer, PeerSends
  <2>2. UNCHANGED <<texts, acked, cut>>
    BY <1>3 DEF Peer, PeerSends
  <2>3. \A f \in DOMAIN frames : f \in DOMAIN frames' /\ frames'[f] = frames[f]
    BY <2>1 DEF Framed
  <2>4. QED
    BY <2>2, <2>3 DEF AckedIsAnswered
<1>4. ASSUME NEW error, ReadFails(error) PROVE AckedIsAnswered'
  <2>1. UNCHANGED <<frames, texts, acked>> /\ (cut => cut')
    BY <1>4 DEF ReadFails, Drops
  <2>2. QED
    BY <2>1 DEF AckedIsAnswered
<1>5. CASE ReadLine \/ Refused \/ Poll \/ Request \/ ReadSome \/ HeaderRead \/ Ping \/ PongRead
           \/ PeerCloses \/ Unsupported \/ UNCHANGED fvars
  <2>1. UNCHANGED <<frames, texts, acked, cut>>
    BY <1>5 DEF ReadLine, Refused, Poll, Request, ReadSome, HeaderRead, Ping, PongRead,
         PeerCloses, Unsupported, fvars, wire
  <2>2. QED
    BY <2>1 DEF AckedIsAnswered
<1>6. QED
  BY <1>1, <1>2, <1>3, <1>4, <1>5 DEF Next, Answer, Read, TimesOut, Breaks, Handle

(* As long as no exception falls into a frame, a request that counts as    *)
(* acked has had its own response: the reader is never out of step, where  *)
(* any JSON with the awaited id would do (transport 226-244).              *)
THEOREM OnlyAnsweredIsAcked == Spec => []AckedIsAnswered
<1>1. Init => AckedIsAnswered
  BY DEF Init, AckedIsAnswered
<1>2. Places /\ Framed /\ Ready /\ InStep /\ AckedIsAnswered /\ [Next]_fvars => AckedIsAnswered'
  BY AckedStep
<1>3. Spec => [](Places /\ Framed /\ Ready /\ InStep)
  BY StaysInStep, PTL
<1>4. QED
  BY <1>1, <1>2, <1>3, PTL DEF Spec
==============================================================================
