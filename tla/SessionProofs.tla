---------------------------- MODULE SessionProofs ----------------------------
(***************************************************************************)
(* Theorems about Session, for every threshold, with and without the safe  *)
(* mode, and however often the environment misbehaves.                     *)
(***************************************************************************)
EXTENDS Session, TLAPS

(* Inside connect and while it sleeps, the node is offline; between Dial   *)
(* and the answer it has a socket; an online node has no failures to count. *)
OfflineThere ==
  /\ main \in ConnectSteps \cup {"rest"} => link # "online"
  /\ main \in ConnectSteps \ {"dial"} => link = "open"
  /\ link = "online" => failures = 0

SInv == STypeOK /\ OneSocket /\ CountersAgree /\ SafeModeSound /\ OfflineThere

LEMMA SInvInit == Init => SInv
<1> SUFFICES ASSUME Init PROVE SInv
  OBVIOUS
<1> USE SessionAssumption DEF Init, ConnectSteps, Reasons
<1>1. STypeOK
  BY DEF STypeOK
<1>2. OneSocket /\ OfflineThere
  BY DEF OneSocket, OfflineThere
<1>3. CountersAgree
  BY DEF CountersAgree
<1>4. SafeModeSound
  BY DEF SafeModeSound
<1>5. QED
  BY <1>1, <1>2, <1>3, <1>4 DEF SInv

(* Every step keeps the types. *)
LEMMA STypeStep ==
  ASSUME STypeOK, OneSocket, OfflineThere, [Next]_svars
  PROVE STypeOK'
<1> USE SessionAssumption DEF STypeOK, OneSocket, OfflineThere, ConnectSteps, Reasons, connection, counters
<1>1. CASE BeginConnect
  BY <1>1 DEF BeginConnect, Close, SocketClosed, Disconnected
<1>2. CASE Dial
  BY <1>2 DEF Dial
<1>3. CASE Challenged
  BY <1>3 DEF Challenged
<1>4. CASE Signed
  BY <1>4 DEF Signed
<1>5. CASE Accepted
  BY <1>5 DEF Accepted
<1>6. CASE ConnectFails
  BY <1>6 DEF ConnectFails, SafeModeSet, SocketClosed
<1>7. CASE TopOnline
  BY <1>7 DEF TopOnline
<1>8. CASE FlushFails
  BY <1>8 DEF FlushFails, Broken, Close, SocketClosed, Disconnected
<1>9. CASE ReceiveFails
  BY <1>9 DEF ReceiveFails, Broken, LoopCloses, Close, SocketClosed, Disconnected
<1>10. CASE EndIteration
  BY <1>10 DEF EndIteration
<1>11. CASE Wake
  BY <1>11 DEF Wake
<1>12. CASE PeerFails
  BY <1>12 DEF PeerFails
<1>13. CASE UNCHANGED svars
  BY <1>13 DEF svars
<1>14. QED
  BY <1>1, <1>2, <1>3, <1>4, <1>5, <1>6, <1>7, <1>8, <1>9, <1>10, <1>11, <1>12, <1>13
  DEF Next, LoopStep

(* Only Accepted puts the node online, and it leaves connect. *)
LEMMA OfflineStep ==
  ASSUME STypeOK, OfflineThere, [Next]_svars
  PROVE OfflineThere'
<1> USE SessionAssumption DEF STypeOK, OfflineThere, ConnectSteps, connection, counters
<1>1. CASE BeginConnect
  BY <1>1 DEF BeginConnect, Close, SocketClosed, Disconnected
<1>2. CASE Dial
  BY <1>2 DEF Dial
<1>3. CASE Challenged
  BY <1>3 DEF Challenged
<1>4. CASE Signed
  BY <1>4 DEF Signed
<1>5. CASE Accepted
  BY <1>5 DEF Accepted
<1>6. CASE ConnectFails
  BY <1>6 DEF ConnectFails, SafeModeSet, SocketClosed
<1>7. CASE TopOnline
  BY <1>7 DEF TopOnline
<1>8. CASE FlushFails
  BY <1>8 DEF FlushFails, Broken, Close, SocketClosed, Disconnected
<1>9. CASE ReceiveFails
  BY <1>9 DEF ReceiveFails, Broken, LoopCloses, Close, SocketClosed, Disconnected
<1>10. CASE EndIteration
  BY <1>10 DEF EndIteration
<1>11. CASE Wake
  BY <1>11 DEF Wake
<1>12. CASE PeerFails
  BY <1>12 DEF PeerFails
<1>13. CASE UNCHANGED svars
  BY <1>13 DEF svars
<1>14. QED
  BY <1>1, <1>2, <1>3, <1>4, <1>5, <1>6, <1>7, <1>8, <1>9, <1>10, <1>11, <1>12, <1>13
  DEF Next, LoopStep

(* A socket is opened where there is none, and closed where there is one. *)
LEMMA SocketStep ==
  ASSUME STypeOK, OneSocket, OfflineThere, [Next]_svars
  PROVE OneSocket'
<1> USE SessionAssumption DEF STypeOK, OneSocket, OfflineThere, ConnectSteps, connection, counters
<1>1. CASE BeginConnect
  BY <1>1 DEF BeginConnect, Close, SocketClosed, Disconnected
<1>2. CASE Dial
  BY <1>2 DEF Dial
<1>3. CASE Challenged
  BY <1>3 DEF Challenged
<1>4. CASE Signed
  BY <1>4 DEF Signed
<1>5. CASE Accepted
  BY <1>5 DEF Accepted
<1>6. CASE ConnectFails
  BY <1>6 DEF ConnectFails, SafeModeSet, SocketClosed
<1>7. CASE TopOnline
  BY <1>7 DEF TopOnline
<1>8. CASE FlushFails
  BY <1>8 DEF FlushFails, Broken, Close, SocketClosed, Disconnected
<1>9. CASE ReceiveFails
  BY <1>9 DEF ReceiveFails, Broken, LoopCloses, Close, SocketClosed, Disconnected
<1>10. CASE EndIteration
  BY <1>10 DEF EndIteration
<1>11. CASE Wake
  BY <1>11 DEF Wake
<1>12. CASE PeerFails
  BY <1>12 DEF PeerFails
<1>13. CASE UNCHANGED svars
  BY <1>13 DEF svars
<1>14. QED
  BY <1>1, <1>2, <1>3, <1>4, <1>5, <1>6, <1>7, <1>8, <1>9, <1>10, <1>11, <1>12, <1>13
  DEF Next, LoopStep

(* Attempts, successes and reconnections are counted together. *)
LEMMA CountersStep ==
  ASSUME STypeOK, CountersAgree, OfflineThere, [Next]_svars
  PROVE CountersAgree'
<1> USE SessionAssumption DEF STypeOK, CountersAgree, OfflineThere, ConnectSteps, connection, counters
<1>1. CASE BeginConnect
  BY <1>1 DEF BeginConnect, Close, SocketClosed, Disconnected
<1>2. CASE Dial
  BY <1>2 DEF Dial
<1>3. CASE Challenged
  BY <1>3 DEF Challenged
<1>4. CASE Signed
  BY <1>4 DEF Signed
<1>5. CASE Accepted
  BY <1>5 DEF Accepted
<1>6. CASE ConnectFails
  BY <1>6 DEF ConnectFails, SafeModeSet, SocketClosed
<1>7. CASE TopOnline
  BY <1>7 DEF TopOnline
<1>8. CASE FlushFails
  BY <1>8 DEF FlushFails, Broken, Close, SocketClosed, Disconnected
<1>9. CASE ReceiveFails
  BY <1>9 DEF ReceiveFails, Broken, LoopCloses, Close, SocketClosed, Disconnected
<1>10. CASE EndIteration
  BY <1>10 DEF EndIteration
<1>11. CASE Wake
  BY <1>11 DEF Wake
<1>12. CASE PeerFails
  BY <1>12 DEF PeerFails
<1>13. CASE UNCHANGED svars
  BY <1>13 DEF svars
<1>14. QED
  BY <1>1, <1>2, <1>3, <1>4, <1>5, <1>6, <1>7, <1>8, <1>9, <1>10, <1>11, <1>12, <1>13
  DEF Next, LoopStep

(* Safe mode follows the failures. *)
LEMMA SafeStep ==
  ASSUME STypeOK, SafeModeSound, OfflineThere, [Next]_svars
  PROVE SafeModeSound'
<1> USE SessionAssumption DEF STypeOK, SafeModeSound, OfflineThere, ConnectSteps, connection, counters
<1>1. CASE BeginConnect
  BY <1>1 DEF BeginConnect, Close, SocketClosed, Disconnected
<1>2. CASE Dial
  BY <1>2 DEF Dial
<1>3. CASE Challenged
  BY <1>3 DEF Challenged
<1>4. CASE Signed
  BY <1>4 DEF Signed
<1>5. CASE Accepted
  BY <1>5 DEF Accepted
<1>6. CASE ConnectFails
  BY <1>6 DEF ConnectFails, SafeModeSet, SocketClosed
<1>7. CASE TopOnline
  BY <1>7 DEF TopOnline
<1>8. CASE FlushFails
  BY <1>8 DEF FlushFails, Broken, Close, SocketClosed, Disconnected
<1>9. CASE ReceiveFails
  BY <1>9 DEF ReceiveFails, Broken, LoopCloses, Close, SocketClosed, Disconnected
<1>10. CASE EndIteration
  BY <1>10 DEF EndIteration
<1>11. CASE Wake
  BY <1>11 DEF Wake
<1>12. CASE PeerFails
  BY <1>12 DEF PeerFails
<1>13. CASE UNCHANGED svars
  BY <1>13 DEF svars
<1>14. QED
  BY <1>1, <1>2, <1>3, <1>4, <1>5, <1>6, <1>7, <1>8, <1>9, <1>10, <1>11, <1>12, <1>13
  DEF Next, LoopStep

LEMMA SInductive == Spec => []SInv
<1>1. SInv /\ [Next]_svars => SInv'
  BY STypeStep, OfflineStep, SocketStep, CountersStep, SafeStep DEF SInv
<1>2. QED
  BY <1>1, SInvInit, PTL DEF Spec

(* Every variable keeps its type, the counters of runtime.status included. *)
THEOREM STyping == Spec => []STypeOK
<1>1. SInv => STypeOK
  BY DEF SInv
<1>2. QED
  BY <1>1, SInductive, PTL

(* Wherever a connection fails, its socket is closed before the next one   *)
(* is dialled (transport 30-89).                                           *)
THEOREM NeverTwoSockets == Spec => []OneSocket
<1>1. SInv => OneSocket
  BY DEF SInv
<1>2. QED
  BY <1>1, SInductive, PTL

(* The counters that runtime.status reports agree with the sessions there  *)
(* were (runtime_state.py, 63-92).                                         *)
THEOREM StatusAddsUp == Spec => []CountersAgree
<1>1. SInv => CountersAgree
  BY DEF SInv
<1>2. QED
  BY <1>1, SInductive, PTL

(* Safe mode begins and ends where it should (runtime_state.py, 66-82).    *)
THEOREM SafeModeIsSound == Spec => []SafeModeSound
<1>1. SInv => SafeModeSound
  BY DEF SInv
<1>2. QED
  BY <1>1, SInductive, PTL
=============================================================================
