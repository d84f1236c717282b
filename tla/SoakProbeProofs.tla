--------------------------- MODULE SoakProbeProofs ---------------------------
(***************************************************************************)
(* Proofs about SoakProbe, for all commands, intervals, limits and lists   *)
(* of tools.                                                               *)
(***************************************************************************)
EXTENDS SoakProbe, FiniteSetTheorems, TLAPS

ToolLists == Tools \union {NoTools}
Socks == {"none", "open", "torn", "broken"}
Results == [command : Names \union {NoCommand}, status : {"ok", "failed"}, tools : ToolLists, took : Nat]
Sessions == [at : {"off", "setup", "next", "awaits", "observes", "over", "failed"},
             asked : SUBSET Names, todo : SUBSET Names,
             command : Names \union {NoCommand}, results : Seq(Results),
             sock : Socks, began : Nat, since : Nat, id : Nat]
Answers == [id : Nat, status : {"ok", "failed"}, tools : ToolLists]

Typed ==
    /\ now \in Nat /\ tools \in Tools /\ had \subseteq Tools
    /\ session \in Sessions /\ session.since <= now /\ session.began <= now /\ pending \subseteq Nat /\ inbox \in Seq(Answers)

LEMMA ClosedTyped == Closed \in Sessions
<1>1. << >> \in Seq(Results)
  OBVIOUS
<1> QED
  BY <1>1 DEF Closed, Sessions, Socks

LEMMA DueNames == Due \in SUBSET Names
BY DEF Due

\* A text that is no answer leaves the request waiting, or it has failed.
LEMMA EitherWay ==
    ASSUME GoesOn
    PROVE  Ends(Result("failed", NoTools), session.sock) \/ UNCHANGED <<session, had>>
BY DEF GoesOn

\* What every step of a session and of the world around it keeps.
LEMMA SessionTyped ==
    ASSUME Typed,
           \/ SetUp \/ Invokes \/ ReadsAnswer \/ TimesOut \/ Listens(Window) \/ Observed
           \/ Breaks \/ DeviceChanges \/ Event \/ Noise \/ (\E id \in pending : Replies(id))
    PROVE  Typed'
<1> USE DEF Typed
<1>1. ASSUME SetUp PROVE Typed'
  BY <1>1 DEF SetUp, Sessions
<1>2. ASSUME Invokes PROVE Typed'
  <2>1. PICK c \in session.todo :
          session' = [session EXCEPT !.at = "awaits", !.since = now, !.id = @ + 1,
                                     !.command = c, !.todo = @ \ {c}]
    BY <1>2 DEF Invokes
  <2>2. session.todo \ {c} \in SUBSET Names /\ c \in Names \union {NoCommand}
        /\ session.id + 1 \in Nat
    BY DEF Sessions
  <2>3. session' \in Sessions /\ session'.since = now /\ session'.began = session.began
    BY <2>1, <2>2 DEF Sessions
  <2>4. /\ pending' = pending \/ pending' = pending \union {session.id + 1}
        /\ had' = {tools} /\ UNCHANGED <<now, tools, inbox>>
    BY <1>2 DEF Invokes
  <2>5. pending' \subseteq Nat
    BY <2>2, <2>4
  <2> QED
    BY <2>3, <2>4, <2>5
<1>3. ASSUME NEW st \in {"ok", "failed"}, NEW list \in ToolLists, NEW sock \in Socks,
             Ends(Result(st, list), sock)
      PROVE  /\ session' \in Sessions /\ had' = {tools}
             /\ session'.since = session.since /\ session'.began = session.began
  <2> DEFINE result == Result(st, list)
  <2>1. session.since \in Nat /\ session.command \in Names \union {NoCommand} /\ session.results \in Seq(Results)
    BY DEF Sessions
  <2>2. now - session.since \in Nat
    BY <2>1
  <2>3. result \in Results
    BY <2>1, <2>2 DEF Result, Results
  <2>4. Append(session.results, result) \in Seq(Results)
    BY <2>1, <2>3
  <2>5. session' = [session EXCEPT !.at = "next", !.command = NoCommand, !.sock = sock,
                                   !.results = Append(@, result)]
    BY <1>3 DEF Ends
  <2> HIDE DEF result
  <2>6. session' \in Sessions /\ session'.since = session.since /\ session'.began = session.began
    BY <2>4, <2>5 DEF Sessions
  <2> QED
    BY <1>3, <2>6 DEF Ends
<1>11. ASSUME GoesOn
       PROVE  /\ session' \in Sessions /\ (had' = {tools} \/ had' = had)
              /\ session'.since = session.since /\ session'.began = session.began
  <2>1. NoTools \in ToolLists /\ session.sock \in Socks
    BY DEF ToolLists, Sessions
  <2>2. CASE Ends(Result("failed", NoTools), session.sock)
    BY <1>3, <2>1, <2>2
  <2>3. CASE UNCHANGED <<session, had>>
    BY <2>3
  <2> QED
    BY <1>11, <2>2, <2>3, EitherWay
<1>4. ASSUME ReadsAnswer PROVE Typed'
  <2>1. Head(inbox) \in Answers /\ Tail(inbox) \in Seq(Answers)
    BY <1>4 DEF ReadsAnswer
  <2>2. Head(inbox).status \in {"ok", "failed"} /\ Head(inbox).tools \in ToolLists /\ session.sock \in Socks
    BY <2>1 DEF Answers, Sessions
  <2>3. CASE Matches(Head(inbox))
    <3>1. Ends(Result(Head(inbox).status, Head(inbox).tools), session.sock)
      BY <1>4, <2>3 DEF ReadsAnswer
    <3> QED
      BY <1>3, <1>4, <2>1, <2>2, <3>1 DEF ReadsAnswer
  <2>4. CASE ~Matches(Head(inbox))
    <3>1. GoesOn
      BY <1>4, <2>4 DEF ReadsAnswer
    <3> QED
      BY <1>4, <1>11, <2>1, <3>1 DEF ReadsAnswer
  <2> QED
    BY <2>3, <2>4
<1>5. ASSUME TimesOut PROVE Typed'
  <2>1. PICK sock \in Socks : Ends(Result("failed", NoTools), sock)
    BY <1>5 DEF TimesOut, Sessions, Socks
  <2>2. NoTools \in ToolLists
    BY DEF ToolLists
  <2> QED
    BY <1>3, <1>5, <2>1, <2>2 DEF TimesOut
<1>6. ASSUME Breaks PROVE Typed'
  <2>2. NoTools \in ToolLists
    BY DEF ToolLists
  <2>1. Ends(Result("failed", NoTools), "broken") /\ "broken" \in Socks
    BY <1>6 DEF Breaks, Socks
  <2> QED
    BY <1>3, <1>6, <2>1, <2>2 DEF Breaks
<1>7. ASSUME Listens(Window) PROVE Typed'
  <2>1. \/ session' = [session EXCEPT !.at = "observes", !.since = now]
        \/ session' = [session EXCEPT !.at = "over", !.since = now]
    BY <1>7 DEF Listens
  <2>2. session' \in Sessions /\ session'.since = now /\ session'.began = session.began
    BY <2>1 DEF Sessions
  <2> QED
    BY <1>7, <2>2 DEF Listens
<1>8. ASSUME Observed PROVE Typed'
  <2>2. << >> \in Seq(Results)
    OBVIOUS
  <2> QED
    BY <1>8, <2>2 DEF Observed, Sessions
<1>9. ASSUME DeviceChanges PROVE Typed'
  BY <1>9 DEF DeviceChanges
<1>10. ASSUME NEW id \in pending, Replies(id) PROVE Typed'
  <2>1. PICK answer \in Answers : inbox' = Append(inbox, answer)
    <3>1. [id |-> id, status |-> "ok", tools |-> tools] \in Answers
      BY DEF Answers, ToolLists
    <3>2. [id |-> id, status |-> "failed", tools |-> NoTools] \in Answers
      BY DEF Answers, ToolLists
    <3> QED
      BY <1>10, <3>1, <3>2 DEF Replies
  <2> QED
    BY <1>10, <2>1 DEF Replies
<1>12. ASSUME Event \/ Noise PROVE Typed'
  <2>1. CASE Event
    BY <1>11, <2>1 DEF Event
  <2>2. CASE Noise
    BY <2>2 DEF Noise
  <2> QED
    BY <1>12, <2>1, <2>2
<1> QED
  BY <1>1, <1>2, <1>4, <1>5, <1>6, <1>7, <1>8, <1>9, <1>10, <1>12

LEMMA HangsTyped ==
    ASSUME Typed, Hangs, now' = now PROVE Typed'
<1>1. Closed.since = 0 /\ Closed.began = 0
  BY DEF Closed
<1> QED
  BY <1>1, ClosedTyped DEF Typed, Hangs

LEMMA OpensTyped ==
    ASSUME Typed, Opens(Due), now' = now PROVE Typed'
<1>1. session' \in Sessions /\ session'.since = now /\ session'.began = now
  BY ClosedTyped, DueNames DEF Typed, Opens, Sessions, Socks
<1> QED
  BY <1>1 DEF Typed, Opens

LEMMA TypedStep == ASSUME Typed, [Next]_vars PROVE Typed'
<1>1. CASE Session \/ World
  BY <1>1, SessionTyped DEF Session, World
<1>2. CASE Begins
  BY <1>2, OpensTyped DEF Begins
<1>3. CASE Kept \/ Killed
  BY <1>3, HangsTyped DEF Kept, Killed
<1>4. CASE LoopEnds \/ Books \/ Reschedules \/ Finishes \/ Attempted
  BY <1>4 DEF LoopEnds, Books, Reschedules, Finishes, Attempted, svars, Typed
<1>5. CASE Tick
  BY <1>5 DEF Tick, svars, Typed, Sessions
<1>6. CASE UNCHANGED vars
  BY <1>6 DEF vars, svars, Typed
<1> QED
  BY <1>1, <1>2, <1>3, <1>4, <1>5, <1>6 DEF Next, Loop

LEMMA Typing == Spec => []Typed
<1>1. Init => Typed
  <2>1. Closed.since = 0 /\ Closed.began = 0
    BY DEF Closed
  <2> QED
    BY <2>1, ClosedTyped DEF Init, SInit, Typed
<1> QED
  BY <1>1, TypedStep, PTL DEF Spec

-------------------------------------------------------------------------------

IsFresh(answer) ==
    /\ answer.id <= session.id
    /\ session.at = "awaits" /\ answer.id = session.id /\ answer.status = "ok" => answer.tools \in had

\* Answers on the way belong to requests that were made, and those to the
\* request that waits say what the device has offered meanwhile.
Fresh ==
    /\ \A n \in 1..Len(inbox) : IsFresh(inbox[n])
    /\ \A i \in pending : i <= session.id
    /\ session.at = "awaits" => tools \in had

LEMMA ReadFresh ==
    ASSUME Typed, Fresh, ReadsAnswer PROVE Fresh'
<1>1. inbox \in Seq(Answers) /\ inbox # << >>
  BY DEF Typed, ReadsAnswer
<1>2. /\ inbox' = Tail(inbox)
      /\ Len(Tail(inbox)) = Len(inbox) - 1
      /\ \A n \in 1..Len(Tail(inbox)) : n + 1 \in 1..Len(inbox) /\ inbox'[n] = inbox[n + 1]
  BY <1>1 DEF ReadsAnswer
<1>3. \/ UNCHANGED <<session, had>>
      \/ session'.at = "next" /\ session'.id = session.id
  BY DEF ReadsAnswer, GoesOn, Ends, Typed, Sessions
<1>4. UNCHANGED <<tools, pending>>
  BY DEF ReadsAnswer
<1> QED
  BY <1>2, <1>3, <1>4 DEF Fresh, IsFresh

LEMMA InvokesFresh ==
    ASSUME Typed, Fresh, Invokes PROVE Fresh'
<1>1. session.id \in Nat
  BY DEF Typed, Sessions
<1>2. PICK c \in session.todo :
          session' = [session EXCEPT !.at = "awaits", !.since = now, !.id = @ + 1,
                                     !.command = c, !.todo = @ \ {c}]
  BY DEF Invokes
<1>3. session'.id = session.id + 1
  BY <1>2 DEF Typed, Sessions
<1>4. \A n \in 1..Len(inbox) : inbox[n].id \in Nat /\ inbox[n].id <= session.id
  <2>1. \A n \in 1..Len(inbox) : inbox[n] \in Answers
    BY DEF Typed
  <2> QED
    BY <2>1 DEF Answers, Fresh, IsFresh
<1>5. inbox' = inbox /\ tools' = tools /\ had' = {tools}
  BY DEF Invokes
<1>6. \A n \in 1..Len(inbox') : IsFresh(inbox[n])'
  BY <1>1, <1>3, <1>4, <1>5 DEF IsFresh
<1>7. pending' = pending \/ pending' = pending \union {session.id + 1}
  BY DEF Invokes
<1>8. ASSUME NEW i \in pending' PROVE i <= session'.id
  <2>1. i \in pending \/ i = session.id + 1
    BY <1>7, <1>8
  <2>2. i \in pending => i \in Nat /\ i <= session.id
    BY DEF Typed, Fresh
  <2> QED
    BY <1>1, <1>3, <2>1, <2>2
<1> QED
  BY <1>5, <1>6, <1>8 DEF Fresh

LEMMA RepliesFresh ==
    ASSUME Typed, Fresh, NEW id \in pending, Replies(id) PROVE Fresh'
<1>1. PICK answer \in Answers : /\ inbox' = Append(inbox, answer) /\ answer.id = id
                                /\ answer.status = "ok" => answer.tools = tools
  <2>1. LET a == [id |-> id, status |-> "ok", tools |-> tools]
        IN  a \in Answers /\ a.id = id /\ a.tools = tools
    BY DEF Answers, ToolLists, Typed
  <2>2. LET a == [id |-> id, status |-> "failed", tools |-> NoTools]
        IN  a \in Answers /\ a.id = id /\ a.status = "failed"
    BY DEF Answers, ToolLists, Typed
  <2> QED
    BY <2>1, <2>2 DEF Replies
<1>2. inbox \in Seq(Answers)
  BY DEF Typed
<1>3. /\ Len(inbox') = Len(inbox) + 1
      /\ \A n \in 1..Len(inbox) : inbox'[n] = inbox[n]
      /\ inbox'[Len(inbox) + 1] = answer
  BY <1>1, <1>2
<1>4. UNCHANGED <<session, tools, had>> /\ pending' = pending \ {id}
  BY DEF Replies
<1>5. IsFresh(answer)
  BY <1>1 DEF Fresh, IsFresh
<1>6. \A n \in 1..Len(inbox') : IsFresh(inbox'[n])
  <2>1. \A n \in 1..Len(inbox') : n \in 1..Len(inbox) \/ n = Len(inbox) + 1
    BY <1>2, <1>3
  <2> QED
    BY <1>3, <1>5, <2>1 DEF Fresh
<1>7. \A n \in 1..Len(inbox') : IsFresh(inbox[n])'
  BY <1>4, <1>6 DEF IsFresh
<1> QED
  BY <1>4, <1>7 DEF Fresh

LEMMA FreshStep == ASSUME Typed, Fresh, [Next]_vars PROVE Fresh'
<1>1. CASE SetUp \/ TimesOut \/ Breaks \/ Listens(Window) \/ Observed
  <2>1. session'.at # "awaits" /\ session'.id = session.id
    BY <1>1 DEF SetUp, TimesOut, Breaks, Listens, Observed, Ends, Typed, Sessions
  <2>2. UNCHANGED <<inbox, pending, tools>>
    BY <1>1 DEF SetUp, TimesOut, Breaks, Listens, Observed
  <2> QED
    BY <2>1, <2>2 DEF Fresh, IsFresh
<1>2. CASE DeviceChanges
  <2>1. UNCHANGED <<inbox, pending, session>> /\ tools' \in had'
    BY <1>2 DEF DeviceChanges
  <2>2. session.at = "awaits" => had \subseteq had'
    BY <1>2 DEF DeviceChanges
  <2> QED
    BY <2>1, <2>2 DEF Fresh, IsFresh
<1>3. CASE Hangs
  <2>1. inbox' = << >> /\ pending' = {} /\ session' = Closed /\ Closed.at # "awaits"
    BY <1>3 DEF Hangs, Closed
  <2> QED
    BY <2>1 DEF Fresh
<1>4. CASE Opens(Due)
  <2>1. inbox' = << >> /\ pending' = {} /\ session'.at = "setup"
    BY <1>4, ClosedTyped DEF Opens, Sessions
  <2> QED
    BY <2>1 DEF Fresh
<1>5. CASE UNCHANGED <<tools, had, session, pending, inbox>>
  BY <1>5 DEF Fresh, IsFresh
<1>6. CASE Event
  <2>1. /\ UNCHANGED <<inbox, pending, tools>>
        /\ \/ UNCHANGED <<session, had>>
           \/ session'.at # "awaits" /\ session'.id = session.id
    BY <1>6 DEF Event, GoesOn, Ends, Typed, Sessions
  <2> QED
    BY <2>1 DEF Fresh, IsFresh
<1> QED
  BY <1>1, <1>2, <1>3, <1>4, <1>5, <1>6, ReadFresh, InvokesFresh, RepliesFresh
  DEF Next, Session, Loop, World, Begins, LoopEnds, Kept, Books, Reschedules, Finishes,
      Attempted, Killed, Tick, Noise, svars, vars

\* What a step that adds a result adds.
LEMMA ResultIsFresh ==
    ASSUME Typed, Fresh, [Next]_vars, Len(session'.results) > Len(session.results)
    PROVE  LET r == session'.results[Len(session'.results)]
           IN  r.status = "ok" => r.tools \in had
<1> DEFINE r == session'.results[Len(session'.results)]
<1>1. ASSUME NEW st \in {"ok", "failed"}, NEW list \in ToolLists, NEW sock \in Socks,
             Ends(Result(st, list), sock)
      PROVE  r.status = st /\ r.tools = list
  <2> DEFINE result == Result(st, list)
  <2>1. result.status = st /\ result.tools = list
    BY DEF Result
  <2>2. session' = [session EXCEPT !.at = "next", !.command = NoCommand, !.sock = sock,
                                   !.results = Append(@, result)]
    BY <1>1 DEF Ends
  <2> HIDE DEF result
  <2>3. session.results \in Seq(Results) /\ session'.results = Append(session.results, result)
    BY <2>2 DEF Typed, Sessions
  <2>4. r = result
    <3>1. Len(Append(session.results, result)) = Len(session.results) + 1
      BY <2>3
    <3>2. Append(session.results, result)[Len(session.results) + 1] = result
      BY <2>3
    <3> QED
      BY <2>3, <3>1, <3>2
  <2> QED
    BY <2>1, <2>4
<1>10. ASSUME GoesOn PROVE r.status = "failed"
  <2>1. session.results \in Seq(Results) /\ session.sock \in Socks
    BY DEF Typed, Sessions
  <2>2. session' # session
    BY <2>1
  <2>3. Ends(Result("failed", NoTools), session.sock)
    BY <1>10, <2>2, EitherWay
  <2> QED
    BY <1>1, <2>1, <2>3 DEF ToolLists
<1>2. ASSUME ReadsAnswer, Matches(Head(inbox)) PROVE r.status = "ok" => r.tools \in had
  <2>1. Matches(Head(inbox)) /\ Ends(Result(Head(inbox).status, Head(inbox).tools), session.sock)
    BY <1>2 DEF ReadsAnswer
  <2>2. Head(inbox) \in Answers /\ Head(inbox) = inbox[1] /\ 1 \in 1..Len(inbox)
    BY <1>2 DEF ReadsAnswer, Typed
  <2>3. /\ Head(inbox).status \in {"ok", "failed"} /\ Head(inbox).tools \in ToolLists
        /\ session.sock \in Socks
    BY <2>2 DEF Answers, Typed, Sessions
  <2>4. r.status = Head(inbox).status /\ r.tools = Head(inbox).tools
    BY <1>1, <2>1, <2>3
  <2>5. Head(inbox).status = "ok" => Head(inbox).tools \in had
    BY <1>2, <2>1, <2>2 DEF ReadsAnswer, Matches, Fresh, IsFresh
  <2> QED
    BY <2>4, <2>5
<1>3. ASSUME TimesOut \/ Breaks PROVE r.status = "failed"
  <2>1. PICK sock \in Socks : Ends(Result("failed", NoTools), sock)
    BY <1>3 DEF TimesOut, Breaks, Typed, Sessions, Socks
  <2> QED
    BY <1>1, <2>1 DEF ToolLists
<1>4. ASSUME SetUp \/ Invokes \/ Listens(Window) \/ Observed
      PROVE  session'.results = session.results \/ session'.results = << >>
  BY <1>4 DEF SetUp, Invokes, Listens, Observed, Typed, Sessions
<1>5. ASSUME Hangs \/ Opens(Due) PROVE session'.results = << >>
  <2>1. Closed.results = << >>
    BY DEF Closed
  <2> QED
    BY <1>5, <2>1, ClosedTyped DEF Hangs, Opens, Sessions
<1>6. Len(<< >>) = 0 /\ session.results \in Seq(Results)
  BY DEF Typed, Sessions
<1>7. session'.results # session.results /\ session'.results # << >>
  BY <1>6
<1>8. session' # session
  BY <1>7
<1>9. ReadsAnswer \/ TimesOut \/ Breaks \/ GoesOn
  BY <1>4, <1>5, <1>7, <1>8
  DEF Next, Session, Loop, World, Begins, LoopEnds, Kept, Books, Reschedules, Finishes,
      Attempted, Killed, Tick, vars, svars, DeviceChanges, Replies, Event, Noise
<1>11. ReadsAnswer => Matches(Head(inbox)) \/ GoesOn
  BY DEF ReadsAnswer
<1> QED
  BY <1>2, <1>3, <1>9, <1>10, <1>11

\* A successful result is never a late answer to an earlier request.
THEOREM ResultsAreFresh == Spec => FreshResults
<1>1. Init => Fresh
  <2>1. Closed.at # "awaits"
    BY DEF Closed
  <2> QED
    BY <2>1 DEF Init, SInit, Fresh
<1>2. Spec => []Fresh
  BY <1>1, FreshStep, Typing, PTL DEF Spec
<1>3. Typed /\ Fresh /\ [Next]_vars =>
        [Len(session'.results) > Len(session.results) =>
           LET r == session'.results[Len(session'.results)]
           IN  r.status = "ok" => r.tools \in had]_vars
  BY ResultIsFresh
<1> QED
  BY <1>2, <1>3, Typing, PTL DEF Spec, FreshResults

-------------------------------------------------------------------------------

Samples == [commands : SUBSET Names, status : {"ok", "failed"}, began : Nat, ended : Nat,
            results : Seq(Results)]

\* What is common to the samples of both modes.
Kinds ==
    /\ mode \in {"soak", "recovery-check"} /\ samples \in Seq(Samples)
    /\ \A j \in 1..Len(samples) : samples[j].ended <= now
    /\ at = "session" => session.began < Duration
    /\ \A j \in 1..Len(samples) : samples[j].began < Duration

LEMMA SampleTyped ==
    ASSUME Typed
    PROVE  /\ Sample \in Samples /\ Sample.ended = now
           /\ Sample.began = session.began /\ Sample.commands = session.asked
<1> DEFINE rs == [i \in DOMAIN session.results |->
                     LET r == session.results[i]
                     IN  [r EXCEPT !.tools = IF r.command = Catalog THEN @ ELSE NoTools]]
<1>1. /\ session.results \in Seq(Results) /\ session.asked \in SUBSET Names
      /\ session.began \in Nat /\ now \in Nat
  BY DEF Typed, Sessions
<1>2. ASSUME NEW i \in DOMAIN session.results
      PROVE  rs[i] \in Results
  <2>1. session.results[i] \in Results
    BY <1>1
  <2>2. rs[i] = [session.results[i] EXCEPT !.tools = session.results[i].tools]
        \/ rs[i] = [session.results[i] EXCEPT !.tools = NoTools]
    OBVIOUS
  <2> QED
    BY <2>1, <2>2 DEF Results, ToolLists
<1>3. rs \in Seq(Results)
  <2>1. DOMAIN rs = 1..Len(session.results) /\ Len(session.results) \in Nat
    BY <1>1
  <2>2. rs \in [1..Len(session.results) -> Results]
    BY <1>2, <2>1
  <2> HIDE DEF rs
  <2> QED
    BY <2>1, <2>2
<1>4. Status \in {"ok", "failed"}
  BY DEF Status
<1>5. Sample = [commands |-> session.asked, status |-> Status, began |-> session.began,
                ended |-> now, results |-> rs]
  BY DEF Sample
<1> HIDE DEF rs
<1> QED
  BY <1>1, <1>3, <1>4, <1>5 DEF Samples

\* A session keeps what it was asked for and when it began.
LEMMA SessionKeeps ==
    ASSUME Typed, Session \/ World
    PROVE  session'.asked = session.asked /\ session'.began = session.began
<1>1. CASE SetUp \/ Invokes
  BY <1>1 DEF SetUp, Invokes, Typed, Sessions
<1>2. CASE ReadsAnswer
  BY <1>2 DEF ReadsAnswer, GoesOn, Ends, Typed, Sessions
<1>3. CASE TimesOut \/ Breaks
  BY <1>3 DEF TimesOut, Breaks, Ends, Typed, Sessions
<1>4. CASE Listens(Window) \/ Observed
  BY <1>4 DEF Listens, Observed, Typed, Sessions
<1>5. CASE DeviceChanges \/ Noise \/ \E id \in pending : Replies(id)
  BY <1>5 DEF DeviceChanges, Noise, Replies
<1>6. CASE Event
  BY <1>6 DEF Event, GoesOn, Ends, Typed, Sessions
<1> QED
  BY <1>1, <1>2, <1>3, <1>4, <1>5, <1>6 DEF Session, World

LEMMA OpensKeeps ==
    ASSUME Typed, Opens(Due)
    PROVE  session'.asked = Due /\ session'.began = now
BY ClosedTyped DEF Opens, Sessions

LEMMA KeptGrows ==
    ASSUME samples \in Seq(Samples), Typed, Kept
    PROVE  /\ samples' \in Seq(Samples) /\ Len(samples') = Len(samples) + 1
           /\ \A j \in 1..Len(samples) : samples'[j] = samples[j]
           /\ samples'[Len(samples) + 1] = Sample
           /\ \A j \in 1..Len(samples') : j \in 1..Len(samples) \/ j = Len(samples) + 1
<1>1. Sample \in Samples /\ samples' = Append(samples, Sample)
  BY SampleTyped DEF Kept
<1> QED
  BY <1>1

LEMMA KindsStep == ASSUME Typed, Kinds, [Next]_vars PROVE Kinds'
<1> USE DEF Kinds
<1>1. CASE Kept
  <2>1. at' # "session" /\ UNCHANGED <<now, mode>> /\ at = "session"
    BY <1>1 DEF Kept
  <2>2. Sample.ended = now /\ Sample.began < Duration /\ now <= now
    BY <2>1, SampleTyped DEF Typed
  <2>3. ASSUME NEW j \in 1..Len(samples')
        PROVE  samples'[j].ended <= now /\ samples'[j].began < Duration
    <3>1. CASE j \in 1..Len(samples)
      BY <1>1, <3>1, KeptGrows
    <3>2. CASE j = Len(samples) + 1
      BY <1>1, <2>2, <3>2, KeptGrows
    <3> QED
      BY <1>1, <2>3, <3>1, <3>2, KeptGrows
  <2>4. samples' \in Seq(Samples)
    BY <1>1, KeptGrows
  <2> QED
    BY <2>1, <2>3, <2>4
<1>2. CASE Begins
  BY <1>2, OpensKeeps, SoakAssumption DEF Begins, MayEnd, books, Typed
<1>3. CASE Session \/ World
  <2>1. UNCHANGED <<mode, at, samples>> /\ now' = now
    BY <1>3 DEF Session, World, books, SetUp, Invokes, ReadsAnswer, TimesOut, Listens, Observed,
                Breaks, DeviceChanges, Event, Noise, Replies
  <2> QED
    BY <1>3, <2>1, SessionKeeps
<1>4. CASE Tick
  <2>1. UNCHANGED <<mode, at, samples, session>> /\ now' = now + 1
    BY <1>4 DEF Tick, books, svars
  <2>2. ASSUME NEW j \in 1..Len(samples) PROVE samples[j].ended <= now + 1
    <3>1. samples[j] \in Samples
      OBVIOUS
    <3> QED
      BY <3>1 DEF Samples, Typed
  <2> QED
    BY <2>1, <2>2
<1>5. CASE LoopEnds \/ Books \/ Reschedules \/ Finishes \/ Attempted \/ Killed
  BY <1>5 DEF LoopEnds, Books, Reschedules, Finishes, Attempted, Killed, svars
<1>6. CASE UNCHANGED vars
  BY <1>6 DEF vars, svars, books
<1> QED
  BY <1>1, <1>2, <1>3, <1>4, <1>5, <1>6 DEF Next, Loop

LEMMA KindsHold == Spec => []Kinds
<1>1. Init => Kinds
  BY DEF Init, Kinds
<1> QED
  BY <1>1, KindsStep, Typing, PTL DEF Spec

-------------------------------------------------------------------------------

Sampled == {n \in Names : Interval[n] > 0}

\* No command is due before its interval has passed since its last sample.
Elapsed ==
    /\ next_due \in [Sampled -> Nat] /\ at # "attempted"
    /\ at = "session" => /\ session.asked \subseteq Sampled
                         /\ \A c \in session.asked : next_due[c] <= session.began
    /\ \A j \in 1..Len(samples) :
         /\ samples[j].commands \subseteq Sampled
         /\ at \in {"loop", "session"} \/ j < Len(samples) =>
              \A c \in samples[j].commands : samples[j].ended + Interval[c] <= next_due[c]
    /\ \A j \in 1..Len(samples) : \A i \in 1..(j - 1) :
         \A c \in samples[j].commands \intersect samples[i].commands :
           samples[j].began >= samples[i].ended + Interval[c]

Schedule == mode = "soak" => Elapsed

LEMMA KeptElapsed ==
    ASSUME Typed, Kinds, Elapsed, Kept, mode = "soak" PROVE Elapsed'
<1> DEFINE n == Len(samples)
<1>1. /\ samples \in Seq(Samples) /\ n \in Nat /\ at = "session" /\ at' = "sampled"
      /\ next_due' = next_due
  BY DEF Kinds, Kept
<1>2. ASSUME NEW j \in 1..Len(samples')
      PROVE  /\ samples'[j].commands \subseteq Sampled
             /\ j < Len(samples') => \A c \in samples'[j].commands :
                                       samples'[j].ended + Interval[c] <= next_due[c]
  <2>1. CASE j \in 1..n
    <3>1. samples'[j] = samples[j]
      BY <1>1, <2>1, KeptGrows
    <3> QED
      BY <1>1, <2>1, <3>1 DEF Elapsed
  <2>2. CASE j = n + 1
    BY <1>1, <2>2, KeptGrows, SampleTyped DEF Elapsed
  <2> QED
    BY <2>1, <2>2, <1>1, KeptGrows
<1>3. ASSUME NEW j \in 1..Len(samples'), NEW i \in 1..(j - 1),
             NEW c \in samples'[j].commands \intersect samples'[i].commands
      PROVE  samples'[j].began >= samples'[i].ended + Interval[c]
  <2>1. CASE j \in 1..n
    <3>1. i \in 1..n /\ samples'[j] = samples[j] /\ samples'[i] = samples[i]
      BY <1>1, <2>1, KeptGrows
    <3> QED
      BY <2>1, <3>1, <1>3 DEF Elapsed
  <2>2. CASE j = n + 1
    <3>1. i \in 1..n /\ samples'[i] = samples[i] /\ samples'[j] = Sample
      BY <1>1, <2>2, KeptGrows
    <3>2. c \in session.asked /\ samples'[j].began = session.began
      BY <3>1, SampleTyped, <1>3
    <3>3. next_due[c] <= session.began /\ samples[i].ended + Interval[c] <= next_due[c]
      BY <1>1, <1>3, <3>1, <3>2 DEF Elapsed
    <3>4. samples[i] \in Samples /\ c \in Sampled
      BY <1>1, <3>1, <3>2 DEF Elapsed
    <3>5. /\ samples[i].ended \in Nat /\ Interval[c] \in Nat /\ next_due[c] \in Nat
          /\ session.began \in Nat
      BY <3>4, SoakAssumption DEF Samples, Sampled, Names, Elapsed, Typed, Sessions
    <3> QED
      BY <3>1, <3>2, <3>3, <3>5
  <2> QED
    BY <2>1, <2>2, <1>1, KeptGrows
<1> QED
  BY <1>1, <1>2, <1>3 DEF Elapsed

LEMMA ReschedulesElapsed ==
    ASSUME Typed, Kinds, Elapsed, Reschedules, samples # << >> PROVE Elapsed'
<1> DEFINE n == Len(samples)
<1>1. /\ samples \in Seq(Samples) /\ n \in 1..n /\ n \in Nat /\ samples' = samples
      /\ at = "booked" /\ at' \in {"loop", "ends"}
  BY DEF Kinds, Reschedules
<1>2. next_due' = [c \in Sampled |-> IF c \in samples[n].commands THEN now + Interval[c]
                                                                 ELSE next_due[c]]
  BY DEF Reschedules, Rescheduled, Last, Elapsed
<1>3. ASSUME NEW c \in Sampled PROVE Interval[c] \in Nat /\ now + Interval[c] \in Nat
  BY SoakAssumption DEF Sampled, Names, Typed
<1>4. next_due' \in [Sampled -> Nat]
  BY <1>2, <1>3 DEF Elapsed
<1>5. ASSUME NEW j \in 1..n, NEW c \in samples[j].commands
      PROVE  samples[j].ended + Interval[c] <= next_due'[c]
  <2>1. /\ c \in Sampled /\ samples[j] \in Samples /\ samples[j].ended <= now /\ now \in Nat
        /\ j < n => samples[j].ended + Interval[c] <= next_due[c]
        /\ j = n => c \in samples[n].commands
    BY <1>1, <1>5 DEF Elapsed, Kinds, Typed
  <2>2. samples[j].ended \in Nat /\ Interval[c] \in Nat
    BY <1>3, <2>1 DEF Samples
  <2>3. samples[j].ended + Interval[c] <= now + Interval[c]
    BY <2>1, <2>2
  <2>4. j < n \/ j = n
    BY <1>1
  <2> QED
    BY <1>2, <2>1, <2>3, <2>4
<1> QED
  BY <1>1, <1>4, <1>5 DEF Elapsed

\* A sample is booked only when there is one.
Booked == at \in {"sampled", "booked", "attempted"} => samples # << >>

LEMMA BookedStep == ASSUME Typed, Kinds, Booked, [Next]_vars PROVE Booked'
<1>1. CASE Kept
  <2>1. Len(samples') = Len(samples) + 1 /\ Len(samples) \in Nat
    BY <1>1, KeptGrows DEF Kinds
  <2> QED
    BY <2>1 DEF Booked
<1>2. CASE Session \/ World \/ Begins \/ LoopEnds \/ Books \/ Reschedules \/ Finishes
           \/ Attempted \/ Killed \/ Tick \/ UNCHANGED vars
  BY <1>2 DEF Booked, Session, World, Begins, LoopEnds, Books, Reschedules, Finishes, Attempted,
              Killed, Tick, vars, books
<1> QED
  BY <1>1, <1>2 DEF Next, Loop

LEMMA ScheduleStep ==
    ASSUME Typed, Kinds, Booked, Schedule, [Next]_vars PROVE Schedule'
<1>1. mode' = mode
  BY DEF Next, Session, World, Loop, Begins, LoopEnds, Kept, Books, Reschedules, Finishes,
         Attempted, Killed, Tick, vars
<1> SUFFICES ASSUME mode = "soak", Elapsed PROVE Elapsed'
  BY <1>1 DEF Schedule
<1>2. CASE Kept
  BY <1>2, KeptElapsed
<1>3. CASE Reschedules
  BY <1>3, ReschedulesElapsed DEF Reschedules, Booked
<1>4. CASE Begins
  <2>1. /\ at = "loop" /\ at' = "session" /\ UNCHANGED <<next_due, samples>>
        /\ session'.asked = Due /\ session'.began = now
    BY <1>4, OpensKeeps DEF Begins, books
  <2>2. Due \subseteq Sampled /\ \A c \in Due : next_due[c] <= now
    BY DEF Due, IsDue, Elapsed
  <2> QED
    BY <2>1, <2>2 DEF Elapsed
<1>5. CASE Session \/ World
  <2>1. UNCHANGED <<next_due, samples, at>>
    BY <1>5 DEF Session, World, books
  <2> QED
    BY <1>5, <2>1, SessionKeeps DEF Elapsed
<1>6. CASE LoopEnds \/ Books \/ Finishes \/ Killed
  <2>1. UNCHANGED <<next_due, samples>> /\ at' \notin {"loop", "session", "attempted"}
    BY <1>6 DEF LoopEnds, Books, Finishes, Killed
  <2> QED
    BY <2>1 DEF Elapsed
<1>7. CASE Tick \/ UNCHANGED vars
  <2>1. UNCHANGED <<next_due, samples, at, session>>
    BY <1>7 DEF Tick, vars, svars, books
  <2> QED
    BY <2>1 DEF Elapsed
<1>8. ~Attempted
  BY DEF Attempted, Elapsed
<1> QED
  BY <1>2, <1>3, <1>4, <1>5, <1>6, <1>7, <1>8 DEF Next, Loop

\* Samples of a command are its interval apart, however long sessions take.
THEOREM SamplesAreSpaced == Spec => []Spaced
<1>1. Init => Booked /\ Schedule
  <2>1. Init => samples = << >> /\ Len(samples) = 0 /\ at = "loop"
    BY DEF Init
  <2>2. Init => (mode = "soak" => next_due \in [Sampled -> Nat])
    BY DEF Init, Sampled
  <2> QED
    BY <2>1, <2>2 DEF Booked, Schedule, Elapsed
<1>2. Spec => []Booked
  BY <1>1, BookedStep, KindsHold, Typing, PTL DEF Spec
<1>3. Spec => []Schedule
  BY <1>1, <1>2, ScheduleStep, KindsHold, Typing, PTL DEF Spec
<1>4. Kinds /\ Schedule => Spaced
  <2> SUFFICES ASSUME Kinds, Elapsed PROVE Spaced
    BY DEF Schedule, Spaced
  <2>1. DOMAIN samples = 1..Len(samples)
    BY DEF Kinds
  <2>2. \A j \in 1..Len(samples) : \A c \in samples[j].commands : Interval[c] > 0
    BY DEF Elapsed, Sampled
  <2> QED
    BY <2>1, <2>2 DEF Elapsed, Spaced
<1> QED
  BY <1>3, <1>4, KindsHold, PTL

-------------------------------------------------------------------------------

\* The streak of the summary is that of the samples which have been booked.
Counted(n) ==
    /\ summary.consecutive \in Nat /\ summary.consecutive <= n
    /\ \A j \in 1..n : j > n - summary.consecutive => ~Ok(j)
    /\ summary.consecutive < n => Ok(n - summary.consecutive)

NoLongStreak(k) == k >= MaxFailures => ~AllFailed(k - MaxFailures + 1, k)

SoakStops ==
    LET n == Len(samples)
    IN  /\ at # "attempted" /\ verdict = "none"
        /\ at = "sampled" => n > 0 /\ Counted(n - 1)
        /\ at \notin {"sampled", "killed"} => Counted(n)
        /\ \A k \in 1..n : k < n \/ at \in {"loop", "session"} => NoLongStreak(k)
        /\ at \in {"ends", "done"} => MayEnd \/ (n >= MaxFailures /\ AllFailed(n - MaxFailures + 1, n))

CheckStops ==
    LET n == Len(samples)
    IN  /\ at \notin {"sampled", "booked"}
        /\ verdict # "none" => at \in {"ends", "done", "killed"}
        /\ at \in {"loop", "session"} => \A i \in 1..n : ~Ok(i)
        /\ at = "attempted" => n > 0 /\ \A i \in 1..n : i < n => ~Ok(i)
        /\ verdict = "in time" => n > 0 /\ Ok(n) /\ samples[n].ended <= Target
        /\ verdict = "timeout" => now >= Duration /\ \A i \in 1..n : ~Ok(i)

Stops == IF mode = "soak" THEN SoakStops ELSE CheckStops

LEMMA OkKept ==
    ASSUME Kinds, Typed, Kept PROVE \A j \in 1..Len(samples) : Ok(j)' <=> Ok(j)
BY KeptGrows DEF Kinds, Ok

LEMMA KeptStops == ASSUME Typed, Kinds, Stops, Kept PROVE Stops'
<1> DEFINE n == Len(samples)
<1>1. /\ n \in Nat /\ Len(samples') = n + 1 /\ at = "session" /\ mode' = mode
      /\ at' = IF mode = "soak" THEN "sampled" ELSE "attempted"
      /\ UNCHANGED <<now, summary, verdict>>
  BY KeptGrows DEF Kinds, Kept
<1>2. \A j \in 1..n : Ok(j)' <=> Ok(j)
  BY OkKept
<1>3. CASE mode = "soak"
  <2>1. Counted(n) /\ verdict = "none" /\ \A k \in 1..n : NoLongStreak(k)
    BY <1>1, <1>3 DEF Stops, SoakStops
  <2>2. ASSUME NEW m \in Nat, m = n PROVE Counted(m)'
    <3>1. Counted(m) /\ \A j \in 1..m : Ok(j)' <=> Ok(j)
      BY <1>2, <2>1, <2>2
    <3>2. summary.consecutive < m => m - summary.consecutive \in 1..m
      BY <3>1 DEF Counted
    <3> QED
      BY <1>1, <3>1, <3>2 DEF Counted
  <2>3. ASSUME NEW k \in 1..n PROVE NoLongStreak(k)'
    <3>1. CASE k >= MaxFailures
      <4>1. PICK j \in (k - MaxFailures + 1)..k : Ok(j)
        BY <2>1, <3>1 DEF NoLongStreak, AllFailed
      <4>2. j \in 1..n
        BY <3>1, <4>1, SoakAssumption, <1>1
      <4> QED
        BY <1>2, <4>1, <4>2 DEF NoLongStreak, AllFailed
    <3> QED
      BY <3>1 DEF NoLongStreak
  <2>4. Counted(Len(samples) - 1)'
    <3>1. PICK m \in Nat : m = n
      BY <1>1
    <3>2. Counted(m)' /\ Len(samples') - 1 = m
      BY <1>1, <2>2, <3>1
    <3> QED
      BY <3>2
  <2>5. \A k \in 1..Len(samples') : k < Len(samples') => NoLongStreak(k)'
    BY <1>1, <2>3
  <2>6. at' = "sampled" /\ Len(samples') > 0 /\ verdict' = "none"
    BY <1>1, <1>3, <2>1
  <2>7. SoakStops'
    BY <2>4, <2>5, <2>6 DEF SoakStops
  <2> QED
    BY <1>1, <1>3, <2>7 DEF Stops
<1>4. CASE mode # "soak"
  <2>1. verdict = "none" /\ \A i \in 1..n : ~Ok(i)
    BY <1>1, <1>4 DEF Stops, CheckStops
  <2>2. \A i \in 1..(n + 1) : i < n + 1 => i \in 1..n
    BY <1>1
  <2>3. CheckStops'
    BY <1>1, <1>2, <1>4, <2>1, <2>2 DEF CheckStops
  <2> QED
    BY <1>1, <1>4, <2>3 DEF Stops
<1> QED
  BY <1>3, <1>4

LEMMA BooksStops == ASSUME Typed, Kinds, Stops, Books PROVE Stops'
<1> DEFINE n == Len(samples)
           s == summary.consecutive
<1>1. /\ n \in Nat /\ at = "sampled" /\ at' = "booked"
      /\ UNCHANGED <<mode, now, samples, verdict>>
  BY DEF Kinds, Books
<1>2. mode = "soak" /\ SoakStops
  BY <1>1 DEF Stops, CheckStops
<1>3. n > 0 /\ Counted(n - 1) /\ verdict = "none" /\ \A k \in 1..n : k < n => NoLongStreak(k)
  BY <1>1, <1>2 DEF SoakStops
<1>4. summary'.consecutive = IF Ok(n) THEN 0 ELSE s + 1
  BY DEF Books, Updated, Streak, Last, Ok
<1>5. \A j \in 1..n : Ok(j)' <=> Ok(j)
  BY <1>1 DEF Ok
<1>6. s \in Nat /\ s <= n - 1
  BY <1>3 DEF Counted
<1>7. Counted(n)'
  <2>1. CASE Ok(n)
    <3>1. summary'.consecutive = 0 /\ n - 0 = n /\ n \in 1..n
      BY <1>1, <1>3, <1>4, <2>1
    <3> QED
      BY <1>1, <1>5, <2>1, <3>1 DEF Counted
  <2>2. CASE ~Ok(n)
    <3>1. summary'.consecutive = s + 1
      BY <1>4, <2>2
    <3>2. ASSUME NEW j \in 1..n, j > n - (s + 1) PROVE ~Ok(j)
      <4>1. j = n \/ (j \in 1..(n - 1) /\ j > (n - 1) - s)
        BY <1>1, <1>6, <3>2
      <4> QED
        BY <1>3, <2>2, <4>1 DEF Counted
    <3>3. s + 1 < n => Ok(n - (s + 1)) /\ n - (s + 1) \in 1..n
      <4>1. n - (s + 1) = (n - 1) - s
        BY <1>1, <1>6
      <4> QED
        BY <1>1, <1>3, <1>6, <4>1 DEF Counted
    <3> QED
      BY <1>1, <1>5, <1>6, <3>1, <3>2, <3>3 DEF Counted
  <2> QED
    BY <2>1, <2>2
<1>8. \A k \in 1..n : NoLongStreak(k)' <=> NoLongStreak(k)
  BY <1>1 DEF NoLongStreak, AllFailed, Ok
<1>9. SoakStops'
  BY <1>1, <1>3, <1>7, <1>8 DEF SoakStops
<1> QED
  BY <1>1, <1>2, <1>9 DEF Stops

LEMMA ReschedulesStops == ASSUME Typed, Kinds, Stops, Reschedules PROVE Stops'
<1> DEFINE n == Len(samples)
           s == summary.consecutive
<1>1. /\ n \in Nat /\ at = "booked" /\ at' = IF GivesUp THEN "ends" ELSE "loop"
      /\ UNCHANGED <<mode, now, samples, summary, verdict>> /\ MaxFailures \in Nat
  BY SoakAssumption DEF Kinds, Reschedules
<1>2. mode = "soak" /\ SoakStops
  BY <1>1 DEF Stops, CheckStops
<1>3. Counted(n) /\ verdict = "none" /\ \A k \in 1..n : k < n => NoLongStreak(k)
  BY <1>1, <1>2 DEF SoakStops
<1>4. Counted(n)' /\ \A k \in 1..n : NoLongStreak(k)' <=> NoLongStreak(k)
  BY <1>1, <1>3 DEF Counted, NoLongStreak, AllFailed, Ok
<1>5. s \in Nat /\ s <= n
  BY <1>3 DEF Counted
<1>6. CASE GivesUp
  <2>1. s >= MaxFailures
    BY <1>6 DEF GivesUp
  <2>2. \A j \in (n - MaxFailures + 1)..n : j \in 1..n /\ j > n - s
    BY <1>1, <1>5, <2>1
  <2>3. n >= MaxFailures /\ AllFailed(n - MaxFailures + 1, n)
    BY <1>1, <1>3, <1>5, <2>1, <2>2 DEF Counted, AllFailed
  <2>4. AllFailed(n - MaxFailures + 1, n)'
    BY <1>1, <2>3 DEF AllFailed, Ok
  <2>5. SoakStops'
    BY <1>1, <1>3, <1>4, <1>6, <2>3, <2>4 DEF SoakStops
  <2> QED
    BY <1>1, <1>2, <2>5 DEF Stops
<1>7. CASE ~GivesUp
  <2>1. s < MaxFailures
    BY <1>1, <1>5, <1>7 DEF GivesUp
  <2>2. n >= MaxFailures => Ok(n - s) /\ n - s \in (n - MaxFailures + 1)..n
    BY <1>1, <1>3, <1>5, <2>1 DEF Counted
  <2>3. NoLongStreak(n)
    BY <2>2 DEF NoLongStreak, AllFailed
  <2>4. \A k \in 1..n : NoLongStreak(k)
    BY <1>1, <1>3, <2>3
  <2>5. SoakStops'
    BY <1>1, <1>3, <1>4, <1>7, <2>4 DEF SoakStops
  <2> QED
    BY <1>1, <1>2, <2>5 DEF Stops
<1> QED
  BY <1>6, <1>7

LEMMA AttemptedStops == ASSUME Typed, Kinds, Stops, Attempted PROVE Stops'
<1> DEFINE n == Len(samples)
<1>0. n \in Nat
  BY DEF Kinds
<1>1. at = "attempted" /\ mode' = mode /\ now' = now /\ samples' = samples
  BY DEF Attempted
<1>2. mode # "soak" /\ CheckStops
  BY <1>1 DEF Stops, SoakStops
<1>3. n > 0 /\ verdict = "none" /\ \A i \in 1..n : i < n => ~Ok(i)
  BY <1>1, <1>2 DEF CheckStops
<1>4. n \in 1..n
  BY <1>0, <1>3
<1>5. samples[n].ended <= now /\ samples[n] \in Samples
  BY <1>4 DEF Kinds
<1>6. \A i \in 1..n : Ok(i)' <=> Ok(i)
  BY <1>1 DEF Ok
<1>7. CASE Ok(n)
  <2>1. at' = "ends" /\ verdict' = IF now <= Target THEN "in time" ELSE "late"
    BY <1>7 DEF Attempted, Last, Ok
  <2>2. samples[n].ended \in Nat /\ now \in Nat /\ Target \in Nat
    BY <1>5, SoakAssumption DEF Samples, Typed
  <2>3. /\ verdict' # "timeout"
        /\ verdict' = "in time" => now <= Target
    BY <2>1
  <2>4. now <= Target => samples[n].ended <= Target
    BY <1>5, <2>2
  <2>5. Ok(n)' /\ n' = n
    BY <1>1, <1>4, <1>6, <1>7
  <2>6. CheckStops'
    BY <1>1, <1>3, <2>1, <2>3, <2>4, <2>5 DEF CheckStops
  <2> QED
    BY <1>1, <1>2, <2>6 DEF Stops
<1>8. CASE ~Ok(n)
  <2>1. at' = "loop" /\ verdict' = "none"
    BY <1>3, <1>8 DEF Attempted, Last, Ok
  <2>2. \A i \in 1..n : ~Ok(i)
    BY <1>0, <1>3, <1>8
  <2>3. n' = n /\ \A i \in 1..n : ~Ok(i)'
    BY <1>1, <1>6, <2>2
  <2>4. CheckStops'
    BY <2>1, <2>3 DEF CheckStops
  <2> QED
    BY <1>1, <1>2, <2>4 DEF Stops
<1> QED
  BY <1>7, <1>8

\* Steps that leave the samples and the summary alone.
LEMMA QuietStops ==
    ASSUME Typed, Kinds, Stops, UNCHANGED <<mode, samples, summary>>,
           \/ at' = at /\ verdict' = verdict /\ (now' = now \/ at \in {"loop", "session"})
           \/ at = "loop" /\ at' = "session" /\ UNCHANGED <<now, verdict>>
           \/ at = "ends" /\ at' = "done" /\ UNCHANGED <<now, verdict>>
           \/ /\ at = "loop" /\ at' = "ends" /\ MayEnd /\ now' = now
              /\ verdict' = IF mode = "soak" THEN verdict ELSE "timeout"
    PROVE  Stops'
<1> DEFINE n == Len(samples)
<1>1. n \in Nat /\ n' = n /\ mode' = mode /\ samples' = samples /\ summary' = summary
  BY DEF Kinds
<1>2. \A i : Ok(i)' <=> Ok(i)
  BY <1>1 DEF Ok
<1>3. CASE mode = "soak"
  <2>1. SoakStops
    BY <1>3 DEF Stops
  <2>2. /\ Counted(n)' <=> Counted(n)
        /\ Counted(n - 1)' <=> Counted(n - 1)
    BY <1>1 DEF Counted, Ok
  <2>3. \A k \in 1..n : NoLongStreak(k)' <=> NoLongStreak(k)
    BY <1>1 DEF NoLongStreak, AllFailed, Ok
  <2>4. AllFailed(n - MaxFailures + 1, n)' <=> AllFailed(n - MaxFailures + 1, n)
    BY <1>1 DEF AllFailed, Ok
  <2>5. now' = now => (MayEnd' <=> MayEnd)
    BY <1>1 DEF MayEnd
  <2>6. verdict' = "none"
    BY <1>3, <2>1 DEF SoakStops
  <2>7. /\ at' # "attempted" /\ (at' = "sampled" => at = "sampled")
        /\ at' \notin {"sampled", "killed"} => at \notin {"sampled", "killed"}
        /\ at' \in {"loop", "session"} => at \in {"loop", "session"}
        /\ at' \in {"ends", "done"} => /\ at \in {"ends", "done"} \/ MayEnd
                                       /\ now' = now
    BY <2>1 DEF SoakStops
  <2>8. /\ at' = "sampled" => n > 0 /\ Counted(n - 1)'
        /\ at' \notin {"sampled", "killed"} => Counted(n)'
    BY <2>1, <2>2, <2>7 DEF SoakStops
  <2>9. \A k \in 1..n : k < n \/ at' \in {"loop", "session"} => NoLongStreak(k)'
    BY <2>1, <2>3, <2>7 DEF SoakStops
  <2>10. at' \in {"ends", "done"} =>
            \/ n >= MaxFailures /\ AllFailed(n - MaxFailures + 1, n)'
            \/ MayEnd'
    BY <2>1, <2>4, <2>5, <2>7 DEF SoakStops
  <2>11. SoakStops'
    BY <1>1, <2>6, <2>7, <2>8, <2>9, <2>10 DEF SoakStops
  <2> QED
    BY <1>1, <1>3, <2>11 DEF Stops
<1>4. CASE mode # "soak"
  <2>1. CheckStops
    BY <1>4 DEF Stops
  <2>2. MayEnd => now >= Duration
    BY <1>4 DEF MayEnd
  <2>3. verdict' = "timeout" => now' >= Duration /\ \A i \in 1..n : ~Ok(i)
    BY <1>4, <2>1, <2>2 DEF CheckStops
  <2>4. verdict' = "in time" => verdict = "in time"
    BY <1>4
  <2>5. /\ at' \notin {"sampled", "booked"}
        /\ verdict' # "none" => at' \in {"ends", "done", "killed"}
        /\ at' \in {"loop", "session"} => \A i \in 1..n : ~Ok(i)
        /\ at' = "attempted" => n > 0 /\ \A i \in 1..n : i < n => ~Ok(i)
    BY <1>4, <2>1 DEF CheckStops
  <2>6. CheckStops'
    BY <1>1, <1>2, <2>1, <2>3, <2>4, <2>5 DEF CheckStops
  <2> QED
    BY <1>1, <1>4, <2>6 DEF Stops
<1> QED
  BY <1>3, <1>4

LEMMA KilledStops == ASSUME Typed, Kinds, Stops, Killed PROVE Stops'
<1> DEFINE n == Len(samples)
<1>1. at' = "killed" /\ UNCHANGED <<mode, now, samples, verdict>>
  BY DEF Killed
<1>2. CASE mode = "soak"
  <2>1. SoakStops /\ \A k : NoLongStreak(k)' <=> NoLongStreak(k)
    BY <1>1, <1>2 DEF Stops, NoLongStreak, AllFailed, Ok
  <2> QED
    BY <1>1, <1>2, <2>1 DEF Stops, SoakStops
<1>3. CASE mode # "soak"
  <2>1. CheckStops /\ \A i : Ok(i)' <=> Ok(i)
    BY <1>1, <1>3 DEF Stops, Ok
  <2> QED
    BY <1>1, <1>3, <2>1 DEF Stops, CheckStops
<1> QED
  BY <1>2, <1>3

LEMMA StopsStep == ASSUME Typed, Kinds, Stops, [Next]_vars PROVE Stops'
<1>1. CASE Begins \/ LoopEnds \/ Finishes
  BY <1>1, QuietStops DEF Begins, LoopEnds, Finishes, books
<1>2. CASE Session \/ World
  <2>1. now' = now /\ UNCHANGED <<mode, at, samples, summary, verdict>>
    BY <1>2 DEF Session, World, books, SetUp, Invokes, ReadsAnswer, TimesOut, Listens, Observed,
                Breaks, DeviceChanges, Event, Noise, Replies
  <2> QED
    BY <2>1, QuietStops
<1>3. CASE Tick \/ UNCHANGED vars
  BY <1>3, QuietStops DEF Tick, Sleeping, vars, svars, books
<1> QED
  BY <1>1, <1>2, <1>3, KeptStops, BooksStops, ReschedulesStops, AttemptedStops, KilledStops
  DEF Next, Loop

\* A soak and a recovery check stop for the reason they give.
THEOREM ProbeStopsForAReason == Spec => []StopsForAReason
<1>1. Init => Stops
  <2> SUFFICES ASSUME Init PROVE Stops
    OBVIOUS
  <2>1. samples = << >> /\ Len(samples) = 0 /\ at = "loop" /\ verdict = "none"
    BY DEF Init
  <2>2. summary.consecutive = 0
    BY DEF Init, NewSummary
  <2>3. Counted(0)
    BY <2>2 DEF Counted
  <2> QED
    BY <2>1, <2>3 DEF Stops, SoakStops, CheckStops
<1>2. Spec => []Stops
  BY <1>1, StopsStep, KindsHold, Typing, PTL DEF Spec
<1>3. Kinds /\ Stops => StopsForAReason
  <2> SUFFICES ASSUME Kinds, Stops PROVE StopsForAReason
    OBVIOUS
  <2>1. \A i \in 1..Len(samples) : samples[i].began < Duration
    BY DEF Kinds
  <2>2. CASE mode = "soak"
    <3>1. SoakStops
      BY <2>2 DEF Stops
    <3>2. \A k \in 1..(Len(samples) - 1) : k \in 1..Len(samples) /\ k < Len(samples)
      BY DEF Kinds
    <3> QED
      BY <2>1, <2>2, <3>1, <3>2 DEF SoakStops, NoLongStreak, StopsForAReason
  <2>3. CASE mode # "soak"
    BY <2>1, <2>3 DEF Stops, CheckStops, StopsForAReason
  <2> QED
    BY <2>2, <2>3
<1> QED
  BY <1>2, <1>3, KindsHold, PTL

-------------------------------------------------------------------------------

\* Results of one session: a command once, and a catalogue is a list of tools.
Proper(rs) ==
    /\ \A i, j \in DOMAIN rs : i # j => rs[i].command # rs[j].command
    /\ \A i \in DOMAIN rs : rs[i].status = "ok" /\ rs[i].command = Catalog => rs[i].tools \in Tools

\* Of what a sample offers as the catalogue there is one list at most.
LEMMA OffersOne ==
    ASSUME NEW sample, Proper(sample.results)
    PROVE  Offered(sample) = {} \/ \E t \in Tools : Offered(sample) = {t}
<1> DEFINE rs == sample.results
<1>1. \A t : t \in Offered(sample) <=>
               \E i \in DOMAIN rs : rs[i].status = "ok" /\ rs[i].command = Catalog /\ rs[i].tools = t
  BY DEF Offered, Range
<1>2. \A t \in Offered(sample) : t \in Tools
  BY <1>1 DEF Proper
<1>3. \A t, u \in Offered(sample) : t = u
  BY <1>1 DEF Proper
<1> QED
  BY <1>2, <1>3

\* Counting up to one number more.
LEMMA OneMoreCounts ==
    ASSUME NEW k \in Nat, NEW A \in SUBSET (1..k), NEW B, B = A \/ B = A \union {k + 1}
    PROVE  Cardinality(B) = Cardinality(A) + IF k + 1 \in B THEN 1 ELSE 0
<1>1. IsFiniteSet(1..k)
  BY FS_Interval
<1>2. IsFiniteSet(A) /\ Cardinality(A) \in Nat
  BY <1>1, FS_Subset, FS_CardinalityType
<1>5. k + 1 \notin A
  OBVIOUS
<1>3. CASE B = A
  BY <1>2, <1>3, <1>5
<1>4. CASE B = A \union {k + 1}
  BY <1>2, <1>4, <1>5, FS_AddElement
<1> QED
  BY <1>3, <1>4

LEMMA HasLeast ==
    ASSUME NEW S \in SUBSET Nat, S # {} PROVE \E i \in S : \A j \in S : i <= j
<1>1. PICK x \in S : \A y \in S : ~(<<y, x>> \in OpToRel(<, Nat))
  BY NatLessThanWellFounded, WFMin
<1>2. \A y \in S : ~(y < x)
  BY <1>1 DEF OpToRel
<1> QED
  BY <1>2

LEMMA Remainder ==
    ASSUME NEW m \in Nat, NEW c \in Nat \ {0}, NEW r \in Nat, r < c
    PROVE  (m * c + r) % c = r
<1>1. PICK x \in Nat : x = m * c + r
  OBVIOUS
<1>2. c \in Nat /\ c > 0
  OBVIOUS
<1>3. PICK q \in Int : q = x \div c
  BY <1>2
<1>4. PICK e \in 0..(c - 1) : e = x % c
  BY <1>2
<1>5. x = c * q + e
  BY <1>2, <1>3, <1>4
<1>6. PICK d \in Int : d = q - m
  OBVIOUS
<1>7. c * d = r - e
  BY <1>1, <1>5, <1>6
<1>8. -c < r - e /\ r - e < c
  OBVIOUS
<1>9. d = 0
  BY <1>2, <1>7, <1>8
<1> QED
  BY <1>1, <1>4, <1>7, <1>9

LEMMA NextMultiple ==
    ASSUME NEW m \in Nat, NEW c \in Nat \ {0}, NEW k \in Nat, m * c <= k, k < (m + 1) * c
    PROVE  IF (k + 1) % c = 0 THEN k + 1 = (m + 1) * c ELSE k + 1 < (m + 1) * c
<1>1. (m + 1) * c = m * c + c /\ m * c \in Nat
  OBVIOUS
<1>2. CASE k + 1 = (m + 1) * c
  <2>1. (k + 1) % c = 0
    BY <1>2
  <2> QED
    BY <1>2, <2>1
<1>3. CASE k + 1 # (m + 1) * c
  <2> DEFINE r == k + 1 - m * c
  <2>1. r \in 1..(c - 1) /\ k + 1 = m * c + r
    BY <1>1, <1>3
  <2> HIDE DEF r
  <2>2. (k + 1) % c = r
    <3>1. r \in Int /\ 0 <= r /\ r < c /\ m \in Int /\ c \in Int
      BY <2>1
    <3>2. (m * c + r) % c = r
      BY <3>1, Remainder
    <3> QED
      BY <2>1, <3>2
  <2> QED
    BY <1>1, <1>3, <2>1, <2>2
<1> QED
  BY <1>2, <1>3

-------------------------------------------------------------------------------

\* The commands of a sample that count, for the four figures of a command.
CommandsOf(i) == {r.command : r \in Range(samples[i].results)}
GoodOf(i) == {r.command : r \in {q \in Range(samples[i].results) : q.status = "ok"}}
BadOf(i) == {r.command : r \in {q \in Range(samples[i].results) : q.status # "ok"}}
SlowOf(i) == {r.command : r \in {q \in Range(samples[i].results) : q.took > 0}}

Counts(k, of) == [c \in Names |-> Cardinality({i \in 1..k : c \in of[i]})]

\* Counting the samples that have a command, with one sample more.
LEMMA CountsStep ==
    ASSUME NEW k \in Nat, NEW of
    PROVE  Counts(k + 1, of) = Bump(Counts(k, of), of[k + 1])
<1>1. ASSUME NEW c \in Names
      PROVE  Cardinality({i \in 1..(k + 1) : c \in of[i]})
               = Cardinality({i \in 1..k : c \in of[i]}) + IF c \in of[k + 1] THEN 1 ELSE 0
  <2> DEFINE A == {i \in 1..k : c \in of[i]}
             B == {i \in 1..(k + 1) : c \in of[i]}
  <2>1. \A i : i \in 1..(k + 1) <=> i \in 1..k \/ i = k + 1
    OBVIOUS
  <2>2. A \in SUBSET (1..k) /\ B = IF c \in of[k + 1] THEN A \union {k + 1} ELSE A
    BY <2>1
  <2>3. k + 1 \in B <=> c \in of[k + 1]
    OBVIOUS
  <2> HIDE DEF A, B
  <2>4. Cardinality(B) = Cardinality(A) + IF k + 1 \in B THEN 1 ELSE 0
    BY <2>2, OneMoreCounts
  <2> QED
    BY <2>3, <2>4 DEF A, B
<1> QED
  BY <1>1 DEF Counts, Bump

LEMMA RanIsCounts ==
    ASSUME NEW k \in Nat, NEW n \in Nat, k <= n
    PROVE  /\ Ran(k, LAMBDA r : TRUE) = Counts(k, [i \in 1..n |-> CommandsOf(i)])
           /\ Ran(k, LAMBDA r : r.status = "ok") = Counts(k, [i \in 1..n |-> GoodOf(i)])
           /\ Ran(k, LAMBDA r : r.status # "ok") = Counts(k, [i \in 1..n |-> BadOf(i)])
           /\ Ran(k, LAMBDA r : r.took > 0) = Counts(k, [i \in 1..n |-> SlowOf(i)])
<1>1. 1..k \subseteq 1..n
  OBVIOUS
<1>2. Ran(k, LAMBDA r : TRUE) = Counts(k, [i \in 1..n |-> CommandsOf(i)])
  <2>1. ASSUME NEW c \in Names
        PROVE  {i \in 1..k : \E r \in Range(samples[i].results) : r.command = c /\ TRUE}
               = {i \in 1..k : c \in [j \in 1..n |-> CommandsOf(j)][i]}
    BY <1>1 DEF CommandsOf
  <2> QED
    BY <2>1 DEF Ran, Counts
<1>3. Ran(k, LAMBDA r : r.status = "ok") = Counts(k, [i \in 1..n |-> GoodOf(i)])
  <2>1. ASSUME NEW c \in Names
        PROVE  {i \in 1..k : \E r \in Range(samples[i].results) : r.command = c /\ r.status = "ok"}
               = {i \in 1..k : c \in [j \in 1..n |-> GoodOf(j)][i]}
    BY <1>1 DEF GoodOf
  <2> QED
    BY <2>1 DEF Ran, Counts
<1>4. Ran(k, LAMBDA r : r.status # "ok") = Counts(k, [i \in 1..n |-> BadOf(i)])
  <2>1. ASSUME NEW c \in Names
        PROVE  {i \in 1..k : \E r \in Range(samples[i].results) : r.command = c /\ r.status # "ok"}
               = {i \in 1..k : c \in [j \in 1..n |-> BadOf(j)][i]}
    BY <1>1 DEF BadOf
  <2> QED
    BY <2>1 DEF Ran, Counts
<1>5. Ran(k, LAMBDA r : r.took > 0) = Counts(k, [i \in 1..n |-> SlowOf(i)])
  <2>1. ASSUME NEW c \in Names
        PROVE  {i \in 1..k : \E r \in Range(samples[i].results) : r.command = c /\ r.took > 0}
               = {i \in 1..k : c \in [j \in 1..n |-> SlowOf(j)][i]}
    BY <1>1 DEF SlowOf
  <2> QED
    BY <2>1 DEF Ran, Counts
<1> QED
  BY <1>2, <1>3, <1>4, <1>5

LEMMA RanStep ==
    ASSUME NEW k \in Nat
    PROVE  LET q == k + 1
           IN  /\ Ran(q, LAMBDA r : TRUE) = Bump(Ran(k, LAMBDA r : TRUE), CommandsOf(q))
               /\ Ran(q, LAMBDA r : r.status = "ok") = Bump(Ran(k, LAMBDA r : r.status = "ok"), GoodOf(q))
               /\ Ran(q, LAMBDA r : r.status # "ok") = Bump(Ran(k, LAMBDA r : r.status # "ok"), BadOf(q))
               /\ Ran(q, LAMBDA r : r.took > 0) = Bump(Ran(k, LAMBDA r : r.took > 0), SlowOf(q))
<1> DEFINE q == k + 1
           a == [i \in 1..q |-> CommandsOf(i)]
           g == [i \in 1..q |-> GoodOf(i)]
           b == [i \in 1..q |-> BadOf(i)]
           s == [i \in 1..q |-> SlowOf(i)]
<1>1. q \in Nat /\ k <= q /\ q <= q /\ q \in 1..q
  OBVIOUS
<1>2. a[q] = CommandsOf(q) /\ g[q] = GoodOf(q) /\ b[q] = BadOf(q) /\ s[q] = SlowOf(q)
  BY <1>1
<1>3. /\ Counts(q, a) = Bump(Counts(k, a), a[q]) /\ Counts(q, g) = Bump(Counts(k, g), g[q])
      /\ Counts(q, b) = Bump(Counts(k, b), b[q]) /\ Counts(q, s) = Bump(Counts(k, s), s[q])
  BY CountsStep
<1>4. /\ Ran(k, LAMBDA r : TRUE) = Counts(k, a) /\ Ran(q, LAMBDA r : TRUE) = Counts(q, a)
      /\ Ran(k, LAMBDA r : r.status = "ok") = Counts(k, g)
      /\ Ran(q, LAMBDA r : r.status = "ok") = Counts(q, g)
      /\ Ran(k, LAMBDA r : r.status # "ok") = Counts(k, b)
      /\ Ran(q, LAMBDA r : r.status # "ok") = Counts(q, b)
      /\ Ran(k, LAMBDA r : r.took > 0) = Counts(k, s)
      /\ Ran(q, LAMBDA r : r.took > 0) = Counts(q, s)
  BY <1>1, RanIsCounts
<1> HIDE DEF a, g, b, s, q
<1>5. /\ Ran(q, LAMBDA r : TRUE) = Bump(Ran(k, LAMBDA r : TRUE), CommandsOf(q))
      /\ Ran(q, LAMBDA r : r.status = "ok") = Bump(Ran(k, LAMBDA r : r.status = "ok"), GoodOf(q))
      /\ Ran(q, LAMBDA r : r.status # "ok") = Bump(Ran(k, LAMBDA r : r.status # "ok"), BadOf(q))
      /\ Ran(q, LAMBDA r : r.took > 0) = Bump(Ran(k, LAMBDA r : r.took > 0), SlowOf(q))
  BY <1>2, <1>3, <1>4
<1> QED
  BY <1>5 DEF q

-------------------------------------------------------------------------------

Seen(k) == {i \in 1..k : Offered(samples[i]) # {}}
Baseline(k) == Tally(k).baseline
Drift(k) == Tally(k).drift

AllProper == \A i \in 1..Len(samples) : Proper(samples[i].results)

\* The baseline is the list of the first sample that has one.
LEMMA FirstIsBaseline ==
    ASSUME NEW k \in 0..Len(samples), Len(samples) \in Nat, AllProper, Seen(k) # {}
    PROVE  \E i \in Seen(k) : /\ \A j \in Seen(k) : i <= j
                              /\ Baseline(k) \in Tools /\ Offered(samples[i]) = {Baseline(k)}
<1> DEFINE first == CHOOSE i \in Seen(k) : \A j \in Seen(k) : i <= j
<1>1. Seen(k) \subseteq Nat /\ \A i \in Seen(k) : i \in 1..Len(samples)
  BY DEF Seen
<1>2. first \in Seen(k) /\ \A j \in Seen(k) : first <= j
  BY <1>1, HasLeast
<1>3. Baseline(k) = CHOOSE t \in Offered(samples[first]) : TRUE
  BY DEF Baseline, Tally, Seen
<1> HIDE DEF first
<1>4. Offered(samples[first]) # {}
  BY <1>2 DEF Seen
<1>5. PICK t \in Tools : Offered(samples[first]) = {t}
  BY <1>1, <1>2, <1>4, OffersOne DEF AllProper
<1>6. Baseline(k) = t
  BY <1>3, <1>5
<1> QED
  BY <1>2, <1>5, <1>6

LEMMA NothingSeen ==
    ASSUME NEW k, Seen(k) = {} PROVE Baseline(k) = NoTools /\ Drift(k) = FALSE
BY DEF Seen, Baseline, Drift, Tally

LEMMA SeenStep ==
    ASSUME NEW k \in Nat
    PROVE  Seen(k + 1) = IF Offered(samples[k + 1]) = {} THEN Seen(k) ELSE Seen(k) \union {k + 1}
<1>1. \A i : i \in 1..(k + 1) <=> i \in 1..k \/ i = k + 1
  OBVIOUS
<1> QED
  BY <1>1 DEF Seen

LEMMA BaselineStep ==
    ASSUME NEW k \in Nat, Len(samples) \in Nat, k + 1 <= Len(samples), AllProper
    PROVE  Baseline(k + 1) = IF Baseline(k) = NoTools /\ Offered(samples[k + 1]) # {}
                             THEN CHOOSE t \in Offered(samples[k + 1]) : TRUE ELSE Baseline(k)
<1> DEFINE q == k + 1
<1>1. k \in 0..Len(samples) /\ q \in 0..Len(samples) /\ q \in 1..Len(samples)
  OBVIOUS
<1>2. CASE Seen(k) # {}
  <2>1. PICK i \in Seen(k) : /\ \A j \in Seen(k) : i <= j
                             /\ Baseline(k) \in Tools /\ Offered(samples[i]) = {Baseline(k)}
    BY <1>1, <1>2, FirstIsBaseline
  <2>2. Seen(q) # {} /\ \A j \in Seen(q) : j \in Seen(k) \/ j = q
    BY <1>2, SeenStep
  <2>3. PICK f \in Seen(q) : /\ \A j \in Seen(q) : f <= j
                             /\ Offered(samples[f]) = {Baseline(q)}
    BY <1>1, <2>2, FirstIsBaseline
  <2>4. i \in Seen(q) /\ i \in 1..k
    BY SeenStep DEF Seen
  <2>5. f = i
    <3>1. f <= i /\ f \in 1..q
      BY <2>3, <2>4 DEF Seen
    <3>2. f # q
      BY <2>4, <3>1
    <3>3. f \in Seen(k)
      BY <2>2, <3>2
    <3> QED
      BY <2>1, <2>4, <3>1, <3>3
  <2>6. Baseline(q) = Baseline(k)
    BY <2>1, <2>3, <2>5
  <2> QED
    BY <2>1, <2>6, SoakAssumption
<1>3. CASE Seen(k) = {} /\ Offered(samples[q]) # {}
  <2>1. Seen(q) = {q}
    BY <1>3, SeenStep
  <2>2. /\ Baseline(q) \in Tools /\ Offered(samples[q]) = {Baseline(q)}
    BY <1>1, <2>1, FirstIsBaseline
  <2>3. Baseline(q) = CHOOSE t \in Offered(samples[q]) : TRUE
    BY <2>2
  <2> QED
    BY <1>3, <2>3, NothingSeen
<1>4. CASE Seen(k) = {} /\ Offered(samples[q]) = {}
  <2>1. Seen(q) = {}
    BY <1>4, SeenStep
  <2> QED
    BY <1>4, <2>1, NothingSeen
<1> QED
  BY <1>2, <1>3, <1>4

\* Lists drift when one is not the first: so far, or now.
LEMMA DriftStep ==
    ASSUME NEW k \in Nat, Len(samples) \in Nat, k + 1 <= Len(samples), AllProper
    PROVE  Drift(k + 1) = (Drift(k) \/ (/\ Baseline(k) # NoTools
                                        /\ \E t \in Offered(samples[k + 1]) : t # Baseline(k)))
<1> DEFINE q == k + 1
           o(i) == Offered(samples[i])
<1>1. k \in 0..Len(samples) /\ q \in 1..Len(samples)
  OBVIOUS
<1>2. \A n : Drift(n) = (\E i, j \in Seen(n) : o(i) # o(j))
  BY DEF Drift, Tally, Seen
<1>3. CASE o(q) = {}
  <2>1. Seen(q) = Seen(k)
    BY <1>3, SeenStep
  <2> QED
    BY <1>2, <1>3, <2>1
<1>4. CASE Seen(k) = {} /\ o(q) # {}
  <2>1. Seen(q) = {q}
    BY <1>4, SeenStep
  <2> QED
    BY <1>2, <1>4, <2>1, NothingSeen
<1>5. CASE Seen(k) # {} /\ o(q) # {}
  <2>1. PICK f \in Seen(k) : Baseline(k) \in Tools /\ o(f) = {Baseline(k)}
    BY <1>1, <1>5, FirstIsBaseline
  <2>2. PICK t \in Tools : o(q) = {t}
    BY <1>1, <1>5, OffersOne DEF AllProper
  <2>3. Seen(q) = Seen(k) \union {q}
    BY <1>5, SeenStep
  <2> HIDE DEF q, o
  <2>4. (\E i, j \in Seen(q) : o(i) # o(j)) <=> (\E i, j \in Seen(k) : o(i) # o(j)) \/ t # Baseline(k)
    <3>1. CASE t # Baseline(k)
      <4>1. o(f) # o(q)
        BY <2>1, <2>2, <3>1
      <4> QED
        BY <2>3, <3>1, <4>1
    <3>2. CASE t = Baseline(k)
      <4>1. o(q) = o(f)
        BY <2>1, <2>2, <3>2
      <4> QED
        BY <2>3, <3>2, <4>1
    <3> QED
      BY <3>1, <3>2
  <2>5. (\E u \in o(q) : u # Baseline(k)) <=> t # Baseline(k)
    BY <2>2
  <2>6. Baseline(k) # NoTools
    BY <2>1, SoakAssumption
  <2>7. Drift(q) = (Drift(k) \/ (Baseline(k) # NoTools /\ \E u \in o(q) : u # Baseline(k)))
    BY <1>2, <2>4, <2>5, <2>6
  <2> QED
    BY <2>7 DEF q, o
<1> QED
  BY <1>3, <1>4, <1>5

LEMMA OkStep ==
    ASSUME NEW k \in Nat
    PROVE  /\ Cardinality({i \in 1..(k + 1) : Ok(i)})
                = Cardinality({i \in 1..k : Ok(i)}) + IF Ok(k + 1) THEN 1 ELSE 0
           /\ Cardinality({i \in 1..(k + 1) : ~Ok(i)})
                = Cardinality({i \in 1..k : ~Ok(i)}) + IF Ok(k + 1) THEN 0 ELSE 1
<1> DEFINE A == {i \in 1..k : Ok(i)}
           B == {i \in 1..(k + 1) : Ok(i)}
           C == {i \in 1..k : ~Ok(i)}
           D == {i \in 1..(k + 1) : ~Ok(i)}
<1>1. \A i : i \in 1..(k + 1) <=> i \in 1..k \/ i = k + 1
  OBVIOUS
<1>2. A \in SUBSET (1..k) /\ B = IF Ok(k + 1) THEN A \union {k + 1} ELSE A
  BY <1>1
<1>3. C \in SUBSET (1..k) /\ D = IF Ok(k + 1) THEN C ELSE C \union {k + 1}
  BY <1>1
<1>4. (k + 1 \in B <=> Ok(k + 1)) /\ (k + 1 \in D <=> ~Ok(k + 1))
  OBVIOUS
<1> HIDE DEF A, B, C, D
<1>5. Cardinality(B) = Cardinality(A) + IF k + 1 \in B THEN 1 ELSE 0
  BY <1>2, OneMoreCounts
<1>6. Cardinality(D) = Cardinality(C) + IF k + 1 \in D THEN 1 ELSE 0
  BY <1>3, OneMoreCounts
<1> QED
  BY <1>4, <1>5, <1>6 DEF A, B, C, D

LEMMA StreakStep ==
    ASSUME NEW k \in Nat
    PROVE  Cardinality({i \in 1..(k + 1) : \A j \in i..(k + 1) : ~Ok(j)})
             = IF Ok(k + 1) THEN 0 ELSE Cardinality({i \in 1..k : \A j \in i..k : ~Ok(j)}) + 1
<1> DEFINE A == {i \in 1..k : \A j \in i..k : ~Ok(j)}
           B == {i \in 1..(k + 1) : \A j \in i..(k + 1) : ~Ok(j)}
<1>1. CASE Ok(k + 1)
  <2>1. \A i \in 1..(k + 1) : k + 1 \in i..(k + 1)
    OBVIOUS
  <2>2. B = {}
    BY <1>1, <2>1
  <2> QED
    BY <1>1, <2>2, FS_EmptySet
<1>2. CASE ~Ok(k + 1)
  <2>1. \A i \in 1..(k + 1) : \A j : j \in i..(k + 1) <=> j \in i..k \/ j = k + 1
    OBVIOUS
  <2>2. \A i : i \in 1..(k + 1) <=> i \in 1..k \/ i = k + 1
    OBVIOUS
  <2>3. (k + 1)..k = {}
    OBVIOUS
  <2>4. A \in SUBSET (1..k)
    OBVIOUS
  <2>5. \A i : i \in B <=> i \in A \/ i = k + 1
    BY <1>2, <2>1, <2>2, <2>3
  <2> HIDE DEF A, B
  <2>6. B = A \union {k + 1} /\ k + 1 \in B
    BY <2>5
  <2>7. Cardinality(B) = Cardinality(A) + IF k + 1 \in B THEN 1 ELSE 0
    BY <2>4, <2>6, OneMoreCounts
  <2>8. Cardinality(B) = Cardinality(A) + 1
    BY <2>6, <2>7
  <2> QED
    BY <1>2, <2>8 DEF A, B
<1> QED
  BY <1>1, <1>2

\* Booking one sample more gives what is counted with one sample more.
LEMMA TallyStep ==
    ASSUME NEW k \in Nat, Len(samples) \in Nat, k + 1 <= Len(samples), AllProper
    PROVE  Tally(k + 1) = Updated(Tally(k), samples[k + 1])
<1> DEFINE q == k + 1
           t == Tally(k)
           s == samples[k + 1]
           rs == Range(s.results)
<1>1. /\ t.total = k
      /\ t.successful = Cardinality({i \in 1..k : Ok(i)})
      /\ t.failed = Cardinality({i \in 1..k : ~Ok(i)})
      /\ t.consecutive = Cardinality({i \in 1..k : \A j \in i..k : ~Ok(j)})
      /\ t.runs = Ran(k, LAMBDA r : TRUE)
      /\ t.good = Ran(k, LAMBDA r : r.status = "ok")
      /\ t.bad = Ran(k, LAMBDA r : r.status # "ok")
      /\ t.breaches = Ran(k, LAMBDA r : r.took > 0)
      /\ t.baseline = Baseline(k) /\ t.drift = Drift(k)
  BY DEF Tally, Baseline, Drift
<1>2. Tally(q) =
        [total |-> q,
         successful |-> Cardinality({i \in 1..q : Ok(i)}),
         failed |-> Cardinality({i \in 1..q : ~Ok(i)}),
         consecutive |-> Cardinality({i \in 1..q : \A j \in i..q : ~Ok(j)}),
         runs |-> Ran(q, LAMBDA r : TRUE), good |-> Ran(q, LAMBDA r : r.status = "ok"),
         bad |-> Ran(q, LAMBDA r : r.status # "ok"), breaches |-> Ran(q, LAMBDA r : r.took > 0),
         baseline |-> Baseline(q), drift |-> Drift(q)]
  BY DEF Tally, Baseline, Drift
<1>3. Ok(q) <=> s.status = "ok"
  BY DEF Ok
<1>4. /\ CommandsOf(q) = {r.command : r \in rs}
      /\ GoodOf(q) = {r.command : r \in {x \in rs : x.status = "ok"}}
      /\ BadOf(q) = {r.command : r \in {x \in rs : x.status # "ok"}}
      /\ SlowOf(q) = {r.command : r \in {x \in rs : x.took > 0}}
  BY DEF CommandsOf, GoodOf, BadOf, SlowOf
<1>5. Updated(t, s) =
        [total |-> t.total + 1,
         successful |-> t.successful + IF s.status = "ok" THEN 1 ELSE 0,
         failed |-> t.failed + IF s.status = "ok" THEN 0 ELSE 1,
         consecutive |-> IF s.status = "ok" THEN 0 ELSE t.consecutive + 1,
         runs |-> Bump(t.runs, CommandsOf(q)),
         good |-> Bump(t.good, GoodOf(q)),
         bad |-> Bump(t.bad, BadOf(q)),
         breaches |-> Bump(t.breaches, SlowOf(q)),
         baseline |-> IF t.baseline = NoTools /\ Offered(s) # {}
                      THEN CHOOSE list \in Offered(s) : TRUE ELSE t.baseline,
         drift |-> t.drift \/ (t.baseline # NoTools /\ \E list \in Offered(s) : list # t.baseline)]
  BY <1>4 DEF Updated, Streak
<1> HIDE DEF t, rs
<1>6. q = t.total + 1
  BY <1>1
<1>7. /\ Cardinality({i \in 1..q : Ok(i)}) = t.successful + IF s.status = "ok" THEN 1 ELSE 0
      /\ Cardinality({i \in 1..q : ~Ok(i)}) = t.failed + IF s.status = "ok" THEN 0 ELSE 1
  BY <1>1, <1>3, OkStep
<1>8. Cardinality({i \in 1..q : \A j \in i..q : ~Ok(j)})
        = IF s.status = "ok" THEN 0 ELSE t.consecutive + 1
  BY <1>1, <1>3, StreakStep
<1>9. /\ Ran(q, LAMBDA r : TRUE) = Bump(t.runs, CommandsOf(q))
      /\ Ran(q, LAMBDA r : r.status = "ok") = Bump(t.good, GoodOf(q))
      /\ Ran(q, LAMBDA r : r.status # "ok") = Bump(t.bad, BadOf(q))
      /\ Ran(q, LAMBDA r : r.took > 0) = Bump(t.breaches, SlowOf(q))
  BY <1>1, RanStep
<1>10. Baseline(q) = IF t.baseline = NoTools /\ Offered(s) # {}
                     THEN CHOOSE list \in Offered(s) : TRUE ELSE t.baseline
  BY <1>1, BaselineStep
<1>11. Drift(q) = (t.drift \/ (t.baseline # NoTools /\ \E list \in Offered(s) : list # t.baseline))
  <2>1. Drift(q) = (Drift(k) \/ (Baseline(k) # NoTools /\ \E list \in Offered(s) : list # Baseline(k)))
    BY DriftStep
  <2>2. t.drift = Drift(k) /\ t.baseline = Baseline(k)
    BY <1>1
  <2> QED
    BY <2>1, <2>2, Zenon
<1>12. Tally(q) = Updated(t, s)
  BY <1>2, <1>5, <1>6, <1>7, <1>8, <1>9, <1>10, <1>11
<1> QED
  BY <1>12 DEF t

LEMMA TallyOfNone == Tally(0) = NewSummary
<1>1. 1..0 = {}
  OBVIOUS
<1>2. Cardinality({}) = 0
  BY FS_EmptySet
<1>3. /\ Ran(0, LAMBDA r : TRUE) = Zero /\ Ran(0, LAMBDA r : r.status = "ok") = Zero
      /\ Ran(0, LAMBDA r : r.status # "ok") = Zero /\ Ran(0, LAMBDA r : r.took > 0) = Zero
  BY <1>1, <1>2 DEF Ran, Zero
<1>4. Seen(0) = {}
  BY <1>1 DEF Seen
<1>5. /\ {i \in 1..0 : Ok(i)} = {} /\ {i \in 1..0 : ~Ok(i)} = {}
      /\ {i \in 1..0 : \A j \in i..0 : ~Ok(j)} = {}
  BY <1>1
<1> QED
  BY <1>2, <1>3, <1>4, <1>5 DEF Tally, NewSummary, Seen

\* What the first files say does not change when there are more of them.
LEMMA TallyKeeps ==
    ASSUME NEW k \in Nat, \A i \in 1..k : samples'[i] = samples[i]
    PROVE  Tally(k)' = Tally(k)
<1> DEFINE seen == {i \in 1..k : Offered(samples[i]) # {}}
           next == {i \in 1..k : Offered(samples'[i]) # {}}
           first == CHOOSE i \in seen : \A j \in seen : i <= j
           second == CHOOSE i \in next : \A j \in next : i <= j
<1>1. \A i \in 1..k : (Ok(i)' <=> Ok(i)) /\ Offered(samples'[i]) = Offered(samples[i])
  BY DEF Ok
<1>2. /\ {i \in 1..k : samples'[i].status = "ok"} = {i \in 1..k : samples[i].status = "ok"}
      /\ {i \in 1..k : ~(samples'[i].status = "ok")} = {i \in 1..k : ~(samples[i].status = "ok")}
  OBVIOUS
<1>3. {i \in 1..k : \A j \in i..k : ~(samples'[j].status = "ok")}
        = {i \in 1..k : \A j \in i..k : ~(samples[j].status = "ok")}
  <2>1. \A i \in 1..k : \A j \in i..k : j \in 1..k
    OBVIOUS
  <2> QED
    BY <2>1
<1>4. /\ Ran(k, LAMBDA r : TRUE)' = Ran(k, LAMBDA r : TRUE)
      /\ Ran(k, LAMBDA r : r.status = "ok")' = Ran(k, LAMBDA r : r.status = "ok")
      /\ Ran(k, LAMBDA r : r.status # "ok")' = Ran(k, LAMBDA r : r.status # "ok")
      /\ Ran(k, LAMBDA r : r.took > 0)' = Ran(k, LAMBDA r : r.took > 0)
  <2>1. ASSUME NEW c \in Names
        PROVE  /\ {i \in 1..k : \E r \in Range(samples'[i].results) : r.command = c /\ TRUE}
                    = {i \in 1..k : \E r \in Range(samples[i].results) : r.command = c /\ TRUE}
               /\ {i \in 1..k : \E r \in Range(samples'[i].results) : r.command = c /\ r.status = "ok"}
                    = {i \in 1..k : \E r \in Range(samples[i].results) : r.command = c /\ r.status = "ok"}
               /\ {i \in 1..k : \E r \in Range(samples'[i].results) : r.command = c /\ r.status # "ok"}
                    = {i \in 1..k : \E r \in Range(samples[i].results) : r.command = c /\ r.status # "ok"}
               /\ {i \in 1..k : \E r \in Range(samples'[i].results) : r.command = c /\ r.took > 0}
                    = {i \in 1..k : \E r \in Range(samples[i].results) : r.command = c /\ r.took > 0}
    OBVIOUS
  <2> QED
    BY <2>1 DEF Ran
<1>5. next = seen
  BY <1>1
<1>6. seen # {} => first \in seen
  <2>1. seen \in SUBSET Nat
    OBVIOUS
  <2> HIDE DEF seen
  <2> QED
    BY <2>1, HasLeast
<1>7. seen # {} => Offered(samples'[first]) = Offered(samples[first])
  <2>1. \A i \in seen : Offered(samples'[i]) = Offered(samples[i])
    OBVIOUS
  <2> HIDE DEF first
  <2> QED
    BY <1>6, <2>1
<1>8. (\E i, j \in seen : Offered(samples'[i]) # Offered(samples'[j]))
        = (\E i, j \in seen : Offered(samples[i]) # Offered(samples[j]))
  OBVIOUS
<1>9. Tally(k) =
        [total |-> k,
         successful |-> Cardinality({i \in 1..k : samples[i].status = "ok"}),
         failed |-> Cardinality({i \in 1..k : ~(samples[i].status = "ok")}),
         consecutive |-> Cardinality({i \in 1..k : \A j \in i..k : ~(samples[j].status = "ok")}),
         runs |-> Ran(k, LAMBDA r : TRUE), good |-> Ran(k, LAMBDA r : r.status = "ok"),
         bad |-> Ran(k, LAMBDA r : r.status # "ok"), breaches |-> Ran(k, LAMBDA r : r.took > 0),
         baseline |-> IF seen = {} THEN NoTools ELSE CHOOSE t \in Offered(samples[first]) : TRUE,
         drift |-> \E i, j \in seen : Offered(samples[i]) # Offered(samples[j])]
  BY DEF Tally, Ok
<1>10. Tally(k)' =
        [total |-> k,
         successful |-> Cardinality({i \in 1..k : samples'[i].status = "ok"}),
         failed |-> Cardinality({i \in 1..k : ~(samples'[i].status = "ok")}),
         consecutive |-> Cardinality({i \in 1..k : \A j \in i..k : ~(samples'[j].status = "ok")}),
         runs |-> Ran(k, LAMBDA r : TRUE)', good |-> Ran(k, LAMBDA r : r.status = "ok")',
         bad |-> Ran(k, LAMBDA r : r.status # "ok")', breaches |-> Ran(k, LAMBDA r : r.took > 0)',
         baseline |-> IF next = {} THEN NoTools
                      ELSE CHOOSE t \in Offered(samples'[second]) : TRUE,
         drift |-> \E i, j \in next : Offered(samples'[i]) # Offered(samples'[j])]
  BY DEF Tally, Ok
<1>11. second = first
  BY <1>5
<1>12. (\E i, j \in next : Offered(samples'[i]) # Offered(samples'[j]))
        = (\E i, j \in seen : Offered(samples[i]) # Offered(samples[j]))
  BY <1>5, <1>8
<1> HIDE DEF seen, next, first, second
<1>13. (IF next = {} THEN NoTools ELSE CHOOSE t \in Offered(samples'[second]) : TRUE)
        = IF seen = {} THEN NoTools ELSE CHOOSE t \in Offered(samples[first]) : TRUE
  <2>1. CASE seen = {}
    BY <1>5, <2>1
  <2>2. CASE seen # {}
    <3>1. Offered(samples'[second]) = Offered(samples[first])
      BY <1>7, <1>11, <2>2
    <3>2. next # {}
      BY <1>5, <2>2
    <3> QED
      BY <2>2, <3>1, <3>2
  <2> QED
    BY <2>1, <2>2
<1> DEFINE base == IF seen = {} THEN NoTools ELSE CHOOSE t \in Offered(samples[first]) : TRUE
           drift == \E i, j \in seen : Offered(samples[i]) # Offered(samples[j])
           runs == Ran(k, LAMBDA r : TRUE)
           good == Ran(k, LAMBDA r : r.status = "ok")
           bad == Ran(k, LAMBDA r : r.status # "ok")
           slow == Ran(k, LAMBDA r : r.took > 0)
           ok == {i \in 1..k : samples[i].status = "ok"}
           failed == {i \in 1..k : ~(samples[i].status = "ok")}
           streak == {i \in 1..k : \A j \in i..k : ~(samples[j].status = "ok")}
           Book == [total |-> k, successful |-> Cardinality(ok), failed |-> Cardinality(failed),
                    consecutive |-> Cardinality(streak), runs |-> runs, good |-> good, bad |-> bad,
                    breaches |-> slow, baseline |-> base, drift |-> drift]
<1>14. Tally(k) = Book
  BY <1>9
<1>15. Tally(k)' = Book
  BY <1>2, <1>3, <1>4, <1>10, <1>12, <1>13
<1> QED
  BY <1>14, <1>15

-------------------------------------------------------------------------------

\* A command is invoked once in a session, and what a success holds was offered.
Once ==
    /\ \A i \in DOMAIN session.results :
         /\ session.results[i].command \notin session.todo
         /\ session.at = "awaits" => session.results[i].command # session.command
    /\ session.at = "awaits" => session.command \notin session.todo
    /\ Proper(session.results)
    /\ \A n \in 1..Len(inbox) : inbox[n].status = "ok" => inbox[n].tools \in Tools

LEMMA NoneProper == Proper(<< >>)
BY DEF Proper

\* What a result that is added leaves of it.
LEMMA EndsOnce ==
    ASSUME Typed, Once, session.at = "awaits",
           NEW st \in {"ok", "failed"}, NEW list \in ToolLists, NEW sock \in Socks,
           Ends(Result(st, list), sock), st = "ok" => list \in Tools
    PROVE  /\ \A i \in DOMAIN session'.results : session'.results[i].command \notin session'.todo
           /\ session'.at # "awaits" /\ Proper(session'.results)
<1> DEFINE result == Result(st, list)
           rs == session.results
<1>1. result.command = session.command /\ result.status = st /\ result.tools = list
  BY DEF Result
<1>2. session' = [session EXCEPT !.at = "next", !.command = NoCommand, !.sock = sock,
                                 !.results = Append(@, result)]
  BY DEF Ends
<1> HIDE DEF result
<1>3. /\ rs \in Seq(Results) /\ session'.results = Append(rs, result)
      /\ session'.todo = session.todo /\ session'.at = "next"
  BY <1>2 DEF Typed, Sessions
<1>4. /\ DOMAIN session'.results = DOMAIN rs \union {Len(rs) + 1}
      /\ \A i \in DOMAIN rs : session'.results[i] = rs[i]
      /\ session'.results[Len(rs) + 1] = result /\ Len(rs) + 1 \notin DOMAIN rs
  BY <1>3
<1>5. \A i \in DOMAIN session'.results : session'.results[i].command \notin session'.todo
  BY <1>1, <1>3, <1>4 DEF Once
<1>6. \A i \in DOMAIN rs : rs[i].command # result.command
  BY <1>1 DEF Once
<1>7. Proper(session'.results)
  <2>1. \A i, j \in DOMAIN session'.results :
           i # j => session'.results[i].command # session'.results[j].command
    BY <1>4, <1>6 DEF Once, Proper
  <2>2. \A i \in DOMAIN session'.results :
           session'.results[i].status = "ok" /\ session'.results[i].command = Catalog =>
             session'.results[i].tools \in Tools
    BY <1>1, <1>4 DEF Once, Proper
  <2> QED
    BY <2>1, <2>2 DEF Proper
<1> QED
  BY <1>3, <1>5, <1>7

LEMMA OnceStep == ASSUME Typed, Once, [Next]_vars PROVE Once'
<1>1. CASE SetUp \/ Listens(Window)
  <2>1. /\ session'.results = session.results /\ session'.todo = session.todo
        /\ session'.at # "awaits" /\ inbox' = inbox
    BY <1>1 DEF SetUp, Listens, Typed, Sessions
  <2> QED
    BY <2>1 DEF Once, Proper
<1>2. CASE Invokes
  <2>1. PICK c \in session.todo :
          session' = [session EXCEPT !.at = "awaits", !.since = now, !.id = @ + 1,
                                     !.command = c, !.todo = @ \ {c}]
    BY <1>2 DEF Invokes
  <2>2. /\ session'.results = session.results /\ session'.todo = session.todo \ {c}
        /\ session'.command = c /\ inbox' = inbox
    BY <1>2, <2>1 DEF Invokes, Typed, Sessions
  <2> QED
    BY <2>2 DEF Once, Proper
<1>3. CASE ReadsAnswer
  <2>1. inbox \in Seq(Answers) /\ inbox # << >> /\ inbox' = Tail(inbox) /\ session.at = "awaits"
    BY <1>3 DEF Typed, ReadsAnswer
  <2>2. /\ Head(inbox) = inbox[1] /\ 1 \in 1..Len(inbox) /\ Len(Tail(inbox)) = Len(inbox) - 1
        /\ \A n \in 1..Len(Tail(inbox)) : n + 1 \in 1..Len(inbox) /\ inbox'[n] = inbox[n + 1]
    BY <2>1
  <2>3. \A n \in 1..Len(inbox') : inbox'[n].status = "ok" => inbox'[n].tools \in Tools
    BY <2>1, <2>2 DEF Once
  <2>4. CASE UNCHANGED session
    BY <2>3, <2>4 DEF Once, Proper
  <2>5. CASE Ends(Result(Head(inbox).status, Head(inbox).tools), session.sock)
    <3>1. Head(inbox) \in Answers
      BY <2>1
    <3>2. /\ Head(inbox).status \in {"ok", "failed"} /\ Head(inbox).tools \in ToolLists
          /\ session.sock \in Socks /\ (Head(inbox).status = "ok" => Head(inbox).tools \in Tools)
      BY <2>2, <3>1 DEF Answers, Typed, Sessions, Once
    <3>3. /\ \A i \in DOMAIN session'.results : session'.results[i].command \notin session'.todo
          /\ session'.at # "awaits" /\ Proper(session'.results)
      BY <2>1, <2>5, <3>2, EndsOnce
    <3> QED
      BY <2>3, <3>3 DEF Once, Proper
  <2>6. CASE Ends(Result("failed", NoTools), session.sock)
    <3>1. /\ \A i \in DOMAIN session'.results : session'.results[i].command \notin session'.todo
          /\ session'.at # "awaits" /\ Proper(session'.results)
      BY <2>1, <2>6, EndsOnce DEF Typed, Sessions, ToolLists
    <3> QED
      BY <2>3, <3>1 DEF Once, Proper
  <2> QED
    BY <1>3, <2>4, <2>5, <2>6, EitherWay DEF ReadsAnswer
<1>9. CASE Event
  <2>1. /\ session.at = "awaits" /\ inbox' = inbox
        /\ Ends(Result("failed", NoTools), session.sock) \/ UNCHANGED <<session, had>>
    BY <1>9, EitherWay DEF Event
  <2>2. CASE UNCHANGED session
    BY <2>1, <2>2 DEF Once, Proper
  <2>3. CASE Ends(Result("failed", NoTools), session.sock)
    <3>1. /\ \A i \in DOMAIN session'.results : session'.results[i].command \notin session'.todo
          /\ session'.at # "awaits" /\ Proper(session'.results)
      BY <2>1, <2>3, EndsOnce DEF Typed, Sessions, ToolLists
    <3> QED
      BY <2>1, <3>1 DEF Once, Proper
  <2> QED
    BY <2>1, <2>2, <2>3
<1>4. CASE TimesOut \/ Breaks
  <2>1. PICK sock \in Socks : Ends(Result("failed", NoTools), sock)
    BY <1>4 DEF TimesOut, Breaks, Typed, Sessions, Socks
  <2>2. session.at = "awaits" /\ inbox' = inbox /\ NoTools \in ToolLists
    BY <1>4 DEF TimesOut, Breaks, ToolLists
  <2>3. /\ \A i \in DOMAIN session'.results : session'.results[i].command \notin session'.todo
        /\ session'.at # "awaits" /\ Proper(session'.results)
    BY <2>1, <2>2, EndsOnce
  <2> QED
    BY <2>2, <2>3 DEF Once, Proper
<1>5. CASE Observed
  <2>1. /\ session'.results = session.results \/ session'.results = << >>
        /\ session'.todo = session.todo /\ session'.at # "awaits" /\ inbox' = inbox
    BY <1>5 DEF Observed, Typed, Sessions
  <2> QED
    BY <2>1 DEF Once, Proper
<1>6. CASE Hangs \/ Opens(Due)
  <2>1. Closed.results = << >> /\ Closed.at # "awaits"
    BY DEF Closed
  <2>2. session'.results = << >> /\ session'.at # "awaits" /\ inbox' = << >>
    BY <1>6, <2>1, ClosedTyped DEF Hangs, Opens, Sessions
  <2> QED
    BY <2>2, NoneProper DEF Once, Proper
<1>7. ASSUME NEW id \in pending, Replies(id) PROVE Once'
  <2>1. PICK answer : inbox' = Append(inbox, answer) /\ (answer.status = "ok" => answer.tools \in Tools)
    <3>1. LET a == [id |-> id, status |-> "ok", tools |-> tools] IN a.tools \in Tools
      BY DEF Typed
    <3>2. LET a == [id |-> id, status |-> "failed", tools |-> NoTools] IN a.status = "failed"
      OBVIOUS
    <3> QED
      BY <1>7, <3>1, <3>2 DEF Replies
  <2>2. inbox \in Seq(Answers) /\ session' = session
    BY <1>7 DEF Typed, Replies
  <2>3. ASSUME NEW n \in 1..Len(inbox') PROVE (n \in 1..Len(inbox) /\ inbox'[n] = inbox[n]) \/ inbox'[n] = answer
    BY <2>1, <2>2
  <2>4. \A n \in 1..Len(inbox') : inbox'[n].status = "ok" => inbox'[n].tools \in Tools
    BY <2>1, <2>3 DEF Once
  <2> QED
    BY <2>2, <2>4 DEF Once, Proper
<1>8. CASE UNCHANGED <<session, inbox>>
  BY <1>8 DEF Once, Proper
<1> QED
  BY <1>1, <1>2, <1>3, <1>4, <1>5, <1>6, <1>7, <1>8, <1>9
  DEF Next, Session, Loop, World, Begins, LoopEnds, Kept, Books, Reschedules, Finishes,
      Attempted, Killed, Tick, vars, svars, DeviceChanges, Noise

LEMMA SampleProper == ASSUME Typed, Once PROVE Proper(Sample.results)
<1> DEFINE rs == session.results
           ss == [i \in DOMAIN rs |->
                     LET r == rs[i]
                     IN  [r EXCEPT !.tools = IF r.command = Catalog THEN @ ELSE NoTools]]
<1>1. Sample.results = ss /\ rs \in Seq(Results)
  BY DEF Sample, Typed, Sessions
<1>2. ASSUME NEW i \in DOMAIN rs
      PROVE  /\ ss[i].command = rs[i].command /\ ss[i].status = rs[i].status
             /\ rs[i].command = Catalog => ss[i].tools = rs[i].tools
  <2>1. rs[i] \in Results
    BY <1>1
  <2> QED
    BY <2>1 DEF Results
<1>3. DOMAIN ss = DOMAIN rs
  OBVIOUS
<1> HIDE DEF ss
<1>4. Proper(ss)
  BY <1>2, <1>3 DEF Once, Proper
<1> QED
  BY <1>1, <1>4

LEMMA AllProperStep == ASSUME Typed, Kinds, Once, AllProper, [Next]_vars PROVE AllProper'
<1>1. CASE Kept
  BY <1>1, KeptGrows, SampleProper DEF Kinds, AllProper, Proper
<1>2. CASE UNCHANGED samples
  BY <1>2 DEF AllProper, Proper
<1> QED
  BY <1>1, <1>2 DEF Next, Session, Loop, World, Begins, LoopEnds, Books, Reschedules, Finishes,
      Attempted, Killed, Tick, vars, books

LEMMA SamplesProper == Spec => []AllProper
<1>1. Init => Once /\ AllProper
  <2>1. Closed.results = << >> /\ Closed.at # "awaits"
    BY DEF Closed
  <2> QED
    BY <2>1, NoneProper DEF Init, SInit, Once, AllProper, Proper
<1> QED
  BY <1>1, OnceStep, AllProperStep, KindsHold, Typing, PTL DEF Spec

-------------------------------------------------------------------------------

\* How many of the samples are in the summary.
Filed == Len(samples) - IF at = "sampled" THEN 1 ELSE 0

\* The summary says what the files say that are booked, and the disk what the
\* summary says, or what it said when the probe was stopped.
Balanced ==
    /\ at \in {"sampled", "booked"} => mode = "soak"
    /\ at = "attempted" => mode # "soak"
    /\ at # "killed" => /\ written = summary
                        /\ summary = IF mode = "soak" THEN Tally(Filed) ELSE NewSummary
    /\ at = "killed" => \/ written = Torn
                        \/ \E k \in 0..Len(samples) :
                             written = Tally(k) /\ (mode = "soak" => k + 1 >= Len(samples))

LEMMA TallySame == ASSUME NEW k \in Nat, UNCHANGED samples PROVE Tally(k)' = Tally(k)
BY TallyKeeps

LEMMA ModeSame == ASSUME [Next]_vars PROVE mode' = mode
BY DEF Next, Session, World, Loop, Begins, LoopEnds, Kept, Books, Reschedules, Finishes,
       Attempted, Killed, Tick, vars

\* Steps that book nothing.
LEMMA QuietBalanced ==
    ASSUME Kinds, Balanced, Booked, UNCHANGED <<mode, samples, summary>>, written' = written \/ written' = summary,
           (at' = "sampled") = (at = "sampled"), at \in {"sampled", "booked"} \/ at' \notin {"sampled", "booked"},
           at' = "attempted" => at = "attempted", (at' = "killed") = (at = "killed"), at = "killed" => written' = written
    PROVE  Balanced'
<1>1. PICK k : k = Filed
  OBVIOUS
<1>2. k \in 0..Len(samples) /\ Filed' = k /\ Len(samples) \in Nat
  BY <1>1 DEF Filed, Kinds, Booked
<1>3. Tally(k)' = Tally(k) /\ \A n \in 0..Len(samples) : Tally(n)' = Tally(n)
  BY <1>2, TallySame
<1>4. CASE at = "killed"
  BY <1>3, <1>4 DEF Balanced
<1>5. CASE at # "killed"
  <2>1. written' = summary /\ summary = IF mode = "soak" THEN Tally(k) ELSE NewSummary
    BY <1>1, <1>5 DEF Balanced
  <2>2. summary' = IF mode' = "soak" THEN Tally(Filed)' ELSE NewSummary
    BY <1>1, <1>2, <1>3, <2>1
  <2> QED
    BY <1>5, <2>1, <2>2 DEF Balanced
<1> QED
  BY <1>4, <1>5

LEMMA KeptBalanced == ASSUME Typed, Kinds, Balanced, Kept PROVE Balanced'
<1>1. PICK k : k = Len(samples)
  OBVIOUS
<1>2. /\ k \in Nat /\ Len(samples') = k + 1 /\ at = "session" /\ UNCHANGED <<mode, summary, written>>
      /\ at' = (IF mode = "soak" THEN "sampled" ELSE "attempted")
  BY <1>1, KeptGrows DEF Kinds, Kept
<1>3. Tally(k)' = Tally(k)
  BY <1>1, <1>2, KeptGrows, TallyKeeps DEF Kinds
<1>4. Filed = k /\ (mode = "soak" => Filed' = k)
  BY <1>1, <1>2 DEF Filed
<1>5. mode = "soak" => summary' = Tally(Filed)'
  BY <1>2, <1>3, <1>4 DEF Balanced
<1> QED
  BY <1>2, <1>5 DEF Balanced

LEMMA BooksBalanced == ASSUME Kinds, AllProper, Booked, Balanced, Books PROVE Balanced'
<1>1. PICK k : k = Len(samples) - 1
  OBVIOUS
<1>2. /\ k \in Nat /\ Len(samples) = k + 1 /\ at = "sampled" /\ at' = "booked" /\ mode = "soak"
      /\ UNCHANGED <<mode, samples>> /\ Len(samples) \in Nat
  BY <1>1 DEF Kinds, Books, Booked, Balanced
<1>3. summary = Tally(k)
  BY <1>1, <1>2 DEF Balanced, Filed
<1>4. summary' = Tally(k + 1) /\ written' = summary'
  BY <1>2, <1>3, TallyStep DEF Books, Last
<1>5. Tally(k + 1)' = Tally(k + 1) /\ Filed' = k + 1
  BY <1>2, TallySame DEF Filed
<1>6. summary' = Tally(Filed)'
  BY <1>4, <1>5
<1> QED
  BY <1>2, <1>4, <1>6 DEF Balanced

LEMMA KilledBalanced == ASSUME Kinds, Booked, Balanced, Killed PROVE Balanced'
<1>1. /\ at # "killed" /\ at' = "killed" /\ UNCHANGED <<mode, samples>>
      /\ written' \in {written, Torn} /\ Len(samples) \in Nat
  BY DEF Killed, Kinds
<1>2. PICK k : k = IF mode = "soak" THEN Filed ELSE 0
  OBVIOUS
<1>3. k \in 0..Len(samples) /\ (mode = "soak" => k + 1 >= Len(samples))
  BY <1>1, <1>2 DEF Filed, Kinds, Booked
<1>4. written = Tally(k)
  BY <1>1, <1>2, TallyOfNone DEF Balanced
<1>5. Tally(k)' = Tally(k)
  BY <1>1, <1>3, TallySame
<1> QED
  BY <1>1, <1>3, <1>4, <1>5 DEF Balanced

LEMMA BalancedStep ==
    ASSUME Typed, Kinds, AllProper, Booked, Balanced, [Next]_vars PROVE Balanced'
<1>1. CASE Begins \/ LoopEnds \/ Reschedules \/ Attempted \/ Finishes
  BY <1>1, QuietBalanced DEF Begins, LoopEnds, Reschedules, Attempted, Finishes, books
<1>2. CASE Session \/ World \/ Tick \/ UNCHANGED vars
  BY <1>2, QuietBalanced DEF Session, World, Tick, vars, books
<1> QED
  BY <1>1, <1>2, KeptBalanced, BooksBalanced, KilledBalanced DEF Next, Loop

-------------------------------------------------------------------------------

\* How many of the samples the loop has looked at for a checkpoint.
Reached == Len(samples) - IF at \in {"sampled", "booked"} THEN 1 ELSE 0

Periodic(m) ==
    /\ checkpoints = [n \in 1..m |-> Tally(n * CheckpointEvery)]
    /\ m * CheckpointEvery <= Len(samples) /\ (m > 0 => CheckpointEvery > 0)
    /\ at # "killed" /\ CheckpointEvery > 0 /\ mode = "soak" =>
         m * CheckpointEvery <= Reached /\ Reached < (m + 1) * CheckpointEvery

\* There is a checkpoint for every so many samples, and it says what they say.
Punctual == \E m \in Nat : Periodic(m)

\* A multiple of the period is within what a later one is within.
LEMMA Multiples ==
    ASSUME NEW m \in Nat, NEW c \in Nat, NEW k \in Nat, m * c <= k, NEW n \in 1..m
    PROVE  n * c \in 0..k
<1>1. n * c <= m * c
  OBVIOUS
<1> QED
  BY <1>1

\* Steps that write no checkpoint, and may add a sample.
LEMMA QuietPunctual ==
    ASSUME Kinds, Punctual, UNCHANGED <<mode, checkpoints>>, Len(samples') \in Nat,
           Len(samples') >= Len(samples), \A i \in 1..Len(samples) : samples'[i] = samples[i],
           (at' # "killed" /\ mode = "soak") => at # "killed" /\ Reached' = Reached
    PROVE  Punctual'
<1>1. PICK m \in Nat : Periodic(m)
  BY DEF Punctual
<1>2. Len(samples) \in Nat /\ CheckpointEvery \in Nat /\ m * CheckpointEvery \in Nat
  BY SoakAssumption DEF Kinds
<1>3. ASSUME NEW n \in 1..m PROVE Tally(n * CheckpointEvery)' = Tally(n * CheckpointEvery)
  <2>1. PICK k \in 0..Len(samples) : k = n * CheckpointEvery
    BY <1>1, <1>2, Multiples DEF Periodic
  <2>2. Tally(k)' = Tally(k)
    BY <1>2, TallyKeeps
  <2> QED
    BY <2>1, <2>2
<1>4. checkpoints' = [n \in 1..m |-> Tally(n * CheckpointEvery)']
  BY <1>1, <1>3 DEF Periodic
<1>5. m * CheckpointEvery <= Len(samples') /\ (m > 0 => CheckpointEvery > 0)
  BY <1>1, <1>2 DEF Periodic
<1>6. at' # "killed" /\ CheckpointEvery > 0 /\ mode' = "soak" =>
        m * CheckpointEvery <= Reached' /\ Reached' < (m + 1) * CheckpointEvery
  BY <1>1 DEF Periodic
<1>7. Periodic(m)'
  BY <1>4, <1>5, <1>6 DEF Periodic
<1> QED
  BY <1>7 DEF Punctual

LEMMA ReschedulesPunctual ==
    ASSUME Kinds, Booked, Balanced, Punctual, Reschedules PROVE Punctual'
<1>1. PICK m \in Nat : Periodic(m)
  BY DEF Punctual
<1>2. PICK k : k = Len(samples) - 1
  OBVIOUS
<1>3. /\ k \in Nat /\ Len(samples) = k + 1 /\ at = "booked" /\ at' \in {"loop", "ends"}
      /\ mode = "soak" /\ UNCHANGED <<mode, samples>>
  BY <1>2 DEF Kinds, Reschedules, Booked, Balanced
<1>4. summary = Tally(k + 1) /\ Reached = k /\ Reached' = k + 1 /\ CheckpointEvery \in Nat
  BY <1>3, SoakAssumption DEF Balanced, Filed, Reached
<1>5. CASE Checkpoint(k + 1)
  <2>1. CheckpointEvery \in Nat \ {0} /\ (k + 1) % CheckpointEvery = 0
    BY <1>4, <1>5 DEF Checkpoint
  <2>2. m * CheckpointEvery <= k /\ k < (m + 1) * CheckpointEvery
    BY <1>1, <1>3, <1>4, <2>1 DEF Periodic
  <2>3. k + 1 = (m + 1) * CheckpointEvery
    BY <1>3, <2>1, <2>2, NextMultiple
  <2> DEFINE f == [n \in 1..m |-> Tally(n * CheckpointEvery)]
             g == [n \in 1..(m + 1) |-> Tally(n * CheckpointEvery)]
  <2>4. checkpoints = f /\ checkpoints' = Append(f, Tally(k + 1))
    BY <1>1, <1>3, <1>4, <1>5 DEF Periodic, Reschedules
  <2>5. Append(f, Tally(k + 1)) = g
    <3>1. /\ f \in [1..m -> {f[n] : n \in 1..m}] /\ m \in Nat
          /\ \A n \in 1..m : f[n] = Tally(n * CheckpointEvery)
      OBVIOUS
    <3>2. /\ DOMAIN g = 1..(m + 1)
          /\ \A n \in 1..m : g[n] = Tally(n * CheckpointEvery)
          /\ g[m + 1] = Tally(k + 1)
          /\ g = [n \in 1..(m + 1) |-> g[n]]
      BY <2>3
    <3> HIDE DEF f, g
    <3>3. f \in Seq({f[n] : n \in 1..m}) /\ Len(f) = m
      BY <3>1
    <3>4. /\ Append(f, Tally(k + 1)) = [n \in 1..(m + 1) |-> IF n = m + 1 THEN Tally(k + 1) ELSE f[n]]
      BY <3>3
    <3>5. \A n \in 1..(m + 1) : (IF n = m + 1 THEN Tally(k + 1) ELSE f[n]) = g[n]
      <4>1. \A n \in 1..(m + 1) : n # m + 1 => n \in 1..m
        OBVIOUS
      <4> QED
        BY <3>1, <3>2, <4>1
    <3> QED
      BY <3>2, <3>4, <3>5
  <2>6. ASSUME NEW n \in 1..(m + 1) PROVE Tally(n * CheckpointEvery)' = Tally(n * CheckpointEvery)
    <3>1. PICK j \in Nat : j = n * CheckpointEvery
      BY <1>4
    <3>2. Tally(j)' = Tally(j)
      BY <1>3, TallySame
    <3> QED
      BY <3>1, <3>2
  <2>7. checkpoints' = [n \in 1..(m + 1) |-> Tally(n * CheckpointEvery)']
    BY <2>4, <2>5, <2>6
  <2>8. k + 1 < (m + 1 + 1) * CheckpointEvery
    BY <1>3, <2>1, <2>3
  <2> HIDE DEF f, g
  <2>9. Periodic(m + 1)'
    BY <1>3, <1>4, <2>1, <2>3, <2>7, <2>8 DEF Periodic
  <2> QED
    BY <2>9 DEF Punctual
<1>6. CASE ~Checkpoint(k + 1)
  <2>1. checkpoints' = checkpoints
    BY <1>3, <1>6 DEF Reschedules
  <2>2. CheckpointEvery > 0 => m * CheckpointEvery <= k + 1 /\ k + 1 < (m + 1) * CheckpointEvery
    <3> SUFFICES ASSUME CheckpointEvery > 0
                 PROVE  m * CheckpointEvery <= k + 1 /\ k + 1 < (m + 1) * CheckpointEvery
      OBVIOUS
    <3>1. CheckpointEvery \in Nat \ {0} /\ (k + 1) % CheckpointEvery # 0
      BY <1>4, <1>6 DEF Checkpoint
    <3>2. m * CheckpointEvery <= k /\ k < (m + 1) * CheckpointEvery
      BY <1>1, <1>3, <1>4, <3>1 DEF Periodic
    <3>3. k + 1 < (m + 1) * CheckpointEvery
      BY <1>3, <3>1, <3>2, NextMultiple
    <3>4. m * CheckpointEvery \in Nat
      BY <3>1
    <3> QED
      BY <1>3, <3>2, <3>3, <3>4
  <2>3. ASSUME NEW n \in 1..m PROVE Tally(n * CheckpointEvery)' = Tally(n * CheckpointEvery)
    <3>1. PICK j \in Nat : j = n * CheckpointEvery
      BY <1>4
    <3>2. Tally(j)' = Tally(j)
      BY <1>3, TallySame
    <3> QED
      BY <3>1, <3>2
  <2>4. checkpoints' = [n \in 1..m |-> Tally(n * CheckpointEvery)']
    BY <1>1, <2>1, <2>3 DEF Periodic
  <2>5. Periodic(m)'
    BY <1>1, <1>3, <1>4, <2>2, <2>4 DEF Periodic
  <2> QED
    BY <2>5 DEF Punctual
<1> QED
  BY <1>5, <1>6

LEMMA PunctualStep ==
    ASSUME Typed, Kinds, Booked, Balanced, Punctual, [Next]_vars PROVE Punctual'
<1>0. Len(samples) \in Nat
  BY DEF Kinds
<1>1. CASE Kept
  <2>1. /\ Len(samples') = Len(samples) + 1 /\ \A i \in 1..Len(samples) : samples'[i] = samples[i]
        /\ at = "session" /\ UNCHANGED <<mode, checkpoints>>
    BY <1>1, KeptGrows DEF Kinds, Kept
  <2>2. mode = "soak" => at' = "sampled"
    BY <1>1 DEF Kept
  <2>3. mode = "soak" => Reached' = Reached
    BY <1>0, <2>1, <2>2 DEF Reached
  <2> QED
    BY <1>0, <2>1, <2>3, QuietPunctual
<1>2. CASE Begins \/ LoopEnds \/ Attempted \/ Finishes \/ Books \/ Killed
  <2>1. UNCHANGED <<mode, samples, checkpoints>>
    BY <1>2 DEF Begins, LoopEnds, Attempted, Finishes, Books, Killed, books
  <2>2. at' # "killed" => at # "killed" /\ Reached' = Reached
    BY <1>2 DEF Begins, LoopEnds, Attempted, Finishes, Books, Killed, Reached, books
  <2> QED
    BY <1>0, <2>1, <2>2, QuietPunctual
<1>3. CASE Session \/ World \/ Tick \/ UNCHANGED vars
  <2>1. UNCHANGED <<mode, at, samples, checkpoints>>
    BY <1>3 DEF Session, World, Tick, vars, books
  <2>2. Reached' = Reached
    BY <2>1 DEF Reached
  <2> QED
    BY <1>0, <2>1, <2>2, QuietPunctual
<1> QED
  BY <1>1, <1>2, <1>3, ReschedulesPunctual DEF Next, Loop

\* The summary on disk and every checkpoint say what the sample files say, also
\* when the probe is stopped in the middle (update_soak_summary, run_soak).
THEOREM BooksAddUp == Spec => []BooksMatchFiles
<1>1. Init => Balanced /\ Punctual /\ Booked
  <2> SUFFICES ASSUME Init PROVE Balanced /\ Punctual /\ Booked
    OBVIOUS
  <2>1. /\ samples = << >> /\ Len(samples) = 0 /\ at = "loop" /\ checkpoints = << >>
        /\ summary = NewSummary /\ written = NewSummary
    BY DEF Init
  <2>2. Filed = 0 /\ Reached = 0
    BY <2>1 DEF Filed, Reached
  <2>3. Balanced
    BY <2>1, <2>2, TallyOfNone DEF Balanced
  <2>4. << >> = [n \in 1..0 |-> Tally(n * CheckpointEvery)]
    OBVIOUS
  <2>5. Periodic(0)
    BY <2>1, <2>2, <2>4, SoakAssumption DEF Periodic
  <2> QED
    BY <2>1, <2>3, <2>5 DEF Punctual, Booked
<1>2. Spec => []Booked
  BY <1>1, BookedStep, KindsHold, Typing, PTL DEF Spec
<1>3. Spec => []Balanced
  BY <1>1, <1>2, BalancedStep, SamplesProper, KindsHold, Typing, PTL DEF Spec
<1>4. Spec => []Punctual
  BY <1>1, <1>2, <1>3, PunctualStep, KindsHold, Typing, PTL DEF Spec
<1>5. Kinds /\ Booked /\ Balanced /\ Punctual => BooksMatchFiles
  <2> SUFFICES ASSUME Kinds, Booked, Balanced, Punctual PROVE BooksMatchFiles
    OBVIOUS
  <2>1. \A k : Tally(k).total = k
    BY DEF Tally
  <2>2. Len(samples) \in Nat
    BY DEF Kinds
  <2>3. written # Torn => \E k : written = Tally(k) /\ (mode = "soak" => k + 1 >= Len(samples))
    <3>1. CASE at = "killed"
      BY <3>1 DEF Balanced
    <3>2. CASE at # "killed" /\ mode = "soak"
      <4>1. written = Tally(Filed) /\ Filed + 1 >= Len(samples)
        BY <2>2, <3>2 DEF Balanced, Filed
      <4> QED
        BY <4>1
    <3>3. CASE at # "killed" /\ mode # "soak"
      BY <3>3, TallyOfNone DEF Balanced
    <3> QED
      BY <3>1, <3>2, <3>3
  <2>4. written # Torn => /\ mode = "soak" => written.total + 1 >= Len(samples)
                          /\ written = Tally(written.total)
    BY <2>1, <2>3
  <2>5. mode = "soak" /\ at = "done" => written = Tally(Len(samples))
    BY <2>2 DEF Balanced, Filed
  <2>6. \A n \in DOMAIN checkpoints : checkpoints[n] = Tally(n * CheckpointEvery)
    BY DEF Punctual, Periodic
  <2> QED
    BY <2>4, <2>5, <2>6 DEF BooksMatchFiles
<1> QED
  BY <1>2, <1>3, <1>4, <1>5, KindsHold, PTL

===============================================================================
