------------------------- MODULE AgentSession_proofs -------------------------
(***************************************************************************)
(* The guards of an agent session, for any number of lines and of calls    *)
(* open at once: their types and counts, what a reported success says, and *)
(* that no stall timer outlives its call.  Then the living messages:       *)
(* none of them ends before its session, and no deferred update is         *)
(* stranded.                                                               *)
(***************************************************************************)
EXTENDS AgentSession, LivingMessage, FiniteSetTheorems, SequenceTheorems, TLAPS

(* What is counted are lines: each turn, message and step that a counter    *)
(* stands for has been read, and a message whose post is under way has not  *)
(* been counted by the registry, which may start from the turns a result    *)
(* line reports.                                                            *)
CountInv ==
  /\ Len(lines) <= written
  /\ stream.begun + Len(lines) <= written /\ stream.messages + Len(lines) <= written
  /\ stream.turns + Len(lines) <= written /\ stream.reported <= MaxLines
  /\ IsFiniteSet(posting) /\ Cardinality(posting) + Len(lines) <= written
  /\ sess # None => sess + Cardinality(posting) + Len(lines) <= written + MaxLines

(* The session is registered from its spawn to its result. *)
LifeInv ==
  /\ proc = "none" => lines = <<>> /\ posting = {}
  /\ \A p \in posting : p[1].kind = "say"
  /\ sess # None <=> proc # "none" /\ result.status = "pending"
  /\ result.status # "pending" => proc \in {"done", "dead"} /\ lines = <<>>

AgentInv == TypeOK /\ CountInv /\ LifeInv

(* A job's messages are observed as they are read.  What its agent has done  *)
(* is on the guards or still to be read, an interrupt has left a reason, and *)
(* the result is a picture of the guards as they stay.                       *)
JobInv ==
  client = "job" =>
    /\ posting = {}
    /\ slept => guard.sleep \/ \E i \in DOMAIN lines : SleepViolation(lines[i])
    /\ killed => guard.stall \/ guard.sleep \/ guard.pm2 \/ guard.timedOut
    /\ result.status # "pending" => ~guard.armed
    /\ result.status = "resolved" =>
         /\ result.guard.stall = guard.stall /\ result.guard.sleep = guard.sleep
         /\ result.guard.timedOut = guard.timedOut
    /\ report # None /\ report.ok =>
         result.status = "resolved" /\ ExecutionOk(result)

(* A started call that the stall guard sees is under way until its end is   *)
(* written, and the timer runs only between the reading of the two.         *)
Ended == \E j \in DOMAIN lines : lines[j].kind = "done"
StallInv ==
  /\ guard.stall => ~guard.armed
  /\ guard.armed => open.seen > 0 \/ Ended
  /\ \A i \in DOMAIN lines :
       ShellCommand(lines[i]) =>
         open.seen > 0 \/ \E j \in DOMAIN lines : j > i /\ lines[j].kind = "done"

Opens == [seen : 0..MaxShells, hidden : 0..MaxShells]

(* A call begins or ends; the stall guard's count moves with those it sees. *)
LEMMA CallsCounted ==
  ASSUME open \in Opens, NEW l \in Line
  PROVE  /\ Starts(l) => /\ open' \in Opens
                         /\ ShellCommand(l) => open'.seen > 0
                         /\ open.seen > 0 => open'.seen > 0
         /\ Completes => open' \in Opens
<1>0. MaxShells \in Nat
  BY AgentAssumption
<1>1. PICK a \in 0 .. MaxShells, b \in 0 .. MaxShells : open = [seen |-> a, hidden |-> b]
  BY Zenon DEF Opens
<1>2. /\ open.seen = a /\ open.hidden = b
      /\ [open EXCEPT !.seen = @ + 1] = [seen |-> a + 1, hidden |-> b]
      /\ [open EXCEPT !.hidden = @ + 1] = [seen |-> a, hidden |-> b + 1]
      /\ [open EXCEPT !.seen = @ - 1] = [seen |-> a - 1, hidden |-> b]
      /\ [open EXCEPT !.hidden = @ - 1] = [seen |-> a, hidden |-> b - 1]
  BY <1>1
<1>3. ASSUME Starts(l)
      PROVE  /\ open' \in Opens
             /\ ShellCommand(l) => open'.seen > 0
             /\ open.seen > 0 => open'.seen > 0
  <2>1. a + b < MaxShells
    BY <1>2, <1>3, Zenon DEF Starts
  <2>2. a + 1 \in 0 .. MaxShells /\ b + 1 \in 0 .. MaxShells
    BY <1>0, <2>1
  <2>3. CASE ShellCommand(l)
    <3>1. open' = [seen |-> a + 1, hidden |-> b]
      BY <1>2, <1>3, <2>3, Zenon DEF Starts
    <3> QED BY <2>2, <3>1 DEF Opens
  <2>4. CASE ~ShellCommand(l)
    <3>1. open' = [seen |-> a, hidden |-> b + 1]
      BY <1>2, <1>3, <2>4, Zenon DEF Starts
    <3> QED BY <1>2, <2>2, <2>4, <3>1 DEF Opens
  <2> QED BY <2>3, <2>4
<1>4. ASSUME Completes PROVE open' \in Opens
  <2>1. \/ a > 0 /\ open' = [seen |-> a - 1, hidden |-> b]
        \/ b > 0 /\ open' = [seen |-> a, hidden |-> b - 1]
    BY <1>2, <1>4, Zenon DEF Completes
  <2> QED BY <1>0, <2>1 DEF Opens
<1> QED BY <1>3, <1>4

(* The stream after a line: at most one counter has gone up, by one.        *)
Streams == [error : BOOLEAN, output : BOOLEAN, begun : Nat, turns : Nat,
            messages : Nat, reported : Nat]
LEMMA ConsumedCounts ==
  ASSUME NEW s \in Streams, NEW l \in Line
  PROVE  /\ Consumed(s, l) \in Streams
         /\ Consumed(s, l).begun = s.begun + (IF l.kind = "begin" THEN 1 ELSE 0)
         /\ Consumed(s, l).turns = s.turns + (IF l.kind = "turn" THEN 1 ELSE 0)
         /\ Consumed(s, l).messages = s.messages + (IF l.kind = "say" THEN 1 ELSE 0)
         /\ s.reported <= MaxLines => Consumed(s, l).reported <= MaxLines
         /\ l.kind = "result" => l.turns \in 0 .. MaxLines
<1>1. MaxLines \in Nat
  BY AgentAssumption
<1>2. l.kind = "result" => l.turns \in 0 .. MaxLines
  BY <1>1 DEF Line
<1> QED BY <1>1, <1>2 DEF Streams, Consumed

Guards == [armed : BOOLEAN, stall : BOOLEAN, sleep : BOOLEAN, pm2 : BOOLEAN,
           timedOut : BOOLEAN]

LEMMA Frames ==
  /\ ChildOK /\ UNCHANGED childVars => ChildOK'
  /\ StreamOK /\ UNCHANGED streamVars => StreamOK'
  /\ AgentOK /\ UNCHANGED agentVars => AgentOK'
  /\ ResultOK /\ UNCHANGED result => ResultOK'
  /\ ReportOK /\ UNCHANGED report => ReportOK'
  /\ UNCHANGED fixedVars => (client' \in Clients <=> client \in Clients)
                           /\ (draining' \in BOOLEAN <=> draining \in BOOLEAN)
<1>1. ChildOK /\ UNCHANGED childVars => ChildOK'
  BY DEF ChildOK, childVars
<1>2. StreamOK /\ UNCHANGED streamVars => StreamOK'
  BY DEF StreamOK, streamVars
<1>3. AgentOK /\ UNCHANGED agentVars => AgentOK'
  BY DEF AgentOK, agentVars
<1>4. ResultOK /\ UNCHANGED result => ResultOK'
  BY DEF ResultOK
<1>5. ReportOK /\ UNCHANGED report => ReportOK'
  BY DEF ReportOK
<1>6. UNCHANGED fixedVars => (client' \in Clients <=> client \in Clients)
                             /\ (draining' \in BOOLEAN <=> draining \in BOOLEAN)
  BY DEF fixedVars
<1> QED BY <1>1, <1>2, <1>3, <1>4, <1>5, <1>6

(* The timers' and the result's changes of the guards. *)
LEMMA GuardSteps ==
  ASSUME NEW g \in Guards
  PROVE  /\ [g EXCEPT !.armed = FALSE] \in Guards
         /\ [g EXCEPT !.timedOut = TRUE] \in Guards
         /\ [g EXCEPT !.armed = FALSE, !.stall = TRUE] \in Guards
BY DEF Guards

(* What the invariant says of the types, in the form the steps cite. *)
LEMMA Typed ==
  ASSUME AgentInv
  PROVE  /\ written \in Nat /\ written <= MaxLines /\ MaxLines \in Nat
         /\ lines \in Seq(Line) /\ Len(lines) \in Nat
         /\ stream \in Streams /\ guard \in Guards /\ killed \in BOOLEAN
         /\ sess # None => sess \in Nat
         /\ open \in Opens
         /\ IsFiniteSet(posting) /\ Cardinality(posting) \in Nat
         /\ posting \subseteq Line \X (1 .. MaxLines)
<1>1. MaxLines \in Nat
  BY AgentAssumption
<1>2. StreamOK /\ AgentOK /\ ChildOK /\ CountInv
  BY DEF AgentInv, TypeOK
<1>3. stream \in Streams /\ lines \in Seq(Line) /\ posting \subseteq Line \X (1 .. MaxLines)
  BY <1>1, <1>2 DEF Streams, StreamOK
<1>4. IsFiniteSet(posting) /\ Cardinality(posting) \in Nat
  BY <1>2, FS_CardinalityType DEF CountInv
<1>5. guard \in Guards /\ killed \in BOOLEAN /\ sess \in 0 .. 2 * MaxLines \cup {None}
  BY <1>2, Zenon DEF AgentOK, Guards
<1>6. written \in 0 .. MaxLines /\ open \in Opens
  BY <1>2 DEF ChildOK, Opens
<1> QED BY <1>1, <1>3, <1>4, <1>5, <1>6

(* The rest of onMessage, whoever calls it. *)
LEMMA ObserveTyped ==
  ASSUME AgentInv, NEW l \in Line, Observe(l), stream' \in Streams
  PROVE  /\ guard' \in Guards /\ killed' \in BOOLEAN
         /\ sess' = None <=> sess = None
         /\ sess # None => sess' \in Nat
         /\ sess # None =>
              sess' <= sess + 1 \/ sess' = FinalTurns(stream') \/ sess' <= MaxLines
         /\ sess # None /\ l.kind = "say" => sess' = sess + 1
<1>1. guard \in Guards /\ killed \in BOOLEAN /\ (sess # None => sess \in Nat)
  BY Typed
<1>2. guard' \in Guards
  <2> DEFINE sleep == guard.sleep \/ SleepViolation(l)
             pm2 == guard.pm2 \/ Pm2Violation(l)
             armed == StallArmed(guard, l)
  <2>1. sleep \in BOOLEAN /\ pm2 \in BOOLEAN /\ armed \in BOOLEAN
    BY <1>1 DEF Guards, StallArmed
  <2>2. guard' = [armed |-> armed, stall |-> guard.stall, sleep |-> sleep, pm2 |-> pm2,
                  timedOut |-> guard.timedOut]
    BY Zenon DEF Observe
  <2> HIDE DEF sleep, pm2, armed
  <2>3. guard.stall \in BOOLEAN /\ guard.timedOut \in BOOLEAN
    BY <1>1 DEF Guards
  <2> QED BY <2>1, <2>2, <2>3 DEF Guards
<1>3. killed' \in BOOLEAN
  <2>1. killed' = killed \/ killed' = (killed \/ proc = "running")
    BY Zenon DEF Observe, Interrupt
  <2> QED BY <2>1, <1>1
<1>4. FinalTurns(stream') \in Nat
  BY DEF FinalTurns, Streams
<1>5. sess' = IF sess = None THEN None ELSE TurnsAfter(l)
  BY Zenon DEF Observe
<1>6. l.kind = "result" => l.turns \in 0 .. MaxLines
  BY AgentAssumption DEF Line
<1>7. MessageType(l) = "assistant" <=> l.kind \in {"say", "blocks"}
  BY DEF MessageType, MessageTypeOf, Line
<1> QED BY <1>1, <1>2, <1>3, <1>4, <1>5, <1>6, <1>7, AgentAssumption DEF TurnsAfter

(* The counts keep to their bounds. *)
LEMMA TypesFollow ==
  ASSUME AgentInv, CountInv', UNCHANGED <<fixedVars, childVars, result, report>>,
         lines' \in Seq(Line), posting' \subseteq Line \X (1 .. MaxLines),
         posted' \in BOOLEAN, stream' \in Streams, sess' # None => sess' \in Nat,
         guard' \in Guards, killed' \in BOOLEAN
  PROVE  TypeOK'
<1>1. written' \in 0 .. MaxLines /\ MaxLines \in Nat
  BY Typed DEF childVars
<1>2. Len(lines') \in Nat /\ Cardinality(posting') \in Nat
  BY FS_CardinalityType DEF CountInv
<1>3. /\ stream'.begun \in 0 .. MaxLines /\ stream'.turns \in 0 .. MaxLines
      /\ stream'.messages \in 0 .. MaxLines /\ stream'.reported \in 0 .. MaxLines
  BY <1>1, <1>2 DEF CountInv, Streams
<1>4. StreamOK'
  BY <1>3 DEF Streams, StreamOK
<1>5. sess' \in 0 .. 2 * MaxLines \cup {None}
  BY <1>1, <1>2 DEF CountInv
<1>6. AgentOK'
  BY <1>5, Zenon DEF AgentOK, Guards
<1> QED BY <1>4, <1>6, Frames DEF AgentInv, TypeOK

LEMMA ReadLineKeepsInv == ASSUME AgentInv, ReadLine PROVE AgentInv'
<1>1. /\ Head(lines) \in Line /\ lines' \in Seq(Line) /\ Len(lines') = Len(lines) - 1
      /\ Len(lines) \in Nat \ {0} /\ lines # <<>>
  BY Typed DEF ReadLine
<1>0. PICK l \in Line : l = Head(lines)
  BY <1>1
<1>2. /\ stream \in Streams /\ written \in Nat /\ Cardinality(posting) \in Nat
      /\ written <= MaxLines /\ MaxLines \in Nat /\ IsFiniteSet(posting)
      /\ posting \subseteq Line \X (1 .. MaxLines)
      /\ guard \in Guards /\ killed \in BOOLEAN /\ (sess # None => sess \in Nat)
      /\ stream.begun \in Nat /\ stream.turns \in Nat /\ stream.messages \in Nat
  BY Typed DEF Streams
<1>3. proc # "none" /\ posted \in BOOLEAN
  BY <1>1, Zenon DEF AgentInv, LifeInv, TypeOK, StreamOK
<1>4. /\ UNCHANGED <<fixedVars, childVars, result, report>>
      /\ written' = written /\ proc' = proc /\ posted' = posted /\ result' = result
      /\ stream' = Consumed(stream, l)
  BY <1>0 DEF ReadLine, childVars
<1>5. /\ stream' \in Streams
      /\ stream'.begun = stream.begun + (IF l.kind = "begin" THEN 1 ELSE 0)
      /\ stream'.turns = stream.turns + (IF l.kind = "turn" THEN 1 ELSE 0)
      /\ stream'.messages = stream.messages + (IF l.kind = "say" THEN 1 ELSE 0)
      /\ stream'.reported <= MaxLines
  BY <1>1, <1>2, <1>4, ConsumedCounts DEF AgentInv, CountInv
<1>6. CountInv /\ LifeInv
  BY DEF AgentInv
<1>9. /\ stream'.begun + Len(lines') <= written' /\ stream'.messages + Len(lines') <= written'
      /\ stream'.turns + Len(lines') <= written' /\ Len(lines') <= written'
      /\ FinalTurns(stream') \in Nat /\ FinalTurns(stream') <= MaxLines
  <2>1. /\ stream'.begun + Len(lines') <= written' /\ stream'.messages + Len(lines') <= written'
        /\ stream'.turns + Len(lines') <= written' /\ Len(lines') <= written'
    <3>1. written' = written /\ Len(lines') = Len(lines) - 1 /\ Len(lines) \in Nat
      BY <1>1, <1>4
    <3>2. /\ stream.begun + Len(lines) <= written /\ stream.messages + Len(lines) <= written
          /\ stream.turns + Len(lines) <= written /\ Len(lines) <= written
      BY <1>6 DEF CountInv
    <3>3. stream'.begun <= stream.begun + 1 /\ stream'.turns <= stream.turns + 1
          /\ stream'.messages <= stream.messages + 1
          /\ stream'.begun \in Nat /\ stream'.turns \in Nat /\ stream'.messages \in Nat
      BY <1>2, <1>5 DEF Streams
    <3>4. ASSUME NEW a \in Nat, NEW b \in Nat, b <= a + 1, a + Len(lines) <= written
          PROVE  b + Len(lines') <= written'
      BY <1>2, <3>1, <3>4
    <3>5. Len(lines') <= written'
      BY <1>2, <3>1, <3>2
    <3>6. stream'.begun + Len(lines') <= written'
      BY <1>2, <3>2, <3>3, <3>4
    <3>7. stream'.messages + Len(lines') <= written'
      BY <1>2, <3>2, <3>3, <3>4
    <3>8. stream'.turns + Len(lines') <= written'
      BY <1>2, <3>2, <3>3, <3>4
    <3> QED BY <3>5, <3>6, <3>7, <3>8
  <2>2. /\ stream'.begun \in Nat /\ stream'.turns \in Nat /\ stream'.messages \in Nat
        /\ stream'.reported \in Nat /\ Len(lines') \in Nat
    BY <1>1, <1>5 DEF Streams
  <2>3. /\ stream'.begun <= MaxLines /\ stream'.messages <= MaxLines
        /\ stream'.turns <= MaxLines /\ stream'.reported <= MaxLines
    BY <1>2, <1>4, <1>5, <2>1, <2>2
  <2> QED BY <2>1, <2>2, <2>3 DEF FinalTurns
<1>7. CASE client = "dm" /\ l.kind = "say"
  <2>0. PICK x : x = <<l, written - Len(lines) + 1>>
    OBVIOUS
  <2>1. posting' = posting \cup {x} /\ UNCHANGED <<sess, guard, killed>>
    BY <1>0, <1>7, <2>0 DEF ReadLine
  <2>2. x \in Line \X (1 .. MaxLines)
    BY <1>1, <1>2, <1>6, <2>0 DEF CountInv
  <2>3. x[1] = l
    BY <2>0
  <2>4. IsFiniteSet(posting') /\ Cardinality(posting') <= Cardinality(posting) + 1
    <3>1. IsFiniteSet(posting) /\ Cardinality(posting) \in Nat
      BY <1>2
    <3>2. /\ IsFiniteSet(posting \cup {x})
          /\ Cardinality(posting \cup {x}) =
               IF x \in posting THEN Cardinality(posting) ELSE Cardinality(posting) + 1
      BY <3>1, FS_AddElement
    <3>3. posting' = posting \cup {x}
      BY <2>1
    <3> QED BY <3>1, <3>2, <3>3
  <2>5. Cardinality(posting') \in Nat
    BY <2>4, FS_CardinalityType
  <2>6. CountInv'
    <3>1. Len(lines') = Len(lines) - 1 /\ written' = written /\ sess' = sess
      BY <1>1, <1>4, <2>1
    <3>2. Cardinality(posting') + Len(lines') <= written'
      BY <1>1, <1>2, <1>6, <2>4, <2>5, <3>1 DEF CountInv
    <3>3. sess' # None => sess' + Cardinality(posting') + Len(lines') <= written' + MaxLines
      BY <1>1, <1>2, <1>6, <2>4, <2>5, <3>1 DEF CountInv
    <3> QED BY <1>5, <1>9, <2>4, <3>2, <3>3 DEF CountInv
  <2>7. LifeInv'
    BY <1>0, <1>1, <1>3, <1>4, <1>6, <1>7, <2>1, <2>3 DEF LifeInv
  <2>8. posting' \subseteq Line \X (1 .. MaxLines)
    BY <1>2, <2>1, <2>2
  <2>9. TypeOK'
    BY <1>1, <1>2, <1>3, <1>4, <1>5, <2>1, <2>6, <2>8, TypesFollow
  <2> QED BY <2>6, <2>7, <2>9 DEF AgentInv
<1>8. CASE ~(client = "dm" /\ l.kind = "say")
  <2>1. Observe(l) /\ posting' = posting
    BY <1>0, <1>8 DEF ReadLine
  <2>2. /\ guard' \in Guards /\ killed' \in BOOLEAN
        /\ sess' = None <=> sess = None
        /\ sess # None => sess' \in Nat
        /\ sess # None =>
             sess' <= sess + 1 \/ sess' = FinalTurns(stream') \/ sess' <= MaxLines
    BY <1>1, <1>5, <2>1, ObserveTyped
  <2>4. CountInv'
    <3>1. Len(lines') = Len(lines) - 1 /\ written' = written /\ posting' = posting
      BY <1>1, <1>4, <2>1
    <3>2. Cardinality(posting') + Len(lines') <= written' /\ IsFiniteSet(posting')
      BY <1>1, <1>2, <1>6, <3>1 DEF CountInv
    <3>3. ASSUME sess' # None
          PROVE  sess' + Cardinality(posting') + Len(lines') <= written' + MaxLines
      <4>0. sess # None /\ sess \in Nat /\ sess' \in Nat
        BY <1>2, <2>2, <3>3
      <4>1. CASE sess' <= sess + 1
        BY <1>1, <1>2, <1>6, <3>1, <4>0, <4>1 DEF CountInv
      <4>2. CASE sess' <= MaxLines
        BY <1>1, <1>2, <3>1, <3>2, <4>0, <4>2
      <4> QED BY <1>9, <2>2, <4>0, <4>1, <4>2
    <3> QED BY <1>5, <1>9, <3>2, <3>3 DEF CountInv
  <2>5. LifeInv'
    BY <1>1, <1>3, <1>4, <1>6, <2>1, <2>2 DEF LifeInv
  <2>6. TypeOK'
    BY <1>1, <1>2, <1>3, <1>4, <1>5, <2>1, <2>2, <2>4, TypesFollow
  <2> QED BY <2>4, <2>5, <2>6 DEF AgentInv
<1> QED BY <1>7, <1>8

LEMMA PostReturnsKeepsInv == ASSUME AgentInv, PostReturns PROVE AgentInv'
<1>1. PICK p \in posting : posting' = posting \ {p} /\ Observe(p[1])
  BY DEF PostReturns
<1>2. /\ UNCHANGED <<fixedVars, childVars, result, report>>
      /\ written' = written /\ proc' = proc /\ lines' = lines /\ stream' = stream
      /\ posted' \in {posted, TRUE} /\ result' = result
  BY DEF PostReturns, childVars
<1>3. /\ stream \in Streams /\ written \in Nat /\ Cardinality(posting) \in Nat
      /\ lines \in Seq(Line) /\ Len(lines) \in Nat /\ IsFiniteSet(posting)
      /\ posting \subseteq Line \X (1 .. MaxLines) /\ (sess # None => sess \in Nat)
      /\ stream.begun \in Nat /\ stream.turns \in Nat /\ stream.messages \in Nat
  BY Typed DEF Streams
<1>4. CountInv /\ LifeInv /\ posted \in BOOLEAN
  BY DEF AgentInv, TypeOK, StreamOK
<1>5. p[1] \in Line /\ p[1].kind = "say"
  BY <1>3, <1>4 DEF LifeInv
<1>6. IsFiniteSet(posting') /\ Cardinality(posting') = Cardinality(posting) - 1
  BY <1>1, <1>3, FS_RemoveElement
<1>7. /\ guard' \in Guards /\ killed' \in BOOLEAN
      /\ sess' = None <=> sess = None
      /\ sess # None => sess' \in Nat /\ sess' = sess + 1
  <2>1. stream' \in Streams
    BY <1>2, <1>3
  <2> QED BY <1>1, <1>5, <2>1, ObserveTyped
<1>8. CountInv'
  <2>1. MaxLines \in Nat
    BY AgentAssumption
  <2>2. sess' # None => sess' + Cardinality(posting') + Len(lines') <= written' + MaxLines
    BY <1>2, <1>3, <1>4, <1>6, <1>7, <2>1 DEF CountInv
  <2>3. Cardinality(posting') + Len(lines') <= written'
    BY <1>2, <1>3, <1>4, <1>6 DEF CountInv
  <2> QED BY <1>2, <1>4, <1>6, <2>2, <2>3 DEF CountInv
<1>9. LifeInv'
  BY <1>1, <1>2, <1>4, <1>7 DEF LifeInv
<1>10. TypeOK'
  BY <1>1, <1>2, <1>3, <1>4, <1>7, <1>8, TypesFollow
<1> QED BY <1>8, <1>9, <1>10 DEF AgentInv

LEMMA InitHolds == Init => AgentInv
<1> SUFFICES ASSUME Init PROVE AgentInv
  OBVIOUS
<1>1. stream = [error |-> FALSE, output |-> FALSE, begun |-> 0, turns |-> 0,
                messages |-> 0, reported |-> 0]
      /\ guard = [armed |-> FALSE, stall |-> FALSE, sleep |-> FALSE, pm2 |-> FALSE,
                  timedOut |-> FALSE]
  BY Zenon DEF Init, NewStream, Quiet
<1>2. /\ client \in Clients /\ draining \in BOOLEAN /\ proc = "none" /\ written = 0
      /\ open = [seen |-> 0, hidden |-> 0] /\ lines = <<>> /\ posting = {}
      /\ sess = None /\ result.status = "pending" /\ report = None
  BY DEF Init
<1>0. slept \in BOOLEAN /\ posted \in BOOLEAN /\ killed \in BOOLEAN
  BY DEF Init
<1>3. MaxLines \in Nat /\ MaxShells \in Nat
  BY AgentAssumption
<1>4. ChildOK
  <2>1. open \in [seen : 0..MaxShells, hidden : 0..MaxShells]
    BY <1>2, <1>3
  <2>2. written \in 0 .. MaxLines /\ slept \in BOOLEAN
    BY <1>2, <1>3, <1>0
  <2> QED BY <1>2, <2>1, <2>2, Zenon DEF ChildOK
<1>5. StreamOK
  <2>1. lines \in Seq(Line) /\ posting \subseteq Line \X (1 .. MaxLines) /\ posted \in BOOLEAN
    BY <1>2, <1>0
  <2>2. stream \in [error : BOOLEAN, output : BOOLEAN, begun : 0..MaxLines,
                    turns : 0..MaxLines, messages : 0..MaxLines, reported : 0..MaxLines]
    BY <1>1, <1>3
  <2> QED BY <2>1, <2>2, Zenon DEF StreamOK
<1>6. AgentOK
  BY <1>1, <1>2, <1>0 DEF AgentOK
<1>7. ResultOK /\ ReportOK
  BY <1>2 DEF ResultOK, ReportOK
<1>8. CountInv
  <2>1. IsFiniteSet(posting) /\ Cardinality(posting) = 0
    BY <1>2, FS_EmptySet
  <2>2. stream.begun = 0 /\ stream.turns = 0 /\ stream.messages = 0 /\ stream.reported = 0
        /\ Len(lines) = 0
    BY <1>1, <1>2
  <2> QED BY <1>2, <1>3, <2>1, <2>2 DEF CountInv
<1>9. LifeInv
  BY <1>2 DEF LifeInv
<1> QED BY <1>2, <1>4, <1>5, <1>6, <1>7, <1>8, <1>9 DEF AgentInv, TypeOK

LEMMA ChildWritesKeepsInv ==
  ASSUME AgentInv, NEW l \in Line, ChildWrites(l) PROVE AgentInv'
<1>1. TypeOK /\ ChildOK /\ StreamOK /\ CountInv /\ LifeInv
  BY DEF AgentInv, TypeOK
<1>2. /\ lines \in Seq(Line) /\ Len(lines) \in Nat /\ written \in Nat /\ MaxLines \in Nat
      /\ Cardinality(posting) \in Nat /\ (sess # None => sess \in Nat)
      /\ stream.begun \in Nat /\ stream.turns \in Nat /\ stream.messages \in Nat
  BY Typed DEF Streams
<1>3. MaxShells \in Nat
  BY AgentAssumption
<1>4. open \in Opens
  BY Typed
<1>5. /\ UNCHANGED <<fixedVars, agentVars, result, report>>
      /\ proc' = proc /\ proc = "running" /\ posting' = posting /\ posted' = posted
      /\ stream' = stream /\ sess' = sess /\ result' = result
      /\ lines' = Append(lines, l) /\ written' = written + 1 /\ written < MaxLines
      /\ slept' = (slept \/ (l.kind \in {"shell", "blocks"} /\ l.cmd = "sleep"))
  BY DEF ChildWrites, agentVars
<1>6. lines' \in Seq(Line) /\ Len(lines') = Len(lines) + 1 /\ written' \in 0 .. MaxLines
      /\ slept' \in BOOLEAN
  BY <1>1, <1>2, <1>5 DEF ChildOK
<1>7. open' \in Opens
  <2>1. Starts(l) \/ Completes \/ open' = open
    BY DEF ChildWrites
  <2> QED BY <1>4, <2>1, CallsCounted
<1>8. ChildOK'
  BY <1>5, <1>6, <1>7 DEF ChildOK, Opens
<1>9. StreamOK'
  BY <1>1, <1>5, <1>6 DEF StreamOK
<1>10. CountInv'
  <2>1. Len(lines') <= written' /\ IsFiniteSet(posting')
    BY <1>1, <1>2, <1>5, <1>6 DEF CountInv
  <2>2. stream'.begun + Len(lines') <= written' /\ stream'.messages + Len(lines') <= written'
    BY <1>1, <1>2, <1>5, <1>6 DEF CountInv
  <2>3. /\ stream'.turns + Len(lines') <= written' /\ stream'.reported <= MaxLines
        /\ Cardinality(posting') + Len(lines') <= written'
    BY <1>1, <1>2, <1>5, <1>6 DEF CountInv
  <2>4. sess' # None => sess' + Cardinality(posting') + Len(lines') <= written' + MaxLines
    BY <1>1, <1>2, <1>5, <1>6 DEF CountInv
  <2> QED BY <2>1, <2>2, <2>3, <2>4 DEF CountInv
<1>11. LifeInv'
  BY <1>1, <1>5 DEF LifeInv
<1> QED BY <1>1, <1>5, <1>8, <1>9, <1>10, <1>11, Frames DEF AgentInv, TypeOK

(* The steps that leave the lines, the counters and the posts alone. *)
LEMMA CountsStay ==
  ASSUME CountInv, UNCHANGED <<written, lines, posting, stream>>, sess' \in {sess, None}
  PROVE  CountInv'
BY DEF CountInv

LEMMA SpawnKeepsInv == ASSUME AgentInv, Spawn PROVE AgentInv'
<1>1. /\ UNCHANGED <<fixedVars, streamVars, result, report>>
      /\ written' = written /\ open' = open /\ slept' = slept /\ guard' = guard /\ killed' = killed
      /\ lines' = lines /\ posting' = posting /\ stream' = stream /\ result' = result
      /\ proc = "none" /\ proc' = "running" /\ sess' = 0
  BY DEF Spawn, streamVars
<1>2. CountInv /\ LifeInv /\ TypeOK /\ ChildOK /\ AgentOK
  BY DEF AgentInv, TypeOK
<1>3. lines = <<>> /\ posting = {} /\ result.status = "pending"
  BY <1>1, <1>2 DEF LifeInv
<1>4. CountInv'
  <2>1. written \in Nat /\ Cardinality(posting) = 0 /\ Len(lines) = 0
    BY <1>3, Typed, FS_EmptySet
  <2>2. MaxLines \in Nat
    BY AgentAssumption
  <2>3. sess' + Cardinality(posting') + Len(lines') <= written' + MaxLines
    BY <1>1, <2>1, <2>2
  <2> QED BY <1>1, <1>2, <2>3 DEF CountInv
<1>5. LifeInv'
  BY <1>1, <1>2, <1>3, AgentAssumption DEF LifeInv
<1>6. ChildOK'
  BY <1>1, <1>2 DEF ChildOK
<1>7. AgentOK'
  BY <1>1, <1>2, AgentAssumption DEF AgentOK
<1> QED BY <1>1, <1>2, <1>4, <1>5, <1>6, <1>7, Frames DEF AgentInv, TypeOK

LEMMA ReportsKeepInv ==
  ASSUME AgentInv, SpawnRefused \/ Report \/ Reply PROVE AgentInv'
<1>1. UNCHANGED <<fixedVars, childVars, streamVars, agentVars, result>>
  BY DEF SpawnRefused, Report, Reply
<1>2. /\ written' = written /\ lines' = lines /\ posting' = posting /\ stream' = stream
      /\ sess' = sess /\ proc' = proc
  BY <1>1 DEF childVars, streamVars, agentVars
<1>3. report' \in [ok : BOOLEAN, exitCode : {0, 1, 124}]
                  \cup [reply : {"error", "timed out", "text", "none"}]
  <2>1. CASE SpawnRefused
    BY <2>1 DEF SpawnRefused
  <2>2. CASE Report
    <3>1. PICK ok \in BOOLEAN, exitCode \in {0, 1, 124} :
            report' = [ok |-> ok, exitCode |-> exitCode]
      BY <2>2 DEF Report, ExecutionOk
    <3> QED BY <3>1
  <2>3. CASE Reply
    <3>1. PICK reply \in {"error", "timed out", "text", "none"} : report' = [reply |-> reply]
      BY <2>3 DEF Reply
    <3> QED BY <3>1
  <2> QED BY <2>1, <2>2, <2>3
<1>4. CountInv'
  BY <1>2, CountsStay DEF AgentInv
<1>5. LifeInv'
  BY <1>1, <1>2 DEF AgentInv, LifeInv, childVars
<1>6. ReportOK'
  BY <1>3 DEF ReportOK
<1> QED BY <1>1, <1>4, <1>5, <1>6, Frames DEF AgentInv, TypeOK

LEMMA ChildExitsKeepsInv == ASSUME AgentInv, ChildExits PROVE AgentInv'
<1>1. /\ UNCHANGED <<fixedVars, streamVars, agentVars, result, report>>
      /\ written' = written /\ open' = open /\ slept' = slept
      /\ proc = "running" /\ proc' \in {"done", "dead"}
  BY DEF ChildExits
<1>2. lines' = lines /\ posting' = posting /\ stream' = stream /\ sess' = sess
  BY <1>1 DEF streamVars, agentVars
<1>3. CountInv'
  BY <1>1, <1>2, CountsStay DEF AgentInv
<1>4. LifeInv'
  BY <1>1, <1>2 DEF AgentInv, LifeInv
<1>5. ChildOK'
  BY <1>1 DEF AgentInv, TypeOK, ChildOK
<1> QED BY <1>1, <1>3, <1>4, <1>5, Frames DEF AgentInv, TypeOK

LEMMA TimersKeepInv ==
  ASSUME AgentInv, StallFires \/ DurationFires PROVE AgentInv'
<1>1. /\ UNCHANGED <<fixedVars, childVars, streamVars, sess, result, report>>
      /\ killed' = (killed \/ proc = "running")
  BY Zenon DEF StallFires, DurationFires, Interrupt
<1>2. guard' \in Guards
  <2>1. \/ guard' = [guard EXCEPT !.armed = FALSE, !.stall = TRUE]
        \/ guard' = [guard EXCEPT !.timedOut = TRUE]
    BY Zenon DEF StallFires, DurationFires
  <2>2. guard \in Guards
    BY Typed
  <2> QED BY <2>1, <2>2, GuardSteps, Zenon
<1>3. /\ written' = written /\ lines' = lines /\ posting' = posting /\ stream' = stream
      /\ proc' = proc
  BY <1>1 DEF childVars, streamVars
<1>4. CountInv'
  BY <1>1, <1>3, CountsStay DEF AgentInv
<1>5. LifeInv'
  BY <1>1, <1>3 DEF AgentInv, LifeInv, childVars
<1>6. AgentOK'
  <2>1. killed' \in BOOLEAN
    BY <1>1
  <2>2. AgentOK /\ sess' = sess
    BY <1>1 DEF AgentInv, TypeOK
  <2> QED BY <1>2, <2>1, <2>2, Zenon DEF AgentOK, Guards
<1> QED BY <1>1, <1>4, <1>5, <1>6, Frames DEF AgentInv, TypeOK

LEMMA SettleKeepsInv == ASSUME AgentInv, Settle PROVE AgentInv'
<1>1. /\ UNCHANGED <<fixedVars, childVars, streamVars, report>>
      /\ sess' = None /\ killed' = killed
      /\ proc \in {"done", "dead"} /\ lines = <<>> /\ result.status = "pending"
  BY Zenon DEF Settle, Settled
<1>2. guard' \in Guards
  <2>1. guard' = [guard EXCEPT !.armed = FALSE]
    BY Zenon DEF Settle, Settled
  <2> QED BY <2>1, Typed, GuardSteps, Zenon
<1>3. sess \in 0 .. 2 * MaxLines
  BY <1>1 DEF AgentInv, TypeOK, AgentOK, LifeInv
<1>4. FinalTurns(stream) \in 0 .. MaxLines
  BY DEF AgentInv, TypeOK, StreamOK, FinalTurns
<1>5. PICK turns \in 0 .. 2 * MaxLines, ok \in BOOLEAN :
        \/ result' = [status |-> "rejected"]
        \/ result' = [status |-> "resolved", ok |-> ok, turns |-> turns, guard |-> guard]
  <2> DEFINE turns == IF FinalTurns(stream) > 0 THEN FinalTurns(stream) ELSE sess
             ok == ~stream.error
  <2>0. MaxLines \in Nat
    BY AgentAssumption
  <2>1. turns \in 0 .. 2 * MaxLines /\ ok \in BOOLEAN
    BY <1>3, <1>4, <2>0
  <2>2. \/ result' = [status |-> "rejected"]
        \/ result' = [status |-> "resolved", ok |-> ok, turns |-> turns, guard |-> guard]
    BY Zenon DEF Settle, Settled
  <2> HIDE DEF turns, ok
  <2> QED BY <2>1, <2>2, Zenon
<1>6. ResultOK' /\ result'.status # "pending"
  BY <1>5 DEF ResultOK
<1>7. /\ written' = written /\ lines' = lines /\ posting' = posting /\ stream' = stream
      /\ proc' = proc
  BY <1>1 DEF childVars, streamVars
<1>8. CountInv'
  BY <1>1, <1>7, CountsStay DEF AgentInv
<1>9. LifeInv'
  BY <1>1, <1>6, <1>7 DEF AgentInv, LifeInv
<1>10. AgentOK'
  <2>1. AgentOK
    BY DEF AgentInv, TypeOK
  <2> QED BY <1>1, <1>2, <2>1, Zenon DEF AgentOK, Guards
<1> QED BY <1>1, <1>6, <1>8, <1>9, <1>10, Frames DEF AgentInv, TypeOK

(* Every step keeps the types and the counts. *)
LEMMA StepKeepsInv == AgentInv /\ [Next]_vars => AgentInv'
<1> SUFFICES ASSUME AgentInv, [Next]_vars PROVE AgentInv'
  OBVIOUS
<1>1. CASE Next
  BY <1>1, SpawnKeepsInv, ReportsKeepInv, ReadLineKeepsInv, PostReturnsKeepsInv,
     TimersKeepInv, SettleKeepsInv, ChildExitsKeepsInv, ChildWritesKeepsInv
  DEF Next, SchedulerNext
<1>2. CASE UNCHANGED vars
  <2>1. UNCHANGED <<fixedVars, childVars, streamVars, agentVars, result, report>>
    BY <1>2 DEF vars
  <2>2. TypeOK'
    BY <2>1, Frames DEF AgentInv, TypeOK
  <2>3. CountInv' /\ LifeInv'
    BY <2>1 DEF childVars, streamVars, agentVars, AgentInv, CountInv, LifeInv
  <2> QED BY <2>2, <2>3 DEF AgentInv
<1> QED BY <1>1, <1>2

LEMMA InvHolds == Spec => []AgentInv
<1> QED BY InitHolds, StepKeepsInv, PTL DEF Spec

(* AgentSession: the types hold for any number of lines and shell calls.  In *)
(* particular the registry's turns stay within what was reported and         *)
(* written, although it adds a turn for a message whose post returns after   *)
(* later lines, once a result has set the count.                             *)
THEOREM TypesHold == Spec => []TypeOK
<1> QED BY InvHolds, PTL DEF AgentInv

(* What the guards say after a line: no finding is taken back, a long sleep *)
(* is one, and whoever interrupts has found something.                      *)
LEMMA ObserveFinds ==
  ASSUME NEW l \in Line, Observe(l), guard \in Guards
  PROVE  /\ guard'.armed = StallArmed(guard, l)
         /\ guard'.stall = guard.stall /\ guard'.timedOut = guard.timedOut
         /\ guard.sleep => guard'.sleep
         /\ SleepViolation(l) => guard'.sleep
         /\ guard.pm2 => guard'.pm2
         /\ killed' => killed \/ guard'.sleep \/ guard'.pm2
<1> DEFINE sleep == guard.sleep \/ SleepViolation(l)
           pm2 == guard.pm2 \/ Pm2Violation(l)
           armed == StallArmed(guard, l)
<1>1. guard' = [armed |-> armed, stall |-> guard.stall, sleep |-> sleep, pm2 |-> pm2,
                timedOut |-> guard.timedOut]
  BY Zenon DEF Observe
<1>2. sleep \in BOOLEAN /\ pm2 \in BOOLEAN /\ armed \in BOOLEAN
  BY DEF Guards, StallArmed
<1> HIDE DEF sleep, pm2, armed
<1>3. /\ guard'.armed = armed /\ guard'.stall = guard.stall /\ guard'.sleep = sleep
      /\ guard'.pm2 = pm2 /\ guard'.timedOut = guard.timedOut
  BY <1>1
<1>4. killed' = killed \/ guard'.sleep # guard.sleep \/ guard'.pm2 # guard.pm2
  BY Zenon DEF Observe
<1>5. killed' => killed \/ guard'.sleep \/ guard'.pm2
  <2>1. guard.sleep \in BOOLEAN /\ guard.pm2 \in BOOLEAN
    BY DEF Guards
  <2> QED BY <1>2, <1>3, <1>4, <2>1 DEF sleep, pm2
<1> QED BY <1>3, <1>5 DEF sleep, pm2, armed

LEMMA InitOfJob == Init => JobInv /\ StallInv
<1> SUFFICES ASSUME Init PROVE JobInv /\ StallInv
  OBVIOUS
<1>1. /\ posting = {} /\ ~slept /\ ~killed /\ result.status = "pending" /\ report = None
      /\ lines = <<>>
  BY DEF Init
<1>2. ~guard.armed /\ ~guard.stall
  BY DEF Init, Quiet
<1> QED BY <1>1, <1>2 DEF JobInv, StallInv

(* The named parts of what a job keeps, for the steps that touch some. *)
LEMMA JobReadLine == ASSUME AgentInv, JobInv, ReadLine PROVE JobInv'
<1> SUFFICES ASSUME client = "job" PROVE JobInv'
  <2>1. client' = client
    BY DEF ReadLine, fixedVars
  <2> QED BY <2>1 DEF JobInv
<1>1. Head(lines) \in Line /\ lines \in Seq(Line) /\ lines # <<>> /\ guard \in Guards
      /\ lines' = Tail(lines)
  BY Typed DEF ReadLine
<1>0. PICK l \in Line : l = Head(lines)
  BY <1>1
<1>2. Observe(l) /\ posting' = posting
  BY <1>0 DEF ReadLine
<1>3. UNCHANGED <<client, slept, result, report>>
  BY DEF ReadLine, fixedVars, childVars
<1>4. result.status = "pending" /\ result'.status = "pending"
  BY <1>1, <1>3 DEF AgentInv, LifeInv, TypeOK, ResultOK
<1>5. slept' => guard'.sleep \/ \E i \in DOMAIN lines' : SleepViolation(lines'[i])
  <2> SUFFICES ASSUME slept, ~guard.sleep, ~SleepViolation(Head(lines))
               PROVE  \E i \in DOMAIN Tail(lines) : SleepViolation(Tail(lines)[i])
    BY <1>0, <1>1, <1>2, <1>3, ObserveFinds, Zenon
  <2>1. PICK i \in DOMAIN lines : SleepViolation(lines[i])
    BY DEF JobInv
  <2>2. i # 1
    BY <1>1, <2>1
  <2>3. i - 1 \in DOMAIN Tail(lines) /\ Tail(lines)[i - 1] = lines[i]
    BY <1>1, <2>2
  <2> QED BY <2>1, <2>3
<1>6. killed' => guard'.stall \/ guard'.sleep \/ guard'.pm2 \/ guard'.timedOut
  <2>1. /\ guard'.stall = guard.stall /\ guard'.timedOut = guard.timedOut
        /\ guard.sleep => guard'.sleep
        /\ guard.pm2 => guard'.pm2
        /\ killed' => killed \/ guard'.sleep \/ guard'.pm2
    BY <1>1, <1>2, ObserveFinds
  <2> QED BY <2>1 DEF JobInv
<1> QED BY <1>2, <1>3, <1>4, <1>5, <1>6, Zenon DEF JobInv

LEMMA JobChildWrites ==
  ASSUME AgentInv, JobInv, NEW l \in Line, ChildWrites(l) PROVE JobInv'
<1>1. /\ UNCHANGED <<client, posting, guard, killed, result, report>>
      /\ lines' = Append(lines, l)
      /\ slept' = (slept \/ (l.kind \in {"shell", "blocks"} /\ l.cmd = "sleep"))
      /\ proc = "running" /\ lines \in Seq(Line)
  BY Typed DEF ChildWrites, fixedVars, agentVars
<1>2. client = "job" /\ slept' => guard.sleep \/ \E i \in DOMAIN lines' : SleepViolation(lines'[i])
  <2>1. CASE slept
    <3>1. \A i \in DOMAIN lines : i \in DOMAIN lines' /\ lines'[i] = lines[i]
      BY <1>1
    <3> QED BY <2>1, <3>1 DEF JobInv
  <2>2. CASE l.kind \in {"shell", "blocks"} /\ l.cmd = "sleep"
    <3>1. Len(lines) + 1 \in DOMAIN lines' /\ lines'[Len(lines) + 1] = l
      BY <1>1
    <3> QED BY <2>2, <3>1 DEF SleepViolation
  <2> QED BY <1>1, <2>1, <2>2
<1>3. result'.status = "pending"
  BY <1>1 DEF AgentInv, LifeInv
<1> QED BY <1>1, <1>2, <1>3, Zenon DEF JobInv

(* The timers: each leaves its reason on the guards. *)
LEMMA TimersFind ==
  ASSUME NEW g \in Guards
  PROVE  /\ [g EXCEPT !.timedOut = TRUE].timedOut
         /\ [g EXCEPT !.armed = FALSE, !.stall = TRUE].stall
         /\ [g EXCEPT !.timedOut = TRUE].sleep = g.sleep
         /\ [g EXCEPT !.timedOut = TRUE].armed = g.armed
         /\ [g EXCEPT !.timedOut = TRUE].stall = g.stall
         /\ [g EXCEPT !.armed = FALSE, !.stall = TRUE].sleep = g.sleep
         /\ ~[g EXCEPT !.armed = FALSE].armed
         /\ [g EXCEPT !.armed = FALSE].stall = g.stall
         /\ [g EXCEPT !.armed = FALSE].sleep = g.sleep
         /\ [g EXCEPT !.armed = FALSE].pm2 = g.pm2
         /\ [g EXCEPT !.armed = FALSE].timedOut = g.timedOut
BY DEF Guards

LEMMA JobTimers ==
  ASSUME AgentInv, JobInv, StallFires \/ DurationFires PROVE JobInv'
<1> SUFFICES ASSUME client = "job" PROVE JobInv'
  <2>1. client' = client
    BY DEF StallFires, DurationFires, fixedVars
  <2> QED BY <2>1 DEF JobInv
<1>1. guard \in Guards
  BY Typed
<1>2. /\ posting' = posting /\ slept' = slept /\ lines' = lines
      /\ result' = result /\ report' = report
  BY DEF StallFires, DurationFires, childVars, streamVars
<1>3. result.status = "pending"
  BY Zenon DEF StallFires, DurationFires, JobInv
<1>4. guard'.sleep = guard.sleep /\ (guard'.stall \/ guard'.timedOut)
  <2>1. \/ guard' = [guard EXCEPT !.armed = FALSE, !.stall = TRUE]
        \/ guard' = [guard EXCEPT !.timedOut = TRUE]
    BY Zenon DEF StallFires, DurationFires
  <2>2. CASE guard' = [guard EXCEPT !.armed = FALSE, !.stall = TRUE]
    BY <1>1, <2>2, TimersFind, Zenon
  <2>3. CASE guard' = [guard EXCEPT !.timedOut = TRUE]
    BY <1>1, <2>3, TimersFind, Zenon
  <2> QED BY <2>1, <2>2, <2>3, Zenon
<1> QED BY <1>2, <1>3, <1>4, Zenon DEF JobInv

LEMMA JobSettle == ASSUME AgentInv, JobInv, Settle PROVE JobInv'
<1> SUFFICES ASSUME client = "job" PROVE JobInv'
  <2>1. client' = client
    BY DEF Settle, Settled, fixedVars
  <2> QED BY <2>1 DEF JobInv
<1>1. guard \in Guards /\ guard' = [guard EXCEPT !.armed = FALSE]
  BY Typed, Zenon DEF Settle, Settled
<1>2. /\ ~guard'.armed /\ guard'.stall = guard.stall /\ guard'.sleep = guard.sleep
      /\ guard'.pm2 = guard.pm2 /\ guard'.timedOut = guard.timedOut
  BY <1>1, TimersFind, Zenon
<1>3. /\ posting' = posting /\ slept' = slept /\ lines' = lines
      /\ killed' = killed /\ report' = report /\ result.status = "pending"
  BY Zenon DEF Settle, Settled, childVars, streamVars
<1>4. \/ result' = [status |-> "rejected"]
      \/ result' = [status |-> "resolved", ok |-> ~stream.error,
                    turns |-> IF FinalTurns(stream) > 0 THEN FinalTurns(stream) ELSE sess,
                    guard |-> guard]
  BY Zenon DEF Settle, Settled
<1>5. result'.status = "resolved" => result'.guard = guard
  BY <1>4
<1>6. ~(report # None /\ report.ok)
  BY <1>3 DEF JobInv
<1> QED BY <1>2, <1>3, <1>5, <1>6, Zenon DEF JobInv

LEMMA JobReports ==
  ASSUME AgentInv, JobInv, SpawnRefused \/ Report \/ Reply PROVE JobInv'
<1>1. UNCHANGED <<client, posting, slept, lines, killed, guard, result>>
  BY DEF SpawnRefused, Report, Reply, fixedVars, childVars, streamVars, agentVars
<1>2. client = "job" /\ report'.ok => result.status = "resolved" /\ ExecutionOk(result)
  <2> SUFFICES ASSUME client = "job", report'.ok
               PROVE  result.status = "resolved" /\ ExecutionOk(result)
    OBVIOUS
  <2>1. ~Reply
    BY DEF Reply
  <2>2. CASE SpawnRefused
    BY <2>2 DEF SpawnRefused
  <2>3. CASE Report
    <3>1. result.status \in {"pending", "rejected", "resolved"}
      BY DEF AgentInv, TypeOK, ResultOK
    <3>2. CASE report' = [ok |-> FALSE, exitCode |-> 1]
      BY <3>2
    <3>3. ASSUME NEW n, report' = [ok |-> ExecutionOk(result), exitCode |-> n]
          PROVE  ExecutionOk(result)
      <4>1. report'.ok = ExecutionOk(result)
        BY <3>3
      <4> QED BY <4>1, Zenon
    <3> QED BY <2>3, <3>1, <3>2, <3>3, Zenon DEF Report
  <2> QED BY <2>1, <2>2, <2>3
<1> QED BY <1>1, <1>2, Zenon DEF JobInv

LEMMA JobStep == AgentInv /\ JobInv /\ [Next]_vars => JobInv'
<1> SUFFICES ASSUME AgentInv, JobInv, [Next]_vars PROVE JobInv'
  OBVIOUS
<1>1. CASE Spawn
  BY <1>1, Zenon DEF Spawn, fixedVars, streamVars, JobInv
<1>2. CASE ChildExits
  BY <1>2, Zenon DEF ChildExits, fixedVars, streamVars, agentVars, JobInv
<1>3. CASE PostReturns
  <2>1. posting # {} /\ client' = client
    BY <1>3 DEF PostReturns, fixedVars
  <2> QED BY <2>1 DEF JobInv
<1>4. CASE UNCHANGED vars
  BY <1>4, Zenon DEF vars, fixedVars, childVars, streamVars, agentVars, JobInv
<1> QED BY <1>1, <1>2, <1>3, <1>4, JobReadLine, JobChildWrites, JobTimers, JobSettle, JobReports
        DEF Next, SchedulerNext

LEMMA JobInvHolds == Spec => []JobInv
<1> QED BY InvHolds, InitOfJob, JobStep, PTL DEF Spec

(* executor.ts, against every order of the line handler, the timers, the    *)
(* exit and the report: an execution reported as a success was interrupted  *)
(* by no guard but pm2's, and its agent started no long sleep that its line *)
(* shows, read or not.                                                      *)
THEOREM SuccessHolds == Spec => []SuccessMeansUnguarded
<1>1. AgentInv /\ JobInv => SuccessMeansUnguarded
  <2> SUFFICES ASSUME AgentInv, JobInv, client = "job", report # None, report.ok
               PROVE  ~slept /\ (killed => guard.pm2) /\ ~guard.stall /\ ~guard.timedOut
    BY DEF SuccessMeansUnguarded
  <2>1. result.status = "resolved" /\ ExecutionOk(result)
    BY DEF JobInv
  <2>2. lines = <<>>
    BY <2>1 DEF AgentInv, LifeInv
  <2>3. ~guard.stall /\ ~guard.sleep /\ ~guard.timedOut
    BY <2>1, Zenon DEF JobInv, ExecutionOk
  <2>4. ~slept
    <3>1. ~ \E i \in DOMAIN lines : SleepViolation(lines[i])
      BY <2>2
    <3> QED BY <2>3, <3>1 DEF JobInv
  <2> QED BY <2>3, <2>4 DEF JobInv
<1> QED BY InvHolds, JobInvHolds, <1>1, PTL

(* The lines left after one is read, with the calls they show. *)
LEMMA LinesLeft ==
  ASSUME lines \in Seq(Line), lines # <<>>, lines' = Tail(lines), open' = open, StallInv
  PROVE  /\ Ended /\ Head(lines).kind # "done" => Ended'
         /\ ShellCommand(Head(lines)) => open.seen > 0 \/ Ended'
         /\ \A i \in DOMAIN lines' :
              ShellCommand(lines'[i]) =>
                open'.seen > 0 \/ \E j \in DOMAIN lines' : j > i /\ lines'[j].kind = "done"
<1>1. /\ \A i \in DOMAIN lines' : i \in Nat /\ i + 1 \in DOMAIN lines /\ lines'[i] = lines[i + 1]
      /\ \A j \in DOMAIN lines :
           j \in Nat /\ (j > 1 => j - 1 \in DOMAIN lines' /\ lines'[j - 1] = lines[j])
      /\ 1 \in DOMAIN lines /\ Head(lines) = lines[1]
      /\ \A j \in DOMAIN lines : j # 1 => j > 1
  OBVIOUS
<1>2. ASSUME NEW i \in DOMAIN lines, NEW j \in DOMAIN lines, j > i, lines[j].kind = "done"
      PROVE  j - 1 \in DOMAIN lines' /\ lines'[j - 1].kind = "done"
  <2>1. j > 1
    BY <1>1, <1>2
  <2> QED BY <1>1, <1>2, <2>1
<1>3. Ended /\ Head(lines).kind # "done" => Ended'
  <2> SUFFICES ASSUME NEW j \in DOMAIN lines, lines[j].kind = "done", lines[1].kind # "done"
               PROVE  Ended'
    BY <1>1 DEF Ended
  <2>1. j > 1
    BY <1>1
  <2> QED BY <1>1, <1>2, <2>1 DEF Ended
<1>4. ShellCommand(Head(lines)) => open.seen > 0 \/ Ended'
  BY <1>1, <1>2 DEF StallInv, Ended
<1>5. ASSUME NEW i \in DOMAIN lines', ShellCommand(lines'[i]), ~(open'.seen > 0)
      PROVE  \E j \in DOMAIN lines' : j > i /\ lines'[j].kind = "done"
  <2>1. i + 1 \in DOMAIN lines /\ ShellCommand(lines[i + 1]) /\ i \in Nat
    BY <1>1, <1>5
  <2>2. PICK j \in DOMAIN lines : j > i + 1 /\ lines[j].kind = "done"
    BY <1>5, <2>1 DEF StallInv
  <2>3. j - 1 \in DOMAIN lines' /\ lines'[j - 1].kind = "done"
    BY <1>2, <2>1, <2>2
  <2>4. j - 1 > i
    BY <1>1, <2>1, <2>2
  <2> QED BY <2>3, <2>4
<1> QED BY <1>3, <1>4, <1>5

LEMMA StallReadLine == ASSUME AgentInv, StallInv, ReadLine PROVE StallInv'
<1>1. /\ lines \in Seq(Line) /\ lines # <<>> /\ lines' = Tail(lines) /\ open' = open
      /\ guard \in Guards /\ Head(lines) \in Line
  BY Typed DEF ReadLine, childVars
<1>0. PICK l \in Line : l = Head(lines)
  BY <1>1
<1>2. /\ Ended /\ l.kind # "done" => Ended'
      /\ ShellCommand(l) => open.seen > 0 \/ Ended'
      /\ \A i \in DOMAIN lines' :
           ShellCommand(lines'[i]) =>
             open'.seen > 0 \/ \E j \in DOMAIN lines' : j > i /\ lines'[j].kind = "done"
  BY <1>0, <1>1, LinesLeft
<1>3. CASE guard' = guard /\ l.kind = "say"
  BY <1>1, <1>2, <1>3, Zenon DEF StallInv
<1>4. CASE Observe(l)
  <2>1. guard'.armed = StallArmed(guard, l) /\ guard'.stall = guard.stall
    BY <1>1, <1>4, ObserveFinds
  <2>2. l.kind = "done" => MessageType(l) = "tool_call_completed"
    BY DEF MessageType, MessageTypeOf
  <2>3. guard'.armed => \/ guard.stall /\ guard.armed
                        \/ ShellCommand(l)
                        \/ guard.armed /\ l.kind # "done"
    BY <2>1, <2>2, Zenon DEF StallArmed
  <2>4. guard'.armed => open'.seen > 0 \/ Ended'
    BY <1>1, <1>2, <2>3, Zenon DEF StallInv
  <2>5. guard'.stall => ~guard'.armed
    BY <2>1, Zenon DEF StallInv, StallArmed
  <2> QED BY <1>2, <2>4, <2>5 DEF StallInv
<1> QED BY <1>0, <1>3, <1>4 DEF ReadLine

LEMMA StallChildWrites ==
  ASSUME AgentInv, StallInv, NEW l \in Line, ChildWrites(l) PROVE StallInv'
<1>1. lines \in Seq(Line) /\ lines' = Append(lines, l) /\ guard' = guard /\ open \in Opens
  BY Typed DEF ChildWrites, agentVars
<1>2. /\ \A i \in DOMAIN lines : i \in DOMAIN lines' /\ lines'[i] = lines[i]
      /\ Len(lines) + 1 \in DOMAIN lines' /\ lines'[Len(lines) + 1] = l
      /\ \A i \in DOMAIN lines' : i \in DOMAIN lines \/ i = Len(lines) + 1
      /\ \A i \in DOMAIN lines : Len(lines) + 1 > i
  BY <1>1
<1>3. Ended => Ended'
  BY <1>2 DEF Ended
<1>4. \/ open.seen > 0 /\ ~(open'.seen > 0) => l.kind = "done"
  <2>1. CASE Starts(l)
    BY <1>1, <2>1, CallsCounted
  <2> QED BY <2>1 DEF ChildWrites
<1>5. ShellCommand(l) => open'.seen > 0
  <2>1. ShellCommand(l) => Starts(l)
    BY DEF ChildWrites, ShellCommand
  <2> QED BY <1>1, <2>1, CallsCounted
<1>6. l.kind = "done" => Ended'
  BY <1>2 DEF Ended
<1>7. guard'.armed => open'.seen > 0 \/ Ended'
  BY <1>1, <1>3, <1>4, <1>6 DEF StallInv
<1>8. ASSUME NEW i \in DOMAIN lines', ShellCommand(lines'[i]), ~(open'.seen > 0)
      PROVE  \E j \in DOMAIN lines' : j > i /\ lines'[j].kind = "done"
  <2>1. i \in DOMAIN lines /\ ShellCommand(lines[i])
    BY <1>2, <1>5, <1>8
  <2>2. CASE open.seen > 0
    BY <1>2, <1>4, <1>8, <2>1, <2>2
  <2>3. CASE ~(open.seen > 0)
    <3>1. PICK j \in DOMAIN lines : j > i /\ lines[j].kind = "done"
      BY <2>1, <2>3 DEF StallInv
    <3> QED BY <1>2, <3>1
  <2> QED BY <2>2, <2>3
<1>9. guard'.stall => ~guard'.armed
  BY <1>1 DEF StallInv
<1> QED BY <1>7, <1>8, <1>9 DEF StallInv

(* The steps that start no timer. *)
LEMMA StallUnarmed ==
  ASSUME StallInv, lines' = lines, open' = open,
         \/ guard'.armed = guard.armed /\ guard'.stall = guard.stall
         \/ ~guard'.armed
  PROVE  StallInv'
BY DEF StallInv, Ended

(* The timer may fire at any moment, and a late post clears it: neither    *)
(* starts it.                                                               *)
LEMMA StallStep == AgentInv /\ StallInv /\ [Next]_vars => StallInv'
<1> SUFFICES ASSUME AgentInv, StallInv, [Next]_vars PROVE StallInv'
  OBVIOUS
<1>1. guard \in Guards
  BY Typed
<1>2. CASE PostReturns
  <2>1. PICK p \in posting : Observe(p[1])
    BY <1>2 DEF PostReturns
  <2>2. p[1] \in Line /\ p[1].kind = "say" /\ lines' = lines /\ open' = open
    BY <1>2, Typed DEF PostReturns, AgentInv, LifeInv, childVars
  <2>3. PICK l \in Line : l = p[1]
    BY <2>2
  <2>4. guard'.armed = StallArmed(guard, l) /\ guard'.stall = guard.stall
    BY <1>1, <2>1, <2>3, ObserveFinds
  <2>5. ~ShellCommand(l) /\ MessageType(l) = "assistant"
    BY <2>2, <2>3 DEF ShellCommand, MessageType, MessageTypeOf
  <2>6. ~guard'.armed
    BY <2>4, <2>5, Zenon DEF StallArmed, StallInv
  <2> QED BY <2>2, <2>6, StallUnarmed
<1>3. CASE StallFires
  <2>1. guard' = [guard EXCEPT !.armed = FALSE, !.stall = TRUE]
        /\ lines' = lines /\ open' = open
    BY <1>3, Zenon DEF StallFires, childVars, streamVars
  <2> QED BY <1>1, <2>1, StallUnarmed DEF Guards
<1>4. CASE DurationFires
  <2>1. guard' = [guard EXCEPT !.timedOut = TRUE] /\ lines' = lines /\ open' = open
    BY <1>4, Zenon DEF DurationFires, childVars, streamVars
  <2>2. guard'.stall = guard.stall /\ guard'.armed = guard.armed
    BY <1>1, <2>1, TimersFind, Zenon
  <2> QED BY <2>1, <2>2, StallUnarmed
<1>5. CASE Settle
  <2>1. guard' = [guard EXCEPT !.armed = FALSE] /\ lines' = lines /\ open' = open
    BY <1>5, Zenon DEF Settle, Settled, childVars, streamVars
  <2>2. ~guard'.armed
    BY <1>1, <2>1, TimersFind, Zenon
  <2> QED BY <2>1, <2>2, StallUnarmed
<1>6. CASE Spawn \/ SpawnRefused \/ Report \/ Reply \/ ChildExits \/ UNCHANGED vars
  <2>1. lines' = lines /\ open' = open /\ guard' = guard
    BY <1>6 DEF Spawn, SpawnRefused, Report, Reply, ChildExits, vars, childVars, streamVars,
       agentVars
  <2> QED BY <2>1, StallUnarmed
<1> QED BY <1>2, <1>3, <1>4, <1>5, <1>6, StallReadLine, StallChildWrites
        DEF Next, SchedulerNext

(* stall-guard.ts, with any number of shell calls open at once, messages,   *)
(* turns and errors between their lines, and posts that return late: no     *)
(* stall timer outlives the calls it was started for.                       *)
THEOREM StallTimerHolds == Spec => []StallTimerMeansOpenCall
<1>1. StallInv => StallTimerMeansOpenCall
  BY DEF StallInv, StallTimerMeansOpenCall, Ended
<1>2. Spec => []StallInv
  BY InvHolds, InitOfJob, StallStep, PTL DEF Spec
<1> QED BY <1>1, <1>2, PTL

-----------------------------------------------------------------------------
Shown == Outcome \cup {"working"}
Working(s) == phase[s] \in {"new", "live"}
Ops == {"create", "recreate", "persist", "repersist", "flush", "fallback",
        "finalise", "read", "note", "unpersist"}
Sent == [op : Ops, session : Sessions, ts : Nat, state : Shown]

(* Objects, keys and timers refer to one another as they should. *)
ObjectsOK ==
  /\ phase \in [Sessions -> {"new", "live", "result", "ended", "over"}]
  /\ lms \in Seq([session : Sessions, state : Shown])
  /\ shown \in Seq(Shown) /\ Len(shown) = Len(lms)
  /\ livingMessages \in [Threads -> Nat] /\ updateTimers \in [Threads -> Nat]
  /\ pendingUpdates \subseteq Threads
  /\ \A k \in Threads :
       /\ updateTimers[k] # 0 => updateTimers[k] \in 1 .. Len(lms)
       /\ livingMessages[k] # 0 =>
            /\ livingMessages[k] \in 1 .. Len(lms)
            /\ ThreadOf[lms[livingMessages[k]].session] = k

(* A call says of a session without a result only that it works. *)
CallOK(c) ==
  /\ c \in Sent
  /\ Working(c.session) => c.state = "working"
  /\ c.op \in {"flush", "finalise"} =>
       c.ts \in 1 .. Len(lms) /\ lms[c.ts].session = c.session

TextsOK ==
  /\ posts \subseteq Sessions \X Shown
  /\ \A i \in 1 .. Len(lms) :
       Working(lms[i].session) => lms[i].state = "working" /\ shown[i] = "working"
  /\ \A p \in posts : Working(p[1]) => p[2] = "working"

CallsABag == calls \in [DOMAIN calls -> Nat \ {0}]

LivingInv ==
  /\ ObjectsOK /\ TextsOK /\ CallsABag
  /\ \A c \in InFlight : CallOK(c)
  /\ DeferredUpdateHasTimer

LEMMA BagFacts ==
  ASSUME NEW B, B \in [DOMAIN B -> Nat \ {0}], NEW c
  PROVE  /\ B (+) SetToBag({c}) \in [DOMAIN B \cup {c} -> Nat \ {0}]
         /\ B (-) SetToBag({c}) \in [DOMAIN (B (-) SetToBag({c})) -> Nat \ {0}]
         /\ DOMAIN (B (-) SetToBag({c})) \subseteq DOMAIN B
         /\ DOMAIN B \ {c} \subseteq DOMAIN (B (-) SetToBag({c}))
<1>1. B (+) SetToBag({c}) \in [DOMAIN B \cup {c} -> Nat \ {0}]
  BY DEF (+), SetToBag
<1>. DEFINE F == [e \in DOMAIN B |-> IF e \in {c} THEN B[e] - 1 ELSE B[e]]
             D == {e \in DOMAIN B : F[e] > 0}
<1>2. B (-) SetToBag({c}) = [e \in D |-> F[e]]
  BY DEF (-), SetToBag
<1>3. \A e \in DOMAIN B : F[e] \in Int /\ (e # c => F[e] > 0)
  OBVIOUS
<1>. HIDE DEF F
<1>4. [e \in D |-> F[e]] \in [D -> Nat \ {0}] /\ D \subseteq DOMAIN B
      /\ DOMAIN B \ {c} \subseteq D
  BY <1>3
<1>. HIDE DEF D
<1>. QED BY <1>1, <1>2, <1>4

LEMMA IssueAdds ==
  ASSUME CallsABag, NEW d, Issue(d)
  PROVE  CallsABag' /\ InFlight' = InFlight \cup {d}
BY BagFacts DEF Issue, CallsABag, InFlight, BagToSet

LEMMA AnswerRemoves ==
  ASSUME CallsABag, NEW c, NEW d
  PROVE  /\ Answered(c) =>
              /\ CallsABag' /\ InFlight' \subseteq InFlight
              /\ InFlight \ {c} \subseteq InFlight'
         /\ Continue(c, d) =>
              /\ CallsABag' /\ InFlight' \subseteq InFlight \cup {d}
              /\ (InFlight \ {c}) \cup {d} \subseteq InFlight'
<1>. USE DEF CallsABag, InFlight, BagToSet
<1>1. ASSUME Answered(c)
      PROVE  /\ CallsABag' /\ InFlight' \subseteq InFlight
             /\ InFlight \ {c} \subseteq InFlight'
  BY <1>1, BagFacts DEF Answered
<1>2. ASSUME Continue(c, d)
      PROVE  /\ CallsABag' /\ InFlight' \subseteq InFlight \cup {d}
             /\ (InFlight \ {c}) \cup {d} \subseteq InFlight'
  <2>. DEFINE M == calls (-) SetToBag({c})
  <2>1. /\ M \in [DOMAIN M -> Nat \ {0}] /\ DOMAIN M \subseteq DOMAIN calls
        /\ DOMAIN calls \ {c} \subseteq DOMAIN M
    BY BagFacts
  <2>2. calls' = M (+) SetToBag({d})
    BY <1>2 DEF Continue
  <2>. HIDE DEF M
  <2>3. M (+) SetToBag({d}) \in [DOMAIN M \cup {d} -> Nat \ {0}]
    BY <2>1, BagFacts
  <2>. QED BY <2>1, <2>2, <2>3
<1>. QED BY <1>1, <1>2

(* What every step does: objects are added and keep their session, and no   *)
(* session goes back to work.                                               *)
Grows ==
  /\ Len(lms) \in Nat /\ Len(lms') \in Nat /\ Len(lms) <= Len(lms')
  /\ \A i \in 1 .. Len(lms) : lms'[i].session = lms[i].session
  /\ \A s \in Sessions : Working(s)' => Working(s)

LEMMA CallStaysOK ==
  ASSUME Grows, NEW c, CallOK(c)
  PROVE  CallOK(c)'
BY DEF Grows, CallOK, Sent, Working

LEMMA CallsStayOK ==
  ASSUME Grows, \A c \in InFlight : CallOK(c),
         NEW d, CallOK(d)' \/ InFlight' \subseteq InFlight, InFlight' \subseteq InFlight \cup {d}
  PROVE  \A c \in InFlight' : CallOK(c)'
BY CallStaysOK

(* A call that goes on as another about the same message. *)
LEMMA Relabelled ==
  ASSUME NEW c, CallOK(c),
         NEW op \in {"fallback", "note", "unpersist", "persist", "repersist"}
  PROVE  CallOK([c EXCEPT !.op = op])
<1>. DEFINE d == [c EXCEPT !.op = op]
<1>1. c \in Sent
  BY DEF CallOK
<1>2. op \in Ops
  BY DEF Ops
<1>3. d \in Sent
  BY <1>1, <1>2 DEF Sent
<1>4. d.op = op
  BY <1>1 DEF Sent
<1>5. d.session = c.session /\ d.state = c.state
  BY <1>1 DEF Sent
<1>. HIDE DEF d
<1>6. CallOK(d)
  BY <1>3, <1>4, <1>5 DEF CallOK
<1>. QED BY <1>6 DEF d

(* A step that leaves the memory of the bot alone. *)
MemoryKept == UNCHANGED <<phase, memoryVars>>

LEMMA QuietStep ==
  ASSUME LivingInv, MemoryKept,
         shown' \in Seq(Shown), Len(shown') = Len(shown), TextsOK',
         CallsABag',
         NEW c, c.op # "finalise", InFlight \ {c} \subseteq InFlight',
         NEW d, InFlight' \subseteq InFlight \cup {d}, CallOK(d) \/ InFlight' \subseteq InFlight
  PROVE  LivingInv'
<1>. USE DEF MemoryKept, memoryVars
<1>1. ObjectsOK'
  BY DEF LivingInv, ObjectsOK
<1>2. Grows
  BY DEF Grows, Working, LivingInv, ObjectsOK
<1>3. CallOK(d) => CallOK(d)'
  BY <1>2, CallStaysOK
<1>4. \A e \in InFlight' : CallOK(e)'
  BY <1>2, <1>3, CallsStayOK DEF LivingInv
<1>5. DeferredUpdateHasTimer'
  BY DEF LivingInv, DeferredUpdateHasTimer
<1>. QED BY <1>1, <1>4, <1>5 DEF LivingInv

(* The answers that only show a text, post one, or touch the disk. *)
LEMMA AnswerKeeps ==
  ASSUME LivingInv, NEW c \in InFlight, Answer(c), ~Created(c), ~Finalised(c),
         ~Updated(c)
  PROVE  LivingInv'
<1>1. CallOK(c) /\ CallsABag
  BY DEF LivingInv
<1>2. c.op # "finalise" /\ MemoryKept
  BY DEF Answer, CreateFails, persistLivingMessage, UpdateFails, FallbackPosted, addWatcher,
         readPersistedLivingMessages, FinalisedFromDisk, unpersistLivingMessage, MemoryKept, sessionVars,
         memoryVars
<1>3. \/ Answered(c)
      \/ \E op \in {"fallback", "note", "unpersist"} : Continue(c, [c EXCEPT !.op = op])
  BY DEF Answer, CreateFails, persistLivingMessage, UpdateFails, FallbackPosted,
         readPersistedLivingMessages, FinalisedFromDisk, unpersistLivingMessage
<1>4. PICK op \in {"fallback", "note", "unpersist"} :
         Answered(c) \/ Continue(c, [c EXCEPT !.op = op])
  BY <1>3
<1>. DEFINE d == [c EXCEPT !.op = op]
<1>5. CallOK(d)
  BY <1>1, Relabelled
<1>. HIDE DEF d
<1>6. /\ CallsABag' /\ InFlight \ {c} \subseteq InFlight' 
      /\ InFlight' \subseteq InFlight \cup {d}
  BY <1>1, <1>4, AnswerRemoves DEF d
<1>7. \/ shown' = shown 
      \/ c.op = "flush" /\ shown' = [shown EXCEPT ![c.ts] = c.state]
  BY DEF Answer, CreateFails, persistLivingMessage, UpdateFails, FallbackPosted, addWatcher,
         readPersistedLivingMessages, FinalisedFromDisk, unpersistLivingMessage
<1>8. \/ posts' = posts \/ posts' = posts \cup {<<c.session, c.state>>}
      \/ posts' = posts \cup {<<c.session, "working">>}
  BY DEF Answer, CreateFails, persistLivingMessage, UpdateFails, FallbackPosted, addWatcher,
         readPersistedLivingMessages, FinalisedFromDisk, unpersistLivingMessage
<1>9. shown' \in Seq(Shown) /\ Len(shown') = Len(shown)
  BY <1>1, <1>7, ExceptSeq DEF LivingInv, ObjectsOK, CallOK, Sent
<1>10. TextsOK'
  <2>1. c.session \in Sessions /\ c.state \in Shown /\ "working" \in Shown
    BY <1>1 DEF CallOK, Sent, Shown
  <2>2. posts' \subseteq Sessions \X Shown
    BY <1>8, <2>1 DEF LivingInv, TextsOK
  <2>3. \A p \in posts' : Working(p[1]) => p[2] = "working"
    BY <1>1, <1>8 DEF LivingInv, TextsOK, CallOK
  <2>4. \A i \in 1 .. Len(lms) :
          Working(lms[i].session) => lms[i].state = "working" /\ shown'[i] = "working"
    BY <1>1, <1>7 DEF LivingInv, ObjectsOK, TextsOK, CallOK
  <2>. QED BY <1>2, <2>2, <2>3, <2>4 DEF TextsOK, MemoryKept, memoryVars, Working
<1>. QED BY <1>2, <1>5, <1>6, <1>9, <1>10, QuietStep

LEMMA UpdatedKeeps ==
  ASSUME LivingInv, NEW c \in InFlight, Updated(c)
  PROVE  LivingInv'
<1>1. /\ CallOK(c) /\ CallsABag /\ c.op = "flush"
      /\ UNCHANGED <<phase, lms, livingMessages, pendingUpdates, updateTimers, posts>>
      /\ shown' = [shown EXCEPT ![c.ts] = c.state] /\ Answered(c)
  BY DEF LivingInv, Updated, sessionVars
<1>2. shown' \in Seq(Shown) /\ Len(shown') = Len(shown)
  BY <1>1, ExceptSeq DEF LivingInv, ObjectsOK, CallOK, Sent
<1>3. CallsABag' /\ InFlight' \subseteq InFlight /\ InFlight \ {c} \subseteq InFlight'
  BY <1>1, AnswerRemoves
<1>4. ObjectsOK'
  BY <1>1, <1>2 DEF LivingInv, ObjectsOK
<1>5. TextsOK'
  BY <1>1 DEF LivingInv, ObjectsOK, TextsOK, CallOK, Sent, Working
<1>6. Grows
  BY <1>1 DEF Grows, Working, LivingInv, ObjectsOK
<1>7. \A e \in InFlight' : CallOK(e)'
  BY <1>3, <1>6, CallStaysOK DEF LivingInv
<1>8. DeferredUpdateHasTimer'
  BY <1>1, <1>3 DEF LivingInv, DeferredUpdateHasTimer
<1>. QED BY <1>3, <1>4, <1>5, <1>7, <1>8 DEF LivingInv

LEMMA CreatedKeeps ==
  ASSUME LivingInv, NEW c \in InFlight, Created(c)
  PROVE  LivingInv'
<1>. DEFINE lm == [session |-> c.session, state |-> "working"]
<1>1. /\ CallOK(c) /\ CallsABag /\ c.op \in {"create", "recreate"}
      /\ UNCHANGED <<phase, pendingUpdates, updateTimers, posts>>
      /\ lms' = Append(lms, lm) /\ shown' = Append(shown, "working")
      /\ livingMessages' = [livingMessages EXCEPT ![ThreadOf[c.session]] = Len(lms) + 1]
  BY DEF LivingInv, Created
<1>2. \/ Answered(c)
      \/ \E op \in {"persist", "repersist"} : Continue(c, [c EXCEPT !.op = op])
  BY DEF Created
<1>3. PICK op \in {"persist", "repersist"} : Answered(c) \/ Continue(c, [c EXCEPT !.op = op])
  BY <1>2
<1>. DEFINE d == [c EXCEPT !.op = op]
<1>4. CallOK(d)
  BY <1>1, Relabelled
<1>. HIDE DEF d
<1>5. /\ CallsABag' /\ InFlight \ {c} \subseteq InFlight'
      /\ InFlight' \subseteq InFlight \cup {d}
  BY <1>1, <1>3, AnswerRemoves DEF d
<1>6. /\ lm \in [session : Sessions, state : Shown]
      /\ lms \in Seq([session : Sessions, state : Shown]) /\ shown \in Seq(Shown)
      /\ Len(shown) = Len(lms)
  BY <1>1 DEF LivingInv, ObjectsOK, CallOK, Sent, Shown
<1>7. /\ lms' \in Seq([session : Sessions, state : Shown]) /\ Len(lms') = Len(lms) + 1
      /\ \A i \in 1 .. Len(lms) : lms'[i] = lms[i]
      /\ lms'[Len(lms) + 1] = lm
  BY <1>1, <1>6
<1>8. /\ shown' \in Seq(Shown) /\ Len(shown') = Len(shown) + 1
      /\ \A i \in 1 .. Len(shown) : shown'[i] = shown[i]
      /\ shown'[Len(shown) + 1] = "working"
  BY <1>1, <1>6 DEF Shown
<1>9. ObjectsOK'
  <2>1. \A k \in Threads : livingMessages'[k] # 0 =>
            /\ livingMessages'[k] \in 1 .. Len(lms')
            /\ ThreadOf[lms'[livingMessages'[k]].session] = k
    BY <1>1, <1>6, <1>7, LivingAssumption DEF LivingInv, ObjectsOK
  <2>2. \A k \in Threads : updateTimers'[k] # 0 => updateTimers'[k] \in 1 .. Len(lms')
    BY <1>1, <1>6, <1>7 DEF LivingInv, ObjectsOK
  <2>3. livingMessages' \in [Threads -> Nat]
    <3>1. livingMessages \in [Threads -> Nat]
      BY DEF LivingInv, ObjectsOK
    <3>2. Len(lms) + 1 \in Nat
      BY <1>6
    <3>. QED BY <1>1, <3>1, <3>2
  <2>. QED BY <1>1, <1>6, <1>7, <1>8, <2>1, <2>2, <2>3 DEF LivingInv, ObjectsOK
<1>10. TextsOK'
  BY <1>1, <1>6, <1>7, <1>8 DEF LivingInv, TextsOK, Working
<1>11. Grows
  BY <1>1, <1>6, <1>7 DEF Grows, Working
<1>12. \A e \in InFlight' : CallOK(e)'
  BY <1>4, <1>5, <1>11, CallStaysOK DEF LivingInv
<1>13. DeferredUpdateHasTimer'
  BY <1>1, <1>5 DEF LivingInv, DeferredUpdateHasTimer
<1>. QED BY <1>5, <1>9, <1>10, <1>12, <1>13 DEF LivingInv

LEMMA FinalisedKeeps ==
  ASSUME LivingInv, NEW c \in InFlight, Finalised(c)
  PROVE  LivingInv'
<1>. DEFINE k == ThreadOf[c.session]
            d == [c EXCEPT !.op = "unpersist"]
<1>1. /\ CallOK(c) /\ CallsABag /\ c.op = "finalise"
      /\ UNCHANGED <<phase, lms, updateTimers, posts>>
      /\ shown' \in {shown, [shown EXCEPT ![c.ts] = c.state]}
      /\ livingMessages' = [livingMessages EXCEPT ![k] = 0]
      /\ pendingUpdates' = pendingUpdates \ {k}
      /\ (Answered(c) \/ Continue(c, d))
  BY DEF LivingInv, Finalised, sessionVars
<1>2. CallOK(d)
  BY <1>1, Relabelled
<1>. HIDE DEF d
<1>3. /\ CallsABag' /\ InFlight \ {c} \subseteq InFlight'
      /\ InFlight' \subseteq InFlight \cup {d}
  BY <1>1, AnswerRemoves
<1>4. shown' \in Seq(Shown) /\ Len(shown') = Len(shown)
  <2>1. shown \in Seq(Shown) /\ c.ts \in 1 .. Len(shown) /\ c.state \in Shown
    BY <1>1 DEF LivingInv, ObjectsOK, CallOK, Sent
  <2>. QED BY <1>1, <2>1, ExceptSeq
<1>5. ObjectsOK'
  BY <1>1, <1>4 DEF LivingInv, ObjectsOK
<1>6. TextsOK'
  BY <1>1 DEF LivingInv, ObjectsOK, TextsOK, CallOK, Sent, Working
<1>7. Grows
  BY <1>1 DEF Grows, Working, LivingInv, ObjectsOK
<1>8. \A e \in InFlight' : CallOK(e)'
  BY <1>2, <1>3, <1>7, CallStaysOK DEF LivingInv
<1>9. DeferredUpdateHasTimer'
  BY <1>1, <1>3 DEF LivingInv, DeferredUpdateHasTimer
<1>. QED BY <1>3, <1>5, <1>6, <1>8, <1>9 DEF LivingInv

(* Steps of a session that send one call, or none, and leave the memory of  *)
(* the bot alone.                                                           *)
LEMMA SpeaksKeeps ==
  ASSUME LivingInv, NEW s \in Sessions,
         StartSession(s) \/ unregisterSession(s)
  PROVE  LivingInv'
<1>. DEFINE d == Call("create", s, 0, "working")
<1>1. /\ UNCHANGED <<memoryVars, shown, posts>> /\ CallsABag
      /\ Issue(d) \/ UNCHANGED calls
      /\ \/ phase[s] = "new" /\ phase' = [phase EXCEPT ![s] = "live"]
         \/ phase' = [phase EXCEPT ![s] = "ended"]
  BY DEF StartSession, unregisterSession, LivingInv
<1>2. CallOK(d)
  BY DEF CallOK, Sent, Ops, Call, Shown
<1>. HIDE DEF d
<1>3. /\ CallsABag' /\ InFlight \subseteq InFlight' /\ InFlight' \subseteq InFlight \cup {d}
  <2>1. CASE Issue(d)
    BY <1>1, <2>1, IssueAdds
  <2>2. CASE UNCHANGED calls
    BY <1>1, <2>2 DEF InFlight, CallsABag, BagToSet
  <2>. QED BY <1>1, <2>1, <2>2
<1>4. \A x \in Sessions : Working(x)' => Working(x)
  BY <1>1 DEF Working, LivingInv, ObjectsOK
<1>5. ObjectsOK'
  BY <1>1 DEF LivingInv, ObjectsOK, memoryVars
<1>6. Grows
  BY <1>1, <1>4 DEF Grows, memoryVars, LivingInv, ObjectsOK
<1>7. TextsOK'
  <2>1. \A i \in 1 .. Len(lms) : lms[i].session \in Sessions
    <3>1. lms \in Seq([session : Sessions, state : Shown])
      BY DEF LivingInv, ObjectsOK
    <3>2. \A i \in 1 .. Len(lms) : lms[i] \in [session : Sessions, state : Shown]
      BY <3>1, ElementOfSeq
    <3>. QED BY <3>2
  <2>2. \A p \in posts : p[1] \in Sessions
    BY DEF LivingInv, TextsOK
  <2>. QED BY <1>1, <1>4, <2>1, <2>2 DEF LivingInv, TextsOK, memoryVars
<1>8. \A e \in InFlight' : CallOK(e)'
  BY <1>2, <1>3, <1>6, CallStaysOK DEF LivingInv
<1>9. DeferredUpdateHasTimer'
  BY <1>1, <1>3 DEF LivingInv, DeferredUpdateHasTimer, memoryVars
<1>. QED BY <1>3, <1>5, <1>7, <1>8, <1>9 DEF LivingInv

(* Steps that send an update, make one wait, or do neither. *)
LEMMA UpdateStep ==
  ASSUME LivingInv, UNCHANGED <<phase, lms, livingMessages, shown, posts>>,
         NEW d, UNCHANGED calls \/ (Issue(d) /\ CallOK(d)),
         updateTimers' \in [Threads -> Nat], pendingUpdates' \subseteq Threads,
         \A k \in Threads : updateTimers'[k] # 0 => updateTimers'[k] \in 1 .. Len(lms),
         \A k \in pendingUpdates' :
           updateTimers'[k] # 0 \/ (k \in pendingUpdates /\ updateTimers'[k] = updateTimers[k])
  PROVE  LivingInv'
<1>1. /\ CallsABag' /\ InFlight \subseteq InFlight'
      /\ InFlight' \subseteq InFlight \/ (CallOK(d) /\ InFlight' \subseteq InFlight \cup {d})
  <2>1. CASE Issue(d) /\ CallOK(d)
    BY <2>1, IssueAdds DEF LivingInv
  <2>2. CASE UNCHANGED calls
    BY <2>2 DEF LivingInv, InFlight, CallsABag, BagToSet
  <2>. QED BY <2>1, <2>2
<1>2. Grows
  BY DEF Grows, Working, LivingInv, ObjectsOK
<1>3. \A e \in InFlight' : CallOK(e)'
  BY <1>1, <1>2, CallStaysOK DEF LivingInv
<1>4. ObjectsOK'
  BY DEF LivingInv, ObjectsOK
<1>5. TextsOK'
  BY DEF LivingInv, TextsOK, Working
<1>6. DeferredUpdateHasTimer'
  BY <1>1 DEF LivingInv, DeferredUpdateHasTimer
<1>. QED BY <1>1, <1>3, <1>4, <1>5, <1>6 DEF LivingInv

Flush(ts) == Call("flush", lms[ts].session, ts, lms[ts].state)

LEMMA FlushOK ==
  ASSUME LivingInv, NEW ts \in 1 .. Len(lms)
  PROVE  CallOK(Flush(ts))
<1>1. lms[ts] \in [session : Sessions, state : Shown] /\ ts \in Nat
  <2>1. lms \in Seq([session : Sessions, state : Shown])
    BY DEF LivingInv, ObjectsOK
  <2>2. lms[ts] \in [session : Sessions, state : Shown]
    BY <2>1, ElementOfSeq
  <2>3. Len(lms) \in Nat
    BY <2>1
  <2>. QED BY <2>2, <2>3
<1>. QED BY <1>1 DEF LivingInv, TextsOK, CallOK, Flush, Call, Sent, Ops

LEMMA TimeKeeps ==
  ASSUME LivingInv, NEW k \in Threads, TimerFires(k) \/ IntervalPasses(k)
  PROVE  LivingInv'
<1>1. /\ livingMessages \in [Threads -> Nat] /\ updateTimers \in [Threads -> Nat]
      /\ pendingUpdates \subseteq Threads
      /\ \A x \in Threads : updateTimers[x] # 0 => updateTimers[x] \in 1 .. Len(lms)
  BY DEF LivingInv, ObjectsOK
<1>2. CASE TimerFires(k)
  <2>. DEFINE d == Flush(updateTimers[k])
  <2>1. UNCHANGED calls \/ (Issue(d) /\ CallOK(d))
    BY <1>1, <1>2, FlushOK DEF TimerFires, flushUpdate, Flush
  <2>. HIDE DEF d
  <2>2. /\ UNCHANGED <<phase, lms, livingMessages, shown, posts>>
        /\ updateTimers' = [updateTimers EXCEPT ![k] = 0]
        /\ pendingUpdates' = pendingUpdates \ {k}
    BY <1>2 DEF TimerFires, flushUpdate, sessionVars
  <2>. QED BY <1>1, <2>1, <2>2, UpdateStep
<1>3. CASE IntervalPasses(k)
  <2>1. UNCHANGED <<phase, lms, livingMessages, shown, posts, calls, updateTimers, pendingUpdates>>
    BY <1>3 DEF IntervalPasses, sessionVars
  <2>. QED BY <1>1, <2>1, UpdateStep
<1>. QED BY <1>2, <1>3

LEMMA SaysKeeps ==
  ASSUME LivingInv, NEW s \in Sessions, Says(s)
  PROVE  LivingInv'
<1>1. /\ livingMessages \in [Threads -> Nat] /\ updateTimers \in [Threads -> Nat]
      /\ pendingUpdates \subseteq Threads
      /\ \A k \in Threads : updateTimers[k] # 0 => updateTimers[k] \in 1 .. Len(lms)
      /\ \A k \in Threads : livingMessages[k] # 0 => livingMessages[k] \in 1 .. Len(lms)
  BY DEF LivingInv, ObjectsOK
<1>2. UNCHANGED <<phase, lms, livingMessages, shown, posts>>
  BY DEF Says, Sends
<1>3. CASE UNCHANGED <<pendingUpdates, updateTimers, calls>>
  BY <1>1, <1>2, <1>3, UpdateStep
<1>4. CASE \E k \in findLivingMessage(s) : scheduleLivingMessageUpdate(k)
  <2>1. PICK k \in findLivingMessage(s) : scheduleLivingMessageUpdate(k)
    BY <1>4
  <2>2. k \in Threads /\ livingMessages[k] # 0
    BY <2>1 DEF findLivingMessage
  <2>3. CASE flushUpdate(k, livingMessages[k]) /\ UNCHANGED updateTimers
    <3>. DEFINE d == Flush(livingMessages[k])
    <3>1. Issue(d) /\ CallOK(d) /\ pendingUpdates' = pendingUpdates \ {k}
      BY <1>1, <2>2, <2>3, FlushOK DEF flushUpdate, Flush
    <3>. HIDE DEF d
    <3>. QED BY <1>1, <1>2, <2>3, <3>1, UpdateStep
  <2>4. CASE /\ pendingUpdates' = pendingUpdates \cup {k}
             /\ updateTimers' = [updateTimers EXCEPT ![k] = IF @ = 0 THEN livingMessages[k] ELSE @]
             /\ UNCHANGED calls
    BY <1>1, <1>2, <2>2, <2>4, UpdateStep
  <2>. QED BY <2>1, <2>3, <2>4 DEF scheduleLivingMessageUpdate
<1>5. CASE /\ Issue(Call("recreate", s, 0, "working"))
           /\ UNCHANGED <<pendingUpdates, updateTimers>>
  <2>. DEFINE d == Call("recreate", s, 0, "working")
  <2>1. Issue(d) /\ CallOK(d)
    BY <1>5 DEF CallOK, Sent, Ops, Call, Shown
  <2>. HIDE DEF d
  <2>. QED BY <1>1, <1>2, <1>5, <2>1, UpdateStep
<1>. QED BY <1>3, <1>4, <1>5 DEF Says

(* A session with a result or over, finalised or not. *)
LEMMA EndKeeps ==
  ASSUME LivingInv, NEW s \in Sessions, Result(s) \/ onComplete(s)
  PROVE  LivingInv'
<1>1. /\ UNCHANGED <<livingMessages, pendingUpdates, shown, posts>>
      /\ \E p \in {"result", "over"} : phase' = [phase EXCEPT ![s] = p]
      /\ \/ UNCHANGED <<lms, updateTimers, calls>>
         \/ \E state \in Outcome : finalizeLivingMessage(s, state)
  BY DEF Result, onComplete, Outcome
<1>2. /\ phase' \in [Sessions -> {"new", "live", "result", "ended", "over"}]
      /\ \A x \in Sessions : Working(x)' => Working(x) /\ x # s
  BY <1>1 DEF LivingInv, ObjectsOK, Working
<1>3. /\ lms \in Seq([session : Sessions, state : Shown]) /\ CallsABag
      /\ livingMessages \in [Threads -> Nat] /\ updateTimers \in [Threads -> Nat]
  BY DEF LivingInv, ObjectsOK
<1>4. \A i \in 1 .. Len(lms) : lms[i] \in [session : Sessions, state : Shown]
  BY <1>3, ElementOfSeq
(* It is enough to know what becomes of the objects, the timers and the     *)
(* call that is sent, if any.                                               *)
<1>5. ASSUME NEW d, UNCHANGED calls \/ (Issue(d) /\ CallOK(d)'),
             lms' \in Seq([session : Sessions, state : Shown]), Len(lms') = Len(lms),
             \A i \in 1 .. Len(lms) :
               /\ lms'[i].session = lms[i].session
               /\ lms'[i].state = lms[i].state \/ lms[i].session = s,
             updateTimers' \in [Threads -> Nat],
             \A k \in Threads : updateTimers'[k] = updateTimers[k]
               \/ /\ updateTimers'[k] = 0 /\ d.op = "finalise"
                  /\ ThreadOf[d.session] = k /\ Issue(d)
      PROVE  LivingInv'
  <2>1. /\ CallsABag' /\ InFlight \subseteq InFlight'
        /\ \/ InFlight' \subseteq InFlight
           \/ CallOK(d)' /\ InFlight' \subseteq InFlight \cup {d}
        /\ Issue(d) => d \in InFlight'
    <3>1. CASE Issue(d) /\ CallOK(d)'
      BY <1>3, <3>1, IssueAdds
    <3>2. CASE UNCHANGED calls /\ ~Issue(d)
      BY <1>3, <3>2 DEF InFlight, CallsABag, BagToSet
    <3>3. CASE UNCHANGED calls /\ Issue(d)
      BY <1>3, <3>3, IssueAdds DEF InFlight, CallsABag, BagToSet
    <3>. QED BY <1>5, <3>1, <3>2, <3>3
  <2>2. Grows
    BY <1>2, <1>3, <1>5 DEF Grows
  <2>3. \A e \in InFlight' : CallOK(e)'
    BY <2>1, <2>2, CallStaysOK DEF LivingInv
  <2>4. ObjectsOK'
    BY <1>1, <1>2, <1>5 DEF LivingInv, ObjectsOK
  <2>5. TextsOK'
    <3>1. \A i \in 1 .. Len(lms) : lms[i].session \in Sessions
      BY <1>4
    <3>2. \A p \in posts : p[1] \in Sessions
      BY DEF LivingInv, TextsOK
    <3>. QED BY <1>1, <1>2, <1>5, <3>1, <3>2 DEF LivingInv, TextsOK
  <2>6. DeferredUpdateHasTimer'
    BY <1>1, <1>5, <2>1 DEF LivingInv, ObjectsOK, DeferredUpdateHasTimer
  <2>. QED BY <2>1, <2>3, <2>4, <2>5, <2>6 DEF LivingInv
<1>6. CASE UNCHANGED <<lms, updateTimers, calls>>
  BY <1>3, <1>5, <1>6
<1>7. ASSUME NEW state \in Outcome, finalizeLivingMessage(s, state)
      PROVE  LivingInv'
  <2>1. ASSUME NEW k \in findLivingMessage(s),
               updateTimers' = [updateTimers EXCEPT ![k] = 0],
               lms' = [lms EXCEPT ![livingMessages[k]].state = state],
               Issue(Call("finalise", s, livingMessages[k], state))
        PROVE  LivingInv'
    <3>1. PICK ts : ts = livingMessages[k]
      OBVIOUS
    <3>. DEFINE d == Call("finalise", s, ts, state)
    <3>2. /\ k \in Threads /\ ts \in 1 .. Len(lms) /\ ts \in Nat
          /\ lms[ts].session = s /\ ThreadOf[s] = k
      BY <1>3, <3>1 DEF findLivingMessage, LivingInv, ObjectsOK
    <3>3. lms' = [lms EXCEPT ![ts] = [lms[ts] EXCEPT !.state = state]]
      BY <2>1, <3>1
    <3>4. [lms[ts] EXCEPT !.state = state] \in [session : Sessions, state : Shown]
          /\ [lms[ts] EXCEPT !.state = state].session = s
      BY <1>4, <3>2 DEF Shown
    <3>5. /\ lms' \in Seq([session : Sessions, state : Shown]) /\ Len(lms') = Len(lms)
          /\ \A i \in 1 .. Len(lms) :
               lms'[i] = IF i = ts THEN [lms[ts] EXCEPT !.state = state] ELSE lms[i]
      BY <1>3, <3>2, <3>3, <3>4, ExceptSeq
    <3>6. d \in Sent /\ d.op = "finalise" /\ d.session = s /\ d.ts = ts
      BY <3>2 DEF Sent, Ops, Call, Shown
    <3>7. \A i \in 1 .. Len(lms) :
            /\ lms'[i].session = lms[i].session
            /\ lms'[i].state = lms[i].state \/ lms[i].session = s
      BY <3>2, <3>4, <3>5
    <3>. HIDE DEF d
    <3>8. ~Working(d.session)'
      BY <1>2, <3>6
    <3>9. CallOK(d)'
      BY <3>2, <3>5, <3>6, <3>7, <3>8 DEF CallOK
    <3>10. Issue(d)
      BY <2>1, <3>1 DEF d
    <3>. QED BY <1>3, <1>5, <2>1, <3>2, <3>5, <3>6, <3>9, <3>10, <3>7, <3>1
  <2>2. ASSUME UNCHANGED <<lms, updateTimers>>,
               UNCHANGED calls \/ Issue(Call("read", s, 0, state))
        PROVE  LivingInv'
    <3>. DEFINE d == Call("read", s, 0, state)
    <3>1. d \in Sent /\ d.op = "read" /\ d.session = s
      BY DEF Sent, Ops, Call, Shown
    <3>2. CallOK(d)'
      BY <1>2, <3>1 DEF CallOK
    <3>3. UNCHANGED calls \/ Issue(d)
      BY <2>2
    <3>. HIDE DEF d
    <3>. QED BY <1>3, <1>5, <2>2, <3>2, <3>3
  <2>. QED BY <1>7, <2>1, <2>2 DEF finalizeLivingMessage
<1>. QED BY <1>1, <1>6, <1>7

LEMMA LivingStep == LivingInv /\ [LivingNext]_livingVars => LivingInv'
<1>. SUFFICES ASSUME LivingInv, [LivingNext]_livingVars PROVE LivingInv'
  OBVIOUS
<1>1. CASE UNCHANGED livingVars
  <2>1. UNCHANGED <<phase, lms, livingMessages, shown, posts, calls, updateTimers, pendingUpdates>>
    BY <1>1 DEF livingVars, sessionVars, memoryVars
  <2>2. /\ updateTimers \in [Threads -> Nat] /\ pendingUpdates \subseteq Threads
        /\ \A k \in Threads : updateTimers[k] # 0 => updateTimers[k] \in 1 .. Len(lms)
    BY DEF LivingInv, ObjectsOK
  <2>. QED BY <2>1, <2>2, UpdateStep
<1>2. ASSUME NEW s \in Sessions,
             StartSession(s) \/ Says(s) \/ Result(s) \/ unregisterSession(s) \/ onComplete(s)
      PROVE  LivingInv'
  BY <1>2, SpeaksKeeps, SaysKeeps, EndKeeps
<1>3. ASSUME NEW k \in Threads, TimerFires(k) \/ IntervalPasses(k)
      PROVE  LivingInv'
  BY <1>3, TimeKeeps
<1>4. ASSUME NEW c \in InFlight, Answer(c)
      PROVE  LivingInv'
  BY <1>4, AnswerKeeps, CreatedKeeps, UpdatedKeeps, FinalisedKeeps
<1>. QED BY <1>1, <1>2, <1>3, <1>4 DEF LivingNext

LEMMA LivingFirst == LivingInit => LivingInv
<1>. SUFFICES ASSUME LivingInit PROVE LivingInv
  OBVIOUS
<1>1. CallsABag /\ InFlight = {}
  BY DEF LivingInit, CallsABag, InFlight, BagToSet, EmptyBag, SetToBag
<1>2. ObjectsOK
  BY DEF LivingInit, ObjectsOK
<1>3. TextsOK
  BY DEF LivingInit, TextsOK
<1>. QED BY <1>1, <1>2, <1>3 DEF LivingInv, LivingInit, DeferredUpdateHasTimer

(* The invariant holds of every behaviour of the living messages, with any  *)
(* number of results of a session and messages after them.                  *)
THEOREM LivingInvariance == LivingSpec => []LivingInv
<1>. QED BY LivingFirst, LivingStep, PTL DEF LivingSpec

(* slack.ts, living-message.ts: no message in Slack says that a session is  *)
(* over before it has sent a result itself, or ended.                       *)
THEOREM OnlyResultsEndMessages == LivingSpec => []OnlyItsResultEndsIt
<1>1. LivingInv => OnlyItsResultEndsIt
  BY DEF LivingInv, ObjectsOK, TextsOK, OnlyItsResultEndsIt, Working
<1>. QED BY <1>1, LivingInvariance, PTL

(* Every patch that waits has a timer, or a finalisation that drops it. *)
THEOREM DeferredUpdatesHaveTimers == LivingSpec => []DeferredUpdateHasTimer
<1>1. LivingInv => DeferredUpdateHasTimer
  BY DEF LivingInv
<1>. QED BY <1>1, LivingInvariance, PTL
=============================================================================
