-------------------------- MODULE RadioLink_proofs --------------------------
(***************************************************************************)
(* Theorems about the radio: of RadioLink, which hops and answers, and of  *)
(* TestingMode, which fires events over it.                                *)
(*                                                                         *)
(* RadioLink, for all counts and air times and for a receiver's period     *)
(* that may last as long as it likes: the receiver answers when it is      *)
(* heard, and stays in step and does not give up early until its timer has *)
(* drifted into a packet.  How close the clocks must be for that not to    *)
(* happen is a theorem of its own (CloseClocksStayInStep).                 *)
(*                                                                         *)
(* TestingMode, for any number of packets, key presses and queued events:  *)
(* no event fires twice, and no session leaves the uplink open.            *)
(***************************************************************************)
EXTENDS RadioLink, TestingMode, TLAPS

LEMMA NextHopType ==
  ASSUME NEW p \in 0 .. (Hops - 1)
  PROVE  NextHop(p) \in 0 .. (Hops - 1)
BY CountAssumption DEF NextHop

LEMMA ZeroIsHop == 0 \in 0 .. (Hops - 1)
BY CountAssumption

(* Time passes up to the next event: no clock goes past its end.            *)
LEMMA WaitStep ==
  ASSUME IInv, Wait
  PROVE  \E d \in Nat :
           /\ txLeft' = txLeft - d /\ rxLeft' = rxLeft - d
           /\ onAir => d <= txLeft - (TxPeriod - Airtime)
           /\ d <= txLeft /\ d <= rxLeft
           /\ answering => d <= answerLeft /\ answerLeft' = answerLeft - d
           /\ ~ answering => answerLeft' = answerLeft
<1> USE PeriodAssumption DEF IInv, TypeOK, TypeNumbers, Hearing, Answering
<1>1. PICK d \in Waits :
        /\ \A other \in Waits : d <= other
        /\ txLeft' = txLeft - d /\ rxLeft' = rxLeft - d
        /\ answerLeft' = IF answering THEN answerLeft - d ELSE answerLeft
  BY DEF Wait
<1>2. /\ d <= IF onAir THEN txLeft - (TxPeriod - Airtime) ELSE txLeft
      /\ d <= IF answering THEN answerLeft ELSE rxLeft
  BY <1>1 DEF Waits
<1>3. d \in Nat
  BY <1>1 DEF Waits
<1> QED BY <1>1, <1>2, <1>3

-----------------------------------------------------------------------------
(* Types.                                                                   *)

LEMMA TypeInit == Init => TypeOK
<1>1. Init => TypeNumbers
  BY PeriodAssumption, CountAssumption, ZeroIsHop DEF Init, TypeNumbers
<1>2. Init => TypeFlags
  BY DEF Init, TypeFlags, connectionStates
<1> QED BY <1>1, <1>2 DEF TypeOK

LEMMA NumbersStep == IInv /\ [Next]_vars => TypeNumbers'
<1> SUFFICES ASSUME IInv, TypeNumbers, [Next]_vars
             PROVE  TypeNumbers'
  BY DEF IInv, TypeOK
<1> USE PeriodAssumption, CountAssumption, ZeroIsHop
<1>1. CASE Wait
  <2>1. txLeft' \in 0 .. TxPeriod /\ rxLeft' \in Nat /\ answerLeft' \in 0 .. Airtime
    BY <1>1, WaitStep DEF TypeNumbers, IInv, TypeOK, TypeFlags
  <2>2. UNCHANGED << txPtr, rxPtr, rxChannel, timeout, missed, drift >>
    BY <1>1 DEF Wait, rxChosen, history, clocks
  <2> QED BY <2>1, <2>2 DEF TypeNumbers
<1>2. CASE TxTimer
  BY <1>2, NextHopType DEF TypeNumbers, TxTimer, rxVars, history, clocks
<1>3. CASE TxRestart
  BY <1>3 DEF TypeNumbers, TxRestart, rxVars, clocks
<1>4. CASE PacketEnd
  <2>1. CASE Receive
    BY <1>4, <2>1, NextHopType
    DEF TypeNumbers, PacketEnd, Receive, TimeoutAfterPacket, AfterPacket, Hop, Stay
  <2>2. CASE Miss
    BY <1>4, <2>2 DEF TypeNumbers, PacketEnd, Miss, rxVars, clocks
  <2> QED BY <1>4, <2>1, <2>2 DEF PacketEnd
<1>5. CASE AnswerEnd
  BY <1>5, NextHopType DEF TypeNumbers, AnswerEnd, Hop, txVars, history, clocks
<1>6. CASE RxTimer
  <2>0. rxLeft' \in Nat /\ drift' \in Int /\ missed' \in 0 .. (LostAfter + 1)
        /\ UNCHANGED << txPtr, txLeft, answerLeft >>
    BY <1>6 DEF TypeNumbers, RxTimer, txVars
  <2>1. CASE TimeoutConnected
    BY <2>0, <2>1, NextHopType DEF TypeNumbers, TimeoutConnected, Hop
  <2>2. CASE TimeoutLost
    BY <2>0, <2>2, NextHopType DEF TypeNumbers, TimeoutLost
  <2>3. CASE TimeoutSearching
    BY <2>0, <2>3, NextHopType DEF TypeNumbers, TimeoutSearching, Hop, Stay
  <2> QED BY <1>6, <2>1, <2>2, <2>3 DEF RxTimer
<1>7. CASE RxRestart
  BY <1>7 DEF TypeNumbers, RxRestart, txVars
<1>8. CASE Clears
  BY <1>8 DEF TypeNumbers, Clears, txVars, rxVars, history, clocks
<1>9. CASE UNCHANGED vars
  BY <1>9 DEF TypeNumbers, vars, txVars, rxVars, history, clocks
<1> QED BY <1>1, <1>2, <1>3, <1>4, <1>5, <1>6, <1>7, <1>8, <1>9 DEF Next

LEMMA FlagsStep == TypeFlags /\ [Next]_vars => TypeFlags'
<1> SUFFICES ASSUME TypeFlags, [Next]_vars PROVE TypeFlags'
  OBVIOUS
<1> USE DEF TypeFlags, connectionStates
<1>1. CASE Wait
  BY <1>1 DEF Wait, rxChosen, history, clocks
<1>2. CASE TxTimer
  <2>1. locked' \in BOOLEAN /\ onAir' \in BOOLEAN
    BY <1>2 DEF TxTimer
  <2> QED BY <1>2, <2>1 DEF TxTimer, rxVars, history, clocks
<1>3. CASE TxRestart
  BY <1>3 DEF TxRestart, rxVars, clocks
<1>4. CASE PacketEnd
  <2>1. CASE Receive
    BY <1>4, <2>1, CountAssumption DEF PacketEnd, Receive, Upgraded, AfterPacket
  <2>2. CASE Miss
    BY <1>4, <2>2 DEF PacketEnd, Miss, rxVars, clocks
  <2> QED BY <1>4, <2>1, <2>2 DEF PacketEnd
<1>5. CASE AnswerEnd
  BY <1>5 DEF AnswerEnd, txVars, history, clocks
<1>6. CASE RxTimer
  <2>1. slipped' \in BOOLEAN
    BY <1>6 DEF RxTimer
  <2> QED BY <1>6, <2>1 DEF RxTimer, TimeoutConnected, TimeoutLost, TimeoutSearching,
             txVars
<1>7. CASE RxRestart
  BY <1>7 DEF RxRestart, txVars
<1>8. CASE Clears
  BY <1>8 DEF Clears, txVars, rxVars, history, clocks
<1>9. CASE UNCHANGED vars
  BY <1>9 DEF vars, txVars, rxVars, history, clocks
<1> QED BY <1>1, <1>2, <1>3, <1>4, <1>5, <1>6, <1>7, <1>8, <1>9 DEF Next

-----------------------------------------------------------------------------
(* The receiver hears what it is tuned to, and answers between packets.     *)

LEMMA HearingStep == IInv /\ [Next]_vars => Hearing' /\ Answering'
<1> SUFFICES ASSUME IInv, [Next]_vars PROVE Hearing' /\ Answering'
  OBVIOUS
<1> USE PeriodAssumption, CountAssumption DEF IInv, TypeOK, TypeNumbers, TypeFlags, Hearing, Answering
<1>1. CASE Wait
  <2>1. UNCHANGED << txPtr, onAir, rxPtr, rxChannel, answering, connectionState,
                     locked, disturbed >>
    BY <1>1 DEF Wait, rxChosen, history
  <2> QED BY <1>1, <2>1, WaitStep
<1>2. CASE TxTimer
  BY <1>2 DEF TxTimer, rxVars, history, clocks
<1>3. CASE TxRestart
  BY <1>3 DEF TxRestart, rxVars, clocks
<1>4. CASE PacketEnd
  <2>1. CASE locked /\ Receive
    <3>1. /\ onAir' = FALSE /\ locked' = FALSE /\ txLeft' = TxPeriod - Airtime
          /\ rxLeft' \in Spans /\ txPtr' = txPtr /\ ~ answering /\ rxChannel = txPtr
      BY <1>4, <2>1 DEF PacketEnd, PacketEndDue, Receive
    <3>2. CASE answering' = TRUE /\ answerLeft' = Airtime /\ Stay
      BY <3>1, <3>2 DEF Stay
    <3>3. CASE ~ answering' /\ Hop
      BY <3>1, <3>3 DEF Hop
    <3>4. (answering' = TRUE /\ answerLeft' = Airtime /\ Stay) \/ (~ answering' /\ Hop)
      BY <2>1, <3>1 DEF Receive, AfterPacket
    <3> QED BY <3>2, <3>3, <3>4
  <2>2. CASE Miss
    BY <1>4, <2>2 DEF PacketEnd, Miss, rxVars, clocks
  <2> QED BY <1>4, <2>1, <2>2 DEF PacketEnd
<1>5. CASE AnswerEnd
  BY <1>5 DEF AnswerEnd, Hop, txVars, history
<1>6. CASE RxTimer
  <2>0. ~ answering
    BY <1>6 DEF RxTimer
  <2>1. CASE TimeoutConnected
    BY <1>6, <2>0, <2>1 DEF RxTimer, TimeoutConnected, Hop, txVars
  <2>2. CASE TimeoutLost
    BY <1>6, <2>0, <2>2 DEF RxTimer, TimeoutLost, txVars
  <2>3. CASE TimeoutSearching
    BY <1>6, <2>0, <2>3 DEF RxTimer, TimeoutSearching, Hop, Stay, txVars
  <2> QED BY <1>6, <2>1, <2>2, <2>3 DEF RxTimer
<1>7. CASE RxRestart
  BY <1>7 DEF RxRestart, txVars
<1>8. CASE Clears
  BY <1>8 DEF Clears, txVars, rxVars, history, clocks
<1>9. CASE UNCHANGED vars
  BY <1>9 DEF vars, txVars, rxVars, history, clocks
<1> QED BY <1>1, <1>2, <1>3, <1>4, <1>5, <1>6, <1>7, <1>8, <1>9 DEF Next

-----------------------------------------------------------------------------
(***************************************************************************)
(* The timers of both ends stay tied to each other by the drift: a packet  *)
(* follows every hop of the receiver, and is over before it hops again.    *)
(***************************************************************************)
LEMMA TrackingStep == IInv /\ [Next]_vars => Tracking'
<1> SUFFICES ASSUME IInv, [Next]_vars, connectionState' # "disconnected", Follows'
             PROVE  WhileAnswering' \/ BeforePacket' \/ InPacket' \/ AfterMiss'
  BY DEF Tracking
<1> USE PeriodAssumption, CountAssumption
<1>0. TypeOK /\ Tracking /\ Answering /\ Hearing
  BY DEF IInv
<1>f. drift' = drift /\ slipped' = slipped /\ disturbed' = disturbed => Follows
  BY DEF Follows
<1>1. CASE Wait
  <2>1. UNCHANGED << txPtr, onAir, rxPtr, rxChannel, answering, connectionState,
                     timeout, locked, disturbed, missed, drift, slipped >>
    BY <1>1 DEF Wait, rxChosen, history, clocks
  <2>2. Tracking /\ Follows /\ connectionState # "disconnected"
    BY <1>0, <1>f, <2>1
  <2>3. txLeft' <= txLeft /\ rxLeft' - txLeft' = rxLeft - txLeft /\ txLeft' \in Nat
    BY <1>0, <1>1, WaitStep DEF TypeOK, TypeNumbers
  <2> QED BY <1>0, <2>1, <2>2, <2>3
          DEF TypeOK, TypeNumbers, Tracking, WhileAnswering, BeforePacket, InPacket,
              AfterMiss, Connected
<1>2. CASE TxTimer
  <2>1. UNCHANGED << connectionState, disturbed, timeout, answering, rxLeft, rxPtr,
                     rxChannel, missed, drift, slipped >>
    BY <1>2 DEF TxTimer, rxVars, history, clocks
  <2>0. Tracking /\ Follows /\ connectionState # "disconnected"
    BY <1>0, <1>f, <2>1
  <2>2. BeforePacket
    BY <1>0, <1>2, <2>0
    DEF TypeOK, TypeNumbers, TypeFlags, Tracking, Follows, Answering, Hearing, TxTimer,
        WhileAnswering, BeforePacket, InPacket, AfterMiss
  <2>3. /\ onAir' /\ ~ answering' /\ txPtr' = NextHop(txPtr)
        /\ txLeft = 0 /\ txLeft' = TxPeriod
    BY <1>2, <2>1, <2>2 DEF TxTimer, BeforePacket
  <2>4. rxLeft' - txLeft' = drift' + Airtime - TxPeriod
    BY <1>0, <2>1, <2>2, <2>3 DEF TypeOK, TypeNumbers, BeforePacket
  <2>5. Connected' => rxPtr' = txPtr' /\ missed' = timeout'
    BY <2>1, <2>2, <2>3 DEF BeforePacket, Connected
  <2>6. Connected' => locked'
    BY <1>0, <1>2, <2>1, <2>2, <2>3, <2>5 DEF Hearing, TxTimer, BeforePacket, Connected
  <2>7. InPacket'
    BY <2>3, <2>4, <2>5, <2>6 DEF InPacket
  <2> QED BY <2>7
<1>3. CASE TxRestart
  BY <1>3 DEF TxRestart, Follows
<1>4. CASE PacketEnd
  <2>1. CASE locked /\ Receive
    <3>1. /\ timeout' = 0 /\ onAir' = FALSE /\ missed' = 0
          /\ txLeft' = TxPeriod - Airtime /\ rxLeft' \in Spans
          /\ drift' = rxLeft' - TxPeriod
          /\ txPtr' = txPtr
      BY <1>4, <2>1 DEF PacketEnd, PacketEndDue, Receive, TimeoutAfterPacket
    <3>2. rxLeft' - txLeft' = drift' + Airtime
      BY <3>1
    <3>3. CASE answering' = TRUE /\ Stay
      <4>1. rxPtr' = txPtr' \/ connectionState' # "connected"
        BY <1>0, <2>1, <3>1, <3>3 DEF TypeOK, TypeNumbers, TypeFlags, Hearing, Receive, Upgraded, Stay, connectionStates
      <4> QED BY <3>1, <3>2, <3>3, <4>1 DEF WhileAnswering, Connected
    <3>4. CASE ~ answering' /\ Hop
      <4>1. rxPtr' = NextHop(txPtr') \/ connectionState' # "connected"
        BY <1>0, <2>1, <3>1, <3>4 DEF TypeOK, TypeNumbers, TypeFlags, Hearing, Receive, Upgraded, Hop, connectionStates
      <4> QED BY <3>1, <3>2, <3>4, <4>1 DEF BeforePacket, Connected
    <3>5. ~ answering
      BY <1>0, <2>1 DEF Hearing
    <3>6. (answering' = TRUE /\ Stay) \/ (~ answering' /\ Hop)
      BY <2>1, <3>5 DEF Receive, AfterPacket
    <3> QED BY <3>3, <3>4, <3>6
  <2>2. CASE Miss
    <3>1. UNCHANGED << connectionState, disturbed, timeout, answering, rxLeft, txLeft,
                       rxPtr, rxChannel, txPtr, drift, slipped >>
      BY <1>4, <2>2 DEF PacketEnd, Miss, rxVars, clocks
    <3>2. InPacket
      BY <1>0, <1>4, <1>f, <3>1
      DEF Tracking, PacketEnd, PacketEndDue, WhileAnswering, BeforePacket, InPacket, AfterMiss
    <3>a. CASE missed' = missed + 1 \/ ~ Connected
      <4>1. AfterMiss'
        BY <1>0, <1>4, <3>1, <3>2, <3>a
        DEF TypeOK, TypeNumbers, TypeFlags, PacketEnd, PacketEndDue, InPacket, AfterMiss, Connected
      <4> QED BY <4>1
    <3>b. missed' = missed + 1 \/ ~ Connected
      <4>1. timeout <= LostAfter /\ (Connected => missed = timeout) /\ ~ disturbed
        BY <1>0, <1>f, <3>1, <3>2 DEF TypeOK, TypeNumbers, InPacket, Follows
      <4> QED BY <1>0, <2>2, <4>1 DEF TypeOK, TypeNumbers, Miss, Connected
    <3> QED BY <3>a, <3>b
  <2> QED BY <1>4, <2>1, <2>2 DEF PacketEnd
<1>5. CASE AnswerEnd
  <2>1. /\ UNCHANGED << connectionState, disturbed, timeout, rxLeft, txLeft, onAir,
                        txPtr, missed, drift, slipped >>
        /\ answering /\ ~ answering' /\ rxPtr' = NextHop(rxPtr)
    BY <1>5 DEF AnswerEnd, AnswerEndDue, Hop, txVars, history, clocks
  <2>2. WhileAnswering
    BY <1>0, <1>f, <2>1 DEF Tracking, WhileAnswering, BeforePacket, InPacket, AfterMiss
  <2> QED BY <2>1, <2>2 DEF WhileAnswering, BeforePacket, Connected
<1>6. CASE RxTimer
  <2>1. TimeoutConnected
    BY <1>6 DEF RxTimer, TimeoutConnected, TimeoutLost, TimeoutSearching
  <2>2. /\ UNCHANGED << connectionState, disturbed, txLeft, onAir, txPtr, answering, missed >>
        /\ Connected /\ timeout' = timeout + 1
        /\ rxPtr' = NextHop(rxPtr) /\ rxLeft = 0 /\ rxLeft' \in Spans
    BY <1>0, <1>6, <2>1 DEF RxTimer, TimeoutConnected, Hop, txVars, Connected
  <2>3. ~ slipped /\ InWindow /\ drift' = drift + (rxLeft' - TxPeriod)
    BY <1>6, <2>2 DEF RxTimer, Follows, Connected
  <2>4. AfterMiss
    BY <1>0, <2>2, <2>3
    DEF TypeOK, TypeNumbers, TypeFlags, Tracking, Follows, InWindow, Answering, Hearing,
        WhileAnswering, BeforePacket, InPacket, AfterMiss, Connected
  <2>5. BeforePacket'
    BY <1>0, <2>2, <2>3, <2>4
    DEF TypeOK, TypeNumbers, AfterMiss, BeforePacket, Connected
  <2> QED BY <2>5
<1>7. CASE RxRestart
  BY <1>7 DEF RxRestart
<1>8. CASE Clears \/ UNCHANGED vars
  <2>1. UNCHANGED << txVars, rxVars, locked, history >>
    BY <1>8 DEF Clears, vars
  <2> QED BY <1>0, <1>f, <2>1
          DEF txVars, rxVars, clocks, history, Tracking, WhileAnswering, BeforePacket,
              InPacket, AfterMiss, Connected
<1> QED BY <1>1, <1>2, <1>3, <1>4, <1>5, <1>6, <1>7, <1>8 DEF Next

-----------------------------------------------------------------------------
(* IInv is an invariant: the timers stay tied to each other.                *)
THEOREM Invariance == Spec => []IInv
<1>1. Init => IInv
  BY TypeInit, PeriodAssumption DEF Init, IInv, Tracking, Answering, Hearing
<1>2. IInv /\ [Next]_vars => IInv'
  BY NumbersStep, FlagsStep, HearingStep, TrackingStep DEF IInv, TypeOK
<1> QED BY <1>1, <1>2, PTL DEF Spec

(* The variables of both ends keep their types.                             *)
THEOREM TypeCorrect == Spec => []TypeOK
<1>1. IInv => TypeOK
  BY DEF IInv
<1> QED BY <1>1, Invariance, PTL

(***************************************************************************)
(* A connected receiver hears every packet of a transmitter that keeps     *)
(* sending, from its first symbol on, up to the moment its timer has       *)
(* drifted into one: rxTimeout and rxDoneISR keep the hops together.       *)
(***************************************************************************)
THEOREM StaysInStep == Spec => []InStep
<1>1. IInv => InStep
  BY DEF IInv, InStep, Tracking, WhileAnswering, BeforePacket, InPacket, AfterMiss, Connected
<1> QED BY <1>1, Invariance, PTL

(***************************************************************************)
(* The answer of the receiver never meets a packet of the transmitter, and *)
(* is sent on the channel on which that listens (txTransmit, txDoneISR),   *)
(* however the clocks compare.                                             *)
(***************************************************************************)
THEOREM AnswersAreHeard == Spec => []AnswerIsHeard
<1>1. IInv => AnswerIsHeard
  BY DEF IInv, AnswerIsHeard, Answering
<1> QED BY <1>1, Invariance, PTL

(***************************************************************************)
(* rxTimeout gives a connection up only after more than LostAfter packets  *)
(* in a row were missed, or when it has drifted into a packet.             *)
(***************************************************************************)
THEOREM NotGivenUpEarly == Spec => GivesUpLate
<1>1. IInv /\ [Next]_vars =>
        [ RxTimer /\ connectionState = "connected" /\ connectionState' # "connected"
          /\ Follows /\ InWindow => missed > LostAfter ]_vars
  <2> SUFFICES ASSUME IInv, RxTimer, connectionState = "connected",
                      connectionState' # "connected", Follows, InWindow
               PROVE  missed > LostAfter
    OBVIOUS
  <2>1. timeout = LostAfter /\ rxLeft = 0
    BY DEF RxTimer, TimeoutConnected, TimeoutLost, TimeoutSearching
  <2>2. txLeft \in 0 .. TxPeriod /\ missed \in Nat /\ drift \in Int
    BY CountAssumption DEF IInv, TypeOK, TypeNumbers
  <2>3. AfterMiss
    BY <2>1, <2>2, PeriodAssumption
    DEF IInv, Tracking, InWindow, Hearing, Answering, WhileAnswering, BeforePacket,
        InPacket, AfterMiss
  <2> QED BY <2>1, <2>3, CountAssumption DEF AfterMiss, Connected
<1> QED BY <1>1, Invariance, PTL DEF Spec, GivesUpLate

-----------------------------------------------------------------------------
(***************************************************************************)
(* How close the clocks must be.  Most is how much longer than TxPeriod   *)
(* the receiver's period may last.                                         *)
(***************************************************************************)
CloseClocks(Most) ==
  /\ Most \in Nat
  /\ \A span \in Spans : TxPeriod < span /\ span <= TxPeriod + Most
  /\ (LostAfter + 1) * Most < TxPeriod - Airtime

(* Each expiry in a row adds no more than Most. *)
DriftBounded(Most) ==
  connectionState # "disconnected" =>
    ~ slipped /\ 0 < drift /\ drift <= (timeout + 1) * Most

LEMMA Monotone ==
  ASSUME NEW a \in Nat, NEW b \in Nat, NEW d \in Nat, a <= b
  PROVE  a * d <= b * d
OBVIOUS

LEMMA BoundedMeansFollows ==
  ASSUME NEW Most, CloseClocks(Most), TypeOK, DriftBounded(Most),
         connectionState # "disconnected"
  PROVE  InWindow
<1>1. Most \in Nat /\ timeout \in Nat /\ LostAfter \in Nat
      /\ timeout + 1 <= LostAfter + 1
  BY CountAssumption DEF CloseClocks, TypeOK, TypeNumbers
<1>2. (timeout + 1) * Most <= (LostAfter + 1) * Most
  BY <1>1, Monotone
<1>3. /\ (timeout + 1) * Most \in Int /\ (LostAfter + 1) * Most \in Int
      /\ TxPeriod - Airtime \in Int /\ drift \in Int
  BY <1>1, PeriodAssumption DEF TypeOK, TypeNumbers
<1> QED BY <1>2, <1>3 DEF CloseClocks, DriftBounded, InWindow

LEMMA DriftStep ==
  ASSUME NEW Most, CloseClocks(Most), TypeOK, DriftBounded(Most), [Next]_vars
  PROVE  DriftBounded(Most)'
<1>1. CASE UNCHANGED << connectionState, timeout, drift, slipped >>
  BY <1>1 DEF DriftBounded
<1>2. CASE locked /\ PacketEnd /\ Receive
  <2>1. /\ rxLeft' \in Spans /\ drift' = rxLeft' - TxPeriod
        /\ slipped' = FALSE /\ timeout' = 0
    BY <1>2 DEF Receive, TimeoutAfterPacket
  <2>2. (timeout' + 1) * Most = Most
    BY <2>1 DEF CloseClocks
  <2>3. TxPeriod < rxLeft' /\ rxLeft' <= TxPeriod + Most /\ rxLeft' \in Nat
        /\ Most \in Nat
    BY <2>1, PeriodAssumption DEF CloseClocks
  <2>4. 0 < drift' /\ drift' <= Most
    <3>1. ASSUME NEW d, NEW r \in Nat, NEW t \in Nat, NEW m \in Nat,
                 d = r - t, t < r, r <= t + m
          PROVE  0 < d /\ d <= m
      BY <3>1
    <3>2. drift' = rxLeft' - TxPeriod /\ TxPeriod \in Nat
      BY <2>1, PeriodAssumption
    <3> QED BY <2>3, <3>1, <3>2, Zenon
  <2>5. drift' <= (timeout' + 1) * Most
    BY <2>2, <2>4, Zenon
  <2> QED BY <2>1, <2>4, <2>5, Zenon DEF DriftBounded
<1>3. CASE RxTimer /\ TimeoutConnected
  <2>1. InWindow /\ ~ slipped
    BY <1>3, BoundedMeansFollows DEF TimeoutConnected, DriftBounded
  <2>2. /\ ~ slipped' /\ drift' = drift + (rxLeft' - TxPeriod) /\ rxLeft' \in Spans
        /\ timeout' = timeout + 1 /\ connectionState = "connected"
    BY <1>3, <2>1 DEF RxTimer, TimeoutConnected
  <2>3. /\ timeout \in Nat /\ Most \in Nat
        /\ (timeout' + 1) * Most = (timeout + 1) * Most + Most
    BY <2>2, CountAssumption DEF TypeOK, TypeNumbers, CloseClocks
  <2>4. (timeout + 1) * Most \in Nat /\ drift \in Int
    BY <2>3 DEF TypeOK, TypeNumbers
  <2>5. rxLeft' \in Nat /\ TxPeriod < rxLeft' /\ rxLeft' <= TxPeriod + Most
    BY <2>2, PeriodAssumption DEF CloseClocks
  <2>6. 0 < drift /\ drift <= (timeout + 1) * Most
    BY <2>2 DEF DriftBounded
  <2>7. 0 < drift' /\ drift' <= (timeout + 1) * Most + Most
    <3>1. ASSUME NEW d \in Int, NEW r \in Nat, NEW t \in Nat, NEW m \in Nat,
                 NEW k \in Nat, t < r, r <= t + m, 0 < d, d <= k
          PROVE  0 < d + (r - t) /\ d + (r - t) <= k + m
      BY <3>1
    <3>2. TxPeriod \in Nat
      BY PeriodAssumption
    <3>3. /\ 0 < drift + (rxLeft' - TxPeriod)
          /\ drift + (rxLeft' - TxPeriod) <= (timeout + 1) * Most + Most
      BY <2>3, <2>4, <2>5, <2>6, <3>1, <3>2, Zenon
    <3> QED BY <2>2, <3>3, Zenon
  <2>8. drift' <= (timeout' + 1) * Most
    BY <2>3, <2>7, Zenon
  <2> QED BY <2>2, <2>7, <2>8, Zenon DEF DriftBounded
<1>4. CASE connectionState' = "disconnected"
  BY <1>4 DEF DriftBounded
<1>5. \/ UNCHANGED << connectionState, timeout, drift, slipped >>
      \/ locked /\ PacketEnd /\ Receive
      \/ RxTimer /\ TimeoutConnected
      \/ connectionState' = "disconnected"
  BY DEF Next, vars, Wait, TxTimer, TxRestart, PacketEnd, Miss, AnswerEnd, RxTimer,
     TimeoutLost, TimeoutSearching, RxRestart, Clears, rxVars, clocks
<1> QED BY <1>1, <1>2, <1>3, <1>4, <1>5

(***************************************************************************)
(* With a receiver whose period is longer than the transmitter's by at     *)
(* most Most, LostAfter + 1 of which are less than the pause between two  *)
(* packets, InStep holds with no condition on the history of the clocks: a *)
(* connected receiver is on the channel of every packet of a transmitter   *)
(* that keeps sending.                                                     *)
(***************************************************************************)
THEOREM CloseClocksStayInStep ==
  ASSUME NEW CONSTANT Most, CloseClocks(Most)
  PROVE  Spec => [](Connected /\ ~ disturbed /\ onAir => locked)
<1>1. Init => DriftBounded(Most)
  BY DEF Init, DriftBounded
<1>2. TypeOK /\ DriftBounded(Most) /\ [Next]_vars => DriftBounded(Most)'
  BY DriftStep
<1>3. TypeOK /\ DriftBounded(Most) /\ InStep
        => (Connected /\ ~ disturbed /\ onAir => locked)
  <2> SUFFICES ASSUME TypeOK, DriftBounded(Most), InStep, Connected, ~ disturbed, onAir
               PROVE  locked
    OBVIOUS
  <2>1. InWindow /\ ~ slipped
    BY BoundedMeansFollows DEF Connected, DriftBounded
  <2> QED BY <2>1 DEF InStep, Follows, InWindow, Connected
<1> QED BY <1>1, <1>2, <1>3, TypeCorrect, StaysInStep, PTL DEF Spec

-----------------------------------------------------------------------------
(***************************************************************************)
(* Testing mode.  A confirmed event goes from testingMsg to the transmit   *)
(* buffer of the MCU, into the air and to trigger_event, and each of them  *)
(* is read again and again before it changes.  The argument is about the   *)
(* events on that way as one sequence, oldest first: each step samples it  *)
(* without turning the order round, or changes its last element.           *)
(***************************************************************************)

Message == [enable_pyros : BOOLEAN, event : Nat]
Modes   == {"UNIDIRECTIONAL", "BIDIRECTIONAL"}

TestingTypes ==
  /\ presses \in Nat
  /\ testingMsg \in Message /\ transmissionMode \in Modes
  /\ mcu \in [enabled : BOOLEAN, mode : Modes, payload : Message]
  /\ air \in Seq(Message)
  /\ fired \in Seq(Nat)
  /\ m_event_reset \in BOOLEAN

(* The events on their way: in the air, in the buffer, in the message.      *)
Way(sent, buffer, msg) ==
  [k \in 1 .. Len(sent) + 2 |->
     IF k <= Len(sent) THEN sent[k].event
     ELSE IF k = Len(sent) + 1 THEN buffer.event ELSE msg.event]

OnTheWay == Way(air, mcu.payload, testingMsg)

(* No event comes after a later one, and none on both sides of a 0.         *)
InOrder(s) ==
  \A i, j \in DOMAIN s :
    i < j /\ s[i] # 0 /\ s[j] # 0 =>
      /\ s[i] <= s[j]
      /\ \A k \in DOMAIN s : i < k /\ k < j /\ s[k] = 0 => s[i] < s[j]

(* An event that fired is not on the way, except for repetitions of the     *)
(* last one that arrive before a 0 does.                                    *)
NoneAgain(f, s) ==
  \A n \in DOMAIN f, k \in DOMAIN s :
    s[k] # 0 =>
      /\ f[n] <= s[k]
      /\ \A i \in DOMAIN s : i < k /\ s[i] = 0 => f[n] < s[k]

(* ... and when the 0 has arrived there are none of them either.            *)
AllAhead(f, s) ==
  \A n \in DOMAIN f, k \in DOMAIN s : s[k] # 0 => f[n] < s[k]

(* Each of them was confirmed.                                              *)
Confirmed(s, n) == \A k \in DOMAIN s : s[k] <= n

Increasing(f) == \A i, j \in DOMAIN f : i < j => f[i] < f[j]

WayInv ==
  /\ InOrder(OnTheWay) /\ NoneAgain(fired, OnTheWay)
  /\ m_event_reset => AllAhead(fired, OnTheWay)
  /\ Confirmed(OnTheWay, presses) /\ Confirmed(fired, presses)
  /\ Increasing(fired)

EventsInv == TestingTypes /\ WayInv

(* Reading s again and again, from the front to the back, gives t.          *)
Samples(t, s) ==
  \E g \in [DOMAIN t -> DOMAIN s] :
    /\ \A i, j \in DOMAIN t : i <= j => g[i] <= g[j]
    /\ \A i \in DOMAIN t : t[i] = s[g[i]]

LEMMA StrictlyLess ==
  ASSUME NEW a \in Nat, NEW b \in Nat, a <= b, a # b PROVE a < b
OBVIOUS

(* What samples a sequence has its properties.                              *)
LEMMA SampleKeepsOrder ==
  ASSUME NEW m \in Nat, NEW l \in Nat,
         NEW s \in [1 .. m -> Nat], NEW t \in [1 .. l -> Nat],
         Samples(t, s),
         NEW f \in Seq(Nat), NEW p \in Nat,
         InOrder(s), NoneAgain(f, s), Confirmed(s, p)
  PROVE  /\ InOrder(t) /\ NoneAgain(f, t) /\ Confirmed(t, p)
         /\ AllAhead(f, s) => AllAhead(f, t)
<1>0. DOMAIN s = 1 .. m /\ DOMAIN t = 1 .. l
  OBVIOUS
<1>p. PICK g \in [1 .. l -> 1 .. m] :
        /\ \A i, j \in 1 .. l : i <= j => g[i] <= g[j]
        /\ \A i \in 1 .. l : t[i] = s[g[i]]
  BY <1>0 DEF Samples
<1>g. \A i \in 1 .. l : g[i] \in 1 .. m /\ g[i] \in Nat
  <2> TAKE i \in 1 .. l
  <2>1. g[i] \in 1 .. m
    OBVIOUS
  <2> QED BY <2>1
<1>1. InOrder(t)
  <2> SUFFICES ASSUME NEW i \in 1 .. l, NEW j \in 1 .. l,
                      i < j, t[i] # 0, t[j] # 0
               PROVE  /\ t[i] <= t[j]
                      /\ \A k \in 1 .. l : i < k /\ k < j /\ t[k] = 0 => t[i] < t[j]
    BY <1>0 DEF InOrder
  <2>1. CASE g[i] = g[j]
    <3>1. \A k \in 1 .. l : i < k /\ k < j => g[k] = g[i]
      <4> TAKE k \in 1 .. l
      <4>1. g[i] \in Nat /\ g[j] \in Nat /\ g[k] \in Nat
        BY <1>g
      <4> QED BY <1>p, <2>1, <4>1
    <3> QED BY <1>p, <2>1, <3>1
  <2>2. CASE g[i] < g[j]
    <3>1. /\ s[g[i]] <= s[g[j]]
          /\ \A k \in 1 .. m : g[i] < k /\ k < g[j] /\ s[k] = 0 => s[g[i]] < s[g[j]]
      BY <1>0, <1>g, <1>p, <2>2 DEF InOrder
    <3>2. ASSUME NEW k \in 1 .. l, i < k, k < j, t[k] = 0 PROVE t[i] < t[j]
      <4>1. g[i] <= g[k] /\ g[k] <= g[j]
        BY <1>p, <3>2
      <4>2. s[g[k]] = 0 /\ s[g[i]] # 0 /\ s[g[j]] # 0
        BY <1>p, <3>2
      <4>3. g[i] # g[k] /\ g[k] # g[j]
        BY <4>2
      <4>4. g[i] \in Nat /\ g[k] \in Nat /\ g[j] \in Nat /\ g[k] \in 1 .. m
        BY <1>g
      <4>5. g[i] < g[k] /\ g[k] < g[j]
        BY <4>1, <4>3, <4>4, StrictlyLess, Zenon
      <4>6. s[g[i]] < s[g[j]]
        BY <3>1, <4>2, <4>4, <4>5, Zenon
      <4> QED BY <1>p, <4>6
    <3> QED BY <1>p, <3>1, <3>2
  <2>3. g[i] <= g[j] /\ g[i] \in Nat /\ g[j] \in Nat
    BY <1>p, <1>g
  <2> QED BY <2>1, <2>2, <2>3
<1>2. NoneAgain(f, t)
  <2> SUFFICES ASSUME NEW n \in DOMAIN f, NEW k \in 1 .. l, t[k] # 0
               PROVE  /\ f[n] <= t[k]
                      /\ \A i \in 1 .. l : i < k /\ t[i] = 0 => f[n] < t[k]
    BY <1>0 DEF NoneAgain
  <2>1. /\ f[n] <= s[g[k]]
        /\ \A i \in 1 .. m : i < g[k] /\ s[i] = 0 => f[n] < s[g[k]]
    BY <1>0, <1>g, <1>p DEF NoneAgain
  <2>2. ASSUME NEW i \in 1 .. l, i < k, t[i] = 0 PROVE g[i] < g[k]
    <3>1. g[i] \in Nat /\ g[k] \in Nat
      BY <1>g
    <3>2. i <= k
      BY <2>2
    <3>3. g[i] <= g[k]
      BY <1>p, <3>2
    <3>4. g[i] # g[k]
      BY <1>p, <2>2
    <3> QED BY <3>1, <3>3, <3>4
  <2> QED BY <1>p, <2>1, <2>2
<1>3. Confirmed(t, p)
  BY <1>0, <1>g, <1>p DEF Confirmed
<1>4. AllAhead(f, s) => AllAhead(f, t)
  BY <1>0, <1>g, <1>p DEF AllAhead
<1> QED BY <1>1, <1>2, <1>3, <1>4

(* What is on the way are numbers.                                          *)
LEMMA WayFacts ==
  ASSUME NEW sent \in Seq(Message), NEW buffer \in Message, NEW msg \in Message
  PROVE  /\ Len(sent) + 2 \in Nat
         /\ Way(sent, buffer, msg) \in [1 .. Len(sent) + 2 -> Nat]
<1>1. Len(sent) \in Nat /\ \A k \in 1 .. Len(sent) : sent[k] \in Message
  OBVIOUS
<1>2. \A m \in Message : m.event \in Nat
  BY DEF Message
<1> QED BY <1>1, <1>2 DEF Way

-----------------------------------------------------------------------------
(* A step that samples what is on the way, and lets nothing fire.           *)
LEMMA Sampled ==
  ASSUME EventsInv, TestingTypes',
         UNCHANGED << presses, fired >>, m_event_reset' => m_event_reset,
         Samples(OnTheWay', OnTheWay)
  PROVE  EventsInv'
<1> DEFINE m == Len(air) + 2
           l == Len(air') + 2
           s == OnTheWay
           t == OnTheWay'
<1>1. m \in Nat /\ s \in [1 .. m -> Nat]
  BY WayFacts DEF EventsInv, TestingTypes, OnTheWay
<1>2. l \in Nat /\ t \in [1 .. l -> Nat]
  BY WayFacts DEF TestingTypes, OnTheWay
<1>3. fired \in Seq(Nat) /\ presses \in Nat
  BY DEF EventsInv, TestingTypes
<1>4. /\ InOrder(s) /\ NoneAgain(fired, s) /\ Confirmed(s, presses)
      /\ m_event_reset => AllAhead(fired, s)
  BY DEF EventsInv, WayInv
<1>5. Samples(t, s) /\ (m_event_reset' => m_event_reset)
  OBVIOUS
<1> HIDE DEF m, l, s, t
<1>6. /\ InOrder(t) /\ NoneAgain(fired, t) /\ Confirmed(t, presses)
      /\ m_event_reset' => AllAhead(fired, t)
  BY <1>1, <1>2, <1>3, <1>4, <1>5, SampleKeepsOrder
<1> QED
  BY <1>6 DEF EventsInv, WayInv, t

(* Nothing of all that is touched.                                          *)
LEMMA NothingMoves ==
  ASSUME EventsInv, TestingTypes',
         UNCHANGED << presses, testingMsg, mcu.payload, air, fired, m_event_reset >>
  PROVE  EventsInv'
<1>1. OnTheWay' = OnTheWay
  BY DEF OnTheWay
<1> QED BY <1>1 DEF EventsInv, WayInv

(* The message is filled with 0, or with an event that was never there.     *)
LEMMA Filled ==
  ASSUME EventsInv, TestingTypes',
         UNCHANGED << mcu, air, fired, m_event_reset >>,
         \/ testingMsg'.event = 0 /\ presses' = presses
         \/ testingMsg'.event = presses + 1 /\ presses' = presses + 1
  PROVE  EventsInv'
<1> DEFINE m == Len(air) + 2
           s == OnTheWay
           t == OnTheWay'
<1>1. m \in Nat /\ s \in [1 .. m -> Nat] /\ t \in [1 .. m -> Nat]
  BY WayFacts DEF EventsInv, TestingTypes, OnTheWay
<1>2. \A k \in 1 .. m : k # m => t[k] = s[k]
  BY <1>1 DEF OnTheWay, Way
<1>3. t[m] = testingMsg'.event
  BY <1>1 DEF OnTheWay, Way
<1>4. /\ InOrder(s) /\ NoneAgain(fired, s) /\ Confirmed(s, presses)
      /\ m_event_reset => AllAhead(fired, s)
      /\ Confirmed(fired, presses)
      /\ fired \in Seq(Nat) /\ presses \in Nat
  BY DEF EventsInv, WayInv, TestingTypes
<1>5. t[m] = 0 \/ t[m] = presses + 1
  BY <1>3
<1>6. DOMAIN s = 1 .. m /\ DOMAIN t = 1 .. m
  BY <1>1
<1> HIDE DEF m, s, t
<1>7. InOrder(t)
  <2> SUFFICES ASSUME NEW i \in 1 .. m, NEW j \in 1 .. m,
                      i < j, t[i] # 0, t[j] # 0
               PROVE  /\ t[i] <= t[j]
                      /\ \A k \in 1 .. m : i < k /\ k < j /\ t[k] = 0 => t[i] < t[j]
    BY <1>6 DEF InOrder
  <2>1. i # m /\ t[i] = s[i] /\ s[i] <= presses /\ s[i] \in Nat
    BY <1>1, <1>2, <1>4, <1>6 DEF Confirmed
  <2>2. CASE j = m
    BY <2>1, <2>2, <1>4, <1>5
  <2>3. CASE j # m
    <3>1. \A k \in 1 .. m : k < j => t[k] = s[k]
      BY <1>1, <1>2
    <3> QED BY <2>1, <2>3, <3>1, <1>1, <1>2, <1>4, <1>6 DEF InOrder
  <2> QED BY <2>2, <2>3
<1>8. \A n \in DOMAIN fired : fired[n] \in Nat /\ fired[n] <= presses
  BY <1>4 DEF Confirmed
<1>9. NoneAgain(fired, t)
  <2> SUFFICES ASSUME NEW n \in DOMAIN fired, NEW k \in 1 .. m, t[k] # 0
               PROVE  /\ fired[n] <= t[k]
                      /\ \A i \in 1 .. m : i < k /\ t[i] = 0 => fired[n] < t[k]
    BY <1>6 DEF NoneAgain
  <2>1. CASE k = m
    BY <2>1, <1>4, <1>5, <1>8
  <2>2. CASE k # m
    <3>1. \A i \in 1 .. m : i < k => t[i] = s[i]
      BY <1>1, <1>2
    <3> QED BY <2>2, <3>1, <1>2, <1>4, <1>6 DEF NoneAgain
  <2> QED BY <2>1, <2>2
<1>10. AllAhead(fired, s) => AllAhead(fired, t)
  <2> SUFFICES ASSUME AllAhead(fired, s),
                      NEW n \in DOMAIN fired, NEW k \in 1 .. m, t[k] # 0
               PROVE  fired[n] < t[k]
    BY <1>6 DEF AllAhead
  <2>1. CASE k = m
    BY <2>1, <1>4, <1>5, <1>8
  <2>2. CASE k # m
    <3>1. t[k] = s[k]
      BY <2>2, <1>2
    <3> QED BY <3>1, <1>6 DEF AllAhead
  <2> QED BY <2>1, <2>2
<1>11. presses' \in Nat /\ presses <= presses'
  BY <1>4
<1>12. Confirmed(t, presses')
  <2> SUFFICES ASSUME NEW k \in 1 .. m PROVE t[k] <= presses'
    BY <1>6 DEF Confirmed
  <2>1. CASE k = m
    BY <2>1, <1>3, <1>4
  <2>2. CASE k # m
    BY <2>2, <1>1, <1>2, <1>4, <1>6, <1>11 DEF Confirmed
  <2> QED BY <2>1, <2>2
<1>13. Confirmed(fired, presses')
  BY <1>4, <1>8, <1>11 DEF Confirmed
<1> QED
  BY <1>4, <1>7, <1>9, <1>10, <1>12, <1>13 DEF EventsInv, WayInv, t

-----------------------------------------------------------------------------
(* The steps that sample.                                                   *)

(* The first packet arrives or is lost.                                     *)
LEMMA TailSamples ==
  ASSUME NEW sent \in Seq(Message), NEW buffer \in Message, NEW msg \in Message,
         sent # << >>
  PROVE  /\ Samples(Way(Tail(sent), buffer, msg), Way(sent, buffer, msg))
         /\ Way(sent, buffer, msg)[1] = Head(sent).event
         /\ \A k \in 1 .. Len(sent) + 1 :
              Way(Tail(sent), buffer, msg)[k] = Way(sent, buffer, msg)[k + 1]
<1> DEFINE n == Len(sent)
           s == Way(sent, buffer, msg)
           t == Way(Tail(sent), buffer, msg)
           g == [k \in 1 .. n + 1 |-> k + 1]
<1>1. /\ n \in Nat /\ n > 0 /\ Tail(sent) \in Seq(Message) /\ Len(Tail(sent)) = n - 1
      /\ \A k \in 1 .. n - 1 : Tail(sent)[k] = sent[k + 1]
      /\ Head(sent) = sent[1]
  OBVIOUS
<1>2. s \in [1 .. n + 2 -> Nat] /\ t \in [1 .. n + 1 -> Nat]
  <2>1. Len(Tail(sent)) + 2 = n + 1 /\ n + 2 = Len(sent) + 2
    BY <1>1
  <2> QED BY <1>1, <2>1, WayFacts
<1>3. \A k \in 1 .. n + 1 : t[k] = s[k + 1]
  <2> TAKE k \in 1 .. n + 1
  <2>1. k \in 1 .. Len(Tail(sent)) + 2 /\ k + 1 \in 1 .. Len(sent) + 2
    BY <1>1
  <2>2. t[k] = IF k <= n - 1 THEN Tail(sent)[k].event
               ELSE IF k = n THEN buffer.event ELSE msg.event
    BY <1>1, <2>1 DEF Way
  <2>3. s[k + 1] = IF k + 1 <= n THEN sent[k + 1].event
                   ELSE IF k + 1 = n + 1 THEN buffer.event ELSE msg.event
    BY <2>1 DEF Way
  <2> HIDE DEF n, s, t
  <2> QED BY <1>1, <2>2, <2>3
<1>4. s[1] = Head(sent).event
  BY <1>1 DEF Way
<1>5. /\ n + 1 \in Nat /\ n + 2 \in Nat
      /\ g \in [1 .. n + 1 -> 1 .. n + 2]
      /\ \A i, j \in 1 .. n + 1 : i <= j => g[i] <= g[j]
  BY <1>1
<1>6. \A i \in 1 .. n + 1 : t[i] = s[g[i]]
  BY <1>3
<1> DEFINE l == n + 1
           m == n + 2
<1>a. /\ l \in Nat /\ m \in Nat /\ s \in [1 .. m -> Nat] /\ t \in [1 .. l -> Nat]
      /\ g \in [1 .. l -> 1 .. m]
      /\ \A i, j \in 1 .. l : i <= j => g[i] <= g[j]
      /\ \A i \in 1 .. l : t[i] = s[g[i]]
  BY <1>2, <1>5, <1>6
<1> HIDE DEF n, s, t, g, l, m
<1>7. Samples(t, s)
  <2>1. DOMAIN t = 1 .. l /\ DOMAIN s = 1 .. m
    BY <1>a
  <2>2. g \in [DOMAIN t -> DOMAIN s]
    BY <1>a, <2>1
  <2> QED BY <1>a, <2>1, <2>2 DEF Samples
<1> QED BY <1>3, <1>4, <1>7 DEF s, t, n

(* The flight computer restarts and loses what its UART holds.              *)
LEMMA RestSamples ==
  ASSUME NEW sent \in Seq(Message), NEW buffer \in Message, NEW msg \in Message
  PROVE  Samples(Way(<< >>, buffer, msg), Way(sent, buffer, msg))
<1> DEFINE n == Len(sent)
           s == Way(sent, buffer, msg)
           t == Way(<< >>, buffer, msg)
           g == [k \in 1 .. 2 |-> k + n]
<1>1. n \in Nat /\ n + 2 \in Nat /\ << >> \in Seq(Message) /\ Len(<< >>) = 0
  OBVIOUS
<1>2. s \in [1 .. n + 2 -> Nat] /\ t \in [1 .. 2 -> Nat]
  <2>1. Len(<< >>) + 2 = 2
    BY <1>1
  <2> QED BY <1>1, <2>1, WayFacts
<1>3. \A k \in 1 .. 2 : t[k] = s[k + n]
  BY <1>1 DEF Way
<1>4. /\ g \in [1 .. 2 -> 1 .. n + 2]
      /\ \A i, j \in 1 .. 2 : i <= j => g[i] <= g[j]
      /\ \A i \in 1 .. 2 : t[i] = s[g[i]]
  BY <1>1, <1>3
<1> DEFINE l == 2
           m == n + 2
<1>a. /\ l \in Nat /\ m \in Nat /\ s \in [1 .. m -> Nat] /\ t \in [1 .. l -> Nat]
      /\ g \in [1 .. l -> 1 .. m]
      /\ \A i, j \in 1 .. l : i <= j => g[i] <= g[j]
      /\ \A i \in 1 .. l : t[i] = s[g[i]]
  BY <1>1, <1>2, <1>4
<1> HIDE DEF n, s, t, g, l, m
<1>5. Samples(t, s)
  <2>1. DOMAIN t = 1 .. l /\ DOMAIN s = 1 .. m
    BY <1>a
  <2>2. g \in [DOMAIN t -> DOMAIN s]
    BY <1>a, <2>1
  <2> QED BY <1>a, <2>1, <2>2 DEF Samples
<1> QED BY <1>5 DEF s, t

(* The MCU sends its buffer.                                                *)
LEMMA AppendSamples ==
  ASSUME NEW sent \in Seq(Message), NEW buffer \in Message, NEW msg \in Message
  PROVE  Samples(Way(Append(sent, buffer), buffer, msg), Way(sent, buffer, msg))
<1> DEFINE n == Len(sent)
           s == Way(sent, buffer, msg)
           t == Way(Append(sent, buffer), buffer, msg)
           g == [k \in 1 .. n + 3 |-> IF k <= n + 1 THEN k ELSE k - 1]
<1>1. /\ n \in Nat /\ n + 2 \in Nat /\ n + 3 \in Nat
      /\ Append(sent, buffer) \in Seq(Message)
      /\ Len(Append(sent, buffer)) = n + 1
      /\ \A k \in 1 .. n + 1 :
           Append(sent, buffer)[k] = IF k <= n THEN sent[k] ELSE buffer
  OBVIOUS
<1>2. s \in [1 .. n + 2 -> Nat] /\ t \in [1 .. n + 3 -> Nat]
  <2>1. Len(Append(sent, buffer)) + 2 = n + 3 /\ n + 2 = Len(sent) + 2
    BY <1>1
  <2> QED BY <1>1, <2>1, WayFacts
<1>3. /\ g \in [1 .. n + 3 -> 1 .. n + 2]
      /\ \A i, j \in 1 .. n + 3 : i <= j => g[i] <= g[j]
  BY <1>1
<1>4. \A i \in 1 .. n + 3 : t[i] = s[g[i]]
  <2> TAKE i \in 1 .. n + 3
  <2>1. CASE i <= n + 1
    BY <1>1, <2>1 DEF Way
  <2>2. CASE i > n + 1
    BY <1>1, <2>2 DEF Way
  <2> QED BY <1>1, <2>1, <2>2
<1> DEFINE l == n + 3
           m == n + 2
<1>a. /\ l \in Nat /\ m \in Nat /\ s \in [1 .. m -> Nat] /\ t \in [1 .. l -> Nat]
      /\ g \in [1 .. l -> 1 .. m]
      /\ \A i, j \in 1 .. l : i <= j => g[i] <= g[j]
      /\ \A i \in 1 .. l : t[i] = s[g[i]]
  BY <1>1, <1>2, <1>3, <1>4
<1> HIDE DEF n, s, t, g, l, m
<1>5. Samples(t, s)
  <2>1. DOMAIN t = 1 .. l /\ DOMAIN s = 1 .. m
    BY <1>a
  <2>2. g \in [DOMAIN t -> DOMAIN s]
    BY <1>a, <2>1
  <2> QED BY <1>a, <2>1, <2>2 DEF Samples
<1> QED BY <1>5 DEF s, t

(* The message is copied to the buffer.                                     *)
LEMMA CopySamples ==
  ASSUME NEW sent \in Seq(Message), NEW buffer \in Message, NEW msg \in Message
  PROVE  Samples(Way(sent, msg, msg), Way(sent, buffer, msg))
<1> DEFINE n == Len(sent)
           s == Way(sent, buffer, msg)
           t == Way(sent, msg, msg)
           g == [k \in 1 .. n + 2 |-> IF k = n + 1 THEN k + 1 ELSE k]
<1>1. n \in Nat /\ n + 2 \in Nat
  OBVIOUS
<1>2. s \in [1 .. n + 2 -> Nat] /\ t \in [1 .. n + 2 -> Nat]
  BY <1>1, WayFacts
<1>3. /\ g \in [1 .. n + 2 -> 1 .. n + 2]
      /\ \A i, j \in 1 .. n + 2 : i <= j => g[i] <= g[j]
      /\ \A i \in 1 .. n + 2 : t[i] = s[g[i]]
  BY <1>1 DEF Way
<1> DEFINE l == n + 2
<1>a. /\ l \in Nat /\ s \in [1 .. l -> Nat] /\ t \in [1 .. l -> Nat]
      /\ g \in [1 .. l -> 1 .. l]
      /\ \A i, j \in 1 .. l : i <= j => g[i] <= g[j]
      /\ \A i \in 1 .. l : t[i] = s[g[i]]
  BY <1>1, <1>2, <1>3
<1> HIDE DEF n, s, t, g, l
<1>4. Samples(t, s)
  <2>1. DOMAIN t = 1 .. l /\ DOMAIN s = 1 .. l
    BY <1>a
  <2>2. g \in [DOMAIN t -> DOMAIN s]
    BY <1>a, <2>1
  <2> QED BY <1>a, <2>1, <2>2 DEF Samples
<1> QED BY <1>4 DEF s, t

(* A packet arrives and its event is not triggered: it has been, or is 0.   *)
LEMMA Passed ==
  ASSUME EventsInv, TestingTypes', air # << >>, air' = Tail(air),
         UNCHANGED << presses, testingMsg, mcu, fired >>,
         m_event_reset' => m_event_reset \/ Head(air).event = 0
  PROVE  EventsInv'
<1> DEFINE m == Len(air) + 2
           l == Len(air) + 1
           s == OnTheWay
           t == OnTheWay'
<1>1. /\ m \in Nat /\ l \in Nat /\ l + 1 = m
      /\ s \in [1 .. m -> Nat] /\ t \in [1 .. l -> Nat]
  <2>1. Len(air') + 2 = l /\ Len(air) \in Nat
    BY DEF EventsInv, TestingTypes
  <2>2. s \in [1 .. m -> Nat]
    BY WayFacts DEF EventsInv, TestingTypes, OnTheWay
  <2>3. t \in [1 .. Len(air') + 2 -> Nat]
    BY WayFacts DEF TestingTypes, OnTheWay
  <2>4. t \in [1 .. l -> Nat]
    BY <2>1, <2>3
  <2> QED BY <2>1, <2>2, <2>4
<1>2. /\ Samples(t, s) /\ s[1] = Head(air).event
      /\ \A k \in 1 .. l : t[k] = s[k + 1]
  BY TailSamples DEF EventsInv, TestingTypes, OnTheWay
<1>3. /\ InOrder(s) /\ NoneAgain(fired, s) /\ Confirmed(s, presses)
      /\ m_event_reset => AllAhead(fired, s)
      /\ fired \in Seq(Nat) /\ presses \in Nat
      /\ m_event_reset' => m_event_reset \/ s[1] = 0
  BY <1>2 DEF EventsInv, WayInv, TestingTypes
<1> HIDE DEF m, l, s, t
<1>4. /\ InOrder(t) /\ NoneAgain(fired, t) /\ Confirmed(t, presses)
      /\ m_event_reset => AllAhead(fired, t)
  BY <1>1, <1>2, <1>3, SampleKeepsOrder
<1>5. ASSUME s[1] = 0 PROVE AllAhead(fired, t)
  <2> SUFFICES ASSUME NEW n \in DOMAIN fired, NEW k \in 1 .. l, t[k] # 0
               PROVE  fired[n] < t[k]
    BY <1>1 DEF AllAhead
  <2>1. 1 \in 1 .. m /\ k + 1 \in 1 .. m /\ 1 < k + 1
    BY <1>1
  <2>2. s[k + 1] = t[k]
    BY <1>2
  <2>3. DOMAIN s = 1 .. m
    BY <1>1
  <2> QED BY <1>3, <1>5, <2>1, <2>2, <2>3 DEF NoneAgain
<1> QED
  BY <1>3, <1>4, <1>5 DEF EventsInv, WayInv, t

(* A packet arrives and its event is triggered.                             *)
LEMMA Triggered ==
  ASSUME EventsInv, TestingTypes', air # << >>, air' = Tail(air),
         UNCHANGED << presses, testingMsg, mcu >>,
         m_event_reset, ~ m_event_reset', Head(air).event # 0,
         fired' = Append(fired, Head(air).event)
  PROVE  EventsInv'
<1> DEFINE m == Len(air) + 2
           l == Len(air) + 1
           n == Len(fired)
           s == OnTheWay
           t == OnTheWay'
           f == fired'
<1>1. /\ m \in Nat /\ l \in Nat /\ l + 1 = m
      /\ s \in [1 .. m -> Nat] /\ t \in [1 .. l -> Nat]
  <2>1. Len(air') + 2 = l /\ Len(air) \in Nat
    BY DEF EventsInv, TestingTypes
  <2>2. s \in [1 .. m -> Nat]
    BY WayFacts DEF EventsInv, TestingTypes, OnTheWay
  <2>3. t \in [1 .. Len(air') + 2 -> Nat]
    BY WayFacts DEF TestingTypes, OnTheWay
  <2>4. t \in [1 .. l -> Nat]
    BY <2>1, <2>3
  <2> QED BY <2>1, <2>2, <2>4
<1>2. /\ Samples(t, s) /\ s[1] = Head(air).event
      /\ \A k \in 1 .. l : t[k] = s[k + 1]
  BY TailSamples DEF EventsInv, TestingTypes, OnTheWay
<1>3. /\ InOrder(s) /\ NoneAgain(fired, s) /\ Confirmed(s, presses)
      /\ AllAhead(fired, s) /\ Confirmed(fired, presses) /\ Increasing(fired)
      /\ fired \in Seq(Nat) /\ presses \in Nat
      /\ s[1] # 0
  BY <1>2 DEF EventsInv, WayInv, TestingTypes
<1>4. /\ n \in Nat /\ DOMAIN fired = 1 .. n /\ DOMAIN f = 1 .. n + 1
      /\ f[n + 1] = s[1]
      /\ \A i \in 1 .. n : f[i] = fired[i] /\ fired[i] \in Nat
  BY <1>2, <1>3
<1>5. /\ DOMAIN s = 1 .. m /\ DOMAIN t = 1 .. l /\ 1 \in 1 .. m /\ s[1] \in Nat
  BY <1>1
<1> HIDE DEF m, l, n, s, t, f
<1>6. InOrder(t) /\ NoneAgain(fired, t) /\ Confirmed(t, presses)
  BY <1>1, <1>2, <1>3, SampleKeepsOrder
<1>7. \A i \in 1 .. n : fired[i] < s[1]
  BY <1>3, <1>4, <1>5 DEF AllAhead
<1>8. Increasing(f)
  <2> SUFFICES ASSUME NEW i \in 1 .. n + 1, NEW j \in 1 .. n + 1, i < j
               PROVE  f[i] < f[j]
    BY <1>4 DEF Increasing
  <2>1. i \in 1 .. n
    BY <1>4
  <2>2. CASE j = n + 1
    BY <1>4, <1>7, <2>1, <2>2
  <2>3. CASE j # n + 1
    <3>1. j \in 1 .. n
      BY <1>4, <2>3
    <3> QED BY <1>3, <1>4, <2>1, <3>1 DEF Increasing
  <2> QED BY <2>2, <2>3
<1>9. Confirmed(f, presses)
  <2>1. s[1] <= presses
    BY <1>3, <1>5 DEF Confirmed
  <2> SUFFICES ASSUME NEW i \in 1 .. n + 1 PROVE f[i] <= presses
    BY <1>4 DEF Confirmed
  <2>2. i = n + 1 \/ i \in 1 .. n
    BY <1>4
  <2> QED BY <1>3, <1>4, <2>1, <2>2 DEF Confirmed
<1>10. NoneAgain(f, t)
  <2> SUFFICES ASSUME NEW i \in 1 .. n + 1, NEW k \in 1 .. l, t[k] # 0
               PROVE  /\ f[i] <= t[k]
                      /\ \A z \in 1 .. l : z < k /\ t[z] = 0 => f[i] < t[k]
    BY <1>4, <1>5 DEF NoneAgain
  <2>1. CASE i = n + 1
    <3>1. k + 1 \in 1 .. m /\ 1 < k + 1 /\ s[k + 1] = t[k]
      BY <1>1, <1>2
    <3>2. /\ s[1] <= s[k + 1]
          /\ \A z \in 1 .. m : 1 < z /\ z < k + 1 /\ s[z] = 0 => s[1] < s[k + 1]
      BY <1>3, <1>5, <3>1 DEF InOrder
    <3>3. ASSUME NEW z \in 1 .. l, z < k, t[z] = 0 PROVE s[1] < s[k + 1]
      <4>1. z + 1 \in 1 .. m /\ 1 < z + 1 /\ z + 1 < k + 1 /\ s[z + 1] = 0
        BY <1>1, <1>2, <3>3
      <4> QED BY <3>2, <4>1
    <3> QED BY <1>4, <2>1, <3>1, <3>2, <3>3
  <2>2. CASE i # n + 1
    <3>1. i \in 1 .. n
      BY <1>4, <2>2
    <3> QED BY <1>4, <1>5, <1>6, <3>1 DEF NoneAgain
  <2> QED BY <2>1, <2>2
<1> QED
  BY <1>3, <1>6, <1>8, <1>9, <1>10 DEF EventsInv, WayInv, t, f

-----------------------------------------------------------------------------
(* The steps of testing mode.                                               *)

LEMMA ParseTypes == TestingTypes /\ Parse => TestingTypes'
<1> SUFFICES ASSUME TestingTypes, Parse PROVE TestingTypes'
  OBVIOUS
<1>1. Head(air) \in Message /\ Tail(air) \in Seq(Message)
  BY DEF TestingTypes, Parse
<1>2. Head(air).event \in Nat
  BY <1>1 DEF Message
<1>3. fired' \in Seq(Nat)
  <2>1. fired' = fired \/ fired' = Append(fired, Head(air).event)
    BY DEF Parse
  <2>2. \A e \in Nat, f \in Seq(Nat) : Append(f, e) \in Seq(Nat)
    OBVIOUS
  <2> QED BY <1>2, <2>1, <2>2 DEF TestingTypes
<1>4. m_event_reset' \in BOOLEAN
  <2>1. CASE MayTrigger(Head(air))
    BY <2>1 DEF Parse
  <2>2. CASE ~ MayTrigger(Head(air))
    <3>1. m_event_reset' = (m_event_reset \/ Head(air).event = 0)
      BY <2>2 DEF Parse
    <3> QED BY <3>1, Zenon
  <2> QED BY <2>1, <2>2
<1> QED BY <1>1, <1>3, <1>4 DEF TestingTypes, Parse, ground, hmi, setting

LEMMA RebootTypes == TestingTypes /\ Reboot => TestingTypes'
<1> SUFFICES ASSUME TestingTypes, Reboot PROVE TestingTypes'
  OBVIOUS
<1>1. air' = << >> /\ << >> \in Seq(Message)
  BY DEF Reboot
<1>3. m_event_reset' \in BOOLEAN
  BY DEF Reboot
<1>2. UNCHANGED << presses, testingMsg, transmissionMode, mcu, fired >>
  BY DEF Reboot, ground, hmi, setting
<1> QED BY <1>1, <1>2, <1>3 DEF TestingTypes

LEMMA TestingTypesStep == TestingTypes /\ [TestingNext]_testingVars => TestingTypes'
<1> SUFFICES ASSUME TestingTypes, [TestingNext]_testingVars PROVE TestingTypes'
  OBVIOUS
<1> USE DEF TestingTypes, Message, Modes
<1>1. CASE Accept
  BY <1>1 DEF Accept, upd, setting, fc
<1>2. CASE Start
  BY <1>2 DEF Start, Fill, upd, setting, fc
<1>3. CASE Started
  BY <1>3 DEF Started, upd, setting, fc
<1>4. CASE StartTimeOut
  BY <1>4 DEF StartTimeOut, upd, setting, fc
<1>5. CASE LinkLost
  BY <1>5 DEF LinkLost, Fill, upd, setting, fc
<1>6. CASE OpenBox
  BY <1>6 DEF OpenBox, upd, setting, fc
<1>7. CASE CloseBox
  BY <1>7 DEF CloseBox, upd, setting, fc
<1>8. CASE Confirm
  BY <1>8 DEF Confirm, Fill, upd, setting, fc
<1>9. CASE Back
  <2>1. testingMsg' = Nothing \/ testingMsg' = testingMsg
    BY <1>9 DEF Back, Fill, Nothing
  <2>2. testingMsg' \in Message
    <3>1. Nothing \in Message /\ testingMsg \in Message
      BY DEF Nothing
    <3> HIDE DEF Message
    <3> QED BY <2>1, <3>1
  <2>3. UNCHANGED << presses, transmissionMode, mcu, air, fired, m_event_reset >>
    BY <1>9 DEF Back, setting, fc
  <2> QED BY <2>2, <2>3
<1>10. CASE HmiSend
  BY <1>10 DEF HmiSend, Send, upd, setting, fc
<1>11. CASE HmiSetMode
  BY <1>11 DEF HmiSetMode, SetMode, upd, fc
<1>12. CASE HmiFlag
  BY <1>12 DEF HmiFlag, setting, fc
<1>13. CASE UpdSettings
  BY <1>13 DEF UpdSettings, hmi, fc
<1>14. CASE UpdInit
  BY <1>14 DEF UpdInit, hmi, setting, fc
<1>15. CASE UpdExit
  BY <1>15 DEF UpdExit, SetMode, AfterExit, hmi, setting, fc
<1>16. CASE BeginClear
  BY <1>16 DEF BeginClear, Fill, ClearEvent, hmi, setting, fc
<1>17. CASE EndClear
  BY <1>17 DEF EndClear, Send, hmi, setting, fc
<1>18. CASE NoClear
  BY <1>18 DEF NoClear, hmi, setting, fc
<1>19. CASE Uplink
  BY <1>19 DEF Uplink, hmi, upd, setting, fc
<1>20. CASE Lose
  BY <1>20 DEF Lose, hmi, upd, setting, fc
<1>21. CASE Downlink
  BY <1>21 DEF Downlink, hmi, upd, setting, fc
<1>22. CASE Fade
  BY <1>22 DEF Fade, hmi, upd, setting, fc
<1>23. CASE Parse
  BY <1>23, ParseTypes
<1>24. CASE TimeOut
  BY <1>24 DEF TimeOut, ground, hmi, setting, upd
<1>25. CASE Execute
  BY <1>25 DEF Execute, ground, hmi, setting, upd
<1>26. CASE Reboot
  BY <1>26, RebootTypes
<1>27. CASE UNCHANGED testingVars
  BY <1>27 DEF testingVars, hmi, upd, setting, fc
<1> QED
  BY <1>1, <1>2, <1>3, <1>4, <1>5, <1>6, <1>7, <1>8, <1>9, <1>10, <1>11, <1>12, <1>13, <1>14, <1>15, <1>16, <1>17, <1>18, <1>19, <1>20, <1>21, <1>22, <1>23, <1>24, <1>25, <1>26, <1>27
  DEF TestingNext, HmiKey, HmiCall, Update, Radio, Flight

(* Every step keeps what is on the way in order, and none of it fires twice.*)
LEMMA EventsStep == EventsInv /\ [TestingNext]_testingVars => EventsInv'
<1> SUFFICES ASSUME EventsInv, [TestingNext]_testingVars PROVE EventsInv'
  OBVIOUS
<1>0. TestingTypes' /\ TestingTypes
  BY TestingTypesStep DEF EventsInv
<1> DEFINE Aside ==
      UNCHANGED << presses, testingMsg, mcu.payload, air, fired, m_event_reset >>
<1>1. ASSUME Aside PROVE EventsInv'
  BY <1>0, <1>1, NothingMoves
<1>3. CASE Accept \/ Started \/ OpenBox \/ CloseBox
  BY <1>1, <1>3 DEF Accept, Started, OpenBox, CloseBox, fc
<1>4. CASE StartTimeOut
  <2>1. mcu'.payload = mcu.payload
    BY <1>0, <1>4 DEF StartTimeOut, TestingTypes
  <2> QED BY <1>1, <1>4, <2>1 DEF StartTimeOut, fc
<1>5. ASSUME UNCHANGED << mcu, air, fired, m_event_reset, presses >>,
             testingMsg'.event = 0
      PROVE  EventsInv'
  BY <1>0, <1>5, Filled
<1>6. CASE Start \/ LinkLost \/ BeginClear
  BY <1>5, <1>6 DEF Start, LinkLost, BeginClear, Fill, ClearEvent, fc, hmi
<1>7. CASE Back
  <2>1. CASE InSession
    BY <1>5, <1>7, <2>1 DEF Back, Fill, fc
  <2>2. CASE ~ InSession
    BY <1>1, <1>7, <2>2 DEF Back, fc
  <2> QED BY <2>1, <2>2
<1>8. CASE Confirm
  <2>1. /\ UNCHANGED << mcu, air, fired, m_event_reset >>
        /\ testingMsg'.event = presses + 1 /\ presses' = presses + 1
    BY <1>8 DEF Confirm, Fill, fc
  <2> QED BY <1>0, <2>1, Filled
<1>9. CASE HmiSend \/ EndClear
  <2>1. /\ mcu'.payload = testingMsg
        /\ UNCHANGED << presses, testingMsg, air, fired, m_event_reset >>
    BY <1>0, <1>9 DEF HmiSend, EndClear, Send, fc, hmi, TestingTypes
  <2>2. Samples(OnTheWay', OnTheWay)
    BY <1>0, <2>1, CopySamples DEF OnTheWay, TestingTypes
  <2> QED BY <1>0, <2>1, <2>2, Sampled
<1>10. CASE HmiSetMode \/ HmiFlag
  BY <1>1, <1>10 DEF HmiSetMode, HmiFlag, fc
<1>11. CASE UpdSettings \/ UpdInit
  <2>1. mcu'.payload = mcu.payload
    BY <1>0, <1>11 DEF UpdSettings, UpdInit, TestingTypes
  <2> QED BY <1>1, <1>11, <2>1 DEF UpdSettings, UpdInit, hmi, fc
<1>12. CASE UpdExit \/ NoClear \/ Downlink \/ Fade
  BY <1>1, <1>12 DEF UpdExit, NoClear, Downlink, Fade, hmi, fc
<1>13. CASE Uplink
  <2>1. /\ air' = Append(air, mcu.payload)
        /\ UNCHANGED << presses, testingMsg, mcu, fired, m_event_reset >>
    BY <1>13 DEF Uplink, hmi, fc
  <2>2. Samples(OnTheWay', OnTheWay)
    BY <1>0, <2>1, AppendSamples DEF OnTheWay, TestingTypes
  <2> QED BY <1>0, <2>1, <2>2, Sampled
<1>14. CASE Lose
  <2>1. /\ air # << >> /\ air' = Tail(air)
        /\ UNCHANGED << presses, testingMsg, mcu, fired, m_event_reset >>
    BY <1>14 DEF Lose, hmi, fc
  <2> QED BY <1>0, <2>1, Passed
<1>15. CASE Parse
  <2>1. /\ air # << >> /\ air' = Tail(air)
        /\ UNCHANGED << presses, testingMsg, mcu >>
    BY <1>15 DEF Parse, ground, hmi
  <2>2. CASE MayTrigger(Head(air))
    <3>1. /\ m_event_reset /\ ~ m_event_reset' /\ Head(air).event # 0
          /\ fired' = Append(fired, Head(air).event)
      BY <1>15, <2>2 DEF Parse, MayTrigger
    <3> QED BY <1>0, <2>1, <3>1, Triggered
  <2>3. CASE ~ MayTrigger(Head(air))
    <3>1. /\ m_event_reset' => m_event_reset \/ Head(air).event = 0
          /\ fired' = fired
      BY <1>15, <2>3 DEF Parse
    <3> QED BY <1>0, <2>1, <3>1, Passed
  <2> QED BY <2>2, <2>3
<1>16. CASE TimeOut \/ Execute
  BY <1>1, <1>16 DEF TimeOut, Execute, ground, hmi
<1>17. CASE Reboot
  <2>1. /\ air' = << >> /\ ~ m_event_reset'
        /\ UNCHANGED << presses, testingMsg, mcu, fired >>
    BY <1>17 DEF Reboot, ground, hmi
  <2>2. Samples(OnTheWay', OnTheWay)
    BY <1>0, <2>1, RestSamples DEF OnTheWay, TestingTypes
  <2> QED BY <1>0, <2>1, <2>2, Sampled
<1>18. CASE UNCHANGED testingVars
  BY <1>1, <1>18 DEF testingVars, hmi, fc
<1> QED
  BY <1>3, <1>4, <1>6, <1>7, <1>8, <1>9, <1>10, <1>11, <1>12, <1>13, <1>14,
     <1>15, <1>16, <1>17, <1>18
  DEF TestingNext, HmiKey, HmiCall, Update, Radio, Flight

LEMMA EventsInit == TestingInit => EventsInv
<1> SUFFICES ASSUME TestingInit PROVE EventsInv
  OBVIOUS
<1>1. Nothing \in Message /\ Nothing.event = 0
  BY DEF Nothing, Message
<1>2. << >> \in Seq(Message) /\ << >> \in Seq(Nat) /\ Len(<< >>) = 0
  OBVIOUS
<1>3. mcu \in [enabled : BOOLEAN, mode : Modes, payload : Message]
  BY <1>1 DEF TestingInit, Modes
<1>4. TestingTypes
  BY <1>1, <1>2, <1>3 DEF TestingInit, TestingTypes, Modes
<1>5. OnTheWay = [k \in 1 .. 2 |-> 0]
  BY <1>1, <1>2 DEF TestingInit, OnTheWay, Way
<1>6. WayInv
  BY <1>4, <1>5 DEF TestingInit, TestingTypes, WayInv, InOrder, NoneAgain, AllAhead,
     Confirmed, Increasing
<1> QED BY <1>4, <1>6 DEF EventsInv

(***************************************************************************)
(* Every confirmation triggers its event at most once, for every number of *)
(* packets in the air and of sessions, with losses, repetitions and        *)
(* reboots (Telemetry::triggerEvent, Telemetry::update, ParseRxMessage).   *)
(***************************************************************************)
THEOREM EventsFireOnce == TestingSpec => []FiredOnce
<1>1. EventsInv => FiredOnce
  <2> SUFFICES ASSUME EventsInv, NEW i \in 1 .. Len(fired), NEW j \in 1 .. Len(fired),
                      i # j
               PROVE  fired[i] # fired[j]
    BY DEF FiredOnce
  <2>1. /\ fired \in Seq(Nat) /\ Increasing(fired) /\ DOMAIN fired = 1 .. Len(fired)
        /\ Len(fired) \in Nat
    BY DEF EventsInv, WayInv, TestingTypes
  <2>2. i < j \/ j < i
    BY <2>1
  <2>3. fired[i] \in Nat /\ fired[j] \in Nat
    BY <2>1
  <2> QED BY <2>1, <2>2, <2>3 DEF Increasing
<1> QED BY <1>1, EventsInit, EventsStep, PTL DEF TestingSpec

-----------------------------------------------------------------------------
(***************************************************************************)
(* The link after a session.  A session is left with a call that puts the  *)
(* link into bidirectional mode once more and then requests the exit, and  *)
(* the link's task answers the last request by taking the mode back.       *)
(***************************************************************************)

(* The calls that belong to a session are made in one, and so is the box.   *)
CallInSession ==
  /\ hmi_pc \in {"send_enter", "mode_enter", "send_event", "flag_event"} => InSession
  /\ boxWindow => InSession

(* The MCU has the mode of the link, or is going to get it.                 *)
ModeFollows ==
  transmissionMode = "UNIDIRECTIONAL" =>
    newSetting \/ upd_pc = "init" \/ mcu.mode = "UNIDIRECTIONAL"

ExitFollows ==
  ~ InSession /\ hmi_pc = "loop" => Closing \/ transmissionMode = "UNIDIRECTIONAL"

LinkInv == TestingTypes /\ CallInSession /\ ModeFollows /\ ExitFollows

LEMMA SetModeFollows ==
  ASSUME ModeFollows, NEW m \in Modes, SetMode(m), UNCHANGED << upd_pc, mcu >>
  PROVE  ModeFollows'
<1>1. CASE m = transmissionMode
  <2>1. transmissionMode' = transmissionMode /\ (newSetting => newSetting')
    BY <1>1 DEF SetMode
  <2> QED BY <2>1 DEF ModeFollows
<1>2. CASE m # transmissionMode
  <2>1. newSetting'
    BY <1>2 DEF SetMode
  <2> QED BY <2>1 DEF ModeFollows
<1> QED BY <1>1, <1>2

LEMMA ModeStep ==
  TestingTypes /\ ModeFollows /\ [TestingNext]_testingVars => ModeFollows'
<1> SUFFICES ASSUME TestingTypes, ModeFollows, [TestingNext]_testingVars
             PROVE  ModeFollows'
  OBVIOUS
<1>1. ASSUME UNCHANGED << upd_pc, transmissionMode, newSetting >>, mcu'.mode = mcu.mode
      PROVE  ModeFollows'
  BY <1>1 DEF ModeFollows
<1>2. CASE Accept \/ Start \/ Started \/ LinkLost \/ OpenBox \/ CloseBox \/ Confirm \/ Back
  BY <1>1, <1>2 DEF Accept, Start, Started, LinkLost, OpenBox, CloseBox, Confirm, Back,
     upd, setting
<1>3. CASE StartTimeOut
  <2>1. mcu'.mode = mcu.mode
    BY <1>3 DEF StartTimeOut, TestingTypes
  <2> QED BY <1>1, <1>3, <2>1 DEF StartTimeOut, upd, setting
<1>4. CASE HmiSend
  <2>1. mcu'.mode = mcu.mode
    BY <1>4 DEF HmiSend, Send, TestingTypes
  <2> QED BY <1>1, <1>4, <2>1 DEF HmiSend, upd, setting
<1>5. CASE HmiSetMode
  BY <1>5, SetModeFollows DEF HmiSetMode, Modes, upd
<1>6. CASE HmiFlag
  BY <1>1, <1>6 DEF HmiFlag, setting
<1>7. CASE UpdSettings
  <2>1. CASE newSetting
    BY <1>7, <2>1 DEF UpdSettings, ModeFollows
  <2>2. CASE ~ newSetting
    BY <1>7, <2>2 DEF UpdSettings, ModeFollows
  <2> QED BY <2>1, <2>2
<1>8. CASE UpdInit
  <2>1. UNCHANGED << transmissionMode, newSetting >>
    BY <1>8 DEF UpdInit, setting
  <2>2. CASE upd_pc = "init"
    <3>1. mcu'.mode = transmissionMode
      BY <1>8, <2>2 DEF UpdInit, TestingTypes
    <3> QED BY <2>1, <3>1 DEF ModeFollows
  <2>3. CASE upd_pc = "enable"
    <3>1. mcu'.mode = mcu.mode
      BY <1>8, <2>3 DEF UpdInit, TestingTypes
    <3> QED BY <2>1, <2>3, <3>1 DEF ModeFollows
  <2> QED BY <1>8, <2>2, <2>3 DEF UpdInit
<1>9. CASE UpdExit
  <2>1. upd_pc # "init" /\ mcu' = mcu
    BY <1>9 DEF UpdExit
  <2>2. UNCHANGED << transmissionMode, newSetting >> \/ SetMode("UNIDIRECTIONAL")
    BY <1>9 DEF UpdExit, setting, AfterExit
  <2>3. CASE UNCHANGED << transmissionMode, newSetting >>
    BY <2>1, <2>3 DEF ModeFollows
  <2>4. CASE SetMode("UNIDIRECTIONAL")
    BY <2>1, <2>4 DEF ModeFollows, SetMode
  <2> QED BY <2>2, <2>3, <2>4
<1>10. CASE BeginClear \/ NoClear
  BY <1>10 DEF BeginClear, NoClear, AtTrigger, setting, ModeFollows
<1>11. CASE EndClear
  <2>1. mcu'.mode = mcu.mode
    BY <1>11 DEF EndClear, Send, TestingTypes
  <2> QED BY <1>11, <2>1 DEF EndClear, setting, ModeFollows
<1>12. CASE Uplink \/ Lose \/ Downlink \/ Fade
  BY <1>1, <1>12 DEF Uplink, Lose, Downlink, Fade, upd, setting
<1>13. CASE Flight
  BY <1>1, <1>13 DEF Flight, Parse, TimeOut, Execute, Reboot, ground, upd, setting
<1>14. CASE UNCHANGED testingVars
  BY <1>1, <1>14 DEF testingVars, upd, setting
<1> QED
  BY <1>2, <1>3, <1>4, <1>5, <1>6, <1>7, <1>8, <1>9, <1>10, <1>11, <1>12, <1>13, <1>14
  DEF TestingNext, HmiKey, HmiCall, Update, Radio

LEMMA CallStep == CallInSession /\ [TestingNext]_testingVars => CallInSession'
<1> SUFFICES ASSUME CallInSession, [TestingNext]_testingVars PROVE CallInSession'
  OBVIOUS
<1> USE DEF CallInSession, InSession
<1>1. CASE HmiKey
  <2>1. CASE Accept \/ Back
    BY <1>1, <2>1 DEF Accept, Back, HmiLoop, Fill
  <2>2. CASE Start \/ Started \/ StartTimeOut
    BY <2>2 DEF Start, Started, StartTimeOut, HmiLoop
  <2>3. CASE LinkLost \/ OpenBox \/ CloseBox \/ Confirm
    BY <2>3 DEF LinkLost, OpenBox, CloseBox, Confirm, HmiLoop
  <2> QED BY <1>1, <2>1, <2>2, <2>3 DEF HmiKey
<1>2. CASE HmiCall
  BY <1>2 DEF HmiCall, HmiSend, HmiSetMode, HmiFlag
<1>3. ASSUME UNCHANGED hmi PROVE CallInSession'
  BY <1>3 DEF hmi
<1>4. CASE Update
  BY <1>3, <1>4 DEF Update, UpdSettings, UpdInit, UpdExit, BeginClear, EndClear, NoClear
<1>5. CASE Radio
  BY <1>3, <1>5 DEF Radio, Uplink, Lose, Downlink, Fade
<1>6. CASE Flight
  BY <1>3, <1>6 DEF Flight, Parse, TimeOut, Execute, Reboot, ground
<1>7. CASE UNCHANGED testingVars
  BY <1>3, <1>7 DEF testingVars
<1> QED BY <1>1, <1>2, <1>4, <1>5, <1>6, <1>7 DEF TestingNext

LEMMA ExitStep ==
  CallInSession /\ ExitFollows /\ [TestingNext]_testingVars => ExitFollows'
<1> SUFFICES ASSUME CallInSession, ExitFollows, [TestingNext]_testingVars
             PROVE  ExitFollows'
  OBVIOUS
<1> USE DEF CallInSession, ExitFollows, InSession, Closing
<1>1. CASE HmiKey
  <2>1. UNCHANGED << requestExitTesting, upd_pc, transmissionMode >>
    BY <1>1 DEF HmiKey, Accept, Start, Started, StartTimeOut, LinkLost, OpenBox,
       CloseBox, Confirm, Back, upd, setting
  <2>2. ~ InSession' /\ hmi_pc' = "loop" => ~ InSession /\ hmi_pc = "loop"
    BY <1>1 DEF HmiKey, Accept, Start, Started, StartTimeOut, LinkLost, OpenBox,
       CloseBox, Confirm, Back, HmiLoop
  <2> QED BY <2>1, <2>2
<1>2. CASE HmiCall
  BY <1>2 DEF HmiCall, HmiSend, HmiSetMode, HmiFlag, upd, setting
<1>3. CASE UpdExit
  BY <1>3 DEF UpdExit, hmi, setting, SetMode, AfterExit
<1>4. CASE UpdSettings \/ UpdInit \/ BeginClear \/ EndClear \/ NoClear
  BY <1>4 DEF UpdSettings, UpdInit, BeginClear, EndClear, NoClear, AtTrigger, hmi, setting
<1>5. ASSUME UNCHANGED << hmi, upd, setting >> PROVE ExitFollows'
  BY <1>5 DEF hmi, upd, setting
<1>6. CASE Radio
  BY <1>5, <1>6 DEF Radio, Uplink, Lose, Downlink, Fade
<1>7. CASE Flight
  BY <1>5, <1>7 DEF Flight, Parse, TimeOut, Execute, Reboot, ground
<1>8. CASE UNCHANGED testingVars
  BY <1>5, <1>8 DEF testingVars
<1> QED BY <1>1, <1>2, <1>3, <1>4, <1>6, <1>7, <1>8 DEF TestingNext, Update

(***************************************************************************)
(* After a session the link is unidirectional or about to be, in every     *)
(* order of the HMI task and the link's task (Telemetry::exitTesting,      *)
(* Telemetry::update).                                                     *)
(***************************************************************************)
THEOREM UplinkClosesAgain == TestingSpec => []UplinkCloses
<1>1. TestingInit => LinkInv
  BY EventsInit DEF EventsInv, TestingInit, LinkInv, CallInSession, ModeFollows, ExitFollows, InSession
<1>2. LinkInv /\ [TestingNext]_testingVars => LinkInv'
  BY TestingTypesStep, ModeStep, CallStep, ExitStep DEF LinkInv
<1>3. LinkInv => UplinkCloses
  BY DEF LinkInv, UplinkCloses, ModeFollows, ExitFollows
<1> QED BY <1>1, <1>2, <1>3, PTL DEF TestingSpec
=============================================================================
