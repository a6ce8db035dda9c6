--------------------------- MODULE NetLoopProofs ---------------------------
(***************************************************************************)
(* Proofs about the network loop for any number of devices, any retry      *)
(* policy and any outcome of the drivers' init().                          *)
(***************************************************************************)
EXTENDS NetLoop, TLAPS

\* The loop's invariant: types, an armed timeout, a consistent pause.
LoopInv == TypeOK /\ TimerArmed /\ PauseConsistent

\* Moving any number of places over the circular list yields a device.
LEMMA HopType ==
  ASSUME NEW d \in Int, NEW k \in Int PROVE Hop(d, k) \in Dev
BY NetLoopAssumption DEF Hop, Dev

\* What NetStartAgain() leaves behind, whatever the rotation does: typed
\* device state, and either a state that ends the turn or the pause.
LEMMA StartAgainOutcome ==
  ASSUME TypeOK,
         NEW ns \in {"CONTINUE", "RESTART", "SUCCESS", "FAIL"},
         NEW th \in {"none", "proto", "startAgain"},
         NEW t \in SUBSET Dev,
         NetStartAgain(ns, th, t)
  PROVE  /\ NetState' \in {"CONTINUE", "RESTART", "SUCCESS", "FAIL"}
         /\ NetTryCount' \in 1 .. MaxTryCount
         /\ NetRestartWrap' \in BOOLEAN
         /\ eth_current' \in Dev
         /\ first_failed' \in Dev \union {NoDev}
         /\ timeHandler' \in {"none", "proto", "startAgain"}
         /\ packetHandler' \in {"none", "proto", "startAgain"}
         /\ tried' \subseteq Dev
         /\ \/ NetState' \in {"RESTART", "FAIL"}
            \/ timeHandler' = "startAgain" /\ packetHandler' = "startAgain"
<1>1. CASE RetriesSpent
  BY <1>1 DEF NetStartAgain, GiveUp, TypeOK, devVars
<1>2. CASE ~RetriesSpent
  <2>1. PICK up \in InitSets, h \in 0 .. NDev : TryNextDevice(ns, th, t, up, h)
    BY <1>2 DEF NetStartAgain
  <2> DEFINE next == IF EthRotate THEN Hop(eth_current, 1) ELSE eth_current
  <2>2. next \in Dev
    <3>1. eth_current \in Dev /\ eth_current \in Int
      BY NetLoopAssumption DEF TypeOK, Dev
    <3>2. Hop(eth_current, 1) \in Dev
      BY <3>1, HopType
    <3> QED BY <3>1, <3>2
  <2>3. \A j \in Int : Hop(next, j) \in Dev
    <3> HIDE DEF next
    <3>1. next \in Int
      BY <2>2, NetLoopAssumption DEF Dev
    <3> QED BY <3>1, HopType
  <2>4. eth_current' \in Dev /\ tried' \subseteq Dev
    BY <2>1, <2>2, <2>3 DEF TryNextDevice
  <2>5. NetTryCount' \in 1 .. MaxTryCount
    BY <2>1, NetLoopAssumption DEF TryNextDevice, TypeOK
  <2>6. first_failed' \in Dev \union {NoDev} /\ NetRestartWrap' \in BOOLEAN
    BY <2>1 DEF TryNextDevice, TypeOK
  <2> QED BY <2>1, <2>4, <2>5, <2>6 DEF TryNextDevice, TypeOK
<1> QED BY <1>1, <1>2

\* A send leaves the ARP state typed.
LEMMA MaySendType ==
  ASSUME TypeOK, MaySend
  PROVE  NetArpWait' \in BOOLEAN /\ NetArpWaitTry' \in 0 .. ArpTimeoutCount
<1>1. CASE SendStartsArp
  <2>1. NetArpWait' \in BOOLEAN
    BY <1>1, Zenon DEF SendStartsArp
  <2>2. NetArpWaitTry' \in 0 .. ArpTimeoutCount
    BY <1>1, NetLoopAssumption DEF SendStartsArp
  <2> QED BY <2>1, <2>2
<1>2. CASE UNCHANGED arpVars
  BY <1>2 DEF arpVars, TypeOK
<1> QED BY <1>1, <1>2 DEF MaySend

\* The invariant is inductive: one step per action of the loop.
LEMMA LoopInvStep == LoopInv /\ [Next]_loopVars => LoopInv'
<1> SUFFICES ASSUME LoopInv, [Next]_loopVars PROVE LoopInv'
  OBVIOUS
<1> USE DEF LoopInv
<1>1. CASE NetLoopCall
  <2>1. PICK d \in Dev, up \in InitSets, h \in 0 .. NDev :
          /\ eth_current' = Hop(d, h)
          /\ NetRestartWrap' = (NetRestartWrap \/ Passes(d, h, first_failed))
          /\ tried' = {Hop(d, j) : j \in 0 .. h - 1}
          /\ pc' \in {"restart", "idle"}
    BY <1>1 DEF NetLoopCall
  <2>2. d \in Int /\ h \in Int
    BY NetLoopAssumption DEF Dev
  <2>3. \A j \in Int : Hop(d, j) \in Dev
    BY <2>2, HopType
  <2>4. eth_current' \in Dev /\ tried' \subseteq Dev
    BY <2>1, <2>2, <2>3
  <2>5. NetTryCount' \in 1 .. MaxTryCount
    BY <1>1, NetLoopAssumption DEF NetLoopCall
  <2>6. NetRestartWrap' \in BOOLEAN
    BY <2>1
  <2>7. TypeOK'
    BY <1>1, <2>1, <2>4, <2>5, <2>6 DEF NetLoopCall, TypeOK
  <2> QED BY <2>1, <2>7 DEF TimerArmed, PauseConsistent, InLoop
<1>2. CASE RestartNoMac
  <2>1. tried \union {eth_current} \in SUBSET Dev
    BY DEF TypeOK
  <2>2. NetStartAgain("CONTINUE", timeHandler, tried \union {eth_current})
    BY <1>2 DEF RestartNoMac
  <2> QED
    BY <1>2, <2>1, <2>2, StartAgainOutcome
    DEF RestartNoMac, TypeOK, TimerArmed, PauseConsistent, InLoop, arpVars
<1>2a. CASE RestartNoPrereq
  BY <1>2a
  DEF RestartNoPrereq, TypeOK, TimerArmed, PauseConsistent, InLoop, devVars,
      arpVars, hist
<1>3. CASE RestartBegin /\ MaySend
  <2>1. NetArpWait' \in BOOLEAN /\ NetArpWaitTry' \in 0 .. ArpTimeoutCount
    BY <1>3, MaySendType
  <2>2. NetDevExists' \in BOOLEAN
    BY <1>3, Zenon DEF RestartBegin
  <2> QED
    BY <1>3, <2>1, <2>2
    DEF RestartBegin, TypeOK, TimerArmed, PauseConsistent, InLoop, devVars
<1>4. CASE RxPacket
  <2>1. /\ pc' = pc /\ pc = "rx" /\ packetHandler = "proto"
        /\ NetRestarted' = NetRestarted /\ NetDevExists' = NetDevExists
        /\ NetArpWait' \in BOOLEAN /\ NetArpWaitTry' \in 0 .. ArpTimeoutCount
    BY <1>4, MaySendType DEF RxPacket
  <2>2. CASE HandlerStartsAgain
    <3>1. NetStartAgain(NetState, timeHandler, tried) /\ tried \in SUBSET Dev
      BY <2>2 DEF HandlerStartsAgain, TypeOK
    <3> QED
      BY <2>1, <2>2, <3>1, StartAgainOutcome
      DEF HandlerStartsAgain, TypeOK, TimerArmed, PauseConsistent, InLoop
  <2>3. CASE \/ HandlerIgnores \/ HandlerRearms
             \/ HandlerSucceeds \/ HandlerFails
    BY <2>1, <2>3
    DEF HandlerIgnores, HandlerRearms, HandlerSucceeds, HandlerFails, TypeOK,
        TimerArmed, PauseConsistent, InLoop, devVars, hist
  <2> QED BY <1>4, <2>2, <2>3 DEF RxPacket
<1>5. CASE RxDone \/ CtrlC \/ ArpNotExpired \/ TimerNotExpired
  BY <1>5
  DEF RxDone, CtrlC, ArpNotExpired, TimerNotExpired, TypeOK, TimerArmed,
      PauseConsistent, InLoop, devVars, arpVars, hist
<1>4a. CASE RxNoHandler \/ Lost
  BY <1>4a
  DEF RxNoHandler, Lost, TypeOK, TimerArmed, PauseConsistent, InLoop, loopVars, devVars,
      arpVars, hist
<1>5a. CASE RxArpReply
  <2>1. NetArpWait' \in BOOLEAN
    BY <1>5a, Zenon DEF RxArpReply
  <2> QED
    BY <1>5a, <2>1
    DEF RxArpReply, TypeOK, TimerArmed, PauseConsistent, InLoop, devVars, hist
<1>6. CASE ArpRetry
  BY <1>6, NetLoopAssumption
  DEF ArpRetry, TypeOK, TimerArmed, PauseConsistent, InLoop, devVars, hist
<1>7. CASE ArpGiveUp
  <2>1. NetStartAgain(NetState, timeHandler, tried) /\ tried \in SUBSET Dev
    BY <1>7 DEF ArpGiveUp, TypeOK
  <2> QED
    BY <1>7, <2>1, StartAgainOutcome, NetLoopAssumption
    DEF ArpGiveUp, TypeOK, TimerArmed, PauseConsistent, InLoop
<1>8. CASE StartAgainTimeout \/ ProtoTimeoutResends
  <2>1. NetArpWait' \in BOOLEAN /\ NetArpWaitTry' \in 0 .. ArpTimeoutCount
    BY <1>8, MaySendType
    DEF StartAgainTimeout, ProtoTimeoutResends, TypeOK, arpVars
  <2> QED
    BY <1>8, <2>1
    DEF StartAgainTimeout, ProtoTimeoutResends, TypeOK, TimerArmed,
        PauseConsistent, InLoop, devVars, hist
<1>8a. CASE ProtoTimeoutEnds
  <2>1. protoFailed' \in BOOLEAN
    BY <1>8a DEF ProtoTimeoutEnds
  <2> QED
    BY <1>8a, <2>1
    DEF ProtoTimeoutEnds, TypeOK, TimerArmed, PauseConsistent, InLoop,
        devVars, arpVars
<1>9. CASE ProtoTimeoutStartsAgain
  <2>1. NetStartAgain(NetState, "none", tried) /\ tried \in SUBSET Dev
    BY <1>9 DEF ProtoTimeoutStartsAgain, TypeOK
  <2> QED
    BY <1>9, <2>1, StartAgainOutcome
    DEF ProtoTimeoutStartsAgain, TypeOK, TimerArmed, PauseConsistent, InLoop,
        arpVars
<1>10. CASE SwitchContinue \/ SwitchRestart \/ SwitchReturn
  <2>1. CASE SwitchContinue
    BY <2>1 DEF SwitchContinue, TypeOK, TimerArmed, PauseConsistent, InLoop,
                devVars, arpVars, hist
  <2>2. CASE SwitchRestart
    BY <2>2 DEF SwitchRestart, TypeOK, TimerArmed, PauseConsistent, InLoop,
                devVars, arpVars, hist
  <2>3. CASE SwitchReturn
    BY <2>3 DEF SwitchReturn, TypeOK, TimerArmed, PauseConsistent, InLoop,
                devVars, arpVars, hist
  <2> QED BY <1>10, <2>1, <2>2, <2>3
<1>11. CASE UNCHANGED loopVars
  BY <1>11
  DEF loopVars, TypeOK, TimerArmed, PauseConsistent, InLoop, devVars, arpVars,
      hist
<1> QED
  BY <1>1, <1>2, <1>3, <1>4, <1>5, <1>6, <1>7, <1>8, <1>9, <1>10, <1>11,
     <1>2a, <1>4a, <1>5a, <1>8a
  DEF Next

\* The initial state satisfies it.
LEMMA LoopInvInit == Init => LoopInv
<1> SUFFICES ASSUME Init PROVE LoopInv
  OBVIOUS
<1>1. /\ NetRestarted \in BOOLEAN /\ NetDevExists \in BOOLEAN
      /\ NetRestartWrap \in BOOLEAN /\ NetArpWait \in BOOLEAN
      /\ protoFailed \in BOOLEAN
  BY Zenon DEF Init
<1>2. /\ NetTryCount \in 1 .. MaxTryCount /\ eth_current \in Dev
      /\ first_failed \in Dev \union {NoDev}
      /\ NetArpWaitTry \in 0 .. ArpTimeoutCount
  BY NetLoopAssumption DEF Init, Dev
<1> QED
  BY <1>1, <1>2 DEF Init, LoopInv, TypeOK, TimerArmed, PauseConsistent, InLoop

\* Every variable of the loop keeps its type, for every number of devices.
THEOREM LoopTypeCorrect == Spec => []TypeOK
BY LoopInvInit, LoopInvStep, PTL DEF Spec, LoopInv

\* While NetLoop() runs in NETLOOP_CONTINUE a timeout is always armed: for
\* every number of devices, every retry policy, every behaviour of the protocol
\* in the loop and every outcome of the drivers' init().
THEOREM LoopNeverHangs == Spec => []TimerArmed
BY LoopInvInit, LoopInvStep, PTL DEF Spec, LoopInv

\* NetStartAgain() installs both handlers of the pause or none: whenever the
\* loop goes on, the packet handler is the pause's exactly if the timeout
\* handler is, under the same conditions.
THEOREM PauseNeverHalf == Spec => []PauseConsistent
BY LoopInvInit, LoopInvStep, PTL DEF Spec, LoopInv

-----------------------------------------------------------------------------
(***************************************************************************)
(* The rotation over devices without a MAC address, when every init()      *)
(* succeeds.  The devices tried so far are an arc of the circular list     *)
(* that begins at first_failed and ends before eth_current.                *)
(***************************************************************************)
\* The first k devices of the circle, from d on.
Arc(d, k) == {Hop(d, j) : j \in 0 .. k - 1}

ArcTried == \E k \in 1 .. NDev - 1 :
              /\ first_failed \in Dev
              /\ eth_current = Hop(first_failed, k)
              /\ tried = Arc(first_failed, k)

Forward == EthRotate => ArcTried

\* Before any protocol was started nothing but the rotation acts: no timer, no
\* ARP wait, and the loop is on its way to the next device or has tried all.
RotationInv ==
  packetHandler = "none" =>
    /\ timeHandler = "none" /\ ~NetArpWait /\ ~NetDevExists /\ ~NetRestartWrap
    /\ pc = "restart" => IF NetRestarted THEN Forward ELSE tried = {}
    /\ InLoop => \/ NetState = "RESTART" /\ Forward
                 \/ NetState = "FAIL" /\ (RetryForever => tried = Dev)

\* Hop() without the modulus.
LEMMA HopIs ==
  ASSUME NEW d \in Dev, NEW k \in 0 .. NDev
  PROVE  Hop(d, k) = IF d + k < NDev THEN d + k ELSE d + k - NDev
BY NetLoopAssumption DEF Hop, Dev

\* When every init() succeeds, eth_init() stops at the device it is called for.
LEMMA StopsAtOnce ==
  ASSUME InitSets = {Dev}, NEW d \in Dev, NEW up \in InitSets, NEW h \in 0 .. NDev,
         InitStops(d, up, h)
  PROVE  h = 0 /\ Hop(d, h) = d
<1>1. h = 0
  <2>1. SUFFICES ASSUME EthRotate, h # 0 PROVE FALSE
    BY DEF InitStops
  <2>2. 0 \in 0 .. h - 1 /\ d \in Int
    BY <2>1, NetLoopAssumption DEF Dev
  <2>3. Hop(d, 0) \in Dev
    BY <2>2, HopType
  <2> QED BY <2>1, <2>2, <2>3 DEF InitStops
<1>2. Hop(d, 0) = d
  BY HopIs, NetLoopAssumption DEF Dev
<1> QED BY <1>1, <1>2

\* One device further on the circle: the arc grows by the device left behind,
\* and it is the whole circle when the next device is the first one.
LEMMA ArcGrows ==
  ASSUME NEW d \in Dev, NEW k \in 0 .. NDev - 1
  PROVE  /\ Hop(Hop(d, k), 1) = Hop(d, k + 1)
         /\ Arc(d, k + 1) = Arc(d, k) \union {Hop(d, k)}
         /\ Hop(d, k + 1) = d <=> k + 1 = NDev
         /\ Arc(d, 0) = {} /\ Arc(d, NDev) = Dev
<1>0. NDev \in Nat /\ NDev > 0 /\ d \in Int
  BY NetLoopAssumption DEF Dev
<1>1. Hop(d, k) \in Dev
  BY <1>0, HopType
<1>2. Hop(Hop(d, k), 1) = Hop(d, k + 1)
  BY <1>0, <1>1, HopIs DEF Dev
<1>3. Arc(d, k + 1) = Arc(d, k) \union {Hop(d, k)}
  <2>1. 0 .. (k + 1) - 1 = (0 .. k - 1) \union {k}
    BY <1>0
  <2> QED BY <2>1 DEF Arc
<1>4. Hop(d, k + 1) = d <=> k + 1 = NDev
  BY <1>0, HopIs DEF Dev
<1>5. Arc(d, 0) = {}
  BY DEF Arc
<1>6. Arc(d, NDev) = Dev
  <2>1. \A j \in 0 .. NDev - 1 : Hop(d, j) \in Dev
    BY <1>0, HopType
  <2>2. ASSUME NEW e \in Dev PROVE \E j \in 0 .. NDev - 1 : Hop(d, j) = e
    <3>1. CASE e >= d
      <4>1. e - d \in 0 .. NDev - 1 /\ Hop(d, e - d) = e
        BY <1>0, <3>1, HopIs DEF Dev
      <4> QED BY <4>1
    <3>2. CASE e < d
      <4>1. e - d + NDev \in 0 .. NDev - 1 /\ Hop(d, e - d + NDev) = e
        BY <1>0, <3>2, HopIs DEF Dev
      <4> QED BY <4>1
    <3> QED BY <1>0, <3>1, <3>2 DEF Dev
  <2> QED BY <2>1, <2>2 DEF Arc
<1> QED BY <1>2, <1>3, <1>4, <1>5, <1>6

\* NetStartAgain() for a device without a MAC address keeps the arc.
LEMMA NoMacRotates ==
  ASSUME InitSets = {Dev}, TypeOK, RotationInv, packetHandler = "none", RestartNoMac
  PROVE  /\ packetHandler' = "none" /\ timeHandler' = "none" /\ ~NetRestartWrap'
         /\ \/ NetState' = "RESTART" /\ Forward'
            \/ NetState' = "FAIL" /\ (RetryForever => tried' = Dev)
<1>0. /\ timeHandler = "none" /\ ~NetDevExists /\ ~NetRestartWrap /\ eth_current \in Dev
      /\ IF NetRestarted THEN Forward ELSE tried = {}
  BY DEF RestartNoMac, RotationInv, TypeOK
<1> DEFINE t == tried \union {eth_current}
<1>1. NetStartAgain("CONTINUE", "none", t)
  BY <1>0 DEF RestartNoMac
<1>2. CASE RetriesSpent
  BY <1>0, <1>1, <1>2 DEF NetStartAgain, GiveUp, RetriesSpent, devVars
<1>3. CASE ~RetriesSpent
  <2>1. PICK up \in InitSets, h \in 0 .. NDev : TryNextDevice("CONTINUE", "none", t, up, h)
    BY <1>1, <1>3 DEF NetStartAgain
  <2> DEFINE ff   == IF EthRotate /\ ~NetRestarted THEN eth_current ELSE first_failed
             next == IF EthRotate THEN Hop(eth_current, 1) ELSE eth_current
  <2>2. next \in Dev
    <3>1. eth_current \in Int
      BY <1>0, NetLoopAssumption DEF Dev
    <3> QED BY <1>0, <3>1, HopType
  <2>3. h = 0 /\ Hop(next, h) = next
    BY <2>1, <2>2, StopsAtOnce DEF TryNextDevice
  <2>4. /\ first_failed' = ff /\ eth_current' = next /\ tried' = t /\ ~NetRestartWrap'
        /\ packetHandler' = "none" /\ timeHandler' = "none"
        /\ NetState' = IF EthRotate /\ Hop(eth_current, 1) = ff THEN "FAIL" ELSE "RESTART"
    <3>1. Passes(eth_current, 1 + h, ff) <=> Hop(eth_current, 1) = ff
      <4>1. 1 .. 1 + h = {1}
        BY <2>3
      <4> QED BY <4>1 DEF Passes
    <3>2. tried' = t
      <4>1. 0 .. h - 1 = {}
        BY <2>3
      <4> QED BY <2>1, <4>1 DEF TryNextDevice
    <3> QED BY <1>0, <2>1, <2>3, <3>1, <3>2 DEF TryNextDevice
  <2>5. CASE ~EthRotate
    BY <2>4, <2>5 DEF Forward
  <2>6. CASE EthRotate
    <3>1. PICK k \in 0 .. NDev - 1 : /\ ff \in Dev /\ eth_current = Hop(ff, k)
                                    /\ tried = Arc(ff, k)
      <4>1. CASE NetRestarted
        BY <1>0, <2>6, <4>1, NetLoopAssumption DEF Forward, ArcTried
      <4>2. CASE ~NetRestarted
        <5>1. 0 \in 0 .. NDev - 1 /\ Hop(eth_current, 0) = eth_current
          BY <1>0, HopIs, NetLoopAssumption DEF Dev
        <5>2. Arc(eth_current, 0) = {}
          BY <1>0, <5>1, ArcGrows
        <5> QED BY <1>0, <2>6, <4>2, <5>1, <5>2
      <4> QED BY <4>1, <4>2
    <3> HIDE DEF ff
    <3>2. /\ next = Hop(ff, k + 1) /\ t = Arc(ff, k + 1)
          /\ Hop(ff, k + 1) = ff <=> k + 1 = NDev
          /\ Arc(ff, NDev) = Dev
      BY <2>6, <3>1, ArcGrows
    <3>3. CASE k + 1 = NDev
      <4>1. tried' = Dev /\ NetState' = "FAIL"
        BY <2>4, <2>6, <3>2, <3>3
      <4> QED BY <2>4, <4>1
    <3>4. CASE k + 1 # NDev
      <4>1. k + 1 \in 1 .. NDev - 1
        BY <3>4, NetLoopAssumption
      <4>2. ArcTried'
        BY <2>4, <3>1, <3>2, <4>1 DEF ArcTried, Arc, Hop
      <4> QED BY <2>4, <2>6, <3>2, <3>4, <4>2 DEF Forward
    <3> QED BY <3>3, <3>4
  <2> QED BY <2>5, <2>6
<1> QED BY <1>2, <1>3

\* The rotation stays in order with every step of the loop.
LEMMA RotationStep ==
  ASSUME InitSets = {Dev}
  PROVE  TypeOK /\ RotationInv /\ [Next]_loopVars => RotationInv'
<1> SUFFICES ASSUME TypeOK, RotationInv, [Next]_loopVars, packetHandler' = "none"
             PROVE  /\ timeHandler' = "none" /\ ~NetArpWait' /\ ~NetDevExists'
                    /\ ~NetRestartWrap'
                    /\ pc' = "restart" => IF NetRestarted' THEN Forward' ELSE tried' = {}
                    /\ InLoop' => \/ NetState' = "RESTART" /\ Forward'
                                  \/ NetState' = "FAIL" /\ (RetryForever => tried' = Dev)
  BY DEF RotationInv
\* The arc is a matter of three variables.
<1>a. ASSUME UNCHANGED <<first_failed, eth_current, tried>> PROVE Forward' <=> Forward
  BY <1>a DEF Forward, ArcTried, Arc, Hop
<1>1. CASE NetLoopCall
  <2>1. PICK d \in Dev, up \in InitSets, h \in 0 .. NDev :
          /\ InitStops(d, up, h)
          /\ NetRestartWrap' = (NetRestartWrap \/ Passes(d, h, first_failed))
          /\ tried' = {Hop(d, j) : j \in 0 .. h - 1}
          /\ pc' \in {"restart", "idle"}
    BY <1>1 DEF NetLoopCall
  <2>2. h = 0
    BY <2>1, StopsAtOnce
  <2>3. 1 .. h = {} /\ 0 .. h - 1 = {}
    BY <2>2
  <2>4. tried' = {} /\ NetRestartWrap' = NetRestartWrap
    <3>1. ~Passes(d, h, first_failed)
      BY <2>3 DEF Passes
    <3>2. tried' = {}
      BY <2>1, <2>3
    <3> QED BY <2>1, <3>1, <3>2 DEF TypeOK
  <2> QED BY <1>1, <2>1, <2>4 DEF NetLoopCall, RotationInv, InLoop
<1>2. CASE RestartNoMac
  <2>1. packetHandler = "none"
    <3>1. NetStartAgain("CONTINUE", timeHandler, tried \union {eth_current})
      BY <1>2 DEF RestartNoMac
    <3> QED BY <3>1 DEF NetStartAgain, GiveUp, TryNextDevice
  <2> QED
    BY <1>2, <2>1, NoMacRotates DEF RestartNoMac, RotationInv, arpVars
<1>3. CASE RestartNoPrereq
  BY <1>3 DEF RestartNoPrereq, RotationInv, InLoop, devVars, arpVars, hist
<1>4. CASE RestartBegin /\ MaySend
  BY <1>4 DEF RestartBegin
<1>5. CASE RxPacket
  BY <1>5 DEF RxPacket, HandlerIgnores, HandlerRearms, HandlerSucceeds, HandlerFails,
              HandlerStartsAgain, NetStartAgain, GiveUp, TryNextDevice
<1>5a. CASE RxNoHandler \/ Lost
  BY <1>a, <1>5a DEF RxNoHandler, Lost, RotationInv, InLoop, loopVars, devVars, arpVars, hist
<1>6. CASE RxArpReply \/ ArpRetry
  BY <1>6 DEF RxArpReply, ArpRetry, RotationInv
<1>7. CASE ArpGiveUp
  BY <1>7 DEF ArpGiveUp, RotationInv, NetStartAgain, GiveUp, TryNextDevice
<1>8. CASE RxDone \/ CtrlC \/ ArpNotExpired \/ TimerNotExpired
  BY <1>a, <1>8
  DEF RxDone, CtrlC, ArpNotExpired, TimerNotExpired, RotationInv, InLoop, devVars,
      arpVars, hist
<1>9. CASE \/ StartAgainTimeout \/ ProtoTimeoutResends \/ ProtoTimeoutEnds
           \/ ProtoTimeoutStartsAgain
  BY <1>9
  DEF StartAgainTimeout, ProtoTimeoutResends, ProtoTimeoutEnds,
      ProtoTimeoutStartsAgain, RotationInv, NetStartAgain, GiveUp, TryNextDevice
<1>10. CASE SwitchContinue \/ SwitchReturn
  BY <1>a, <1>10
  DEF SwitchContinue, SwitchReturn, RotationInv, InLoop, devVars, arpVars, hist
<1>11. CASE SwitchRestart
  BY <1>a, <1>11
  DEF SwitchRestart, RotationInv, InLoop, devVars, arpVars, hist
<1>12. CASE UNCHANGED loopVars
  BY <1>a, <1>12 DEF loopVars, RotationInv, InLoop, devVars, arpVars, hist
<1> QED
  BY <1>1, <1>2, <1>3, <1>4, <1>5, <1>6, <1>7, <1>8, <1>9, <1>10, <1>11, <1>12,
     <1>5a
  DEF Next

\* If every init() succeeds and retries are not limited, an operation whose
\* devices all lack a MAC address fails only after it has looked at each of
\* them: eth_try_another() comes back to first_failed after exactly one turn,
\* wherever it begins and however long the circular list is.
THEOREM AllDevicesTried ==
  ASSUME InitSets = {Dev}
  PROVE  Spec => []GivesUpAfterAllDevices
<1>1. Init => LoopInv /\ RotationInv
  <2>1. Init => RotationInv
    BY DEF Init, RotationInv, InLoop
  <2> QED BY <2>1, LoopInvInit
<1>2. LoopInv /\ RotationInv /\ [Next]_loopVars => (LoopInv /\ RotationInv)'
  BY LoopInvStep, RotationStep DEF LoopInv
<1>3. RotationInv => GivesUpAfterAllDevices
  BY DEF RotationInv, GivesUpAfterAllDevices
<1> QED BY <1>1, <1>2, <1>3, PTL DEF Spec
====
