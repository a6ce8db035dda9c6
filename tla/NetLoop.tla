------------------------------ MODULE NetLoop ------------------------------
(***************************************************************************)
(* The network main loop of net/net.c and the rotation over the Ethernet   *)
(* devices of net/eth.c (CONFIG_NET_MULTI).  The protocol that runs in the *)
(* loop (TFTP, DHCP, ping ...) is abstract here: its start routine, its    *)
(* packet handler and its timeout handler do anything the loop's interface *)
(* lets them do.  Module Tftp runs the TFTP client in this loop.           *)
(*                                                                         *)
(* One turn of for (;;) in NetLoop() is the sequence of control points     *)
(*   rx -> arp -> timer -> switch                                          *)
(* eth_rx() may hand any number of packets to the handler before it        *)
(* returns (the receive loop of drivers/net/aml_ethernet.c).               *)
(*                                                                         *)
(* The protocols are those whose start routine installs a handler and arms *)
(* a timer.  The network console (CONFIG_NETCONSOLE, which no board of     *)
(* this repository's SoCs sets) is not among them: NcStart() waits for     *)
(* input without a timeout on purpose.                                     *)
(***************************************************************************)
EXTENDS Integers, FiniteSets

CONSTANTS
  NDev,              \* number of registered Ethernet devices
  HasMac,            \* devices whose enetaddr is not 00:00:00:00:00:00
  InitSets,          \* possible sets of devices whose init() succeeds
  EthRotate,         \* FALSE iff the variable ethrotate is "no"
  RetryForever,      \* netretry unset or "yes"
  RetryCnt,          \* netretry: "no" is 0, "once" is 1, else the number
  ArpTimeoutCount,   \* ARP_TIMEOUT_COUNT
  MaxTryCount        \* bound: NetTryCount saturates here (above RetryCnt)

Dev == 0 .. NDev - 1
NoDev == -1          \* the NULL device pointer

ASSUME NetLoopAssumption ==
  /\ NDev \in Nat \ {0}
  /\ HasMac \subseteq Dev
  /\ InitSets \subseteq SUBSET Dev
  /\ EthRotate \in BOOLEAN
  /\ RetryForever \in BOOLEAN
  /\ RetryCnt \in Nat
  /\ ArpTimeoutCount \in Nat \ {0}
  /\ MaxTryCount \in Nat /\ MaxTryCount > RetryCnt /\ MaxTryCount > 1

VARIABLES
  pc,                \* control point of NetLoop(); "idle" outside a call,
                     \* "lost" after a call through a NULL pointer
  NetState,          \* CONTINUE / RESTART / SUCCESS / FAIL
  NetTryCount,       \* attempts of this operation
  NetRestarted,      \* the operation went through restart: at least once
  NetDevExists,      \* a configured device was seen in this operation
  NetRestartWrap,    \* the rotation came back to first_failed
  eth_current,       \* the device in use
  first_failed,      \* static of eth_try_another(), survives operations
  timeHandler,       \* "none", "proto" or "startAgain"
  packetHandler,     \* "none", "proto" or "startAgain"
  NetArpWait,        \* NetArpWaitPacketIP # 0: a packet waits for ARP
  NetArpWaitTry,     \* ARP requests sent for it
  tried,             \* history: devices this operation has attempted
  protoFailed        \* history: the protocol itself set NETLOOP_FAIL

devVars  == <<NetRestartWrap, eth_current, first_failed>>
arpVars  == <<NetArpWait, NetArpWaitTry>>
hist     == <<tried, protoFailed>>
loopVars == <<pc, NetState, NetTryCount, NetRestarted, NetDevExists, devVars,
              timeHandler, packetHandler, arpVars, hist>>

(***************************************************************************)
(* net/eth.c: the circular list of devices.                                *)
(***************************************************************************)
Hop(d, k) == (d + k) % NDev

\* eth_init() entered with device d calls eth_try_another(0) h times when the
\* devices of up can be initialised: until it meets one of them, or for a full
\* turn if there is none.  With ethrotate=no eth_try_another() does not move
\* and the loop ends at once.
InitStops(d, up, h) ==
  IF ~EthRotate THEN h = 0
  ELSE /\ \A j \in 0 .. h - 1 : Hop(d, j) \notin up
       /\ h = NDev \/ Hop(d, h) \in up

\* ... and it returns 0 iff the device it stops at can be initialised.
InitOk(d, up, h) == Hop(d, h) \in up

\* first_failed is among the h devices the rotation moves to after d.
Passes(d, h, ff) == \E j \in 1 .. h : Hop(d, j) = ff

(***************************************************************************)
(* NetStartAgain(), called while NetState has the value ns and timeHandler *)
(* the value th; t is the set of devices attempted so far.                 *)
(***************************************************************************)
RetriesSpent == ~RetryForever /\ NetTryCount >= RetryCnt

GiveUp(th, t) ==
  /\ NetState' = "FAIL"
  /\ timeHandler' = th
  /\ tried' = t
  /\ UNCHANGED <<NetTryCount, devVars, packetHandler>>

\* Mutant: the pause after a full turn leaves the protocol's packet handler in
\* place.
TryNextDeviceKeepsHandler(ns, th, t, up, h) ==
  LET ff   == IF EthRotate /\ ~NetRestarted THEN eth_current ELSE first_failed
      next == IF EthRotate THEN Hop(eth_current, 1) ELSE eth_current
      wrap == NetRestartWrap \/ (EthRotate /\ Passes(eth_current, 1 + h, ff))
  IN
  /\ InitStops(next, up, h)
  /\ NetTryCount' = IF NetTryCount < MaxTryCount THEN NetTryCount + 1
                                                 ELSE NetTryCount
  /\ first_failed' = ff
  /\ eth_current' = Hop(next, h)
  /\ tried' = t \union {Hop(next, j) : j \in 0 .. h - 1}
  /\ NetRestartWrap' = FALSE
  /\ UNCHANGED packetHandler
  /\ IF wrap /\ NetDevExists
     THEN timeHandler' = "startAgain" /\ NetState' = ns
     ELSE NetState' = (IF wrap THEN "FAIL" ELSE "RESTART") /\ timeHandler' = th

\* eth_halt(); eth_try_another(!NetRestarted); eth_init(); then the test of
\* NetRestartWrap, which is cleared when it was set.
TryNextDevice(ns, th, t, up, h) ==
  LET ff   == IF EthRotate /\ ~NetRestarted THEN eth_current ELSE first_failed
      next == IF EthRotate THEN Hop(eth_current, 1) ELSE eth_current
      wrap == NetRestartWrap \/ (EthRotate /\ Passes(eth_current, 1 + h, ff))
  IN
  /\ InitStops(next, up, h)
  /\ NetTryCount' = IF NetTryCount < MaxTryCount THEN NetTryCount + 1
                                                 ELSE NetTryCount
  /\ first_failed' = ff
  /\ eth_current' = Hop(next, h)
  /\ tried' = t \union {Hop(next, j) : j \in 0 .. h - 1}
  /\ NetRestartWrap' = FALSE
  /\ IF wrap /\ NetDevExists
     THEN /\ timeHandler' = "startAgain"       \* NetSetTimeout(10000UL, ..)
          /\ packetHandler' = "startAgain"
          /\ NetState' = ns
     ELSE /\ NetState' = IF wrap THEN "FAIL" ELSE "RESTART"
          /\ timeHandler' = th
          /\ UNCHANGED packetHandler

NetStartAgain(ns, th, t) ==
  IF RetriesSpent THEN GiveUp(th, t)
                  ELSE \E up \in InitSets, h \in 0 .. NDev :
                         TryNextDevice(ns, th, t, up, h)

(***************************************************************************)
(* NetLoop(): the call, and the code from label restart: to the loop.      *)
(***************************************************************************)
\* A command calls NetLoop().  eth_set_current() may select any device (the
\* user can set ethact between two commands).
NetLoopCall ==
  /\ pc = "idle"
  /\ \E d \in Dev, up \in InitSets, h \in 0 .. NDev :
       /\ InitStops(d, up, h)
       /\ eth_current' = Hop(d, h)
       /\ NetRestartWrap' = (NetRestartWrap \/ Passes(d, h, first_failed))
       /\ tried' = {Hop(d, j) : j \in 0 .. h - 1}
       /\ pc' = IF InitOk(d, up, h) THEN "restart" ELSE "idle"
  /\ NetTryCount' = 1
  /\ NetRestarted' = FALSE
  /\ NetDevExists' = FALSE
  /\ NetArpWait' = FALSE
  /\ protoFailed' = FALSE
  /\ UNCHANGED <<NetState, first_failed, timeHandler, packetHandler,
                 NetArpWaitTry>>

\* net_check_prereq() finds no MAC address: NetStartAgain(), and the loop is
\* entered with the handlers of whatever ran before.
RestartNoMac ==
  /\ pc = "restart"
  /\ eth_current \notin HasMac
  /\ NetStartAgain("CONTINUE", timeHandler, tried \union {eth_current})
  /\ pc' = "rx"
  /\ UNCHANGED <<NetRestarted, NetDevExists, arpVars, protoFailed>>

\* net_check_prereq() misses a setting of the protocol (serverip, ipaddr, the
\* address to ping ...): NetLoop() returns -1.
RestartNoPrereq ==
  /\ pc = "restart"
  /\ NetState' = "CONTINUE"
  /\ pc' = "idle"
  /\ UNCHANGED <<NetTryCount, NetRestarted, NetDevExists, devVars,
                 timeHandler, packetHandler, arpVars, hist>>

\* The device is configured: the part of label restart: that is the loop's
\* own, up to the call of the protocol's start routine, which installs the
\* protocol's packet handler and arms its timer (the failure at the beginning
\* of NfsStart() is dead code: it tests the address of an array).
RestartBegin ==
  /\ pc = "restart"
  /\ eth_current \in HasMac
  /\ NetState' = "CONTINUE"
  /\ NetDevExists' = TRUE
  /\ timeHandler' = "proto"
  /\ packetHandler' = "proto"
  /\ tried' = tried \union {eth_current}
  /\ pc' = "rx"
  /\ UNCHANGED <<NetTryCount, NetRestarted, devVars, protoFailed>>

\* NetSendUDPPacket(): the destination's MAC address may be unknown, and then
\* the packet waits for an ARP exchange that starts (again) at try 1.
SendStartsArp == NetArpWait' = TRUE /\ NetArpWaitTry' = 1
MaySend == SendStartsArp \/ UNCHANGED arpVars

(***************************************************************************)
(* The loop.                                                               *)
(***************************************************************************)
\* What a packet handler may do with the loop: nothing the loop sees, arm
\* the timer again, end the operation, or ask for a new attempt.
HandlerIgnores ==
  UNCHANGED <<NetState, NetTryCount, devVars, timeHandler, packetHandler, hist>>

HandlerRearms ==
  /\ timeHandler' = "proto"
  /\ UNCHANGED <<NetState, NetTryCount, devVars, packetHandler, hist>>

HandlerSucceeds ==
  /\ NetState' = "SUCCESS"
  /\ timeHandler' \in {timeHandler, "proto", "none"}
  /\ UNCHANGED <<NetTryCount, devVars, packetHandler, hist>>

HandlerFails ==
  /\ NetState' = "FAIL"
  /\ protoFailed' = TRUE
  /\ UNCHANGED <<NetTryCount, devVars, timeHandler, packetHandler, tried>>

HandlerStartsAgain == NetStartAgain(NetState, timeHandler, tried) /\ UNCHANGED protoFailed

\* A packet for the installed handler; startAgainHandler() ignores it.
RxPacket ==
  /\ pc = "rx"
  /\ packetHandler = "proto"
  /\ \/ HandlerIgnores
     \/ HandlerRearms
     \/ HandlerSucceeds
     \/ HandlerFails
     \/ HandlerStartsAgain
  /\ MaySend
  /\ UNCHANGED <<pc, NetRestarted, NetDevExists>>

\* A packet before any protocol has installed a handler (the devices so far
\* had no MAC address): NetReceive() calls (*packetHandler)() without a test,
\* and nothing is known about what the board does then.
RxNoHandler ==
  /\ pc = "rx"
  /\ packetHandler = "none"
  /\ pc' = "lost"
  /\ UNCHANGED <<NetState, NetTryCount, NetRestarted, NetDevExists, devVars,
                 timeHandler, packetHandler, arpVars, hist>>

Lost == pc = "lost" /\ UNCHANGED loopVars

\* The ARP reply waited for: the waiting packet is sent.
RxArpReply ==
  /\ pc = "rx"
  /\ NetArpWait
  /\ NetArpWait' = FALSE
  /\ UNCHANGED <<pc, NetState, NetTryCount, NetRestarted, NetDevExists, devVars,
                 timeHandler, packetHandler, NetArpWaitTry, hist>>

\* eth_rx() returns and ctrlc() is false.
RxDone ==
  /\ pc = "rx"
  /\ pc' = "arp"
  /\ UNCHANGED <<NetState, NetTryCount, NetRestarted, NetDevExists, devVars,
                 timeHandler, packetHandler, arpVars, hist>>

\* ... or ctrlc() is true: NetLoop() returns -1.
CtrlC ==
  /\ pc = "rx"
  /\ pc' = "idle"
  /\ UNCHANGED <<NetState, NetTryCount, NetRestarted, NetDevExists, devVars,
                 timeHandler, packetHandler, arpVars, hist>>

\* ArpTimeoutCheck(): no packet waits, or its timer has not expired.
ArpNotExpired ==
  /\ pc = "arp"
  /\ pc' = "timer"
  /\ UNCHANGED <<NetState, NetTryCount, NetRestarted, NetDevExists, devVars,
                 timeHandler, packetHandler, arpVars, hist>>

\* Mutant: no limit on the requests.
ArpRetryUnlimited ==
  /\ pc = "arp"
  /\ NetArpWait
  /\ NetArpWaitTry' = NetArpWaitTry + 1
  /\ pc' = "timer"
  /\ UNCHANGED <<NetState, NetTryCount, NetRestarted, NetDevExists, devVars,
                 timeHandler, packetHandler, NetArpWait, hist>>

\* It expired and the request is repeated.
ArpRetry ==
  /\ pc = "arp"
  /\ NetArpWait
  /\ NetArpWaitTry + 1 < ArpTimeoutCount
  /\ NetArpWaitTry' = NetArpWaitTry + 1
  /\ pc' = "timer"
  /\ UNCHANGED <<NetState, NetTryCount, NetRestarted, NetDevExists, devVars,
                 timeHandler, packetHandler, NetArpWait, hist>>

\* It expired once too often.  NetArpWaitPacketIP stays set.
ArpGiveUp ==
  /\ pc = "arp"
  /\ NetArpWait
  /\ NetArpWaitTry + 1 >= ArpTimeoutCount
  /\ NetArpWaitTry' = 0
  /\ NetStartAgain(NetState, timeHandler, tried)
  /\ pc' = "timer"
  /\ UNCHANGED <<NetRestarted, NetDevExists, NetArpWait, protoFailed>>

\* The timer is off or has not expired.
TimerNotExpired ==
  /\ pc = "timer"
  /\ pc' = "switch"
  /\ UNCHANGED <<NetState, NetTryCount, NetRestarted, NetDevExists, devVars,
                 timeHandler, packetHandler, arpVars, hist>>

\* startAgainTimeout(): the ten seconds after a full turn are over.
StartAgainTimeout ==
  /\ pc = "timer"
  /\ timeHandler = "startAgain"
  /\ timeHandler' = "none"
  /\ NetState' = "RESTART"
  /\ pc' = "switch"
  /\ UNCHANGED <<NetTryCount, NetRestarted, NetDevExists, devVars,
                 packetHandler, arpVars, hist>>

\* The protocol's timeout handler, called with timeHandler already cleared:
\* it arms the timer again and sends ...
ProtoTimeoutResends ==
  /\ pc = "timer"
  /\ timeHandler = "proto"
  /\ timeHandler' = "proto"
  /\ pc' = "switch"
  /\ MaySend
  /\ UNCHANGED <<NetState, NetTryCount, NetRestarted, NetDevExists, devVars,
                 packetHandler, hist>>

\* ... or it ends the operation: PingTimeout() and its like fail, the last
\* CDPTimeout() may succeed ...
ProtoTimeoutEnds ==
  /\ pc = "timer"
  /\ timeHandler = "proto"
  /\ timeHandler' = "none"
  /\ NetState' \in {"FAIL", "SUCCESS"}
  /\ protoFailed' = (protoFailed \/ NetState' = "FAIL")
  /\ pc' = "switch"
  /\ UNCHANGED <<NetTryCount, NetRestarted, NetDevExists, devVars,
                 packetHandler, arpVars, tried>>

\* ... or it calls NetStartAgain().
ProtoTimeoutStartsAgain ==
  /\ pc = "timer"
  /\ timeHandler = "proto"
  /\ NetStartAgain(NetState, "none", tried)
  /\ pc' = "switch"
  /\ UNCHANGED <<NetRestarted, NetDevExists, arpVars, protoFailed>>

\* switch (NetState)
SwitchContinue ==
  /\ pc = "switch"
  /\ NetState = "CONTINUE"
  /\ pc' = "rx"
  /\ UNCHANGED <<NetState, NetTryCount, NetRestarted, NetDevExists, devVars,
                 timeHandler, packetHandler, arpVars, hist>>

SwitchRestart ==
  /\ pc = "switch"
  /\ NetState = "RESTART"
  /\ NetRestarted' = TRUE
  /\ pc' = "restart"
  /\ UNCHANGED <<NetState, NetTryCount, NetDevExists, devVars,
                 timeHandler, packetHandler, arpVars, hist>>

SwitchReturn ==
  /\ pc = "switch"
  /\ NetState \in {"SUCCESS", "FAIL"}
  /\ pc' = "idle"
  /\ UNCHANGED <<NetState, NetTryCount, NetRestarted, NetDevExists, devVars,
                 timeHandler, packetHandler, arpVars, hist>>

Init ==
  /\ pc = "idle"
  /\ NetState = "CONTINUE"
  /\ NetTryCount = 1
  /\ NetRestarted = FALSE
  /\ NetDevExists = FALSE
  /\ NetRestartWrap = FALSE
  /\ eth_current = 0
  /\ first_failed = NoDev
  /\ timeHandler = "none"
  /\ packetHandler = "none"
  /\ NetArpWait = FALSE
  /\ NetArpWaitTry = 0
  /\ tried = {}
  /\ protoFailed = FALSE

Next ==
  \/ NetLoopCall
  \/ RestartNoPrereq \/ RestartNoMac
  \/ RestartBegin /\ MaySend
  \/ RxPacket \/ RxNoHandler \/ Lost \/ RxArpReply \/ RxDone \/ CtrlC
  \/ ArpNotExpired \/ ArpRetry \/ ArpGiveUp
  \/ TimerNotExpired \/ StartAgainTimeout
  \/ ProtoTimeoutResends \/ ProtoTimeoutEnds \/ ProtoTimeoutStartsAgain
  \/ SwitchContinue \/ SwitchRestart \/ SwitchReturn

Spec == Init /\ [][Next]_loopVars

(***************************************************************************)
(* Properties.                                                             *)
(***************************************************************************)
InLoop == pc \in {"rx", "arp", "timer", "switch"}

\* The type of every variable of the loop.
TypeOK ==
  /\ pc \in {"idle", "restart", "rx", "arp", "timer", "switch", "lost"}
  /\ NetState \in {"CONTINUE", "RESTART", "SUCCESS", "FAIL"}
  /\ NetTryCount \in 1 .. MaxTryCount
  /\ NetRestarted \in BOOLEAN
  /\ NetDevExists \in BOOLEAN
  /\ NetRestartWrap \in BOOLEAN
  /\ eth_current \in Dev
  /\ first_failed \in Dev \union {NoDev}
  /\ timeHandler \in {"none", "proto", "startAgain"}
  /\ packetHandler \in {"none", "proto", "startAgain"}
  /\ NetArpWait \in BOOLEAN
  /\ NetArpWaitTry \in 0 .. ArpTimeoutCount
  /\ tried \subseteq Dev
  /\ protoFailed \in BOOLEAN

\* The loop never waits for nothing: while it runs with NETLOOP_CONTINUE some
\* timeout is armed, so that a silent network cannot hang the board.  The
\* handler is one-shot (net.c clears timeHandler before calling it), so every
\* path of every handler must arm it again or leave NETLOOP_CONTINUE.
TimerArmed == InLoop /\ NetState = "CONTINUE" => timeHandler # "none"

\* Whenever the loop goes on, the packet handler is the pause's
\* (startAgainHandler) exactly if the timeout handler is (startAgainTimeout):
\* in the pause no packet reaches, and no timeout fires for, the attempt that
\* is over, and an attempt is never left with one of the pause's two handlers,
\* deaf or cut off.  (The pause ends by its own timeout, by an ARP wait that
\* gives up and calls NetStartAgain() again, or by ctrl-C.)
PauseConsistent ==
  InLoop /\ NetState = "CONTINUE" =>
    (packetHandler = "startAgain" <=> timeHandler = "startAgain")

\* Until a protocol has been started for the first time, a NetLoop() that may
\* retry forever returns -1 only after every device has been attempted: the
\* rotation over unconfigured devices reaches all of them before
\* NetRestartWrap ends it.  (Proved when every init() succeeds.)
GivesUpAfterAllDevices ==
  InLoop /\ NetState = "FAIL" /\ RetryForever /\ packetHandler = "none" =>
    tried = Dev

\* README, variable netretry: "When set to "once" the network operation will
\* fail when all the available network interfaces are tried once without
\* success."
OnceTriesAllInterfaces ==
  InLoop /\ NetState = "FAIL" /\ ~RetryForever /\ RetryCnt = 1 /\ ~protoFailed
    => tried = Dev

====
