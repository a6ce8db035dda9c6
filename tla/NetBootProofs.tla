--------------------------- MODULE NetBootProofs ---------------------------
(***************************************************************************)
(* Proofs about the dhcp command: both of its protocols use the loop as    *)
(* NetLoop says, the client is bound to an address that a server has       *)
(* leased to it, and the file it loads is the server's.                    *)
(***************************************************************************)
EXTENDS NetBoot, TftpProofs

-----------------------------------------------------------------------------
(***************************************************************************)
(* The command implements the loop's specification.                        *)
(***************************************************************************)
\* A DHCP message is one for the loop's handler, or none.
LEMMA DhcpRxAsLoop ==
  ASSUME DhcpRx PROVE [Next]_loopVars
<1>1. CASE RxOffer
  <2>1. PICK m \in dnet, dup \in BOOLEAN :
          DhcpReceive(m, dup) /\ BootpCheckPkt(m) /\ HandlerRearms /\ UNCHANGED arpVars
    BY <1>1 DEF RxOffer
  <2> QED BY <2>1 DEF DhcpReceive, BootpCheckPkt, RxPacket, MaySend, Next
<1>2. CASE RxAck
  <2>1. PICK m \in dnet, dup \in BOOLEAN :
          DhcpReceive(m, dup) /\ BootpCheckPkt(m) /\ HandlerRearms /\ TftpStart(net)
    BY <1>2 DEF RxAck
  <2>2. MaySend
    BY <2>1, SendsAsLoop DEF TftpStart
  <2> QED BY <2>1, <2>2 DEF DhcpReceive, BootpCheckPkt, RxPacket, Next
<1>3. CASE RxDhcpIgnored
  BY <1>3 DEF RxDhcpIgnored, DhcpReceive, HandlerIgnores, loopVars, devVars, hist, arpVars
<1>4. CASE RxNotDhcp
  BY <1>4 DEF RxNotDhcp, AtTftp, AtClient, HandlerIgnores, loopVars, devVars, hist, arpVars
<1> QED BY <1>1, <1>2, <1>3, <1>4 DEF DhcpRx

\* So is every step of the command, its servers and the network.
LEMMA BootStepAsLoop ==
  ASSUME [NetBootNext]_bootVars PROVE [Next]_loopVars
<1>1. CASE RestartDhcp
  BY <1>1 DEF RestartDhcp, MaySend, Next
<1>2. CASE RestartDhcpNoMac
  BY <1>2 DEF RestartDhcpNoMac, Next
<1>3. CASE BootpTimeout \/ StaleArpRetry \/ StaleArpGiveUp
  BY <1>3 DEF BootpTimeout, StaleArpRetry, StaleArpGiveUp, MaySend, Next
<1>4. CASE LoopStep
  BY <1>4 DEF LoopStep, Next
<1>5. CASE TftpStep
  BY <1>5, ClientRxAsLoop, TimeoutsAsLoop DEF TftpStep
<1>6. CASE ServerStep \/ Lose
  BY <1>6, EnvAsLoop
<1>7. CASE ServeDiscover \/ ServeRequest \/ OfferExpires \/ DLose
  BY <1>7 DEF ServeDiscover, ServeRequest, OfferExpires, DLose
<1>8. CASE UNCHANGED bootVars
  BY <1>8 DEF bootVars, vars
<1> QED BY <1>1, <1>2, <1>3, <1>4, <1>5, <1>6, <1>7, <1>8, DhcpRxAsLoop
    DEF NetBootNext, BootClient, BootEnv

\* The dhcp command, with its two protocols one after the other, implements
\* the loop with an arbitrary protocol: the hand-over from the handlers of
\* bootp.c to those of tftp.c leaves no moment without a timeout.
THEOREM BootImplementsLoop == NetBootSpec => LoopSpec
<1>1. NetBootInit => Init
  BY DEF NetBootInit, TftpInitBut
<1>2. [NetBootNext]_bootVars => [Next]_loopVars
  BY BootStepAsLoop
<1> QED BY <1>1, <1>2, PTL DEF NetBootSpec, LoopSpec, Spec

-----------------------------------------------------------------------------
(***************************************************************************)
(* The wire and the lease.  A server's consent in flight, whatever the     *)
(* exchange it belongs to, names an address that is leased to us, and a    *)
(* lease is not taken back.                                                *)
(***************************************************************************)
MessageOK(m) ==
  /\ m \in Message
  /\ m.op \in {"DISCOVER", "REQUEST"} => m.to \in Server
  /\ m.op \in FromServer => m.server \in Server
  /\ m.op = "ACK" => /\ pool[m.server].state = "leased"
                     /\ m.ip = Address(m.server, pool[m.server].n)

PoolType == [Server -> [n : 1 .. PoolSize, state : {"free", "offered", "leased"}]]

DhcpOK ==
  /\ proto \in {"DHCP", "TFTP"}
  /\ dhcp_state \in {"INIT", "SELECTING", "REQUESTING", "BOUND"}
  /\ BootpID \in Nat
  /\ BootpTry \in 0 .. BootpTimeoutCount
  /\ NetDHCPServerIP \in Server \union {0}
  /\ NetOurGatewayIP \in Server \union {0}
  /\ envChanged \in BOOLEAN /\ BootFile \in BOOLEAN /\ cutShort \in BOOLEAN
  /\ NetOurIP \in Nat

BootInv ==
  /\ DhcpOK
  /\ pool \in PoolType
  /\ \A m \in dnet : MessageOK(m)
  /\ BoundIsLeased

\* The addresses of a pool.
LEMMA AddressType ==
  ASSUME NEW s \in Server, NEW n \in 1 .. PoolSize PROVE Address(s, n) \in Nat
BY NetBootAssumption DEF Address

\* A step that leaves the leases as they are leaves the messages good.
LEMMA MessageStays ==
  ASSUME NEW m, MessageOK(m),
         \A s \in Server : pool[s].state = "leased" =>
           pool'[s].state = "leased" /\ pool'[s].n = pool[s].n
  PROVE  MessageOK(m)'
BY DEF MessageOK, FromServer, Address, Message

\* What the client broadcasts is good.
LEMMA BroadcastOK ==
  ASSUME NEW rest \in SUBSET dnet, NEW p, Broadcast(rest, p), p \in Message,
         p.op \in {"DISCOVER", "REQUEST"}
  PROVE  \A m \in dnet' : m \in dnet \/ MessageOK(m)'
<1> SUFFICES ASSUME NEW s \in Server PROVE MessageOK([p EXCEPT !.to = s])'
  BY DEF Broadcast
<1>1. PICK q : q = [p EXCEPT !.to = s]
  OBVIOUS
<1>2. q \in Message /\ q.op = p.op /\ q.to = s
  BY <1>1 DEF Message
<1>3. MessageOK(q)'
  BY <1>2 DEF MessageOK, Message, FromServer
<1> QED BY <1>1, <1>3 DEF MessageOK, Message, FromServer, Address

\* A step that grants nothing and binds nothing.
LEMMA NothingBound ==
  ASSUME BootInv, DhcpOK', pool' = pool,
         \A m \in dnet' : m \in dnet \/ MessageOK(m)',
         \/ UNCHANGED <<proto, NetOurIP, NetDHCPServerIP, NetOurGatewayIP>>
         \/ proto' = "DHCP" \/ NetOurIP' = 0
  PROVE  BootInv'
<1>1. \A m \in dnet' : MessageOK(m)'
  BY MessageStays DEF BootInv
<1>2. BoundIsLeased'
  BY DEF BootInv, BoundIsLeased, Address
<1> QED BY <1>1, <1>2 DEF BootInv, PoolType

\* BootpRequest() sends a new broadcast.
LEMMA RequestKeeps ==
  ASSUME BootInv, NEW try \in 0 .. BootpTimeoutCount - 1, BootpRequest(try)
  PROVE  /\ BootpTry' \in 0 .. BootpTimeoutCount /\ BootpID' \in Nat
         /\ dhcp_state' = "SELECTING"
         /\ \A m \in dnet' : m \in dnet \/ MessageOK(m)'
<1>1. BootpTry' \in 0 .. BootpTimeoutCount /\ BootpID' \in Nat /\ dhcp_state' = "SELECTING"
  BY NetBootAssumption DEF BootpRequest
<1>2. PICK p : p = [op |-> "DISCOVER", id |-> BootpID', to |-> 0, server |-> 0, ip |-> 0]
  OBVIOUS
<1>3. p \in Message /\ p.op = "DISCOVER"
  BY <1>1, <1>2 DEF Message
<1>4. PICK rest \in SUBSET dnet : Broadcast(rest, p)
  BY <1>2 DEF BootpRequest, Young
<1> QED BY <1>1, <1>3, <1>4, BroadcastOK

\* NetInitLoop() keeps the addresses or clears them.
LEMMA InitLoopKeeps ==
  ASSUME BootInv, NEW ip \in Nat, NetInitLoop(ip)
  PROVE  /\ NetOurIP' \in Nat /\ NetOurGatewayIP' \in Server \union {0}
         /\ envChanged' \in BOOLEAN
         /\ UNCHANGED <<NetOurIP, NetOurGatewayIP>> \/ NetOurIP' \in {0, ip}
         /\ NetOurIP' # 0 => UNCHANGED NetOurGatewayIP
<1>1. envChanged' \in BOOLEAN
  BY Zenon DEF NetInitLoop
<1> QED BY <1>1 DEF NetInitLoop, BootInv, DhcpOK

\* The client's messages: an offer is taken up ...
LEMMA OfferKeeps ==
  ASSUME BootInv, RxOffer PROVE BootInv'
<1>1. PICK m \in dnet, dup \in BOOLEAN :
        /\ DhcpReceive(m, dup) /\ BootpCheckPkt(m)
        /\ dhcp_state' = "REQUESTING"
        /\ DhcpOptionsProcess(m)
        /\ Broadcast(DLeft(m, dup), [op |-> "REQUEST", id |-> m.id, to |-> 0,
                                     server |-> NetDHCPServerIP', ip |-> m.ip])
        /\ UNCHANGED <<NetOurIP, proto, BootpID, BootpTry, envChanged, BootFile, cutShort>>
  BY DEF RxOffer
<1>2. MessageOK(m) /\ m \in Message /\ m.server \in Server
  BY <1>1 DEF BootInv, MessageOK, DhcpReceive
<1>3. NetDHCPServerIP' \in Server \union {0} /\ NetOurGatewayIP' \in Server \union {0}
  BY <1>1, <1>2 DEF DhcpOptionsProcess, BootInv, DhcpOK
<1>4. DhcpOK'
  BY <1>1, <1>3 DEF BootInv, DhcpOK
<1>5. PICK p : p = [op |-> "REQUEST", id |-> m.id, to |-> 0, server |-> NetDHCPServerIP',
                    ip |-> m.ip]
  OBVIOUS
<1>6. p \in Message /\ p.op = "REQUEST"
  BY <1>2, <1>3, <1>5 DEF Message
<1>7. PICK rest \in SUBSET dnet : Broadcast(rest, p)
  BY <1>1, <1>5 DEF DLeft
<1>8. \A q \in dnet' : q \in dnet \/ MessageOK(q)'
  BY <1>6, <1>7, BroadcastOK
<1>9. pool' = pool /\ proto' = "DHCP"
  BY <1>1 DEF DhcpReceive, BootpCheckPkt
<1> QED BY <1>4, <1>8, <1>9, NothingBound

\* ... and a server's consent binds the client to its lease.
LEMMA ConsentBinds ==
  ASSUME BootInv, RxAck PROVE BootInv'
<1>1. PICK m \in dnet, dup \in BOOLEAN :
        /\ DhcpReceive(m, dup) /\ IsAck(m)
        /\ DhcpOptionsProcess(m)
        /\ NetOurIP' = m.ip
        /\ BootFile' = (BootFile \/ m.server \in GivesFile)
        /\ envChanged' = (envChanged \/ BootFile')
        /\ dhcp_state' = "BOUND"
        /\ proto' = "TFTP"
        /\ dnet' = DLeft(m, dup)
        /\ UNCHANGED <<BootpID, BootpTry, cutShort>>
  BY DEF RxAck
<1>2. /\ MessageOK(m) /\ m \in Message /\ m.server \in Server /\ pool' = pool
      /\ pool[m.server].state = "leased" /\ m.ip = Address(m.server, pool[m.server].n)
  BY <1>1 DEF BootInv, MessageOK, DhcpReceive, IsAck
<1>3. BootFile' \in BOOLEAN /\ envChanged' \in BOOLEAN
  BY <1>1, Zenon
<1>4. DhcpOK'
  <2>1. m.ip \in Nat
    BY <1>2 DEF Message
  <2> QED BY <1>1, <1>2, <1>3, <2>1 DEF DhcpOptionsProcess, BootInv, DhcpOK
<1>5. \A q \in dnet' : MessageOK(q)'
  BY <1>1, <1>2, MessageStays DEF BootInv, DLeft
<1>6. BoundIsLeased'
  <2>1. m.server # 0
    BY <1>2, NetBootAssumption
  <2> QED BY <1>1, <1>2, <2>1 DEF BoundIsLeased, DhcpOptionsProcess, Address
<1> QED BY <1>2, <1>4, <1>5, <1>6 DEF BootInv, PoolType

\* A server's step: what it keeps of its pool, and what it sends.
LEMMA ServerKeeps ==
  ASSUME BootInv, UNCHANGED <<dhcpVars, NetOurIP>>, pool' \in PoolType,
         \A s \in Server : pool[s].state = "leased" =>
           pool'[s].state = "leased" /\ pool'[s].n = pool[s].n,
         \A m \in dnet' : m \in dnet \/ MessageOK(m)'
  PROVE  BootInv'
<1>1. \A m \in dnet' : MessageOK(m)'
  BY MessageStays DEF BootInv
<1>2. DhcpOK'
  BY DEF BootInv, DhcpOK, dhcpVars
<1>3. BoundIsLeased'
  BY DEF BootInv, DhcpOK, BoundIsLeased, Address, dhcpVars
<1> QED BY <1>1, <1>2, <1>3 DEF BootInv, PoolType

LEMMA DiscoverKeeps ==
  ASSUME BootInv, ServeDiscover PROVE BootInv'
<1>1. PICK m \in dnet, dup \in BOOLEAN :
        /\ m.op = "DISCOVER"
        /\ pool' = [pool EXCEPT ![m.to].state =
                      IF pool[m.to].state = "free" THEN "offered" ELSE pool[m.to].state]
        /\ dnet' = DLeft(m, dup) \union
                     {Answer(m, "OFFER", Address(m.to, pool[m.to].n))}
  BY DEF ServeDiscover
<1>2. m \in Message /\ m.to \in Server /\ pool \in PoolType
  BY <1>1 DEF BootInv, MessageOK
<1>3. /\ pool' \in PoolType
      /\ \A s \in Server : pool[s].state = "leased" =>
           pool'[s].state = "leased" /\ pool'[s].n = pool[s].n
  BY <1>1, <1>2 DEF PoolType
<1>4. PICK p : p = Answer(m, "OFFER", Address(m.to, pool[m.to].n))
  OBVIOUS
<1>5. MessageOK(p)'
  <2>1. Address(m.to, pool[m.to].n) \in Nat
    BY <1>2, AddressType DEF PoolType
  <2>2. p \in Message /\ p.op = "OFFER" /\ p.server \in Server
    BY <1>2, <1>4, <2>1 DEF Answer, Message, FromServer
  <2> QED BY <2>2 DEF MessageOK, Message, FromServer
<1>6. \A q \in dnet' : q \in dnet \/ MessageOK(q)'
  BY <1>1, <1>4, <1>5 DEF DLeft
<1> QED BY <1>3, <1>6, ServerKeeps DEF ServeDiscover

LEMMA RequestServed ==
  ASSUME BootInv, ServeRequest PROVE BootInv'
<1>1. PICK m \in dnet, dup \in BOOLEAN, ours \in BOOLEAN :
        /\ m.op = "REQUEST"
        /\ ours = (pool[m.to].state # "free" /\ m.ip = Address(m.to, pool[m.to].n))
        /\ \/ /\ pool' = [pool EXCEPT ![m.to].state =
                            IF ours THEN "leased" ELSE pool[m.to].state]
              /\ dnet' = DLeft(m, dup) \union {Answer(m, IF ours THEN "ACK" ELSE "NAK", m.ip)}
           \/ /\ pool' = [pool EXCEPT ![m.to].state =
                            IF pool[m.to].state = "offered" THEN "free" ELSE pool[m.to].state]
              /\ dnet' = DLeft(m, dup)
  BY DEF ServeRequest
<1>2. m \in Message /\ m.to \in Server /\ pool \in PoolType
  BY <1>1 DEF BootInv, MessageOK
<1>3. /\ pool' \in PoolType
      /\ \A s \in Server : pool[s].state = "leased" =>
           pool'[s].state = "leased" /\ pool'[s].n = pool[s].n
  BY <1>1, <1>2 DEF PoolType
<1>4. \A q \in dnet' : q \in dnet \/ MessageOK(q)'
  <2>1. CASE dnet' = DLeft(m, dup)
    BY <2>1 DEF DLeft
  <2>2. CASE /\ pool' = [pool EXCEPT ![m.to].state =
                            IF ours THEN "leased" ELSE pool[m.to].state]
             /\ dnet' = DLeft(m, dup) \union {Answer(m, IF ours THEN "ACK" ELSE "NAK", m.ip)}
    <3>1. PICK p : p = Answer(m, IF ours THEN "ACK" ELSE "NAK", m.ip)
      OBVIOUS
    <3>2. p \in Message /\ p.server = m.to /\ p.ip = m.ip /\ p.op \in {"ACK", "NAK"}
          /\ (p.op = "ACK" => ours)
      BY <1>2, <3>1 DEF Answer, Message, FromServer
    <3>3. p.op = "ACK" => /\ pool'[p.server].state = "leased"
                          /\ p.ip = Address(p.server, pool'[p.server].n)
      <4>1. ours => m.ip = Address(m.to, pool[m.to].n)
        BY <1>1, Zenon
      <4>2. ours => pool'[m.to].state = "leased" /\ pool'[m.to].n = pool[m.to].n
        BY <1>2, <2>2 DEF PoolType
      <4> QED BY <3>2, <4>1, <4>2
    <3>4. MessageOK(p)'
      BY <1>2, <3>2, <3>3 DEF MessageOK, Message, FromServer, Address
    <3> QED BY <2>2, <3>1, <3>4 DEF DLeft
  <2> QED BY <1>1, <2>1, <2>2
<1> QED BY <1>3, <1>4, ServerKeeps DEF ServeRequest

LEMMA ExpiryKeeps ==
  ASSUME BootInv, OfferExpires PROVE BootInv'
<1>1. PICK s \in Server :
        /\ pool[s].state = "offered" /\ pool[s].n < PoolSize
        /\ pool' = [pool EXCEPT ![s] = [n |-> pool[s].n + 1, state |-> "free"]]
        /\ dnet' = dnet
  BY DEF OfferExpires
<1>2. pool \in PoolType /\ PoolSize \in Nat
  BY NetBootAssumption DEF BootInv
<1>3. /\ pool' \in PoolType
      /\ \A t \in Server : pool[t].state = "leased" =>
           pool'[t].state = "leased" /\ pool'[t].n = pool[t].n
  BY <1>1, <1>2 DEF PoolType
<1> QED BY <1>1, <1>3, ServerKeeps DEF OfferExpires

\* The lease stays with every step.
LEMMA BootStep ==
  ASSUME BootInv, [NetBootNext]_bootVars PROVE BootInv'
<1>0. BootpTimeoutCount \in Nat /\ BootpTimeoutCount > 0
  BY NetBootAssumption
<1>1. CASE RestartDhcp
  <2>1. 0 \in Nat /\ 0 \in 0 .. BootpTimeoutCount - 1
    BY <1>0
  <2>2. /\ BootpTry' \in 0 .. BootpTimeoutCount /\ BootpID' \in Nat
        /\ dhcp_state' = "SELECTING"
        /\ \A m \in dnet' : m \in dnet \/ MessageOK(m)'
    BY <1>1, <2>1, RequestKeeps DEF RestartDhcp
  <2>3. NetOurIP' \in Nat /\ NetOurGatewayIP' \in Server \union {0} /\ envChanged' \in BOOLEAN
    BY <1>1, <2>1, InitLoopKeeps DEF RestartDhcp
  <2>4. DhcpOK' /\ pool' = pool /\ proto' = "DHCP"
    BY <1>1, <2>2, <2>3 DEF RestartDhcp, BootInv, DhcpOK
  <2> QED BY <2>2, <2>4, NothingBound
<1>2. CASE RestartDhcpNoMac
  <2>0. NetOurIP \in Nat
    BY DEF BootInv, DhcpOK
  <2>1. NetOurIP' \in Nat /\ NetOurGatewayIP' \in Server \union {0} /\ envChanged' \in BOOLEAN
        /\ (NetOurIP' # 0 => UNCHANGED <<NetOurIP, NetOurGatewayIP>>)
    <3>1. NetInitLoop(NetOurIP)
      BY <1>2 DEF RestartDhcpNoMac
    <3>2. NetOurIP' # 0 => UNCHANGED <<NetOurIP, NetOurGatewayIP>>
      BY <3>1 DEF NetInitLoop
    <3> QED BY <2>0, <3>1, <3>2, InitLoopKeeps
  <2>2. DhcpOK' /\ UNCHANGED <<pool, dnet, proto, NetDHCPServerIP>>
    BY <1>2, <2>1 DEF RestartDhcpNoMac, BootInv, DhcpOK
  <2> QED BY <2>1, <2>2, NothingBound
<1>3. CASE RxDhcpIgnored
  <2>1. UNCHANGED <<dhcpVars, NetOurIP, pool>> /\ dnet' \subseteq dnet
    BY <1>3 DEF RxDhcpIgnored, DhcpReceive, DLeft
  <2>2. DhcpOK'
    BY <2>1 DEF BootInv, DhcpOK, dhcpVars
  <2> QED BY <2>1, <2>2, NothingBound DEF dhcpVars
<1>4. CASE BootpTimeout
  <2>1. CASE UNCHANGED <<dhcp_state, BootpID, BootpTry, dnet>>
    <3>1. DhcpOK' /\ UNCHANGED <<pool, dnet, proto, NetDHCPServerIP, NetOurIP, NetOurGatewayIP>>
      BY <1>4, <2>1 DEF BootpTimeout, BootInv, DhcpOK
    <3> QED BY <3>1, NothingBound
  <2>2. CASE BootpTry < BootpTimeoutCount /\ BootpRequest(BootpTry)
    <3>1. BootpTry \in 0 .. BootpTimeoutCount - 1
      BY <1>0, <2>2 DEF BootInv, DhcpOK
    <3>2. /\ BootpTry' \in 0 .. BootpTimeoutCount /\ BootpID' \in Nat
          /\ dhcp_state' = "SELECTING"
          /\ \A m \in dnet' : m \in dnet \/ MessageOK(m)'
      BY <2>2, <3>1, RequestKeeps
    <3>3. DhcpOK' /\ UNCHANGED <<pool, proto, NetDHCPServerIP, NetOurIP, NetOurGatewayIP>>
      BY <1>4, <3>2 DEF BootpTimeout, BootInv, DhcpOK
    <3> QED BY <3>2, <3>3, NothingBound
  <2> QED BY <1>4, <2>1, <2>2 DEF BootpTimeout
<1>5. CASE StaleArpGiveUp
  <2>1. cutShort' \in BOOLEAN
    BY <1>5, Zenon DEF StaleArpGiveUp
  <2>2. DhcpOK' /\ UNCHANGED <<pool, dnet, proto, NetDHCPServerIP, NetOurIP, NetOurGatewayIP>>
    BY <1>5, <2>1 DEF StaleArpGiveUp, BootInv, DhcpOK
  <2> QED BY <2>2, NothingBound
<1>6. CASE UNCHANGED <<boots, NetOurIP>>
  <2>1. DhcpOK' /\ UNCHANGED <<pool, dnet, proto, NetDHCPServerIP, NetOurIP, NetOurGatewayIP>>
    BY <1>6 DEF boots, dhcpVars, BootInv, DhcpOK
  <2> QED BY <2>1, NothingBound
<1>7. CASE RxNotDhcp \/ StaleArpRetry
  BY <1>6, <1>7 DEF RxNotDhcp, AtTftp, StaleArpRetry, boots
<1>8. CASE DLose
  <2>1. UNCHANGED <<dhcpVars, NetOurIP, pool>> /\ dnet' \subseteq dnet
    BY <1>8 DEF DLose
  <2>2. DhcpOK'
    BY <2>1 DEF BootInv, DhcpOK, dhcpVars
  <2> QED BY <2>1, <2>2, NothingBound DEF dhcpVars
<1>9. CASE LoopStep /\ UNCHANGED boots
  BY <1>6, <1>9 DEF LoopStep, others
<1>10. CASE TftpStep /\ UNCHANGED boots
  BY <1>6, <1>10
  DEF TftpStep, ClientRx, RxIgnored, RxOack, RxDataNotFirst, RxDataAgain, RxDataStore, RxError,
      RxArp, AtTftp, TftpArpRetry, TftpArpGiveUp, TftpTimeout
<1>11. CASE (ServerStep \/ Lose) /\ UNCHANGED boots
  BY <1>6, <1>11 DEF ServerStep, Lose, SrvRrq, SrvAck, SrvArp, SrvResend
<1>12. CASE UNCHANGED bootVars
  BY <1>6, <1>12 DEF bootVars, vars, boots
<1> QED BY <1>1, <1>2, <1>3, <1>4, <1>5, <1>7, <1>8, <1>9, <1>10, <1>11, <1>12,
           OfferKeeps, ConsentBinds, DiscoverKeeps, RequestServed, ExpiryKeeps
    DEF NetBootNext, BootClient, BootEnv, DhcpRx

\* The TFTP client's wire through the phases of DHCP.
LEMMA WireIdles ==
  ASSUME WireInv, UNCHANGED <<tftpVars, loadVars, NetServerEther, NetArpWaitTxPacket, srv>>,
         \A m \in net' : m \in net \/ m.op = "ARPREQ", faults' \in 0 .. MaxFaults
  PROVE  WireInv'
<1>1. \A m \in net' : m \in net \/ PacketOK(m)'
  BY DEF PacketOK
<1>2. WireOK'
  BY <1>1, ClientKeepsWire DEF WireInv, ClientOK, tftpVars
<1> QED BY <1>2 DEF WireInv, ClientOK, LoadOK, tftpVars, loadVars

LEMMA BootKeepsWire ==
  ASSUME WireInv, [NetBootNext]_bootVars PROVE WireInv'
<1>0. faults \in 0 .. MaxFaults /\ NetBootFileXferSize \in Nat
  BY DEF WireInv, LoadOK
<1>1. CASE RestartDhcp
  BY <1>0, <1>1, IdleKeeps DEF RestartDhcp
<1>2. CASE RestartDhcpNoMac
  BY <1>0, <1>2, IdleKeeps DEF RestartDhcpNoMac, loadVars
<1>3. CASE RxOffer \/ RxDhcpIgnored
  <2>1. faults' \in 0 .. MaxFaults
    BY <1>0, <1>3, FaultsBounded DEF RxOffer, RxDhcpIgnored, DhcpReceive
  <2>2. UNCHANGED <<tftpVars, loadVars, sendVars, srv>>
    BY <1>3 DEF RxOffer, RxDhcpIgnored, DhcpReceive
  <2> QED BY <1>0, <2>1, <2>2, IdleKeeps DEF loadVars
<1>4. CASE RxAck
  <2>1. faults' \in 0 .. MaxFaults
    BY <1>0, <1>4, FaultsBounded DEF RxAck, DhcpReceive
  <2> QED BY <1>0, <1>4, <2>1, StartKeeps DEF RxAck, DhcpReceive
<1>5. CASE RxNotDhcp
  <2>1. faults' \in 0 .. MaxFaults
    BY <1>0, <1>5, FaultsBounded DEF RxNotDhcp, AtTftp, AtClient
  <2>2. net' \subseteq net
    BY <1>5, LeftIn DEF RxNotDhcp
  <2> QED BY <1>5, <2>1, <2>2, WireIdles DEF RxNotDhcp, AtTftp, AtClient
<1>6. CASE BootpTimeout \/ StaleArpGiveUp
  <2>1. faults' \in 0 .. MaxFaults
    BY <1>0, <1>6, FaultsBounded DEF BootpTimeout, StaleArpGiveUp
  <2> QED BY <1>0, <1>6, <2>1, IdleKeeps DEF BootpTimeout, StaleArpGiveUp, loadVars
<1>7. CASE StaleArpRetry
  <2>1. faults' \in 0 .. MaxFaults
    BY <1>0, <1>7, FaultsBounded DEF StaleArpRetry
  <2>2. \A m \in net' : m \in net \/ m.op = "ARPREQ"
    BY <1>7 DEF StaleArpRetry, EthSend, ArpReq
  <2> QED BY <1>7, <2>1, <2>2, WireIdles DEF StaleArpRetry
<1>8. CASE UNCHANGED others
  BY <1>0, <1>8, IdleKeeps DEF others, loadVars
<1>9. CASE LoopStep
  BY <1>8, <1>9 DEF LoopStep
<1>10. CASE TftpStep
  BY <1>10, ClientRxKeeps, TimeoutsKeep DEF TftpStep
<1>11. CASE ServerStep \/ Lose
  BY <1>11, EnvKeeps
<1>12. CASE ServeDiscover \/ ServeRequest \/ OfferExpires \/ DLose
  <2>1. faults' \in 0 .. MaxFaults
    <3>1. CASE ServeDiscover \/ ServeRequest
      BY <1>0, <3>1, FaultsBounded DEF ServeDiscover, ServeRequest
    <3>2. CASE OfferExpires \/ DLose
      BY <1>0, <3>2, TftpAssumption DEF OfferExpires, DLose
    <3> QED BY <1>12, <3>1, <3>2
  <2>2. UNCHANGED <<tftpVars, loadVars, sendVars, srv>>
    BY <1>12 DEF ServeDiscover, ServeRequest, OfferExpires, DLose
  <2> QED BY <1>0, <2>1, <2>2, IdleKeeps DEF loadVars
<1>13. CASE UNCHANGED bootVars
  BY <1>8, <1>13 DEF bootVars, vars, others
<1> QED BY <1>1, <1>2, <1>3, <1>4, <1>5, <1>6, <1>7, <1>9, <1>10, <1>11, <1>12, <1>13
    DEF NetBootNext, BootClient, BootEnv, DhcpRx

LEMMA BootInit == NetBootInit => BootInv /\ WireInv /\ LoopInv
<1> SUFFICES ASSUME NetBootInit PROVE BootInv /\ WireInv /\ LoopInv
  OBVIOUS
<1> USE DEF NetBootInit
<1>1. WireInv /\ LoopInv
  BY WireInit, LoopInvInit DEF TftpInitBut
<1>2. envChanged \in BOOLEAN /\ BootFile \in BOOLEAN /\ cutShort \in BOOLEAN
  BY Zenon
<1>3. DhcpOK
  BY <1>2, NetBootAssumption DEF DhcpOK
<1>4. pool \in PoolType
  BY NetBootAssumption DEF PoolType
<1> QED BY <1>1, <1>3, <1>4 DEF BootInv, BoundIsLeased

LEMMA BootAlways == NetBootSpec => [](BootInv /\ WireInv /\ LoopInv)
<1>1. NetBootInit => BootInv /\ WireInv /\ LoopInv
  BY BootInit
<1>2. BootInv /\ WireInv /\ LoopInv /\ [NetBootNext]_bootVars
        => (BootInv /\ WireInv /\ LoopInv)'
  BY BootStep, BootKeepsWire, BootStepAsLoop, LoopInvStep
<1> QED BY <1>1, <1>2, PTL DEF NetBootSpec

\* Every variable of the dhcp command keeps its type, for any DHCP servers,
\* pools and devices; no attempt sends more than TIMEOUT_COUNT broadcasts.
THEOREM NetBootTypeCorrect == NetBootSpec => []NetBootTypeOK
<1>1. BootInv /\ WireInv /\ LoopInv => NetBootTypeOK
  <2> SUFFICES ASSUME BootInv, WireInv, LoopInv PROVE NetBootTypeOK
    OBVIOUS
  <2>1. TftpTypeOK
    BY DEF LoopInv, BootInv, DhcpOK, WireInv, ClientOK, LoadOK, WireOK, TftpTypeOK
  <2> QED BY <2>1 DEF BootInv, DhcpOK, PoolType, MessageOK, NetBootTypeOK
<1> QED BY <1>1, BootAlways, PTL

\* The address the client uses after DHCP has been leased to it by the server
\* it has noted, for any number of servers and any sizes of their pools: the
\* handler's checks (the identifier, and the type in one state) suffice.
THEOREM BoundToLease == NetBootSpec => []BoundIsLeased
<1>1. BootInv /\ WireInv /\ LoopInv => BoundIsLeased
  BY DEF BootInv
<1> QED BY <1>1, BootAlways, PTL

-----------------------------------------------------------------------------
(***************************************************************************)
(* The file.  While DHCP runs nothing counts as received; when its handler *)
(* starts TFTP a new attempt begins, with all that TftpProofs says of it.  *)
(***************************************************************************)
BootAttempt ==
  IF proto = "TFTP" THEN AttemptInv
                    ELSE NetBootFileXferSize = 0 /\ NetState # "SUCCESS"

LEMMA BootAttemptStep ==
  ASSUME WireInv, BootAttempt, proto \in {"DHCP", "TFTP"}, [NetBootNext]_bootVars
  PROVE  BootAttempt'
<1>1. CASE RestartDhcp
  BY <1>1 DEF RestartDhcp, RestartBegin, BootAttempt
<1>2. CASE RxAck
  <2>1. proto = "DHCP" /\ NetState' = NetState /\ proto' = "TFTP" /\ srv' = srv
        /\ TftpStart(net) /\ UNCHANGED NetBootFileXferSize
    BY <1>2 DEF RxAck, DhcpReceive, BootpCheckPkt, HandlerRearms
  <2> QED BY <2>1, StartBegins DEF BootAttempt
<1>3. ASSUME proto' = proto, UNCHANGED <<tftpVars, loadVars, srv>>,
             NetState' = "SUCCESS" => NetState = "SUCCESS",
             \/ proto = "DHCP"
             \/ /\ UNCHANGED <<NetServerEther, NetArpWaitTxPacket>>
                /\ NetArpWait' => NetArpWait
                /\ \A m \in net' : m \in net \/ m.op \notin {"RRQ", "ACK"}
      PROVE  BootAttempt'
  <2>1. CASE proto = "DHCP"
    BY <1>3, <2>1 DEF BootAttempt, loadVars
  <2>2. CASE proto = "TFTP"
    BY <1>3, <2>2, QuietStep DEF BootAttempt, tftpVars
  <2> QED BY <2>1, <2>2
<1>4. CASE RestartDhcpNoMac
  <2>1. NetState' \in {"FAIL", "RESTART", "CONTINUE"} /\ UNCHANGED NetArpWait
    BY <1>4, StartAgainState DEF RestartDhcpNoMac, RestartNoMac, arpVars
  <2> QED BY <1>3, <1>4, <2>1 DEF RestartDhcpNoMac, sendVars
<1>5. CASE RxOffer \/ RxNotDhcp
  <2>1. proto = "DHCP" /\ proto' = proto /\ UNCHANGED <<tftpVars, loadVars, srv, NetState>>
    BY <1>5 DEF RxOffer, RxNotDhcp, DhcpReceive, BootpCheckPkt, AtTftp, AtClient,
                HandlerRearms, HandlerIgnores, dhcpVars
  <2> QED BY <1>3, <2>1
<1>6. CASE RxDhcpIgnored
  <2>1. proto' = proto /\ UNCHANGED <<tftpVars, loadVars, sendVars, srv, NetState, NetArpWait>>
    BY <1>6 DEF RxDhcpIgnored, DhcpReceive, HandlerIgnores, dhcpVars, arpVars
  <2> QED BY <1>3, <2>1 DEF sendVars
<1>7. CASE BootpTimeout \/ StaleArpRetry \/ StaleArpGiveUp
  <2>1. proto = "DHCP" /\ proto' = proto /\ UNCHANGED <<tftpVars, loadVars, srv>>
    BY <1>7 DEF BootpTimeout, StaleArpRetry, StaleArpGiveUp, dhcpVars
  <2>2. NetState' = "SUCCESS" => NetState = "SUCCESS"
    BY <1>7, StartAgainState
    DEF BootpTimeout, ProtoTimeoutStartsAgain, ProtoTimeoutResends, StaleArpRetry, ArpRetry,
        StaleArpGiveUp, ArpGiveUp
  <2> QED BY <1>3, <2>1, <2>2
<1>8. CASE LoopStep /\ UNCHANGED boots
  <2>1. proto' = proto /\ UNCHANGED <<tftpVars, loadVars, sendVars, srv>>
    BY <1>8 DEF LoopStep, boots, dhcpVars, others
  <2>2. (NetState' = "SUCCESS" => NetState = "SUCCESS") /\ (NetArpWait' => NetArpWait)
    BY <1>8
    DEF LoopStep, NetLoopCall, RxDone, CtrlC, ArpNotExpired, TimerNotExpired,
        StartAgainTimeout, SwitchContinue, SwitchRestart, SwitchReturn, arpVars
  <2> QED BY <1>3, <2>1, <2>2 DEF sendVars
<1>9. CASE proto = "TFTP" /\ TftpStep /\ UNCHANGED boots
  <2>1. proto' = proto /\ [TftpNext]_vars
    BY <1>9 DEF boots, dhcpVars, TftpNext, ClientStep
  <2> QED BY <1>9, <2>1, AttemptStep DEF BootAttempt
<1>10. CASE pc = "rx" /\ (ServerStep \/ Lose) /\ UNCHANGED boots
  <2>1. proto' = proto /\ [TftpNext]_vars
    BY <1>10 DEF boots, dhcpVars, TftpNext, EnvStep
  <2>2. UNCHANGED <<NetState, NetBootFileXferSize>>
    BY <1>10 DEF ServerStep, Lose, SrvRrq, SrvAck, SrvArp, SrvResend, loopVars, loadVars
  <2>3. CASE proto = "TFTP"
    BY <2>1, <2>3, AttemptStep DEF BootAttempt
  <2>4. CASE proto = "DHCP"
    BY <2>1, <2>2, <2>4 DEF BootAttempt
  <2> QED BY <2>3, <2>4
<1>11. CASE ServeDiscover \/ ServeRequest \/ OfferExpires \/ DLose
  <2>1. proto' = proto /\ UNCHANGED <<loopVars, tftpVars, loadVars, sendVars, srv>>
    BY <1>11 DEF ServeDiscover, ServeRequest, OfferExpires, DLose, dhcpVars
  <2> QED BY <1>3, <2>1 DEF loopVars, arpVars, sendVars
<1>12. CASE UNCHANGED bootVars
  <2>1. proto' = proto /\ UNCHANGED <<loopVars, tftpVars, loadVars, sendVars, srv>>
    BY <1>12 DEF bootVars, vars, dhcpVars
  <2> QED BY <1>3, <2>1 DEF loopVars, arpVars, sendVars
<1> QED BY <1>1, <1>2, <1>4, <1>5, <1>6, <1>7, <1>8, <1>9, <1>10, <1>11, <1>12
    DEF NetBootNext, BootClient, BootEnv, DhcpRx

\* The dhcp command loads the file as well as the tftp command does: an
\* attempt that begins in the handler of DHCP, on whatever an earlier one left
\* in the client's variables and on the wire, succeeds only with the whole
\* file in memory.
THEOREM BootedFileIsIntact == NetBootSpec => []FileIntact
<1>1. NetBootInit => BootAttempt
  BY DEF NetBootInit, TftpInitBut, Init, BootAttempt
<1>2. BootInv /\ WireInv /\ LoopInv /\ BootAttempt /\ [NetBootNext]_bootVars => BootAttempt'
  BY BootAttemptStep DEF BootInv, DhcpOK
<1>3. WireInv /\ BootAttempt => FileIntact
  <2> SUFFICES ASSUME WireInv, BootAttempt PROVE FileIntact
    OBVIOUS
  <2>1. CASE proto = "TFTP"
    BY <2>1, WholeFile DEF BootAttempt
  <2>2. CASE proto # "TFTP"
    BY <2>2 DEF BootAttempt, FileIntact, LoadedIsFile
  <2> QED BY <2>1, <2>2
<1> QED BY <1>1, <1>2, <1>3, BootAlways, PTL DEF NetBootSpec
====
