------------------------------ MODULE NetBoot ------------------------------
(***************************************************************************)
(* The dhcp command: the DHCP client of net/bootp.c runs in the network    *)
(* loop, and when it is bound its packet handler starts the TFTP client    *)
(* (autoload is not set), in the same operation and on the same device.    *)
(* Everything that module Tftp says of the TFTP client holds on; a failure *)
(* of either protocol goes back to label restart:, that is to DHCP.        *)
(*                                                                         *)
(* The DHCP servers (external: RFC 2131 as the client uses it) each have a *)
(* pool of addresses, and the broadcasts of the client reach each of them  *)
(* by itself.  All of them name the one TFTP server.                       *)
(***************************************************************************)
EXTENDS Tftp

CONSTANTS
  Server,             \* the DHCP servers
  GivesGateway,       \* those whose messages carry the gateway option
  GivesFile,          \* those whose messages name a boot file
  BootpTimeoutCount,  \* TIMEOUT_COUNT of bootp.c
  PoolSize            \* addresses of a server's pool

ASSUME NetBootAssumption ==
  /\ Server \subseteq Nat \ {0}
  /\ GivesGateway \subseteq Server /\ GivesFile \subseteq Server
  /\ BootpTimeoutCount \in Nat \ {0}
  /\ PoolSize \in Nat \ {0}

VARIABLES
  proto,              \* whose handlers are "proto" in the loop: "DHCP", "TFTP"
  dhcp_state,         \* "INIT", "SELECTING", "REQUESTING" or "BOUND"
  BootpID,            \* the identifier of the current exchange
  BootpTry,           \* broadcasts of this attempt
  NetDHCPServerIP,    \* option 54 of the last message that was used, 0: none
  NetOurGatewayIP,    \* option 3: the server that gave it, 0: none
  envChanged,         \* the environment is newer than env_changed_id
  BootFile,           \* TRUE iff the name of the boot file is known
  cutShort,           \* history: an old ARP wait has ended a later attempt
  dnet,               \* DHCP messages in flight
  pool                \* each server's address for us, and its state

dhcpVars == <<proto, dhcp_state, BootpID, BootpTry, NetDHCPServerIP,
              NetOurGatewayIP, envChanged, BootFile, cutShort>>
bootVars == <<vars, dhcpVars, dnet, pool>>

\* An address: the n-th of server s.  0 stands for 0.0.0.0.
Address(s, n) == s * (PoolSize + 1) + n

FromServer == {"OFFER", "ACK", "NAK"}

(***************************************************************************)
(* The wire.                                                               *)
(***************************************************************************)
DLeft(m, dup) == IF dup THEN dnet ELSE dnet \ {m}

\* NetSendPacket() of a broadcast on the current device.
Broadcast(rest, p) ==
  dnet' = rest \union {[p EXCEPT !.to = s] :
                        s \in IF eth_current \in Wired THEN Server ELSE {}}

DLose ==
  /\ faults < MaxFaults
  /\ \E m \in dnet : m.op \in LoseOps /\ dnet' = dnet \ {m}
  /\ faults' = faults + 1
  /\ UNCHANGED <<loopVars, tftpVars, loadVars, sendVars, NetOurIP, srv,
                 dhcpVars, pool>>

(***************************************************************************)
(* BootpRequest().  The identifier is the device's address plus the time   *)
(* in ms: it differs from that of every message still under way.  An       *)
(* exchange lasts for three seconds at least, and no message outlives the  *)
(* exchange after its own.                                                 *)
(***************************************************************************)
Young == {m \in dnet : m.id = BootpID}

BootpRequest(try) ==
  /\ BootpTry' = try + 1
  /\ BootpID' = IF BootpID = 1 THEN 2 ELSE 1
  /\ dhcp_state' = "SELECTING"
  /\ Broadcast(Young, [op |-> "DISCOVER", id |-> BootpID', to |-> 0,
                       server |-> 0, ip |-> 0])

\* NetInitLoop(): when the environment has changed the addresses are read
\* from it again; there they are not set.
NetInitLoop(ip) ==
  /\ NetOurIP' = IF envChanged THEN 0 ELSE ip
  /\ NetOurGatewayIP' = IF envChanged THEN 0 ELSE NetOurGatewayIP
  /\ envChanged' = FALSE

\* Label restart: for the dhcp command.  A packet of an earlier attempt may
\* still wait for ARP: nothing withdraws it.
RestartDhcp ==
  /\ RestartBegin
  /\ NetInitLoop(0)
  /\ proto' = "DHCP"
  /\ BootpRequest(0)
  /\ NetBootFileXferSize' = 0
  /\ UNCHANGED <<arpVars, tftpVars, mem, miscounted, sendVars, srv, faults,
                 NetDHCPServerIP, BootFile, cutShort, pool>>

RestartDhcpNoMac ==
  /\ RestartNoMac
  /\ NetInitLoop(NetOurIP)
  /\ UNCHANGED <<tftpVars, loadVars, sendVars, srv, faults, proto, dhcp_state,
                 BootpID, BootpTry, NetDHCPServerIP, BootFile, cutShort, dnet, pool>>

(***************************************************************************)
(* DhcpHandler().                                                          *)
(***************************************************************************)
DhcpReceive(m, dup) ==
  /\ pc = "rx"
  /\ eth_current \in Wired
  /\ m.op \in FromServer
  /\ Receive(m, dup)
  /\ UNCHANGED <<pc, NetRestarted, NetDevExists, srv, pool>>

\* BootpCheckPkt()
BootpCheckPkt(m) ==
  packetHandler = "proto" /\ proto = "DHCP" /\ m.id = BootpID

\* DhcpMessageType() = DHCP_ACK
\* Mutant: whatever the server we asked answers is taken for its consent.
IsAckOrNak(m) == m.op \in {"ACK", "NAK"}

IsAck(m) == m.op = "ACK"

\* DhcpOptionsProcess(): an option that is missing leaves the old value.
DhcpOptionsProcess(m) ==
  /\ NetDHCPServerIP' = m.server
  /\ NetOurGatewayIP' = IF m.server \in GivesGateway THEN m.server
                                                     ELSE NetOurGatewayIP

\* In state SELECTING the first message, of whatever type, is the offer that
\* is selected.
RxOffer ==
  \E m \in dnet, dup \in BOOLEAN :
    /\ DhcpReceive(m, dup) /\ BootpCheckPkt(m)
    /\ dhcp_state = "SELECTING"
    /\ dhcp_state' = "REQUESTING"
    /\ DhcpOptionsProcess(m)
    /\ HandlerRearms
    /\ Broadcast(DLeft(m, dup), [op |-> "REQUEST", id |-> m.id, to |-> 0,
                                 server |-> NetDHCPServerIP', ip |-> m.ip])
    /\ UNCHANGED <<arpVars, tftpVars, loadVars, sendVars, NetOurIP, proto,
                   BootpID, BootpTry, envChanged, BootFile, cutShort>>

\* The ACK: BootpCopyNetParams(), whose setenv() of the boot file, as soon as
\* there is one, changes the environment, and TftpStart().
RxAck ==
  \E m \in dnet, dup \in BOOLEAN :
    /\ DhcpReceive(m, dup) /\ BootpCheckPkt(m)
    /\ dhcp_state = "REQUESTING" /\ IsAck(m)
    /\ DhcpOptionsProcess(m)
    /\ NetOurIP' = m.ip
    /\ BootFile' = (BootFile \/ m.server \in GivesFile)
    /\ envChanged' = (envChanged \/ BootFile')
    /\ dhcp_state' = "BOUND"
    /\ proto' = "TFTP"
    /\ HandlerRearms
    /\ TftpStart(net)
    /\ dnet' = DLeft(m, dup)
    /\ UNCHANGED <<NetBootFileXferSize, BootpID, BootpTry, cutShort>>

RxDhcpIgnored ==
  \E m \in dnet, dup \in BOOLEAN :
    /\ DhcpReceive(m, dup)
    /\ BootpCheckPkt(m) => dhcp_state = "REQUESTING" /\ ~IsAck(m)
    /\ HandlerIgnores
    /\ dnet' = DLeft(m, dup)
    /\ UNCHANGED <<arpVars, tftpVars, loadVars, sendVars, NetOurIP, dhcpVars>>

\* Packets of the TFTP server for the DHCP client.
RxNotDhcp ==
  \E m \in net, dup \in BOOLEAN :
    /\ proto = "DHCP"
    /\ AtTftp(m, dup)
    /\ m.op = "ARPREP" => NetOurIP = 0
    /\ net' = Left(m, dup)
    /\ HandlerIgnores
    /\ UNCHANGED <<arpVars, tftpVars, loadVars, NetServerEther,
                   NetArpWaitTxPacket, dhcpVars, dnet, pool>>

(***************************************************************************)
(* Timeouts.  As in module Tftp, a timeout that comes while an answer that *)
(* would be used is under way counts as a fault of the network.            *)
(***************************************************************************)
DhcpQuiet ==
  /\ NetState = "CONTINUE"
  /\ eth_current \in Wired => \A m \in dnet :
       m.id = BootpID =>
         \/ m.op = "NAK"
         \/ m.op = "OFFER" /\ dhcp_state = "REQUESTING"
         \/ m.op = "REQUEST" /\ m.to # m.server

\* Mutants: the request is sent again without arming the timer; the retries
\* are not counted; one too many is allowed.
BootpTimeoutOnce ==
  /\ proto = "DHCP"
  /\ pc = "timer" /\ timeHandler = "proto"
  /\ Expires(DhcpQuiet)
  /\ timeHandler' = "none"
  /\ pc' = "switch"
  /\ BootpRequest(0)
  /\ UNCHANGED <<NetState, NetTryCount, NetRestarted, NetDevExists, devVars,
                 packetHandler, arpVars, hist, tftpVars, loadVars, sendVars,
                 NetOurIP, srv, proto, NetDHCPServerIP, NetOurGatewayIP,
                 envChanged, BootFile, cutShort, pool>>

BootpTimeoutForever ==
  /\ proto = "DHCP"
  /\ Expires(DhcpQuiet)
  /\ ProtoTimeoutResends /\ UNCHANGED arpVars
  /\ BootpRequest(0)
  /\ UNCHANGED <<tftpVars, loadVars, sendVars, NetOurIP, srv, proto,
                 NetDHCPServerIP, NetOurGatewayIP, envChanged, BootFile, cutShort,
                 pool>>

BootpTimeoutLate ==
  /\ proto = "DHCP"
  /\ Expires(DhcpQuiet)
  /\ \/ /\ BootpTry > BootpTimeoutCount
        /\ ProtoTimeoutStartsAgain
        /\ UNCHANGED <<dhcp_state, BootpID, BootpTry, dnet>>
     \/ /\ BootpTry <= BootpTimeoutCount
        /\ ProtoTimeoutResends /\ UNCHANGED arpVars
        /\ BootpRequest(BootpTry)
  /\ UNCHANGED <<tftpVars, loadVars, sendVars, NetOurIP, srv, proto,
                 NetDHCPServerIP, NetOurGatewayIP, envChanged, BootFile, cutShort,
                 pool>>

BootpTimeout ==
  /\ proto = "DHCP"
  /\ Expires(DhcpQuiet)
  /\ \/ /\ BootpTry >= BootpTimeoutCount
        /\ ProtoTimeoutStartsAgain
        /\ UNCHANGED <<dhcp_state, BootpID, BootpTry, dnet>>
     \/ /\ BootpTry < BootpTimeoutCount
        /\ ProtoTimeoutResends /\ UNCHANGED arpVars
        /\ BootpRequest(BootpTry)
  /\ UNCHANGED <<tftpVars, loadVars, sendVars, NetOurIP, srv, proto,
                 NetDHCPServerIP, NetOurGatewayIP, envChanged, BootFile, cutShort,
                 pool>>

\* ArpTimeoutCheck() for the packet of an earlier attempt.
StaleArpRetry ==
  /\ proto = "DHCP"
  /\ ArpRetry
  /\ Expires(DhcpQuiet)
  /\ UNCHANGED <<tftpVars, loadVars, NetServerEther, NetArpWaitTxPacket,
                 NetOurIP, srv, dhcpVars, dnet, pool>>
  /\ EthSend(net, ArpReq)

StaleArpGiveUp ==
  /\ proto = "DHCP"
  /\ ArpGiveUp
  /\ Expires(DhcpQuiet)
  /\ cutShort' = TRUE
  /\ UNCHANGED <<tftpVars, loadVars, sendVars, NetOurIP, srv, proto, dhcp_state,
                 BootpID, BootpTry, NetDHCPServerIP, NetOurGatewayIP, envChanged,
                 BootFile, dnet, pool>>

(***************************************************************************)
(* The servers (external).  A server keeps one address for us at a time:   *)
(* free, offered or leased.  An offer that is not taken up may go to       *)
(* another host (a fault, to bound it), and then the server has its next   *)
(* address for us.                                                         *)
(***************************************************************************)
Answer(m, op, ip) == [op |-> op, id |-> m.id, to |-> 0, server |-> m.to, ip |-> ip]

ServeDiscover ==
  \E m \in dnet, dup \in BOOLEAN :
    /\ m.op = "DISCOVER"
    /\ Receive(m, dup)
    /\ LET p == pool[m.to] IN
       /\ pool' = [pool EXCEPT ![m.to].state =
                     IF p.state = "free" THEN "offered" ELSE p.state]
       /\ dnet' = DLeft(m, dup) \union {Answer(m, "OFFER", Address(m.to, p.n))}
    /\ UNCHANGED <<loopVars, tftpVars, loadVars, sendVars, NetOurIP, srv,
                   dhcpVars>>

ServeRequest ==
  \E m \in dnet, dup \in BOOLEAN :
    /\ m.op = "REQUEST"
    /\ Receive(m, dup)
    /\ LET p == pool[m.to]
           ours == p.state # "free" /\ m.ip = Address(m.to, p.n)
       IN IF m.server = m.to
          THEN /\ pool' = [pool EXCEPT ![m.to].state = IF ours THEN "leased" ELSE @]
               /\ dnet' = DLeft(m, dup) \union
                    {Answer(m, IF ours THEN "ACK" ELSE "NAK", m.ip)}
          ELSE /\ pool' = [pool EXCEPT ![m.to].state =
                             IF p.state = "offered" THEN "free" ELSE @]
               /\ dnet' = DLeft(m, dup)
    /\ UNCHANGED <<loopVars, tftpVars, loadVars, sendVars, NetOurIP, srv,
                   dhcpVars>>

OfferExpires ==
  \E s \in Server :
    /\ pool[s].state = "offered" /\ pool[s].n < PoolSize
    /\ pool' = [pool EXCEPT ![s] = [n |-> @.n + 1, state |-> "free"]]
    /\ faults < MaxFaults /\ faults' = faults + 1
    /\ UNCHANGED <<loopVars, tftpVars, loadVars, sendVars, NetOurIP, srv,
                   dhcpVars, dnet>>

(***************************************************************************)
(* The system.                                                             *)
(***************************************************************************)
NetBootInit ==
  /\ TftpInitBut
  /\ NetOurIP = 0
  /\ proto = "DHCP"
  /\ dhcp_state = "INIT"
  /\ BootpID = 0
  /\ BootpTry = 0
  /\ NetDHCPServerIP = 0
  /\ NetOurGatewayIP = 0
  /\ envChanged = FALSE
  /\ BootFile = FALSE
  /\ cutShort = FALSE
  /\ dnet = {}
  /\ pool = [s \in Server |-> [n |-> 1, state |-> "free"]]

boots == <<dhcpVars, dnet, pool>>

DhcpRx == RxOffer \/ RxAck \/ RxDhcpIgnored \/ RxNotDhcp

BootClient ==
  \/ RestartDhcp \/ RestartDhcpNoMac \/ DhcpRx
  \/ BootpTimeout \/ StaleArpRetry \/ StaleArpGiveUp
  \/ LoopStep /\ UNCHANGED boots
  \/ proto = "TFTP" /\ TftpStep /\ UNCHANGED boots

BootEnv ==
  /\ pc = "rx"
  /\ \/ ServeDiscover \/ ServeRequest \/ OfferExpires \/ DLose
     \/ (ServerStep \/ Lose) /\ UNCHANGED boots

NetBootNext ==
  BootClient \/ BootEnv \/ (Returned /\ UNCHANGED bootVars)

NetBootSpec == NetBootInit /\ [][NetBootNext]_bootVars

\* Fairness.  The client is a loop that never blocks, so it always takes a
\* next step, and eth_rx() returns (the ring of the device is finite and its
\* packets come much slower than they are handled).  The device hands over
\* the packets that have arrived, an armed timer expires some time, and the
\* servers answer and retransmit: each of these is possible only at one
\* control point of every turn, hence SF.
BootFairness ==
  /\ WF_bootVars(BootClient)
  /\ WF_bootVars(RxDone /\ UNCHANGED <<others, boots>>)
  /\ SF_bootVars(DhcpRx \/ (proto = "TFTP" /\ ClientRx /\ UNCHANGED boots))
  /\ SF_bootVars(BootpTimeout \/ (proto = "TFTP" /\ TftpTimeout /\ UNCHANGED boots)
                   \/ (StartAgainTimeout /\ UNCHANGED <<others, boots>>))
  /\ SF_bootVars(pc = "rx" /\ (ServeDiscover \/ ServeRequest
                   \/ ((SrvRrq \/ SrvAck \/ SrvArp) /\ UNCHANGED boots)))
  /\ SF_bootVars(pc = "rx" /\ SrvResend /\ UNCHANGED boots)

FairNetBoot == NetBootSpec /\ BootFairness

(***************************************************************************)
(* Properties.                                                             *)
(***************************************************************************)
Message == [op : {"DISCOVER", "REQUEST"} \union FromServer, id : Nat,
            to : Server \union {0}, server : Server \union {0}, ip : Nat]

\* The types of the variables; no attempt sends more than TIMEOUT_COUNT
\* broadcasts.
NetBootTypeOK ==
  /\ TftpTypeOK
  /\ proto \in {"DHCP", "TFTP"}
  /\ dhcp_state \in {"INIT", "SELECTING", "REQUESTING", "BOUND"}
  /\ BootpID \in Nat
  /\ BootpTry \in 0 .. BootpTimeoutCount
  /\ NetDHCPServerIP \in Server \union {0}
  /\ NetOurGatewayIP \in Server \union {0}
  /\ envChanged \in BOOLEAN /\ BootFile \in BOOLEAN /\ cutShort \in BOOLEAN
  /\ dnet \subseteq Message
  /\ pool \in [Server -> [n : 1 .. PoolSize, state : {"free", "offered", "leased"}]]

\* The address the client loads its file under is one that a server has leased
\* to it, and the server and the gateway it has noted are that server's: no
\* late, repeated or refused answer of another exchange gets mixed in,
\* although the handler looks at the message type in one state only and never
\* at the server.  (A server that gives no gateway leaves the one of an
\* earlier offer in place.)
BoundIsLeased ==
  proto = "TFTP" /\ NetOurIP # 0 =>
    LET s == NetDHCPServerIP IN
    /\ s # 0
    /\ pool[s].state = "leased" /\ NetOurIP = Address(s, pool[s].n)
    /\ s \in GivesGateway => NetOurGatewayIP \in {s, 0}

\* What the dhcp command promises its callers, netretry unset: as long as one
\* device is connected and the faults of the network are finitely many, the
\* client is bound and the file is loaded in the end, whichever device the
\* operation began with.  The exception: the packet of an abandoned transfer
\* goes on waiting for ARP, and when ArpTimeoutCheck() gives it up in the
\* middle of a later DHCP attempt, or of the pause before it, the rotation
\* skips that attempt's device; in step with the other timers, for ever.
EventuallyBooted ==
  <>(cutShort \/ (Returned /\ proto = "TFTP" /\ NetState = "SUCCESS" /\ LoadedIsFile))

====
