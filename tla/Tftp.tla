-------------------------------- MODULE Tftp --------------------------------
(***************************************************************************)
(* The TFTP client of net/tftp.c running in the network loop, the ARP      *)
(* exchange of net/net.c it sends through, a network that loses,           *)
(* duplicates and reorders packets, and a lock-step TFTP server (external: *)
(* RFC 1350 / 2347 as the client uses it).                                 *)
(*                                                                         *)
(* The file is FileLen units long and unit i has content i.  A block size  *)
(* is a number of units, so that the two sizes in play (the default one    *)
(* and the negotiated one) and the short last block keep their meaning.    *)
(* Memory is a function from unit addresses, relative to load_addr.        *)
(***************************************************************************)
EXTENDS NetLoop, FiniteSetsExt

CONSTANTS
  FileLen,          \* units in the file
  DefBlk,           \* TFTP_BLOCK_SIZE (512)
  OptBlk,           \* TftpBlkSizeOption, the size asked for in the RRQ
  SequenceSize,     \* TFTP_SEQUENCE_SIZE (1 << 16)
  RRQTimeoutMax,    \* TftpRRQTimeoutCountMax
  TimeoutCount,     \* TIMEOUT_COUNT
  Wired,            \* devices that are connected to the server's network
  MemSize,          \* bound: units of memory above load_addr that are modelled
  MaxSessions,      \* bound: transfers the server can open
  MaxFaults,        \* bound: packets lost or duplicated, premature timeouts
  LoseOps,          \* kinds of packets that may be lost
  DupOps,           \* kinds that may be duplicated; "TIMER": early timeouts
  Replies,          \* how the server may answer an RRQ
  Abort             \* the user may press ctrl-C

WELL_KNOWN_PORT == 0
HalfTurn == SequenceSize \div 2   \* of the sequence number
Tid == 1 .. MaxSessions

ASSUME TftpAssumption ==
  /\ FileLen \in Nat
  /\ DefBlk \in Nat \ {0} /\ OptBlk \in Nat \ {0}
  /\ SequenceSize \in Nat /\ SequenceSize > 1
  /\ SequenceSize % HalfTurn = 0
  /\ RRQTimeoutMax \in Nat /\ TimeoutCount \in Nat
  /\ Wired \subseteq Dev
  /\ MemSize \in Nat /\ MemSize >= FileLen
  /\ MaxSessions \in Nat /\ MaxFaults \in Nat
  /\ Replies \subseteq {"OACK", "DATA", "NOTFOUND", "BUSY"}
  /\ Abort \in BOOLEAN

VARIABLES
  TftpState,            \* "RRQ", "OACK" or "DATA"
  TftpServerPort,       \* the server's port, WELL_KNOWN_PORT at first
  TftpOurPort,          \* our port
  TftpTimeoutCount, TftpTimeoutCountMax,
  TftpBlock,            \* sequence number of the block just received
  TftpLastBlock,        \* ... and of the last one that was stored
  TftpBlockWrapOffset,  \* memory offset due to wrapping
  TftpBlkSize,          \* block size in use
  NetOurIP,             \* our address, 0: unknown
  NetServerEther,       \* TRUE iff the server's MAC address is known
  NetArpWaitTxPacket,   \* the packet that waits for the ARP reply
  mem,                  \* memory from load_addr on
  NetBootFileXferSize,  \* units received so far
  net,                  \* packets in flight
  srv,                  \* the server's transfers, by TID
  faults,               \* losses, duplications and premature timeouts so far
  miscounted            \* history: this attempt met one of the two cases below
                        \* in which tftp.c loses count of its blocks

tftpVars == <<TftpState, TftpServerPort, TftpOurPort, TftpTimeoutCount,
              TftpTimeoutCountMax, TftpBlock, TftpLastBlock,
              TftpBlockWrapOffset, TftpBlkSize>>
loadVars == <<mem, NetBootFileXferSize, miscounted>>
sendVars == <<NetServerEther, NetArpWaitTxPacket, net>>
vars     == <<loopVars, tftpVars, loadVars, sendVars, NetOurIP, srv, faults>>

Garbage  == -1          \* what memory holds before the transfer
NoPacket == [op |-> "none"]
ArpReq   == [op |-> "ARPREQ", ip |-> NetOurIP']

ToClient == {"OACK", "DATA", "ERROR", "ARPREP"}

(***************************************************************************)
(* The network.  Receive(m, dup): m is taken from the network, and a copy  *)
(* stays in flight if dup; Left(m, dup) is what the network then holds.    *)
(***************************************************************************)
Left(m, dup) == IF dup THEN net ELSE net \ {m}

Receive(m, dup) ==
  /\ dup => faults < MaxFaults /\ m.op \in DupOps
  /\ faults' = IF dup THEN faults + 1 ELSE faults

Lose ==
  /\ faults < MaxFaults
  /\ \E m \in net : m.op \in LoseOps /\ net' = net \ {m}
  /\ faults' = faults + 1
  /\ UNCHANGED <<loopVars, tftpVars, loadVars, NetServerEther,
                 NetArpWaitTxPacket, NetOurIP, srv>>

\* eth_send() on the current device.
EthSend(rest, p) == net' = rest \union (IF eth_current \in Wired THEN {p} ELSE {})

(***************************************************************************)
(* NetSendUDPPacket() and TftpSend().  rest is what the network holds at   *)
(* the time; known tells whether the MAC address is known.                 *)
(***************************************************************************)
NetSendUDPPacket(known, rest, p) ==
  /\ NetServerEther' = known
  /\ IF known
     THEN EthSend(rest, p) /\ UNCHANGED <<arpVars, NetArpWaitTxPacket>>
     ELSE /\ EthSend(rest, ArpReq)
          /\ NetArpWaitTxPacket' = p
          /\ SendStartsArp

Rrq(our, port)        == [op |-> "RRQ", src |-> our, dst |-> port]
Ack(our, port, block) == [op |-> "ACK", src |-> our, dst |-> port, block |-> block]

TftpPacket(state, our, port, block) ==
  IF state = "RRQ" THEN Rrq(our, port) ELSE Ack(our, port, block)

(***************************************************************************)
(* TftpStart(), called from label restart: of the loop, which then clears  *)
(* NetBootFileXferSize, or from the handler of DHCP (module NetBoot).      *)
(* TftpBlockWrapOffset and TftpLastBlock keep their                        *)
(* old values until the first block arrives.  The port is taken from the   *)
(* timer: successive attempts are taken to get different ones.             *)
(***************************************************************************)
TftpStart(rest) ==
  /\ TftpTimeoutCountMax' = RRQTimeoutMax
  /\ TftpServerPort' = WELL_KNOWN_PORT
  /\ TftpTimeoutCount' = 0
  /\ TftpState' = "RRQ"
  /\ TftpOurPort' = TftpOurPort + 1
  /\ TftpBlock' = 0
  /\ TftpBlkSize' = DefBlk
  /\ NetSendUDPPacket(FALSE, rest,
       TftpPacket("RRQ", TftpOurPort', WELL_KNOWN_PORT, 0))
  /\ miscounted' = FALSE
  /\ UNCHANGED <<TftpLastBlock, TftpBlockWrapOffset, mem>>

\* Label restart: for the TFTP command.
RestartTftp ==
  /\ RestartBegin
  /\ UNCHANGED <<NetOurIP, srv, faults>>
  /\ TftpStart(net)
  /\ NetBootFileXferSize' = 0

(***************************************************************************)
(* TftpHandler().                                                          *)
(***************************************************************************)
\* A packet is received on the current device during eth_rx().
AtClient(m, dup) ==
  /\ pc = "rx"
  /\ eth_current \in Wired
  /\ m.op \in ToClient
  /\ Receive(m, dup)
  /\ UNCHANGED <<pc, NetRestarted, NetDevExists, srv>>

\* ... and leaves our address alone.
AtTftp(m, dup) == AtClient(m, dup) /\ UNCHANGED NetOurIP

\* The two port checks at the top of the handler.
ForUs(m) ==
  /\ packetHandler = "proto"
  /\ m.op \in {"OACK", "DATA", "ERROR"}
  /\ m.dst = TftpOurPort
  /\ TftpState = "RRQ" \/ m.src = TftpServerPort

\* Not for us, or the handler is startAgainHandler().
RxIgnored ==
  \E m \in net, dup \in BOOLEAN :
    /\ AtTftp(m, dup)
    /\ m.op # "ARPREP" /\ ~ForUs(m)
    /\ net' = Left(m, dup)
    /\ HandlerIgnores
    /\ UNCHANGED <<arpVars, tftpVars, loadVars, NetServerEther,
                   NetArpWaitTxPacket>>

\* Mutant: the block size in the acknowledgement is not looked at.
RxOackDeaf ==
  \E m \in net, dup \in BOOLEAN :
    /\ AtTftp(m, dup) /\ ForUs(m)
    /\ m.op = "OACK"
    /\ TftpState' = "OACK"
    /\ TftpServerPort' = m.src
    /\ NetSendUDPPacket(NetServerEther, Left(m, dup),
         TftpPacket("OACK", TftpOurPort, m.src, TftpBlock))
    /\ HandlerIgnores
    /\ UNCHANGED <<TftpOurPort, TftpTimeoutCount, TftpTimeoutCountMax, TftpBlock,
                   TftpLastBlock, TftpBlockWrapOffset, TftpBlkSize, loadVars>>

\* An option acknowledgement is accepted in every state, and one that is late
\* makes the next block the first one again.
RxOack ==
  \E m \in net, dup \in BOOLEAN :
    /\ AtTftp(m, dup) /\ ForUs(m)
    /\ m.op = "OACK"
    /\ TftpState' = "OACK"
    /\ TftpServerPort' = m.src
    /\ TftpBlkSize' = m.blksize
    /\ NetSendUDPPacket(NetServerEther, Left(m, dup),
         TftpPacket("OACK", TftpOurPort, m.src, TftpBlock))
    /\ miscounted' = (miscounted \/ TftpState = "DATA")
    /\ HandlerIgnores
    /\ UNCHANGED <<TftpOurPort, TftpTimeoutCount, TftpTimeoutCountMax, TftpBlock,
                   TftpLastBlock, TftpBlockWrapOffset, mem, NetBootFileXferSize>>

FirstBlock == TftpState \in {"RRQ", "OACK"}

\* The sequence number 0 announces a wrap-around, whether or not it is the
\* block after the last one.  The offset saturates where every address is
\* beyond the memory that is modelled.
OffsetBound == MemSize + (DefBlk + OptBlk) * SequenceSize

WrapOffset(m) ==
  IF m.block = 0
  THEN Min({OffsetBound, TftpBlockWrapOffset + TftpBlkSize * SequenceSize})
  ELSE TftpBlockWrapOffset

CountedTwice(m) ==
  ~FirstBlock /\ m.block = 0 /\ TftpLastBlock # SequenceSize - 1

\* ... but the first block of a transfer resets the offset.
LastBlockNow == IF FirstBlock THEN 0 ELSE TftpLastBlock

\* Mutant: it does not.
OffsetKept(m) == WrapOffset(m)

OffsetNow(m) == IF FirstBlock THEN 0 ELSE WrapOffset(m)

\* "First block is not block 1": start again.
RxDataNotFirst ==
  \E m \in net, dup \in BOOLEAN :
    /\ AtTftp(m, dup) /\ ForUs(m)
    /\ m.op = "DATA" /\ FirstBlock /\ m.block # 1
    /\ TftpBlock' = m.block
    /\ TftpState' = "DATA"
    /\ TftpServerPort' = m.src
    /\ TftpLastBlock' = 0
    /\ TftpBlockWrapOffset' = 0
    /\ net' = Left(m, dup)
    /\ HandlerStartsAgain
    /\ UNCHANGED <<TftpOurPort, TftpTimeoutCount, TftpTimeoutCountMax,
                   TftpBlkSize, loadVars, arpVars, NetServerEther,
                   NetArpWaitTxPacket>>

\* "Same block again; ignore it."  The wrap-around has been counted by then.
RxDataAgain ==
  \E m \in net, dup \in BOOLEAN :
    /\ AtTftp(m, dup) /\ ForUs(m)
    /\ m.op = "DATA" /\ ~FirstBlock /\ m.block = TftpLastBlock
    /\ TftpBlock' = m.block
    /\ TftpBlockWrapOffset' = WrapOffset(m)
    /\ miscounted' = (miscounted \/ CountedTwice(m))
    /\ net' = Left(m, dup)
    /\ HandlerIgnores
    /\ UNCHANGED <<TftpState, TftpServerPort, TftpOurPort, TftpTimeoutCount,
                   TftpTimeoutCountMax, TftpLastBlock, TftpBlkSize, mem,
                   NetBootFileXferSize, arpVars, NetServerEther, NetArpWaitTxPacket>>

\* store_block(): copy len units to offset; the file can only grow.
CopyUnits(offset, m, len) ==
  mem' = [a \in 0 .. MemSize - 1 |->
            IF offset <= a /\ a < offset + len THEN m.base + (a - offset)
                                               ELSE mem[a]]
GrowTo(newsize) ==
  NetBootFileXferSize' =
    IF NetBootFileXferSize < newsize THEN newsize ELSE NetBootFileXferSize

\* Mutants: one unit too many, one too few.
StoreBlockLong(offset, m) ==
  CopyUnits(offset, m, m.len + 1) /\ GrowTo(offset + m.len)
StoreBlockShort(offset, m) ==
  CopyUnits(offset, m, m.len - 1) /\ GrowTo(offset + m.len)

StoreBlock(offset, m) ==
  CopyUnits(offset, m, m.len) /\ GrowTo(offset + m.len)

\* Any other block is stored and acknowledged; a short one is the last.
RxDataStore ==
  \E m \in net, dup \in BOOLEAN :
    /\ AtTftp(m, dup) /\ ForUs(m)
    /\ m.op = "DATA"
    /\ FirstBlock => m.block = 1
    /\ m.block # LastBlockNow
    /\ TftpBlock' = m.block
    /\ TftpLastBlock' = m.block
    /\ TftpBlockWrapOffset' = OffsetNow(m)
    /\ TftpState' = "DATA"
    /\ TftpServerPort' = m.src
    /\ TftpTimeoutCountMax' = TimeoutCount
    /\ miscounted' = (miscounted \/ CountedTwice(m))
    /\ StoreBlock((m.block - 1) * TftpBlkSize + OffsetNow(m), m)
    /\ NetSendUDPPacket(NetServerEther, Left(m, dup),
         TftpPacket("DATA", TftpOurPort, m.src, m.block))
    /\ IF m.len < TftpBlkSize THEN HandlerSucceeds /\ timeHandler' = "proto"
                              ELSE HandlerRearms
    /\ UNCHANGED <<TftpOurPort, TftpTimeoutCount, TftpBlkSize>>

\* The server's errors: two of them end the operation, the others start again.
RxError ==
  \E m \in net, dup \in BOOLEAN :
    /\ AtTftp(m, dup) /\ ForUs(m)
    /\ m.op = "ERROR"
    /\ IF m.code \in {"FILE_NOT_FOUND", "ACCESS_DENIED"} THEN HandlerFails
                                                         ELSE HandlerStartsAgain
    /\ net' = Left(m, dup)
    /\ UNCHANGED <<tftpVars, loadVars, arpVars, NetServerEther,
                   NetArpWaitTxPacket>>

(***************************************************************************)
(* NetReceive(), ARP reply to our address: the waiting packet goes out.    *)
(***************************************************************************)
RxArp ==
  \E m \in net, dup \in BOOLEAN :
    /\ AtTftp(m, dup)
    /\ m.op = "ARPREP"
    /\ HandlerIgnores
    /\ UNCHANGED <<tftpVars, loadVars, NetArpWaitTry, NetArpWaitTxPacket>>
    /\ IF NetArpWait /\ NetOurIP # 0 /\ m.ip = NetOurIP
       THEN /\ NetServerEther' = TRUE
            /\ EthSend(Left(m, dup), NetArpWaitTxPacket)
            /\ NetArpWait' = FALSE
       ELSE net' = Left(m, dup) /\ UNCHANGED <<NetArpWait, NetServerEther>>

(***************************************************************************)
(* The rest of a turn of the loop.                                         *)
(***************************************************************************)
others == <<tftpVars, loadVars, sendVars, NetOurIP, srv, faults>>

\* A timeout is longer than the delays of the network: it finds nothing under
\* way that would still bring the transfer on.  A timeout for which this fails counts
\* as a fault of the network, and so does one in the very turn in which a
\* handler ended the attempt.  The two timers run in step (ARP_TIMEOUT and the
\* TFTP timeout are both 5000 ms, and a send restarts the ARP one): between
\* two sends ARP expires at most once, or it is a fault too.
Useful(m) ==
  \/ m.op \in {"RRQ", "ACK", "ARPREQ", "ARPREP"}
  \/ ForUs(m) /\ ~(m.op = "DATA" /\ ~FirstBlock /\ m.block = TftpLastBlock)
Quiet ==
  /\ NetState = "CONTINUE"
  /\ eth_current \in Wired => \A m \in net : ~Useful(m)
Expires(intime) ==
  IF intime THEN UNCHANGED faults
            ELSE "TIMER" \in DupOps /\ faults < MaxFaults /\ faults' = faults + 1

TftpArpRetry ==
  /\ ArpRetry
  /\ Expires(Quiet /\ NetArpWaitTry = 1)
  /\ UNCHANGED <<tftpVars, loadVars, NetServerEther, NetArpWaitTxPacket,
                 NetOurIP, srv>>
  /\ EthSend(net, ArpReq)

TftpArpGiveUp ==
  /\ ArpGiveUp
  /\ Expires(Quiet /\ NetArpWaitTry = 1)
  /\ UNCHANGED <<tftpVars, loadVars, sendVars, NetOurIP, srv>>

\* Mutant: the packet is sent again without arming the timer.
TftpTimeoutOnce ==
  /\ pc = "timer" /\ timeHandler = "proto"
  /\ Expires(Quiet)
  /\ UNCHANGED NetOurIP
  /\ TftpTimeoutCount' = TftpTimeoutCount + 1
  /\ timeHandler' = "none"
  /\ pc' = "switch"
  /\ NetSendUDPPacket(NetServerEther, net,
       TftpPacket(TftpState, TftpOurPort, TftpServerPort, TftpBlock))
  /\ UNCHANGED <<NetState, NetTryCount, NetRestarted, NetDevExists, devVars,
                 packetHandler, hist, TftpState, TftpServerPort, TftpOurPort,
                 TftpTimeoutCountMax, TftpBlock, TftpLastBlock,
                 TftpBlockWrapOffset, TftpBlkSize, loadVars, srv>>

\* TftpTimeout(): send the last packet again, or start again.
TftpTimeout ==
  /\ Expires(Quiet)
  /\ UNCHANGED NetOurIP
  /\ TftpTimeoutCount' = TftpTimeoutCount + 1
  /\ \/ /\ TftpTimeoutCount + 1 > TftpTimeoutCountMax
        /\ ProtoTimeoutStartsAgain
        /\ UNCHANGED sendVars
     \/ /\ TftpTimeoutCount + 1 <= TftpTimeoutCountMax
        /\ ProtoTimeoutResends
        /\ NetSendUDPPacket(NetServerEther, net,
             TftpPacket(TftpState, TftpOurPort, TftpServerPort, TftpBlock))
  /\ UNCHANGED <<TftpState, TftpServerPort, TftpOurPort, TftpTimeoutCountMax,
                 TftpBlock, TftpLastBlock, TftpBlockWrapOffset, TftpBlkSize,
                 loadVars, srv>>

\* Steps that are the loop's alone.  One operation is modelled.
LoopStep ==
  /\ \/ NetLoopCall /\ packetHandler = "none"
     \/ RxDone
     \/ CtrlC /\ Abort
     \/ ArpNotExpired
     \/ TimerNotExpired
     \/ StartAgainTimeout
     \/ SwitchContinue \/ SwitchRestart \/ SwitchReturn
  /\ UNCHANGED others

ClientRx == RxIgnored \/ RxOack \/ RxDataNotFirst \/ RxDataAgain \/ RxDataStore
              \/ RxError \/ RxArp

(***************************************************************************)
(* The server (external).  A transfer is at block k of the file; k = 0     *)
(* means that its OACK waits for ACK 0.                                    *)
(***************************************************************************)
Free == [client |-> 0, bs |-> DefBlk, k |-> 0, open |-> FALSE]

LastK(bs) == FileLen \div bs + 1
LenOf(bs, k) == IF k < LastK(bs) THEN bs ELSE FileLen - (k - 1) * bs

SrvPacket(t, s) ==
  IF s.k = 0
  THEN [op |-> "OACK", src |-> t, dst |-> s.client, blksize |-> s.bs]
  ELSE [op |-> "DATA", src |-> t, dst |-> s.client,
        block |-> s.k % SequenceSize, base |-> (s.k - 1) * s.bs,
        len |-> LenOf(s.bs, s.k)]

SrvError(t, c, code) == [op |-> "ERROR", src |-> t, dst |-> c, code |-> code]

\* A request of client c opens a transfer, or is refused with an error ...
Opened(c, r) ==
  [client |-> c, open |-> r \in {"OACK", "DATA"},
   bs |-> IF r = "OACK" THEN OptBlk ELSE DefBlk, k |-> IF r = "OACK" THEN 0 ELSE 1]

FirstReply(t, c, r) ==
  CASE r = "NOTFOUND" -> SrvError(t, c, "FILE_NOT_FOUND")
    [] r = "BUSY"     -> SrvError(t, c, "UNDEFINED")
    [] OTHER          -> SrvPacket(t, Opened(c, r))

\* ... under a new TID.
SrvRrq ==
  \E m \in net, dup \in BOOLEAN, t \in Tid, r \in Replies :
    /\ m.op = "RRQ"
    /\ Receive(m, dup)
    /\ srv[t] = Free /\ \A u \in 1 .. t - 1 : srv[u] # Free
    /\ srv' = [srv EXCEPT ![t] = Opened(m.src, r)]
    /\ net' = Left(m, dup) \union {FirstReply(t, m.src, r)}
    /\ UNCHANGED <<loopVars, tftpVars, loadVars, NetServerEther,
                   NetArpWaitTxPacket, NetOurIP>>

\* No packet lives for half a turn of the sequence number: twice a turn the
\* transfer's older packets are all gone.
NoneOutlives(t, k, rest) ==
  k % HalfTurn = 0 =>
    \A m \in rest : /\ m.op = "ACK" => m.dst # t
                    /\ m.op = "DATA" => m.src # t

\* The ACK of the block that was sent last brings the next one; any other is
\* ignored.
SrvAck ==
  \E m \in net, dup \in BOOLEAN :
    /\ m.op = "ACK"
    /\ Receive(m, dup)
    /\ LET t == m.dst
           s == srv[t]
           next == [s EXCEPT !.k = s.k + 1]
       IN IF s.open /\ m.src = s.client /\ m.block = s.k % SequenceSize
          THEN IF s.k < LastK(s.bs)
               THEN /\ NoneOutlives(t, next.k, Left(m, dup))
                    /\ srv' = [srv EXCEPT ![t] = next]
                    /\ net' = Left(m, dup) \union {SrvPacket(t, next)}
               ELSE /\ srv' = [srv EXCEPT ![t].open = FALSE]
                    /\ net' = Left(m, dup)
          ELSE net' = Left(m, dup) /\ UNCHANGED srv
    /\ UNCHANGED <<loopVars, tftpVars, loadVars, NetServerEther,
                   NetArpWaitTxPacket, NetOurIP>>

SrvArp ==
  \E m \in net, dup \in BOOLEAN :
    /\ m.op = "ARPREQ"
    /\ Receive(m, dup)
    /\ net' = Left(m, dup) \union {[op |-> "ARPREP", ip |-> m.ip]}
    /\ UNCHANGED <<loopVars, tftpVars, loadVars, NetServerEther,
                   NetArpWaitTxPacket, NetOurIP, srv>>

\* The server's own timeout: it sends its last packet again.
SrvResend ==
  \E t \in Tid :
    /\ srv[t].open
    /\ SrvPacket(t, srv[t]) \notin net
    /\ Expires(Quiet)
    /\ net' = net \union {SrvPacket(t, srv[t])}
    /\ UNCHANGED <<loopVars, tftpVars, loadVars, NetServerEther,
                   NetArpWaitTxPacket, NetOurIP, srv>>

TftpInitBut ==
  /\ Init
  /\ TftpState = "RRQ"
  /\ TftpServerPort = WELL_KNOWN_PORT
  /\ TftpOurPort = 0
  /\ TftpTimeoutCount = 0
  /\ TftpTimeoutCountMax = TimeoutCount
  /\ TftpBlock = 0
  /\ TftpLastBlock = 0
  /\ TftpBlockWrapOffset = 0
  /\ TftpBlkSize = DefBlk
  /\ NetServerEther = FALSE
  /\ NetArpWaitTxPacket = NoPacket
  /\ mem = [a \in 0 .. MemSize - 1 |-> Garbage]
  /\ NetBootFileXferSize = 0
  /\ net = {}
  /\ srv = [t \in Tid |-> Free]
  /\ faults = 0
  /\ miscounted = FALSE

\* net_check_prereq(): the TFTP command needs an address of its own.
TftpInit == TftpInitBut /\ NetOurIP = 1

TftpStep == ClientRx \/ TftpArpRetry \/ TftpArpGiveUp \/ TftpTimeout
ClientStep == LoopStep \/ (RestartNoMac /\ UNCHANGED others) \/ RestartTftp
                \/ TftpStep
ServerStep == SrvRrq \/ SrvAck \/ SrvArp \/ SrvResend

\* The operation is over: the command has returned.
Returned == pc = "idle" /\ packetHandler # "none"

\* The other control points of a turn touch the network only by sending, so
\* the server's and the network's steps can be moved to the next eth_rx().
EnvStep == pc = "rx" /\ (ServerStep \/ Lose)

TftpNext == ClientStep \/ EnvStep \/ (Returned /\ UNCHANGED vars)

TftpSpec == TftpInit /\ [][TftpNext]_vars

(***************************************************************************)
(* Properties.                                                             *)
(***************************************************************************)
Session == [client : Nat, bs : {DefBlk, OptBlk}, k : Nat, open : BOOLEAN]

\* The types of the client's, the network's and the server's variables.
TftpTypeOK ==
  /\ TypeOK
  /\ TftpState \in {"RRQ", "OACK", "DATA"}
  /\ TftpServerPort \in Tid \union {WELL_KNOWN_PORT}
  /\ TftpOurPort \in Nat
  /\ TftpTimeoutCountMax \in {RRQTimeoutMax, TimeoutCount}
  /\ TftpTimeoutCount \in Nat
  /\ TftpBlock \in 0 .. SequenceSize - 1
  /\ TftpLastBlock \in 0 .. SequenceSize - 1
  /\ TftpBlockWrapOffset \in Nat
  /\ TftpBlkSize \in {DefBlk, OptBlk}
  /\ NetServerEther \in BOOLEAN /\ NetOurIP \in Nat
  /\ mem \in [0 .. MemSize - 1 -> {Garbage} \union 0 .. FileLen - 1]
  /\ NetBootFileXferSize \in Nat
  /\ srv \in [Tid -> Session]
  /\ faults \in 0 .. MaxFaults
  /\ miscounted \in BOOLEAN

Holds(a) == a \in 0 .. MemSize - 1 /\ mem[a] = a

\* "We received the whole thing.  Try to run it." (tftp.c): when the transfer
\* succeeds, memory holds exactly the file, whatever the network lost,
\* duplicated or delayed, and however often the client started again.
LoadedIsFile ==
  NetState = "SUCCESS" =>
    /\ NetBootFileXferSize = FileLen
    /\ \A a \in 0 .. FileLen - 1 : Holds(a)

\* It is so, across any number of wrap-arounds of the sequence number, unless
\* this attempt counted a wrap-around twice or took a late option
\* acknowledgement for a new start.
FileIntact == ~miscounted => LoadedIsFile

\* Apart from the same two cases what an attempt has received so far is the
\* beginning of the file, without gaps and without misplaced blocks, over
\* whatever an earlier attempt left there: NetBootFileXferSize, which the
\* handler only ever raises to the end of the block at hand, stands for all
\* the blocks below it.
ReceivedIsPrefix ==
  ~miscounted => \A a \in 0 .. NetBootFileXferSize - 1 : Holds(a)

\* The server goes on to a block only when the client has stored all the
\* blocks before it: an ACK on its way for the server's current block means
\* that the file is in memory up to the end of that block.
AckedIsStored ==
  ~miscounted => \A m \in net :
    m.op = "ACK" /\ m.dst # WELL_KNOWN_PORT /\ m.src = TftpOurPort =>
      LET s == srv[m.dst] IN
      s.open /\ s.k > 0 /\ m.block = s.k % SequenceSize =>
        \A a \in 0 .. (s.k - 1) * s.bs + LenOf(s.bs, s.k) - 1 : Holds(a)

\* The client uses the loop only as the abstract protocol of module NetLoop
\* does: its handlers, seen through the loop's variables, are steps of the
\* loop's specification.
LoopSpec == Spec

====
